----------------------- MODULE MCEndpointIdentifiers -----------------------
(***************************************************************************)
(* EndpointIdentifiers on three pods and two identifiers: one pod too many *)
(* for the identifiers, so that they are all in use and handed on.         *)
(***************************************************************************)
EXTENDS EndpointIdentifiers, TLC

(* The pods are interchangeable: for safety only. *)
Symmetry == Permutations(Pods)
=============================================================================
