--------------------------- MODULE FwmarkOwnership ---------------------------
(***************************************************************************)
(* What the rest of the load balancer needs from getOffset: a forwarding   *)
(* mark belongs to at most one service at a time.  A packet that nfqlb     *)
(* marks for a target of one service can then never be caught by the ip    *)
(* rule of another.                                                        *)
(*                                                                         *)
(* This is the abstract specification; FwmarkOffset, the search of the     *)
(* code, implements it.                                                    *)
(***************************************************************************)
EXTENDS Integers

CONSTANTS Names,   \* names of nfqlb services
          MarkSets \* the sets of marks a service may be given

VARIABLE owned     \* owned[n]: the marks of service n, {} when it does not exist

Init == owned = [n \in Names |-> {}]

(* A service that owns nothing is given a set of marks nobody owns. *)
Grant(n) ==
    /\ owned[n] = {}
    /\ \E S \in MarkSets :
        /\ \A other \in Names : owned[other] \cap S = {}
        /\ owned' = [owned EXCEPT ![n] = S]

(* A deleted service gives its marks back. *)
Release(n) ==
    /\ owned[n] # {}
    /\ owned' = [owned EXCEPT ![n] = {}]

Next == \E n \in Names : Grant(n) \/ Release(n)

Spec == Init /\ [][Next]_owned
=============================================================================
