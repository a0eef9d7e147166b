--------------------------- MODULE MCFwmarkOffset ---------------------------
(***************************************************************************)
(* FwmarkOffset on three services of sizes 1, 2 and 3 and a MaxInt of 11,  *)
(* small enough for searches to run into it: holes left by deletions are   *)
(* reused, are too small, or force a jump over several services.           *)
(***************************************************************************)
EXTENDS FwmarkOffset
=============================================================================
