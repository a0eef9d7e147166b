---------------------------- MODULE FwmarkRanges ----------------------------
(***************************************************************************)
(* The forwarding-mark arithmetic of pkg/nfqlb/offset.go.                  *)
(*                                                                         *)
(* Every nfqlb service owns maxTargets consecutive forwarding marks that   *)
(* start at its offset; target `identifier' of the service is steered with *)
(* the mark identifier + offset.  A table svcs maps the name of each       *)
(* service of the map `services' to a record with these two numbers.       *)
(***************************************************************************)
EXTENDS Integers

(* The marks of a service placed at offset o with room for m targets. *)
Marks(o, m) == o .. (o + m - 1)

(* Mutants of Overlaps: the last mark of the candidate is not compared with *)
(* the first mark of the service; only the start of the candidate is.      *)
OverlapsOffByOne(o, m, s) ==
    /\ o <= s.offset + s.maxTargets - 1
    /\ o + m - 1 > s.offset

OverlapsStartOnly(o, m, s) ==
    /\ o <= s.offset + s.maxTargets - 1
    /\ o >= s.offset

(* The test getOffset makes for one existing service s against a search    *)
(* for m marks that has reached offset o.                                  *)
Overlaps(o, m, s) ==
    /\ o <= s.offset + s.maxTargets - 1
    /\ o + m - 1 >= s.offset

(* m marks can be placed at o: the inner loop meets no overlapping service. *)
FitsAt(o, m, svcs) == \A n \in DOMAIN svcs : ~Overlaps(o, m, svcs[n])

(* What getOffset returns when it succeeds: the lowest placement, from the *)
(* starting offset on, that overlaps no service of the table.              *)
IsFirstFit(o, m, svcs, start) ==
    /\ o >= start
    /\ FitsAt(o, m, svcs)
    /\ \A lower \in start .. (o - 1) : ~FitsAt(lower, m, svcs)
=============================================================================
