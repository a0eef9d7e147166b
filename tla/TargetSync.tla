----------------------------- MODULE TargetSync -----------------------------
(***************************************************************************)
(* What the load balancer makes of the endpoints of a service: how the two *)
(* slices are merged, and how Manager.SetEndpoints turns the list into     *)
(* calls of DeleteTarget and AddTarget.                                    *)
(*                                                                         *)
(* An endpoint is a record [uid, id, addrs, ready]; a list is a set with   *)
(* one endpoint for a uid, as in endpointsMap.  Every listed endpoint has  *)
(* an identifier: the controller manager lists no other.                   *)
(***************************************************************************)

Uids(list) == {e.uid : e \in list}

(* MergeEndpointSlices: of an endpoint that both slices list, the first    *)
(* one's identifier and readiness count, and the addresses of both.        *)
MergeSlices(a, b) ==
    {[e EXCEPT !.addrs = @ \cup UNION {o.addrs : o \in {n \in b : n.uid = e.uid}}] : e \in a}
        \cup {e \in b : e.uid \notin Uids(a)}

(* The slice of the endpoints that have addresses of one family. *)
SliceOf(list, family) ==
    {[e EXCEPT !.addrs = @ \cap family] : e \in {n \in list : n.addrs \cap family # {}}}

(* The listed endpoint n is the recorded endpoint e, unchanged and ready.  *)
IsUnchanged(e, n) ==
    n.uid = e.uid /\ n.id = e.id /\ n.addrs = e.addrs /\ n.ready

(* Recorded endpoints that removeEndpoints calls DeleteTarget for. *)
ToRemove(recorded, list) ==
    {e \in recorded : \A n \in list : ~IsUnchanged(e, n)}

Kept(recorded, list) == recorded \ ToRemove(recorded, list)

(* Mutant of ToAdd: readiness is not looked at. *)
ToAddReadyOrNot(recorded, list) ==
    {n \in list : n.uid \notin Uids(Kept(recorded, list))}

(* Listed endpoints that addEndpoints calls AddTarget for. *)
ToAdd(recorded, list) ==
    {n \in list : n.ready /\ n.uid \notin Uids(Kept(recorded, list))}

(* What the manager records, whether the calls succeed or not. *)
Recorded(recorded, list) == Kept(recorded, list) \cup ToAdd(recorded, list)

IdsOf(list) == {e.id : e \in list}

(* Mutant of AfterRemoval: only endpoints that are listed no more are deleted. *)
AfterRemovalOfUnlisted(targets, recorded, list) ==
    LET gone == {e \in recorded : e.uid \notin Uids(list)}
    IN  [id \in DOMAIN targets \ IdsOf(gone) |-> targets[id]]

(* deleteTargetNoLock takes the identifier out of the targets first, so it *)
(* is gone also when the command that follows fails.                       *)
AfterRemoval(targets, recorded, list) ==
    [id \in DOMAIN targets \ IdsOf(ToRemove(recorded, list)) |-> targets[id]]

(* AddTarget returns at once for an identifier that is there.  The map     *)
(* endpointsMap is walked in random order: of several endpoints with one   *)
(* identifier any may be the first whose `nfqlb activate' succeeds.        *)
AfterAddition(targets, added, failed) ==
    LET done == added \ failed
        ids == IdsOf(done) \ DOMAIN targets
    IN  {[id \in DOMAIN targets \cup ids |->
             IF id \in ids THEN first[id].addrs ELSE targets[id]] :
           first \in {w \in [ids -> done] : \A id \in ids : w[id].id = id}}

(* Mutant of Targets: the additions come before the removals. *)
TargetsAddedFirst(targets, recorded, list, failed) ==
    {AfterRemoval(t, recorded, list) :
        t \in AfterAddition(targets, ToAdd(recorded, list), failed)}

(* SetEndpoints: removeEndpoints, then addEndpoints, with the additions    *)
(* that fail; what may be in Service.targets afterwards.                   *)
Targets(targets, recorded, list, failed) ==
    AfterAddition(AfterRemoval(targets, recorded, list), ToAdd(recorded, list), failed)
=============================================================================
