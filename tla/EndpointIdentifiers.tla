------------------------ MODULE EndpointIdentifiers ------------------------
(***************************************************************************)
(* controllermanager/endpointslice.go: how one service's endpoints get the *)
(* identifiers nfqlb needs, and how these are kept in the two              *)
(* EndpointSlices of the service, one for each address family.             *)
(*                                                                         *)
(* A reconciliation lists the pods, reads both slices, gives every         *)
(* endpoint an identifier (the one it has in the slices, or the lowest     *)
(* free one) and writes the IPv4 slice, then the IPv6 slice.  Only one     *)
(* reconciliation of a gateway runs at a time.                             *)
(*                                                                         *)
(* Reads come from the informer cache of the controller's client: views is *)
(* what the slices have been, from what the cache shows (first) to what    *)
(* the API server holds (last).  A slice maps the pods it lists to their   *)
(* identifiers.  A slice that does not exist is an empty one; a creation   *)
(* refused because the cache did not show it yet is a failed write.        *)
(*                                                                         *)
(* Updates carry no resourceVersion, so the API server never refuses one   *)
(* for being based on an old read.  A slice's controller reference is to   *)
(* the service, so Owns(&EndpointSlice{}), which looks for a gateway, puts *)
(* nothing in the work queue when a slice changes.                         *)
(***************************************************************************)
EXTENDS Naturals, Sequences

CONSTANTS Pods,         \* UIDs of the pods the service may select
          MaxEndpoints, \* the label service-max-endpoints, or its default
          MaxLag,       \* how many writes the cache may be behind
          MaxFaults     \* bound on failed writes, restarts and unseen changes

ASSUME IdentifiersAssumption ==
    /\ MaxEndpoints \in Nat
    /\ MaxLag \in Nat
    /\ MaxFaults \in Nat

VARIABLES
    pods,   \* the families in which each pod has addresses, none if not selected
    views,  \* the slices: what the cache shows, ..., what is stored
    queued, \* the gateway is in the work queue
    rec,    \* the reconciliation in progress
    faults, \* failed writes and restarts so far
    unseen  \* changes so far that queue nothing, of the slices or of a pod

vars == <<pods, views, queued, rec, faults, unseen>>

Families == {"IPv4", "IPv6"}
Ids == 0 .. (MaxEndpoints - 1)

NoEndpoints == [p \in {} |-> 0]
NoSlices == [f \in Families |-> NoEndpoints]
NoAddresses == [p \in Pods |-> {}]

Idle == [pc |-> "idle", fams |-> NoAddresses, ipv4 |-> NoEndpoints,
         old |-> NoEndpoints, todo |-> {}, given |-> NoEndpoints]

Init ==
    /\ pods = NoAddresses
    /\ views = <<NoSlices>>
    /\ queued = TRUE
    /\ rec = Idle
    /\ faults = 0
    /\ unseen = 0

Cached == Head(views)
Stored == views[Len(views)]
MayFail == faults + unseen < MaxFaults
Fault == MayFail /\ faults' = faults + 1
-----------------------------------------------------------------------------
(* pkg/endpointslice/merge.go *)

(* Mutant of Merge: the endpoints that are only in the second slice are lost. *)
MergeFirstOnly(a, b) == a

(* MergeEndpointSlices: the identifier of the first slice counts. *)
Merge(a, b) ==
    [p \in DOMAIN a \cup DOMAIN b |-> IF p \in DOMAIN a THEN a[p] ELSE b[p]]

(* SplitEndpointSlices: an endpoint is listed in the slices of the families *)
(* it has addresses of.                                                     *)
Split(endpoints, fams, f) ==
    [p \in {q \in DOMAIN endpoints : f \in fams[q]} |-> endpoints[p]]

(* The endpoints of a list of pods: those with an address. *)
WithAddress(fams) == {p \in Pods : fams[p] # {}}
-----------------------------------------------------------------------------
(* getEndpointSlicesWithIdentifiers *)

(* Mutant of Kept: every endpoint gets a new identifier. *)
KeptByNone(old, fams) == NoEndpoints

(* The endpoints that have an identifier already keep it. *)
Kept(old, fams) == [p \in DOMAIN old \cap WithAddress(fams) |-> old[p]]

(* Mutants of InUse: an identifier is not marked once it has been given;   *)
(* the identifiers that were kept are not marked.                          *)
InUseBefore == {rec.old[p] : p \in DOMAIN rec.old \cap WithAddress(rec.fams)}
InUseNew == {rec.given[p] : p \in DOMAIN rec.given \ DOMAIN rec.old}

(* identifierInUse: the map the code fills with the identifiers it keeps,   *)
(* then with those it gives.                                                *)
InUse == {rec.given[p] : p \in DOMAIN rec.given}

(* Mutant of Candidates: the loop of getIdentifier runs one time too often. *)
OneMore == 0 .. MaxEndpoints

Candidates == Ids

(* getIdentifier: the lowest identifier that is free. *)
IsLowestFree(id) ==
    /\ id \in Candidates \ InUse
    /\ \A lower \in 0 .. (id - 1) : lower \in InUse

AtAssign(p) == rec.pc = "assign" /\ p \in rec.todo

GiveIdentifier(p) ==
    /\ AtAssign(p)
    /\ \E id \in Candidates :
        /\ IsLowestFree(id)
        /\ rec' = [rec EXCEPT !.todo = @ \ {p},
                              !.given = [q \in DOMAIN @ \cup {p} |->
                                            IF q = p THEN id ELSE @[q]]]
    /\ UNCHANGED <<pods, views, queued, faults, unseen>>

(* getIdentifier returns -1: the endpoint is left out of the slices. *)
LeaveOut(p) ==
    /\ AtAssign(p)
    /\ Candidates \subseteq InUse
    /\ rec' = [rec EXCEPT !.todo = @ \ {p}]
    /\ UNCHANGED <<pods, views, queued, faults, unseen>>
-----------------------------------------------------------------------------
(* The rest of a reconciliation *)

ListPods ==
    /\ rec.pc = "idle" /\ queued
    /\ queued' = FALSE
    /\ rec' = [Idle EXCEPT !.pc = "get4", !.fams = pods]
    /\ UNCHANGED <<pods, views, faults, unseen>>

GetIPv4 ==
    /\ rec.pc = "get4"
    /\ rec' = [rec EXCEPT !.pc = "get6", !.ipv4 = Cached["IPv4"]]
    /\ UNCHANGED <<pods, views, queued, faults, unseen>>

GetIPv6 ==
    /\ rec.pc = "get6"
    /\ LET old == Merge(rec.ipv4, Cached["IPv6"])
           kept == Kept(old, rec.fams)
       IN  rec' = [rec EXCEPT !.pc = "assign", !.old = old, !.given = kept,
                              !.todo = WithAddress(rec.fams) \ DOMAIN kept]
    /\ UNCHANGED <<pods, views, queued, faults, unseen>>

(* The slices once slice f is stored.  The cache gets to see them later,   *)
(* but is never more than MaxLag changes behind.                           *)
Put(f, slice) ==
    LET new == [Stored EXCEPT ![f] = slice]
    IN  IF new = Stored THEN views
        ELSE Append(IF Len(views) > MaxLag THEN Tail(views) ELSE views, new)

Published(f) == Put(f, Split(rec.given, rec.fams, f))

WriteIPv4 ==
    /\ rec.pc = "assign" /\ rec.todo = {}
    /\ views' = Published("IPv4")
    /\ rec' = [rec EXCEPT !.pc = "write6"]
    /\ UNCHANGED <<pods, queued, faults, unseen>>

WriteIPv6 ==
    /\ rec.pc = "write6"
    /\ views' = Published("IPv6")
    /\ rec' = Idle
    /\ UNCHANGED <<pods, queued, faults, unseen>>

Writing(f) ==
    \/ f = "IPv4" /\ rec.pc = "assign" /\ rec.todo = {}
    \/ f = "IPv6" /\ rec.pc = "write6"

(* Mutant of WriteFails: the error does not put the gateway back. *)
WriteFailsQuietly(f) ==
    /\ Writing(f)
    /\ Fault
    /\ rec' = Idle
    /\ UNCHANGED <<pods, views, queued, unseen>>

(* A write fails, or its answer is lost: the reconciliation ends with an   *)
(* error, which puts the gateway back in the queue.                        *)
WriteFails(f) ==
    /\ Writing(f)
    /\ Fault
    /\ views' \in {views, Published(f)}
    /\ rec' = Idle
    /\ queued' = TRUE
    /\ UNCHANGED <<pods, unseen>>

(* The controller manager stops in the middle of a reconciliation and      *)
(* starts again, with a cache that is up to date.                          *)
Restart ==
    /\ rec.pc # "idle"
    /\ Fault
    /\ rec' = Idle
    /\ views' = <<Stored>>
    /\ queued' = TRUE
    /\ UNCHANGED <<pods, unseen>>
-----------------------------------------------------------------------------
(* The environment *)

(* What changes, and queues nothing. *)
Unseen == MayFail /\ unseen' = unseen + 1 /\ UNCHANGED queued

(* A pod appears, goes, or has other networks in its status annotation.    *)
(* When podEnqueue fails to list the gateways, or the services of this     *)
(* one, it logs the error and queues nothing.                              *)
PodChanges(p, fams) ==
    /\ pods[p] # fams
    /\ pods' = [pods EXCEPT ![p] = fams]
    /\ \/ queued' = TRUE /\ UNCHANGED unseen
       \/ Unseen
    /\ UNCHANGED <<views, rec, faults>>

(* Another event queues the gateway: of the gateway, a service or a route. *)
OtherEvent ==
    /\ ~queued
    /\ queued' = TRUE
    /\ UNCHANGED <<pods, views, rec, faults, unseen>>

(* Somebody else takes the endpoints out of a slice. *)
SliceEmptied(f) ==
    /\ Unseen
    /\ Stored[f] # NoEndpoints
    /\ views' = Put(f, NoEndpoints)
    /\ UNCHANGED <<pods, rec, faults>>

(* The cache learns of a change of the slices. *)
Deliver ==
    /\ Len(views) > 1
    /\ views' = Tail(views)
    /\ UNCHANGED <<pods, queued, rec, faults, unseen>>

Reconcile ==
    \/ ListPods \/ GetIPv4 \/ GetIPv6
    \/ \E p \in Pods : GiveIdentifier(p) \/ LeaveOut(p)
    \/ WriteIPv4 \/ WriteIPv6
    \/ \E f \in Families : WriteFails(f)
    \/ Restart

Next ==
    \/ Reconcile
    \/ Deliver
    \/ OtherEvent
    \/ \E f \in Families : SliceEmptied(f)
    \/ \E p \in Pods, fams \in SUBSET Families : PodChanges(p, fams)

(* The work queue hands out what it holds, and the watch goes on. *)
Fairness == WF_vars(Reconcile) /\ WF_vars(Deliver)

Spec == Init /\ [][Next]_vars /\ Fairness
-----------------------------------------------------------------------------
Slice == UNION {[ps -> Ids] : ps \in SUBSET Pods}

TypeOK ==
    /\ pods \in [Pods -> SUBSET Families]
    /\ views \in Seq([Families -> Slice])
    /\ Len(views) \in 1 .. (MaxLag + 1)
    /\ queued \in BOOLEAN
    /\ rec \in [pc : {"idle", "get4", "get6", "assign", "write6"},
                fams : [Pods -> SUBSET Families], ipv4 : Slice, old : Slice,
                todo : SUBSET Pods, given : Slice]
    /\ faults \in Nat /\ unseen \in Nat /\ faults + unseen <= MaxFaults

(* The endpoints a reader gets who merges both slices. *)
Endpoints(slices) == Merge(slices["IPv4"], slices["IPv6"])

Unique(endpoints) ==
    \A p, q \in DOMAIN endpoints : endpoints[p] = endpoints[q] => p = q

(* A reconciliation never brings two endpoints together on one identifier: *)
(* if two of those it is about to write share one, both had it in what it  *)
(* has read.  True of stale reads and after failures as well.              *)
NoNewDuplicates ==
    \A p, q \in DOMAIN rec.given :
        (p # q /\ rec.given[p] = rec.given[q]) =>
            /\ p \in DOMAIN rec.old /\ q \in DOMAIN rec.old
            /\ rec.old[p] = rec.given[p] /\ rec.old[q] = rec.given[q]

(* readme.md: the controller manager assigns "a unique identifier to each  *)
(* endpoint in the endpointslice".  Between two reconciliations no two     *)
(* endpoints of the service share one.                                     *)
UniqueIds == rec.pc = "idle" => Unique(Endpoints(Stored))

(* So it is while reads are fresh and no write has failed.                 *)
UniqueWhenFresh == MaxLag = 0 /\ faults = 0 => UniqueIds

(* Both slices give an endpoint the same identifier, also between the two  *)
(* writes and when one of them has failed.                                 *)
SlicesAgree ==
    \A p \in DOMAIN Stored["IPv4"] \cap DOMAIN Stored["IPv6"] :
        Stored["IPv4"][p] = Stored["IPv6"][p]

(* An endpoint keeps its identifier for as long as the slices list it:     *)
(* nfqlb sends the packets of its connections to that identifier.          *)
StableIds ==
    [][\A p \in DOMAIN Endpoints(Stored) \cap DOMAIN Endpoints(Stored') :
          Endpoints(Stored)[p] = Endpoints(Stored')[p]]_vars

(* The slices list the pods that have addresses, each in its families;     *)
(* one that is left out finds all identifiers taken.                       *)
Reflects ==
    LET listed == Endpoints(Stored)
    IN  /\ \A f \in Families : \A p \in DOMAIN Stored[f] : f \in pods[p]
        /\ \A p \in DOMAIN listed : \A f \in pods[p] : p \in DOMAIN Stored[f]
        /\ WithAddress(pods) \subseteq DOMAIN listed
             \/ Ids \subseteq {listed[p] : p \in DOMAIN listed}

PodsStop == <>[][pods' = pods]_vars

(* When the pods stop changing, the slices come to reflect them and go on  *)
(* doing so, whatever write has failed and whatever the cache has missed;  *)
(* after a change that queued nothing, if reconciliations go on.           *)
Settles == PodsStop /\ ([](unseen = 0) \/ []<>queued) => <>[]Reflects
=============================================================================
