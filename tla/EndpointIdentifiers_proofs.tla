--------------------- MODULE EndpointIdentifiers_proofs ---------------------
(***************************************************************************)
(* Proofs about EndpointIdentifiers, for any pods, identifiers, lag of the *)
(* cache and number of failures.  The inductive invariants are in four     *)
(* layers: types; what a reconciliation has given against what it has read *)
(* and what it has written against the pods (any lag); and, when reads are *)
(* fresh, what it has given against what is stored (agreement, and         *)
(* uniqueness while nothing has failed).                                   *)
(***************************************************************************)
EXTENDS EndpointIdentifiers, TLAPS

Slices == [Families -> Slice]
Steps == {"idle", "get4", "get6", "assign", "write6"}

(* What is in Slice: a function from pods to identifiers. *)
LEMMA SliceIntro ==
    ASSUME NEW ps \in SUBSET Pods, NEW g, g \in [ps -> Ids]
    PROVE  g \in Slice
BY DEF Slice

LEMMA SliceElim ==
    ASSUME NEW g \in Slice
    PROVE  /\ DOMAIN g \subseteq Pods
           /\ g \in [DOMAIN g -> Ids]
           /\ \A p \in DOMAIN g : g[p] \in Ids
BY DEF Slice

LEMMA EmptySlice == NoEndpoints \in Slice
<1>1. NoEndpoints \in [{} -> Ids]
  BY DEF NoEndpoints
<1>2. QED
  BY <1>1, SliceIntro

(* Merging, keeping and splitting slices makes slices. *)
LEMMA MergeType ==
    ASSUME NEW a \in Slice, NEW b \in Slice
    PROVE  Merge(a, b) \in Slice
<1>1. Merge(a, b) \in [DOMAIN a \cup DOMAIN b -> Ids]
  BY SliceElim DEF Merge
<1>2. QED
  BY <1>1, SliceElim, SliceIntro

LEMMA KeptType ==
    ASSUME NEW a \in Slice, NEW fams \in [Pods -> SUBSET Families]
    PROVE  Kept(a, fams) \in Slice
<1>1. Kept(a, fams) \in [DOMAIN a \cap WithAddress(fams) -> Ids]
  BY SliceElim DEF Kept
<1>2. QED
  BY <1>1, SliceElim, SliceIntro

LEMMA SplitType ==
    ASSUME NEW a \in Slice, NEW fams, NEW f
    PROVE  Split(a, fams, f) \in Slice
<1>1. Split(a, fams, f) \in [{q \in DOMAIN a : f \in fams[q]} -> Ids]
  BY SliceElim DEF Split
<1>2. QED
  BY <1>1, SliceElim, SliceIntro

(* Storing a slice: the history stays within the lag, and its last element *)
(* is what was stored with the one slice replaced.                         *)
LEMMA PutLemma ==
    ASSUME views \in Seq(Slices), Len(views) \in 1 .. (MaxLag + 1), MaxLag \in Nat,
           NEW f \in Families, NEW slice \in Slice
    PROVE  /\ Put(f, slice) \in Seq(Slices)
           /\ Len(Put(f, slice)) \in 1 .. (MaxLag + 1)
           /\ Put(f, slice)[Len(Put(f, slice))] = [Stored EXCEPT ![f] = slice]
<1> DEFINE new == [Stored EXCEPT ![f] = slice]
           base == IF Len(views) > MaxLag THEN Tail(views) ELSE views
<1>1. Stored \in Slices
  BY DEF Stored
<1>2. new \in Slices
  BY <1>1 DEF Slices
<1>3. CASE new = Stored
  BY <1>3 DEF Put, Stored
<1>4. CASE new # Stored
  <2>1. Put(f, slice) = Append(base, new)
    BY <1>4 DEF Put
  <2>2. base \in Seq(Slices) /\ Len(base) \in 0 .. MaxLag
    OBVIOUS
  <2> HIDE DEF base, new
  <2>3. /\ Append(base, new) \in Seq(Slices)
        /\ Len(Append(base, new)) = Len(base) + 1
        /\ Append(base, new)[Len(base) + 1] = new
    BY <2>2, <1>2
  <2>4. Len(base) + 1 \in 1 .. (MaxLag + 1)
    BY <2>2
  <2>5. QED
    BY <2>1, <2>3, <2>4 DEF new
<1>5. QED
  BY <1>3, <1>4
-----------------------------------------------------------------------------
Recs == [pc : Steps, fams : [Pods -> SUBSET Families], ipv4 : Slice,
         old : Slice, todo : SUBSET Pods, given : Slice]

(* TypeOK with the histories as sequences of Slices and rec in Recs. *)
LEMMA TypeRestated ==
    TypeOK <=> /\ pods \in [Pods -> SUBSET Families]
               /\ views \in Seq(Slices)
               /\ Len(views) \in 1 .. (MaxLag + 1)
               /\ queued \in BOOLEAN
               /\ rec \in Recs
               /\ faults \in Nat /\ unseen \in Nat /\ faults + unseen <= MaxFaults
BY DEF TypeOK, Slices, Recs, Steps

LEMMA IdleType == Idle \in Recs
BY EmptySlice DEF Idle, Recs, Steps, NoAddresses

LEMMA StoredType ==
    ASSUME TypeOK
    PROVE  /\ Stored \in Slices /\ Cached \in Slices
           /\ \A f \in Families : Stored[f] \in Slice /\ Cached[f] \in Slice
<1>1. views \in Seq(Slices) /\ Len(views) \in 1 .. (MaxLag + 1)
  BY TypeRestated
<1>2. MaxLag \in Nat
  BY IdentifiersAssumption
<1>3. Stored \in Slices /\ Cached \in Slices
  BY <1>1, <1>2 DEF Stored, Cached
<1>4. QED
  BY <1>3 DEF Slices

(* Storing the slice a reconciliation has made, or an empty one. *)
LEMMA PublishedLemma ==
    ASSUME TypeOK, NEW f \in Families
    PROVE  /\ Published(f) \in Seq(Slices)
           /\ Len(Published(f)) \in 1 .. (MaxLag + 1)
           /\ Published(f)[Len(Published(f))] =
                 [Stored EXCEPT ![f] = Split(rec.given, rec.fams, f)]
<1>1. Split(rec.given, rec.fams, f) \in Slice
  BY SplitType, TypeRestated DEF Recs
<1>2. QED
  BY <1>1, PutLemma, TypeRestated, IdentifiersAssumption DEF Published

LEMMA EmptiedLemma ==
    ASSUME TypeOK, NEW f \in Families
    PROVE  /\ Put(f, NoEndpoints) \in Seq(Slices)
           /\ Len(Put(f, NoEndpoints)) \in 1 .. (MaxLag + 1)
           /\ Put(f, NoEndpoints)[Len(Put(f, NoEndpoints))] =
                 [Stored EXCEPT ![f] = NoEndpoints]
BY PutLemma, EmptySlice, TypeRestated, IdentifiersAssumption

(* The identifier given to p is new to the slice that has been given. *)
LEMMA GivenType ==
    ASSUME NEW g \in Slice, NEW p \in Pods, NEW id \in Ids
    PROVE  [q \in DOMAIN g \cup {p} |-> IF q = p THEN id ELSE g[q]] \in Slice
<1>1. [q \in DOMAIN g \cup {p} |-> IF q = p THEN id ELSE g[q]] \in [DOMAIN g \cup {p} -> Ids]
  BY SliceElim
<1>2. QED
  BY <1>1, SliceElim, SliceIntro

(* Types: every identifier in a slice, in a read or to be written is below *)
(* MaxEndpoints, and the cache stays within its lag.                       *)
THEOREM TypeCorrect == Spec => []TypeOK
<1> USE IdentifiersAssumption
<1>1. Init => TypeOK
  <2> SUFFICES ASSUME Init PROVE TypeOK
    OBVIOUS
  <2>1. NoSlices \in Slices
    BY EmptySlice DEF NoSlices, Slices
  <2>2. <<NoSlices>> \in Seq(Slices) /\ Len(<<NoSlices>>) = 1
    BY <2>1
  <2>3. NoAddresses \in [Pods -> SUBSET Families]
    BY DEF NoAddresses
  <2>4. 1 \in 1 .. (MaxLag + 1)
    OBVIOUS
  <2>5. QED
    BY <2>2, <2>3, <2>4, IdleType, TypeRestated DEF Init
<1>2. TypeOK /\ [Next]_vars => TypeOK'
  <2> SUFFICES ASSUME TypeOK, [Next]_vars PROVE TypeOK'
    OBVIOUS
  <2>a. /\ pods \in [Pods -> SUBSET Families]
        /\ views \in Seq(Slices)
        /\ Len(views) \in 1 .. (MaxLag + 1)
        /\ queued \in BOOLEAN
        /\ rec \in Recs
        /\ faults \in Nat /\ unseen \in Nat /\ faults + unseen <= MaxFaults
    BY TypeRestated
  <2>b. SUFFICES /\ pods' \in [Pods -> SUBSET Families]
                 /\ views' \in Seq(Slices)
                 /\ Len(views') \in 1 .. (MaxLag + 1)
                 /\ queued' \in BOOLEAN
                 /\ rec' \in Recs
                 /\ faults' \in Nat /\ unseen' \in Nat
                 /\ faults' + unseen' <= MaxFaults
    BY DEF TypeOK, Slices, Recs, Steps
  <2>c. Fault => faults' \in Nat /\ faults' + unseen <= MaxFaults
    BY <2>a DEF Fault, MayFail
  <2>1. CASE ListPods
    BY <2>1, <2>a, EmptySlice DEF ListPods, Idle, Recs, Steps
  <2>2. CASE GetIPv4
    BY <2>2, <2>a, StoredType DEF GetIPv4, Recs, Steps, Families
  <2>3. CASE GetIPv6
    <3>1. Merge(rec.ipv4, Cached["IPv6"]) \in Slice
      BY <2>a, StoredType, MergeType DEF Recs, Families
    <3>2. Kept(Merge(rec.ipv4, Cached["IPv6"]), rec.fams) \in Slice
      BY <2>a, <3>1, KeptType DEF Recs
    <3>3. WithAddress(rec.fams) \subseteq Pods
      BY DEF WithAddress
    <3>4. rec' \in Recs
      BY <2>3, <2>a, <3>1, <3>2, <3>3 DEF GetIPv6, Recs, Steps
    <3>5. QED
      BY <2>3, <2>a, <3>4 DEF GetIPv6
  <2>4. ASSUME NEW p \in Pods, GiveIdentifier(p)
        PROVE  rec' \in Recs /\ UNCHANGED <<pods, views, queued, faults, unseen>>
    <3>1. PICK id \in Ids :
            rec' = [rec EXCEPT !.todo = @ \ {p},
                              !.given = [q \in DOMAIN @ \cup {p} |->
                                            IF q = p THEN id ELSE @[q]]]
      BY <2>4 DEF GiveIdentifier, Candidates
    <3>2. [q \in DOMAIN rec.given \cup {p} |-> IF q = p THEN id ELSE rec.given[q]] \in Slice
      BY <2>a, GivenType DEF Recs
    <3>3. QED
      BY <2>4, <2>a, <3>1, <3>2 DEF GiveIdentifier, Recs
  <2>5. ASSUME NEW p \in Pods, LeaveOut(p)
        PROVE  rec' \in Recs /\ UNCHANGED <<pods, views, queued, faults, unseen>>
    BY <2>5, <2>a DEF LeaveOut, Recs
  <2>6. CASE WriteIPv4
    BY <2>6, <2>a, PublishedLemma DEF WriteIPv4, Recs, Steps, Families
  <2>7. CASE WriteIPv6
    BY <2>7, <2>a, PublishedLemma, IdleType DEF WriteIPv6, Families
  <2>8. CASE \E f \in Families : WriteFails(f)
    <3>1. PICK f \in Families : WriteFails(f)
      BY <2>8
    <3>2. QED
      BY <3>1, <2>a, <2>c, PublishedLemma, IdleType DEF WriteFails
  <2>9. CASE Restart
    <3>1. <<Stored>> \in Seq(Slices) /\ Len(<<Stored>>) = 1
      BY StoredType
    <3>2. 1 \in 1 .. (MaxLag + 1)
      OBVIOUS
    <3>3. QED
      BY <2>9, <2>a, <2>c, <3>1, <3>2, IdleType DEF Restart
  <2>10. CASE Deliver
    BY <2>10, <2>a DEF Deliver
  <2>11. CASE OtherEvent
    BY <2>11, <2>a DEF OtherEvent
  <2>d. Unseen => unseen' \in Nat /\ faults + unseen' <= MaxFaults /\ queued' = queued
    BY <2>a DEF Unseen, MayFail
  <2>12. CASE \E f \in Families : SliceEmptied(f)
    <3>1. PICK f \in Families : SliceEmptied(f)
      BY <2>12
    <3>2. QED
      BY <2>a, <2>d, <3>1, EmptiedLemma DEF SliceEmptied
  <2>13. CASE \E p \in Pods, fams \in SUBSET Families : PodChanges(p, fams)
    <3>1. PICK p \in Pods, fams \in SUBSET Families : PodChanges(p, fams)
      BY <2>13
    <3>2. QED
      BY <3>1, <2>a, <2>d DEF PodChanges
  <2>14. CASE UNCHANGED vars
    BY <2>14, <2>a DEF vars
  <2>15. QED
    BY <2>a, <2>1, <2>2, <2>3, <2>4, <2>5, <2>6, <2>7, <2>8, <2>9, <2>10, <2>11,
       <2>12, <2>13, <2>14 DEF Next, Reconcile
<1>3. QED
  BY <1>1, <1>2, PTL DEF Spec
-----------------------------------------------------------------------------
(* What a reconciliation gives against what it has read, for any reads.    *)

(* The slices a reconciliation has read and the identifiers it has given.  *)
GivenInv ==
    /\ rec.todo \cap DOMAIN rec.old = {}
    /\ rec.todo \cap DOMAIN rec.given = {}
    /\ \A p \in DOMAIN rec.given \cap DOMAIN rec.old : rec.given[p] = rec.old[p]

(* Giving p the identifier id changes nothing else. *)
LEMMA GiveLemma ==
    ASSUME TypeOK, GivenInv, NEW p \in Pods, GiveIdentifier(p)
    PROVE  /\ p \in rec.todo /\ rec'.todo = rec.todo \ {p}
           /\ rec'.pc = rec.pc /\ rec'.fams = rec.fams /\ rec'.old = rec.old
           /\ DOMAIN rec'.given = DOMAIN rec.given \cup {p}
           /\ \A q \in DOMAIN rec.given : q # p /\ rec'.given[q] = rec.given[q]
           /\ \A q \in DOMAIN rec.given : rec.given[q] # rec'.given[p]
<1>1. rec \in Recs
  BY TypeRestated
<1>2. PICK id \in Ids :
         /\ id \notin InUse
         /\ rec' = [rec EXCEPT !.todo = @ \ {p},
                               !.given = [q \in DOMAIN @ \cup {p} |->
                                            IF q = p THEN id ELSE @[q]]]
  BY DEF GiveIdentifier, Candidates, IsLowestFree
<1> DEFINE g == [q \in DOMAIN rec.given \cup {p} |-> IF q = p THEN id ELSE rec.given[q]]
<1>3. rec'.given = g /\ rec'.todo = rec.todo \ {p} /\ rec'.pc = rec.pc
      /\ rec'.fams = rec.fams /\ rec'.old = rec.old
  BY <1>1, <1>2 DEF Recs
<1>4. p \in rec.todo /\ p \notin DOMAIN rec.given
  BY DEF GiveIdentifier, AtAssign, GivenInv
<1>5. DOMAIN g = DOMAIN rec.given \cup {p} /\ g[p] = id
  OBVIOUS
<1>6. \A q \in DOMAIN rec.given : q # p /\ g[q] = rec.given[q]
  BY <1>4
<1>7. \A q \in DOMAIN rec.given : rec.given[q] # id
  BY <1>2 DEF InUse
<1> HIDE DEF g
<1>8. QED
  BY <1>3, <1>4, <1>5, <1>6, <1>7

LEMMA IdleGiven ==
    /\ Idle.todo = {} /\ Idle.given = NoEndpoints /\ Idle.old = NoEndpoints
    /\ Idle.pc = "idle" /\ DOMAIN NoEndpoints = {}
BY DEF Idle, NoEndpoints

(* What the first step and GetIPv6 leave in rec. *)
LEMMA ListPodsLemma ==
    ASSUME ListPods
    PROVE  /\ rec'.todo = {} /\ rec'.given = NoEndpoints /\ rec'.old = NoEndpoints
           /\ rec'.pc = "get4"
BY DEF ListPods, Idle

LEMMA GetIPv6Lemma ==
    ASSUME TypeOK, GetIPv6
    PROVE  /\ rec'.old = Merge(rec.ipv4, Cached["IPv6"])
           /\ DOMAIN rec'.given \subseteq DOMAIN rec'.old
           /\ \A p \in DOMAIN rec'.given : rec'.given[p] = rec'.old[p]
           /\ rec'.todo \cap DOMAIN rec'.old = {}
           /\ rec'.pc = "assign"
<1> DEFINE old == Merge(rec.ipv4, Cached["IPv6"])
           kept == Kept(old, rec.fams)
<1>1. rec \in Recs
  BY TypeRestated
<1>2. rec' = [rec EXCEPT !.pc = "assign", !.old = old, !.given = kept,
                         !.todo = WithAddress(rec.fams) \ DOMAIN kept]
  BY DEF GetIPv6
<1>3. rec'.old = old /\ rec'.given = kept /\ rec'.pc = "assign"
      /\ rec'.todo = WithAddress(rec.fams) \ DOMAIN kept
  <2> HIDE DEF old, kept
  <2>1. QED
    BY <1>1, <1>2 DEF Recs
<1>4. DOMAIN kept = DOMAIN old \cap WithAddress(rec.fams)
      /\ \A p \in DOMAIN kept : kept[p] = old[p]
  BY DEF Kept
<1>5. QED
  BY <1>3, <1>4

(* Both are preserved by every step. *)
LEMMA GivenStep ==
    /\ TypeOK /\ GivenInv /\ [Next]_vars => GivenInv'
    /\ TypeOK /\ GivenInv /\ NoNewDuplicates /\ [Next]_vars => NoNewDuplicates'
<1> SUFFICES ASSUME TypeOK, GivenInv, [Next]_vars
             PROVE  GivenInv' /\ (NoNewDuplicates => NoNewDuplicates')
  OBVIOUS
<1> DEFINE Goal == GivenInv' /\ (NoNewDuplicates => NoNewDuplicates')
<1>a. rec \in Recs
  BY TypeRestated
<1>b. ASSUME rec' = Idle
      PROVE  Goal
  BY <1>b, IdleGiven DEF GivenInv, NoNewDuplicates
<1>c. ASSUME rec'.given = rec.given, rec'.old = rec.old, rec'.todo \subseteq rec.todo
      PROVE  Goal
  BY <1>c DEF GivenInv, NoNewDuplicates
<1>1. CASE ListPods
  BY <1>1, ListPodsLemma, IdleGiven DEF GivenInv, NoNewDuplicates
<1>2. CASE GetIPv4
  BY <1>2, <1>a, <1>c DEF GetIPv4, Recs
<1>3. CASE GetIPv6
  BY <1>3, GetIPv6Lemma DEF GivenInv, NoNewDuplicates
<1>4. ASSUME NEW p \in Pods, GiveIdentifier(p)
      PROVE  Goal
  BY <1>4, GiveLemma DEF GivenInv, NoNewDuplicates
<1>5. ASSUME NEW p \in Pods, LeaveOut(p)
      PROVE  Goal
  BY <1>5, <1>a, <1>c DEF LeaveOut, Recs
<1>6. CASE WriteIPv4
  BY <1>6, <1>a, <1>c DEF WriteIPv4, Recs
<1>7. CASE WriteIPv6 \/ Restart \/ \E f \in Families : WriteFails(f)
  BY <1>7, <1>b DEF WriteIPv6, Restart, WriteFails
<1>8. CASE rec' = rec
  BY <1>8, <1>c
<1>9. QED
  BY <1>1, <1>2, <1>3, <1>4, <1>5, <1>6, <1>7, <1>8
     DEF Next, Reconcile, Deliver, OtherEvent, SliceEmptied, PodChanges, vars

(* A reconciliation gives no two endpoints one identifier unless it has    *)
(* read them with it, however old what it has read, and whatever failed.   *)
THEOREM GivesNoDuplicates == Spec => []NoNewDuplicates
<1>1. Init => GivenInv /\ NoNewDuplicates
  BY IdleGiven DEF Init, GivenInv, NoNewDuplicates
<1>2. TypeOK /\ GivenInv /\ NoNewDuplicates /\ [Next]_vars
        => GivenInv' /\ NoNewDuplicates'
  BY GivenStep
<1>3. QED
  BY <1>1, <1>2, TypeCorrect, PTL DEF Spec
-----------------------------------------------------------------------------
(* What the slices list, for any reads.                                    *)

(* When no pod changes during a reconciliation, what it has written is     *)
(* what the pods are; queued says that one may have changed.               *)
PublishInv ==
    ~queued /\ unseen = 0 =>
        /\ rec.pc = "idle" => Reflects
        /\ rec.pc # "idle" => rec.fams = pods
        /\ rec.pc \in {"assign", "write6"} =>
              /\ DOMAIN rec.given \cup rec.todo \subseteq WithAddress(rec.fams)
              /\ \/ WithAddress(rec.fams) \subseteq DOMAIN rec.given \cup rec.todo
                 \/ Ids \subseteq InUse
        /\ rec.pc = "write6" =>
              /\ rec.todo = {}
              /\ Stored["IPv4"] = Split(rec.given, rec.fams, "IPv4")

(* A slice that is stored leaves the other one as it is. *)
LEMMA StoredAfter ==
    ASSUME TypeOK, NEW f \in Families, views' = Published(f)
    PROVE  /\ Stored'[f] = Split(rec.given, rec.fams, f)
           /\ \A h \in Families : h # f => Stored'[h] = Stored[h]
<1>1. Stored' = [Stored EXCEPT ![f] = Split(rec.given, rec.fams, f)]
  BY PublishedLemma DEF Stored
<1>2. DOMAIN Stored = Families
  BY StoredType DEF Slices
<1>3. QED
  BY <1>1, <1>2

(* Two slices made from the same endpoints, once they are both written. *)
LEMMA WrittenReflects ==
    ASSUME NEW g, NEW fams, fams \in [Pods -> SUBSET Families],
           NEW a, NEW b, a = Split(g, fams, "IPv4"), b = Split(g, fams, "IPv6"),
           DOMAIN g \subseteq WithAddress(fams)
    PROVE  /\ DOMAIN Merge(a, b) = DOMAIN g
           /\ {Merge(a, b)[p] : p \in DOMAIN Merge(a, b)} = {g[p] : p \in DOMAIN g}
           /\ \A p \in DOMAIN a : "IPv4" \in fams[p]
           /\ \A p \in DOMAIN b : "IPv6" \in fams[p]
           /\ \A p \in DOMAIN g : "IPv4" \in fams[p] => p \in DOMAIN a
           /\ \A p \in DOMAIN g : "IPv6" \in fams[p] => p \in DOMAIN b
<1>1. /\ DOMAIN a = {q \in DOMAIN g : "IPv4" \in fams[q]}
      /\ DOMAIN b = {q \in DOMAIN g : "IPv6" \in fams[q]}
      /\ \A p \in DOMAIN a : a[p] = g[p]
      /\ \A p \in DOMAIN b : b[p] = g[p]
  BY DEF Split
<1>2. \A p \in DOMAIN g : "IPv4" \in fams[p] \/ "IPv6" \in fams[p]
  BY DEF WithAddress, Families
<1>3. DOMAIN Merge(a, b) = DOMAIN g
  BY <1>1, <1>2 DEF Merge
<1>4. \A p \in DOMAIN g : Merge(a, b)[p] = g[p]
  BY <1>1, <1>2 DEF Merge
<1>5. QED
  BY <1>1, <1>3, <1>4

LEMMA PublishStep ==
    ASSUME TypeOK, GivenInv, PublishInv, [Next]_vars
    PROVE  PublishInv'
<1>a. rec \in Recs /\ pods \in [Pods -> SUBSET Families] /\ unseen \in Nat
  BY TypeRestated
<1>b. views' = views => Stored' = Stored
  BY DEF Stored
<1>c. "IPv4" \in Families /\ "IPv6" \in Families /\ "IPv4" # "IPv6"
  BY DEF Families
<1>1. CASE ListPods
  <2>1. rec'.pc = "get4" /\ rec'.fams = pods /\ pods' = pods
    BY <1>1 DEF ListPods, Idle
  <2>2. QED
    BY <2>1 DEF PublishInv
<1>2. CASE GetIPv4
  <2>1. /\ rec.pc = "get4" /\ rec'.pc = "get6" /\ rec'.fams = rec.fams
        /\ UNCHANGED <<pods, queued, unseen>>
    BY <1>2, <1>a DEF GetIPv4, Recs
  <2>2. QED
    BY <2>1 DEF PublishInv
<1>3. CASE GetIPv6
  <2> DEFINE old == Merge(rec.ipv4, Cached["IPv6"])
             kept == Kept(old, rec.fams)
  <2>1. rec' = [rec EXCEPT !.pc = "assign", !.old = old, !.given = kept,
                           !.todo = WithAddress(rec.fams) \ DOMAIN kept]
    BY <1>3 DEF GetIPv6
  <2>2. rec.pc = "get6" /\ UNCHANGED <<pods, queued, unseen>>
    BY <1>3 DEF GetIPv6
  <2>3. DOMAIN kept \subseteq WithAddress(rec.fams)
    BY DEF Kept
  <2> HIDE DEF old, kept
  <2>4. /\ rec'.pc = "assign" /\ rec'.fams = rec.fams /\ rec'.given = kept
        /\ rec'.todo = WithAddress(rec.fams) \ DOMAIN kept
    BY <2>1, <1>a DEF Recs
  <2>5. WithAddress(rec'.fams) = WithAddress(rec.fams)
    BY <2>4
  <2>6. /\ DOMAIN rec'.given \subseteq WithAddress(rec'.fams)
        /\ WithAddress(rec'.fams) \subseteq DOMAIN rec'.given \cup rec'.todo
    BY <2>3, <2>4, <2>5
  <2>7. QED
    BY <2>2, <2>4, <2>6 DEF PublishInv
<1>4. ASSUME NEW p \in Pods, GiveIdentifier(p)
      PROVE  PublishInv'
  <2>1. rec.pc = "assign" /\ UNCHANGED <<pods, views, queued, unseen>>
    BY <1>4 DEF GiveIdentifier, AtAssign
  <2>2. /\ p \in rec.todo /\ rec'.todo = rec.todo \ {p}
        /\ rec'.pc = rec.pc /\ rec'.fams = rec.fams
        /\ DOMAIN rec'.given = DOMAIN rec.given \cup {p}
        /\ \A q \in DOMAIN rec.given : rec'.given[q] = rec.given[q]
    BY <1>4, GiveLemma
  <2>3. InUse \subseteq InUse'
    BY <2>2 DEF InUse
  <2>4. WithAddress(rec'.fams) = WithAddress(rec.fams)
    BY <2>2
  <2>5. ASSUME ~queued, unseen = 0
        PROVE  /\ rec'.fams = pods'
               /\ DOMAIN rec'.given \cup rec'.todo \subseteq WithAddress(rec'.fams)
               /\ \/ WithAddress(rec'.fams) \subseteq DOMAIN rec'.given \cup rec'.todo
                  \/ Ids \subseteq InUse'
    BY <2>1, <2>2, <2>3, <2>4, <2>5 DEF PublishInv
  <2>6. QED
    BY <2>1, <2>2, <2>5 DEF PublishInv
<1>5. ASSUME NEW p \in Pods, LeaveOut(p)
      PROVE  PublishInv'
  <2>1. rec.pc = "assign" /\ Ids \subseteq InUse /\ UNCHANGED <<pods, views, queued, unseen>>
    BY <1>5 DEF LeaveOut, AtAssign, Candidates
  <2>2. /\ rec'.todo = rec.todo \ {p} /\ rec'.given = rec.given
        /\ rec'.pc = rec.pc /\ rec'.fams = rec.fams
    BY <1>5, <1>a DEF LeaveOut, Recs
  <2>3. InUse' = InUse /\ WithAddress(rec'.fams) = WithAddress(rec.fams)
    BY <2>2 DEF InUse
  <2>4. QED
    BY <2>1, <2>2, <2>3 DEF PublishInv
<1>6. CASE WriteIPv4
  <2>1. /\ rec.pc = "assign" /\ rec.todo = {} /\ UNCHANGED <<pods, queued, unseen>>
        /\ views' = Published("IPv4")
    BY <1>6 DEF WriteIPv4
  <2>2. /\ rec'.pc = "write6" /\ rec'.todo = rec.todo /\ rec'.given = rec.given
        /\ rec'.fams = rec.fams
    BY <1>6, <1>a DEF WriteIPv4, Recs
  <2>3. Stored'["IPv4"] = Split(rec.given, rec.fams, "IPv4")
    BY <2>1, <1>c, StoredAfter
  <2>4. /\ InUse' = InUse /\ WithAddress(rec'.fams) = WithAddress(rec.fams)
        /\ Split(rec'.given, rec'.fams, "IPv4") = Split(rec.given, rec.fams, "IPv4")
    BY <2>2 DEF InUse
  <2>5. QED
    BY <2>1, <2>2, <2>3, <2>4 DEF PublishInv
<1>7. CASE WriteIPv6
  <2>1. /\ rec.pc = "write6" /\ UNCHANGED <<pods, queued, unseen>>
        /\ views' = Published("IPv6") /\ rec'.pc = "idle"
    BY <1>7, IdleGiven DEF WriteIPv6
  <2>2. SUFFICES ASSUME ~queued, unseen = 0
                 PROVE  Reflects'
    BY <2>1 DEF PublishInv
  <2>3. /\ rec.fams = pods /\ rec.todo = {}
        /\ DOMAIN rec.given \subseteq WithAddress(rec.fams)
        /\ WithAddress(rec.fams) \subseteq DOMAIN rec.given \/ Ids \subseteq InUse
        /\ Stored["IPv4"] = Split(rec.given, rec.fams, "IPv4")
    BY <2>1, <2>2 DEF PublishInv
  <2>4. /\ Stored'["IPv6"] = Split(rec.given, rec.fams, "IPv6")
        /\ Stored'["IPv4"] = Split(rec.given, rec.fams, "IPv4")
    BY <2>1, <2>3, <1>c, StoredAfter
  <2>5. PICK a, b, g : a = Stored'["IPv4"] /\ b = Stored'["IPv6"] /\ g = rec.given
    OBVIOUS
  <2>6. PICK fams \in [Pods -> SUBSET Families] : fams = rec.fams
    BY <1>a DEF Recs
  <2>7. /\ DOMAIN Merge(a, b) = DOMAIN g
        /\ {Merge(a, b)[p] : p \in DOMAIN Merge(a, b)} = {g[p] : p \in DOMAIN g}
        /\ \A p \in DOMAIN a : "IPv4" \in fams[p]
        /\ \A p \in DOMAIN b : "IPv6" \in fams[p]
        /\ \A p \in DOMAIN g : "IPv4" \in fams[p] => p \in DOMAIN a
        /\ \A p \in DOMAIN g : "IPv6" \in fams[p] => p \in DOMAIN b
    BY <2>3, <2>4, <2>5, <2>6, WrittenReflects
  <2>8. /\ fams = pods' /\ Endpoints(Stored)' = Merge(a, b)
        /\ Ids \subseteq InUse => Ids \subseteq {g[p] : p \in DOMAIN g}
        /\ WithAddress(fams) \subseteq DOMAIN g \/ Ids \subseteq InUse
        /\ WithAddress(pods') = WithAddress(fams)
    BY <2>1, <2>3, <2>5, <2>6 DEF Endpoints, InUse
  <2>9. \A f \in Families : \A p \in DOMAIN Stored'[f] : f \in pods'[p]
    BY <2>5, <2>7, <2>8 DEF Families
  <2>10. \A p \in DOMAIN Merge(a, b) : \A f \in pods'[p] : p \in DOMAIN Stored'[f]
    <3>1. pods' \in [Pods -> SUBSET Families]
      BY <2>6, <2>8
    <3>2. DOMAIN g \subseteq Pods
      BY <2>3, <2>5 DEF WithAddress
    <3>3. QED
      BY <3>1, <3>2, <2>5, <2>7, <2>8 DEF Families
  <2>11. \/ WithAddress(pods') \subseteq DOMAIN Merge(a, b)
         \/ Ids \subseteq {Merge(a, b)[p] : p \in DOMAIN Merge(a, b)}
    BY <2>7, <2>8
  <2>12. QED
    BY <2>8, <2>9, <2>10, <2>11 DEF Reflects
<1>8. CASE Restart \/ \E f \in Families : WriteFails(f)
  <2>1. queued' = TRUE
    BY <1>8 DEF Restart, WriteFails
  <2>2. QED
    BY <2>1 DEF PublishInv
<1>9. CASE Deliver
  <2>1. views \in Seq(Slices) /\ Len(views) > 1 /\ views' = Tail(views)
    BY <1>9, TypeRestated DEF Deliver
  <2>2. Stored' = Stored /\ UNCHANGED <<pods, queued, rec, unseen>>
    BY <1>9, <2>1 DEF Deliver, Stored
  <2>3. QED
    BY <2>2 DEF PublishInv, Reflects, InUse
<1>10. ASSUME NEW f \in Families, SliceEmptied(f)
       PROVE  PublishInv'
  <2>1. unseen' # 0
    BY <1>10, <1>a DEF SliceEmptied, Unseen
  <2>2. QED
    BY <2>1 DEF PublishInv
<1>11. CASE OtherEvent \/ \E p \in Pods, fams \in SUBSET Families : PodChanges(p, fams)
  <2>1. queued' = TRUE \/ unseen' # 0
    BY <1>11, <1>a DEF OtherEvent, PodChanges, Unseen
  <2>2. QED
    BY <2>1 DEF PublishInv
<1>12. CASE UNCHANGED vars
  BY <1>12, <1>b DEF vars, PublishInv, Reflects, InUse
<1>13. QED
  BY <1>1, <1>2, <1>3, <1>4, <1>5, <1>6, <1>7, <1>8, <1>9, <1>10, <1>11, <1>12
     DEF Next, Reconcile

(* Once the work queue is empty and no reconciliation is in progress, the  *)
(* slices list exactly the pods with addresses, each in its families, as   *)
(* long as no change has gone without an event: of a slice, made by        *)
(* others, or of a pod, whose event podEnqueue has lost.                   *)
SettledReflects == rec.pc = "idle" /\ ~queued /\ unseen = 0 => Reflects

(* A settled service is published as its pods are, and an endpoint is left *)
(* out only when all identifiers are taken: for any lag of the cache, and  *)
(* whatever writes failed or restarts cut a reconciliation off.  It is the *)
(* safety half of Settles.                                                 *)
THEOREM Settled == Spec => []SettledReflects
<1>1. Init => PublishInv
  BY DEF Init, PublishInv
<1>2. TypeOK /\ GivenInv /\ PublishInv /\ [Next]_vars => PublishInv'
  BY PublishStep
<1>3. Init => GivenInv
  BY IdleGiven DEF Init, GivenInv
<1>4. TypeOK /\ GivenInv /\ [Next]_vars => GivenInv'
  BY GivenStep
<1>5. PublishInv => SettledReflects
  BY DEF PublishInv, SettledReflects
<1>6. QED
  BY <1>1, <1>2, <1>3, <1>4, <1>5, TypeCorrect, PTL DEF Spec
-----------------------------------------------------------------------------
(* What a reconciliation gives against what is stored, when reads are      *)
(* fresh: MaxLag = 0.                                                      *)

(* part is a part of the map g. *)
IsPart(part, g) ==
    DOMAIN part \subseteq DOMAIN g /\ \A p \in DOMAIN part : part[p] = g[p]

Agree(a, b) == \A p \in DOMAIN a \cap DOMAIN b : a[p] = b[p]

(* SlicesAgree, carried through a reconciliation: what it has read and     *)
(* what it gives agree with what is stored.                                *)
AgreeInv ==
    /\ Agree(Stored["IPv4"], Stored["IPv6"])
    /\ rec.pc = "get6" =>
          /\ Agree(rec.ipv4, Stored["IPv4"]) /\ Agree(rec.ipv4, Stored["IPv6"])
          /\ DOMAIN Stored["IPv4"] \subseteq DOMAIN rec.ipv4
    /\ rec.pc = "assign" =>
          \A f \in Families : DOMAIN Stored[f] \subseteq DOMAIN rec.old
    /\ rec.pc \in {"assign", "write6"} =>
          \A f \in Families : Agree(rec.given, Stored[f])

(* A submap of a map that agrees with others. *)
LEMMA SplitLemma ==
    ASSUME NEW g, NEW fams, NEW f
    PROVE  /\ DOMAIN Split(g, fams, f) \subseteq DOMAIN g
           /\ \A p \in DOMAIN Split(g, fams, f) : Split(g, fams, f)[p] = g[p]
BY DEF Split

(* How a step changes what is stored: one slice at most. *)
LEMMA StoredChange ==
    ASSUME TypeOK, [Next]_vars, MaxLag = 0
    PROVE  \/ Stored' = Stored
           \/ \E f \in Families :
                /\ \/ f = "IPv4" /\ rec.pc = "assign"
                   \/ f = "IPv6" /\ rec.pc = "write6"
                /\ Stored' = [Stored EXCEPT ![f] = Split(rec.given, rec.fams, f)]
           \/ \E f \in Families :
                Stored' = [Stored EXCEPT ![f] = NoEndpoints] /\ rec' = rec
<1>a. /\ views \in Seq(Slices) /\ Len(views) \in 1 .. (MaxLag + 1) /\ MaxLag \in Nat
  BY TypeRestated, IdentifiersAssumption
<1>b. views' = views => Stored' = Stored
  BY DEF Stored
<1>c. \A f \in Families : views' = Published(f)
         => Stored' = [Stored EXCEPT ![f] = Split(rec.given, rec.fams, f)]
  BY PublishedLemma DEF Stored
<1>1. CASE WriteIPv4 \/ WriteIPv6
  BY <1>1, <1>c DEF WriteIPv4, WriteIPv6, Families
<1>2. CASE \E f \in Families : WriteFails(f)
  BY <1>2, <1>b, <1>c DEF WriteFails, Writing
<1>3. CASE Restart
  BY <1>3 DEF Restart, Stored
<1>4. CASE Deliver
  BY <1>4, <1>a DEF Deliver
<1>5. CASE \E f \in Families : SliceEmptied(f)
  <2>1. PICK f \in Families : SliceEmptied(f)
    BY <1>5
  <2>2. Stored' = [Stored EXCEPT ![f] = NoEndpoints]
    BY <2>1, EmptiedLemma DEF SliceEmptied, Stored
  <2>3. QED
    BY <2>1, <2>2 DEF SliceEmptied
<1>6. CASE UNCHANGED views
  BY <1>6, <1>b
<1>7. QED
  BY <1>1, <1>2, <1>3, <1>4, <1>5, <1>6
     DEF Next, Reconcile, ListPods, GetIPv4, GetIPv6, GiveIdentifier, LeaveOut,
         OtherEvent, PodChanges, vars

LEMMA FreshReads ==
    ASSUME TypeOK, MaxLag = 0
    PROVE  Cached = Stored /\ Len(views) = 1
<1>1. views \in Seq(Slices) /\ Len(views) \in 1 .. (MaxLag + 1)
  BY TypeRestated
<1>2. Len(views) = 1
  BY <1>1
<1>3. QED
  BY <1>1, <1>2 DEF Cached, Stored

(* Replacing a slice by one that agrees with both, or by an empty one. *)
LEMMA AgreeReplaced ==
    ASSUME TypeOK, NEW f \in Families, NEW g,
           Agree(Stored["IPv4"], Stored["IPv6"]),
           \A h \in Families : Agree(g, Stored[h]),
           NEW part, DOMAIN part \subseteq DOMAIN g, \A p \in DOMAIN part : part[p] = g[p],
           Stored' = [Stored EXCEPT ![f] = part]
    PROVE  /\ Agree(Stored'["IPv4"], Stored'["IPv6"])
           /\ \A h \in Families : Agree(g, Stored'[h])
<1>1. DOMAIN Stored = Families
  BY StoredType DEF Slices
<1>2. \A h \in Families : Stored'[h] = IF h = f THEN part ELSE Stored[h]
  BY <1>1
<1>3. QED
  BY <1>2 DEF Agree, Families

LEMMA AgreeEmptied ==
    ASSUME TypeOK, AgreeInv, NEW f \in Families, rec' = rec,
           Stored' = [Stored EXCEPT ![f] = NoEndpoints]
    PROVE  AgreeInv'
<1>1. DOMAIN Stored = Families
  BY StoredType DEF Slices
<1>2. \A h \in Families : Stored'[h] = IF h = f THEN NoEndpoints ELSE Stored[h]
  BY <1>1
<1>3. DOMAIN NoEndpoints = {}
  BY DEF NoEndpoints
<1>4. \A h \in Families : /\ DOMAIN Stored'[h] \subseteq DOMAIN Stored[h]
                          /\ \A p \in DOMAIN Stored'[h] : Stored'[h][p] = Stored[h][p]
  BY <1>2, <1>3
<1>5. "IPv4" \in Families /\ "IPv6" \in Families
  BY DEF Families
<1>6. QED
  BY <1>4, <1>5 DEF AgreeInv, Agree

LEMMA AgreeStep ==
    ASSUME TypeOK, GivenInv, AgreeInv, [Next]_vars, MaxLag = 0
    PROVE  AgreeInv'
<1>a. rec \in Recs
  BY TypeRestated
<1>b. ASSUME Stored' = Stored, rec'.pc \in {"idle", "get4"}
      PROVE  AgreeInv'
  BY <1>b DEF AgreeInv
<1>c. ASSUME NEW f \in Families, rec.pc \in {"assign", "write6"},
             Stored' = [Stored EXCEPT ![f] = Split(rec.given, rec.fams, f)]
      PROVE  /\ Agree(Stored'["IPv4"], Stored'["IPv6"])
             /\ \A h \in Families : Agree(rec.given, Stored'[h])
  <2>1. /\ Agree(Stored["IPv4"], Stored["IPv6"])
        /\ \A h \in Families : Agree(rec.given, Stored[h])
    BY <1>c DEF AgreeInv
  <2>2. /\ DOMAIN Split(rec.given, rec.fams, f) \subseteq DOMAIN rec.given
        /\ \A p \in DOMAIN Split(rec.given, rec.fams, f) :
              Split(rec.given, rec.fams, f)[p] = rec.given[p]
    BY SplitLemma
  <2>3. PICK g, part : g = rec.given /\ part = Split(rec.given, rec.fams, f)
    OBVIOUS
  <2>4. /\ Agree(Stored'["IPv4"], Stored'["IPv6"])
        /\ \A h \in Families : Agree(g, Stored'[h])
    <3>1. \A h \in Families : Agree(g, Stored[h])
      BY <2>1, <2>3
    <3>2. DOMAIN part \subseteq DOMAIN g /\ \A p \in DOMAIN part : part[p] = g[p]
      BY <2>2, <2>3
    <3>3. Stored' = [Stored EXCEPT ![f] = part]
      BY <1>c, <2>3
    <3>4. QED
      BY <2>1, <3>1, <3>2, <3>3, AgreeReplaced
  <2>5. QED
    BY <2>3, <2>4
<1>d. views' = views => Stored' = Stored
  BY DEF Stored
<1>e. "IPv4" \in Families /\ "IPv6" \in Families /\ Families = {"IPv4", "IPv6"}
  BY DEF Families
<1>1. CASE ListPods
  BY <1>1, <1>b, <1>d, ListPodsLemma DEF ListPods
<1>2. CASE GetIPv4
  <2>1. rec'.pc = "get6" /\ rec'.ipv4 = Stored["IPv4"]
    BY <1>2, <1>a, FreshReads DEF GetIPv4, Recs
  <2>2. Stored' = Stored
    BY <1>2, <1>d DEF GetIPv4
  <2>3. QED
    BY <2>1, <2>2 DEF AgreeInv, Agree
<1>3. CASE GetIPv6
  <2> DEFINE old == Merge(rec.ipv4, Stored["IPv6"])
  <2>1. Stored' = Stored
    BY <1>3, <1>d DEF GetIPv6
  <2>2. /\ rec'.old = old /\ rec'.pc = "assign"
        /\ DOMAIN rec'.given \subseteq DOMAIN old
        /\ \A p \in DOMAIN rec'.given : rec'.given[p] = old[p]
    BY <1>3, GetIPv6Lemma, FreshReads
  <2>3. /\ Agree(Stored["IPv4"], Stored["IPv6"])
        /\ Agree(rec.ipv4, Stored["IPv4"]) /\ Agree(rec.ipv4, Stored["IPv6"])
        /\ DOMAIN Stored["IPv4"] \subseteq DOMAIN rec.ipv4
    BY <1>3 DEF GetIPv6, AgreeInv
  <2>4. /\ DOMAIN old = DOMAIN rec.ipv4 \cup DOMAIN Stored["IPv6"]
        /\ \A p \in DOMAIN old :
              old[p] = IF p \in DOMAIN rec.ipv4 THEN rec.ipv4[p] ELSE Stored["IPv6"][p]
    BY DEF Merge
  <2> HIDE DEF old
  <2>5. Agree(rec'.given, Stored["IPv4"]) /\ Agree(rec'.given, Stored["IPv6"])
    BY <2>2, <2>3, <2>4 DEF Agree
  <2>6. \A f \in Families : DOMAIN Stored[f] \subseteq DOMAIN old
    BY <2>3, <2>4, <1>e
  <2>7. QED
    BY <2>1, <2>2, <2>3, <2>5, <2>6, <1>e DEF AgreeInv
<1>4. ASSUME NEW p \in Pods, GiveIdentifier(p)
      PROVE  AgreeInv'
  <2>1. Stored' = Stored /\ rec.pc = "assign"
    BY <1>4, <1>d DEF GiveIdentifier, AtAssign
  <2>2. /\ p \in rec.todo /\ rec'.pc = rec.pc /\ rec'.old = rec.old
        /\ DOMAIN rec'.given = DOMAIN rec.given \cup {p}
        /\ \A q \in DOMAIN rec.given : rec'.given[q] = rec.given[q]
    BY <1>4, GiveLemma
  <2>3. \A f \in Families : p \notin DOMAIN Stored[f]
    BY <2>1, <2>2 DEF AgreeInv, GivenInv
  <2>4. \A f \in Families : Agree(rec'.given, Stored[f])
    BY <2>1, <2>2, <2>3 DEF AgreeInv, Agree
  <2>5. QED
    BY <2>1, <2>2, <2>4 DEF AgreeInv
<1>5. ASSUME NEW p \in Pods, LeaveOut(p)
      PROVE  AgreeInv'
  <2>1. Stored' = Stored
    BY <1>5, <1>d DEF LeaveOut
  <2>2. rec'.pc = rec.pc /\ rec'.old = rec.old /\ rec'.given = rec.given /\ rec.pc = "assign"
    BY <1>5, <1>a DEF LeaveOut, AtAssign, Recs
  <2>3. QED
    BY <2>1, <2>2 DEF AgreeInv
<1>6. CASE WriteIPv4
  <2>1. rec.pc = "assign" /\ rec'.pc = "write6" /\ rec'.given = rec.given
    BY <1>6, <1>a DEF WriteIPv4, Recs
  <2>2. Stored' = [Stored EXCEPT !["IPv4"] = Split(rec.given, rec.fams, "IPv4")]
    BY <1>6, <1>e, PublishedLemma DEF WriteIPv4, Stored
  <2>3. QED
    BY <2>1, <2>2, <1>c, <1>e DEF AgreeInv
<1>7. CASE WriteIPv6
  <2>1. rec.pc = "write6" /\ rec'.pc = "idle"
    BY <1>7, IdleGiven DEF WriteIPv6
  <2>2. Stored' = [Stored EXCEPT !["IPv6"] = Split(rec.given, rec.fams, "IPv6")]
    BY <1>7, <1>e, PublishedLemma DEF WriteIPv6, Stored
  <2>3. QED
    BY <2>1, <2>2, <1>c, <1>e DEF AgreeInv
<1>8. ASSUME NEW f \in Families, WriteFails(f)
      PROVE  AgreeInv'
  <2>1. rec.pc \in {"assign", "write6"} /\ rec'.pc = "idle"
    BY <1>8, IdleGiven DEF WriteFails, Writing
  <2>2. \/ Stored' = Stored
        \/ Stored' = [Stored EXCEPT ![f] = Split(rec.given, rec.fams, f)]
    BY <1>8, <1>d, PublishedLemma DEF WriteFails, Stored
  <2>3. Agree(Stored'["IPv4"], Stored'["IPv6"])
    BY <2>1, <2>2, <1>c DEF AgreeInv
  <2>4. QED
    BY <2>1, <2>3 DEF AgreeInv
<1>9. CASE Restart
  <2>1. Stored' = Stored
    BY <1>9 DEF Restart, Stored
  <2>2. QED
    BY <1>9, <2>1, <1>b, IdleGiven DEF Restart
<1>10. CASE Deliver
  BY <1>10, FreshReads DEF Deliver
<1>11. ASSUME NEW f \in Families, SliceEmptied(f)
       PROVE  AgreeInv'
  <2>1. Stored' = [Stored EXCEPT ![f] = NoEndpoints]
    BY <1>11, EmptiedLemma DEF SliceEmptied, Stored
  <2>2. QED
    BY <1>11, <2>1, AgreeEmptied DEF SliceEmptied
<1>12. CASE UNCHANGED <<views, rec>>
  BY <1>12, <1>d DEF AgreeInv
<1>13. QED
  BY <1>1, <1>2, <1>3, <1>4, <1>5, <1>6, <1>7, <1>8, <1>9, <1>10, <1>11, <1>12
     DEF Next, Reconcile, OtherEvent, PodChanges, vars

(* The three layers together, while reads are fresh. *)
LEMMA FreshInductive ==
    ASSUME MaxLag = 0
    PROVE  Spec => [](TypeOK /\ GivenInv /\ AgreeInv)
<1>1. Init => GivenInv /\ AgreeInv
  <2> SUFFICES ASSUME Init PROVE GivenInv /\ AgreeInv
    OBVIOUS
  <2>1. Stored = NoSlices /\ DOMAIN NoEndpoints = {} /\ rec = Idle
    BY DEF Init, Stored, NoEndpoints
  <2>2. \A f \in Families : NoSlices[f] = NoEndpoints
    BY DEF NoSlices
  <2>3. QED
    BY <2>1, <2>2, IdleGiven DEF GivenInv, AgreeInv, Agree, Families
<1>2. TypeOK /\ GivenInv /\ AgreeInv /\ [Next]_vars => AgreeInv'
  BY AgreeStep
<1>3. TypeOK /\ GivenInv /\ [Next]_vars => GivenInv'
  BY GivenStep
<1>4. QED
  BY <1>1, <1>2, <1>3, TypeCorrect, PTL DEF Spec

(* With fresh reads the two slices never give an endpoint two identifiers, *)
(* whatever write fails or is cut off by a restart.                        *)
THEOREM BothSlicesAgree == ASSUME MaxLag = 0 PROVE Spec => []SlicesAgree
<1>1. AgreeInv => SlicesAgree
  BY DEF AgreeInv, Agree, SlicesAgree
<1>2. QED
  BY <1>1, FreshInductive, PTL

(* With fresh reads an endpoint keeps its identifier for as long as it is  *)
(* listed, through failures and restarts.                                  *)
THEOREM IdentifiersAreStable == ASSUME MaxLag = 0 PROVE Spec => StableIds
<1> DEFINE Keeps == \A p \in DOMAIN Endpoints(Stored) \cap DOMAIN Endpoints(Stored') :
                       Endpoints(Stored)[p] = Endpoints(Stored')[p]
<1>1. TypeOK /\ AgreeInv /\ [Next]_vars => Keeps
  <2> SUFFICES ASSUME TypeOK, AgreeInv, [Next]_vars PROVE Keeps
    OBVIOUS
  <2>a. DOMAIN Stored = Families
    BY StoredType DEF Slices
  <2>b. ASSUME NEW f \in Families, NEW part, Stored' = [Stored EXCEPT ![f] = part],
               \A h \in Families : \A p \in DOMAIN part \cap DOMAIN Stored[h] :
                   part[p] = Stored[h][p]
        PROVE  Keeps
    <3>1. \A h \in Families : Stored'[h] = IF h = f THEN part ELSE Stored[h]
      BY <2>a, <2>b
    <3>2. Agree(Stored["IPv4"], Stored["IPv6"])
      BY DEF AgreeInv
    <3>3. "IPv4" \in Families /\ "IPv6" \in Families /\ Families = {"IPv4", "IPv6"}
      BY DEF Families
    <3>4. QED
      BY <2>b, <3>1, <3>2, <3>3 DEF Endpoints, Merge, Agree
  <2> HIDE DEF Keeps
  <2>1. CASE Stored' = Stored
    BY <2>1 DEF Keeps
  <2>2. CASE \E f \in Families :
               /\ \/ f = "IPv4" /\ rec.pc = "assign"
                  \/ f = "IPv6" /\ rec.pc = "write6"
               /\ Stored' = [Stored EXCEPT ![f] = Split(rec.given, rec.fams, f)]
    <3>1. PICK f \in Families :
               /\ rec.pc \in {"assign", "write6"}
               /\ Stored' = [Stored EXCEPT ![f] = Split(rec.given, rec.fams, f)]
      BY <2>2
    <3>2. PICK part : part = Split(rec.given, rec.fams, f)
      OBVIOUS
    <3>3. \A h \in Families : Agree(rec.given, Stored[h])
      BY <3>1 DEF AgreeInv
    <3>4. /\ DOMAIN part \subseteq DOMAIN rec.given
          /\ \A p \in DOMAIN part : part[p] = rec.given[p]
      BY <3>2, SplitLemma
    <3>5. \A h \in Families : \A p \in DOMAIN part \cap DOMAIN Stored[h] :
             part[p] = Stored[h][p]
      BY <3>3, <3>4 DEF Agree
    <3>6. Stored' = [Stored EXCEPT ![f] = part]
      BY <3>1, <3>2
    <3>7. QED
      BY <3>5, <3>6, <2>b
  <2>3. CASE \E f \in Families : Stored' = [Stored EXCEPT ![f] = NoEndpoints]
    <3>1. DOMAIN NoEndpoints = {}
      BY DEF NoEndpoints
    <3>2. QED
      BY <2>3, <3>1, <2>b
  <2>4. QED
    BY <2>1, <2>2, <2>3, StoredChange
<1>2. QED
  BY <1>1, FreshInductive, PTL DEF Spec, StableIds
-----------------------------------------------------------------------------
(* Uniqueness, while reads are fresh and no write has failed: what is      *)
(* stored, then what has been read, then what is given has no duplicate.   *)
UniqueInv ==
    faults = 0 =>
        /\ rec.pc \in {"idle", "get4"} => Unique(Endpoints(Stored))
        /\ rec.pc = "get6" => Unique(Merge(rec.ipv4, Stored["IPv6"]))
        /\ rec.pc \in {"assign", "write6"} => Unique(rec.given)
        /\ rec.pc = "write6" => IsPart(Stored["IPv4"], rec.given)

LEMMA PartIsUnique ==
    ASSUME NEW g, NEW part, IsPart(part, g), Unique(g)
    PROVE  Unique(part)
BY DEF IsPart, Unique

(* Emptying a slice makes what is merged from it smaller: an endpoint that *)
(* is then taken from the other slice has the same identifier there.       *)
LEMMA MergeEmptied ==
    ASSUME TypeOK, AgreeInv, NEW f \in Families,
           Stored' = [Stored EXCEPT ![f] = NoEndpoints]
    PROVE  /\ IsPart(Endpoints(Stored'), Endpoints(Stored))
           /\ rec.pc = "get6" =>
                IsPart(Merge(rec.ipv4, Stored'["IPv6"]), Merge(rec.ipv4, Stored["IPv6"]))
           /\ \A g : IsPart(Stored["IPv4"], g) => IsPart(Stored'["IPv4"], g)
<1>1. DOMAIN Stored = Families
  BY StoredType DEF Slices
<1>2. \A h \in Families : Stored'[h] = IF h = f THEN NoEndpoints ELSE Stored[h]
  BY <1>1
<1>3. DOMAIN NoEndpoints = {}
  BY DEF NoEndpoints
<1>4. "IPv4" \in Families /\ "IPv6" \in Families
  BY DEF Families
<1>5. Agree(Stored["IPv4"], Stored["IPv6"])
  BY DEF AgreeInv
<1>6. QED
  BY <1>2, <1>3, <1>4, <1>5 DEF IsPart, Endpoints, Merge, Agree

LEMMA UniqueStep ==
    ASSUME TypeOK, GivenInv, AgreeInv, UniqueInv, [Next]_vars, MaxLag = 0
    PROVE  UniqueInv'
<1>a. rec \in Recs /\ faults \in Nat
  BY TypeRestated
<1>b. views' = views => Stored' = Stored
  BY DEF Stored
<1>c. faults' = 0 => faults = 0 /\ ~Fault
  <2>1. faults' = faults + 1 \/ faults' = faults
    BY DEF Next, Reconcile, ListPods, GetIPv4, GetIPv6, GiveIdentifier, LeaveOut,
           WriteIPv4, WriteIPv6, WriteFails, Restart, Deliver, OtherEvent,
           SliceEmptied, PodChanges, vars, Fault
  <2>2. Fault => faults' = faults + 1
    BY DEF Fault
  <2>3. QED
    BY <1>a, <2>1, <2>2
<1>d. SUFFICES ASSUME faults = 0, ~Fault
               PROVE  UniqueInv'
  BY <1>c DEF UniqueInv
<1>e. "IPv4" \in Families /\ "IPv6" \in Families
  BY DEF Families
<1>1. CASE ListPods
  <2>1. rec.pc = "idle" /\ rec'.pc = "get4" /\ Stored' = Stored
    BY <1>1, <1>b, ListPodsLemma DEF ListPods
  <2>2. QED
    BY <1>d, <2>1 DEF UniqueInv
<1>2. CASE GetIPv4
  <2>1. rec.pc = "get4" /\ rec'.pc = "get6" /\ rec'.ipv4 = Stored["IPv4"]
    BY <1>2, <1>a, FreshReads DEF GetIPv4, Recs
  <2>2. Stored' = Stored
    BY <1>2, <1>b DEF GetIPv4
  <2>3. QED
    BY <1>d, <2>1, <2>2 DEF UniqueInv, Endpoints
<1>3. CASE GetIPv6
  <2>1. /\ rec'.old = Merge(rec.ipv4, Stored["IPv6"]) /\ rec'.pc = "assign"
        /\ IsPart(rec'.given, rec'.old)
    BY <1>3, GetIPv6Lemma, FreshReads DEF IsPart
  <2>2. Unique(rec'.old)
    BY <1>3, <1>d, <2>1 DEF UniqueInv, GetIPv6
  <2>3. Unique(rec'.given)
    BY <2>1, <2>2, PartIsUnique
  <2>4. QED
    BY <2>1, <2>3 DEF UniqueInv
<1>4. ASSUME NEW p \in Pods, GiveIdentifier(p)
      PROVE  UniqueInv'
  <2>1. rec.pc = "assign" /\ rec'.pc = rec.pc
    BY <1>4, GiveLemma DEF GiveIdentifier, AtAssign
  <2>2. Unique(rec.given)
    BY <1>d, <2>1 DEF UniqueInv
  <2>3. Unique(rec'.given)
    BY <1>4, <2>2, GiveLemma DEF Unique
  <2>4. QED
    BY <2>1, <2>3 DEF UniqueInv
<1>5. ASSUME NEW p \in Pods, LeaveOut(p)
      PROVE  UniqueInv'
  <2>1. rec'.pc = rec.pc /\ rec'.given = rec.given /\ rec.pc = "assign"
    BY <1>5, <1>a DEF LeaveOut, AtAssign, Recs
  <2>2. QED
    BY <1>d, <2>1 DEF UniqueInv
<1>6. CASE WriteIPv4
  <2>1. rec.pc = "assign" /\ rec'.pc = "write6" /\ rec'.given = rec.given
    BY <1>6, <1>a DEF WriteIPv4, Recs
  <2>2. Stored' = [Stored EXCEPT !["IPv4"] = Split(rec.given, rec.fams, "IPv4")]
    BY <1>6, <1>e, PublishedLemma DEF WriteIPv4, Stored
  <2>3. Stored'["IPv4"] = Split(rec.given, rec.fams, "IPv4")
    BY <2>2, <1>e, StoredType DEF Slices
  <2>4. IsPart(Stored'["IPv4"], rec.given)
    BY <2>3, SplitLemma DEF IsPart
  <2>5. QED
    BY <1>d, <2>1, <2>4 DEF UniqueInv
<1>7. CASE WriteIPv6
  <2>1. rec.pc = "write6" /\ rec'.pc = "idle"
    BY <1>7, IdleGiven DEF WriteIPv6
  <2>2. Stored' = [Stored EXCEPT !["IPv6"] = Split(rec.given, rec.fams, "IPv6")]
    BY <1>7, <1>e, PublishedLemma DEF WriteIPv6, Stored
  <2>3. /\ Stored'["IPv6"] = Split(rec.given, rec.fams, "IPv6")
        /\ Stored'["IPv4"] = Stored["IPv4"]
    BY <2>2, <1>e, StoredType DEF Slices
  <2>4. Unique(rec.given) /\ IsPart(Stored["IPv4"], rec.given)
    BY <1>d, <2>1 DEF UniqueInv
  <2>5. IsPart(Stored'["IPv4"], rec.given) /\ IsPart(Stored'["IPv6"], rec.given)
    BY <2>3, <2>4, SplitLemma DEF IsPart
  <2>6. IsPart(Endpoints(Stored'), rec.given)
    BY <2>5 DEF IsPart, Endpoints, Merge
  <2>7. Unique(Endpoints(Stored'))
    BY <2>4, <2>6, PartIsUnique
  <2>8. QED
    BY <2>1, <2>7 DEF UniqueInv
<1>8. CASE Restart \/ \E f \in Families : WriteFails(f)
  BY <1>8, <1>d DEF Restart, WriteFails
<1>9. CASE Deliver
  <2>1. Len(views) = 1
    BY FreshReads
  <2>2. Len(views) > 1
    BY <1>9 DEF Deliver
  <2>3. QED
    BY <2>1, <2>2
<1>10. ASSUME NEW f \in Families, SliceEmptied(f)
       PROVE  UniqueInv'
  <2>1. Stored' = [Stored EXCEPT ![f] = NoEndpoints] /\ rec' = rec
    BY <1>10, EmptiedLemma DEF SliceEmptied, Stored
  <2>2. /\ IsPart(Endpoints(Stored'), Endpoints(Stored))
        /\ rec.pc = "get6" =>
             IsPart(Merge(rec.ipv4, Stored'["IPv6"]), Merge(rec.ipv4, Stored["IPv6"]))
        /\ IsPart(Stored["IPv4"], rec.given) => IsPart(Stored'["IPv4"], rec.given)
    BY <2>1, MergeEmptied
  <2>3. rec.pc \in {"idle", "get4"} => Unique(Endpoints(Stored'))
    BY <1>d, <2>2, PartIsUnique DEF UniqueInv
  <2>4. rec.pc = "get6" => Unique(Merge(rec.ipv4, Stored'["IPv6"]))
    BY <1>d, <2>2, PartIsUnique DEF UniqueInv
  <2>5. QED
    BY <1>d, <2>1, <2>2, <2>3, <2>4 DEF UniqueInv
<1>11. CASE UNCHANGED <<views, rec>>
  BY <1>11, <1>b, <1>d DEF UniqueInv
<1>12. QED
  BY <1>1, <1>2, <1>3, <1>4, <1>5, <1>6, <1>7, <1>8, <1>9, <1>10, <1>11
     DEF Next, Reconcile, OtherEvent, PodChanges, vars

(* While reads are fresh and no write has failed, no two endpoints share   *)
(* an identifier between two reconciliations, whatever pods come and go    *)
(* and whatever others do to the slices.                                   *)
THEOREM IdentifiersAreUnique == Spec => []UniqueWhenFresh
<1>1. ASSUME MaxLag = 0
      PROVE  Spec => [](TypeOK /\ GivenInv /\ AgreeInv)
  BY <1>1, FreshInductive
<1>2. Init => UniqueInv
  <2> SUFFICES ASSUME Init PROVE UniqueInv
    OBVIOUS
  <2>1. Stored = NoSlices /\ DOMAIN NoEndpoints = {} /\ rec.pc = "idle"
    BY IdleGiven DEF Init, Stored, NoEndpoints
  <2>2. NoSlices["IPv4"] = NoEndpoints /\ NoSlices["IPv6"] = NoEndpoints
    BY DEF NoSlices, Families
  <2>3. DOMAIN Endpoints(Stored) = {}
    BY <2>1, <2>2 DEF Endpoints, Merge
  <2>4. QED
    BY <2>1, <2>3 DEF UniqueInv, Unique
<1>3. ASSUME MaxLag = 0
      PROVE  TypeOK /\ GivenInv /\ AgreeInv /\ UniqueInv /\ [Next]_vars => UniqueInv'
  BY <1>3, UniqueStep
<1>4. UniqueInv => UniqueWhenFresh
  BY DEF UniqueInv, UniqueWhenFresh, UniqueIds
<1>5. CASE MaxLag = 0
  <2>1. Spec => [](TypeOK /\ GivenInv /\ AgreeInv)
    BY <1>1, <1>5
  <2>2. TypeOK /\ GivenInv /\ AgreeInv /\ UniqueInv /\ [Next]_vars => UniqueInv'
    BY <1>3, <1>5
  <2>3. QED
    BY <2>1, <2>2, <1>2, <1>4, PTL DEF Spec
<1>6. CASE MaxLag # 0
  <2>1. UniqueWhenFresh
    BY <1>6 DEF UniqueWhenFresh
  <2>2. QED
    BY <2>1, PTL
<1>7. QED
  BY <1>5, <1>6
=============================================================================
