-------------------------- MODULE LbManager_proofs --------------------------
(***************************************************************************)
(* Proofs about LbManager, for any services, endpoints and routes and any  *)
(* number of failures.  The inductive invariant has a part for the types,  *)
(* one for what the steps of a reconciliation have established (Progress), *)
(* and one for each property: what a service's record says of its targets, *)
(* and whose flows nfqlb has.                                              *)
(***************************************************************************)
EXTENDS LbManager, FiniteSetTheorems, TLAPS

(* Endpoints the manager records are ready ones. *)
ReadyEndpoints == {e \in Endpoints : e.ready}

Recs ==
    [pc : {"idle", "delete", "add", "endpoints", "slice"},
     want : SUBSET Services, todo : SUBSET Services, err : BOOLEAN,
     svc : Services \cup {None}, first : SUBSET Endpoints]

IsTargets(t) ==
    /\ t = [id \in DOMAIN t |-> t[id]]
    /\ DOMAIN t \subseteq IdsOf(AllEndpoints)
    /\ \A id \in DOMAIN t : t[id] \subseteq Addresses

(* A set of endpoints that an API object or a Go map can hold. *)
IsList(list) == list \subseteq Endpoints /\ IsFiniteSet(list)

ClusterOK ==
    /\ svcs \subseteq Services
    /\ slices \in [Services -> [IPv4 : SUBSET Endpoints, IPv6 : SUBSET Endpoints]]
    /\ \A s \in Services : IsList(slices[s].IPv4) /\ IsList(slices[s].IPv6)
    /\ writing \in [Services -> SUBSET AllLists]
    /\ routes \in [Routes -> Backends \cup {None}]

ManagerOK ==
    /\ held \subseteq Services
    /\ recorded \in [Services -> SUBSET ReadyEndpoints]
    /\ \A s \in Services : IsFiniteSet(recorded[s])
    /\ mflows \subseteq Routes \X Services /\ IsFiniteSet(mflows)

NfqlbOK ==
    /\ known \subseteq shm /\ shm \subseteq Services
    /\ DOMAIN targets = Services
    /\ \A s \in Services : IsTargets(targets[s])
    /\ table \subseteq Routes \X Services

RecOK == rec \in Recs /\ IsFiniteSet(rec.first)
FaultsOK == faults \in 0 .. MaxFaults

Types == ClusterOK /\ ManagerOK /\ NfqlbOK /\ RecOK /\ FaultsOK
-----------------------------------------------------------------------------
(* Finite sets *)

LEMMA ImageIsFinite ==
  ASSUME NEW f, IsFiniteSet(DOMAIN f), NEW S, S = {f[x] : x \in DOMAIN f}, 
         f = [x \in DOMAIN f |-> f[x]]
  PROVE  IsFiniteSet(S)
<1>1. f \in Surjection(DOMAIN f, S)
  BY DEF Surjection
<1>2. QED
  BY <1>1, FS_Surjection

LEMMA NoneFailed ==
  ASSUME NEW S, IsFiniteSet(S), Cardinality(S) = 0
  PROVE  S = {}
BY FS_EmptySet

(* A step in which n commands fail. *)
LEMMA FailuresLemma ==
  ASSUME FaultsOK, NEW n \in Nat, Failures(n)
  PROVE  FaultsOK' /\ (faults' = 0 => faults = 0 /\ n = 0)
BY ListsAssumption DEF FaultsOK, Failures
-----------------------------------------------------------------------------
(* TargetSync *)

LEMMA MergeLemma ==
  ASSUME NEW a, NEW b, IsList(a), IsList(b)
  PROVE  IsList(MergeSlices(a, b))
<1> DEFINE merged(e) == [e EXCEPT !.addrs = @ \cup UNION {o.addrs : o \in {n \in b : n.uid = e.uid}}]
           f == [e \in a |-> merged(e)]
<1>1. ASSUME NEW e \in a PROVE merged(e) \in Endpoints
  <2>1. e \in Endpoints /\ UNION {o.addrs : o \in {n \in b : n.uid = e.uid}} \subseteq Addresses
    BY DEF IsList, Endpoints
  <2>2. QED
    BY <2>1 DEF Endpoints
<1>2. IsFiniteSet({f[x] : x \in DOMAIN f})
  BY ImageIsFinite DEF IsList
<1>3. {f[x] : x \in DOMAIN f} = {merged(e) : e \in a}
  OBVIOUS
<1>4. MergeSlices(a, b) = {merged(e) : e \in a} \cup {e \in b : e.uid \notin Uids(a)}
  BY DEF MergeSlices
<1>5. IsFiniteSet({e \in b : e.uid \notin Uids(a)})
  BY FS_Subset DEF IsList
<1> DEFINE S == {merged(e) : e \in a}
           T == {e \in b : e.uid \notin Uids(a)}
<1>6. S \subseteq Endpoints /\ T \subseteq Endpoints /\ MergeSlices(a, b) = S \cup T
  BY <1>1, <1>4 DEF IsList
<1>7. IsFiniteSet(S) /\ IsFiniteSet(T)
  BY <1>2, <1>3, <1>5
<1> HIDE DEF S, T
<1>8. IsFiniteSet(S \cup T)
  BY <1>7, FS_Union
<1>9. QED
  BY <1>6, <1>8 DEF IsList

LEMMA SliceLemma ==
  ASSUME NEW list, IsList(list), NEW family
  PROVE  IsList(SliceOf(list, family))
<1> DEFINE some == {n \in list : n.addrs \cap family # {}}
           cut(e) == [e EXCEPT !.addrs = @ \cap family]
           f == [e \in some |-> cut(e)]
<1>1. ASSUME NEW e \in some PROVE cut(e) \in Endpoints
  BY DEF IsList, Endpoints
<1>2. IsFiniteSet(some)
  BY FS_Subset DEF IsList
<1>3. IsFiniteSet({f[x] : x \in DOMAIN f})
  BY <1>2, ImageIsFinite
<1>4. {f[x] : x \in DOMAIN f} = {cut(e) : e \in some}
  OBVIOUS
<1>5. SliceOf(list, family) = {cut(e) : e \in some}
  BY DEF SliceOf
<1> HIDE DEF cut, f
<1>6. QED
  BY <1>1, <1>3, <1>4, <1>5 DEF IsList

(* What is recorded is listed: a recorded endpoint is ready, so one that   *)
(* is unchanged is the listed one.                                         *)
LEMMA RecordedIsListed ==
  ASSUME NEW old \in SUBSET ReadyEndpoints, NEW list, IsList(list)
  PROVE  /\ Kept(old, list) \subseteq list
         /\ ToAdd(old, list) \subseteq list
         /\ Recorded(old, list) \subseteq list \cap ReadyEndpoints
<1>1. ASSUME NEW e \in Kept(old, list) PROVE e \in list
  <2>1. e \in old /\ ~ \A n \in list : ~IsUnchanged(e, n)
    BY DEF Kept, ToRemove
  <2>2. PICK n \in list : IsUnchanged(e, n)
    BY <2>1
  <2>3. e \in Endpoints /\ n \in Endpoints /\ e.ready
    BY <2>1 DEF ReadyEndpoints, IsList
  <2>4. e.uid = n.uid /\ e.id = n.id /\ e.addrs = n.addrs /\ e.ready = n.ready
    BY <2>2, <2>3 DEF IsUnchanged, Endpoints
  <2>5. e = n
    BY <2>3, <2>4 DEF Endpoints
  <2>6. QED
    BY <2>5
<1>2. ToAdd(old, list) \subseteq list \cap ReadyEndpoints
  BY DEF ToAdd, ReadyEndpoints, IsList
<1>3. Kept(old, list) \subseteq old
  BY DEF Kept
<1>4. QED
  BY <1>1, <1>2, <1>3 DEF Recorded

(* The targets after SetEndpoints are those that stay and those that are   *)
(* added, under their identifiers.                                         *)
Left(t, old, list) == DOMAIN t \ IdsOf(ToRemove(old, list))

AreTargets(u, t, old, list, failed) ==
    /\ u = [id \in DOMAIN u |-> u[id]]
    /\ DOMAIN u = Left(t, old, list) \cup IdsOf(ToAdd(old, list) \ failed)
    /\ \A id \in Left(t, old, list) : u[id] = t[id]
    /\ \A id \in DOMAIN u \ Left(t, old, list) :
          \E e \in ToAdd(old, list) \ failed : e.id = id /\ u[id] = e.addrs

LEMMA TargetsLemma ==
  ASSUME NEW t, NEW old, NEW list, NEW failed,
         NEW u \in Targets(t, old, list, failed)
  PROVE  AreTargets(u, t, old, list, failed)
<1> DEFINE left == Left(t, old, list)
           done == ToAdd(old, list) \ failed
           kept == AfterRemoval(t, old, list)
           ids == IdsOf(done) \ DOMAIN kept
<1>1. DOMAIN kept = left /\ \A id \in left : kept[id] = t[id]
  BY DEF AfterRemoval, Left
<1>2. u \in AfterAddition(kept, ToAdd(old, list), failed)
  BY DEF Targets
<1> HIDE DEF kept
<1>3. PICK first \in {w \in [ids -> done] : \A id \in ids : w[id].id = id} :
        u = [id \in DOMAIN kept \cup ids |-> IF id \in ids THEN first[id].addrs ELSE kept[id]]
  BY <1>2 DEF AfterAddition
<1>4. DOMAIN u = left \cup IdsOf(done)
  BY <1>1, <1>3
<1>5. \A id \in left : u[id] = t[id]
  BY <1>1, <1>3
<1>6. ASSUME NEW id \in DOMAIN u \ left PROVE \E e \in done : e.id = id /\ u[id] = e.addrs
  BY <1>1, <1>3, <1>4, <1>6
<1>7. u = [id \in DOMAIN u |-> u[id]]
  BY <1>3
<1>8. QED
  BY <1>4, <1>5, <1>6, <1>7 DEF AreTargets
-----------------------------------------------------------------------------
(* Types *)

LEMMA IdleIsOK == Idle \in Recs /\ Idle.pc = "idle" /\ Idle.first = {} /\ IsFiniteSet(Idle.first)
<1>1. Idle \in Recs /\ Idle.pc = "idle" /\ Idle.first = {}
  BY DEF Idle, Recs
<1>2. QED
  BY <1>1, FS_EmptySet

LEMMA NoTargetsLemma == IsTargets(NoTargets) /\ DOMAIN NoTargets = {}
BY DEF NoTargets, IsTargets

LEMMA ListLemma ==
  ASSUME NEW s \in Services, NEW list \in Lists[s]
  PROVE  list \in AllLists /\ IsList(list)
<1>1. list \in AllLists
  BY DEF AllLists
<1>2. QED
  BY <1>1, ListsAssumption DEF IsList

LEMMA TypesInit == Init => Types
<1> SUFFICES ASSUME Init PROVE Types
  OBVIOUS
<1>1. IsList({})
  BY FS_EmptySet DEF IsList
<1>2. ClusterOK
  BY <1>1 DEF Init, ClusterOK, NoSlices
<1>3. ManagerOK
  BY FS_EmptySet DEF Init, ManagerOK
<1>4. NfqlbOK
  BY NoTargetsLemma DEF Init, NfqlbOK
<1>5. RecOK
  BY IdleIsOK DEF Init, RecOK
<1>6. FaultsOK
  BY ListsAssumption DEF Init, FaultsOK
<1>7. QED
  BY <1>2, <1>3, <1>4, <1>5, <1>6 DEF Types

(* The cluster changes in its own steps. *)
ClusterStep ==
    \/ \E s \in Services : ServiceChanges(s) \/ FirstSliceWritten(s) \/ SecondSliceWritten(s)
    \/ \E r \in Routes : RouteChanges(r)

(* They leave the load balancer alone, and may lose one event. *)
AsideOK == UNCHANGED <<manager, nfqlb, rec, clashed>> /\ (faults' = faults \/ Failures(1))

LEMMA ClusterTypes ==
  ASSUME Types, ClusterStep
  PROVE  ClusterOK' /\ AsideOK
<1>1. ASSUME NEW s \in Services, ServiceChanges(s)
      PROVE  ClusterOK' /\ AsideOK
  BY <1>1 DEF ServiceChanges, AsideOK, Types, ClusterOK
<1>2. ASSUME NEW r \in Routes, RouteChanges(r)
      PROVE  ClusterOK' /\ AsideOK
  BY <1>2 DEF RouteChanges, AsideOK, Types, ClusterOK
<1>3. ASSUME NEW s \in Services, NEW list, IsList(list),
             \/ slices' = [slices EXCEPT ![s].IPv4 = SliceOf(list, IPv4)]
             \/ slices' = [slices EXCEPT ![s].IPv6 = SliceOf(list, IPv6)],
             writing' \in [Services -> SUBSET AllLists],
             UNCHANGED <<svcs, routes>>, Types
      PROVE  ClusterOK'
  <2>1. IsList(SliceOf(list, IPv4)) /\ IsList(SliceOf(list, IPv6))
    BY <1>3, SliceLemma
  <2>2. slices \in [Services -> [IPv4 : SUBSET Endpoints, IPv6 : SUBSET Endpoints]]
    BY DEF Types, ClusterOK
  <2>3. \A t \in Services : t # s => slices'[t] = slices[t]
    BY <1>3, <2>2
  <2>4. slices' \in [Services -> [IPv4 : SUBSET Endpoints, IPv6 : SUBSET Endpoints]]
    BY <1>3, <2>1, <2>2 DEF IsList
  <2>5. IsList(slices'[s].IPv4) /\ IsList(slices'[s].IPv6)
    BY <1>3, <2>1, <2>2 DEF Types, ClusterOK
  <2>6. QED
    BY <1>3, <2>3, <2>4, <2>5 DEF Types, ClusterOK
<1>4. ASSUME NEW s \in Services, FirstSliceWritten(s)
      PROVE  ClusterOK' /\ AsideOK
  <2>1. PICK list \in Lists[s] :
          /\ slices' = [slices EXCEPT ![s].IPv4 = SliceOf(list, IPv4)]
          /\ writing' = [writing EXCEPT ![s] = {list}]
    BY <1>4 DEF FirstSliceWritten
  <2>2. IsList(list) /\ list \in AllLists
    BY ListLemma
  <2>3. writing' \in [Services -> SUBSET AllLists]
    BY <2>1, <2>2 DEF Types, ClusterOK
  <2>4. QED
    BY <1>3, <1>4, <2>1, <2>2, <2>3 DEF FirstSliceWritten, SliceWritten, AsideOK
<1>5. ASSUME NEW s \in Services, SecondSliceWritten(s)
      PROVE  ClusterOK' /\ AsideOK
  <2>1. PICK list \in writing[s] : slices' = [slices EXCEPT ![s].IPv6 = SliceOf(list, IPv6)]
    BY <1>5 DEF SecondSliceWritten
  <2>2. list \in AllLists /\ writing' \in [Services -> SUBSET AllLists]
    BY <1>5 DEF SecondSliceWritten, Types, ClusterOK
  <2>3. IsList(list)
    BY <2>2, ListsAssumption DEF IsList
  <2>4. QED
    BY <1>3, <1>5, <2>1, <2>2, <2>3 DEF SecondSliceWritten, SliceWritten, AsideOK
<1>6. QED
  BY <1>1, <1>2, <1>4, <1>5 DEF ClusterStep

(* What a reconciliation may delete and add in one call of SetEndpoints. *)
LEMMA CountLemma ==
  ASSUME NEW a, NEW b, IsFiniteSet(a), IsFiniteSet(b)
  PROVE  /\ Cardinality(a) + Cardinality(b) \in Nat
         /\ Cardinality(a) + Cardinality(b) = 0 => a = {} /\ b = {}
<1>1. Cardinality(a) \in Nat /\ Cardinality(b) \in Nat
  BY FS_CardinalityType
<1>2. QED
  BY <1>1, NoneFailed

(* SetEndpoints of a service s with a list, of which some calls fail. *)
SetEndpointsOf(s, list, failed, broken, t) ==
    /\ s = rec.svc /\ list = MergeSlices(rec.first, slices[s].IPv6)
    /\ failed \subseteq ToAdd(recorded[s], list) /\ broken \subseteq recorded[s]
    /\ s \in shm => Failures(Cardinality(failed) + Cardinality(broken))
    /\ s \notin shm => UNCHANGED faults
    /\ t \in Targets(targets[s], recorded[s], list, failed)
    /\ targets' = [targets EXCEPT ![s] = t]
    /\ recorded' = [recorded EXCEPT ![s] = Recorded(@, list)]
    /\ clashed' = IF Unique(list) THEN clashed ELSE clashed \cup {s}
    /\ \/ rec' = Idle
       \/ rec' = [rec EXCEPT !.pc = "endpoints", !.todo = @ \ {s}, !.svc = None, !.first = {}]

LEMMA SetEndpointsCase ==
  ASSUME SetEndpoints
  PROVE  \E s, list, failed, broken, t : SetEndpointsOf(s, list, failed, broken, t)
<1> DEFINE s == rec.svc
           list == MergeSlices(rec.first, slices[s].IPv6)
           deactivated == {e \in ToRemove(recorded[s], list) : e.id \in DOMAIN targets[s]}
           added == ToAdd(recorded[s], list)
           free == {e \in added : e.id \notin DOMAIN AfterRemoval(targets[s], recorded[s], list)}
<1>1. PICK failed \in SUBSET free, broken \in SUBSET deactivated :
            /\ IF s \in shm THEN Failures(Cardinality(failed) + Cardinality(broken))
               ELSE failed = free /\ broken = deactivated /\ UNCHANGED faults
            /\ \E t \in Targets(targets[s], recorded[s], list, failed) :
                targets' = [targets EXCEPT ![s] = t]
            /\ recorded' = [recorded EXCEPT ![s] = Recorded(@, list)]
            /\ clashed' = IF Unique(list) THEN clashed ELSE clashed \cup {s}
            /\ IF failed \cup broken # {} THEN GiveUp
               ELSE /\ rec' = [rec EXCEPT !.pc = "endpoints", !.todo = @ \ {s},
                                          !.svc = None, !.first = {}]
                    /\ UNCHANGED queued
  BY DEF SetEndpoints
<1>2. PICK t \in Targets(targets[s], recorded[s], list, failed) :
        targets' = [targets EXCEPT ![s] = t]
  BY <1>1
<1>3. broken \subseteq recorded[s]
  BY DEF ToRemove
<1>4. SetEndpointsOf(s, list, failed, broken, t)
  BY <1>1, <1>2, <1>3 DEF SetEndpointsOf, GiveUp
<1>5. QED
  BY <1>4

(* What a reconciliation knows at its steps: nfqlb's services have a       *)
(* handle; those to be added have none; those that SetEndpoints is called  *)
(* for have one.                                                           *)
Progress ==
    /\ known \subseteq held
    /\ rec.pc = "add" => rec.todo = rec.want \ held
    /\ rec.pc \in {"endpoints", "slice"} => rec.todo \subseteq held
    /\ rec.pc = "slice" => rec.svc \in rec.todo

LEMMA SetEndpointsTypes ==
  ASSUME Types, Progress, rec.pc = "slice", NEW s, NEW list, NEW failed, NEW broken, NEW t,
         SetEndpointsOf(s, list, failed, broken, t)
  PROVE  /\ s \in held /\ s \in Services /\ IsList(list)
         /\ IsFiniteSet(failed) /\ IsFiniteSet(broken)
         /\ IsTargets(t)
         /\ Recorded(recorded[s], list) \subseteq ReadyEndpoints
         /\ IsFiniteSet(Recorded(recorded[s], list))
         /\ RecOK' /\ FaultsOK'
         /\ faults' = 0 => faults = 0 /\ (s \in shm => failed = {} /\ broken = {})
<1>1. s \in held /\ s \in Services
  BY DEF SetEndpointsOf, Progress, Types, ManagerOK
<1>2. IsList(list)
  BY <1>1, MergeLemma DEF SetEndpointsOf, Types, RecOK, Recs, ClusterOK, IsList
<1>3. recorded[s] \in SUBSET ReadyEndpoints /\ IsFiniteSet(recorded[s]) /\ IsTargets(targets[s])
  BY <1>1 DEF Types, ManagerOK, NfqlbOK
<1>4. /\ ToAdd(recorded[s], list) \subseteq list
      /\ Recorded(recorded[s], list) \subseteq list \cap ReadyEndpoints
  BY <1>2, <1>3, RecordedIsListed
<1>5. IsFiniteSet(Recorded(recorded[s], list))
  BY <1>2, <1>4, FS_Subset DEF IsList
<1>6. IsFiniteSet(failed) /\ IsFiniteSet(broken)
  <2>1. failed \subseteq list /\ broken \subseteq recorded[s]
    BY <1>4 DEF SetEndpointsOf
  <2>2. QED
    BY <1>2, <1>3, <2>1, FS_Subset DEF IsList
<1>7. IsTargets(t)
  <2> DEFINE left == Left(targets[s], recorded[s], list)
             done == ToAdd(recorded[s], list) \ failed
  <2>1. /\ t = [id \in DOMAIN t |-> t[id]]
        /\ DOMAIN t = left \cup IdsOf(done)
        /\ \A id \in left : t[id] = targets[s][id]
        /\ \A id \in DOMAIN t \ left : \E e \in done : e.id = id /\ t[id] = e.addrs
    <3>1. AreTargets(t, targets[s], recorded[s], list, failed)
      BY TargetsLemma DEF SetEndpointsOf
    <3>2. QED
      BY <3>1 DEF AreTargets
  <2>2. done \subseteq Endpoints
    BY <1>2, <1>4 DEF IsList
  <2>3. IdsOf(done) \subseteq IdsOf(AllEndpoints)
    BY <2>2 DEF Endpoints, IdsOf
  <2>4. left \subseteq DOMAIN targets[s]
    BY DEF Left
  <2> HIDE DEF left, done
  <2>5. DOMAIN t \subseteq IdsOf(AllEndpoints)
    BY <1>3, <2>1, <2>3, <2>4 DEF IsTargets
  <2>6. ASSUME NEW id \in DOMAIN t PROVE t[id] \subseteq Addresses
    <3>1. CASE id \in left
      BY <1>3, <2>1, <2>4, <3>1 DEF IsTargets
    <3>2. CASE id \notin left
      <4>1. PICK e \in done : t[id] = e.addrs
        BY <2>1, <3>2
      <4>2. QED
        BY <2>2, <4>1 DEF Endpoints
    <3>3. QED
      BY <3>1, <3>2
  <2>7. QED
    BY <2>1, <2>5, <2>6 DEF IsTargets
<1>8. RecOK'
  <2>1. CASE rec' = Idle
    BY <2>1, IdleIsOK DEF RecOK
  <2>2. CASE rec' = [rec EXCEPT !.pc = "endpoints", !.todo = @ \ {s}, !.svc = None, !.first = {}]
    BY <2>2, FS_EmptySet DEF Types, RecOK, Recs
  <2>3. QED
    BY <2>1, <2>2 DEF SetEndpointsOf
<1>9. FaultsOK' /\ (faults' = 0 => faults = 0 /\ (s \in shm => failed = {} /\ broken = {}))
  <2>1. CASE s \in shm
    <3>1. PICK n \in Nat : n = Cardinality(failed) + Cardinality(broken)
      BY <1>6, CountLemma
    <3>2. Failures(n)
      BY <2>1, <3>1 DEF SetEndpointsOf
    <3>3. n = 0 => failed = {} /\ broken = {}
      BY <1>6, <3>1, CountLemma
    <3>4. QED
      BY <3>2, <3>3, FailuresLemma DEF Types
  <2>2. CASE s \notin shm
    BY <2>2 DEF SetEndpointsOf, Types, FaultsOK
  <2>3. QED
    BY <2>1, <2>2
<1>10. QED
  BY <1>1, <1>2, <1>4, <1>5, <1>6, <1>7, <1>8, <1>9

LEMMA FlowsAreFinite ==
    WantedFlows \subseteq Routes \X held /\ IsFiniteSet(WantedFlows)
<1> DEFINE some == {q \in Routes : routes[q] \in held}
           f == [r \in some |-> <<r, routes[r]>>]
<1>1. IsFiniteSet(some)
  BY ListsAssumption, FS_Subset
<1>2. IsFiniteSet({f[x] : x \in DOMAIN f})
  BY <1>1, ImageIsFinite
<1>3. WantedFlows = {f[x] : x \in DOMAIN f}
  BY DEF WantedFlows
<1>4. WantedFlows \subseteq Routes \X held
  BY DEF WantedFlows
<1> HIDE DEF some, f
<1>5. QED
  BY <1>2, <1>3, <1>4

(* SetFlows, of which some calls fail after what they do. *)
SetFlowsWith(failed, effective) ==
    /\ failed \subseteq (mflows \ WantedFlows) \cup WantedFlows /\ effective \subseteq failed
    /\ Failures(Cardinality(failed))
    /\ LET gone == mflows \ WantedFlows
           done == ((gone \cup WantedFlows) \ failed) \cup effective
       IN  table' = (table \ (gone \cap done)) \cup (WantedFlows \cap done)
    /\ mflows' = WantedFlows
    /\ rec' = Idle
    /\ UNCHANGED <<cluster, held, recorded, known, shm, targets, stuck, clashed>>

LEMMA SetFlowsCase ==
  ASSUME SetFlows
  PROVE  \E failed, effective : SetFlowsWith(failed, effective)
<1>1. PICK failed \in SUBSET ((mflows \ WantedFlows) \cup WantedFlows) :
        /\ Failures(Cardinality(failed))
        /\ \E effective \in SUBSET failed :
             LET gone == mflows \ WantedFlows
                 done == ((gone \cup WantedFlows) \ failed) \cup effective
             IN  table' = (table \ (gone \cap done)) \cup (WantedFlows \cap done)
        /\ IF failed = {} THEN rec' = Idle /\ UNCHANGED queued ELSE GiveUp
  BY DEF SetFlows
<1>2. PICK effective \in SUBSET failed :
        LET gone == mflows \ WantedFlows
            done == ((gone \cup WantedFlows) \ failed) \cup effective
        IN  table' = (table \ (gone \cap done)) \cup (WantedFlows \cap done)
  BY <1>1
<1>3. SetFlowsWith(failed, effective)
  BY <1>1, <1>2 DEF SetFlows, SetFlowsWith, GiveUp
<1>4. QED
  BY <1>3

LEMMA SetFlowsTypes ==
  ASSUME Types, NEW failed, NEW effective, SetFlowsWith(failed, effective)
  PROVE  /\ table' \subseteq Routes \X Services
         /\ mflows' \subseteq Routes \X held /\ IsFiniteSet(mflows')
         /\ FaultsOK' /\ (faults' = 0 => faults = 0 /\ failed = {})
<1>1. IsFiniteSet(mflows) /\ held \subseteq Services
  BY DEF Types, ManagerOK
<1>2. IsFiniteSet(mflows \ WantedFlows)
  BY <1>1, FS_Difference
<1>3. IsFiniteSet((mflows \ WantedFlows) \cup WantedFlows)
  BY <1>2, FlowsAreFinite, FS_Union
<1>4. IsFiniteSet(failed)
  BY <1>3, FS_Subset DEF SetFlowsWith
<1>5. Cardinality(failed) \in Nat
  BY <1>4, FS_CardinalityType
<1>6. FaultsOK' /\ (faults' = 0 => faults = 0 /\ failed = {})
  <2>1. PICK n \in Nat : n = Cardinality(failed)
    BY <1>5
  <2>2. n = 0 => failed = {}
    BY <1>4, <2>1, NoneFailed
  <2>3. QED
    BY <2>1, <2>2, FailuresLemma DEF SetFlowsWith, Types
<1>7. table' \subseteq Routes \X Services
  BY <1>1, FlowsAreFinite DEF SetFlowsWith, Types, NfqlbOK
<1>8. QED
  BY <1>6, <1>7, FlowsAreFinite DEF SetFlowsWith

(* The steps of SetServices. *)
DeleteStep ==
    \E s \in Services : DeleteServiceUnknown(s) \/ DeleteServiceDrained(s) \/ DeleteServiceFails(s)
AddStep == \E s \in Services : AddService(s) \/ AddServiceFails(s)
ReadStep == ListServices \/ DeletionsDone \/ \E s \in Services : GetIPv4Slice(s)

LEMMA NextCases ==
  ASSUME [Next]_vars
  PROVE  \/ UNCHANGED vars \/ ClusterStep \/ ReadStep \/ DeleteStep \/ AddStep
         \/ CleanupFlows \/ SetEndpoints \/ SetFlows
BY DEF Next, Reconcile, ClusterStep, DeleteStep, AddStep, ReadStep

LEMMA OneFailure == ASSUME FaultsOK, Failures(1) PROVE FaultsOK' /\ faults' # 0
BY ListsAssumption DEF FaultsOK, Failures

LEMMA TypesStep ==
  ASSUME Types, Progress, [Next]_vars
  PROVE  Types'
<1>1. CASE UNCHANGED vars
  BY <1>1 DEF vars, cluster, manager, nfqlb, Types, ClusterOK, ManagerOK, NfqlbOK, RecOK, FaultsOK
<1>2. CASE ClusterStep
  <2>1. FaultsOK'
    BY <1>2, ClusterTypes, OneFailure DEF AsideOK, Types, FaultsOK
  <2>2. QED
    BY <1>2, <2>1, ClusterTypes DEF AsideOK, manager, nfqlb, Types, ManagerOK, NfqlbOK, RecOK
<1>3. CASE ReadStep
  <2>1. UNCHANGED <<cluster, manager, nfqlb, faults>>
    BY <1>3 DEF ReadStep, ListServices, DeletionsDone, GetIPv4Slice
  <2>2. RecOK'
    <3>1. CASE ListServices
      BY <3>1, FS_EmptySet DEF ListServices, Idle, RecOK, Recs, Types, ClusterOK, ManagerOK
    <3>2. CASE DeletionsDone
      BY <3>2 DEF DeletionsDone, RecOK, Recs, Types
    <3>3. ASSUME NEW s \in Services, GetIPv4Slice(s) PROVE RecOK'
      BY <3>3 DEF GetIPv4Slice, RecOK, Recs, Types, ClusterOK, IsList
    <3>4. QED
      BY <1>3, <3>1, <3>2, <3>3 DEF ReadStep
  <2>3. QED
    BY <2>1, <2>2 DEF cluster, manager, nfqlb, Types, ClusterOK, ManagerOK, NfqlbOK, FaultsOK
<1>4. CASE DeleteStep
  <2>1. PICK s \in Services :
          DeleteServiceUnknown(s) \/ DeleteServiceDrained(s) \/ DeleteServiceFails(s)
    BY <1>4 DEF DeleteStep
  <2>2. ClusterOK'
    BY <2>1 DEF DeleteServiceUnknown, DeleteServiceDrained, DeleteServiceFails, Drop, cluster,
       Types, ClusterOK
  <2>3. ManagerOK'
    <3>1. CASE Drop(s)
      BY <3>1, FS_EmptySet DEF Drop, Types, ManagerOK
    <3>2. CASE UNCHANGED manager
      BY <3>2 DEF manager, Types, ManagerOK
    <3>3. QED
      BY <2>1, <3>1, <3>2 DEF DeleteServiceUnknown, DeleteServiceDrained, DeleteServiceFails
  <2>4. NfqlbOK'
    <3>1. \/ UNCHANGED targets
          \/ targets' = [targets EXCEPT ![s] = NoTargets]
      BY <2>1 DEF DeleteServiceUnknown, DeleteServiceDrained, DeleteServiceFails, Drop
    <3>2. \/ UNCHANGED <<known, shm>>
          \/ known' = known \ {s} /\ (shm' = shm \/ shm' = shm \ {s})
      BY <2>1 DEF DeleteServiceUnknown, DeleteServiceDrained, DeleteServiceFails, Unlinked
    <3>3. table' \subseteq table
      BY <2>1 DEF DeleteServiceUnknown, DeleteServiceDrained, DeleteServiceFails
    <3>4. DOMAIN targets' = Services /\ \A t \in Services : IsTargets(targets'[t])
      BY <3>1, NoTargetsLemma DEF Types, NfqlbOK
    <3>5. QED
      BY <3>2, <3>3, <3>4 DEF Types, NfqlbOK
  <2>5. RecOK'
    BY <2>1 DEF DeleteServiceUnknown, DeleteServiceDrained, DeleteServiceFails, Drop,
       Types, RecOK, Recs
  <2>6. FaultsOK'
    BY <2>1, OneFailure DEF DeleteServiceUnknown, DeleteServiceDrained, DeleteServiceFails,
       Types, FaultsOK
  <2>7. QED
    BY <2>2, <2>3, <2>4, <2>5, <2>6 DEF Types
<1>5. CASE AddStep
  <2>1. PICK s \in Services : AddService(s) \/ AddServiceFails(s)
    BY <1>5 DEF AddStep
  <2>2. ClusterOK'
    BY <2>1 DEF AddService, AddServiceFails, cluster, Types, ClusterOK
  <2>3. ManagerOK'
    BY <2>1, FS_EmptySet DEF AddService, AddServiceFails, manager, Types, ManagerOK
  <2>4. NfqlbOK'
    <3>1. \/ UNCHANGED targets
          \/ targets' = [targets EXCEPT ![s] = NoTargets]
      BY <2>1 DEF AddService, AddServiceFails, nfqlb
    <3>2. /\ UNCHANGED table
          /\ \/ UNCHANGED <<known, shm>>
             \/ known' = known \cup {s} /\ shm' = shm \cup {s}
      BY <2>1 DEF AddService, AddServiceFails, nfqlb
    <3>3. DOMAIN targets' = Services /\ \A t \in Services : IsTargets(targets'[t])
      BY <3>1, NoTargetsLemma DEF Types, NfqlbOK
    <3>4. QED
      BY <3>2, <3>3 DEF Types, NfqlbOK
  <2>5. RecOK'
    BY <2>1, IdleIsOK DEF AddService, AddServiceFails, GiveUp, Types, RecOK, Recs
  <2>6. FaultsOK'
    BY <2>1, OneFailure DEF AddService, AddServiceFails, Types, FaultsOK
  <2>7. QED
    BY <2>2, <2>3, <2>4, <2>5, <2>6 DEF Types
<1>6. CASE CleanupFlows
  <2>1. UNCHANGED <<cluster, held, recorded, nfqlb, faults>>
    BY <1>6 DEF CleanupFlows
  <2>2. mflows' \subseteq mflows /\ IsFiniteSet(mflows')
    BY <1>6, FS_Subset DEF CleanupFlows, Types, ManagerOK
  <2>3. RecOK'
    BY <1>6, IdleIsOK DEF CleanupFlows, GiveUp, Types, RecOK, Recs
  <2>4. QED
    BY <2>1, <2>2, <2>3 DEF cluster, nfqlb, Types, ClusterOK, ManagerOK, NfqlbOK, FaultsOK
<1>7. CASE SetEndpoints
  <2>1. rec.pc = "slice" /\ UNCHANGED <<cluster, held, mflows, known, shm, table, stuck>>
    BY <1>7 DEF SetEndpoints
  <2>2. PICK s, list, failed, broken, t : SetEndpointsOf(s, list, failed, broken, t)
    BY <1>7, SetEndpointsCase
  <2>3. /\ s \in Services /\ IsTargets(t)
        /\ Recorded(recorded[s], list) \subseteq ReadyEndpoints
        /\ IsFiniteSet(Recorded(recorded[s], list))
        /\ RecOK' /\ FaultsOK'
    BY <2>1, <2>2, SetEndpointsTypes
  <2>4. ManagerOK'
    BY <2>1, <2>2, <2>3 DEF SetEndpointsOf, Types, ManagerOK
  <2>5. NfqlbOK'
    BY <2>1, <2>2, <2>3 DEF SetEndpointsOf, Types, NfqlbOK
  <2>6. QED
    BY <2>1, <2>3, <2>4, <2>5 DEF cluster, Types, ClusterOK
<1>8. CASE SetFlows
  <2>1. PICK failed, effective : SetFlowsWith(failed, effective)
    BY <1>8, SetFlowsCase
  <2>2. /\ table' \subseteq Routes \X Services
        /\ mflows' \subseteq Routes \X held /\ IsFiniteSet(mflows') /\ FaultsOK'
    BY <2>1, SetFlowsTypes
  <2>3. RecOK' /\ UNCHANGED <<cluster, held, recorded, known, shm, targets>>
    BY <2>1, IdleIsOK DEF SetFlowsWith, RecOK
  <2>4. QED
    BY <2>2, <2>3 DEF cluster, Types, ClusterOK, ManagerOK, NfqlbOK
<1>9. QED
  BY <1>1, <1>2, <1>3, <1>4, <1>5, <1>6, <1>7, <1>8, NextCases

LEMMA ProgressStep ==
  ASSUME Types, Progress, [Next]_vars
  PROVE  Progress'
<1> USE DEF Progress
<1>1. rec \in Recs
  BY DEF Types, RecOK
<1>2. CASE UNCHANGED vars \/ ClusterStep
  <2>1. UNCHANGED <<known, held, rec>>
    BY <1>2, ClusterTypes
       DEF AsideOK, vars, manager, nfqlb
  <2>2. QED
    BY <2>1
<1>3. CASE ReadStep
  <2>1. UNCHANGED <<known, held>>
    BY <1>3 DEF ReadStep, ListServices, DeletionsDone, GetIPv4Slice, manager, nfqlb
  <2>2. CASE ListServices
    BY <2>1, <2>2 DEF ListServices, Idle
  <2>3. CASE DeletionsDone
    BY <1>1, <2>1, <2>3 DEF DeletionsDone, Recs
  <2>4. ASSUME NEW s \in Services, GetIPv4Slice(s) PROVE Progress'
    BY <1>1, <2>1, <2>4 DEF GetIPv4Slice, Recs
  <2>5. QED
    BY <1>3, <2>2, <2>3, <2>4 DEF ReadStep
<1>4. CASE DeleteStep
  <2>1. PICK s \in Services :
          DeleteServiceUnknown(s) \/ DeleteServiceDrained(s) \/ DeleteServiceFails(s)
    BY <1>4 DEF DeleteStep
  <2>2. rec'.pc = "delete"
    BY <1>1, <2>1 DEF DeleteServiceUnknown, DeleteServiceDrained, DeleteServiceFails, AtDelete,
       Drop, Recs
  <2>3. known' \subseteq held'
    BY <2>1 DEF DeleteServiceUnknown, DeleteServiceDrained, DeleteServiceFails, Drop, Unlinked,
       manager
  <2>4. QED
    BY <2>2, <2>3
<1>5. CASE AddStep
  <2>1. PICK s \in Services : AddService(s) \/ AddServiceFails(s)
    BY <1>5 DEF AddStep
  <2>2. CASE AddService(s)
    <3>1. rec'.pc = "add" /\ rec'.todo = rec.todo \ {s} /\ rec'.want = rec.want
      BY <1>1, <2>2 DEF AddService, AtAdd, Recs
    <3>2. held' = held \cup {s} /\ known' \subseteq known \cup {s} /\ rec.pc = "add"
      BY <2>2 DEF AddService, AtAdd
    <3>3. QED
      BY <3>1, <3>2
  <2>3. CASE AddServiceFails(s)
    BY <2>3, IdleIsOK DEF AddServiceFails, GiveUp, manager, nfqlb
  <2>4. QED
    BY <2>1, <2>2, <2>3
<1>6. CASE CleanupFlows
  <2>1. UNCHANGED <<known, held>>
    BY <1>6 DEF CleanupFlows, nfqlb
  <2>2. rec' = Idle \/ rec' = [rec EXCEPT !.pc = "endpoints", !.todo = rec.want]
    BY <1>6 DEF CleanupFlows, GiveUp
  <2>3. rec.want \subseteq held
    BY <1>6 DEF CleanupFlows
  <2>4. QED
    BY <1>1, <2>1, <2>2, <2>3, IdleIsOK DEF Recs
<1>7. CASE SetEndpoints
  <2>1. rec.pc = "slice" /\ UNCHANGED <<held, known>>
    BY <1>7 DEF SetEndpoints
  <2>2. PICK s, list, failed, broken, t : SetEndpointsOf(s, list, failed, broken, t)
    BY <1>7, SetEndpointsCase
  <2>3. \/ rec' = Idle
        \/ rec' = [rec EXCEPT !.pc = "endpoints", !.todo = @ \ {s}, !.svc = None, !.first = {}]
    BY <2>2 DEF SetEndpointsOf
  <2>4. CASE rec' = Idle
    BY <2>1, <2>4, IdleIsOK
  <2>5. CASE rec' = [rec EXCEPT !.pc = "endpoints", !.todo = @ \ {s}, !.svc = None, !.first = {}]
    <3>1. rec'.pc = "endpoints" /\ rec'.todo = rec.todo \ {s}
      BY <1>1, <2>5 DEF Recs
    <3>2. QED
      BY <2>1, <3>1
  <2>6. QED
    BY <2>3, <2>4, <2>5
<1>8. CASE SetFlows
  <2>1. PICK failed, effective : SetFlowsWith(failed, effective)
    BY <1>8, SetFlowsCase
  <2>2. QED
    BY <2>1, IdleIsOK DEF SetFlowsWith
<1>9. QED
  BY <1>2, <1>3, <1>4, <1>5, <1>6, <1>7, <1>8, NextCases
-----------------------------------------------------------------------------
(* What the manager's record says of the targets *)

(* Endpoints read without a clash have identifiers of their own. *)
RecordsUnique == \A s \in Services \ clashed : Unique(recorded[s])

LEMMA RecordsUniqueStep ==
  ASSUME Types, Progress, RecordsUnique, [Next]_vars
  PROVE  RecordsUnique'
<1> USE DEF RecordsUnique
<1>1. recorded \in [Services -> SUBSET ReadyEndpoints]
  BY DEF Types, ManagerOK
<1>2. CASE UNCHANGED <<recorded, clashed>>
  BY <1>2
<1>3. CASE \E s \in Services : recorded' = [recorded EXCEPT ![s] = {}] /\ UNCHANGED clashed
  BY <1>1, <1>3 DEF Unique
<1>4. CASE SetEndpoints
  <2>1. PICK s, list, failed, broken, t : SetEndpointsOf(s, list, failed, broken, t)
    BY <1>4, SetEndpointsCase
  <2>2. s \in Services /\ IsList(list)
    BY <1>4, <2>1, SetEndpointsTypes DEF SetEndpoints
  <2>3. Recorded(recorded[s], list) \subseteq list
    BY <1>1, <2>2, RecordedIsListed
  <2>4. /\ recorded' = [recorded EXCEPT ![s] = Recorded(@, list)]
        /\ clashed' = IF Unique(list) THEN clashed ELSE clashed \cup {s}
    BY <2>1 DEF SetEndpointsOf
  <2>5. ASSUME NEW r \in Services \ clashed' PROVE Unique(recorded'[r])
    <3>1. CASE r = s
      BY <1>1, <2>2, <2>3, <2>4, <2>5, <3>1 DEF Unique
    <3>2. CASE r # s
      BY <1>1, <2>4, <2>5, <3>2
    <3>3. QED
      BY <3>1, <3>2
  <2>6. QED
    BY <2>5
<1>5. CASE DeleteStep
  BY <1>2, <1>3, <1>5 DEF DeleteStep, DeleteServiceUnknown, DeleteServiceDrained,
     DeleteServiceFails, Drop, manager
<1>6. CASE AddStep
  BY <1>2, <1>3, <1>6 DEF AddStep, AddService, AddServiceFails, manager
<1>7. CASE UNCHANGED vars \/ ClusterStep \/ ReadStep \/ CleanupFlows
  BY <1>2, <1>7, ClusterTypes
     DEF AsideOK, vars, ReadStep, ListServices, DeletionsDone, GetIPv4Slice,
     CleanupFlows, manager
<1>8. CASE SetFlows
  BY <1>2, <1>8 DEF SetFlows
<1>9. QED
  BY <1>4, <1>5, <1>6, <1>7, <1>8, NextCases

(* In the steps that change a record or targets, but for SetEndpoints, a   *)
(* service ends without targets, or without a handle, or has been          *)
(* forgotten by nfqlb.                                                     *)
LEMMA RecordCases ==
  ASSUME Types, Progress, [Next]_vars
  PROVE  \/ UNCHANGED <<held, known, recorded, targets, clashed>>
         \/ SetEndpoints
         \/ \E s \in Services :
              /\ \A r \in Services \ {s} : targets'[r] = targets[r] /\ recorded'[r] = recorded[r]
              /\ UNCHANGED clashed
              /\ \/ held' = held \ {s} /\ known' \subseteq known
                 \/ /\ held' = held /\ known' = known \ {s} /\ UNCHANGED recorded
                    /\ targets'[s] \in {targets[s], NoTargets}
                 \/ held' = held \cup {s} /\ known' = known \cup {s}
                    /\ targets'[s] = NoTargets /\ recorded'[s] = {}
<1>1. /\ recorded \in [Services -> SUBSET ReadyEndpoints] /\ DOMAIN targets = Services
      /\ held \subseteq Services
  BY DEF Types, ManagerOK, NfqlbOK
<1>2. CASE DeleteStep
  <2>1. PICK s \in Services :
          DeleteServiceUnknown(s) \/ DeleteServiceDrained(s) \/ DeleteServiceFails(s)
    BY <1>2 DEF DeleteStep
  <2>2. CASE DeleteServiceUnknown(s) \/ DeleteServiceDrained(s)
    <3>1. /\ held' = held \ {s} /\ known' \subseteq known /\ UNCHANGED <<targets, clashed>>
          /\ recorded' = [recorded EXCEPT ![s] = {}]
      BY <2>2 DEF DeleteServiceUnknown, DeleteServiceDrained, Drop, Unlinked
    <3>2. QED
      BY <1>1, <3>1
  <2>3. CASE DeleteServiceFails(s)
    <3>1. /\ held' = held /\ known' = known \ {s} /\ UNCHANGED <<recorded, clashed>>
          /\ UNCHANGED targets \/ targets' = [targets EXCEPT ![s] = NoTargets]
      BY <2>3 DEF DeleteServiceFails, Unlinked, manager
    <3>2. QED
      BY <1>1, <3>1
  <2>4. QED
    BY <2>1, <2>2, <2>3
<1>3. CASE AddStep
  <2>1. PICK s \in Services : AddService(s) \/ AddServiceFails(s)
    BY <1>3 DEF AddStep
  <2>2. CASE AddService(s)
    <3>1. s \notin held /\ s \notin known
      BY <2>2 DEF AddService, AtAdd, Progress
    <3>2. /\ held' = held \cup {s} /\ known' = known \cup {s} /\ UNCHANGED clashed
          /\ targets' = [targets EXCEPT ![s] = NoTargets]
          /\ recorded' = [recorded EXCEPT ![s] = {}]
      BY <2>2, <3>1 DEF AddService
    <3>3. QED
      BY <1>1, <3>2
  <2>3. CASE AddServiceFails(s)
    BY <2>3 DEF AddServiceFails, manager, nfqlb
  <2>4. QED
    BY <2>1, <2>2, <2>3
<1>4. CASE UNCHANGED vars \/ ClusterStep
  BY <1>4, ClusterTypes
     DEF AsideOK, vars, manager, nfqlb
<1>5. CASE ReadStep \/ CleanupFlows \/ SetFlows
  BY <1>5 DEF ReadStep, ListServices, DeletionsDone, GetIPv4Slice, CleanupFlows, SetFlows,
     manager, nfqlb
<1>6. QED
  BY <1>2, <1>3, <1>4, <1>5, NextCases

(* SetEndpoints: what stays of the targets is recorded still, and what is  *)
(* added is recorded.                                                      *)
LEMMA TargetsRecordedStep ==
  ASSUME Types, Progress, TargetsRecorded, [Next]_vars
  PROVE  TargetsRecorded'
<1> USE DEF TargetsRecorded
<1>1. held \subseteq Services /\ DOMAIN targets = Services /\ DOMAIN recorded = Services
  BY DEF Types, ManagerOK, NfqlbOK
<1>2. CASE UNCHANGED <<held, recorded, targets>>
  BY <1>2
<1>3. CASE SetEndpoints
  <2>1. PICK s, list, failed, broken, t : SetEndpointsOf(s, list, failed, broken, t)
    BY <1>3, SetEndpointsCase
  <2>2. s \in held /\ s \in Services
    BY <1>3, <2>1, SetEndpointsTypes DEF SetEndpoints
  <2>3. /\ targets' = [targets EXCEPT ![s] = t] /\ UNCHANGED held
        /\ recorded' = [recorded EXCEPT ![s] = Recorded(@, list)]
        /\ t \in Targets(targets[s], recorded[s], list, failed)
    BY <1>3, <2>1 DEF SetEndpointsOf, SetEndpoints
  <2> DEFINE left == Left(targets[s], recorded[s], list)
             done == ToAdd(recorded[s], list) \ failed
  <2>4. /\ t = [id \in DOMAIN t |-> t[id]]
        /\ DOMAIN t = left \cup IdsOf(done)
        /\ \A id \in left : t[id] = targets[s][id]
        /\ \A id \in DOMAIN t \ left : \E e \in done : e.id = id /\ t[id] = e.addrs
    <3>1. AreTargets(t, targets[s], recorded[s], list, failed)
      BY <2>3, TargetsLemma
    <3>2. QED
      BY <3>1 DEF AreTargets
  <2>5. ASSUME NEW id \in DOMAIN t
        PROVE  \E e \in Recorded(recorded[s], list) : e.id = id /\ e.addrs = t[id]
    <3>1. CASE id \in left
      <4>1. PICK e \in recorded[s] : e.id = id /\ e.addrs = targets[s][id]
        BY <2>2, <3>1 DEF Left
      <4>2. e \notin ToRemove(recorded[s], list)
        BY <3>1, <4>1 DEF IdsOf, Left
      <4>3. QED
        BY <2>4, <3>1, <4>1, <4>2 DEF Recorded, Kept
    <3>2. CASE id \notin left
      <4>1. PICK e \in done : e.id = id /\ t[id] = e.addrs
        BY <2>4, <3>2
      <4>2. QED
        BY <4>1 DEF Recorded
    <3>3. QED
      BY <3>1, <3>2
  <2>6. QED
    BY <1>1, <2>2, <2>3, <2>5
<1>4. CASE ~UNCHANGED <<held, recorded, targets>> /\ ~SetEndpoints
  <2>1. PICK s \in Services :
              /\ \A r \in Services \ {s} : targets'[r] = targets[r] /\ recorded'[r] = recorded[r]
              /\ \/ held' = held \ {s}
                 \/ held' = held /\ UNCHANGED recorded /\ targets'[s] \in {targets[s], NoTargets}
                 \/ held' = held \cup {s} /\ targets'[s] = NoTargets
    BY <1>4, RecordCases
  <2>2. ASSUME NEW r \in held', NEW id \in DOMAIN targets'[r]
        PROVE  \E e \in recorded'[r] : e.id = id /\ e.addrs = targets'[r][id]
    BY <1>1, <2>1, <2>2, NoTargetsLemma
  <2>3. QED
    BY <2>2
<1>5. QED
  BY <1>2, <1>3, <1>4

(* SetEndpoints with no failure and no clash: what is recorded afterwards  *)
(* is listed, so an identifier is that of one endpoint.                    *)
LEMMA RecordIsTrueStep ==
  ASSUME Types, Progress, RecordsUnique, TargetsRecorded, RecordIsTrue, [Next]_vars
  PROVE  RecordIsTrue'
<1> SUFFICES ASSUME faults' = 0, NEW s \in (held' \cap known') \ clashed', NEW e \in recorded'[s]
             PROVE  e.id \in DOMAIN targets'[s] /\ targets'[s][e.id] = e.addrs
  BY DEF RecordIsTrue
<1>1. /\ held \subseteq Services /\ DOMAIN targets = Services /\ DOMAIN recorded = Services
      /\ known \subseteq shm
  BY DEF Types, ManagerOK, NfqlbOK
<1>2. faults = 0
  <2>1. faults' = faults \/ Failures(1) \/ SetEndpoints \/ SetFlows
    BY NextCases, ClusterTypes
       DEF AsideOK, vars, ReadStep, ListServices, DeletionsDone, GetIPv4Slice,
       CleanupFlows, DeleteStep, DeleteServiceUnknown, DeleteServiceDrained, DeleteServiceFails,
       AddStep, AddService, AddServiceFails
  <2>2. Failures(1) => faults' # 0
    BY OneFailure DEF Types
  <2>3. SetEndpoints => faults = 0
    BY SetEndpointsCase, SetEndpointsTypes DEF SetEndpoints
  <2>4. SetFlows => faults = 0
    BY SetFlowsCase, SetFlowsTypes
  <2>5. QED
    BY <2>1, <2>2, <2>3, <2>4
<1>3. \A r \in (held \cap known) \ clashed : \A n \in recorded[r] :
        n.id \in DOMAIN targets[r] /\ targets[r][n.id] = n.addrs
  BY <1>2 DEF RecordIsTrue
<1>4. CASE UNCHANGED <<held, known, recorded, targets, clashed>>
  BY <1>3, <1>4
<1>5. CASE SetEndpoints
  <2>1. PICK r, list, failed, broken, t : SetEndpointsOf(r, list, failed, broken, t)
    BY <1>5, SetEndpointsCase
  <2>2. /\ r \in held /\ r \in Services /\ IsList(list)
        /\ r \in shm => failed = {}
    BY <1>5, <2>1, SetEndpointsTypes DEF SetEndpoints
  <2>3. /\ targets' = [targets EXCEPT ![r] = t] /\ UNCHANGED <<held, known>>
        /\ recorded' = [recorded EXCEPT ![r] = Recorded(@, list)]
        /\ clashed' = IF Unique(list) THEN clashed ELSE clashed \cup {r}
        /\ t \in Targets(targets[r], recorded[r], list, failed)
    BY <1>5, <2>1 DEF SetEndpointsOf, SetEndpoints
  <2>4. CASE s # r
    BY <1>1, <1>3, <2>2, <2>3, <2>4
  <2>5. CASE s = r
    <3> DEFINE old == recorded[r]
               left == Left(targets[r], old, list)
               done == ToAdd(old, list) \ failed
    <3>1. /\ t = [id \in DOMAIN t |-> t[id]]
          /\ DOMAIN t = left \cup IdsOf(done)
          /\ \A id \in left : t[id] = targets[r][id]
          /\ \A id \in DOMAIN t \ left : \E n \in done : n.id = id /\ t[id] = n.addrs
      <4>1. AreTargets(t, targets[r], recorded[r], list, failed)
        BY <2>3, TargetsLemma
      <4>2. QED
        BY <4>1 DEF AreTargets
    <3>2. /\ Unique(list) /\ Unique(old) /\ failed = {}
          /\ r \in (held \cap known) \ clashed
      BY <1>1, <2>2, <2>3, <2>5 DEF RecordsUnique
    <3>3. done = ToAdd(old, list)
      BY <3>2
    <3>4. Kept(old, list) \subseteq list /\ ToAdd(old, list) \subseteq list
      BY <2>2, RecordedIsListed DEF Types, ManagerOK
    <3>5. targets'[s] = t /\ e \in Kept(old, list) \cup ToAdd(old, list)
      BY <1>1, <2>2, <2>3, <2>5 DEF Recorded
    <3>6. CASE e \in Kept(old, list)
      <4>1. e \in old /\ e \notin ToRemove(old, list)
        BY <3>6 DEF Kept
      <4>2. e.id \in DOMAIN targets[r] /\ targets[r][e.id] = e.addrs
        BY <1>3, <3>2, <4>1
      <4>3. e.id \notin IdsOf(ToRemove(old, list))
        BY <3>2, <4>1 DEF Unique, IdsOf, ToRemove
      <4>4. QED
        BY <3>1, <3>5, <4>2, <4>3 DEF Left
    <3>7. CASE e \in ToAdd(old, list)
      <4>1. e.id \in DOMAIN t
        BY <3>1, <3>3, <3>7 DEF IdsOf
      <4>2. e.id \notin left
        <5>1. SUFFICES ASSUME e.id \in left PROVE FALSE
          OBVIOUS
        <5>2. PICK n \in old : n.id = e.id
          BY <2>2, <5>1 DEF TargetsRecorded, Left
        <5>3. n \in Kept(old, list)
          BY <5>1, <5>2 DEF Kept, IdsOf, Left
        <5>4. n = e
          BY <3>2, <3>4, <3>7, <5>2, <5>3 DEF Unique
        <5>5. QED
          BY <3>7, <5>3, <5>4 DEF ToAdd, Uids
      <4>3. PICK n \in done : n.id = e.id /\ t[e.id] = n.addrs
        BY <3>1, <4>1, <4>2
      <4>4. n = e
        BY <3>2, <3>3, <3>4, <3>7, <4>3 DEF Unique
      <4>5. QED
        BY <3>5, <4>1, <4>3, <4>4
    <3>8. QED
      BY <3>5, <3>6, <3>7
  <2>6. QED
    BY <2>4, <2>5
<1>6. CASE ~UNCHANGED <<held, known, recorded, targets, clashed>> /\ ~SetEndpoints
  <2>1. PICK r \in Services :
              /\ \A q \in Services \ {r} : targets'[q] = targets[q] /\ recorded'[q] = recorded[q]
              /\ UNCHANGED clashed
              /\ \/ held' = held \ {r} /\ known' \subseteq known
                 \/ held' = held /\ known' = known \ {r}
                 \/ held' = held \cup {r} /\ known' = known \cup {r} /\ recorded'[r] = {}
    BY <1>6, RecordCases
  <2>2. s # r /\ s \in (held \cap known) \ clashed
    BY <2>1
  <2>3. QED
    BY <1>1, <1>3, <2>1, <2>2
<1>7. QED
  BY <1>4, <1>5, <1>6
-----------------------------------------------------------------------------
(* Whose flows nfqlb has *)

(* The flows of a service go with it. *)
FlowsHeld == faults = 0 /\ ~stuck => \A f \in table : f[2] \in held

LEMMA FlowsStep ==
  ASSUME Types, Progress, FlowsHeld, FlowsRecorded, [Next]_vars
  PROVE  FlowsHeld' /\ FlowsRecorded'
<1> SUFFICES ASSUME faults' = 0, ~stuck'
             PROVE  (\A f \in table' : f[2] \in held') /\ table' \subseteq mflows'
  BY DEF FlowsHeld, FlowsRecorded
<1> USE DEF FlowsHeld, FlowsRecorded
<1>1. ~(FaultsOK /\ Failures(1))
  BY OneFailure
<1>2. FaultsOK
  BY DEF Types
<1>3. CASE UNCHANGED <<faults, stuck, table, held, mflows>>
  BY <1>3
<1>4. CASE DeleteStep
  <2>1. PICK s \in Services :
          DeleteServiceUnknown(s) \/ DeleteServiceDrained(s) \/ DeleteServiceFails(s)
    BY <1>4 DEF DeleteStep
  <2>2. CASE DeleteServiceUnknown(s)
    BY <2>2 DEF DeleteServiceUnknown
  <2>3. CASE DeleteServiceDrained(s)
    <3>1. /\ held' = held \ {s} /\ table' = table \ FlowsOf(s)
          /\ UNCHANGED <<faults, stuck, mflows>>
      BY <2>3 DEF DeleteServiceDrained, Drop
    <3>2. \A f \in table : f[2] = s => f \in FlowsOf(s)
      BY DEF FlowsOf, Types, NfqlbOK
    <3>3. QED
      BY <3>1, <3>2
  <2>4. CASE DeleteServiceFails(s)
    <3>1. UNCHANGED <<faults, stuck, mflows, held>> /\ table' \subseteq table
      BY <1>1, <1>2, <2>4 DEF DeleteServiceFails, manager
    <3>2. QED
      BY <3>1
  <2>5. QED
    BY <2>1, <2>2, <2>3, <2>4
<1>5. CASE AddStep
  <2>1. UNCHANGED <<faults, stuck, table, mflows>> /\ held \subseteq held'
    BY <1>1, <1>2, <1>5 DEF AddStep, AddService, AddServiceFails, manager, nfqlb
  <2>2. QED
    BY <2>1
<1>6. CASE CleanupFlows
  BY <1>6 DEF CleanupFlows, nfqlb
<1>7. CASE SetEndpoints
  <2>1. UNCHANGED <<stuck, table, mflows, held>>
    BY <1>7 DEF SetEndpoints
  <2>2. faults = 0
    BY <1>7, SetEndpointsCase, SetEndpointsTypes DEF SetEndpoints
  <2>3. QED
    BY <2>1, <2>2
<1>8. CASE SetFlows
  <2>1. PICK failed, effective : SetFlowsWith(failed, effective)
    BY <1>8, SetFlowsCase
  <2>2. failed = {} /\ faults = 0
    BY <2>1, SetFlowsTypes
  <2>3. /\ table' = (table \ (mflows \ WantedFlows)) \cup WantedFlows
        /\ mflows' = WantedFlows /\ UNCHANGED <<held, stuck>>
    BY <2>1, <2>2 DEF SetFlowsWith
  <2>4. \A f \in WantedFlows : f[2] \in held
    BY FlowsAreFinite
  <2>5. QED
    BY <2>2, <2>3, <2>4
<1>9. CASE UNCHANGED vars \/ ClusterStep \/ ReadStep
  BY <1>1, <1>2, <1>3, <1>9, ClusterTypes
     DEF AsideOK, vars, manager, nfqlb, ReadStep, ListServices, DeletionsDone,
     GetIPv4Slice
<1>10. QED
  BY <1>4, <1>5, <1>6, <1>7, <1>8, <1>9, NextCases
-----------------------------------------------------------------------------
(* What a reconciliation that nothing has disturbed has applied *)

LEMMA SliceHasOneOfEach ==
  ASSUME NEW list, IsList(list), OneOfEach(list), NEW family
  PROVE  OneOfEach(SliceOf(list, family))
<1> DEFINE cut(e) == [e EXCEPT !.addrs = @ \cap family]
<1>1. \A x \in SliceOf(list, family) : \E e \in list : x = cut(e)
  BY DEF SliceOf
<1>2. \A e \in list : cut(e).uid = e.uid
  BY DEF IsList, Endpoints
<1> HIDE DEF cut
<1>3. QED
  BY <1>1, <1>2 DEF OneOfEach

LEMMA MergedHasOneOfEach ==
  ASSUME NEW a, NEW b, IsList(a), IsList(b), OneOfEach(a), OneOfEach(b)
  PROVE  OneOfEach(MergeSlices(a, b))
<1> DEFINE more(e) == UNION {o.addrs : o \in {n \in b : n.uid = e.uid}}
           merged(e) == [e EXCEPT !.addrs = @ \cup more(e)]
<1>1. \A x \in MergeSlices(a, b) :
        \/ \E e \in a : x = merged(e)
        \/ x \in b /\ x.uid \notin Uids(a)
  BY DEF MergeSlices
<1>2. \A e \in a : merged(e).uid = e.uid
  BY DEF IsList, Endpoints
<1> HIDE DEF merged
<1>3. \A e \in a : e.uid \in Uids(a)
  BY DEF Uids
<1>4. SUFFICES ASSUME NEW x \in MergeSlices(a, b), NEW y \in MergeSlices(a, b), x.uid = y.uid
               PROVE  x = y
  BY DEF OneOfEach
<1>5. CASE x \in b /\ x.uid \notin Uids(a)
  BY <1>1, <1>2, <1>3, <1>4, <1>5 DEF OneOfEach
<1>6. CASE \E e \in a : x = merged(e)
  BY <1>1, <1>2, <1>3, <1>4, <1>6 DEF OneOfEach
<1>7. QED
  BY <1>1, <1>4, <1>5, <1>6

(* The record after SetEndpoints is the list's ready endpoints, whatever   *)
(* it was before.                                                          *)
LEMMA RecordedIsReady ==
  ASSUME NEW old \in SUBSET ReadyEndpoints, NEW list, IsList(list), OneOfEach(list)
  PROVE  Recorded(old, list) = {e \in list : e.ready}
<1>1. Recorded(old, list) \subseteq {e \in list : e.ready}
  BY RecordedIsListed DEF ReadyEndpoints
<1>2. ASSUME NEW n \in list, n.ready, n \notin ToAdd(old, list)
      PROVE  n \in Kept(old, list)
  <2>1. PICK e \in Kept(old, list) : e.uid = n.uid
    BY <1>2 DEF ToAdd, Uids
  <2>2. e \in list
    BY RecordedIsListed
  <2>3. QED
    BY <2>1, <2>2 DEF OneOfEach
<1>3. QED
  BY <1>1, <1>2 DEF Recorded

(* Slices list an endpoint once. *)
SlicesInv ==
    /\ \A s \in Services : OneOfEach(slices[s].IPv4) /\ OneOfEach(slices[s].IPv6)
    /\ OneOfEach(rec.first)

LEMMA SlicesStep ==
  ASSUME Types, SlicesInv, [Next]_vars
  PROVE  SlicesInv'
<1>1. rec \in Recs /\ slices \in [Services -> [IPv4 : SUBSET Endpoints, IPv6 : SUBSET Endpoints]]
  BY DEF Types, RecOK, ClusterOK
<1>2. OneOfEach({}) /\ Idle.first = {}
  BY DEF OneOfEach, Idle
<1>3. CASE ClusterStep
  <2>1. UNCHANGED rec
    BY <1>3, ClusterTypes DEF AsideOK
  <2>2. ASSUME NEW s \in Services, NEW list \in AllLists,
               \/ slices' = [slices EXCEPT ![s].IPv4 = SliceOf(list, IPv4)]
               \/ slices' = [slices EXCEPT ![s].IPv6 = SliceOf(list, IPv6)]
        PROVE  SlicesInv'
    <3>1. OneOfEach(SliceOf(list, IPv4)) /\ OneOfEach(SliceOf(list, IPv6))
      BY SliceHasOneOfEach, ListsAssumption DEF IsList
    <3>2. ASSUME NEW r \in Services
          PROVE  OneOfEach(slices'[r].IPv4) /\ OneOfEach(slices'[r].IPv6)
      BY <1>1, <2>2, <3>1 DEF SlicesInv
    <3>3. QED
      BY <2>1, <3>2 DEF SlicesInv
  <2>3. ASSUME NEW s \in Services, FirstSliceWritten(s) PROVE SlicesInv'
    <3>1. PICK list \in Lists[s] : slices' = [slices EXCEPT ![s].IPv4 = SliceOf(list, IPv4)]
      BY <2>3 DEF FirstSliceWritten
    <3>2. list \in AllLists
      BY DEF AllLists
    <3>3. QED
      BY <2>2, <3>1, <3>2
  <2>4. ASSUME NEW s \in Services, SecondSliceWritten(s) PROVE SlicesInv'
    <3>1. PICK list \in writing[s] : slices' = [slices EXCEPT ![s].IPv6 = SliceOf(list, IPv6)]
      BY <2>4 DEF SecondSliceWritten
    <3>2. list \in AllLists
      BY DEF Types, ClusterOK
    <3>3. QED
      BY <2>2, <3>1, <3>2
  <2>5. CASE UNCHANGED slices
    BY <2>1, <2>5 DEF SlicesInv
  <2>6. QED
    BY <1>3, <2>3, <2>4, <2>5 DEF ClusterStep, ServiceChanges, RouteChanges
<1>4. CASE ~ClusterStep
  <2>1. UNCHANGED slices
    BY <1>4, NextCases DEF vars, cluster, ReadStep, ListServices, DeletionsDone, GetIPv4Slice,
       DeleteStep, DeleteServiceUnknown, DeleteServiceDrained, DeleteServiceFails, Drop,
       AddStep, AddService, AddServiceFails, CleanupFlows, SetEndpoints, SetFlows
  <2>2. CASE \E s \in Services : GetIPv4Slice(s)
    BY <1>1, <2>1, <2>2 DEF GetIPv4Slice, SlicesInv, Recs
  <2>3. CASE ~ \E s \in Services : GetIPv4Slice(s)
    <3>1. CASE DeleteStep \/ AddStep
      <4>1. \/ UNCHANGED rec \/ rec' = Idle
            \/ \E s : \/ rec' = [rec EXCEPT !.todo = @ \ {s}]
                      \/ rec' = [rec EXCEPT !.todo = @ \ {s}, !.err = TRUE]
        BY <3>1 DEF DeleteStep, DeleteServiceUnknown, DeleteServiceDrained, DeleteServiceFails,
           Drop, AddStep, AddService, AddServiceFails, GiveUp
      <4>2. QED
        BY <1>1, <1>2, <2>1, <4>1 DEF SlicesInv, Recs
    <3>2. CASE ListServices \/ DeletionsDone \/ CleanupFlows \/ UNCHANGED vars
      <4>1. rec'.first \in {rec.first, {}}
        BY <1>1, <1>2, <3>2 DEF ListServices, DeletionsDone, CleanupFlows, GiveUp, Recs, Idle, vars
      <4>2. QED
        BY <1>2, <2>1, <4>1 DEF SlicesInv
    <3>3. CASE SetEndpoints \/ SetFlows
      <4>1. UNCHANGED rec \/ rec' = Idle \/ rec'.first = {}
        BY <1>1, <3>3 DEF SetEndpoints, SetFlows, GiveUp, Recs
      <4>2. QED
        BY <1>2, <2>1, <4>1 DEF SlicesInv
    <3>4. QED
      BY <1>4, <2>3, <3>1, <3>2, <3>3, NextCases DEF ReadStep
  <2>4. QED
    BY <2>2, <2>3
<1>5. QED
  BY <1>3, <1>4

ServiceApplied(s) ==
    s \in clashed \/ (Activated(s) /\ DOMAIN targets[s] = IdsOf(Ready(s)))

(* As long as nothing has queued the gateway and nothing has gone wrong, a *)
(* reconciliation works on what is still there and has applied the part it *)
(* has been through.                                                       *)
Undisturbed == ~queued /\ faults = 0 /\ ~DeletionWentWrong

ApplyingInv ==
    Undisturbed =>
        /\ rec.pc \in {"delete", "add"} => rec.want = svcs
        /\ rec.pc = "delete" => rec.todo \subseteq held /\ held \ svcs \subseteq rec.todo
        /\ rec.pc = "add" => held \subseteq svcs
        /\ rec.pc \in {"endpoints", "slice"} =>
              held = svcs /\ \A s \in held \ rec.todo : ServiceApplied(s)
        /\ rec.pc = "slice" => rec.first = slices[rec.svc].IPv4
        /\ rec.pc = "idle" => Applied

(* A lost lock is never released, and a service whose deletion has failed  *)
(* is not added again.                                                     *)
LEMMA UndisturbedBefore ==
  ASSUME Types, Progress, [Next]_vars, Undisturbed'
  PROVE  Undisturbed \/ ListServices
<1>1. faults = 0
  <2>1. faults' = faults \/ Failures(1) \/ SetEndpoints \/ SetFlows
    BY NextCases, ClusterTypes
       DEF AsideOK, vars, ReadStep, ListServices, DeletionsDone, GetIPv4Slice,
       CleanupFlows, DeleteStep, DeleteServiceUnknown, DeleteServiceDrained, DeleteServiceFails,
       AddStep, AddService, AddServiceFails
  <2>2. QED
    BY <2>1, OneFailure, SetEndpointsCase, SetEndpointsTypes, SetFlowsCase, SetFlowsTypes
       DEF SetEndpoints, Undisturbed, Types
<1>2. ~DeletionWentWrong
  <2>1. CASE UNCHANGED <<stuck, held, known>>
    BY <2>1 DEF Undisturbed, DeletionWentWrong
  <2>2. CASE DeleteStep
    BY <2>2 DEF DeleteStep, DeleteServiceUnknown, DeleteServiceDrained, DeleteServiceFails,
       Drop, Unlinked, manager, Undisturbed, DeletionWentWrong
  <2>3. CASE AddStep
    BY <2>3 DEF AddStep, AddService, AddServiceFails, AtAdd, Progress, manager, nfqlb,
       Undisturbed, DeletionWentWrong
  <2>4. QED
    BY <2>1, <2>2, <2>3, NextCases, ClusterTypes
       DEF AsideOK, vars, manager, nfqlb, ReadStep, ListServices,
       DeletionsDone, GetIPv4Slice, CleanupFlows, SetEndpoints, SetFlows
<1>3. ~queued \/ ListServices
  BY NextCases DEF Undisturbed, vars, ReadStep, ListServices, DeletionsDone,
     GetIPv4Slice, ClusterStep, ServiceChanges, RouteChanges, FirstSliceWritten,
     SecondSliceWritten, SliceWritten, DeleteStep, DeleteServiceUnknown, DeleteServiceDrained,
     DeleteServiceFails, Drop, AddStep, AddService, AddServiceFails, CleanupFlows, SetEndpoints,
     SetFlows, GiveUp
<1>4. QED
  BY <1>1, <1>2, <1>3 DEF Undisturbed

(* Beside a reconciliation only slices of other services may change.       *)
LEMMA ApplyingCluster ==
  ASSUME Types, Progress, ApplyingInv, ClusterStep, Undisturbed, Undisturbed'
  PROVE  ApplyingInv'
<1>0. ~Failures(1)
  BY OneFailure DEF Types, Undisturbed
<1>1. UNCHANGED <<manager, nfqlb, rec, faults, clashed>>
  BY <1>0, ClusterTypes DEF AsideOK
<1>2. PICK s \in Services : FirstSliceWritten(s) \/ SecondSliceWritten(s)
  BY DEF ClusterStep, ServiceChanges, RouteChanges, Undisturbed
<1>3. s \notin svcs /\ UNCHANGED <<svcs, routes>>
  BY <1>0, <1>2 DEF FirstSliceWritten, SecondSliceWritten, SliceWritten, Undisturbed
<1>4. \A r \in Services \ {s} : slices'[r] = slices[r]
  BY <1>2 DEF FirstSliceWritten, SecondSliceWritten, Types, ClusterOK
<1>5. held \subseteq Services /\ rec.pc \in {"idle", "delete", "add", "endpoints", "slice"}
  BY DEF Types, ManagerOK, RecOK, Recs
<1>6. ASSUME NEW r \in held, s \notin held
      PROVE  /\ ServiceApplied(r) => ServiceApplied(r)'
             /\ Activated(r) => Activated(r)' /\ Ready(r)' = Ready(r)
  BY <1>1, <1>4, <1>5, <1>6 DEF ServiceApplied, Activated, Ready, Listed, nfqlb
<1>7. Applied => Applied'
  BY <1>1, <1>3, <1>6 DEF Applied, WantedFlows, manager, nfqlb
<1>8. rec.pc = "slice" => rec.svc \in held
  BY DEF Progress
<1>9. QED
  BY <1>1, <1>3, <1>4, <1>5, <1>6, <1>7, <1>8 DEF ApplyingInv, manager

LEMMA EndpointsAreApplied ==
  ASSUME Types, Progress, SlicesInv, SetEndpoints, ~DeletionWentWrong, faults' = 0,
         NEW s, s = rec.svc, rec.first = slices[s].IPv4, TargetsRecorded', RecordIsTrue'
  PROVE  ServiceApplied(s)'
<1> DEFINE list == Listed(s)
<1>1. s \in held /\ s \in Services /\ s \in known
  BY DEF SetEndpoints, Progress, Types, ManagerOK, DeletionWentWrong
<1>2. IsList(slices[s].IPv4) /\ IsList(slices[s].IPv6)
  BY <1>1 DEF Types, ClusterOK
<1>3. IsList(list) /\ OneOfEach(list)
  BY <1>1, <1>2, MergeLemma, MergedHasOneOfEach DEF SlicesInv, Listed
<1>4. /\ recorded' = [recorded EXCEPT ![s] = Recorded(@, list)]
      /\ UNCHANGED <<held, known, slices>>
  BY DEF SetEndpoints, Listed, cluster
<1>5. recorded'[s] = {e \in list : e.ready}
  <2>1. recorded'[s] = Recorded(recorded[s], list) /\ recorded[s] \in SUBSET ReadyEndpoints
    BY <1>1, <1>4 DEF Types, ManagerOK
  <2>2. QED
    BY <1>3, <2>1, RecordedIsReady
<1>6. Ready(s)' = recorded'[s]
  BY <1>4, <1>5 DEF Ready, Listed
<1>7. ASSUME s \notin clashed'
      PROVE  \A e \in recorded'[s] : e.id \in DOMAIN targets'[s] /\ targets'[s][e.id] = e.addrs
  BY <1>1, <1>4, <1>7 DEF RecordIsTrue
<1>8. \A id \in DOMAIN targets'[s] : \E e \in recorded'[s] : e.id = id
  BY <1>1, <1>4 DEF TargetsRecorded
<1>9. QED
  BY <1>6, <1>7, <1>8 DEF ServiceApplied, Activated, IdsOf

LEMMA FlowsAreApplied ==
  ASSUME Types, FlowsRecorded, SetFlows, faults' = 0, ~stuck
  PROVE  table' = WantedFlows'
<1>1. PICK failed, effective : SetFlowsWith(failed, effective)
  BY SetFlowsCase
<1>2. failed = {} /\ faults = 0
  BY <1>1, SetFlowsTypes
<1>3. table' = (table \ (mflows \ WantedFlows)) \cup WantedFlows /\ table \subseteq mflows
  BY <1>1, <1>2 DEF SetFlowsWith, FlowsRecorded
<1>4. WantedFlows' = WantedFlows
  BY DEF SetFlows, WantedFlows, cluster
<1>5. QED
  BY <1>3, <1>4

(* The steps of SetServices. *)
LEMMA ApplyingServices ==
  ASSUME Types, Progress, ApplyingInv, DeleteStep \/ AddStep \/ CleanupFlows,
         Undisturbed, Undisturbed'
  PROVE  ApplyingInv'
<1>1. rec \in Recs /\ held \subseteq Services
  BY DEF Types, RecOK, ManagerOK
<1>2. CASE DeleteStep
  <2>1. PICK s \in Services :
          DeleteServiceUnknown(s) \/ DeleteServiceDrained(s) \/ DeleteServiceFails(s)
    BY <1>2 DEF DeleteStep
  <2>2. s \in rec.todo /\ rec.pc = "delete" /\ s \in held
    BY <2>1 DEF DeleteServiceUnknown, DeleteServiceDrained, DeleteServiceFails, AtDelete,
       ApplyingInv
  <2>3. DeleteServiceDrained(s)
    BY <2>1, <2>2 DEF DeleteServiceUnknown, DeleteServiceFails, Unlinked, manager, Undisturbed,
       DeletionWentWrong
  <2>4. /\ held' = held \ {s} /\ rec' = [rec EXCEPT !.todo = @ \ {s}] /\ UNCHANGED svcs
    BY <2>3 DEF DeleteServiceDrained, Drop, cluster
  <2>5. rec'.pc = "delete" /\ rec'.todo = rec.todo \ {s} /\ rec'.want = rec.want
    BY <1>1, <2>2, <2>4 DEF Recs
  <2>6. QED
    BY <2>2, <2>4, <2>5 DEF ApplyingInv
<1>3. CASE AddStep
  <2>1. PICK s \in Services : AddService(s)
    BY <1>3 DEF AddStep, AddServiceFails, GiveUp, Undisturbed
  <2>2. /\ held' = held \cup {s} /\ rec' = [rec EXCEPT !.todo = @ \ {s}] /\ UNCHANGED svcs
        /\ rec.pc = "add" /\ s \in rec.todo
    BY <2>1 DEF AddService, AtAdd, cluster
  <2>3. rec'.pc = "add" /\ rec'.want = rec.want
    BY <1>1, <2>2 DEF Recs
  <2>4. s \in svcs
    BY <2>2 DEF ApplyingInv, Progress
  <2>5. QED
    BY <2>2, <2>3, <2>4 DEF ApplyingInv
<1>4. CASE CleanupFlows
  <2>1. /\ rec' = [rec EXCEPT !.pc = "endpoints", !.todo = rec.want]
        /\ UNCHANGED <<svcs, held>> /\ rec.pc = "add" /\ rec.todo = {}
    BY <1>4 DEF CleanupFlows, GiveUp, Undisturbed, cluster
  <2>2. rec'.pc = "endpoints" /\ rec'.todo = rec.want
    BY <1>1, <2>1 DEF Recs
  <2>3. held = svcs /\ rec.want = svcs
    BY <2>1 DEF ApplyingInv, Progress
  <2>4. QED
    BY <2>1, <2>2, <2>3 DEF ApplyingInv
<1>5. QED
  BY <1>2, <1>3, <1>4

LEMMA ApplyingReads ==
  ASSUME Types, Progress, ApplyingInv, ReadStep, Undisturbed \/ ListServices, Undisturbed'
  PROVE  ApplyingInv'
<1>1. rec \in Recs /\ held \subseteq Services
  BY DEF Types, RecOK, ManagerOK
<1>2. UNCHANGED <<cluster, manager, nfqlb, faults, clashed>>
  BY DEF ReadStep, ListServices, DeletionsDone, GetIPv4Slice
<1>3. CASE ListServices
  <2>1. rec'.pc = "delete" /\ rec'.want = svcs /\ rec'.todo = held \ svcs
    BY <1>3 DEF ListServices, Idle
  <2>2. QED
    BY <1>2, <2>1 DEF ApplyingInv, cluster, manager
<1>4. CASE DeletionsDone
  <2>1. Undisturbed /\ rec.pc = "delete" /\ rec.todo = {}
    BY <1>4 DEF DeletionsDone, ListServices
  <2>2. rec'.pc = "add" /\ rec'.want = rec.want
    BY <1>1, <1>4 DEF DeletionsDone, Recs
  <2>3. QED
    BY <1>2, <2>1, <2>2 DEF ApplyingInv, cluster, manager
<1>5. ASSUME NEW s \in Services, GetIPv4Slice(s) PROVE ApplyingInv'
  <2>1. Undisturbed /\ rec.pc = "endpoints"
    BY <1>5 DEF GetIPv4Slice, ListServices
  <2>2. /\ rec'.pc = "slice" /\ rec'.svc = s /\ rec'.first = slices[s].IPv4
        /\ rec'.todo = rec.todo
    BY <1>1, <1>5 DEF GetIPv4Slice, Recs
  <2>3. \A r : ServiceApplied(r)' = ServiceApplied(r)
    BY <1>2 DEF ServiceApplied, Activated, Ready, Listed, cluster, nfqlb
  <2>4. QED
    BY <1>2, <2>1, <2>2, <2>3 DEF ApplyingInv, cluster, manager
<1>6. QED
  BY <1>3, <1>4, <1>5 DEF ReadStep

LEMMA ApplyingEndpoints ==
  ASSUME Types, Progress, SlicesInv, ApplyingInv, SetEndpoints, Undisturbed, Undisturbed',
         TargetsRecorded', RecordIsTrue'
  PROVE  ApplyingInv'
<1>1. PICK s : s = rec.svc
  OBVIOUS
<1>2. rec \in Recs /\ rec.pc = "slice" /\ s \in rec.todo /\ s \in held
  BY <1>1 DEF Types, RecOK, SetEndpoints, Progress
<1>3. UNCHANGED <<svcs, slices, held>>
  BY DEF SetEndpoints, cluster
<1>4. PICK list, t :
        /\ targets' = [targets EXCEPT ![s] = t]
        /\ clashed' = IF Unique(list) THEN clashed ELSE clashed \cup {s}
        /\ \/ queued'
           \/ rec' = [rec EXCEPT !.pc = "endpoints", !.todo = @ \ {s}, !.svc = None, !.first = {}]
  BY <1>1 DEF SetEndpoints, GiveUp
<1>5. rec'.pc = "endpoints" /\ rec'.todo = rec.todo \ {s}
  BY <1>2, <1>4 DEF Recs, Undisturbed
<1>6. ServiceApplied(s)'
  BY <1>1, <1>2, EndpointsAreApplied DEF ApplyingInv, Undisturbed
<1>7. ASSUME NEW r \in held \ rec.todo PROVE ServiceApplied(r)'
  <2>1. ServiceApplied(r) /\ r # s
    BY <1>2 DEF ApplyingInv
  <2>2. targets'[r] = targets[r] /\ clashed \subseteq clashed'
    BY <1>2, <1>4, <2>1 DEF Types, NfqlbOK, ManagerOK
  <2>3. QED
    BY <1>3, <2>1, <2>2 DEF ServiceApplied, Activated, Ready, Listed
<1>8. held = svcs
  BY <1>2 DEF ApplyingInv
<1>9. QED
  BY <1>3, <1>5, <1>6, <1>7, <1>8 DEF ApplyingInv

LEMMA ApplyingFlows ==
  ASSUME Types, ApplyingInv, FlowsRecorded, SetFlows, Undisturbed, Undisturbed'
  PROVE  ApplyingInv'
<1>1. rec.pc = "endpoints" /\ rec.todo = {}
      /\ UNCHANGED <<cluster, held, targets, clashed>>
  BY DEF SetFlows
<1>2. rec' = Idle
  BY DEF SetFlows, GiveUp
<1>3. table' = WantedFlows'
  BY FlowsAreApplied DEF Undisturbed, DeletionWentWrong
<1>4. held = svcs /\ \A s \in held : ServiceApplied(s)
  BY <1>1 DEF ApplyingInv
<1>5. \A s : ServiceApplied(s)' = ServiceApplied(s)
  BY <1>1 DEF ServiceApplied, Activated, Ready, Listed, cluster
<1>6. \A s \in held' \ clashed' : Activated(s)' /\ DOMAIN targets'[s] = IdsOf(Ready(s)')
  BY <1>1, <1>4, <1>5 DEF ServiceApplied
<1>7. Applied'
  BY <1>1, <1>3, <1>4, <1>6 DEF Applied, cluster
<1>8. QED
  BY <1>2, <1>7, IdleIsOK DEF ApplyingInv

LEMMA ApplyingStep ==
  ASSUME Types, Progress, SlicesInv, ApplyingInv, FlowsRecorded, [Next]_vars,
         TargetsRecorded', RecordIsTrue'
  PROVE  ApplyingInv'
<1> SUFFICES ASSUME Undisturbed' PROVE ApplyingInv'
  BY DEF ApplyingInv
<1>1. Undisturbed \/ ListServices
  BY UndisturbedBefore
<1>2. CASE ListServices
  BY <1>2, ApplyingReads DEF ReadStep
<1>3. CASE Undisturbed /\ UNCHANGED vars
  <2>1. UNCHANGED <<cluster, manager, nfqlb, rec, clashed>>
    BY <1>3 DEF vars
  <2>2. \A r : ServiceApplied(r)' = ServiceApplied(r)
    BY <2>1 DEF ServiceApplied, Activated, Ready, Listed, cluster, nfqlb
  <2>3. Applied' = Applied
    BY <2>1 DEF Applied, Activated, Ready, Listed, WantedFlows, cluster, manager, nfqlb
  <2>4. QED
    BY <1>3, <2>1, <2>2, <2>3 DEF ApplyingInv, cluster, manager
<1>4. CASE Undisturbed /\ ~UNCHANGED vars
  BY <1>4, NextCases, ApplyingCluster, ApplyingReads, ApplyingServices, ApplyingEndpoints,
     ApplyingFlows
<1>5. QED
  BY <1>1, <1>2, <1>3, <1>4
-----------------------------------------------------------------------------
(* The theorems *)

IInv ==
    /\ Types /\ Progress
    /\ RecordsUnique /\ TargetsRecorded /\ RecordIsTrue
    /\ FlowsHeld /\ FlowsRecorded
    /\ SlicesInv /\ ApplyingInv

LEMMA IInvInit == Init => IInv
<1> SUFFICES ASSUME Init PROVE IInv
  OBVIOUS
<1>1. Progress /\ TargetsRecorded /\ RecordIsTrue /\ FlowsHeld /\ FlowsRecorded
  BY IdleIsOK DEF Init, Progress, TargetsRecorded, RecordIsTrue, FlowsHeld, FlowsRecorded
<1>2. RecordsUnique
  BY DEF Init, RecordsUnique, Unique
<1>3. SlicesInv
  BY DEF Init, SlicesInv, NoSlices, Idle, OneOfEach
<1>4. ApplyingInv
  BY DEF Init, ApplyingInv, Undisturbed
<1>5. QED
  BY <1>1, <1>2, <1>3, <1>4, TypesInit DEF IInv

LEMMA InvariantCorrect == Spec => []IInv
<1>1. IInv /\ [Next]_vars => IInv'
  BY TypesStep, ProgressStep, RecordsUniqueStep, TargetsRecordedStep, RecordIsTrueStep, FlowsStep,
     SlicesStep, ApplyingStep
     DEF IInv
<1>2. QED
  BY <1>1, IInvInit, PTL DEF Spec

(* The variables have their types, and SetEndpoints is called for services *)
(* of the manager only, so it never returns errServiceNotExisting          *)
(* (manager.go: SetEndpoints).                                             *)
THEOREM TypeCorrect == Spec => []TypeOK
<1>1. IInv => TypeOK
  <2> SUFFICES ASSUME IInv PROVE TypeOK
    OBVIOUS
  <2>1. ASSUME NEW s \in Services PROVE Uids(recorded[s]) \subseteq Uids(AllEndpoints)
    <3>1. recorded[s] \subseteq Endpoints
      BY DEF IInv, Types, ManagerOK, ReadyEndpoints
    <3>2. QED
      BY <3>1 DEF Endpoints, Uids
  <2>2. rec.pc \in {"idle", "delete", "add", "endpoints", "slice"}
    BY DEF IInv, Types, RecOK, Recs
  <2>3. QED
    BY <2>1, <2>2 DEF IInv, Types, ClusterOK, ManagerOK, NfqlbOK, FaultsOK, Progress, IsTargets,
       TypeOK
<1>2. QED
  BY <1>1, InvariantCorrect, PTL

(* No target of a service is left that the manager has no record of, and   *)
(* that no DeleteTarget would be called for, whatever fails and whatever   *)
(* identifiers clash (manager.go: addEndpoints, removeEndpoints).          *)
THEOREM EveryTargetIsRecorded == Spec => []TargetsRecorded
<1>1. IInv => TargetsRecorded
  BY DEF IInv
<1>2. QED
  BY <1>1, InvariantCorrect, PTL

(* Until something fails, an endpoint that the manager takes for unchanged *)
(* is a target with its addresses (manager.go: removeEndpoints), if nfqlb  *)
(* has its service and its list had no identifier twice.                   *)
THEOREM RecordsAreTrue == Spec => []RecordIsTrue
<1>1. IInv => RecordIsTrue
  BY DEF IInv
<1>2. QED
  BY <1>1, InvariantCorrect, PTL

(* Until something fails, nfqlb has no flow the manager has lost track of, *)
(* in whatever order services and routes come and go (manager.go:          *)
(* SetServices, SetFlows, cleanupFlows).                                   *)
THEOREM NoFlowIsLost == Spec => []FlowsRecorded
<1>1. IInv => FlowsRecorded
  BY DEF IInv
<1>2. QED
  BY <1>1, InvariantCorrect, PTL

(* Until something fails, a gateway that is neither queued nor being       *)
(* reconciled is applied: nfqlb has its services, its ready endpoints      *)
(* and the flows of its routes, and nothing else, wherever between the     *)
(* reads of a reconciliation they have changed                             *)
(* (statelessloadbalancer.go: Reconcile, enqueue.go).                      *)
THEOREM Settled == Spec => []SettledIsApplied
<1>1. IInv => SettledIsApplied
  BY DEF IInv, ApplyingInv, Undisturbed, SettledIsApplied
<1>2. QED
  BY <1>1, InvariantCorrect, PTL
=============================================================================
