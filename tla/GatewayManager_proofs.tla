----------------------- MODULE GatewayManager_proofs ------------------------
(***************************************************************************)
(* Proofs about GatewayManager, for any gateways of both classes, services,*)
(* pods and routes, and any number of changes and failures.  The inductive *)
(* invariant says of every gateway that nothing has queued how much of it  *)
(* is applied, at each step of a reconciliation of it (GatewayInv), and    *)
(* of the services a reconciliation has listed that one which has moved    *)
(* since has queued the gateway it has moved to (MovedAreQueued).          *)
(***************************************************************************)
EXTENDS GatewayManager, FiniteSetTheorems, TLAPS

Stateless == {g \in Gateways : ClassOf[g] = "stateless"}

Recs ==
    [pc : {"idle", "workload", "list", "services", "status"},
     gw : Gateways \cup {None}, todo : SUBSET Services, services : SUBSET Services,
     selector : [Services -> Labels \cup {None}], addresses : AllOrders, stale : BOOLEAN]

ClusterOK ==
    /\ exists \subseteq Gateways
    /\ owner \in [Services -> Gateways] /\ \A s \in Services : owner[s] \in OwnersOf[s]
    /\ selector \in [Services -> Labels]
    /\ label \in [Pods -> Labels \cup {None}]
    /\ parent \in [Routes -> Stateless]
    /\ changes \in 0 .. MaxChanges

WrittenOK ==
    /\ workload \in [Gateways -> {"none", "owned", "orphan"}]
    /\ slices \in [Services -> SUBSET Pods]
    /\ status \in [Gateways -> AllOrders]
    /\ queue \subseteq Gateways
    /\ removed \subseteq Stateless /\ dropped \subseteq Gateways /\ missed \subseteq Gateways
    /\ \A g \in removed : workload[g] = "none"
    /\ faults \in 0 .. MaxFaults

(* A reconciliation of class c. *)
RecOK(c) ==
    /\ rec[c] \in Recs
    /\ At(c, "idle") => rec[c] = NoOne
    /\ ~At(c, "idle") => rec[c].gw \in Gateways /\ ClassOf[rec[c].gw] = c
    /\ rec[c].todo \subseteq rec[c].services
    /\ At(c, "status") => rec[c].todo = {}
    /\ \A s \in rec[c].services : ClassOf[owner[s]] = c

RecsOK == rec \in [Classes -> Recs] /\ \A c \in Classes : RecOK(c)

Types == ClusterOK /\ WrittenOK /\ RecsOK
-----------------------------------------------------------------------------
(* Sequences of the elements of a set *)

LEMMA ImageIsFinite ==
  ASSUME NEW f, IsFiniteSet(DOMAIN f), NEW S, S = {f[x] : x \in DOMAIN f},
         f = [x \in DOMAIN f |-> f[x]]
  PROVE  IsFiniteSet(S)
<1>1. f \in Surjection(DOMAIN f, S)
  BY DEF Surjection
<1>2. QED
  BY <1>1, FS_Surjection

(* A sequence without repetition, as long as a set is large, has all of it. *)
LEMMA ToSetLemma ==
  ASSUME NEW S, IsFiniteSet(S), NEW o \in SetToSeqs(S)
  PROVE  ToSet(o) = S
<1> DEFINE n == Cardinality(S)
<1>1. n \in Nat
  BY FS_CardinalityType
<1>2. o \in [1 .. n -> S] /\ \A i, j \in 1 .. n : i # j => o[i] # o[j]
  BY DEF SetToSeqs
<1> HIDE DEF n
<1>3. o \in Injection(1 .. n, S)
  BY <1>2 DEF Injection, IsInjective
<1>4. IsFiniteSet(1 .. n) /\ Cardinality(1 .. n) = n
  BY <1>1, FS_Interval
<1>5. Cardinality(1 .. n) = Cardinality(S)
  BY <1>4 DEF n
<1>6. o \in Surjection(1 .. n, S)
  BY <1>3, <1>5, FS_Injection
<1>7. QED
  BY <1>2, <1>6 DEF Surjection, ToSet

LEMMA OrdersExist ==
  ASSUME NEW S, IsFiniteSet(S)
  PROVE  \E o : o \in SetToSeqs(S)
<1>1. PICK o : o \in Bijection(1 .. Cardinality(S), S)
  BY FS_CardinalityType DEF ExistsBijection
<1>2. o \in SetToSeqs(S)
  BY <1>1 DEF Bijection, Injection, IsInjective, SetToSeqs
<1>3. QED
  BY <1>2

LEMMA NoAddresses == <<>> \in AllOrders /\ ToSet(<<>>) = {}
<1>1. <<>> \in SetToSeqs({})
  <2>1. Cardinality({}) = 0
    BY FS_EmptySet
  <2>2. <<>> \in [1 .. 0 -> {}]
    OBVIOUS
  <2>3. QED
    BY <2>1, <2>2 DEF SetToSeqs
<1>2. QED
  BY <1>1, FS_EmptySet, ToSetLemma DEF AllOrders

AllVips == {Vip[x] : x \in DOMAIN Vip}

LEMMA OrdersLemma ==
  ASSUME NEW S \in SUBSET AllVips, NEW o \in SetToSeqs(S)
  PROVE  o \in AllOrders
BY DEF AllVips, AllOrders

LEMMA VipsFinite ==
  ASSUME NEW g \in Gateways
  PROVE  IsFiniteSet(VipsOf(g)) /\ VipsOf(g) \subseteq AllVips
<1>1. CASE ClassOf[g] = "kpng"
  <2> DEFINE f == [s \in Owned(g) |-> Vip[s]]
  <2>1. IsFiniteSet(Owned(g))
    BY GatewayManagerAssumption, FS_Subset DEF Owned
  <2>2. IsFiniteSet({f[x] : x \in DOMAIN f})
    BY <2>1, ImageIsFinite
  <2>3. {f[x] : x \in DOMAIN f} = VipsOf(g)
    BY <1>1 DEF VipsOf
  <2>4. VipsOf(g) \subseteq AllVips
    BY <1>1, GatewayManagerAssumption DEF VipsOf, Owned, AllVips
  <2> HIDE DEF f
  <2>5. QED
    BY <2>2, <2>3, <2>4
<1>2. CASE ClassOf[g] # "kpng"
  <2> DEFINE some == {t \in Routes : parent[t] = g}
             f == [r \in some |-> Vip[r]]
  <2>1. IsFiniteSet(some)
    BY GatewayManagerAssumption, FS_Subset
  <2>2. IsFiniteSet({f[x] : x \in DOMAIN f})
    BY <2>1, ImageIsFinite
  <2>3. {f[x] : x \in DOMAIN f} = VipsOf(g)
    BY <1>2 DEF VipsOf
  <2>4. VipsOf(g) \subseteq AllVips
    BY <1>2, GatewayManagerAssumption DEF VipsOf, AllVips
  <2> HIDE DEF f
  <2>5. QED
    BY <2>2, <2>3, <2>4
<1>3. QED
  BY <1>1, <1>2
-----------------------------------------------------------------------------
(* Types *)

LEMMA NoOneIsOK ==
    /\ NoOne \in Recs /\ NoOne.pc = "idle" /\ NoOne.gw = None
    /\ NoOne.todo = {} /\ NoOne.services = {}
BY NoAddresses DEF NoOne, Recs

LEMMA TypesInit == Init => Types
<1> SUFFICES ASSUME Init PROVE Types
  OBVIOUS
<1>1. ASSUME NEW s \in Services PROVE owner[s] \in OwnersOf[s] /\ owner[s] \in Gateways
  <2>1. OwnersOf[s] \in (SUBSET Gateways) \ {{}}
    BY GatewayManagerAssumption
  <2>2. owner[s] = CHOOSE g \in OwnersOf[s] : TRUE
    BY DEF Init
  <2>3. \E g : g \in OwnersOf[s]
    BY <2>1
  <2>4. owner[s] \in OwnersOf[s]
    BY <2>2, <2>3
  <2>5. QED
    BY <2>1, <2>4
<1>2. \A s \in Services : selector[s] \in Labels
  BY GatewayManagerAssumption DEF Init
<1>3. ClusterOK
  <2>1. owner \in [Services -> Gateways] /\ selector \in [Services -> Labels]
    BY <1>1, <1>2 DEF Init
  <2>2. QED
    BY <1>1, <2>1, GatewayManagerAssumption DEF Init, ClusterOK, Stateless
<1>4. \A g \in Gateways : status[g] \in AllOrders
  <2>1. ASSUME NEW g \in Gateways PROVE status[g] \in AllOrders
    <3>1. status[g] = CHOOSE o \in SetToSeqs(VipsOf(g)) : TRUE
      BY DEF Init
    <3>2. status[g] \in SetToSeqs(VipsOf(g))
      BY <3>1, VipsFinite, OrdersExist
    <3>3. QED
      BY <3>2, VipsFinite, OrdersLemma
  <2>2. QED
    BY <2>1
<1>5. WrittenOK
  <2>1. status \in [Gateways -> AllOrders]
    BY <1>4 DEF Init
  <2>2. workload \in [Gateways -> {"none", "owned", "orphan"}]
    BY DEF Init
  <2>3. slices \in [Services -> SUBSET Pods]
    BY DEF Init, Selected
  <2>4. queue = {} /\ removed = {} /\ dropped = {} /\ missed = {} /\ faults \in 0 .. MaxFaults
    BY GatewayManagerAssumption DEF Init
  <2>5. QED
    BY <2>1, <2>2, <2>3, <2>4 DEF WrittenOK
<1>6. RecsOK
  BY NoOneIsOK DEF Init, RecsOK, RecOK, At
<1>7. QED
  BY <1>3, <1>5, <1>6 DEF Types

(* What a step of a controller leaves of the reconciliations. *)
LEMMA StepIsOK ==
  ASSUME RecsOK, NEW c \in Classes, NEW r \in Recs, Step(c, r), owner' = owner,
         r.pc = "idle" => r = NoOne,
         r.pc # "idle" => r.gw \in Gateways /\ ClassOf[r.gw] = c,
         r.todo \subseteq r.services, r.pc = "status" => r.todo = {},
         \A s \in r.services : ClassOf[owner[s]] = c
  PROVE  RecsOK'
<1>1. rec' \in [Classes -> Recs] /\ rec'[c] = r
      /\ \A d \in Classes \ {c} : rec'[d] = rec[d]
  BY DEF RecsOK, Step
<1>2. ASSUME NEW d \in Classes PROVE RecOK(d)'
  <2>1. CASE d = c
    BY <1>1, <2>1 DEF RecOK, At
  <2>2. CASE d # c
    BY <1>1, <2>2 DEF RecsOK, RecOK, At
  <2>3. QED
    BY <2>1, <2>2
<1>3. QED
  BY <1>1, <1>2 DEF RecsOK

LEMMA RecsStay ==
  ASSUME RecsOK, rec' = rec,
         \A s \in Services : ClassOf[owner'[s]] = ClassOf[owner[s]]
  PROVE  RecsOK'
<1>1. ASSUME NEW c \in Classes PROVE RecOK(c)'
  <2>1. rec[c].services \subseteq Services
    BY DEF RecsOK, Recs
  <2>2. QED
    BY <2>1 DEF RecsOK, RecOK, At
<1>2. QED
  BY <1>1 DEF RecsOK

LEMMA ClusterStays ==
  ASSUME ClusterOK, UNCHANGED cluster
  PROVE  ClusterOK'
BY DEF ClusterOK, cluster

LEMMA EnqueueOK ==
  ASSUME WrittenOK, NEW S, Enqueue(S)
  PROVE  queue' \subseteq Gateways
BY DEF WrittenOK, Enqueue

LEMMA TypesGatewayComes ==
  ASSUME Types, NEW g \in Gateways, GatewayComes(g)
  PROVE  Types'
<1>1. ClusterOK'
  BY GatewayManagerAssumption DEF Types, ClusterOK, GatewayComes, Change
<1>2. WrittenOK'
  BY EnqueueOK DEF Types, WrittenOK, GatewayComes, written, history
<1>3. RecsOK'
  BY RecsStay DEF Types, GatewayComes
<1>4. QED
  BY <1>1, <1>2, <1>3 DEF Types

LEMMA TypesGatewayGoes ==
  ASSUME Types, NEW g \in Gateways, GatewayGoes(g)
  PROVE  Types'
<1>1. ClusterOK'
  BY GatewayManagerAssumption DEF Types, ClusterOK, GatewayGoes, Change
<1>2. WrittenOK'
  <2>1. status' \in [Gateways -> AllOrders]
    BY NoAddresses DEF Types, WrittenOK, GatewayGoes
  <2>2. workload' \in [Gateways -> {"none", "owned", "orphan"}]
        /\ \A h \in removed' : workload'[h] = "none"
    BY DEF Types, WrittenOK, GatewayGoes, history
  <2>3. QED
    BY <2>1, <2>2, EnqueueOK DEF Types, WrittenOK, GatewayGoes, history
<1>3. RecsOK'
  <2>1. ASSUME NEW c \in Classes
        PROVE  /\ rec'[c] \in Recs
               /\ RecOK(c)'
    <3>1. rec[c] \in Recs /\ RecOK(c)
      BY DEF Types, RecsOK
    <3>2. CASE rec[c].gw = g
      <4>1. rec'[c] = [rec[c] EXCEPT !.stale = TRUE]
        BY <3>2 DEF GatewayGoes, Outdate
      <4>2. rec[c].pc # "idle"
        BY <3>1, <3>2, NoOneIsOK, GatewayManagerAssumption DEF RecOK, At
      <4>3. rec'[c] \in Recs /\ rec'[c].pc = rec[c].pc /\ rec'[c].gw = rec[c].gw
            /\ rec'[c].todo = rec[c].todo /\ rec'[c].services = rec[c].services
        BY <3>1, <4>1 DEF Recs
      <4>4. QED
        BY <3>1, <4>2, <4>3 DEF RecOK, At, GatewayGoes
    <3>3. CASE rec[c].gw # g
      <4>1. rec'[c] = rec[c]
        BY <3>3 DEF GatewayGoes, Outdate
      <4>2. QED
        BY <3>1, <4>1 DEF RecOK, At, GatewayGoes
    <3>4. QED
      BY <3>2, <3>3
  <2>2. rec' \in [Classes -> Recs]
    BY <2>1 DEF GatewayGoes, Outdate
  <2>3. QED
    BY <2>1, <2>2 DEF RecsOK
<1>4. QED
  BY <1>1, <1>2, <1>3 DEF Types

LEMMA TypesWorkloadGoes ==
  ASSUME Types, NEW g \in Gateways, WorkloadGoes(g)
  PROVE  Types'
<1>1. ClusterOK'
  BY GatewayManagerAssumption DEF Types, ClusterOK, WorkloadGoes, Change
<1>2. WrittenOK'
  <2>1. queue' \subseteq Gateways
    BY EnqueueOK DEF Types, WorkloadGoes, WorkloadEvent
  <2>2. workload' \in [Gateways -> {"none", "owned", "orphan"}]
        /\ \A h \in removed' : workload'[h] = "none"
    BY DEF Types, WrittenOK, WorkloadGoes
  <2>3. removed' \subseteq Stateless
    <3>1. ClassOf[g] = "kpng" \/ ClassOf[g] = "stateless"
      BY GatewayManagerAssumption DEF Classes
    <3>2. QED
      BY <3>1 DEF Types, WrittenOK, WorkloadGoes, Stateless
  <2>4. faults' \in 0 .. MaxFaults /\ UNCHANGED <<slices, status, dropped, missed>>
    BY DEF Types, WrittenOK, WorkloadGoes
  <2>5. QED
    BY <2>1, <2>2, <2>3, <2>4 DEF Types, WrittenOK
<1>3. RecsOK'
  BY RecsStay DEF Types, WorkloadGoes
<1>4. QED
  BY <1>1, <1>2, <1>3 DEF Types

LEMMA TypesClusterEvents ==
  ASSUME Types,
         \/ \E s \in Services : ServiceMoves(s) \/ SelectorChanges(s)
         \/ \E p \in Pods : PodChanges(p)
         \/ \E r \in Routes : RouteMoves(r)
  PROVE  Types'
<1>1. ASSUME NEW s \in Services, ServiceMoves(s)
      PROVE  Types'
  <2>1. PICK g \in OwnersOf[s] \ {owner[s]} :
            owner' = [owner EXCEPT ![s] = g] /\ Enqueue({owner[s], g})
    BY <1>1 DEF ServiceMoves
  <2>2. g \in Gateways /\ owner[s] \in OwnersOf[s] /\ ClassOf[g] = ClassOf[owner[s]]
    BY <2>1, GatewayManagerAssumption DEF Types, ClusterOK
  <2>3. owner' \in [Services -> Gateways] /\ \A t \in Services : owner'[t] \in OwnersOf[t]
    BY <2>1, <2>2 DEF Types, ClusterOK
  <2>4. ClusterOK'
    BY <1>1, <2>3, GatewayManagerAssumption DEF Types, ClusterOK, ServiceMoves, Change
  <2>5. WrittenOK'
    BY <1>1, <2>1, EnqueueOK DEF Types, WrittenOK, ServiceMoves, written, history
  <2>6. \A t \in Services : ClassOf[owner'[t]] = ClassOf[owner[t]]
    BY <2>1, <2>2 DEF Types, ClusterOK
  <2>7. RecsOK'
    BY <1>1, <2>6, RecsStay DEF Types, ServiceMoves
  <2>8. QED
    BY <2>4, <2>5, <2>7 DEF Types
<1>2. ASSUME NEW s \in Services, SelectorChanges(s)
      PROVE  Types'
  <2>1. ClusterOK'
    BY <1>2, GatewayManagerAssumption DEF Types, ClusterOK, SelectorChanges, Change
  <2>2. WrittenOK'
    BY <1>2, EnqueueOK DEF Types, WrittenOK, SelectorChanges, written, history
  <2>3. RecsOK'
    BY <1>2, RecsStay DEF Types, SelectorChanges
  <2>4. QED
    BY <2>1, <2>2, <2>3 DEF Types
<1>3. ASSUME NEW p \in Pods, PodChanges(p)
      PROVE  Types'
  <2>1. ClusterOK'
    BY <1>3, GatewayManagerAssumption DEF Types, ClusterOK, PodChanges, Change
  <2>2. UNCHANGED <<written, removed, dropped>> /\ (\E S : Enqueue(S))
    BY <1>3 DEF PodChanges
  <2>3. queue' \subseteq Gateways
    BY <2>2, EnqueueOK DEF Types
  <2>4. missed' \subseteq Gateways /\ faults' \in 0 .. MaxFaults
    <3>1. \A l : PodEnqueue(l) \subseteq Gateways
      BY DEF Types, ClusterOK, PodEnqueue
    <3>2. PICK l : \/ UNCHANGED <<missed, faults>>
                   \/ \E lost \in SUBSET (PodEnqueue(label[p]) \cup PodEnqueue(l)) :
                        EventLost(lost)
      BY <1>3 DEF PodChanges
    <3>3. QED
      BY <3>1, <3>2, GatewayManagerAssumption DEF Types, WrittenOK, EventLost, Fails
  <2>5. WrittenOK'
    BY <2>2, <2>3, <2>4 DEF Types, WrittenOK, written
  <2>6. RecsOK'
    BY <1>3, RecsStay DEF Types, PodChanges
  <2>7. QED
    BY <2>1, <2>5, <2>6 DEF Types
<1>4. ASSUME NEW r \in Routes, RouteMoves(r)
      PROVE  Types'
  <2>1. ClusterOK'
    BY <1>4, GatewayManagerAssumption DEF Types, ClusterOK, RouteMoves, Change, Stateless
  <2>2. WrittenOK'
    BY <1>4, EnqueueOK DEF Types, WrittenOK, RouteMoves, written, history
  <2>3. RecsOK'
    BY <1>4, RecsStay DEF Types, RouteMoves
  <2>4. QED
    BY <2>1, <2>2, <2>3 DEF Types
<1>5. QED
  BY <1>1, <1>2, <1>3, <1>4

LEMMA TypesReconcile ==
  ASSUME Types, NEW c \in Classes, Reconcile(c)
  PROVE  Types'
<1>0. ClusterOK /\ WrittenOK /\ RecsOK /\ rec[c] \in Recs /\ RecOK(c)
  BY DEF Types, RecsOK
<1>1. ASSUME NEW g \in Gateways, ClassOf[g] = c, GetGateway(g)
      PROVE  Types'
  <2>1. ClusterOK' /\ WrittenOK'
    BY <1>0, <1>1, ClusterStays
       DEF WrittenOK, GetGateway, written, history
  <2>2. CASE g \in exists
    <3> DEFINE r == [NoOne EXCEPT !.pc = "workload", !.gw = g]
    <3>1. r \in Recs /\ r.pc = "workload" /\ r.gw = g /\ r.todo = {} /\ r.services = {}
      BY NoOneIsOK, Zenon, SMT DEF Recs, NoOne
    <3>2. Step(c, r) /\ owner' = owner
      BY <1>1, <2>2 DEF GetGateway, cluster
    <3> HIDE DEF r
    <3>3. RecsOK'
      BY <1>0, <1>1, <3>1, <3>2, StepIsOK
    <3>4. QED
      BY <2>1, <3>3 DEF Types
  <2>3. CASE g \notin exists
    <3>1. RecsOK'
      BY <1>0, <1>1, <2>3, RecsStay DEF GetGateway, cluster
    <3>2. QED
      BY <2>1, <3>1 DEF Types
  <2>4. QED
    BY <2>2, <2>3
<1>2. ASSUME c = "stateless", ReconcileDeployment
      PROVE  Types'
  <2>1. rec[c].gw \in Gateways /\ owner' = owner /\ ClusterOK'
    BY <1>0, <1>2, ClusterStays DEF ReconcileDeployment, RecOK, At, cluster
  <2>2. workload' \in [Gateways -> {"none", "owned", "orphan"}]
        /\ \A h \in removed' : workload'[h] = "none"
    BY <1>0, <1>2, <2>1 DEF WrittenOK, ReconcileDeployment, Made
  <2>3. WrittenOK'
    BY <1>0, <1>2, <2>2 DEF WrittenOK, ReconcileDeployment
  <2> DEFINE r == [rec[c] EXCEPT !.pc = "list"]
  <2>4. r \in Recs /\ r.pc = "list" /\ r.gw = rec[c].gw /\ r.todo = rec[c].todo
        /\ r.services = rec[c].services
    BY <1>0 DEF Recs
  <2>5. Step(c, r)
    BY <1>2 DEF ReconcileDeployment
  <2> HIDE DEF r
  <2>6. RecsOK'
    BY <1>0, <1>2, <2>1, <2>4, <2>5, StepIsOK DEF RecOK, At, ReconcileDeployment
  <2>7. QED
    BY <2>1, <2>3, <2>6 DEF Types
<1>3. ASSUME c = "kpng", ReconcileDaemonSet
      PROVE  Types'
  <2>1. rec[c].gw \in Gateways /\ owner' = owner /\ ClusterOK'
    BY <1>0, <1>3, ClusterStays DEF ReconcileDaemonSet, RecOK, At, cluster
  <2>2. workload' \in [Gateways -> {"none", "owned", "orphan"}]
        /\ \A h \in Gateways : h # rec[c].gw => workload'[h] = workload[h]
    BY <1>0, <1>3, <2>1 DEF WrittenOK, ReconcileDaemonSet, Made
  <2>3. \A h \in removed : workload'[h] = "none"
    BY <1>0, <1>3, <2>2 DEF WrittenOK, RecOK, At, ReconcileDaemonSet, Stateless
  <2>4. WrittenOK'
    BY <1>0, <1>3, <2>2, <2>3, EnqueueOK DEF WrittenOK, ReconcileDaemonSet, history
  <2> DEFINE r == [rec[c] EXCEPT !.pc = "list"]
  <2>5. r \in Recs /\ r.pc = "list" /\ r.gw = rec[c].gw /\ r.todo = rec[c].todo
        /\ r.services = rec[c].services
    BY <1>0 DEF Recs
  <2>6. Step(c, r)
    BY <1>3 DEF ReconcileDaemonSet
  <2> HIDE DEF r
  <2>7. RecsOK'
    BY <1>0, <1>3, <2>1, <2>5, <2>6, StepIsOK DEF RecOK, At, ReconcileDaemonSet
  <2>8. QED
    BY <2>1, <2>4, <2>7 DEF Types
<1>4. ASSUME ListServices(c)
      PROVE  Types'
  <2>1. rec[c].gw \in Gateways /\ ClassOf[rec[c].gw] = c
        /\ owner' = owner /\ ClusterOK' /\ WrittenOK'
    BY <1>0, <1>4, ClusterStays
       DEF ListServices, RecOK, At, cluster, WrittenOK, written, history
  <2> DEFINE these == Owned(rec[c].gw)
             r == [rec[c] EXCEPT !.pc = "services", !.todo = these,
                                 !.services = these, !.selector = selector]
  <2>2. these \subseteq Services /\ \A s \in these : owner[s] = rec[c].gw
    BY DEF Owned
  <2>3. selector \in [Services -> Labels \cup {None}]
    BY <1>0 DEF ClusterOK
  <2>4. Step(c, r)
    BY <1>4 DEF ListServices
  <2> HIDE DEF these
  <2>5. r \in Recs /\ r.pc = "services" /\ r.gw = rec[c].gw /\ r.todo = these
        /\ r.services = these
    BY <1>0, <2>2, <2>3 DEF Recs
  <2> HIDE DEF r
  <2>6. RecsOK'
    BY <1>0, <2>1, <2>2, <2>4, <2>5, StepIsOK
  <2>7. QED
    BY <2>1, <2>6 DEF Types
<1>5. ASSUME NEW s \in Services, ReconcileService(c, s)
      PROVE  Types'
  <2>1. rec[c].gw \in Gateways /\ ClassOf[rec[c].gw] = c /\ owner' = owner /\ ClusterOK'
    BY <1>0, <1>5, ClusterStays DEF ReconcileService, RecOK, At, cluster
  <2>2. slices' \in [Services -> SUBSET Pods]
    BY <1>0, <1>5 DEF WrittenOK, ReconcileService
  <2>3. WrittenOK'
    BY <1>0, <1>5, <2>2 DEF WrittenOK, ReconcileService, history
  <2> DEFINE r == [rec[c] EXCEPT !.todo = @ \ {s}]
  <2>4. Step(c, r) /\ rec[c].pc = "services"
    BY <1>5 DEF ReconcileService, At
  <2>5. r \in Recs /\ r.pc = "services" /\ r.gw = rec[c].gw /\ r.todo \subseteq rec[c].todo
        /\ r.services = rec[c].services
    BY <1>0, <2>4 DEF Recs
  <2> HIDE DEF r
  <2>6. RecsOK'
    BY <1>0, <2>1, <2>4, <2>5, StepIsOK DEF RecOK
  <2>7. QED
    BY <2>1, <2>3, <2>6 DEF Types
<1>6. ASSUME NEW o \in AllOrders, ListAddresses(c, o)
      PROVE  Types'
  <2>1. rec[c].gw \in Gateways /\ ClassOf[rec[c].gw] = c
        /\ owner' = owner /\ ClusterOK' /\ WrittenOK'
    BY <1>0, <1>6, ClusterStays
       DEF ListAddresses, RecOK, At, cluster, WrittenOK, written, history
  <2> DEFINE r == [rec[c] EXCEPT !.pc = "status", !.addresses = o]
  <2>2. Step(c, r) /\ rec[c].pc = "services" /\ rec[c].todo = {}
    BY <1>6 DEF ListAddresses, At
  <2>3. r \in Recs /\ r.pc = "status" /\ r.gw = rec[c].gw /\ r.todo = {}
        /\ r.services = rec[c].services
    BY <1>0, <2>2 DEF Recs
  <2> HIDE DEF r
  <2>4. RecsOK'
    BY <1>0, <2>1, <2>2, <2>3, StepIsOK DEF RecOK
  <2>5. QED
    BY <2>1, <2>4 DEF Types
<1>7. ASSUME UpdateStatus(c)
      PROVE  Types'
  <2>1. rec[c].gw \in Gateways /\ owner' = owner /\ ClusterOK' /\ Step(c, NoOne)
    BY <1>0, <1>7, ClusterStays DEF UpdateStatus, RecOK, At, cluster
  <2>2. status' \in [Gateways -> AllOrders]
    BY <1>0, <1>7, <2>1 DEF WrittenOK, UpdateStatus, Recs
  <2>3. queue' \subseteq Gateways /\ dropped' \subseteq Gateways
    BY <1>0, <1>7, EnqueueOK DEF WrittenOK, UpdateStatus
  <2>4. WrittenOK'
    BY <1>0, <1>7, <2>2, <2>3 DEF WrittenOK, UpdateStatus
  <2>5. RecsOK'
    BY <1>0, <2>1, NoOneIsOK, StepIsOK
  <2>6. QED
    BY <2>1, <2>4, <2>5 DEF Types
<1>8. QED
  BY <1>1, <1>2, <1>3, <1>4, <1>5, <1>6, <1>7 DEF Reconcile

LEMMA TypesFails ==
  ASSUME Types, \/ \E c \in Classes : ReconcileFails(c)
                \/ ListRoutesFails
  PROVE  Types'
<1>1. ASSUME NEW c \in Classes, ReconcileFails(c)
      PROVE  Types'
  <2>1. owner' = owner /\ ClusterOK' /\ Step(c, NoOne)
    BY <1>1, ClusterStays DEF Types, ReconcileFails, cluster
  <2>2. WrittenOK'
    BY <1>1, EnqueueOK, GatewayManagerAssumption
       DEF Types, WrittenOK, ReconcileFails, Fails, written, history
  <2>3. RecsOK'
    BY <2>1, NoOneIsOK, StepIsOK DEF Types
  <2>4. QED
    BY <2>1, <2>2, <2>3 DEF Types
<1>2. ASSUME ListRoutesFails
      PROVE  Types'
  <2>1. owner' = owner /\ ClusterOK' /\ Step("stateless", NoOne)
    BY <1>2, ClusterStays DEF Types, ListRoutesFails, cluster
  <2>2. rec["stateless"].gw \in Gateways
    BY <1>2 DEF Types, RecsOK, RecOK, At, ListRoutesFails, Classes
  <2>3. WrittenOK'
    BY <1>2, <2>2, GatewayManagerAssumption
       DEF Types, WrittenOK, ListRoutesFails, Fails, written
  <2>4. RecsOK'
    BY <2>1, NoOneIsOK, StepIsOK DEF Types, Classes
  <2>5. QED
    BY <2>1, <2>3, <2>4 DEF Types
<1>3. QED
  BY <1>1, <1>2

LEMMA TypesStep == Types /\ [Next]_vars => Types'
<1> SUFFICES ASSUME Types, [Next]_vars PROVE Types'
  OBVIOUS
<1>1. CASE Next
  BY <1>1, TypesGatewayComes, TypesGatewayGoes, TypesWorkloadGoes, TypesClusterEvents,
     TypesReconcile, TypesFails DEF Next
<1>2. CASE UNCHANGED vars
  <2>1. ClusterOK' /\ WrittenOK'
    BY <1>2, ClusterStays DEF Types, WrittenOK, vars, written, history
  <2>2. RecsOK'
    BY <1>2, RecsStay DEF Types, vars, cluster
  <2>3. QED
    BY <2>1, <2>2 DEF Types
<1>3. QED
  BY <1>1, <1>2

(* Every gateway, service, pod and reconciliation is in one of its states, *)
(* the counts keep within their bounds: whatever is requested, reconciled  *)
(* or refused, in any order (statelessloadbalancer/controllermanager,      *)
(* controllers/kpng).                                                      *)
THEOREM TypeCorrect == Spec => []TypeOK
<1>1. Types => TypeOK
  BY DEF Types, ClusterOK, WrittenOK, RecsOK, RecOK, Recs, TypeOK, Stateless
<1>2. QED
  BY <1>1, TypesInit, TypesStep, PTL DEF Spec
-----------------------------------------------------------------------------
(* What is applied of a gateway that nothing has queued *)

(* A service that has moved away while its gateway was reconciled. *)
MovedAreQueued ==
    \A c \in Classes : \A s \in rec[c].services :
        owner[s] = rec[c].gw \/ owner[s] \in queue \/ owner[s] \notin exists

Of(g) == rec[ClassOf[g]]
Busy(g) == Of(g).gw = g

SlicesAreApplied(g) ==
    g \in missed \/ \A s \in Owned(g) :
        \/ slices[s] = Selected(s)
        \/ Busy(g) /\ (Of(g).pc \in {"workload", "list"} \/ s \in Of(g).todo)

ListIsFresh(g) ==
    Busy(g) /\ Of(g).pc \in {"services", "status"} =>
        /\ Of(g).services = Owned(g)
        /\ \A s \in Owned(g) : Of(g).selector[s] = selector[s]

AddressesAreFresh(g) ==
    Busy(g) /\ Of(g).pc = "status" => ToSet(Of(g).addresses) = VipsOf(g)

StatusIsApplied(g) ==
    Busy(g) \/ g \in dropped \/ ToSet(status[g]) = VipsOf(g)

WorkloadIsApplied(g) ==
    (Busy(g) /\ Of(g).pc = "workload") \/ g \in removed \/ workload[g] # "none"

GatewayInv(g) ==
    /\ SlicesAreApplied(g)
    /\ ListIsFresh(g)
    /\ AddressesAreFresh(g)
    /\ StatusIsApplied(g)
    /\ WorkloadIsApplied(g)

IInv ==
    /\ Types
    /\ MovedAreQueued
    /\ \A g \in exists \ queue : GatewayInv(g)

(* A step that neither changes what a gateway should be nor what it is. *)
SameCluster(g) ==
    /\ Owned(g)' = Owned(g) /\ VipsOf(g)' = VipsOf(g)
    /\ \A s \in Owned(g) : selector'[s] = selector[s] /\ Selected(s)' = Selected(s)

SameWritten(g) ==
    /\ \A s \in Owned(g) : slices'[s] = slices[s]
    /\ status'[g] = status[g] /\ (g \in dropped => g \in dropped')
    /\ g \in missed => g \in missed'
    /\ g \in removed \/ workload[g] # "none" => g \in removed' \/ workload'[g] # "none"

SameRec(g) ==
    /\ Busy(g)' <=> Busy(g)
    /\ Busy(g) => /\ Of(g)'.pc = Of(g).pc /\ Of(g)'.todo = Of(g).todo
                  /\ Of(g)'.services = Of(g).services
                  /\ Of(g)'.selector = Of(g).selector
                  /\ Of(g)'.addresses = Of(g).addresses

LEMMA Undisturbed ==
  ASSUME NEW g, GatewayInv(g), SameCluster(g), SameWritten(g), SameRec(g)
  PROVE  GatewayInv(g)'
<1>1. SlicesAreApplied(g)'
  BY DEF GatewayInv, SlicesAreApplied, SameCluster, SameWritten, SameRec
<1>2. ListIsFresh(g)'
  BY DEF GatewayInv, ListIsFresh, SameCluster, SameRec
<1>3. AddressesAreFresh(g)'
  BY DEF GatewayInv, AddressesAreFresh, SameCluster, SameRec
<1>4. StatusIsApplied(g)'
  BY DEF GatewayInv, StatusIsApplied, SameCluster, SameWritten, SameRec
<1>5. WorkloadIsApplied(g)'
  BY DEF GatewayInv, WorkloadIsApplied, SameWritten, SameRec
<1>6. QED
  BY <1>1, <1>2, <1>3, <1>4, <1>5 DEF GatewayInv

LEMMA ClusterFrame ==
  ASSUME UNCHANGED cluster, NEW g
  PROVE  SameCluster(g)
BY DEF cluster, SameCluster, Owned, VipsOf, Selected

LEMMA WrittenFrame ==
  ASSUME UNCHANGED <<written, history>>, NEW g
  PROVE  SameWritten(g)
BY DEF written, history, SameWritten

LEMMA RecFrame ==
  ASSUME rec' = rec, NEW g
  PROVE  SameRec(g)
BY DEF SameRec, Busy, Of

LEMMA IInvInit == Init => IInv
<1> SUFFICES ASSUME Init PROVE IInv
  OBVIOUS
<1>1. Types
  BY TypesInit
<1>2. \A c \in Classes : rec[c] = NoOne
  BY DEF Init
<1>3. MovedAreQueued
  BY <1>2, NoOneIsOK DEF MovedAreQueued
<1>4. ASSUME NEW g \in Gateways PROVE GatewayInv(g)
  <2>1. ClassOf[g] \in Classes /\ g # None
    BY GatewayManagerAssumption
  <2>2. ~Busy(g)
    BY <1>2, <2>1, NoOneIsOK DEF Busy, Of
  <2>3. \A s \in Owned(g) : slices[s] = Selected(s)
    BY DEF Init, Owned
  <2>4. ToSet(status[g]) = VipsOf(g)
    <3>1. status[g] = CHOOSE o \in SetToSeqs(VipsOf(g)) : TRUE
      BY DEF Init
    <3>2. status[g] \in SetToSeqs(VipsOf(g))
      BY <3>1, VipsFinite, OrdersExist
    <3>3. QED
      BY <3>2, VipsFinite, ToSetLemma
  <2>5. workload[g] # "none"
    BY DEF Init
  <2>6. QED
    BY <2>2, <2>3, <2>4, <2>5
       DEF GatewayInv, SlicesAreApplied, ListIsFresh, AddressesAreFresh, StatusIsApplied,
           WorkloadIsApplied
<1>5. QED
  BY <1>1, <1>3, <1>4 DEF IInv, Types, ClusterOK

(* What a step does to the reconciliations and to the queue, for           *)
(* MovedAreQueued to stay.                                                 *)
MovedFrame ==
    /\ queue \subseteq queue' /\ exists' \subseteq exists \cup queue'
    /\ \A s \in Services : owner'[s] = owner[s] \/ owner'[s] \in queue'
    /\ \A c \in Classes : \/ rec'[c].services = {}
                          \/ \A s \in rec'[c].services : owner'[s] = rec'[c].gw
                          \/ rec'[c].services = rec[c].services /\ rec'[c].gw = rec[c].gw

LEMMA MovedStays ==
  ASSUME Types, MovedAreQueued, MovedFrame
  PROVE  MovedAreQueued'
<1>1. ASSUME NEW c \in Classes, NEW s \in rec'[c].services
      PROVE  owner'[s] = rec'[c].gw \/ owner'[s] \in queue' \/ owner'[s] \notin exists'
  <2>1. CASE owner'[s] = rec'[c].gw
    BY <2>1
  <2>2. CASE rec'[c].services = rec[c].services /\ rec'[c].gw = rec[c].gw
    <3>1. s \in rec[c].services /\ s \in Services
      BY <1>1, <2>2 DEF Types, RecsOK, Recs
    <3>2. owner[s] = rec[c].gw \/ owner[s] \in queue \/ owner[s] \notin exists
      BY <3>1 DEF MovedAreQueued
    <3>3. QED
      BY <2>2, <3>1, <3>2 DEF MovedFrame
  <2>3. QED
    BY <1>1, <2>1, <2>2 DEF MovedFrame
<1>2. QED
  BY <1>1 DEF MovedAreQueued

LEMMA MovedReconcile ==
  ASSUME Types, MovedAreQueued, NEW c \in Classes, Reconcile(c)
  PROVE  MovedAreQueued'
<1>0. rec \in [Classes -> Recs] /\ RecOK(c)
  BY DEF Types, RecsOK
<1>1. ASSUME NEW r, Step(c, r), UNCHANGED cluster, queue \subseteq queue',
             \/ r.services = {}
             \/ \A s \in r.services : owner[s] = r.gw
             \/ r.services = rec[c].services /\ r.gw = rec[c].gw
      PROVE  MovedAreQueued'
  <2>1. rec'[c] = r /\ \A d \in Classes \ {c} : rec'[d] = rec[d]
    BY <1>0, <1>1 DEF Step
  <2>2. MovedFrame
    BY <1>1, <2>1 DEF MovedFrame, cluster
  <2>3. QED
    BY <2>2, MovedStays
<1>2. ASSUME NEW g \in Gateways, ClassOf[g] = c, GetGateway(g)
      PROVE  MovedAreQueued'
  <2>1. ASSUME NEW d \in Classes, NEW s \in rec'[d].services
        PROVE  owner'[s] = rec'[d].gw \/ owner'[s] \in queue' \/ owner'[s] \notin exists'
    <3>1. owner' = owner /\ exists' = exists /\ queue' = queue \ {g}
      BY <1>2 DEF GetGateway, cluster
    <3>2. CASE d = c
      <4>1. rec[c].services = {}
        BY <1>0, <1>2, NoOneIsOK DEF RecOK, At, GetGateway
      <4>2. rec'[c].services = {}
        <5>1. [NoOne EXCEPT !.pc = "workload", !.gw = g].services = {}
          BY DEF NoOne
        <5>2. QED
          BY <1>0, <1>2, <4>1, <5>1 DEF GetGateway, Step
      <4>3. QED
        BY <2>1, <3>2, <4>2
    <3>3. CASE d # c
      <4>1. rec'[d] = rec[d]
        BY <1>0, <1>2, <3>3 DEF GetGateway, Step
      <4>2. ClassOf[owner[s]] = d
        BY <2>1, <4>1 DEF Types, RecsOK, RecOK
      <4>3. owner[s] # g
        BY <1>2, <3>3, <4>2
      <4>4. QED
        BY <2>1, <3>1, <4>1, <4>3 DEF MovedAreQueued
    <3>4. QED
      BY <3>2, <3>3
  <2>2. QED
    BY <2>1 DEF MovedAreQueued
<1>3. ASSUME c = "stateless", ReconcileDeployment
      PROVE  MovedAreQueued'
  <2>1. [rec[c] EXCEPT !.pc = "list"].services = rec[c].services
        /\ [rec[c] EXCEPT !.pc = "list"].gw = rec[c].gw
    BY <1>0 DEF Recs
  <2>2. QED
    BY <1>1, <1>3, <2>1 DEF ReconcileDeployment
<1>4. ASSUME c = "kpng", ReconcileDaemonSet
      PROVE  MovedAreQueued'
  <2>1. [rec[c] EXCEPT !.pc = "list"].services = rec[c].services
        /\ [rec[c] EXCEPT !.pc = "list"].gw = rec[c].gw
    BY <1>0 DEF Recs
  <2>2. queue \subseteq queue'
    BY <1>4 DEF ReconcileDaemonSet, Enqueue
  <2>3. QED
    BY <1>1, <1>4, <2>1, <2>2 DEF ReconcileDaemonSet
<1>5. ASSUME ListServices(c)
      PROVE  MovedAreQueued'
  <2> DEFINE these == Owned(rec[c].gw)
             r == [rec[c] EXCEPT !.pc = "services", !.todo = these,
                                 !.services = these, !.selector = selector]
  <2>1. \A s \in these : owner[s] = rec[c].gw
    BY DEF Owned
  <2>2. Step(c, r) /\ UNCHANGED cluster /\ queue' = queue
    BY <1>5 DEF ListServices
  <2> HIDE DEF these
  <2>3. r.services = these /\ r.gw = rec[c].gw
    BY <1>0 DEF Recs
  <2> HIDE DEF r
  <2>4. QED
    BY <1>1, <2>1, <2>2, <2>3
<1>6. ASSUME NEW s \in Services, ReconcileService(c, s)
      PROVE  MovedAreQueued'
  <2>1. [rec[c] EXCEPT !.todo = @ \ {s}].services = rec[c].services
        /\ [rec[c] EXCEPT !.todo = @ \ {s}].gw = rec[c].gw
    BY <1>0 DEF Recs
  <2>2. QED
    BY <1>1, <1>6, <2>1 DEF ReconcileService
<1>7. ASSUME NEW o \in AllOrders, ListAddresses(c, o)
      PROVE  MovedAreQueued'
  <2>1. [rec[c] EXCEPT !.pc = "status", !.addresses = o].services = rec[c].services
        /\ [rec[c] EXCEPT !.pc = "status", !.addresses = o].gw = rec[c].gw
    BY <1>0 DEF Recs
  <2>2. QED
    BY <1>1, <1>7, <2>1 DEF ListAddresses
<1>8. ASSUME UpdateStatus(c)
      PROVE  MovedAreQueued'
  <2>1. queue \subseteq queue'
    BY <1>8 DEF UpdateStatus, Enqueue
  <2>2. QED
    BY <1>1, <1>8, <2>1, NoOneIsOK DEF UpdateStatus
<1>9. QED
  BY <1>2, <1>3, <1>4, <1>5, <1>6, <1>7, <1>8 DEF Reconcile

LEMMA MovedStep == IInv /\ [Next]_vars => MovedAreQueued'
<1> SUFFICES ASSUME IInv, [Next]_vars PROVE MovedAreQueued'
  OBVIOUS
<1>0. Types /\ MovedAreQueued
  BY DEF IInv
<1>1. ASSUME NEW g \in Gateways, GatewayComes(g) \/ WorkloadGoes(g)
      PROVE  MovedAreQueued'
  <2>1. MovedFrame
    BY <1>1, GatewayManagerAssumption
       DEF MovedFrame, GatewayComes, WorkloadGoes, WorkloadEvent, Enqueue
  <2>2. QED
    BY <1>0, <2>1, MovedStays
<1>2. ASSUME NEW g \in Gateways, GatewayGoes(g)
      PROVE  MovedAreQueued'
  <2>1. ASSUME NEW c \in Classes
        PROVE  rec'[c].services = rec[c].services /\ rec'[c].gw = rec[c].gw
    <3>1. rec[c] \in Recs
      BY <1>0 DEF Types, RecsOK
    <3>2. rec'[c] = IF rec[c].gw = g THEN [rec[c] EXCEPT !.stale = TRUE] ELSE rec[c]
      BY <1>2 DEF GatewayGoes, Outdate
    <3>3. QED
      BY <3>1, <3>2 DEF Recs
  <2>2. queue \subseteq queue' /\ exists' \subseteq exists /\ owner' = owner
    BY <1>2 DEF GatewayGoes, Enqueue
  <2>3. MovedFrame
    BY <2>1, <2>2 DEF MovedFrame
  <2>4. QED
    BY <1>0, <2>3, MovedStays
<1>3. ASSUME NEW s \in Services, ServiceMoves(s)
      PROVE  MovedAreQueued'
  <2>1. PICK g \in OwnersOf[s] \ {owner[s]} :
            owner' = [owner EXCEPT ![s] = g] /\ Enqueue({owner[s], g})
    BY <1>3 DEF ServiceMoves
  <2>2. g \in Gateways
    BY <2>1, GatewayManagerAssumption
  <2>3. MovedFrame
    BY <1>0, <1>3, <2>1, <2>2 DEF MovedFrame, ServiceMoves, Enqueue, Types, ClusterOK
  <2>4. QED
    BY <1>0, <2>3, MovedStays
<1>4. ASSUME \/ \E s \in Services : SelectorChanges(s)
             \/ \E p \in Pods : PodChanges(p)
             \/ \E r \in Routes : RouteMoves(r)
      PROVE  MovedAreQueued'
  <2>1. MovedFrame
    BY <1>4 DEF MovedFrame, SelectorChanges, PodChanges, RouteMoves, Enqueue
  <2>2. QED
    BY <1>0, <2>1, MovedStays
<1>5. ASSUME NEW c \in Classes, Reconcile(c)
      PROVE  MovedAreQueued'
  BY <1>0, <1>5, MovedReconcile
<1>6. ASSUME \/ \E c \in Classes : ReconcileFails(c)
             \/ ListRoutesFails
      PROVE  MovedAreQueued'
  <2>1. UNCHANGED cluster /\ queue \subseteq queue'
    BY <1>6 DEF ReconcileFails, ListRoutesFails, Enqueue
  <2>2. \A c \in Classes : rec'[c] = NoOne \/ rec'[c] = rec[c]
    BY <1>0, <1>6 DEF Types, RecsOK, ReconcileFails, ListRoutesFails, Step, Classes
  <2>3. MovedFrame
    BY <2>1, <2>2, NoOneIsOK DEF MovedFrame, cluster
  <2>4. QED
    BY <1>0, <2>3, MovedStays
<1>7. CASE UNCHANGED vars
  BY <1>7 DEF IInv, MovedAreQueued, vars, cluster
<1>8. QED
  BY <1>1, <1>2, <1>3, <1>4, <1>5, <1>6, <1>7 DEF Next

(* Whatever changes in the cluster queues the gateways it is about, or they *)
(* have missed it.                                                         *)
LEMMA EventsQueue ==
  ASSUME IInv, NEW h \in exists' \ queue', NEW g \in Gateways,
         GatewayComes(g) \/ GatewayGoes(g) \/ WorkloadGoes(g)
  PROVE  GatewayInv(h)'
<1>1. g \in queue' \/ (WorkloadGoes(g) /\ ClassOf[g] # "kpng")
  BY DEF GatewayComes, GatewayGoes, WorkloadGoes, WorkloadEvent, Enqueue
<1>2. queue \subseteq queue' /\ exists' \subseteq exists \cup queue'
  BY DEF GatewayComes, GatewayGoes, WorkloadGoes, WorkloadEvent, Enqueue
<1>3. h \in exists \ queue /\ h \in Gateways
  BY <1>2 DEF IInv, Types, ClusterOK
<1>4. GatewayInv(h)
  BY <1>3 DEF IInv
<1>5. SameCluster(h)
  <2>1. UNCHANGED <<owner, selector, label, parent>>
    BY DEF GatewayComes, GatewayGoes, WorkloadGoes
  <2>2. QED
    BY <2>1 DEF SameCluster, Owned, VipsOf, Selected
<1>6. SameRec(h)
  <2>1. CASE rec' = rec
    BY <2>1, RecFrame
  <2>2. CASE GatewayGoes(g)
    <3>1. Of(h) \in Recs /\ ClassOf[h] \in Classes
      BY <1>3, GatewayManagerAssumption DEF Of, IInv, Types, RecsOK
    <3>2. Of(h)' = IF Of(h).gw = g THEN [Of(h) EXCEPT !.stale = TRUE] ELSE Of(h)
      BY <2>2, <3>1 DEF Of, GatewayGoes, Outdate
    <3>3. QED
      BY <3>1, <3>2 DEF SameRec, Busy, Recs
  <2>3. QED
    BY <2>1, <2>2 DEF GatewayComes, WorkloadGoes
<1>7. SameWritten(h)
  <2>1. CASE g = h
    BY <1>1, <2>1, <1>3 DEF SameWritten, WorkloadGoes
  <2>2. CASE g # h
    <3>1. status'[h] = status[h] /\ workload'[h] = workload[h]
      BY <1>3, <2>2
         DEF IInv, Types, WrittenOK, GatewayComes, GatewayGoes, WorkloadGoes, written
    <3>2. UNCHANGED <<slices, dropped, missed>> /\ removed \subseteq removed'
      BY DEF GatewayComes, GatewayGoes, WorkloadGoes, written, history
    <3>3. QED
      BY <3>1, <3>2 DEF SameWritten
  <2>3. QED
    BY <2>1, <2>2
<1>8. QED
  BY <1>4, <1>5, <1>6, <1>7, Undisturbed

LEMMA ChangesQueue ==
  ASSUME IInv, NEW h \in exists' \ queue',
         \/ \E s \in Services : ServiceMoves(s) \/ SelectorChanges(s)
         \/ \E p \in Pods : PodChanges(p)
         \/ \E r \in Routes : RouteMoves(r)
  PROVE  GatewayInv(h)'
<1>1. /\ queue \subseteq queue' /\ exists' = exists
      /\ UNCHANGED <<written, removed, dropped>> /\ rec' = rec /\ missed \subseteq missed'
  BY DEF ServiceMoves, SelectorChanges, PodChanges, RouteMoves, Enqueue, EventLost, history
<1>2. h \in exists \ queue /\ h \in Gateways
  BY <1>1 DEF IInv, Types, ClusterOK
<1>3. GatewayInv(h) /\ ClusterOK
  BY <1>2 DEF IInv, Types
<1>4. ASSUME SameCluster(h) PROVE GatewayInv(h)'
  <2>1. SameWritten(h)
    BY <1>1 DEF SameWritten, written
  <2>2. QED
    BY <1>1, <1>3, <1>4, <2>1, RecFrame, Undisturbed
<1>5. ASSUME NEW s \in Services, ServiceMoves(s)
      PROVE  SameCluster(h)
  <2>1. PICK g \in OwnersOf[s] \ {owner[s]} :
            owner' = [owner EXCEPT ![s] = g] /\ Enqueue({owner[s], g})
    BY <1>5 DEF ServiceMoves
  <2>2. g \in Gateways /\ owner[s] \in Gateways
    BY <1>3, <2>1, GatewayManagerAssumption DEF ClusterOK
  <2>3. h # g /\ h # owner[s]
    BY <2>1, <2>2 DEF Enqueue
  <2>4. Owned(h)' = Owned(h)
    BY <1>3, <2>1, <2>3 DEF Owned, ClusterOK
  <2>5. UNCHANGED <<selector, label, parent>>
    BY <1>5 DEF ServiceMoves
  <2>6. QED
    BY <2>4, <2>5 DEF SameCluster, VipsOf, Selected
<1>6. ASSUME NEW s \in Services, SelectorChanges(s)
      PROVE  SameCluster(h)
  <2>1. PICK l \in Labels \ {selector[s]} : selector' = [selector EXCEPT ![s] = l]
    BY <1>6 DEF SelectorChanges
  <2>2. h # owner[s]
    BY <1>2, <1>6 DEF SelectorChanges, Enqueue
  <2>3. \A t \in Owned(h) : selector'[t] = selector[t]
    BY <1>3, <2>1, <2>2 DEF Owned, ClusterOK
  <2>4. UNCHANGED <<owner, label, parent>>
    BY <1>6 DEF SelectorChanges
  <2>5. QED
    BY <2>3, <2>4 DEF SameCluster, Owned, VipsOf, Selected
<1>7. ASSUME NEW p \in Pods, PodChanges(p)
      PROVE  GatewayInv(h)'
  <2>1. PICK l \in (Labels \cup {None}) \ {label[p]} :
            /\ label' = [label EXCEPT ![p] = l]
            /\ h \in PodEnqueue(label[p]) \cup PodEnqueue(l) => h \in missed'
    BY <1>2, <1>7 DEF PodChanges, Enqueue, EventLost
  <2>2. UNCHANGED <<owner, selector, parent>>
    BY <1>7 DEF PodChanges
  <2>3. CASE h \in missed'
    <3>1. /\ Owned(h)' = Owned(h) /\ VipsOf(h)' = VipsOf(h)
          /\ Busy(h)' = Busy(h) /\ Of(h)' = Of(h)
      BY <1>1, <2>2 DEF Owned, VipsOf, Busy, Of
    <3>2. SlicesAreApplied(h)'
      BY <2>3 DEF SlicesAreApplied
    <3>3. ListIsFresh(h)' /\ AddressesAreFresh(h)'
      BY <1>3, <2>2, <3>1 DEF GatewayInv, ListIsFresh, AddressesAreFresh
    <3>4. StatusIsApplied(h)' /\ WorkloadIsApplied(h)'
      BY <1>1, <1>3, <3>1 DEF GatewayInv, StatusIsApplied, WorkloadIsApplied, written
    <3>5. QED
      BY <3>2, <3>3, <3>4 DEF GatewayInv
  <2>4. CASE h \notin missed'
    <3>1. \A s \in Owned(h) : selector[s] # label[p] /\ selector[s] # l
      BY <1>2, <2>1, <2>4 DEF Owned, PodEnqueue
    <3>2. \A s \in Owned(h) : Selected(s)' = Selected(s)
      BY <1>3, <2>1, <2>2, <3>1 DEF Selected, ClusterOK
    <3>3. QED
      BY <1>4, <2>2, <3>2 DEF SameCluster, Owned, VipsOf
  <2>5. QED
    BY <2>3, <2>4
<1>8. ASSUME NEW r \in Routes, RouteMoves(r)
      PROVE  SameCluster(h)
  <2>1. PICK g \in {k \in Gateways : ClassOf[k] = "stateless"} \ {parent[r]} :
            parent' = [parent EXCEPT ![r] = g] /\ Enqueue({parent[r], g})
    BY <1>8 DEF RouteMoves
  <2>2. h # g /\ h # parent[r]
    BY <1>2, <2>1 DEF Enqueue
  <2>3. {t \in Routes : parent'[t] = h} = {t \in Routes : parent[t] = h}
    BY <1>3, <2>1, <2>2 DEF ClusterOK
  <2>4. UNCHANGED <<owner, selector, label>>
    BY <1>8 DEF RouteMoves
  <2>5. QED
    BY <2>3, <2>4 DEF SameCluster, Owned, VipsOf, Selected
<1>9. QED
  BY <1>4, <1>5, <1>6, <1>7, <1>8

(* A step of a controller that is at another gateway. *)
LEMMA AnotherGateway ==
  ASSUME Types, NEW h \in Gateways, GatewayInv(h), UNCHANGED cluster, SameWritten(h),
         NEW c \in Classes, NEW r, Step(c, r), rec[c].gw # h, r.gw # h
  PROVE  GatewayInv(h)'
<1>1. rec'[c] = r /\ (ClassOf[h] # c => rec'[ClassOf[h]] = rec[ClassOf[h]])
  BY GatewayManagerAssumption DEF Types, RecsOK, Step
<1>2. SameRec(h)
  <2>1. CASE ClassOf[h] = c
    BY <1>1, <2>1 DEF SameRec, Busy, Of
  <2>2. CASE ClassOf[h] # c
    BY <1>1, <2>2 DEF SameRec, Busy, Of
  <2>3. QED
    BY <2>1, <2>2
<1>3. QED
  BY <1>2, ClusterFrame, Undisturbed

(* A controller begins with a gateway that nothing queues any more. *)
LEMMA AppliedGetGateway ==
  ASSUME IInv, NEW h \in exists' \ queue', NEW g \in Gateways, GetGateway(g)
  PROVE  GatewayInv(h)'
<1> DEFINE c == ClassOf[g]
           r == [NoOne EXCEPT !.pc = "workload", !.gw = g]
<1>0. /\ Types /\ h \in Gateways /\ h \in exists /\ c \in Classes /\ g # None /\ h # None
      /\ UNCHANGED <<cluster, written, history>>
  BY GatewayManagerAssumption DEF IInv, Types, ClusterOK, GetGateway, cluster
<1>1. rec[c] = NoOne
  BY <1>0 DEF Types, RecsOK, RecOK, At, GetGateway
<1>2. CASE h # g
  <2>1. h \notin queue
    BY <1>2 DEF GetGateway
  <2>2. GatewayInv(h)
    BY <1>0, <2>1 DEF IInv
  <2>3. SameWritten(h)
    BY <1>0, WrittenFrame
  <2>4. r.gw = g
    BY DEF NoOne
  <2>5. CASE g \in exists
    <3>1. Step(c, r)
      BY <2>5 DEF GetGateway
    <3> HIDE DEF c, r
    <3>2. QED
      BY <1>0, <1>1, <1>2, <2>2, <2>3, <2>4, <3>1, NoOneIsOK, AnotherGateway
  <2>6. CASE g \notin exists
    <3>1. SameRec(h)
      BY <2>6, RecFrame DEF GetGateway
    <3>2. QED
      BY <1>0, <2>2, <2>3, <3>1, ClusterFrame, Undisturbed
  <2>7. QED
    BY <2>5, <2>6
<1>3. CASE h = g
  <2>1. rec'[c] = r
    BY <1>0, <1>3 DEF GetGateway, Step, Types, RecsOK
  <2>2. r.pc = "workload" /\ r.gw = h
    BY <1>3 DEF NoOne
  <2> HIDE DEF r
  <2>3. Of(h)'.pc = "workload" /\ Busy(h)'
    BY <1>3, <2>1, <2>2 DEF Of, Busy
  <2>4. QED
    BY <2>3
       DEF GatewayInv, SlicesAreApplied, ListIsFresh, AddressesAreFresh, StatusIsApplied,
           WorkloadIsApplied
<1>4. QED
  BY <1>2, <1>3

(* A step of a reconciliation, at the gateway itself: what stays of it. *)
AtOwn(h, c, r) ==
    /\ Types /\ GatewayInv(h) /\ h \in Gateways /\ c \in Classes
    /\ UNCHANGED cluster /\ Step(c, r)
    /\ rec[c].gw = h /\ ClassOf[h] = c /\ rec[c].pc # "idle"

LEMMA OwnStep ==
  ASSUME NEW h, NEW c, NEW r, AtOwn(h, c, r)
  PROVE  /\ Busy(h) /\ Of(h) = rec[c] /\ Of(h)' = r /\ SameCluster(h)
         /\ Busy(h)' <=> r.gw = h
BY ClusterFrame DEF AtOwn, Busy, Of, Step, Types, RecsOK

LEMMA AppliedWorkload ==
  ASSUME IInv, NEW h \in exists' \ queue',
         ReconcileDeployment \/ ReconcileDaemonSet
  PROVE  GatewayInv(h)'
<1>1. PICK c \in Classes :
        /\ (c = "stateless" /\ ReconcileDeployment) \/ (c = "kpng" /\ ReconcileDaemonSet)
        /\ rec[c].pc = "workload" /\ Step(c, [rec[c] EXCEPT !.pc = "list"])
  BY DEF Classes, ReconcileDeployment, ReconcileDaemonSet, At
<1> DEFINE r == [rec[c] EXCEPT !.pc = "list"]
<1>2. /\ UNCHANGED <<cluster, slices, status, dropped, missed>>
      /\ queue \subseteq queue' /\ exists' = exists
  BY DEF ReconcileDeployment, ReconcileDaemonSet, cluster, history, Enqueue
<1>3. h \in Gateways /\ h \in exists \ queue /\ GatewayInv(h) /\ Types /\ rec[c] \in Recs
      /\ RecOK(c) /\ WrittenOK
  BY <1>2 DEF IInv, Types, ClusterOK, RecsOK
<1>4. r.pc = "list" /\ r.gw = rec[c].gw /\ rec[c].gw \in Gateways
      /\ ClassOf[rec[c].gw] = c
  BY <1>1, <1>3 DEF Recs, RecOK, At
<1>5. /\ rec[c].gw # h => workload'[h] = workload[h]
      /\ rec[c].gw # h => (h \in removed => h \in removed')
      /\ rec[c].gw = h => workload'[h] # "none"
  BY <1>1, <1>3, <1>4 DEF ReconcileDeployment, ReconcileDaemonSet, Made, WrittenOK, history
<1>6. CASE rec[c].gw # h
  <2>1. SameWritten(h)
    BY <1>2, <1>5, <1>6 DEF SameWritten
  <2> HIDE DEF r
  <2>2. QED
    BY <1>1, <1>2, <1>3, <1>4, <1>6, <2>1, AnotherGateway DEF r
<1>7. CASE rec[c].gw = h
  <2>1. AtOwn(h, c, r)
    BY <1>1, <1>2, <1>3, <1>4, <1>7 DEF AtOwn
  <2> HIDE DEF r
  <2>2. Busy(h)' /\ Of(h)'.pc = "list"
    BY <1>4, <1>7, <2>1, OwnStep
  <2>3. QED
    BY <1>5, <1>7, <2>2
       DEF GatewayInv, SlicesAreApplied, ListIsFresh, AddressesAreFresh, StatusIsApplied,
           WorkloadIsApplied
<1>8. QED
  BY <1>6, <1>7

LEMMA AppliedListServices ==
  ASSUME IInv, NEW h \in exists' \ queue', NEW c \in Classes, ListServices(c)
  PROVE  GatewayInv(h)'
<1> DEFINE these == Owned(rec[c].gw)
           r == [rec[c] EXCEPT !.pc = "services", !.todo = these,
                               !.services = these, !.selector = selector]
<1>1. /\ UNCHANGED <<cluster, written, queue, removed, dropped>> /\ Step(c, r)
      /\ rec[c].pc = "list" /\ missed' = missed \ {rec[c].gw}
  BY DEF ListServices, At
<1>2. h \in Gateways /\ h \in exists \ queue /\ GatewayInv(h) /\ Types /\ rec[c] \in Recs
      /\ RecOK(c)
  BY <1>1 DEF IInv, Types, ClusterOK, RecsOK, cluster
<1> HIDE DEF these
<1>3. r.pc = "services" /\ r.gw = rec[c].gw /\ r.todo = these /\ r.services = these
      /\ r.selector = selector /\ ClassOf[rec[c].gw] = c
  BY <1>1, <1>2 DEF Recs, RecOK, At
<1> HIDE DEF r
<1>4. CASE rec[c].gw # h
  <2>1. SameWritten(h)
    BY <1>1, <1>4 DEF SameWritten, written
  <2>2. QED
    BY <1>1, <1>2, <1>3, <1>4, <2>1, AnotherGateway
<1>5. CASE rec[c].gw = h
  <2>1. AtOwn(h, c, r)
    BY <1>1, <1>2, <1>3, <1>5 DEF AtOwn
  <2>2. Busy(h) /\ Of(h) = rec[c] /\ Of(h)' = r /\ SameCluster(h) /\ Busy(h)'
    BY <1>3, <1>5, <2>1, OwnStep
  <2>3. these = Owned(h) /\ Owned(h)' = Owned(h)
    BY <1>5, <2>2 DEF these, SameCluster
  <2>4. SlicesAreApplied(h)'
    BY <1>3, <2>2, <2>3 DEF SlicesAreApplied
  <2>5. ListIsFresh(h)'
    BY <1>1, <1>3, <2>2, <2>3 DEF ListIsFresh, cluster
  <2>6. AddressesAreFresh(h)' /\ StatusIsApplied(h)'
    BY <1>3, <2>2 DEF AddressesAreFresh, StatusIsApplied
  <2>7. WorkloadIsApplied(h)'
    BY <1>1, <1>2, <2>2 DEF GatewayInv, WorkloadIsApplied, written
  <2>8. QED
    BY <2>4, <2>5, <2>6, <2>7 DEF GatewayInv
<1>6. QED
  BY <1>4, <1>5

LEMMA AppliedReconcileService ==
  ASSUME IInv, NEW h \in exists' \ queue', NEW c \in Classes, NEW s \in Services,
         ReconcileService(c, s)
  PROVE  GatewayInv(h)'
<1> DEFINE r == [rec[c] EXCEPT !.todo = @ \ {s}]
<1>1. /\ UNCHANGED <<cluster, workload, status, queue, history>> /\ Step(c, r)
      /\ rec[c].pc = "services" /\ s \in rec[c].todo
      /\ slices' = [slices EXCEPT ![s] = {p \in Pods : label[p] = rec[c].selector[s]}]
  BY DEF ReconcileService, At
<1>2. h \in Gateways /\ h \in exists \ queue /\ GatewayInv(h) /\ Types /\ rec[c] \in Recs
      /\ RecOK(c) /\ WrittenOK
  BY <1>1 DEF IInv, Types, ClusterOK, RecsOK, cluster
<1>3. r.pc = "services" /\ r.gw = rec[c].gw /\ r.todo = rec[c].todo \ {s}
      /\ r.services = rec[c].services /\ r.selector = rec[c].selector
      /\ ClassOf[rec[c].gw] = c /\ s \in rec[c].services
  BY <1>1, <1>2 DEF Recs, RecOK, At
<1> HIDE DEF r
<1>4. CASE rec[c].gw # h
  <2>1. owner[s] # h
    BY <1>2, <1>3, <1>4 DEF IInv, MovedAreQueued
  <2>2. \A t \in Owned(h) : slices'[t] = slices[t]
    BY <1>1, <1>2, <2>1 DEF Owned, WrittenOK
  <2>3. SameWritten(h)
    BY <1>1, <2>2 DEF SameWritten, history
  <2>4. QED
    BY <1>1, <1>2, <1>3, <1>4, <2>3, AnotherGateway
<1>5. CASE rec[c].gw = h
  <2>1. AtOwn(h, c, r)
    BY <1>1, <1>2, <1>3, <1>5 DEF AtOwn
  <2>2. Busy(h) /\ Of(h) = rec[c] /\ Of(h)' = r /\ SameCluster(h) /\ Busy(h)'
    BY <1>3, <1>5, <2>1, OwnStep
  <2>3. rec[c].services = Owned(h) /\ \A t \in Owned(h) : rec[c].selector[t] = selector[t]
    BY <1>1, <1>2, <2>2 DEF GatewayInv, ListIsFresh
  <2>4. slices'[s] = Selected(s)
    BY <1>1, <1>2, <1>3, <2>3 DEF Selected, WrittenOK
  <2>5. SlicesAreApplied(h)'
    <3>1. ASSUME NEW t \in Owned(h), h \notin missed
          PROVE  slices'[t] = Selected(t) \/ t \in r.todo
      <4>1. CASE t = s
        BY <2>4, <4>1
      <4>2. CASE t # s
        <5>1. slices'[t] = slices[t]
          BY <1>1, <1>2, <4>2 DEF WrittenOK, Owned
        <5>2. slices[t] = Selected(t) \/ t \in rec[c].todo
          BY <1>1, <1>2, <2>2, <3>1 DEF GatewayInv, SlicesAreApplied
        <5>3. QED
          BY <1>3, <4>2, <5>1, <5>2
      <4>3. QED
        BY <4>1, <4>2
    <3>2. QED
      BY <1>1, <1>3, <2>2, <3>1 DEF SlicesAreApplied, SameCluster, history
  <2>6. ListIsFresh(h)'
    BY <1>3, <2>2, <2>3 DEF ListIsFresh, SameCluster
  <2>7. AddressesAreFresh(h)' /\ StatusIsApplied(h)'
    BY <1>3, <2>2 DEF AddressesAreFresh, StatusIsApplied
  <2>8. WorkloadIsApplied(h)'
    BY <1>1, <1>2, <2>2 DEF GatewayInv, WorkloadIsApplied, history
  <2>9. QED
    BY <2>5, <2>6, <2>7, <2>8 DEF GatewayInv
<1>6. QED
  BY <1>4, <1>5

LEMMA AppliedListAddresses ==
  ASSUME IInv, NEW h \in exists' \ queue', NEW c \in Classes, NEW o, ListAddresses(c, o)
  PROVE  GatewayInv(h)'
<1> DEFINE r == [rec[c] EXCEPT !.pc = "status", !.addresses = o]
<1>1. /\ UNCHANGED <<cluster, written, queue, history>> /\ Step(c, r)
      /\ rec[c].pc = "services" /\ rec[c].todo = {} /\ o \in SetToSeqs(VipsListed(c))
  BY DEF ListAddresses, At
<1>2. h \in Gateways /\ h \in exists \ queue /\ GatewayInv(h) /\ Types /\ rec[c] \in Recs
      /\ RecOK(c)
  BY <1>1 DEF IInv, Types, ClusterOK, RecsOK, cluster
<1>3. r.pc = "status" /\ r.gw = rec[c].gw /\ r.addresses = o
      /\ r.todo = {} /\ r.services = rec[c].services /\ r.selector = rec[c].selector
      /\ ClassOf[rec[c].gw] = c
  BY <1>1, <1>2 DEF Recs, RecOK, At
<1> HIDE DEF r
<1>4. SameWritten(h)
  BY <1>1, WrittenFrame
<1>5. CASE rec[c].gw # h
  BY <1>1, <1>2, <1>3, <1>4, <1>5, AnotherGateway
<1>6. CASE rec[c].gw = h
  <2>1. AtOwn(h, c, r)
    BY <1>1, <1>2, <1>3, <1>6 DEF AtOwn
  <2>2. Busy(h) /\ Of(h) = rec[c] /\ Of(h)' = r /\ SameCluster(h) /\ Busy(h)'
    BY <1>3, <1>6, <2>1, OwnStep
  <2>3. rec[c].services = Owned(h) /\ \A t \in Owned(h) : rec[c].selector[t] = selector[t]
    BY <1>1, <1>2, <2>2 DEF GatewayInv, ListIsFresh
  <2>4. ToSet(o) = VipsOf(h)
    <3>1. VipsListed(c) = VipsOf(h)
      BY <1>3, <1>6, <2>3 DEF VipsListed, VipsOf
    <3>2. QED
      BY <1>1, <1>2, <3>1, VipsFinite, ToSetLemma
  <2>5. SlicesAreApplied(h)'
    BY <1>1, <1>2, <1>4, <2>2
       DEF GatewayInv, SlicesAreApplied, SameCluster, SameWritten
  <2>6. ListIsFresh(h)'
    BY <1>3, <2>2, <2>3 DEF ListIsFresh, SameCluster
  <2>7. AddressesAreFresh(h)' /\ StatusIsApplied(h)'
    BY <1>3, <2>2, <2>4 DEF AddressesAreFresh, StatusIsApplied, SameCluster
  <2>8. WorkloadIsApplied(h)'
    BY <1>1, <1>2, <1>4, <2>2 DEF GatewayInv, WorkloadIsApplied, SameWritten
  <2>9. QED
    BY <2>5, <2>6, <2>7, <2>8 DEF GatewayInv
<1>7. QED
  BY <1>5, <1>6

(* The controller leaves a gateway, applied or queued once more. *)
LEMMA AppliedUpdateStatus ==
  ASSUME IInv, NEW h \in exists' \ queue', NEW c \in Classes, UpdateStatus(c)
  PROVE  GatewayInv(h)'
<1>1. /\ UNCHANGED <<cluster, workload, slices, removed, missed>> /\ Step(c, NoOne)
      /\ rec[c].pc = "status"
      /\ queue \subseteq queue'
  BY DEF UpdateStatus, At, Enqueue
<1>2. h \in Gateways /\ h \in exists \ queue /\ GatewayInv(h) /\ Types /\ rec[c] \in Recs
      /\ RecOK(c) /\ WrittenOK
  BY <1>1 DEF IInv, Types, ClusterOK, RecsOK, cluster
<1>3. rec[c].gw \in Gateways /\ ClassOf[rec[c].gw] = c /\ h # None /\ rec[c].todo = {}
  BY <1>1, <1>2, GatewayManagerAssumption DEF RecOK, At
<1>4. CASE rec[c].gw # h
  <2>1. status'[h] = status[h] /\ (h \in dropped => h \in dropped')
    BY <1>2, <1>4 DEF UpdateStatus, WrittenOK
  <2>2. SameWritten(h)
    BY <1>1, <2>1 DEF SameWritten
  <2>3. QED
    BY <1>1, <1>2, <1>3, <1>4, <2>2, NoOneIsOK, AnotherGateway
<1>5. CASE rec[c].gw = h
  <2>1. AtOwn(h, c, NoOne)
    BY <1>1, <1>2, <1>3, <1>5 DEF AtOwn
  <2>2. Busy(h) /\ Of(h) = rec[c] /\ SameCluster(h) /\ ~Busy(h)'
    BY <1>3, <2>1, OwnStep, NoOneIsOK
  <2>3. ~rec[c].stale /\ status'[h] = rec[c].addresses
    BY <1>2, <1>5 DEF UpdateStatus, Enqueue, WrittenOK
  <2>4. ToSet(rec[c].addresses) = VipsOf(h)
    BY <1>1, <1>2, <2>2 DEF GatewayInv, AddressesAreFresh
  <2>5. SlicesAreApplied(h)'
    BY <1>1, <1>2, <1>3, <2>2 DEF GatewayInv, SlicesAreApplied, SameCluster
  <2>6. ListIsFresh(h)' /\ AddressesAreFresh(h)'
    BY <2>2 DEF ListIsFresh, AddressesAreFresh
  <2>7. StatusIsApplied(h)'
    BY <2>2, <2>3, <2>4 DEF StatusIsApplied, SameCluster
  <2>8. WorkloadIsApplied(h)'
    BY <1>1, <1>2, <2>2 DEF GatewayInv, WorkloadIsApplied
  <2>9. QED
    BY <2>5, <2>6, <2>7, <2>8 DEF GatewayInv
<1>6. QED
  BY <1>4, <1>5

LEMMA AppliedFails ==
  ASSUME IInv, NEW h \in exists' \ queue',
         \/ \E c \in Classes : ReconcileFails(c)
         \/ ListRoutesFails
  PROVE  GatewayInv(h)'
<1>1. PICK c \in Classes :
        /\ \/ ReconcileFails(c)
           \/ c = "stateless" /\ ListRoutesFails
        /\ Step(c, NoOne) /\ rec[c].pc # "idle"
  BY DEF Classes, ReconcileFails, ListRoutesFails, At
<1>2. /\ UNCHANGED <<cluster, written, removed, missed>> /\ dropped \subseteq dropped'
      /\ queue \subseteq queue'
  BY DEF ReconcileFails, ListRoutesFails, history, Enqueue
<1>3. h \in Gateways /\ h \in exists \ queue /\ GatewayInv(h) /\ Types /\ rec[c] \in Recs
      /\ RecOK(c) /\ h # None
  BY <1>2, GatewayManagerAssumption DEF IInv, Types, ClusterOK, RecsOK, cluster
<1>4. SameWritten(h)
  BY <1>2 DEF SameWritten, written
<1>5. CASE rec[c].gw # h
  BY <1>1, <1>2, <1>3, <1>4, <1>5, NoOneIsOK, AnotherGateway
<1>6. CASE rec[c].gw = h
  <2>1. ListRoutesFails /\ rec[c].pc = "services" /\ rec[c].todo = {} /\ h \in dropped'
    BY <1>1, <1>3, <1>6 DEF ReconcileFails, ListRoutesFails, Enqueue, At
  <2>2. AtOwn(h, c, NoOne)
    BY <1>1, <1>2, <1>3, <1>6 DEF AtOwn, RecOK, At
  <2>3. Busy(h) /\ Of(h) = rec[c] /\ SameCluster(h) /\ ~Busy(h)'
    BY <1>3, <2>2, OwnStep, NoOneIsOK
  <2>4. SlicesAreApplied(h)'
    BY <1>3, <1>4, <2>1, <2>3
       DEF GatewayInv, SlicesAreApplied, SameCluster, SameWritten
  <2>5. ListIsFresh(h)' /\ AddressesAreFresh(h)' /\ StatusIsApplied(h)'
    BY <2>1, <2>3 DEF ListIsFresh, AddressesAreFresh, StatusIsApplied
  <2>6. WorkloadIsApplied(h)'
    BY <1>3, <1>4, <2>1, <2>3 DEF GatewayInv, WorkloadIsApplied, SameWritten
  <2>7. QED
    BY <2>4, <2>5, <2>6 DEF GatewayInv
<1>7. QED
  BY <1>5, <1>6

LEMMA IInvStep == IInv /\ [Next]_vars => IInv'
<1> SUFFICES ASSUME IInv, [Next]_vars PROVE IInv'
  OBVIOUS
<1>1. Types' /\ MovedAreQueued'
  BY TypesStep, MovedStep DEF IInv
<1>2. ASSUME NEW h \in exists' \ queue' PROVE GatewayInv(h)'
  <2>1. CASE \E c \in Classes : Reconcile(c)
    BY <2>1, AppliedGetGateway, AppliedWorkload, AppliedListServices,
       AppliedReconcileService, AppliedListAddresses, AppliedUpdateStatus DEF Reconcile
  <2>2. CASE UNCHANGED vars
    <3>1. h \in exists \ queue /\ UNCHANGED <<cluster, written, history>> /\ rec' = rec
      BY <2>2 DEF vars, cluster
    <3>2. QED
      BY <3>1, ClusterFrame, WrittenFrame, RecFrame, Undisturbed DEF IInv
  <2>3. QED
    BY <2>1, <2>2, EventsQueue, ChangesQueue, AppliedFails DEF Next
<1>3. QED
  BY <1>1, <1>2 DEF IInv

(* A gateway that is neither queued nor reconciled has the slices, the     *)
(* addresses and the workload it should have, whatever changed, whichever  *)
(* requests failed, and between whichever requests of a reconciliation; a  *)
(* lost event of a pod, a failed list of routes and a deployment that has  *)
(* gone are the exceptions (statelessloadbalancer/controllermanager,       *)
(* controllers/kpng).                                                      *)
THEOREM Settled == Spec => []SettledIsApplied
<1>1. IInv => SettledIsApplied
  <2> SUFFICES ASSUME IInv, NEW g \in exists \ queue, rec[ClassOf[g]].gw # g
               PROVE  AppliedTo(g)
    BY DEF SettledIsApplied
  <2>1. GatewayInv(g) /\ ~Busy(g)
    BY DEF IInv, Busy, Of
  <2>2. QED
    BY <2>1 DEF GatewayInv, AppliedTo, SlicesAreApplied, StatusIsApplied, WorkloadIsApplied
<1>2. QED
  BY <1>1, IInvInit, IInvStep, PTL DEF Spec
=============================================================================
