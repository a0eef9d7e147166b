------------------------- MODULE PodNetwork_proofs --------------------------
(***************************************************************************)
(* Proofs about PodNetwork, for any gateways with any lists of addresses,  *)
(* any number of changes and any number of failures.  What is said of the  *)
(* kernel is for gateways of one family each (SingleStack), and where      *)
(* calls may fail for gateways that share no address (OwnVips).  It rests  *)
(* on three facts: a whole file is kept of every attached element, and of  *)
(* no other until a call has failed (RuntimeOK), no two elements on record *)
(* have one table (IsList, OneTableEach), and what is attached has once    *)
(* been on record together (AttachedApart).                                *)
(***************************************************************************)
EXTENDS PodNetwork, FiniteSetTheorems, WellFoundedInduction, TLAPS

Elements ==
    {e \in [kind : {"vip", "policy-route"}, proxy : Gateways, vips : SUBSET Addresses,
            table : Nat, gateways : SUBSET Addresses] :
        /\ e.vips # {}
        /\ IsVip(e) => /\ e.table = 0 /\ e.gateways = {}
                       /\ \E vip \in AllVips(e.proxy) : e.vips = {vip}
        /\ IsPolicyRoute(e) => e.table >= FirstTable}
-----------------------------------------------------------------------------
(* Routing tables *)

LEMMA SmallestExists ==
  ASSUME NEW T \in SUBSET Nat, T # {}
  PROVE  \E x \in T : \A y \in T : x <= y
<1> DEFINE R == OpToRel(<, Nat)
<1>1. IsWellFoundedOn(R, Nat)
  BY NatLessThanWellFounded
<1>2. \A x, y \in Nat : <<y, x>> \in R <=> y < x
  BY DEF OpToRel
<1> HIDE DEF R
<1>3. PICK x \in T : \A y \in T : <<y, x>> \notin R
  BY <1>1, WFMin
<1>4. ASSUME NEW y \in T PROVE x <= y
  <2>1. x \in Nat /\ y \in Nat /\ ~(y < x)
    BY <1>2, <1>3, <1>4
  <2>2. QED
    BY <2>1
<1>5. QED
  BY <1>4

(* Of as many identifiers as there are in use, and one more, one is free. *)
LEMMA SomeIsFree ==
  ASSUME NEW used, IsFiniteSet(used)
  PROVE  \E t \in FirstTable .. FirstTable + Cardinality(used) : t \notin used
<1> DEFINE range == FirstTable .. FirstTable + Cardinality(used)
<1>1. Cardinality(used) \in Nat
  BY FS_CardinalityType
<1>2. Cardinality(range) = Cardinality(used) + 1
  BY <1>1, FS_Interval DEF FirstTable
<1> HIDE DEF range
<1>3. ASSUME range \subseteq used PROVE FALSE
  <2>1. Cardinality(range) <= Cardinality(used)
    BY <1>3, FS_Subset
  <2>2. QED
    BY <1>1, <1>2, <2>1
<1>4. QED
  BY <1>3 DEF range

LEMMA FreshTable ==
  ASSUME NEW elements, IsFiniteSet(UsedTableIDs(elements))
  PROVE  /\ FreeTableID(elements) \in Nat
         /\ FreeTableID(elements) >= FirstTable
         /\ FreeTableID(elements) \notin UsedTableIDs(elements)
<1> DEFINE used == UsedTableIDs(elements)
           free == {t \in FirstTable .. FirstTable + Cardinality(used) : t \notin used}
<1>1. free \in SUBSET Nat /\ free # {}
  BY SomeIsFree, FS_CardinalityType DEF FirstTable
<1>2. PICK t \in free : \A u \in free : t <= u
  BY <1>1, SmallestExists
<1>3. Cardinality(used) \in Nat
  BY FS_CardinalityType
<1>4. \A u \in FirstTable .. (t - 1) : u \in used
  BY <1>1, <1>2, <1>3 DEF FirstTable
<1>5. /\ FreeTableID(elements) \in FirstTable .. FirstTable + Cardinality(used)
      /\ FreeTableID(elements) \notin used
  BY <1>2, <1>4 DEF FreeTableID
<1>6. QED
  BY <1>3, <1>5 DEF FirstTable
-----------------------------------------------------------------------------
(* What the injector makes of an annotation *)

TablesApart(elements) ==
    \A e, f \in elements :
        IsPolicyRoute(e) /\ IsPolicyRoute(f) /\ e.table = f.table => e.proxy = f.proxy

OneTableEach(elements) ==
    \A e, f \in elements :
        IsPolicyRoute(e) /\ IsPolicyRoute(f) /\ e.proxy = f.proxy => e = f

(* A list of elements of the pod. *)
IsList(elements) ==
    elements \subseteq Elements /\ IsFiniteSet(elements) /\ TablesApart(elements)

LEMMA ImageIsFinite ==
  ASSUME NEW f, IsFiniteSet(DOMAIN f), NEW S, S = {f[x] : x \in DOMAIN f},
         f = [x \in DOMAIN f |-> f[x]]
  PROVE  IsFiniteSet(S)
<1>1. f \in Surjection(DOMAIN f, S)
  BY DEF Surjection
<1>2. QED
  BY <1>1, FS_Surjection

LEMMA UsedIsFinite ==
  ASSUME NEW elements, IsFiniteSet(elements)
  PROVE  IsFiniteSet(UsedTableIDs(elements))
<1> DEFINE some == {p \in elements : IsPolicyRoute(p)}
           f == [e \in some |-> e.table]
<1>1. IsFiniteSet(some)
  BY FS_Subset
<1>2. IsFiniteSet({f[x] : x \in DOMAIN f})
  BY <1>1, ImageIsFinite
<1>3. {f[x] : x \in DOMAIN f} = UsedTableIDs(elements)
  BY DEF UsedTableIDs
<1> HIDE DEF f
<1>4. QED
  BY <1>2, <1>3

LEMMA ElementKinds == \A e : ~(IsVip(e) /\ IsPolicyRoute(e))
BY DEF IsVip, IsPolicyRoute

LEMMA VipElementOK ==
  ASSUME NEW g \in Gateways, NEW v \in VipSets[g], NEW vip \in v
  PROVE  VipElement(g, vip) \in Elements /\ ~IsPolicyRoute(VipElement(g, vip))
<1>1. vip \in Addresses /\ vip \in AllVips(g)
  BY PodNetworkAssumption DEF AllVips
<1>2. QED
  BY <1>1 DEF VipElement, Elements, IsVip, IsPolicyRoute

LEMMA PolicyRouteElementOK ==
  ASSUME NEW g \in Gateways, NEW v \in SUBSET Addresses, NEW h \in SUBSET Addresses, v # {},
         NEW t \in Nat, t >= FirstTable
  PROVE  /\ PolicyRouteElement(g, t, h, v) \in Elements
         /\ PolicyRouteElement(g, t, h, v).table = t
         /\ PolicyRouteElement(g, t, h, v).proxy = g
BY DEF PolicyRouteElement, Elements, IsVip, IsPolicyRoute

(* The elements a gateway gets in place of those it had. *)
NewVips(g, v) == {VipElement(g, vip) : vip \in v}
NewRoutes(g, t, v, h) ==
    {PolicyRouteElement(g, t, h \cap F, v \cap F) :
        F \in {A \in {IPv4, IPv6} : v \cap A # {} /\ h \cap A # {}}}

LEMMA AnnotationCases ==
  ASSUME NEW elements, NEW g, NEW v, NEW h,
         NEW new, new = GetNetworkAttachmentAnnotation(elements, g, v, h)
  PROVE  \/ new = elements
         \/ new = (elements \ Managed(elements, g)) \cup NewVips(g, v)
                  \cup NewRoutes(g, FreeTableID(elements), v, h)
BY DEF GetNetworkAttachmentAnnotation, NewVips, NewRoutes

LEMMA NewVipsOK ==
  ASSUME NEW g \in Gateways, NEW v \in VipSets[g]
  PROVE  /\ NewVips(g, v) \subseteq Elements /\ IsFiniteSet(NewVips(g, v))
         /\ \A e \in NewVips(g, v) : ~IsPolicyRoute(e)
<1> DEFINE f == [vip \in v |-> VipElement(g, vip)]
<1>1. IsFiniteSet({f[x] : x \in DOMAIN f})
  BY PodNetworkAssumption, ImageIsFinite
<1>2. {f[x] : x \in DOMAIN f} = NewVips(g, v)
  BY DEF NewVips
<1> HIDE DEF f
<1>3. IsFiniteSet(NewVips(g, v))
  BY <1>1, <1>2
<1>4. QED
  BY <1>3, VipElementOK DEF NewVips

LEMMA NewRoutesOK ==
  ASSUME NEW g \in Gateways, NEW v \in VipSets[g], NEW h \in SUBSET Addresses,
         NEW t \in Nat, t >= FirstTable
  PROVE  /\ NewRoutes(g, t, v, h) \subseteq Elements /\ IsFiniteSet(NewRoutes(g, t, v, h))
         /\ \A e \in NewRoutes(g, t, v, h) : e.table = t /\ e.proxy = g
         /\ SingleStack => \A e, f \in NewRoutes(g, t, v, h) : e = f
<1> DEFINE families == {A \in {IPv4, IPv6} : v \cap A # {} /\ h \cap A # {}}
           k == [F \in families |-> PolicyRouteElement(g, t, h \cap F, v \cap F)]
<1>1. IsFiniteSet(families)
  <2>1. IsFiniteSet({IPv4} \cup {IPv6})
    BY FS_Singleton, FS_AddElement
  <2>2. QED
    BY <2>1, FS_Subset
<1>2. IsFiniteSet({k[x] : x \in DOMAIN k})
  BY <1>1, ImageIsFinite
<1>3. {k[x] : x \in DOMAIN k} = NewRoutes(g, t, v, h)
  BY DEF NewRoutes
<1> HIDE DEF k
<1>4. IsFiniteSet(NewRoutes(g, t, v, h))
  BY <1>2, <1>3
<1>5. ASSUME NEW e \in NewRoutes(g, t, v, h)
      PROVE  e \in Elements /\ e.table = t /\ e.proxy = g
  <2>1. PICK F \in families : e = PolicyRouteElement(g, t, h \cap F, v \cap F)
    BY <1>5 DEF NewRoutes
  <2>2. v \cap F \in SUBSET Addresses /\ v \cap F # {} /\ h \cap F \in SUBSET Addresses
    BY <2>1, PodNetworkAssumption
  <2> HIDE DEF families
  <2>3. QED
    BY <2>1, <2>2, PolicyRouteElementOK
<1>6. ASSUME SingleStack, NEW F \in families, NEW G \in families PROVE F = G
  BY <1>6, PodNetworkAssumption DEF SingleStack
<1>7. ASSUME SingleStack, NEW e \in NewRoutes(g, t, v, h), NEW f \in NewRoutes(g, t, v, h)
      PROVE  e = f
  BY <1>6, <1>7 DEF NewRoutes
<1>8. QED
  BY <1>4, <1>5, <1>7

LEMMA AnnotationLemma ==
  ASSUME NEW elements, IsList(elements), NEW g \in Gateways, NEW v \in VipSets[g],
         NEW h \in SUBSET Addresses,
         NEW new, new = GetNetworkAttachmentAnnotation(elements, g, v, h)
  PROVE  /\ IsList(new)
         /\ SingleStack /\ OneTableEach(elements) => OneTableEach(new)
<1>1. PICK t \in Nat : /\ t = FreeTableID(elements) /\ t >= FirstTable
                       /\ t \notin UsedTableIDs(elements)
  BY UsedIsFinite, FreshTable DEF IsList
<1> DEFINE old == elements \ Managed(elements, g)
<1>2. CASE new = elements
  BY <1>2
<1>3. CASE new = old \cup NewVips(g, v) \cup NewRoutes(g, t, v, h)
  <2>1. \A e \in old : e \in elements /\ e.proxy # g
    BY DEF Managed
  <2>2. \A e \in elements : IsPolicyRoute(e) => e.table # t
    BY <1>1 DEF UsedTableIDs
  <2>3. IsFiniteSet(old)
    BY FS_Subset DEF IsList
  <2> HIDE DEF old
  <2>4. /\ NewVips(g, v) \subseteq Elements /\ IsFiniteSet(NewVips(g, v))
        /\ \A e \in NewVips(g, v) : ~IsPolicyRoute(e)
    BY NewVipsOK
  <2>5. /\ NewRoutes(g, t, v, h) \subseteq Elements /\ IsFiniteSet(NewRoutes(g, t, v, h))
        /\ \A e \in NewRoutes(g, t, v, h) : e.table = t /\ e.proxy = g
        /\ SingleStack => \A e, f \in NewRoutes(g, t, v, h) : e = f
    BY <1>1, NewRoutesOK
  <2>6. IsFiniteSet(new)
    <3>1. IsFiniteSet(old \cup NewVips(g, v))
      BY <2>3, <2>4, FS_Union
    <3>2. QED
      BY <1>3, <2>5, <3>1, FS_Union
  <2>7. new \subseteq Elements
    BY <1>3, <2>1, <2>4, <2>5 DEF IsList
  <2>8. \A e \in new : IsPolicyRoute(e) => e \in old \/ e \in NewRoutes(g, t, v, h)
    BY <1>3, <2>4
  <2>9. TablesApart(new)
    BY <2>1, <2>2, <2>5, <2>8 DEF IsList, TablesApart
  <2>10. ASSUME SingleStack, OneTableEach(elements) PROVE OneTableEach(new)
    BY <2>1, <2>5, <2>8, <2>10 DEF OneTableEach
  <2>11. QED
    BY <2>6, <2>7, <2>9, <2>10 DEF IsList
<1>4. QED
  BY <1>1, <1>2, <1>3, AnnotationCases
-----------------------------------------------------------------------------
(* Types, lists, and the files of the plugins *)

Recs ==
    [pc : {"idle", "gateways"}, vips : [Gateways -> SUBSET Addresses],
     todo : SUBSET Gateways, elements : SUBSET Elements, stale : BOOLEAN]

ClusterOK ==
    /\ selecting \subseteq Gateways /\ podRuns \in BOOLEAN /\ queued \in BOOLEAN
    /\ vips \in [Gateways -> SUBSET Addresses] /\ \A g \in Gateways : vips[g] \in VipSets[g]
    /\ hops \in [Gateways -> SUBSET Addresses] /\ \A g \in Gateways : hops[g] \in HopSets[g]
    /\ changes \in 0 .. MaxChanges
    /\ missed \subseteq Gateways

(* What is on record and what is being written; the lists of addresses a   *)
(* reconciliation goes by are ones the gateways have had.                  *)
ListsOK ==
    /\ IsList(annotation)
    /\ rec \in Recs /\ IsList(rec.elements)
    /\ rec.pc = "gateways" => \A g \in Gateways : rec.vips[g] \in VipSets[g]

(* Every attached element has its file.  Before the first failure nothing  *)
(* else has one, so that a DEL of what has only been tried changes nothing. *)
RuntimeOK ==
    /\ attached \subseteq Elements /\ tried \subseteq Elements /\ broken \subseteq Elements
    /\ store \in [whole : SUBSET Elements, cut : SUBSET Elements]
    /\ attached \subseteq store.whole /\ store.whole \cap store.cut = {}
    /\ faults \in 0 .. MaxFaults
    /\ faults = 0 => store.whole = attached /\ store.cut = {}

Types == ClusterOK /\ ListsOK /\ RuntimeOK

LEMMA EmptyIsList == IsList({}) /\ OneTableEach({})
BY FS_EmptySet DEF IsList, TablesApart, OneTableEach

LEMMA IdleOK == Idle \in Recs /\ Idle.pc = "idle" /\ Idle.elements = {}
BY DEF Idle, Recs

LEMMA TypesInit == Init => Types
<1> SUFFICES ASSUME Init PROVE Types
  OBVIOUS
<1>1. ClusterOK
  <2>1. \A g \in Gateways : vips[g] \in VipSets[g] /\ hops[g] \in HopSets[g]
    BY DEF Init
  <2>2. ASSUME NEW g \in Gateways
        PROVE  vips[g] \in SUBSET Addresses /\ hops[g] \in SUBSET Addresses
    <3>1. \A v \in VipSets[g] : v \in SUBSET Addresses
      BY PodNetworkAssumption
    <3>2. \A h \in HopSets[g] : h \in SUBSET Addresses
      BY PodNetworkAssumption
    <3>3. QED
      BY <2>1, <3>1, <3>2
  <2>3. vips \in [Gateways -> SUBSET Addresses] /\ hops \in [Gateways -> SUBSET Addresses]
    BY <2>2 DEF Init
  <2>4. /\ selecting \subseteq Gateways /\ podRuns \in BOOLEAN /\ queued \in BOOLEAN
        /\ missed \subseteq Gateways
    BY DEF Init
  <2>5. changes \in 0 .. MaxChanges
    BY PodNetworkAssumption DEF Init
  <2>6. QED
    BY <2>1, <2>3, <2>4, <2>5 DEF ClusterOK
<1>2. ListsOK
  BY EmptyIsList, IdleOK DEF Init, ListsOK
<1>3. RuntimeOK
  BY CniAssumption DEF Init, CniInit, RuntimeOK
<1>4. QED
  BY <1>1, <1>2, <1>3 DEF Types

(* What the plugins do to the files. *)
LEMMA AddFiles ==
  ASSUME RuntimeOK, NEW e \in Elements, CmdAdd(e)
  PROVE  /\ store' = [whole |-> store.whole \cup {e}, cut |-> store.cut]
         /\ e \notin store.cut /\ faults' = faults
<1>1. Store(e)
  BY DEF CmdAdd, AddVip, AddPolicyRoute
<1>2. QED
  BY <1>1 DEF Store, Stored, RuntimeOK

LEMMA AddFailsFiles ==
  ASSUME RuntimeOK, NEW e \in Elements, e \notin attached, CmdAddFails(e)
  PROVE  /\ faults' \in 0 .. MaxFaults /\ faults' >= faults
         /\ \/ store' = store
            \/ /\ faults' # 0 /\ e \notin store.whole \cup store.cut
               /\ \/ store' = [whole |-> store.whole, cut |-> store.cut \cup {e}]
                  \/ store' = [whole |-> store.whole \cup {e}, cut |-> store.cut]
<1>1. \/ store' = store /\ faults' = faults
      \/ store' = store /\ Fails
      \/ StoreFails(e)
  BY DEF CmdAddFails, AddVipFails, AddPolicyRouteFails, ConfigureNetNsFails, FlushFails
<1>2. QED
  BY <1>1, CniAssumption DEF RuntimeOK, StoreFails, Stored, Fails

LEMMA DelFiles ==
  ASSUME RuntimeOK, NEW e \in Elements, CmdDel(e)
  PROVE  /\ faults' \in 0 .. MaxFaults /\ faults' >= faults
         /\ \/ store' = [whole |-> store.whole \ {e}, cut |-> store.cut] /\ faults' = faults
            \/ store' = store /\ faults' # 0
<1>1. CASE DelNothing(e)
  BY <1>1, CniAssumption DEF DelNothing, Stored, Fails, RuntimeOK
<1>2. CASE Delete(e)
  BY <1>2 DEF Delete, RuntimeOK
<1>3. QED
  BY <1>1, <1>2 DEF CmdDel, DelVip, DelPolicyRoute

LEMMA DelFailsFiles ==
  ASSUME RuntimeOK, NEW e \in Elements, CmdDelFails(e)
  PROVE  store' = store /\ faults' \in 0 .. MaxFaults /\ faults' >= faults
<1>1. store' = store /\ (faults' = faults \/ Fails)
  BY DEF CmdDelFails, DelVipFails, DelPolicyRouteFails, FlushFails
<1>2. QED
  BY <1>1, CniAssumption DEF RuntimeOK, Fails

LEMMA RuntimeTypes ==
  ASSUME Types,
         \E e \in annotation \cup attached \cup tried :
            Attach(e) \/ Detach(e) \/ AttachFails(e) \/ DetachFails(e)
  PROVE  RuntimeOK'
<1>1. PICK e \in annotation \cup attached \cup tried :
        Attach(e) \/ Detach(e) \/ AttachFails(e) \/ DetachFails(e)
  OBVIOUS
<1>2. e \in Elements /\ RuntimeOK
  BY DEF Types, ListsOK, IsList, RuntimeOK
<1>3. CASE Attach(e)
  BY <1>2, <1>3, AddFiles DEF Attach, RuntimeOK
<1>4. CASE Detach(e)
  BY <1>2, <1>4, DelFiles DEF Detach, Flushed, RuntimeOK
<1>5. CASE AttachFails(e)
  BY <1>2, <1>5, AddFailsFiles DEF AttachFails, MayAttach, RuntimeOK
<1>6. CASE DetachFails(e)
  BY <1>2, <1>6, DelFailsFiles DEF DetachFails, Flushed, RuntimeOK
<1>7. QED
  BY <1>1, <1>3, <1>4, <1>5, <1>6

LEMMA InjectorTypes ==
  ASSUME Types, Reconcile \/ ReconcileFails
  PROVE  ListsOK'
<1>0. ListsOK /\ ClusterOK /\ rec \in Recs
  BY DEF Types, ListsOK
<1>1. ASSUME GetGatewaysForGatewayClass PROVE ListsOK'
  <2> DEFINE r == [pc |-> "gateways", vips |-> vips, todo |-> Gateways,
                   elements |-> annotation, stale |-> FALSE]
  <2>1. CASE podRuns
    <3>1. rec' = r /\ annotation' = annotation
      BY <1>1, <2>1 DEF GetGatewaysForGatewayClass
    <3>2. r \in Recs
      BY <1>0 DEF Recs, ClusterOK, ListsOK, IsList
    <3>3. QED
      BY <1>0, <3>1, <3>2 DEF ListsOK, ClusterOK
  <2>2. CASE ~podRuns
    BY <1>0, <1>1, <2>2, IdleOK, EmptyIsList DEF ListsOK, GetGatewaysForGatewayClass
  <2>3. QED
    BY <2>1, <2>2
<1>2. ASSUME NEW g \in Gateways, ReconcileGateway(g) PROVE ListsOK'
  <2> DEFINE new == GetNetworkAttachmentAnnotation(rec.elements, g, rec.vips[g], hops[g])
  <2>1. rec.vips[g] \in VipSets[g] /\ hops[g] \in SUBSET Addresses /\ IsList(rec.elements)
    BY <1>0, <1>2 DEF ListsOK, ClusterOK, ReconcileGateway
  <2>2. IsList(new)
    BY <2>1, AnnotationLemma
  <2> HIDE DEF new
  <2>3. rec' = [rec EXCEPT !.todo = rec.todo \ {g},
                           !.elements = IF g \in selecting THEN new ELSE rec.elements]
        /\ annotation' = annotation
    BY <1>2 DEF ReconcileGateway, new
  <2>4. rec' \in Recs /\ rec'.pc = rec.pc /\ rec'.vips = rec.vips /\ IsList(rec'.elements)
    BY <1>0, <2>1, <2>2, <2>3 DEF Recs, IsList
  <2>5. QED
    BY <1>0, <2>3, <2>4 DEF ListsOK
<1>3. ASSUME UpdatePod PROVE ListsOK'
  BY <1>0, <1>3, IdleOK, EmptyIsList DEF ListsOK, UpdatePod
<1>4. ASSUME ReconcileFails PROVE ListsOK'
  BY <1>0, <1>4, IdleOK, EmptyIsList DEF ListsOK, ReconcileFails
<1>5. QED
  BY <1>1, <1>2, <1>3, <1>4 DEF Reconcile

LEMMA ClusterTypes == Types /\ [Next]_vars => ClusterOK'
<1> SUFFICES ASSUME Types, [Next]_vars PROVE ClusterOK'
  OBVIOUS
<1>0. ClusterOK
  BY DEF Types
<1>1. ASSUME UNCHANGED cluster, podRuns' = podRuns, queued' \in BOOLEAN,
             missed' \subseteq missed
      PROVE  ClusterOK'
  BY <1>0, <1>1 DEF ClusterOK, cluster
<1>2. CASE PodStarts
  BY <1>0, <1>2 DEF ClusterOK, PodStarts, cluster
<1>3. ASSUME NEW g \in Gateways, ServiceChanges(g) PROVE ClusterOK'
  <2>1. selecting' \subseteq Gateways
    BY <1>0, <1>3 DEF ClusterOK, ServiceChanges
  <2>2. changes' \in 0 .. MaxChanges
    BY <1>0, <1>3, PodNetworkAssumption DEF ClusterOK, ServiceChanges, Change
  <2>3. queued' \in BOOLEAN /\ missed' \subseteq Gateways
    BY <1>0, <1>3 DEF ServiceChanges, EventLost, ClusterOK
  <2>4. UNCHANGED <<vips, hops, podRuns>>
    BY <1>3 DEF ServiceChanges
  <2>5. QED
    BY <1>0, <2>1, <2>2, <2>3, <2>4 DEF ClusterOK
<1>4. ASSUME NEW g \in Gateways, StatusChanges(g) PROVE ClusterOK'
  <2>1. PICK v \in VipSets[g] : vips' = [vips EXCEPT ![g] = v]
    BY <1>4 DEF StatusChanges
  <2>2. v \in SUBSET Addresses
    BY PodNetworkAssumption
  <2>3. vips' \in [Gateways -> SUBSET Addresses] /\ \A h \in Gateways : vips'[h] \in VipSets[h]
    BY <1>0, <2>1, <2>2 DEF ClusterOK
  <2>4. changes' \in 0 .. MaxChanges
    BY <1>0, <1>4, PodNetworkAssumption DEF ClusterOK, StatusChanges, Change
  <2>5. queued' \in BOOLEAN /\ missed' \subseteq Gateways
    BY <1>0, <1>4 DEF StatusChanges, EventLost, ClusterOK
  <2>6. UNCHANGED <<selecting, hops, podRuns>>
    BY <1>4 DEF StatusChanges
  <2>7. QED
    BY <1>0, <2>3, <2>4, <2>5, <2>6 DEF ClusterOK
<1>5. ASSUME NEW g \in Gateways, DataPlanePodChanges(g) PROVE ClusterOK'
  <2>1. PICK h \in HopSets[g] : hops' = [hops EXCEPT ![g] = h]
    BY <1>5 DEF DataPlanePodChanges
  <2>2. h \in SUBSET Addresses
    BY PodNetworkAssumption
  <2>3. hops' \in [Gateways -> SUBSET Addresses] /\ \A k \in Gateways : hops'[k] \in HopSets[k]
    BY <1>0, <2>1, <2>2 DEF ClusterOK
  <2>4. changes' \in 0 .. MaxChanges
    BY <1>0, <1>5, PodNetworkAssumption DEF ClusterOK, DataPlanePodChanges, Change
  <2>5. UNCHANGED <<selecting, vips, podRuns, queued, missed>>
    BY <1>5 DEF DataPlanePodChanges
  <2>6. QED
    BY <1>0, <2>3, <2>4, <2>5 DEF ClusterOK
<1>6. CASE Reconcile \/ ReconcileFails
  <2>1. UNCHANGED cluster /\ podRuns' = podRuns /\ missed' \subseteq missed
    BY <1>6
       DEF Reconcile, GetGatewaysForGatewayClass, ReconcileGateway, UpdatePod, ReconcileFails
  <2>2. queued' \in BOOLEAN
    BY <1>0, <1>6 DEF Reconcile, GetGatewaysForGatewayClass, ReconcileGateway, UpdatePod,
                      ReconcileFails, ClusterOK
  <2>3. QED
    BY <1>1, <2>1, <2>2
<1>7. ASSUME NEW e, Attach(e) \/ Detach(e) \/ AttachFails(e) \/ DetachFails(e)
      PROVE  ClusterOK'
  BY <1>0, <1>1, <1>7 DEF Attach, Detach, AttachFails, DetachFails, Synced, ClusterOK
<1>8. CASE UNCHANGED vars
  BY <1>0, <1>1, <1>8 DEF vars, ClusterOK
<1>9. QED
  BY <1>2, <1>3, <1>4, <1>5, <1>6, <1>7, <1>8 DEF Next, RuntimeStep

LEMMA ListsStep == Types /\ [Next]_vars => ListsOK'
<1> SUFFICES ASSUME Types, [Next]_vars PROVE ListsOK'
  OBVIOUS
<1>0. ListsOK
  BY DEF Types
<1>1. ASSUME annotation' = annotation, rec' = rec PROVE ListsOK'
  BY <1>0, <1>1 DEF ListsOK
<1>2. ASSUME NEW e, Attach(e) \/ Detach(e) PROVE ListsOK'
  <2>1. annotation' = annotation /\ rec' = [rec EXCEPT !.stale = rec.pc # "idle"]
    BY <1>2 DEF Attach, Detach, Synced
  <2>2. rec' \in Recs /\ rec'.pc = rec.pc /\ rec'.vips = rec.vips
        /\ rec'.elements = rec.elements
    BY <1>0, <2>1 DEF ListsOK, Recs
  <2>3. QED
    BY <1>0, <2>1, <2>2 DEF ListsOK
<1>3. CASE Reconcile \/ ReconcileFails
  BY <1>3, InjectorTypes
<1>4. CASE PodStarts \/ UNCHANGED vars
  BY <1>1, <1>4 DEF PodStarts, vars
<1>5. ASSUME NEW g, ServiceChanges(g) \/ StatusChanges(g) \/ DataPlanePodChanges(g)
      PROVE  ListsOK'
  BY <1>1, <1>5 DEF ServiceChanges, StatusChanges, DataPlanePodChanges
<1>6. ASSUME NEW e, AttachFails(e) \/ DetachFails(e) PROVE ListsOK'
  BY <1>1, <1>6 DEF AttachFails, DetachFails
<1>7. QED
  BY <1>2, <1>3, <1>4, <1>5, <1>6 DEF Next, RuntimeStep

(* Steps that leave the pod's network alone. *)
LEMMA RuntimeStays ==
  ASSUME Types, UNCHANGED <<store, runtime>>, faults' = faults \/ Fails
  PROVE  RuntimeOK'
BY CniAssumption DEF Types, RuntimeOK, runtime, Fails

LEMMA TypesStep == Types /\ [Next]_vars => Types'
<1> SUFFICES ASSUME Types, [Next]_vars PROVE RuntimeOK'
  BY ClusterTypes, ListsStep DEF Types
<1>1. CASE \E e \in annotation \cup attached \cup tried :
             Attach(e) \/ Detach(e) \/ AttachFails(e) \/ DetachFails(e)
  BY <1>1, RuntimeTypes
<1>2. CASE Reconcile \/ ReconcileFails
  BY <1>2, RuntimeStays
     DEF Reconcile, GetGatewaysForGatewayClass, ReconcileGateway, UpdatePod, ReconcileFails,
         cni, netns
<1>3. ASSUME NEW g, ServiceChanges(g) \/ StatusChanges(g) \/ DataPlanePodChanges(g)
      PROVE  RuntimeOK'
  BY <1>3, RuntimeStays DEF ServiceChanges, StatusChanges, DataPlanePodChanges, EventLost, cni
<1>4. CASE PodStarts \/ UNCHANGED vars
  BY <1>4, RuntimeStays DEF PodStarts, vars, cni
<1>5. QED
  BY <1>1, <1>2, <1>3, <1>4 DEF Next, RuntimeStep

LEMMA TypesCorrect == Spec => []Types
BY TypesInit, TypesStep, PTL DEF Spec

(* Whatever the gateways list and whichever calls fail, the elements of    *)
(* the pod are well formed, and an attached one has its file, whole        *)
(* (networkattachmentannotation.go, pkg/cni/store.go).                     *)
THEOREM TypeCorrect == Spec => []TypeOK
<1>1. ASSUME NEW e \in Elements PROVE IsElement(e)
  BY DEF Elements, IsElement, IsVip, IsPolicyRoute, FirstTable
<1>2. Types => TypeOK
  <2> SUFFICES ASSUME Types PROVE TypeOK
    OBVIOUS
  <2>1. \A e \in annotation \cup rec.elements \cup attached \cup tried \cup broken :
            IsElement(e)
    BY <1>1 DEF Types, ListsOK, IsList, RuntimeOK
  <2>2. \A e \in store.whole \cup store.cut : IsElement(e)
    BY <1>1 DEF Types, RuntimeOK
  <2>3. QED
    BY <2>1, <2>2 DEF Types, ClusterOK, ListsOK, RuntimeOK, Recs, TypeOK
<1>3. QED
  BY <1>2, TypesCorrect, PTL

(* No two gateways of a pod share a routing table, however often tables    *)
(* have been freed and given again (getFreeTableID).                       *)
THEOREM TablesAreDistinct == Spec => []TablesDistinct
<1>1. Types => TablesDistinct
  BY DEF Types, ListsOK, IsList, TablesApart, TablesDistinct
<1>2. QED
  BY <1>1, TypesCorrect, PTL
-----------------------------------------------------------------------------
(* What the annotation says of the gateways *)

VipsOn(elements, g) == {e \in Managed(elements, g) : IsVip(e)}

(* The elements of addresses are those asked for, also where the injector  *)
(* finds nothing to do; those of other gateways stay.                      *)
LEMMA AnnotationListsVips ==
  ASSUME NEW elements, elements \subseteq Elements, NEW g \in Gateways, NEW v, NEW h,
         NEW new, new = GetNetworkAttachmentAnnotation(elements, g, v, h)
  PROVE  /\ VipsOn(new, g) = NewVips(g, v)
         /\ \A k : k # g => VipsOn(new, k) = VipsOn(elements, k)
<1> DEFINE managed == Managed(elements, g)
           given == NewRoutes(g, FreeTableID(elements), v, h)
<1>1. CASE ~EqualVIPsGateways(managed, v, h)
  <2>1. new = (elements \ managed) \cup NewVips(g, v) \cup given
    BY <1>1 DEF GetNetworkAttachmentAnnotation, NewVips, NewRoutes
  <2>2. \A e \in NewVips(g, v) : IsVip(e) /\ e.proxy = g
    BY DEF NewVips, VipElement, IsVip
  <2>3. \A e \in given : ~IsVip(e) /\ e.proxy = g
    BY DEF NewRoutes, PolicyRouteElement, IsVip
  <2> HIDE DEF given
  <2>4. QED
    BY <2>1, <2>2, <2>3 DEF VipsOn, Managed
<1>2. CASE EqualVIPsGateways(managed, v, h)
  <2>1. new = elements
    BY <1>2 DEF GetNetworkAttachmentAnnotation
  <2>2. UNION {e.vips : e \in VipsOn(elements, g)} = v
    BY <1>2 DEF EqualVIPsGateways, VipsOn
  <2>3. ASSUME NEW e \in VipsOn(elements, g)
        PROVE  \E vip \in e.vips : e = VipElement(g, vip)
    <3>1. e \in Elements /\ IsVip(e) /\ e.proxy = g
      BY DEF VipsOn, Managed
    <3>2. PICK vip : e.vips = {vip}
      BY <3>1 DEF Elements
    <3>3. e = [kind |-> "vip", proxy |-> g, vips |-> {vip}, table |-> 0, gateways |-> {}]
      BY <3>1, <3>2 DEF Elements, IsVip
    <3>4. QED
      BY <3>2, <3>3 DEF VipElement
  <2>4. VipsOn(elements, g) \subseteq NewVips(g, v)
    BY <2>2, <2>3 DEF NewVips
  <2>5. ASSUME NEW vip \in v PROVE VipElement(g, vip) \in VipsOn(elements, g)
    <3>1. PICK e \in VipsOn(elements, g) : vip \in e.vips
      BY <2>2
    <3>2. PICK w \in e.vips : e = VipElement(g, w)
      BY <2>3
    <3>3. w = vip
      BY <3>1, <3>2 DEF VipElement
    <3>4. QED
      BY <3>2, <3>3
  <2>6. QED
    BY <2>1, <2>4, <2>5 DEF NewVips
<1>3. QED
  BY <1>1, <1>2

(* The pod has an element for every address of the gateways that select    *)
(* it, and for no other of theirs, once it runs, the work queue is empty   *)
(* and no reconciliation is in progress: but for gateways with an event    *)
(* that was lost since the last reconciliation began.                      *)
SettledIsListed ==
    podRuns /\ ~queued /\ rec.pc = "idle" =>
        \A g \in selecting \ missed : VipsOn(annotation, g) = {VipElement(g, v) : v \in vips[g]}

(* While nothing is queued, the list being written is right for the        *)
(* gateways it has come to; an event of one that it has passed queues the  *)
(* pod again, unless it is lost.                                           *)
ListedInv ==
    ~queued =>
        /\ SettledIsListed
        /\ rec.pc = "gateways" =>
              \A g \in selecting \ missed :
                  /\ rec.vips[g] = vips[g]
                  /\ g \notin rec.todo => VipsOn(rec.elements, g) = NewVips(g, vips[g])

LEMMA ListedStep ==
  ASSUME Types, ListedInv, [Next]_vars
  PROVE  ListedInv'
<1>0. rec \in Recs /\ IsList(rec.elements) /\ selecting \subseteq Gateways
      /\ queued \in BOOLEAN
  BY DEF Types, ListsOK, ClusterOK
<1>1. ASSUME UNCHANGED <<selecting, vips, podRuns, annotation, queued, missed, rec>>
      PROVE  ListedInv'
  BY <1>1 DEF ListedInv, SettledIsListed
<1>2. ASSUME queued' = TRUE PROVE ListedInv'
  BY <1>2 DEF ListedInv
<1>3. ASSUME NEW g \in Gateways, StatusChanges(g) PROVE ListedInv'
  <2>1. PICK v \in VipSets[g] : vips' = [vips EXCEPT ![g] = v]
    BY <1>3 DEF StatusChanges
  <2>2. /\ \/ queued' = (queued \/ g \in selecting) /\ missed' = missed
           \/ queued' = queued /\ missed' = missed \cup {g}
        /\ UNCHANGED <<selecting, podRuns, annotation, rec>>
    BY <1>3 DEF StatusChanges, EventLost
  <2>3. \A k \in selecting : k # g => vips'[k] = vips[k]
    BY <2>1
  <2>4. QED
    BY <2>2, <2>3 DEF ListedInv, SettledIsListed, NewVips
<1>4. CASE GetGatewaysForGatewayClass
  <2>1. UNCHANGED <<selecting, vips, podRuns, annotation>>
    BY <1>4 DEF GetGatewaysForGatewayClass, cluster
  <2>2. CASE podRuns
    <3>1. rec'.pc = "gateways" /\ rec'.vips = vips /\ rec'.todo = Gateways
      BY <1>4, <2>2 DEF GetGatewaysForGatewayClass
    <3>2. QED
      BY <1>0, <2>1, <3>1 DEF ListedInv, SettledIsListed
  <2>3. CASE ~podRuns
    <3>1. rec'.pc = "idle"
      BY <1>4, <2>3, IdleOK DEF GetGatewaysForGatewayClass
    <3>2. QED
      BY <2>1, <2>3, <3>1 DEF ListedInv, SettledIsListed
  <2>4. QED
    BY <2>2, <2>3
<1>5. ASSUME NEW g \in Gateways, ReconcileGateway(g) PROVE ListedInv'
  <2> DEFINE new == GetNetworkAttachmentAnnotation(rec.elements, g, rec.vips[g], hops[g])
  <2>1. /\ VipsOn(new, g) = NewVips(g, rec.vips[g])
        /\ \A k : k # g => VipsOn(new, k) = VipsOn(rec.elements, k)
    BY <1>0, AnnotationListsVips DEF IsList
  <2> HIDE DEF new
  <2>2. /\ rec.pc = "gateways"
        /\ UNCHANGED <<selecting, vips, podRuns, annotation, queued, missed>>
        /\ rec' = [rec EXCEPT !.todo = rec.todo \ {g},
                              !.elements = IF g \in selecting THEN new ELSE rec.elements]
    BY <1>5 DEF ReconcileGateway, cluster, new
  <2>3. /\ rec'.pc = "gateways" /\ rec'.vips = rec.vips /\ rec'.todo = rec.todo \ {g}
        /\ rec'.elements = IF g \in selecting THEN new ELSE rec.elements
    BY <1>0, <2>2 DEF Recs
  <2>4. ASSUME ~queued, NEW k \in selecting \ missed
        PROVE  /\ rec'.vips[k] = vips[k]
               /\ k \notin rec'.todo => VipsOn(rec'.elements, k) = NewVips(k, vips[k])
    <3>1. /\ rec.vips[k] = vips[k]
          /\ k \notin rec.todo => VipsOn(rec.elements, k) = NewVips(k, vips[k])
      BY <2>2, <2>4 DEF ListedInv
    <3>2. CASE k = g
      BY <2>1, <2>3, <3>1, <3>2
    <3>3. CASE k # g
      BY <2>1, <2>3, <3>1, <3>3
    <3>4. QED
      BY <3>2, <3>3
  <2>5. QED
    BY <2>2, <2>3, <2>4 DEF ListedInv, SettledIsListed
<1>6. CASE UpdatePod
  <2>1. /\ rec.pc = "gateways" /\ rec.todo = {} /\ rec'.pc = "idle"
        /\ UNCHANGED <<selecting, vips, podRuns, missed>>
        /\ annotation' = IF rec.stale THEN annotation ELSE rec.elements
        /\ queued' = (queued \/ rec.elements # annotation \/ rec.stale)
    BY <1>6, IdleOK DEF UpdatePod, cluster
  <2>2. ASSUME ~queued' PROVE SettledIsListed'
    <3>1. ~queued /\ annotation' = rec.elements
      BY <2>1, <2>2
    <3>2. \A g \in selecting \ missed : VipsOn(rec.elements, g) = NewVips(g, vips[g])
      BY <2>1, <3>1 DEF ListedInv
    <3>3. QED
      BY <2>1, <3>1, <3>2 DEF SettledIsListed, NewVips
  <2>3. QED
    BY <2>1, <2>2 DEF ListedInv
<1>7. CASE ReconcileFails \/ PodStarts
  BY <1>2, <1>7 DEF ReconcileFails, PodStarts
<1>11. ASSUME NEW g \in Gateways, ServiceChanges(g) PROVE ListedInv'
  <2>1. CASE queued' = TRUE
    BY <1>2, <2>1
  <2>2. CASE EventLost(g)
    <3>1. /\ queued' = queued /\ missed' = missed \cup {g}
          /\ UNCHANGED <<vips, podRuns, annotation, rec>>
      BY <1>11, <2>2 DEF ServiceChanges, EventLost
    <3>2. selecting' \ missed' \subseteq selecting \ missed
      BY <1>11, <3>1 DEF ServiceChanges
    <3>3. QED
      BY <3>1, <3>2 DEF ListedInv, SettledIsListed
  <2>3. QED
    BY <1>11, <2>1, <2>2 DEF ServiceChanges
<1>8. ASSUME NEW g, DataPlanePodChanges(g) PROVE ListedInv'
  BY <1>1, <1>8 DEF DataPlanePodChanges
<1>9. ASSUME NEW e, Attach(e) \/ Detach(e) \/ AttachFails(e) \/ DetachFails(e)
      PROVE  ListedInv'
  BY <1>1, <1>2, <1>9 DEF Attach, Detach, AttachFails, DetachFails, Synced, cluster
<1>10. CASE UNCHANGED vars
  BY <1>1, <1>10 DEF vars, cluster
<1>12. QED
  BY <1>3, <1>4, <1>5, <1>6, <1>7, <1>8, <1>9, <1>10, <1>11 DEF Next, Reconcile, RuntimeStep

(* A settled pod has the elements of exactly the addresses of the gateways *)
(* that select it (podinjector.go), whatever has changed while its         *)
(* annotation was written, whichever updates were refused and whichever    *)
(* calls failed; a gateway whose event the handlers have lost (enqueue.go) *)
(* is excepted until the pod is next reconciled.  It is the safety half of *)
(* Converges.                                                              *)
THEOREM Settled == Spec => []SettledIsListed
<1>1. Init => ListedInv
  BY IdleOK DEF Init, ListedInv, SettledIsListed
<1>2. Types /\ ListedInv /\ [Next]_vars => ListedInv'
  BY ListedStep
<1>3. ListedInv => SettledIsListed
  BY DEF ListedInv, SettledIsListed
<1>5. QED
  BY <1>1, <1>2, <1>3, TypesCorrect, PTL DEF Spec
-----------------------------------------------------------------------------
(* The kernel and the elements that are attached *)

(* What is attached was on record at once, when the last of it was         *)
(* attached, so no two of its elements have one table.                     *)
AttachedApart ==
    \A e, f \in attached : IsPolicyRoute(e) /\ IsPolicyRoute(f) /\ e.table = f.table => e = f

SinglesInv ==
    /\ Types
    /\ OneTableEach(annotation) /\ OneTableEach(rec.elements)
    /\ AttachedApart

LEMMA ElementKind ==
  ASSUME NEW e \in Elements
  PROVE  /\ IsVip(e) <=> ~IsPolicyRoute(e)
         /\ e.vips \subseteq Addresses /\ e.vips # {} /\ e.gateways \subseteq Addresses
BY DEF Elements, IsVip, IsPolicyRoute

LEMMA AnnotationApart ==
  ASSUME SinglesInv, NEW e \in annotation, NEW f \in annotation,
         IsPolicyRoute(e), IsPolicyRoute(f), e.table = f.table
  PROVE  e = f
BY DEF SinglesInv, Types, ListsOK, IsList, TablesApart, OneTableEach

LEMMA SinglesInit == Init => SinglesInv
BY TypesInit, EmptyIsList, IdleOK DEF Init, SinglesInv, AttachedApart

LEMMA SinglesStep ==
  ASSUME SingleStack, SinglesInv, [Next]_vars
  PROVE  SinglesInv'
<1>1. Types'
  BY TypesStep DEF SinglesInv
<1>2. OneTableEach(annotation)' /\ OneTableEach(rec.elements)'
  <2>0. OneTableEach(annotation) /\ OneTableEach(rec.elements) /\ rec \in Recs
        /\ ListsOK /\ ClusterOK
    BY DEF SinglesInv, Types, ListsOK
  <2>1. ASSUME NEW g \in Gateways, ReconcileGateway(g)
        PROVE  OneTableEach(annotation)' /\ OneTableEach(rec.elements)'
    <3> DEFINE new == GetNetworkAttachmentAnnotation(rec.elements, g, rec.vips[g], hops[g])
    <3>1. /\ rec.vips[g] \in VipSets[g] /\ hops[g] \in SUBSET Addresses
          /\ IsList(rec.elements)
      BY <2>0, <2>1 DEF ListsOK, ClusterOK, ReconcileGateway
    <3>2. OneTableEach(new)
      BY <2>0, <3>1, AnnotationLemma
    <3> HIDE DEF new
    <3>3. rec' = [rec EXCEPT !.todo = rec.todo \ {g},
                             !.elements = IF g \in selecting THEN new ELSE rec.elements]
          /\ annotation' = annotation
      BY <2>1 DEF ReconcileGateway, new
    <3>4. rec'.elements = new \/ rec'.elements = rec.elements
      BY <2>0, <3>3 DEF Recs
    <3>5. QED
      BY <2>0, <3>2, <3>3, <3>4
  <2>2. CASE GetGatewaysForGatewayClass
    <3>1. annotation' = annotation
          /\ (rec'.elements = annotation \/ rec'.elements = {})
      BY <2>2, IdleOK DEF GetGatewaysForGatewayClass
    <3>2. QED
      BY <2>0, <3>1, EmptyIsList
  <2>3. CASE UpdatePod \/ ReconcileFails
    <3>1. /\ annotation' = annotation \/ annotation' = rec.elements
          /\ rec'.elements = {}
      BY <2>3, IdleOK DEF UpdatePod, ReconcileFails
    <3>2. QED
      BY <2>0, <3>1, EmptyIsList
  <2>4. ASSUME annotation' = annotation,
               rec' = rec \/ rec' = [rec EXCEPT !.stale = rec.pc # "idle"]
        PROVE  OneTableEach(annotation)' /\ OneTableEach(rec.elements)'
    <3>1. rec'.elements = rec.elements
      BY <2>0, <2>4 DEF Recs
    <3>2. QED
      BY <2>0, <2>4, <3>1
  <2>5. ASSUME NEW e, Attach(e) \/ Detach(e) \/ AttachFails(e) \/ DetachFails(e)
        PROVE  OneTableEach(annotation)' /\ OneTableEach(rec.elements)'
    BY <2>4, <2>5 DEF Attach, Detach, AttachFails, DetachFails, Synced
  <2>6. ASSUME NEW g, ServiceChanges(g) \/ StatusChanges(g) \/ DataPlanePodChanges(g)
        PROVE  OneTableEach(annotation)' /\ OneTableEach(rec.elements)'
    BY <2>4, <2>6 DEF ServiceChanges, StatusChanges, DataPlanePodChanges
  <2>7. CASE PodStarts \/ UNCHANGED vars
    BY <2>4, <2>7 DEF PodStarts, vars
  <2>8. QED
    BY <2>1, <2>2, <2>3, <2>5, <2>6, <2>7 DEF Next, Reconcile, RuntimeStep
<1>3. AttachedApart'
  <2>1. \/ attached' \subseteq attached
        \/ attached' \subseteq annotation
    <3>1. ASSUME NEW e, Attach(e) PROVE attached' \subseteq annotation
      BY <3>1 DEF Attach, MayAttach
    <3>2. ASSUME NEW e, Detach(e) \/ AttachFails(e) \/ DetachFails(e)
          PROVE  attached' \subseteq attached
      BY <3>2 DEF Detach, AttachFails, DetachFails
    <3>3. ASSUME NEW g, ServiceChanges(g) \/ StatusChanges(g) \/ DataPlanePodChanges(g)
                        \/ ReconcileGateway(g)
          PROVE  attached' \subseteq attached
      BY <3>3 DEF ServiceChanges, StatusChanges, DataPlanePodChanges, ReconcileGateway, runtime
    <3>4. CASE PodStarts \/ UpdatePod \/ GetGatewaysForGatewayClass \/ ReconcileFails
               \/ UNCHANGED vars
      BY <3>4 DEF PodStarts, UpdatePod, GetGatewaysForGatewayClass, ReconcileFails,
                  runtime, vars
    <3>5. QED
      BY <3>1, <3>2, <3>3, <3>4 DEF Next, Reconcile, RuntimeStep
  <2>2. QED
    BY <2>1, AnnotationApart DEF SinglesInv, AttachedApart
<1>4. QED
  BY <1>1, <1>2, <1>3 DEF SinglesInv

RoutesFor(e) == {e.table} \X e.gateways

(* The kernel has what the attached elements say, and nothing else. *)
KernelIs(elements) ==
    /\ \A x : x \in addrs <=> \E e \in elements : IsVip(e) /\ x \in e.vips
    /\ \A x : x \in rules <=> \E e \in elements : IsPolicyRoute(e) /\ x \in Rules(e)
    /\ \A x : x \in routes <=> \E e \in elements : IsPolicyRoute(e) /\ x \in RoutesFor(e)

VipsDisjoint(elements) ==
    \A e, f \in elements : IsVip(e) /\ IsVip(f) /\ e # f => e.vips \cap f.vips = {}

LeftInv ==
    /\ SinglesInv
    /\ faults = 0 => KernelIs(attached) /\ VipsDisjoint(attached)

LEMMA HopsOfBoth ==
  ASSUME NEW e \in Elements
  PROVE  Hops(e, IPv4) \cup Hops(e, IPv6) = RoutesFor(e)
<1>1. (e.gateways \cap IPv4) \cup (e.gateways \cap IPv6) = e.gateways
  BY ElementKind DEF Addresses
<1>2. QED
  BY <1>1 DEF Hops, RoutesFor

LEMMA TableOf ==
  ASSUME NEW e
  PROVE  /\ \A x \in Rules(e) : x[1] = e.table
         /\ \A x \in RoutesFor(e) : x[1] = e.table
BY DEF Rules, RoutesFor

(* An element is attached where no other has its table. *)
LEMMA AddPolicyRouteKernel ==
  ASSUME NEW f \in Elements, IsPolicyRoute(f), KernelIs(attached), AddPolicyRoute(f),
         \A e \in attached : IsPolicyRoute(e) => e.table # f.table,
         attached' = attached \cup {f}
  PROVE  KernelIs(attached)'
<1>1. RulesOf(f.table) = {} /\ RoutesOf(f.table) = {}
  BY TableOf DEF KernelIs, RulesOf, RoutesOf
<1>2. rules' = rules \cup Rules(f) /\ routes' = routes \cup RoutesFor(f) /\ addrs' = addrs
  BY <1>1, HopsOfBoth DEF AddPolicyRoute, ConfigureNetNs
<1>3. ~IsVip(f)
  BY DEF IsVip, IsPolicyRoute
<1>4. QED
  BY <1>2, <1>3 DEF KernelIs, Rules, RoutesFor

LEMMA DelPolicyRouteKernel ==
  ASSUME NEW f \in attached, IsPolicyRoute(f), KernelIs(attached), DelPolicyRoute(f),
         AttachedApart, attached' = attached \ {f}
  PROVE  KernelIs(attached)'
<1>1. ~IsVip(f) /\ addrs' = addrs
  BY DEF IsVip, IsPolicyRoute, DelPolicyRoute
<1>2. rules' = rules \ RulesOf(f.table) /\ routes' = routes \ RoutesOf(f.table)
  BY DEF DelPolicyRoute, Flush
<1>3. ASSUME NEW x PROVE x \in rules' <=> \E e \in attached' : IsPolicyRoute(e) /\ x \in Rules(e)
  <2>1. ASSUME x \in rules'
        PROVE  \E e \in attached' : IsPolicyRoute(e) /\ x \in Rules(e)
    <3>1. PICK e \in attached : IsPolicyRoute(e) /\ x \in Rules(e)
      BY <1>2, <2>1 DEF KernelIs
    <3>2. e # f
      BY <1>2, <2>1, <3>1, TableOf DEF RulesOf
    <3>3. QED
      BY <3>1, <3>2
  <2>2. ASSUME NEW e \in attached', IsPolicyRoute(e), x \in Rules(e)
        PROVE  x \in rules'
    <3>1. x \in rules /\ x[1] = e.table
      BY <2>2, TableOf DEF KernelIs
    <3>2. e.table # f.table
      BY <2>2 DEF AttachedApart
    <3>3. QED
      BY <1>2, <3>1, <3>2 DEF RulesOf
  <2>3. QED
    BY <2>1, <2>2
<1>4. ASSUME NEW x
      PROVE  x \in routes' <=> \E e \in attached' : IsPolicyRoute(e) /\ x \in RoutesFor(e)
  <2>1. ASSUME x \in routes'
        PROVE  \E e \in attached' : IsPolicyRoute(e) /\ x \in RoutesFor(e)
    <3>1. PICK e \in attached : IsPolicyRoute(e) /\ x \in RoutesFor(e)
      BY <1>2, <2>1 DEF KernelIs
    <3>2. e # f
      BY <1>2, <2>1, <3>1, TableOf DEF RoutesOf
    <3>3. QED
      BY <3>1, <3>2
  <2>2. ASSUME NEW e \in attached', IsPolicyRoute(e), x \in RoutesFor(e)
        PROVE  x \in routes'
    <3>1. x \in routes /\ x[1] = e.table
      BY <2>2, TableOf DEF KernelIs
    <3>2. e.table # f.table
      BY <2>2 DEF AttachedApart
    <3>3. QED
      BY <1>2, <3>1, <3>2 DEF RoutesOf
  <2>3. QED
    BY <2>1, <2>2
<1>5. QED
  BY <1>1, <1>3, <1>4 DEF KernelIs, Rules, RoutesFor

LEMMA AddVipKernel ==
  ASSUME NEW f \in Elements, IsVip(f), KernelIs(attached), VipsDisjoint(attached), AddVip(f),
         attached' = attached \cup {f}
  PROVE  KernelIs(attached)' /\ VipsDisjoint(attached)'
<1>1. addrs' = addrs \cup f.vips /\ rules' = rules /\ routes' = routes
      /\ f.vips \cap addrs = {} /\ ~IsPolicyRoute(f)
  BY DEF AddVip, IsVip, IsPolicyRoute
<1>2. KernelIs(attached)'
  BY <1>1 DEF KernelIs, Rules, RoutesFor
<1>3. VipsDisjoint(attached)'
  BY <1>1 DEF KernelIs, VipsDisjoint
<1>4. QED
  BY <1>2, <1>3

LEMMA DelVipKernel ==
  ASSUME NEW f \in attached, IsVip(f), KernelIs(attached), VipsDisjoint(attached), DelVip(f),
         attached' = attached \ {f}
  PROVE  KernelIs(attached)' /\ VipsDisjoint(attached)'
<1>1. addrs' = addrs \ f.vips /\ rules' = rules /\ routes' = routes /\ ~IsPolicyRoute(f)
  BY DEF DelVip, IsVip, IsPolicyRoute
<1>2. ASSUME NEW x PROVE x \in addrs' <=> \E e \in attached' : IsVip(e) /\ x \in e.vips
  BY <1>1 DEF KernelIs, VipsDisjoint
<1>3. KernelIs(attached)'
  BY <1>1, <1>2 DEF KernelIs, Rules, RoutesFor
<1>4. QED
  BY <1>3 DEF VipsDisjoint

LEMMA KernelStays ==
  ASSUME KernelIs(attached), VipsDisjoint(attached), UNCHANGED <<netns, attached>>
  PROVE  KernelIs(attached)' /\ VipsDisjoint(attached)'
<1>1. UNCHANGED <<addrs, rules, routes, attached>>
  BY DEF netns
<1>2. QED
  BY <1>1 DEF KernelIs, VipsDisjoint, Rules, RoutesFor

(* Without a file that can be read there is nothing to be done. *)
LEMMA NoFileNoChange ==
  ASSUME NEW f, f \notin store.whole, CmdDel(f) \/ CmdDelFails(f)
  PROVE  UNCHANGED netns
BY DEF CmdDel, CmdDelFails, DelNothing, DelVip, DelPolicyRoute, DelVipFails,
       DelPolicyRouteFails, cni, netns

LEMMA LeftStep ==
  ASSUME SingleStack, LeftInv, [Next]_vars
  PROVE  LeftInv'
<1>1. SinglesInv'
  BY SinglesStep DEF LeftInv
<1>2. RuntimeOK /\ SinglesInv /\ ListsOK
  BY DEF LeftInv, SinglesInv, Types
<1>3. ASSUME faults' = 0
      PROVE  KernelIs(attached)' /\ VipsDisjoint(attached)'
  <2>0. faults' = faults => /\ KernelIs(attached) /\ VipsDisjoint(attached)
                            /\ store.whole = attached /\ store.cut = {}
    BY <1>2, <1>3 DEF LeftInv, RuntimeOK
  <2>1. ~Fails
    BY <1>2, <1>3, CniAssumption DEF Fails, RuntimeOK
  <2>2. ASSUME UNCHANGED <<netns, attached, faults>>
        PROVE  KernelIs(attached)' /\ VipsDisjoint(attached)'
    BY <2>0, <2>2, KernelStays
  <2>3. ASSUME NEW f \in annotation \cup attached \cup tried, Attach(f)
        PROVE  KernelIs(attached)' /\ VipsDisjoint(attached)'
    <3>1. f \in Elements /\ attached' = attached \cup {f} /\ CmdAdd(f)
          /\ f \in annotation \ attached /\ attached \subseteq annotation
      BY <1>2, <2>3 DEF Attach, MayAttach, ListsOK, IsList
    <3>2. KernelIs(attached) /\ VipsDisjoint(attached)
      BY <1>2, <2>0, <3>1, AddFiles
    <3>3. CASE IsVip(f)
      BY <3>1, <3>2, <3>3, AddVipKernel DEF CmdAdd
    <3>4. CASE IsPolicyRoute(f)
      <4>1. AddPolicyRoute(f) /\ ~IsVip(f)
        BY <3>1, <3>4, ElementKind DEF CmdAdd
      <4>2. \A e \in attached : IsPolicyRoute(e) => e.table # f.table
        BY <1>2, <3>1, <3>4, AnnotationApart
      <4>3. KernelIs(attached)'
        BY <3>1, <3>2, <3>4, <4>1, <4>2, AddPolicyRouteKernel
      <4>4. VipsDisjoint(attached)'
        BY <3>1, <3>2, <4>1 DEF VipsDisjoint
      <4>5. QED
        BY <4>3, <4>4
    <3>5. QED
      BY <3>1, <3>3, <3>4, ElementKind
  <2>4. ASSUME NEW f \in annotation \cup attached \cup tried, Detach(f)
        PROVE  KernelIs(attached)' /\ VipsDisjoint(attached)'
    <3>1. f \in Elements /\ attached' = attached \ {f} /\ CmdDel(f)
      BY <1>2, <2>4 DEF Detach, ListsOK, IsList, RuntimeOK
    <3>2. /\ KernelIs(attached) /\ VipsDisjoint(attached) /\ faults' = faults
          /\ store.whole = attached
      BY <1>2, <1>3, <2>0, <3>1, DelFiles
    <3>3. CASE f \notin attached
      BY <2>2, <3>1, <3>2, <3>3, NoFileNoChange
    <3>4. CASE f \in attached /\ IsVip(f)
      <4>1. DelVip(f)
        BY <2>1, <3>1, <3>2, <3>4 DEF CmdDel, DelNothing, Stored
      <4>2. QED
        BY <3>1, <3>2, <3>4, <4>1, DelVipKernel
    <3>5. CASE f \in attached /\ IsPolicyRoute(f)
      <4>1. DelPolicyRoute(f)
        BY <2>1, <3>1, <3>2, <3>5, ElementKind DEF CmdDel, DelNothing, Stored
      <4>2. KernelIs(attached)'
        BY <1>2, <3>1, <3>2, <3>5, <4>1, DelPolicyRouteKernel DEF SinglesInv
      <4>3. VipsDisjoint(attached)'
        BY <3>1, <3>2 DEF VipsDisjoint
      <4>4. QED
        BY <4>2, <4>3
    <3>6. QED
      BY <3>1, <3>3, <3>4, <3>5, ElementKind
  <2>5. ASSUME NEW f \in annotation \cup attached \cup tried, AttachFails(f)
        PROVE  KernelIs(attached)' /\ VipsDisjoint(attached)'
    <3>1. f \in Elements /\ f \notin attached /\ CmdAddFails(f) /\ attached' = attached
      BY <1>2, <2>5 DEF AttachFails, MayAttach, ListsOK, IsList, RuntimeOK
    <3>2. faults' = faults
      BY <1>2, <1>3, <3>1, AddFailsFiles DEF RuntimeOK
    <3>3. ~StoreFails(f)
      BY <1>2, <2>0, <2>1, <3>1, <3>2 DEF StoreFails, Stored, RuntimeOK
    <3>4. UNCHANGED netns
      BY <2>1, <3>1, <3>3
         DEF CmdAddFails, AddVipFails, AddPolicyRouteFails, ConfigureNetNsFails, FlushFails,
             netns
    <3>5. QED
      BY <2>2, <3>1, <3>2, <3>4
  <2>6. ASSUME NEW f \in annotation \cup attached \cup tried, DetachFails(f)
        PROVE  KernelIs(attached)' /\ VipsDisjoint(attached)'
    <3>1. f \in Elements /\ CmdDelFails(f) /\ attached' = attached
      BY <1>2, <2>6 DEF DetachFails, ListsOK, IsList, RuntimeOK
    <3>2. faults' = faults
      BY <1>2, <1>3, <3>1, DelFailsFiles DEF RuntimeOK
    <3>3. CASE f \notin attached
      BY <2>0, <2>2, <3>1, <3>2, <3>3, NoFileNoChange
    <3>4. CASE f \in attached
      <4>1. IsVip(f) => f.vips \subseteq addrs /\ f.vips # {}
        BY <2>0, <3>1, <3>2, <3>4, ElementKind DEF KernelIs
      <4>2. f \notin store.cut
        BY <2>0, <3>2
      <4>3. FALSE
        BY <2>1, <3>1, <4>1, <4>2 DEF CmdDelFails, DelVipFails, DelPolicyRouteFails, FlushFails
      <4>4. QED
        BY <4>3
    <3>5. QED
      BY <3>3, <3>4
  <2>7. CASE Reconcile
    BY <2>2, <2>7 DEF Reconcile, GetGatewaysForGatewayClass, ReconcileGateway, UpdatePod,
                      cni, runtime
  <2>8. CASE ReconcileFails
    BY <2>1, <2>8 DEF ReconcileFails
  <2>9. ASSUME NEW g, ServiceChanges(g) \/ StatusChanges(g) \/ DataPlanePodChanges(g)
        PROVE  KernelIs(attached)' /\ VipsDisjoint(attached)'
    BY <2>1, <2>2, <2>9 DEF ServiceChanges, StatusChanges, DataPlanePodChanges, EventLost,
                            cni, runtime
  <2>10. CASE PodStarts \/ UNCHANGED vars
    BY <2>2, <2>10 DEF PodStarts, vars, cni, runtime
  <2>11. QED
    BY <2>3, <2>4, <2>5, <2>6, <2>7, <2>8, <2>9, <2>10 DEF Next, RuntimeStep
<1>4. QED
  BY <1>1, <1>3 DEF LeftInv

(* Until a call fails, the kernel of a pod with gateways of one family     *)
(* each has the addresses, rules and routes of the attached elements, and  *)
(* none of any other (cmdAdd and cmdDel of both plugins).                  *)
THEOREM NothingElseIsLeft ==
  ASSUME SingleStack
  PROVE  Spec => []NothingIsLeft
<1>1. Init => LeftInv
  BY SinglesInit DEF LeftInv, Init, CniInit, KernelIs, VipsDisjoint
<1>2. LeftInv /\ [Next]_vars => LeftInv'
  BY LeftStep
<1>3. LeftInv => NothingIsLeft
  <2> SUFFICES ASSUME LeftInv, faults = 0 PROVE NothingIsLeft
    BY DEF NothingIsLeft
  <2>1. KernelIs(attached)
    BY DEF LeftInv
  <2>2. addrs = UNION {e.vips : e \in {a \in attached : IsVip(a)}}
    BY <2>1 DEF KernelIs
  <2>3. rules = UNION {Rules(e) : e \in {a \in attached : IsPolicyRoute(a)}}
    BY <2>1 DEF KernelIs
  <2>4. routes = UNION {{e.table} \X e.gateways : e \in {a \in attached : IsPolicyRoute(a)}}
    BY <2>1 DEF KernelIs, RoutesFor
  <2>5. QED
    BY <2>2, <2>3, <2>4 DEF NothingIsLeft
<1>4. QED
  BY <1>1, <1>2, <1>3, PTL DEF Spec
-----------------------------------------------------------------------------
(* Failures: what is attached and has not been undone by a DEL *)

LEMMA VipsAreOwn ==
  ASSUME OwnVips
  PROVE  VipsDisjoint(Elements)
<1> SUFFICES ASSUME NEW e \in Elements, NEW f \in Elements, IsVip(e), IsVip(f),
                    e.vips \cap f.vips # {}
             PROVE  e = f
  BY DEF VipsDisjoint
<1>1. PICK v \in AllVips(e.proxy) : e.vips = {v}
  BY DEF Elements
<1>2. PICK w \in AllVips(f.proxy) : f.vips = {w}
  BY DEF Elements
<1>3. v = w
  BY <1>1, <1>2
<1>4. e.proxy \in Gateways /\ f.proxy \in Gateways
  BY DEF Elements
<1>5. e.proxy = f.proxy
  BY <1>1, <1>2, <1>3, <1>4 DEF OwnVips
<1>6. e.vips = f.vips /\ e.table = f.table /\ e.gateways = f.gateways /\ e.kind = f.kind
  BY <1>1, <1>2, <1>3 DEF Elements, IsVip
<1>7. QED
  BY <1>5, <1>6 DEF Elements

(* A plugin's call about an element, however it ends. *)
Called(f) == CmdAdd(f) \/ CmdAddFails(f) \/ CmdDel(f) \/ CmdDelFails(f)

LEMMA CallsAboutVips ==
  ASSUME NEW f, IsVip(f), Called(f)
  PROVE  rules' = rules /\ routes' = routes /\ addrs \ f.vips \subseteq addrs'
BY DEF Called, CmdAdd, CmdAddFails, CmdDel, CmdDelFails, AddVip, AddVipFails, DelVip,
       DelVipFails, DelNothing, cni, netns

LEMMA FlushKeeps ==
  ASSUME NEW t, Flush(t) \/ FlushFails(t)
  PROVE  rules \ RulesOf(t) \subseteq rules' /\ routes \ RoutesOf(t) \subseteq routes'
BY DEF Flush, FlushFails

LEMMA ConfigureKeeps ==
  ASSUME NEW f, ConfigureNetNs(f) \/ ConfigureNetNsFails(f)
  PROVE  /\ rules \ RulesOf(f.table) \subseteq rules'
         /\ routes \ RoutesOf(f.table) \subseteq routes'
BY FlushKeeps DEF ConfigureNetNs, ConfigureNetNsFails

LEMMA CallsAboutRoutes ==
  ASSUME NEW f, ~IsVip(f), Called(f)
  PROVE  /\ addrs' = addrs
         /\ rules \ RulesOf(f.table) \subseteq rules'
         /\ routes \ RoutesOf(f.table) \subseteq routes'
<1>1. CASE CmdAdd(f) \/ CmdAddFails(f)
  BY <1>1, ConfigureKeeps DEF CmdAdd, CmdAddFails, AddPolicyRoute, AddPolicyRouteFails
<1>2. CASE CmdDel(f) \/ CmdDelFails(f)
  BY <1>2, FlushKeeps
     DEF CmdDel, CmdDelFails, DelPolicyRoute, DelPolicyRouteFails, DelNothing, cni, netns
<1>3. QED
  BY <1>1, <1>2 DEF Called

(* A call about an element leaves another one alone, unless they share an  *)
(* address or a table.                                                     *)
LEMMA CallsKeep ==
  ASSUME NEW e \in Elements, NEW f \in Elements, Configured(e), Called(f),
         IsVip(e) /\ IsVip(f) => e.vips \cap f.vips = {},
         IsPolicyRoute(e) /\ IsPolicyRoute(f) => e.table # f.table
  PROVE  Configured(e)'
<1>1. CASE IsVip(e)
  <2>1. e.vips \subseteq addrs
    BY <1>1 DEF Configured
  <2>2. e.vips \subseteq addrs'
    BY <1>1, <2>1, CallsAboutVips, CallsAboutRoutes
  <2>3. QED
    BY <1>1, <2>2 DEF Configured
<1>2. CASE IsPolicyRoute(e)
  <2>1. ~IsVip(e) /\ Rules(e) \subseteq rules /\ Hops(e, IPv4) \cup Hops(e, IPv6) \subseteq routes
    BY <1>2, ElementKind DEF Configured, RulesOf, RoutesOf
  <2>2. /\ \A x \in Rules(e) : x[1] = e.table
        /\ \A x \in Hops(e, IPv4) \cup Hops(e, IPv6) : x[1] = e.table
    BY DEF Rules, Hops
  <2>3. Rules(e) \subseteq rules' /\ Hops(e, IPv4) \cup Hops(e, IPv6) \subseteq routes'
    <3>1. CASE IsVip(f)
      BY <2>1, <3>1, CallsAboutVips
    <3>2. CASE IsPolicyRoute(f)
      <4>1. e.table # f.table /\ ~IsVip(f)
        BY <1>2, <3>2, ElementKind
      <4>2. /\ rules \ RulesOf(f.table) \subseteq rules'
            /\ routes \ RoutesOf(f.table) \subseteq routes'
        BY <4>1, CallsAboutRoutes
      <4>3. QED
        BY <2>1, <2>2, <4>1, <4>2 DEF RulesOf, RoutesOf
    <3>3. QED
      BY <3>1, <3>2, ElementKind
  <2>4. QED
    BY <2>1, <2>2, <2>3 DEF Configured, RulesOf, RoutesOf, Rules, Hops
<1>3. QED
  BY <1>1, <1>2, ElementKind

LEMMA AddConfigures ==
  ASSUME NEW f \in Elements, CmdAdd(f)
  PROVE  Configured(f)'
<1>1. CASE IsVip(f)
  BY <1>1 DEF CmdAdd, AddVip, Configured
<1>2. CASE ~IsVip(f)
  <2>1. Rules(f) \subseteq rules' /\ Hops(f, IPv4) \cup Hops(f, IPv6) \subseteq routes'
    BY <1>2 DEF CmdAdd, AddPolicyRoute, ConfigureNetNs
  <2>2. /\ \A x \in Rules(f) : x[1] = f.table
        /\ \A x \in Hops(f, IPv4) \cup Hops(f, IPv6) : x[1] = f.table
    BY DEF Rules, Hops
  <2>3. QED
    BY <1>2, <2>1, <2>2 DEF Configured, RulesOf, RoutesOf, Rules, Hops
<1>3. QED
  BY <1>1, <1>2

LEMMA ConfiguredStays ==
  ASSUME NEW e, Configured(e), UNCHANGED netns
  PROVE  Configured(e)'
<1>1. UNCHANGED <<addrs, rules, routes>>
  BY DEF netns
<1>2. QED
  BY <1>1 DEF Configured, RulesOf, RoutesOf, Rules, Hops

ConfiguredInv == SinglesInv /\ AttachedIsConfigured

LEMMA ConfiguredStep ==
  ASSUME SingleStack, OwnVips, ConfiguredInv, [Next]_vars
  PROVE  ConfiguredInv'
<1>1. SinglesInv'
  BY SinglesStep DEF ConfiguredInv
<1>2. RuntimeOK /\ SinglesInv /\ ListsOK /\ VipsDisjoint(Elements)
  BY VipsAreOwn DEF ConfiguredInv, SinglesInv, Types
<1>3. ASSUME NEW e \in attached' \ broken' PROVE Configured(e)'
  <2>1. ASSUME e \in attached \ broken, UNCHANGED netns PROVE Configured(e)'
    BY <2>1, ConfiguredStays DEF ConfiguredInv, AttachedIsConfigured
  <2>2. ASSUME NEW f \in annotation \cup attached \cup tried, e \in attached \ broken, e # f,
               Called(f),
               \/ e \in annotation /\ f \in annotation
               \/ f \in attached
               \/ IsPolicyRoute(f) => e.table # f.table
        PROVE  Configured(e)'
    <3>1. e \in Elements /\ f \in Elements /\ Configured(e)
      BY <1>2, <2>2
         DEF ListsOK, IsList, RuntimeOK, ConfiguredInv, AttachedIsConfigured
    <3>2. IsVip(e) /\ IsVip(f) => e.vips \cap f.vips = {}
      BY <1>2, <2>2, <3>1 DEF VipsDisjoint
    <3>3. IsPolicyRoute(e) /\ IsPolicyRoute(f) => e.table # f.table
      BY <1>2, <2>2, AnnotationApart DEF SinglesInv, AttachedApart
    <3>4. QED
      BY <2>2, <3>1, <3>2, <3>3, CallsKeep
  <2>3. ASSUME NEW f \in annotation \cup attached \cup tried, Attach(f)
        PROVE  Configured(e)'
    <3>1. CmdAdd(f) /\ f \in annotation \ attached /\ attached \subseteq annotation
          /\ attached' = attached \cup {f} /\ broken' = broken \ {f} /\ f \in Elements
      BY <1>2, <2>3 DEF Attach, MayAttach, ListsOK, IsList
    <3>2. CASE e = f
      BY <3>1, <3>2, AddConfigures
    <3>3. CASE e # f
      BY <1>3, <2>2, <3>1, <3>3 DEF Called
    <3>4. QED
      BY <3>2, <3>3
  <2>4. ASSUME NEW f \in annotation \cup attached \cup tried, AttachFails(f)
        PROVE  Configured(e)'
    <3>1. CmdAddFails(f) /\ f \in annotation \ attached /\ attached \subseteq annotation
          /\ attached' = attached /\ broken' = broken
      BY <2>4 DEF AttachFails, MayAttach
    <3>2. QED
      BY <1>3, <2>2, <3>1 DEF Called
  <2>5. ASSUME NEW f \in annotation \cup attached \cup tried, Detach(f) \/ DetachFails(f)
        PROVE  Configured(e)'
    <3>1. /\ CmdDel(f) \/ CmdDelFails(f)
          /\ e # f /\ e \in attached \ broken /\ e \notin Flushed(f)
          /\ f \in attached \cup tried
      BY <1>3, <2>5 DEF Detach, DetachFails, MayDetach
    <3>2. CASE f \in attached
      BY <2>2, <3>1, <3>2 DEF Called
    <3>3. CASE f \notin store.whole
      BY <2>1, <3>1, <3>3, NoFileNoChange
    <3>4. CASE f \in tried /\ f \in store.whole
      <4>1. IsPolicyRoute(f) => e.table # f.table
        BY <3>1, <3>4 DEF Flushed
      <4>2. QED
        BY <2>2, <3>1, <4>1 DEF Called
    <3>5. QED
      BY <3>1, <3>2, <3>3, <3>4
  <2>6. CASE Reconcile \/ ReconcileFails
    BY <1>3, <2>1, <2>6 DEF Reconcile, GetGatewaysForGatewayClass, ReconcileGateway, UpdatePod,
                            ReconcileFails, cni, runtime
  <2>7. ASSUME NEW g, ServiceChanges(g) \/ StatusChanges(g) \/ DataPlanePodChanges(g)
        PROVE  Configured(e)'
    BY <1>3, <2>1, <2>7 DEF ServiceChanges, StatusChanges, DataPlanePodChanges, cni, runtime
  <2>8. CASE PodStarts \/ UNCHANGED vars
    BY <1>3, <2>1, <2>8 DEF PodStarts, vars, cni, runtime
  <2>9. QED
    BY <2>3, <2>4, <2>5, <2>6, <2>7, <2>8 DEF Next, RuntimeStep
<1>4. QED
  BY <1>1, <1>3 DEF ConfiguredInv, AttachedIsConfigured

(* Whichever calls of the plugins fail, and wherever: an attached element  *)
(* has what it says in the kernel, unless a DEL of it has failed or the    *)
(* file of a failed ADD had its table flushed, in a pod whose gateways     *)
(* have addresses of one family each and none in common (cmdAdd and cmdDel *)
(* of both plugins).                                                       *)
THEOREM AttachedAreConfigured ==
  ASSUME SingleStack, OwnVips
  PROVE  Spec => []AttachedIsConfigured
<1>1. Init => ConfiguredInv
  BY SinglesInit DEF ConfiguredInv, AttachedIsConfigured, Init
<1>2. ConfiguredInv /\ [Next]_vars => ConfiguredInv'
  BY ConfiguredStep
<1>3. ConfiguredInv => AttachedIsConfigured
  BY DEF ConfiguredInv
<1>4. QED
  BY <1>1, <1>2, <1>3, PTL DEF Spec
=============================================================================
