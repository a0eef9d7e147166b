------------------------ MODULE FwmarkOffset_proofs ------------------------
(***************************************************************************)
(* Proofs about the forwarding-mark search of pkg/nfqlb/offset.go, for any *)
(* set of services, any sizes, any starting offset and any MaxInt.         *)
(***************************************************************************)
EXTENDS FwmarkOffset, TLAPS

-----------------------------------------------------------------------------
(* The bounds getOffset compares decide exactly whether two ranges have a  *)
(* mark in common.                                                         *)
LEMMA OverlapsIffShared ==
    ASSUME NEW o \in Nat, NEW m \in Nat \ {0},
           NEW s, s.offset \in Nat, s.maxTargets \in Nat \ {0}
    PROVE  Overlaps(o, m, s) <=>
             Marks(o, m) \cap Marks(s.offset, s.maxTargets) # {}
<1> DEFINE lo == IF o < s.offset THEN s.offset ELSE o
<1>1. ASSUME Overlaps(o, m, s)
      PROVE  Marks(o, m) \cap Marks(s.offset, s.maxTargets) # {}
  <2>1. lo \in Marks(o, m) /\ lo \in Marks(s.offset, s.maxTargets)
    BY <1>1 DEF Overlaps, Marks
  <2> QED BY <2>1
<1>2. ASSUME NEW x \in Marks(o, m) \cap Marks(s.offset, s.maxTargets)
      PROVE  Overlaps(o, m, s)
  BY <1>2 DEF Overlaps, Marks
<1> QED BY <1>1, <1>2

(* Jumping over a service that overlaps the candidate passes only over     *)
(* placements that overlap the same service, and always moves on.          *)
LEMMA JumpSkipsNothing ==
    ASSUME NEW o \in Nat, NEW m \in Nat \ {0},
           NEW s, s.offset \in Nat, s.maxTargets \in Nat \ {0},
           Overlaps(o, m, s)
    PROVE  /\ s.offset + s.maxTargets > o
           /\ \A p \in o .. (s.offset + s.maxTargets - 1) : Overlaps(p, m, s)
BY DEF Overlaps
-----------------------------------------------------------------------------
(* Types, including the fact that a search is for a name not in the table. *)
THEOREM TypeCorrect == Spec => []TypeOK
<1> USE FwmarkAssumption
<1>1. Init => TypeOK
  BY DEF Init, TypeOK, NoSearch
<1>2. TypeOK /\ [Next]_vars => TypeOK'
  <2> SUFFICES ASSUME TypeOK, [Next]_vars PROVE TypeOK'
    OBVIOUS
  <2> USE DEF TypeOK
  <2>1. ASSUME NEW n \in Names, NEW m \in Sizes, BeginSearch(n, m)
        PROVE  TypeOK'
    BY <2>1 DEF BeginSearch, Search, NoSearch
  <2>2. ASSUME NEW k \in DOMAIN services, JumpOver(k)
        PROVE  TypeOK'
    <3>1. services[k] \in Service /\ search \in Search
      BY <2>2 DEF JumpOver
    <3>2. services[k].offset \in Nat /\ services[k].maxTargets \in Nat
      BY <3>1 DEF Service
    <3>3. services[k].offset + services[k].maxTargets \in Nat
      BY <3>2
    <3> QED BY <2>2, <3>1, <3>3 DEF JumpOver, Search
  <2>3. CASE GiveUp
    BY <2>3 DEF GiveUp
  <2>4. CASE Register
    <3>1. search \in Search
      BY <2>4 DEF Register, Found
    <3> QED BY <2>4, <3>1 DEF Register, Search, Service, NoSearch
  <2>5. CASE InitFails
    BY <2>5 DEF InitFails
  <2>6. ASSUME NEW n \in DOMAIN services, DeleteService(n)
        PROVE  TypeOK'
    BY <2>6 DEF DeleteService
  <2>7. CASE UNCHANGED vars
    BY <2>7 DEF vars
  <2> QED BY <2>1, <2>2, <2>3, <2>4, <2>5, <2>6, <2>7 DEF Next, SearchStep
<1> QED BY <1>1, <1>2, PTL DEF Spec

(* No forwarding mark ever belongs to two services. *)
THEOREM MarksAreDisjoint == Spec => []DisjointMarks
<1> USE FwmarkAssumption
<1>1. Init => DisjointMarks
  BY DEF Init, DisjointMarks
<1>2. TypeOK /\ DisjointMarks /\ [Next]_vars => DisjointMarks'
  <2> SUFFICES ASSUME TypeOK, DisjointMarks, [Next]_vars PROVE DisjointMarks'
    OBVIOUS
  <2>1. CASE Register
    <3> DEFINE new == search.name
               own(svcs, n) == Marks(svcs[n].offset, svcs[n].maxTargets)
    <3>1. search \in Search /\ FitsAt(search.offset, search.maxTargets, services)
      BY <2>1 DEF Register, Found, TypeOK
    <3>2. new \notin DOMAIN services
      BY <2>1 DEF Register, Found, TypeOK
    <3>3. \A n \in DOMAIN services : services'[n] = services[n]
      BY <2>1, <3>2 DEF Register
    <3>4. /\ DOMAIN services' = DOMAIN services \cup {new}
          /\ services'[new].offset = search.offset
          /\ services'[new].maxTargets = search.maxTargets
      BY <2>1 DEF Register
    <3>5. ASSUME NEW n \in DOMAIN services
          PROVE  Marks(search.offset, search.maxTargets) \cap own(services, n) = {}
      <4>1. services[n].offset \in Nat /\ services[n].maxTargets \in Nat \ {0}
        BY DEF TypeOK, Service
      <4>2. search.offset \in Nat /\ search.maxTargets \in Nat \ {0}
        BY <3>1 DEF Search
      <4>3. ~Overlaps(search.offset, search.maxTargets, services[n])
        BY <3>1 DEF FitsAt
      <4> QED BY <4>1, <4>2, <4>3, OverlapsIffShared
    <3>6. \A n \in DOMAIN services : own(services', new) \cap own(services', n) = {}
      BY <3>3, <3>4, <3>5
    <3> HIDE DEF own
    <3>7. \A n, k \in DOMAIN services :
             n # k => own(services', n) \cap own(services', k) = {}
      BY <3>3 DEF DisjointMarks, own
    <3>8. \A n, k \in DOMAIN services' :
             n # k => own(services', n) \cap own(services', k) = {}
      BY <3>4, <3>6, <3>7
    <3> QED BY <3>8 DEF DisjointMarks, own
  <2>2. ASSUME NEW n \in DOMAIN services, DeleteService(n)
        PROVE  DisjointMarks'
    BY <2>2 DEF DeleteService, DisjointMarks
  <2>3. CASE UNCHANGED services
    BY <2>3 DEF DisjointMarks
  <2> QED BY <2>1, <2>2, <2>3
          DEF Next, SearchStep, BeginSearch, JumpOver, GiveUp, InitFails, vars
<1> QED BY <1>1, <1>2, TypeCorrect, PTL DEF Spec

(* Whatever the order of the jumps, no usable placement is passed over. *)
THEOREM SearchSkipsNothing == Spec => []NothingSkipped
<1> USE FwmarkAssumption
<1>1. Init => NothingSkipped
  BY DEF Init, NothingSkipped
<1>2. TypeOK /\ NothingSkipped /\ [Next]_vars => NothingSkipped'
  <2> SUFFICES ASSUME TypeOK, NothingSkipped, [Next]_vars PROVE NothingSkipped'
    OBVIOUS
  <2>1. ASSUME NEW n \in Names, NEW m \in Sizes, BeginSearch(n, m)
        PROVE  NothingSkipped'
    BY <2>1 DEF BeginSearch, NothingSkipped
  <2>2. ASSUME NEW k \in DOMAIN services, JumpOver(k)
        PROVE  NothingSkipped'
    <3> DEFINE o == search.offset
               m == search.maxTargets
               s == services[k]
    <3>1. o \in Nat /\ m \in Nat \ {0}
      BY <2>2 DEF JumpOver, TypeOK, Search
    <3>2. s.offset \in Nat /\ s.maxTargets \in Nat \ {0}
      BY DEF TypeOK, Service
    <3>3. Overlaps(o, m, s)
      BY <2>2 DEF JumpOver
    <3>4. \A p \in StartingOffset .. (o - 1) : ~FitsAt(p, m, services)
      BY <2>2 DEF JumpOver, NothingSkipped
    <3>5. \A p \in o .. (s.offset + s.maxTargets - 1) : Overlaps(p, m, s)
      BY <3>1, <3>2, <3>3, JumpSkipsNothing
    <3>6. \A p \in o .. (s.offset + s.maxTargets - 1) : ~FitsAt(p, m, services)
      BY <3>5 DEF FitsAt
    <3>7. ASSUME NEW p \in StartingOffset .. (s.offset + s.maxTargets - 1)
          PROVE  ~FitsAt(p, m, services)
      <4>1. p \in StartingOffset .. (o - 1) \/ p \in o .. (s.offset + s.maxTargets - 1)
        BY <3>1, <3>2
      <4> QED BY <4>1, <3>4, <3>6
    <3>8. /\ search'.offset = s.offset + s.maxTargets
          /\ search'.maxTargets = m
          /\ services' = services
      <4>1. search \in Search
        BY <2>2 DEF JumpOver, TypeOK
      <4> QED BY <2>2, <4>1 DEF JumpOver, Search
    <3>9. ASSUME NEW p \in StartingOffset .. (search'.offset - 1)
          PROVE  ~FitsAt(p, search'.maxTargets, services')
      <4>1. p \in StartingOffset .. (s.offset + s.maxTargets - 1)
        BY <3>2, <3>8
      <4>2. ~FitsAt(p, m, services)
        BY <3>7, <4>1
      <4> QED BY <4>2, <3>8, Zenon
    <3> QED BY <3>9, Zenon DEF NothingSkipped
  <2>3. CASE search' = NoSearch
    BY <2>3 DEF NothingSkipped
  <2>4. ASSUME NEW n \in DOMAIN services, DeleteService(n)
        PROVE  NothingSkipped'
    BY <2>4 DEF DeleteService, NothingSkipped
  <2>5. CASE UNCHANGED vars
    BY <2>5 DEF vars, NothingSkipped
  <2> QED BY <2>1, <2>2, <2>3, <2>4, <2>5
          DEF Next, SearchStep, GiveUp, Register, InitFails
<1> QED BY <1>1, <1>2, TypeCorrect, PTL DEF Spec

(* The search never looks below the starting offset. *)
SearchStarted == search # NoSearch => search.offset >= StartingOffset

LEMMA SearchStartsHigh == Spec => []SearchStarted
<1> USE FwmarkAssumption
<1>1. Init => SearchStarted
  BY DEF Init, SearchStarted
<1>2. TypeOK /\ SearchStarted /\ [Next]_vars => SearchStarted'
  <2> SUFFICES ASSUME TypeOK, SearchStarted, [Next]_vars PROVE SearchStarted'
    OBVIOUS
  <2>1. ASSUME NEW k \in DOMAIN services, JumpOver(k)
        PROVE  SearchStarted'
    <3>1. search \in Search
      BY <2>1 DEF JumpOver, TypeOK
    <3>2. /\ search.offset \in Nat /\ search.maxTargets \in Nat \ {0}
          /\ services[k].offset \in Nat /\ services[k].maxTargets \in Nat \ {0}
      BY <3>1 DEF TypeOK, Search, Service
    <3>3. services[k].offset + services[k].maxTargets > search.offset
      BY <2>1, <3>2, JumpSkipsNothing DEF JumpOver
    <3>4. search'.offset = services[k].offset + services[k].maxTargets
      BY <2>1, <3>1 DEF JumpOver, Search
    <3> QED BY <2>1, <3>2, <3>3, <3>4 DEF JumpOver, SearchStarted
  <2>2. ASSUME NEW n \in Names, NEW m \in Sizes, BeginSearch(n, m)
        PROVE  SearchStarted'
    BY <2>2 DEF BeginSearch, SearchStarted
  <2> QED BY <2>1, <2>2
          DEF Next, SearchStep, GiveUp, Register, InitFails, DeleteService, vars, SearchStarted
<1> QED BY <1>1, <1>2, TypeCorrect, PTL DEF Spec

(* A service is entered in the table at the lowest offset that was free. *)
THEOREM NewServiceGetsFirstFit == Spec => FirstFit
<1> DEFINE New == \A n \in DOMAIN services' \ DOMAIN services :
                     IsFirstFit(services'[n].offset, services'[n].maxTargets,
                                services, StartingOffset)
<1> USE FwmarkAssumption
<1>1. TypeOK /\ NothingSkipped /\ SearchStarted /\ [Next]_vars => [New]_vars
  <2> SUFFICES ASSUME TypeOK, NothingSkipped, SearchStarted, [Next]_vars PROVE New
    OBVIOUS
  <2>1. CASE Register
    <3>1. DOMAIN services' \ DOMAIN services \subseteq {search.name}
      BY <2>1 DEF Register
    <3>2. /\ services'[search.name].offset = search.offset
          /\ services'[search.name].maxTargets = search.maxTargets
      BY <2>1 DEF Register
    <3>3. IsFirstFit(search.offset, search.maxTargets, services, StartingOffset)
      BY <2>1 DEF Register, Found, IsFirstFit, NothingSkipped, SearchStarted
    <3> QED BY <3>1, <3>2, <3>3
  <2>2. ASSUME NEW n \in DOMAIN services, DeleteService(n)
        PROVE  DOMAIN services' \subseteq DOMAIN services
    BY <2>2 DEF DeleteService
  <2>3. CASE UNCHANGED services
    BY <2>3
  <2> QED BY <2>1, <2>2, <2>3
          DEF Next, SearchStep, BeginSearch, JumpOver, GiveUp, InitFails, vars
<1> QED BY <1>1, TypeCorrect, SearchSkipsNothing, SearchStartsHigh, PTL DEF Spec, FirstFit

(* No sum that getOffset or AddTarget computes leaves the range of int. *)
THEOREM SumsStayInRange == Spec => []NoOverflow
<1> USE FwmarkAssumption
<1>1. Init => NoOverflow
  BY DEF Init, NoOverflow
<1>2. TypeOK /\ TypeOK' /\ NoOverflow /\ [Next]_vars => NoOverflow'
  <2> SUFFICES ASSUME TypeOK, TypeOK', NoOverflow, [Next]_vars PROVE NoOverflow'
    OBVIOUS
  <2>1. (search' # NoSearch /\ ~Exhausted') =>
           search'.offset + search'.maxTargets - 1 <= MaxInt
    <3> SUFFICES ASSUME search' # NoSearch, ~Exhausted'
                 PROVE  search'.offset + search'.maxTargets - 1 <= MaxInt
      OBVIOUS
    <3>1. search'.offset \in Nat /\ search'.maxTargets \in Nat \ {0}
      BY DEF TypeOK, Search
    <3> QED BY <3>1 DEF Exhausted
  <2>2. ASSUME NEW n \in DOMAIN services'
        PROVE  services'[n].offset + services'[n].maxTargets <= MaxInt
    <3>1. CASE n \in DOMAIN services /\ services'[n] = services[n]
      BY <3>1 DEF NoOverflow
    <3>2. CASE Register /\ n = search.name
      <4>1. search.offset \in Nat /\ search.maxTargets \in Nat \ {0}
        BY <3>2 DEF Register, Found, TypeOK, Search
      <4>2. ~(search.offset >= MaxInt - search.maxTargets + 1)
        BY <3>2 DEF Register, Found, Exhausted
      <4>3. /\ services'[n].offset = search.offset
            /\ services'[n].maxTargets = search.maxTargets
        BY <3>2 DEF Register
      <4>4. search.offset + search.maxTargets <= MaxInt
        BY <4>1, <4>2
      <4> QED BY <4>3, <4>4
    <3> QED BY <2>2, <3>1, <3>2
            DEF Next, SearchStep, BeginSearch, JumpOver, GiveUp, Register,
                InitFails, DeleteService, vars
  <2> QED BY <2>1, <2>2 DEF NoOverflow
<1> QED BY <1>1, <1>2, TypeCorrect, PTL DEF Spec
-----------------------------------------------------------------------------
(* The search implements the abstract allocator: entering a service in the *)
(* table is a Grant, deleting it a Release, every other step a stutter.    *)
THEOREM Refinement == Spec => ImplementsOwnership
<1> USE FwmarkAssumption
<1>1. Init => Ownership!Init
  BY DEF Init, Ownership!Init, MarksOwned
<1>2. TypeOK /\ SearchStarted /\ [Next]_vars => [Ownership!Next]_MarksOwned
  <2> SUFFICES ASSUME TypeOK, SearchStarted, [Next]_vars
               PROVE  Ownership!Next \/ MarksOwned' = MarksOwned
    OBVIOUS
  <2>1. CASE Register
    <3> DEFINE S == Marks(search.offset, search.maxTargets)
    <3>0. PICK new \in Names : new = search.name
      BY <2>1 DEF Register, Found, TypeOK, Search
    <3>1. search \in Search /\ new \notin DOMAIN services
      BY <2>1, <3>0 DEF Register, Found, TypeOK
    <3>2. search.offset \in Nat /\ search.maxTargets \in Sizes
          /\ search.maxTargets \in Nat \ {0}
      BY <3>1 DEF Search
    <3>3. search.offset \in StartingOffset .. MaxInt
      BY <2>1, <3>2 DEF Register, Found, Exhausted, SearchStarted
    <3>4. S \in MarkSets
      BY <3>2, <3>3 DEF MarkSets
    <3>5. ASSUME NEW other \in Names
          PROVE  MarksOwned[other] \cap S = {}
      <4>1. CASE other \notin DOMAIN services
        BY <4>1 DEF MarksOwned
      <4>2. CASE other \in DOMAIN services
        <5>1. services[other].offset \in Nat /\ services[other].maxTargets \in Nat \ {0}
          BY <4>2 DEF TypeOK, Service
        <5>2. ~Overlaps(search.offset, search.maxTargets, services[other])
          BY <2>1, <4>2 DEF Register, Found, FitsAt
        <5>3. S \cap Marks(services[other].offset, services[other].maxTargets) = {}
          BY <3>2, <5>1, <5>2, OverlapsIffShared
        <5> QED BY <4>2, <5>3 DEF MarksOwned
      <4> QED BY <4>1, <4>2
    <3>6. MarksOwned[new] = {}
      BY <3>1 DEF MarksOwned
    <3>7. MarksOwned' = [MarksOwned EXCEPT ![new] = S]
      <4>1. /\ DOMAIN services' = DOMAIN services \cup {new}
            /\ services'[new].offset = search.offset
            /\ services'[new].maxTargets = search.maxTargets
            /\ \A n \in DOMAIN services : services'[n] = services[n]
        BY <2>1, <3>0, <3>1 DEF Register
      <4> QED BY <3>0, <3>1, <4>1 DEF MarksOwned
    <3>8. Ownership!Grant(new)
      <4>1. PICK T \in MarkSets : T = S
        BY <3>4
      <4>2. \A other \in Names : MarksOwned[other] \cap T = {}
        BY <3>5, <4>1
      <4>3. MarksOwned' = [MarksOwned EXCEPT ![new] = T]
        BY <3>7, <4>1
      <4> QED BY <3>6, <4>2, <4>3 DEF Ownership!Grant
    <3> QED BY <3>8, Zenon DEF Ownership!Next
  <2>2. ASSUME NEW n \in DOMAIN services, DeleteService(n)
        PROVE  Ownership!Next
    <3>1. n \in Names
      BY DEF TypeOK
    <3>2. services[n].offset \in Nat /\ services[n].maxTargets \in Nat \ {0}
      BY DEF TypeOK, Service
    <3>3. MarksOwned[n] # {}
      <4>1. services[n].offset \in Marks(services[n].offset, services[n].maxTargets)
        BY <3>2 DEF Marks
      <4> QED BY <3>1, <4>1 DEF MarksOwned
    <3>4. MarksOwned' = [MarksOwned EXCEPT ![n] = {}]
      BY <2>2, <3>1 DEF DeleteService, MarksOwned
    <3>5. Ownership!Release(n)
      BY <3>3, <3>4 DEF Ownership!Release
    <3> QED BY <3>1, <3>5 DEF Ownership!Next
  <2>3. CASE UNCHANGED services
    BY <2>3 DEF MarksOwned
  <2> QED BY <2>1, <2>2, <2>3
          DEF Next, SearchStep, BeginSearch, JumpOver, GiveUp, InitFails, vars
<1> QED BY <1>1, <1>2, TypeCorrect, SearchStartsHigh, PTL
        DEF Spec, ImplementsOwnership, Ownership!Spec
=============================================================================
