---------------------------- MODULE Nfqlb_proofs ----------------------------
(***************************************************************************)
(* Proofs about Nfqlb, for any services, identifiers, addresses and flows, *)
(* any size of the ranges and any number of failures.  The inductive       *)
(* invariant is the conjunction of the parts below: which step a call and  *)
(* heal are at, who owns which lock there, and what that makes the map of  *)
(* services, the targets and nfqlb's shared memory agree on.  Flows and    *)
(* policy routes are exact only while nothing fails and services are       *)
(* drained first: Drained and Steering say what then holds at each step.   *)
(***************************************************************************)
EXTENDS Nfqlb, TLAPS

(* The maps of the Go program and of nfqlb. *)
store == <<services, offset, targets, held, shm, active>>

TargetsOK(t) ==
    /\ DOMAIN t = Services
    /\ \A s \in Services :
          /\ DOMAIN t[s] \subseteq Ids
          /\ \A id \in DOMAIN t[s] : t[s][id] \subseteq Addresses

Maps ==
    /\ services \subseteq Services /\ held \subseteq Services
    /\ offset \in [Services -> Nat]
    /\ TargetsOK(targets) /\ DOMAIN active = Services

FaultsOK == faults \in 0 .. MaxFaults
FlowsOK == DOMAIN flows \subseteq Flows

CallRecords ==
    [op : Calls, svc : Services \cup {"none"}, pc : CallSteps, id : Ids \cup {0},
     ips : SUBSET Addresses, todo : SUBSET (Ids \cup Flows), err : BOOLEAN]

(* The steps a call goes through. *)
CallOK ==
    /\ call \in CallRecords
    /\ call # Idle => call.svc \in Services
    /\ call.op \in {"AddTarget", "DeleteTarget"} => call.id \in Ids
    /\ \/ call = Idle
       \/ call.op = "AddService" /\ call.pc = "mu"
       \/ call.op = "DeleteService" /\ call.pc \in {"mu", "smu", "targets", "flows"}
       \/ call.op = "AddTarget" /\ call.pc \in {"smu", "route"}
       \/ call.op = "DeleteTarget" /\ call.pc \in {"smu", "unroute"}

HealRecords ==
    [pc : {"sleep", "next", "route"}, todo : SUBSET Services,
     svc : Services \cup {"none"}, routes : SUBSET (Ids \X Addresses)]

HealOK ==
    /\ heal \in HealRecords
    /\ heal.pc = "sleep" => heal = Sleep
    /\ heal.pc = "route" => heal.svc \in Services

(* Who owns which lock. *)
ReconcilerSteps == {"targets", "flows", "route", "unroute"}
MuOK == mu \in Owners /\ (mu = "heal" <=> heal.pc # "sleep")
SmuOK ==
    /\ smu \in [Services -> Owners]
    /\ \A s \in Services : smu[s] = "heal" <=> heal.pc = "route" /\ heal.svc = s
    /\ \A s \in Services : smu[s] = "reconciler" <=>
          call.svc = s /\ call.pc \in ReconcilerSteps

Structure == Maps /\ FaultsOK /\ FlowsOK /\ CallOK /\ HealOK /\ MuOK /\ SmuOK
-----------------------------------------------------------------------------
(* Initial states *)

LEMMA StructureInit == Init => Structure
<1> SUFFICES ASSUME Init PROVE Structure
  OBVIOUS
<1>1. Maps
  BY NfqlbAssumption DEF Init, Maps, TargetsOK, NoMap
<1>2. FaultsOK /\ FlowsOK
  BY NfqlbAssumption DEF Init, FaultsOK, FlowsOK, NoMap
<1>3. CallOK /\ call.pc = "none"
  BY DEF Init, CallOK, CallRecords, Idle, Calls, CallSteps
<1>4. HealOK /\ heal.pc = "sleep"
  BY DEF Init, HealOK, HealRecords, Sleep
<1>5. MuOK /\ SmuOK
  BY <1>3, <1>4 DEF Init, MuOK, SmuOK, Owners, ReconcilerSteps
<1>6. QED
  BY <1>1, <1>2, <1>3, <1>4, <1>5 DEF Structure
-----------------------------------------------------------------------------
(* Every step either leaves the maps alone or is one of these. *)
StoreChange ==
    \/ AddServiceExisting \/ AddServiceInit
    \/ DeleteServiceUnknown \/ DeleteServiceForget \/ DeleteServiceUnlink
    \/ \E id \in Ids : DeleteServiceTarget(id)
    \/ DeleteServiceReturn
    \/ AddTargetActivate \/ DeleteTargetDeactivate

LEMMA StoreCases == [Next]_vars => UNCHANGED store \/ StoreChange
<1> SUFFICES ASSUME [Next]_vars PROVE UNCHANGED store \/ StoreChange
  OBVIOUS
<1> USE DEF store, goVars, lockVars, extVars
<1>1. CASE Request
  BY <1>1 DEF Request, CallAddService, CallDeleteService, CallAddTarget,
     CallDeleteTarget, AddFlow, DeleteFlow
<1>2. CASE RunAddService
  BY <1>2 DEF RunAddService, StoreChange, AddServiceNoRoom, AddServiceInitFails
<1>3. CASE RunDeleteService
  BY <1>3 DEF RunDeleteService, StoreChange, DeleteServiceUnlinkFails,
     DeleteServiceList, DeleteServiceListFails, DeleteServiceFlow
<1>4. CASE RunAddTarget
  BY <1>4 DEF RunAddTarget, StoreChange, AddTargetExisting, AddTargetActivateFails,
     AddTargetRoute, AddTargetReturn
<1>5. CASE RunDeleteTarget
  BY <1>5 DEF RunDeleteTarget, StoreChange, DeleteTargetAbsent, DeleteTargetUnroute,
     DeleteTargetReturn
<1>6. CASE RunHeal
  BY <1>6 DEF RunHeal, HealBegin, HealLock, HealRoute, HealUnlock, HealEnd
<1>7. CASE UNCHANGED vars
  BY <1>7 DEF vars
<1>8. QED
  BY <1>1, <1>2, <1>3, <1>4, <1>5, <1>6, <1>7 DEF Next, RunCall
-----------------------------------------------------------------------------
(* A service has no targets when it is made. *)
LEMMA NoMapLemma == DOMAIN NoMap = {}
BY DEF NoMap

LEMMA TargetGoes ==
  ASSUME NEW t, TargetsOK(t), NEW s, NEW id
  PROVE  TargetsOK([t EXCEPT ![s] = Without(@, id)])
<1> DEFINE u == [t EXCEPT ![s] = Without(@, id)]
<1>1. DOMAIN u = Services
  BY DEF TargetsOK
<1>2. \A r \in Services \ {s} : u[r] = t[r]
  BY DEF TargetsOK
<1>3. s \in Services => u[s] = Without(t[s], id)
  BY DEF TargetsOK
<1> HIDE DEF u
<1>4. ASSUME NEW r \in Services, NEW i \in DOMAIN u[r]
      PROVE  i \in Ids /\ u[r][i] \subseteq Addresses
  <2>1. CASE r = s
    <3>1. i \in DOMAIN t[s] /\ u[s][i] = t[s][i]
      BY <1>3, <1>4, <2>1 DEF Without
    <3>2. QED
      BY <2>1, <3>1 DEF TargetsOK
  <2>2. CASE r # s
    BY <1>2, <1>4, <2>2 DEF TargetsOK
  <2>3. QED
    BY <2>1, <2>2
<1>5. TargetsOK(u)
  BY <1>1, <1>4 DEF TargetsOK
<1>6. QED
  BY <1>5 DEF u

LEMMA TargetComes ==
  ASSUME NEW t, TargetsOK(t), NEW s, NEW id \in Ids, NEW ips \in SUBSET Addresses
  PROVE  TargetsOK([t EXCEPT ![s] = With(@, id, ips)])
<1> DEFINE u == [t EXCEPT ![s] = With(@, id, ips)]
<1>1. DOMAIN u = Services
  BY DEF TargetsOK
<1>2. \A r \in Services \ {s} : u[r] = t[r]
  BY DEF TargetsOK
<1>3. s \in Services => u[s] = With(t[s], id, ips)
  BY DEF TargetsOK
<1> HIDE DEF u
<1>4. ASSUME NEW r \in Services, NEW i \in DOMAIN u[r]
      PROVE  i \in Ids /\ u[r][i] \subseteq Addresses
  <2>1. CASE r = s
    <3>1. \/ i = id /\ u[s][i] = ips
          \/ i \in DOMAIN t[s] /\ u[s][i] = t[s][i]
      BY <1>3, <1>4, <2>1 DEF With
    <3>2. QED
      BY <2>1, <3>1 DEF TargetsOK
  <2>2. CASE r # s
    BY <1>2, <1>4, <2>2 DEF TargetsOK
  <2>3. QED
    BY <2>1, <2>2
<1>5. TargetsOK(u)
  BY <1>1, <1>4 DEF TargetsOK
<1>6. QED
  BY <1>5 DEF u

LEMMA MapsStep ==
  ASSUME Structure, [Next]_vars
  PROVE  Maps'
<1> USE DEF Structure
<1>1. CASE UNCHANGED store
  BY <1>1 DEF store, Maps
<1>2. CASE AddServiceExisting
  BY <1>2 DEF AddServiceExisting, Enter, At, Maps, CallOK, extVars
<1>3. CASE AddServiceInit
  <2>1. PICK o \in Offsets : offset' = [offset EXCEPT ![call.svc] = o]
    BY <1>3 DEF AddServiceInit
  <2>2. o \in Nat
    BY NfqlbAssumption DEF Offsets, Placements
  <2>3. call.svc \in Services
    BY <1>3 DEF AddServiceInit, Enter, At, CallOK, Idle
  <2>4. /\ services' = services \cup {call.svc} /\ held' = held \cup {call.svc}
        /\ targets' = [targets EXCEPT ![call.svc] = NoMap]
        /\ active' = [active EXCEPT ![call.svc] = NoMap]
    BY <1>3 DEF AddServiceInit
  <2>5. QED
    BY <2>1, <2>2, <2>3, <2>4, NoMapLemma DEF Maps, TargetsOK
<1>4. CASE DeleteServiceUnknown \/ DeleteServiceForget \/ DeleteServiceUnlink
  BY <1>4 DEF DeleteServiceUnknown, DeleteServiceForget, DeleteServiceUnlink, Maps,
     goVars, extVars
<1>5. ASSUME NEW id \in Ids, DeleteServiceTarget(id) PROVE Maps'
  <2>1. targets' = [targets EXCEPT ![call.svc] = Without(@, id)]
        /\ UNCHANGED <<services, offset, held, active>>
    BY <1>5 DEF DeleteServiceTarget, DeactivateFails
  <2>2. QED
    BY <2>1, TargetGoes DEF Maps
<1>6. CASE DeleteServiceReturn
  BY <1>6 DEF DeleteServiceReturn, Maps, extVars
<1>7. CASE AddTargetActivate
  <2>1. /\ targets' = [targets EXCEPT ![call.svc] = With(@, call.id, call.ips)]
        /\ DOMAIN active' = DOMAIN active
        /\ UNCHANGED <<services, offset, held>>
    BY <1>7 DEF AddTargetActivate
  <2>2. call.id \in Ids /\ call.ips \subseteq Addresses
    BY <1>7 DEF AddTargetActivate, EnterService, At, CallOK, CallRecords
  <2>3. QED
    BY <2>1, <2>2, TargetComes DEF Maps
<1>8. CASE DeleteTargetDeactivate
  <2>1. /\ targets' = [targets EXCEPT ![call.svc] = Without(@, call.id)]
        /\ DOMAIN active' = DOMAIN active
        /\ UNCHANGED <<services, offset, held>>
    BY <1>8 DEF DeleteTargetDeactivate, Deactivate, DeactivateFails
  <2>2. QED
    BY <2>1, TargetGoes DEF Maps
<1>9. QED
  BY <1>1, <1>2, <1>3, <1>4, <1>5, <1>6, <1>7, <1>8, StoreCases DEF StoreChange
-----------------------------------------------------------------------------
(* The parts about failures, calls, heal and the locks *)

LEMMA FaultsCases == [Next]_vars => UNCHANGED faults \/ Fault
<1> SUFFICES ASSUME [Next]_vars PROVE UNCHANGED faults \/ Fault
  OBVIOUS
<1> USE DEF goVars, lockVars, extVars, NoFault
<1>1. CASE Request
  BY <1>1 DEF Request, CallAddService, CallDeleteService, CallAddTarget, CallDeleteTarget,
     AddFlow, DeleteFlow, FlowDelete, FlowDeleteFails, FlowChange, FlowChangeFails
<1>2. CASE RunAddService
  BY <1>2 DEF RunAddService, AddServiceExisting, AddServiceNoRoom, AddServiceInit,
     AddServiceInitFails
<1>3. CASE RunDeleteService
  BY <1>3 DEF RunDeleteService, DeleteServiceUnknown, DeleteServiceForget,
     DeleteServiceUnlink, DeleteServiceUnlinkFails, DeleteServiceTarget, DeactivateFails,
     DeleteServiceList, DeleteServiceListFails, DeleteServiceFlow, FlowDelete,
     FlowDeleteFails, FlowChange, FlowChangeFails, DeleteServiceReturn
<1>4. CASE RunAddTarget
  BY <1>4 DEF RunAddTarget, AddTargetExisting, AddTargetActivate, AddTargetActivateFails,
     AddTargetRoute, Route, AddTargetReturn
<1>5. CASE RunDeleteTarget
  BY <1>5 DEF RunDeleteTarget, DeleteTargetAbsent, DeleteTargetDeactivate, Deactivate,
     DeactivateFails, DeleteTargetUnroute, Unroute, DeleteTargetReturn
<1>6. CASE RunHeal
  BY <1>6 DEF RunHeal, HealBegin, HealLock, HealRoute, Route, HealUnlock, HealEnd
<1>7. CASE UNCHANGED vars
  BY <1>7 DEF vars
<1>8. QED
  BY <1>1, <1>2, <1>3, <1>4, <1>5, <1>6, <1>7 DEF Next, RunCall

LEMMA FaultsStep ==
  ASSUME Structure, [Next]_vars
  PROVE  FaultsOK'
<1>1. UNCHANGED faults \/ Fault
  BY FaultsCases
<1>2. QED
  BY <1>1, NfqlbAssumption DEF Fault, FaultsOK, Structure

(* The flow table and the nftables sets change in these steps only. *)
FlowsMove ==
    \/ \E s \in Services, f \in Flows :
          (\E cidrs \in CidrSets : AddFlow(s, f, cidrs)) \/ DeleteFlow(s, f)
    \/ \E f \in Flows : DeleteServiceFlow(f)

LEMMA FlowsCases == [Next]_vars => UNCHANGED <<flows, vips>> \/ FlowsMove
<1> SUFFICES ASSUME [Next]_vars PROVE UNCHANGED <<flows, vips>> \/ FlowsMove
  OBVIOUS
<1> USE DEF goVars, lockVars, extVars
<1>1. CASE Request
  BY <1>1 DEF Request, FlowsMove, CallAddService, CallDeleteService, CallAddTarget,
     CallDeleteTarget
<1>2. CASE RunAddService
  BY <1>2 DEF RunAddService, AddServiceExisting, AddServiceNoRoom, AddServiceInit,
     AddServiceInitFails
<1>3. CASE RunDeleteService
  BY <1>3 DEF RunDeleteService, FlowsMove, DeleteServiceUnknown, DeleteServiceForget,
     DeleteServiceUnlink, DeleteServiceUnlinkFails, DeleteServiceTarget,
     DeleteServiceList, DeleteServiceListFails, DeleteServiceReturn
<1>4. CASE RunAddTarget
  BY <1>4 DEF RunAddTarget, AddTargetExisting, AddTargetActivate, AddTargetActivateFails,
     AddTargetRoute, AddTargetReturn
<1>5. CASE RunDeleteTarget
  BY <1>5 DEF RunDeleteTarget, DeleteTargetAbsent, DeleteTargetDeactivate,
     DeleteTargetUnroute, DeleteTargetReturn
<1>6. CASE RunHeal
  BY <1>6 DEF RunHeal, HealBegin, HealLock, HealRoute, HealUnlock, HealEnd
<1>7. CASE UNCHANGED vars
  BY <1>7 DEF vars
<1>8. QED
  BY <1>1, <1>2, <1>3, <1>4, <1>5, <1>6, <1>7 DEF Next, RunCall

LEMMA FlowsStep ==
  ASSUME Structure, [Next]_vars
  PROVE  FlowsOK'
<1>1. ASSUME NEW f \in Flows, FlowDelete(f) \/ FlowDeleteFails(f)
      PROVE  FlowsOK'
  <2>1. flows' \in {flows, Without(flows, f)}
    BY <1>1 DEF FlowDelete, FlowDeleteFails, FlowChange, FlowChangeFails
  <2>2. DOMAIN flows' \subseteq DOMAIN flows
    BY <2>1 DEF Without
  <2>3. QED
    BY <2>2 DEF FlowsOK, Structure
<1>2. ASSUME NEW s \in Services, NEW f \in Flows, NEW cidrs \in CidrSets, AddFlow(s, f, cidrs)
      PROVE  FlowsOK'
  <2>1. PICK entry : flows' \in {flows, With(flows, f, entry)}
    BY <1>2 DEF AddFlow, FlowChange, FlowChangeFails
  <2>2. DOMAIN flows' \subseteq DOMAIN flows \cup {f}
    BY <2>1 DEF With
  <2>3. QED
    BY <2>2 DEF FlowsOK, Structure
<1>3. CASE UNCHANGED flows
  BY <1>3 DEF FlowsOK, Structure
<1>4. QED
  BY <1>1, <1>2, <1>3, FlowsCases DEF FlowsMove, DeleteFlow, DeleteServiceFlow

LEMMA IdleIsOK == Idle \in CallRecords /\ Idle.op = "none" /\ Idle.pc = "none"
BY DEF Idle, CallRecords, Calls, CallSteps

(* The steps that neither end a call nor leave it where it is. *)
CallMoves ==
    \/ \E s \in Services : CallAddService(s) \/ CallDeleteService(s)
    \/ \E s \in Services, id \in Ids :
          (\E ips \in AddressSets : CallAddTarget(s, id, ips)) \/ CallDeleteTarget(s, id)
    \/ DeleteServiceForget \/ DeleteServiceUnlink
    \/ \E id \in Ids : DeleteServiceTarget(id)
    \/ DeleteServiceList
    \/ \E f \in Flows : DeleteServiceFlow(f)
    \/ AddTargetActivate \/ DeleteTargetDeactivate
    \/ \E ip \in Addresses : AddTargetRoute(ip) \/ DeleteTargetUnroute(ip)

LEMMA CallCases == [Next]_vars => UNCHANGED call \/ call' = Idle \/ CallMoves
<1> SUFFICES ASSUME [Next]_vars PROVE UNCHANGED call \/ call' = Idle \/ CallMoves
  OBVIOUS
<1> USE DEF Return
<1>1. CASE Request
  BY <1>1 DEF Request, CallMoves, AddFlow, DeleteFlow
<1>2. CASE RunAddService
  BY <1>2 DEF RunAddService, AddServiceExisting, AddServiceNoRoom, AddServiceInit,
     AddServiceInitFails
<1>3. CASE RunDeleteService
  BY <1>3 DEF RunDeleteService, CallMoves, DeleteServiceUnknown, DeleteServiceUnlinkFails,
     DeleteServiceListFails, DeleteServiceReturn
<1>4. CASE RunAddTarget
  BY <1>4 DEF RunAddTarget, CallMoves, AddTargetExisting, AddTargetActivateFails,
     AddTargetReturn
<1>5. CASE RunDeleteTarget
  BY <1>5 DEF RunDeleteTarget, CallMoves, DeleteTargetAbsent, DeleteTargetReturn
<1>6. CASE RunHeal
  BY <1>6 DEF RunHeal, HealBegin, HealLock, HealRoute, HealUnlock, HealEnd
<1>7. CASE UNCHANGED vars
  BY <1>7 DEF vars
<1>8. QED
  BY <1>1, <1>2, <1>3, <1>4, <1>5, <1>6, <1>7 DEF Next, RunCall

LEMMA CallStep ==
  ASSUME Structure, [Next]_vars
  PROVE  CallOK'
<1> USE IdleIsOK DEF Structure, CallOK
<1>1. CASE UNCHANGED call \/ call' = Idle
  BY <1>1
<1>2. ASSUME NEW s \in Services, CallAddService(s) \/ CallDeleteService(s) PROVE CallOK'
  BY <1>2 DEF CallAddService, CallDeleteService, Call, Idle, CallRecords, Calls, CallSteps
<1>3. ASSUME NEW s \in Services, NEW id \in Ids, NEW ips \in AddressSets,
             CallAddTarget(s, id, ips)
      PROVE  CallOK'
  BY <1>3, NfqlbAssumption DEF CallAddTarget, Idle, CallRecords, Calls, CallSteps
<1>4. ASSUME NEW s \in Services, NEW id \in Ids, CallDeleteTarget(s, id)
      PROVE  CallOK'
  <2>1. PICK ips \in SUBSET Addresses :
          call' = [Idle EXCEPT !.op = "DeleteTarget", !.svc = s, !.pc = "smu",
                               !.id = id, !.ips = ips]
    BY <1>4 DEF CallDeleteTarget, Maps, TargetsOK
  <2>2. QED
    BY <2>1 DEF Idle, CallRecords, Calls, CallSteps
<1>5. CASE DeleteServiceForget
  BY <1>5 DEF DeleteServiceForget, Enter, At, CallRecords, CallSteps
<1>6. CASE DeleteServiceUnlink
  <2>1. call.svc \in Services
    BY <1>6 DEF DeleteServiceUnlink, EnterService, At
  <2>2. DOMAIN targets[call.svc] \subseteq Ids
    BY <2>1 DEF Maps, TargetsOK
  <2>3. QED
    BY <1>6, <2>1, <2>2 DEF DeleteServiceUnlink, EnterService, At, CallRecords, CallSteps
<1>7. ASSUME NEW id \in Ids, DeleteServiceTarget(id) PROVE CallOK'
  BY <1>7 DEF DeleteServiceTarget, At, CallRecords
<1>8. CASE DeleteServiceList
  <2>1. PICK todo \in SUBSET Flows : call' = [call EXCEPT !.pc = "flows", !.todo = todo]
    BY <1>8 DEF DeleteServiceList, FlowsOK
  <2>2. QED
    BY <1>8, <2>1 DEF DeleteServiceList, At, CallRecords, CallSteps
<1>9. ASSUME NEW f \in Flows, DeleteServiceFlow(f) PROVE CallOK'
  BY <1>9 DEF DeleteServiceFlow, At, CallRecords
<1>10. CASE AddTargetActivate
  BY <1>10 DEF AddTargetActivate, EnterService, At, CallRecords, CallSteps
<1>11. ASSUME NEW ip \in Addresses, AddTargetRoute(ip) \/ DeleteTargetUnroute(ip) PROVE CallOK'
  BY <1>11 DEF AddTargetRoute, DeleteTargetUnroute, At, CallRecords
<1>12. CASE DeleteTargetDeactivate
  BY <1>12 DEF DeleteTargetDeactivate, EnterService, At, Return, CallRecords, CallSteps
<1>13. QED
  BY <1>1, <1>2, <1>3, <1>4, <1>5, <1>6, <1>7, <1>8, <1>9, <1>10, <1>11, <1>12,
     CallCases DEF CallMoves

LEMMA HealCases == [Next]_vars => UNCHANGED heal \/ RunHeal
<1> SUFFICES ASSUME [Next]_vars PROVE UNCHANGED heal \/ RunHeal
  OBVIOUS
<1>1. CASE Request
  BY <1>1 DEF Request, CallAddService, CallDeleteService, CallAddTarget,
     CallDeleteTarget, AddFlow, DeleteFlow
<1>2. CASE RunAddService
  BY <1>2 DEF RunAddService, AddServiceExisting, AddServiceNoRoom, AddServiceInit,
     AddServiceInitFails
<1>3. CASE RunDeleteService
  BY <1>3 DEF RunDeleteService, DeleteServiceUnknown, DeleteServiceForget,
     DeleteServiceUnlink, DeleteServiceUnlinkFails, DeleteServiceTarget,
     DeleteServiceList, DeleteServiceListFails, DeleteServiceFlow, DeleteServiceReturn
<1>4. CASE RunAddTarget
  BY <1>4 DEF RunAddTarget, AddTargetExisting, AddTargetActivate, AddTargetActivateFails,
     AddTargetRoute, AddTargetReturn
<1>5. CASE RunDeleteTarget
  BY <1>5 DEF RunDeleteTarget, DeleteTargetAbsent, DeleteTargetDeactivate,
     DeleteTargetUnroute, DeleteTargetReturn
<1>6. CASE UNCHANGED vars
  BY <1>6 DEF vars
<1>7. QED
  BY <1>1, <1>2, <1>3, <1>4, <1>5, <1>6 DEF Next, RunCall

LEMMA HealStep ==
  ASSUME Structure, [Next]_vars
  PROVE  HealOK'
<1> USE DEF Structure, HealOK
<1>1. CASE HealBegin
  BY <1>1 DEF HealBegin, Maps, HealRecords
<1>2. ASSUME NEW s \in Services, HealLock(s) PROVE HealOK'
  <2>1. PICK routes \in SUBSET (Ids \X Addresses) :
          heal' = [pc |-> "route", todo |-> heal.todo \ {s}, svc |-> s, routes |-> routes]
    BY <1>2 DEF HealLock
  <2>2. heal.todo \subseteq Services
    BY DEF HealRecords
  <2>3. QED
    BY <2>1, <2>2 DEF HealRecords
<1>3. ASSUME NEW id \in Ids, NEW ip \in Addresses, HealRoute(id, ip) PROVE HealOK'
  BY <1>3 DEF HealRoute, HealRecords
<1>4. CASE HealUnlock
  BY <1>4 DEF HealUnlock, HealRecords
<1>5. CASE HealEnd
  BY <1>5 DEF HealEnd, Sleep, HealRecords
<1>6. CASE UNCHANGED heal
  BY <1>6
<1>7. QED
  BY <1>1, <1>2, <1>3, <1>4, <1>5, <1>6, HealCases DEF RunHeal

LEMMA MuStep ==
  ASSUME Structure, [Next]_vars
  PROVE  MuOK'
<1> USE DEF Structure, MuOK
<1>1. UNCHANGED mu \/ DeleteServiceUnknown \/ HealBegin \/ HealEnd
  <2> USE DEF goVars, lockVars, extVars
  <2>1. CASE Request
    BY <2>1 DEF Request, CallAddService, CallDeleteService, CallAddTarget, CallDeleteTarget,
       AddFlow, DeleteFlow
  <2>2. CASE RunAddService
    BY <2>2 DEF RunAddService, AddServiceExisting, AddServiceNoRoom, AddServiceInit,
       AddServiceInitFails
  <2>3. CASE RunDeleteService
    BY <2>3 DEF RunDeleteService, DeleteServiceForget, DeleteServiceUnlink,
       DeleteServiceUnlinkFails, DeleteServiceTarget, DeleteServiceList,
       DeleteServiceListFails, DeleteServiceFlow, DeleteServiceReturn
  <2>4. CASE RunAddTarget
    BY <2>4 DEF RunAddTarget, AddTargetExisting, AddTargetActivate, AddTargetActivateFails,
       AddTargetRoute, AddTargetReturn
  <2>5. CASE RunDeleteTarget
    BY <2>5 DEF RunDeleteTarget, DeleteTargetAbsent, DeleteTargetDeactivate,
       DeleteTargetUnroute, DeleteTargetReturn
  <2>6. CASE RunHeal
    BY <2>6 DEF RunHeal, HealLock, HealRoute, HealUnlock
  <2>7. CASE UNCHANGED vars
    BY <2>7 DEF vars
  <2>8. QED
    BY <2>1, <2>2, <2>3, <2>4, <2>5, <2>6, <2>7 DEF Next, RunCall
<1>2. CASE DeleteServiceUnknown
  BY <1>2 DEF DeleteServiceUnknown, Enter, Owners
<1>3. CASE HealBegin
  BY <1>3 DEF HealBegin, HealOK, HealRecords, Owners
<1>4. CASE HealEnd
  BY <1>4 DEF HealEnd, Sleep, Owners
<1>5. ASSUME UNCHANGED mu, ~HealBegin, ~HealEnd PROVE MuOK'
  <2>1. heal'.pc = "sleep" <=> heal.pc = "sleep"
    <3>1. ASSUME NEW s \in Services, HealLock(s)
          PROVE  heal'.pc = "route" /\ heal.pc = "next"
      BY <3>1 DEF HealLock
    <3>2. ASSUME NEW id \in Ids, NEW ip \in Addresses, HealRoute(id, ip)
          PROVE  heal'.pc = heal.pc
      BY <3>2 DEF HealRoute, HealOK, HealRecords
    <3>3. CASE HealUnlock
      BY <3>3 DEF HealUnlock, HealOK, HealRecords
    <3>4. QED
      BY <1>5, <3>1, <3>2, <3>3, HealCases DEF RunHeal
  <2>2. QED
    BY <1>5, <2>1
<1>6. QED
  BY <1>1, <1>2, <1>3, <1>4, <1>5

LEMMA SmuStep ==
  ASSUME Structure, [Next]_vars
  PROVE  SmuOK'
<1> USE DEF Structure, SmuOK, ReconcilerSteps
<1> DEFINE Mine(c, s) == c.svc = s /\ c.pc \in ReconcilerSteps
           Heals(h, s) == h.pc = "route" /\ h.svc = s
<1>1. ASSUME UNCHANGED <<smu, heal>>, \A s \in Services : Mine(call', s) <=> Mine(call, s)
      PROVE  SmuOK'
  BY <1>1
<1>2. ASSUME Lock, UNCHANGED heal, call.svc \in Services, smu[call.svc] = "free",
             call'.svc = call.svc, call'.pc \in ReconcilerSteps, call.pc \notin ReconcilerSteps
      PROVE  SmuOK'
  BY <1>2 DEF Lock, Owners
<1>3. ASSUME Unlock, UNCHANGED heal, call.svc \in Services, call' = Idle,
             call.pc \in ReconcilerSteps
      PROVE  SmuOK'
  BY <1>3, IdleIsOK DEF Unlock, Owners
<1> USE DEF goVars, lockVars, extVars
<1>4. CASE Request
  <2>1. UNCHANGED <<smu, heal>>
    BY <1>4 DEF Request, CallAddService, CallDeleteService, CallAddTarget,
       CallDeleteTarget, AddFlow, DeleteFlow
  <2>2. call' = call \/ (call = Idle /\ call'.pc \in {"mu", "smu"})
    BY <1>4 DEF Request, CallAddService, CallDeleteService, Call, CallAddTarget,
       CallDeleteTarget, AddFlow, DeleteFlow, Idle
  <2>3. QED
    BY <1>1, <2>1, <2>2, IdleIsOK
<1>5. CASE RunAddService \/ DeleteServiceUnknown \/ DeleteServiceForget \/ DeleteServiceUnlinkFails
           \/ AddTargetExisting \/ AddTargetActivateFails \/ DeleteTargetAbsent
  <2>1. UNCHANGED <<smu, heal>>
    BY <1>5 DEF RunAddService, AddServiceExisting, AddServiceNoRoom, AddServiceInit,
       AddServiceInitFails, DeleteServiceUnknown, DeleteServiceForget,
       DeleteServiceUnlinkFails, AddTargetExisting, AddTargetActivateFails,
       DeleteTargetAbsent
  <2>2. call.pc \in {"mu", "smu"}
    BY <1>5 DEF RunAddService, AddServiceExisting, AddServiceNoRoom, AddServiceInit,
       AddServiceInitFails, DeleteServiceUnknown, DeleteServiceForget,
       DeleteServiceUnlinkFails, AddTargetExisting, AddTargetActivateFails,
       DeleteTargetAbsent, Enter, EnterService, At
  <2>3. call'.pc \in {"none", "smu"}
    <3>1. CASE DeleteServiceForget
      BY <3>1 DEF DeleteServiceForget, CallOK, CallRecords
    <3>2. CASE ~DeleteServiceForget
      BY <1>5, <3>2, IdleIsOK DEF RunAddService, AddServiceExisting, AddServiceNoRoom,
         AddServiceInit, AddServiceInitFails, DeleteServiceUnknown,
         DeleteServiceUnlinkFails, AddTargetExisting, AddTargetActivateFails,
         DeleteTargetAbsent, Return
    <3>3. QED
      BY <3>1, <3>2
  <2>4. QED
    BY <1>1, <2>1, <2>2, <2>3
<1>6. CASE DeleteServiceUnlink
  BY <1>2, <1>6 DEF DeleteServiceUnlink, EnterService, At, CallOK, CallRecords, Idle
<1>7. ASSUME NEW id \in Ids, DeleteServiceTarget(id) PROVE SmuOK'
  BY <1>1, <1>7 DEF DeleteServiceTarget, At, CallOK, CallRecords
<1>8. CASE DeleteServiceList
  <2>1. PICK todo : call' = [call EXCEPT !.pc = "flows", !.todo = todo]
    BY <1>8 DEF DeleteServiceList
  <2>2. QED
    BY <1>1, <1>8, <2>1 DEF DeleteServiceList, At, CallOK, CallRecords
<1>9. ASSUME NEW f \in Flows, DeleteServiceFlow(f) PROVE SmuOK'
  BY <1>1, <1>9 DEF DeleteServiceFlow, At, CallOK, CallRecords
<1>10. CASE DeleteServiceListFails \/ DeleteServiceReturn \/ AddTargetReturn \/ DeleteTargetReturn
  <2>1. Unlock /\ UNCHANGED heal /\ call' = Idle
    BY <1>10 DEF DeleteServiceListFails, DeleteServiceReturn, AddTargetReturn,
       DeleteTargetReturn, Return
  <2>2. call.pc \in ReconcilerSteps
    BY <1>10 DEF DeleteServiceListFails, DeleteServiceReturn, AddTargetReturn,
       DeleteTargetReturn, At
  <2>3. call.svc \in Services
    BY <2>2, IdleIsOK DEF CallOK
  <2>4. QED
    BY <1>3, <2>1, <2>2, <2>3
<1>11. CASE AddTargetActivate
  BY <1>2, <1>11 DEF AddTargetActivate, EnterService, At, CallOK, CallRecords, Idle
<1>12. ASSUME NEW ip \in Addresses, AddTargetRoute(ip) \/ DeleteTargetUnroute(ip) PROVE SmuOK'
  BY <1>1, <1>12 DEF AddTargetRoute, DeleteTargetUnroute, At, CallOK, CallRecords
<1>13. CASE DeleteTargetDeactivate
  <2>1. At("DeleteTarget", "smu") /\ smu[call.svc] = "free" /\ UNCHANGED heal
    BY <1>13 DEF DeleteTargetDeactivate, EnterService
  <2>2. \/ Lock /\ call' = [call EXCEPT !.pc = "unroute"]
        \/ UNCHANGED smu /\ call' = Idle
    BY <1>13 DEF DeleteTargetDeactivate, Return
  <2>3. CASE Lock /\ call' = [call EXCEPT !.pc = "unroute"]
    BY <1>2, <2>1, <2>3 DEF At, CallOK, CallRecords, Idle
  <2>4. CASE UNCHANGED smu /\ call' = Idle
    BY <1>1, <2>1, <2>4, IdleIsOK DEF At
  <2>5. QED
    BY <2>2, <2>3, <2>4
<1>14. CASE HealBegin \/ HealEnd
  <2>1. UNCHANGED <<smu, call>>
    BY <1>14 DEF HealBegin, HealEnd
  <2>2. heal.pc # "route"
    BY <1>14 DEF HealBegin, HealEnd, Sleep
  <2>3. heal'.pc # "route"
    <3>1. CASE HealBegin
      BY <3>1 DEF HealBegin, HealOK, HealRecords
    <3>2. CASE HealEnd
      BY <3>2 DEF HealEnd, Sleep
    <3>3. QED
      BY <1>14, <3>1, <3>2
  <2>4. QED
    BY <2>1, <2>2, <2>3
<1>15. ASSUME NEW s \in Services, HealLock(s) PROVE SmuOK'
  <2>1. /\ smu' = [smu EXCEPT ![s] = "heal"] /\ smu[s] = "free" /\ UNCHANGED call
        /\ heal'.pc = "route" /\ heal'.svc = s /\ heal.pc = "next"
    BY <1>15 DEF HealLock
  <2>2. QED
    BY <2>1 DEF Owners
<1>16. ASSUME NEW id \in Ids, NEW ip \in Addresses, HealRoute(id, ip) PROVE SmuOK'
  <2>1. UNCHANGED <<smu, call>> /\ heal'.pc = heal.pc /\ heal'.svc = heal.svc
    BY <1>16 DEF HealRoute, HealOK, HealRecords
  <2>2. QED
    BY <2>1
<1>17. CASE HealUnlock
  <2>1. /\ smu' = [smu EXCEPT ![heal.svc] = "free"] /\ UNCHANGED call
        /\ heal.pc = "route" /\ heal.svc \in Services /\ heal'.pc = "next"
    BY <1>17 DEF HealUnlock, HealOK, HealRecords
  <2>2. QED
    BY <2>1 DEF Owners
<1>18. CASE UNCHANGED vars
  BY <1>1, <1>18 DEF vars
<1>19. QED
  BY <1>4, <1>5, <1>6, <1>7, <1>8, <1>9, <1>10, <1>11, <1>12, <1>13, <1>14, <1>15, <1>16,
     <1>17, <1>18
     DEF Next, RunCall, RunDeleteService, RunAddTarget, RunDeleteTarget, RunHeal

LEMMA StructureStep == Structure /\ [Next]_vars => Structure'
BY MapsStep, FaultsStep, FlowsStep, CallStep, HealStep, MuStep, SmuStep DEF Structure

LEMMA StructureIsTyped == Structure => TypeOK
BY DEF Structure, Maps, TargetsOK, FaultsOK, CallOK, CallRecords, HealOK, HealRecords,
   MuOK, SmuOK, ReconcilerSteps, TypeOK

(* The variables have their types, and each lock is held exactly by the    *)
(* call, or by heal, that is at a step where the code holds it (nfqlb.go:  *)
(* mu, Service.mu); only nfqlb.mu may have been kept by a call that is     *)
(* over.                                                                   *)
THEOREM TypeCorrect == Spec => []TypeOK
<1>1. QED
  BY StructureInit, StructureStep, StructureIsTyped, PTL DEF Spec
-----------------------------------------------------------------------------
(* What the locks are for: while heal walks over the services, no service  *)
(* comes or goes, and while it walks over the targets of one, neither do   *)
(* these.                                                                  *)

LEMMA ServicesStand ==
  ASSUME Structure, [Next]_vars, heal.pc # "sleep"
  PROVE  services' = services
<1>1. mu # "free"
  BY DEF Structure, MuOK
<1>2. CASE UNCHANGED store
  BY <1>2 DEF store
<1>3. CASE StoreChange
  BY <1>1, <1>3 DEF StoreChange, AddServiceExisting, AddServiceInit, DeleteServiceUnknown,
     DeleteServiceForget, DeleteServiceUnlink, DeleteServiceTarget, DeleteServiceReturn,
     AddTargetActivate, DeleteTargetDeactivate, Enter, goVars
<1>4. QED
  BY <1>2, <1>3, StoreCases

LEMMA TargetsStand ==
  ASSUME Structure, [Next]_vars, heal.pc = "route"
  PROVE  targets'[heal.svc] = targets[heal.svc]
<1>1. mu # "free" /\ heal.svc \in Services /\ smu[heal.svc] = "heal"
  BY DEF Structure, MuOK, SmuOK, HealOK
<1>2. CASE UNCHANGED targets
  BY <1>2
<1>3. ASSUME UNCHANGED targets \/ (call.svc # heal.svc
             /\ \E value : targets' = [targets EXCEPT ![call.svc] = value])
      PROVE  targets'[heal.svc] = targets[heal.svc]
  BY <1>1, <1>3 DEF Structure, Maps, TargetsOK
<1>4. ASSUME NEW id \in Ids, DeleteServiceTarget(id)
      PROVE  targets'[heal.svc] = targets[heal.svc]
  <2>1. call.svc # heal.svc
    BY <1>1, <1>4 DEF DeleteServiceTarget, At, Structure, SmuOK, ReconcilerSteps
  <2>2. QED
    BY <1>3, <1>4, <2>1 DEF DeleteServiceTarget
<1>5. CASE AddTargetActivate \/ DeleteTargetDeactivate
  <2>1. call.svc # heal.svc
    BY <1>1, <1>5 DEF AddTargetActivate, DeleteTargetDeactivate, EnterService
  <2>2. QED
    BY <1>3, <1>5, <2>1 DEF AddTargetActivate, DeleteTargetDeactivate
<1>6. CASE StoreChange
  BY <1>1, <1>2, <1>4, <1>5, <1>6 DEF StoreChange, AddServiceExisting, AddServiceInit,
     DeleteServiceUnknown, DeleteServiceForget, DeleteServiceUnlink, DeleteServiceReturn,
     Enter, goVars
<1>7. QED
  BY <1>2, <1>6, StoreCases DEF store

LEMMA HealFreshStep ==
  ASSUME Structure, HealIsFresh, [Next]_vars
  PROVE  HealIsFresh'
<1> USE DEF HealIsFresh, Wanted
<1>1. heal \in HealRecords
  BY DEF Structure, HealOK
<1>2. CASE heal.pc = "sleep"
  <2>1. CASE UNCHANGED heal
    BY <1>2, <2>1 DEF Structure, HealOK, Sleep
  <2>2. CASE HealBegin
    BY <1>1, <2>2 DEF HealBegin, HealRecords, goVars
  <2>3. QED
    BY <1>2, <2>1, <2>2, HealCases DEF RunHeal, HealLock, HealRoute, HealUnlock, HealEnd
<1>3. CASE heal.pc # "sleep"
  <2>1. services' = services
    BY <1>3, ServicesStand
  <2>2. CASE UNCHANGED heal
    BY <2>1, <2>2, TargetsStand
  <2>3. ASSUME NEW s \in Services, HealLock(s) PROVE HealIsFresh'
    <3>1. /\ heal'.pc = "route" /\ heal'.todo = heal.todo \ {s} /\ heal'.svc = s
          /\ heal'.routes = {r \in Ids \X Addresses :
                               r[1] \in DOMAIN targets[s] /\ r[2] \in targets[s][r[1]]}
          /\ s \in heal.todo /\ UNCHANGED targets
      BY <2>3 DEF HealLock, goVars
    <3>2. QED
      BY <2>1, <3>1
  <2>4. ASSUME NEW id \in Ids, NEW ip \in Addresses, HealRoute(id, ip) PROVE HealIsFresh'
    <3>1. /\ heal'.pc = heal.pc /\ heal'.todo = heal.todo /\ heal'.svc = heal.svc
          /\ heal'.routes \subseteq heal.routes /\ UNCHANGED targets
      BY <1>1, <2>4 DEF HealRoute, HealRecords, goVars
    <3>2. QED
      BY <2>1, <3>1
  <2>5. CASE HealUnlock
    BY <1>1, <2>1, <2>5 DEF HealUnlock, HealRecords
  <2>6. CASE HealBegin \/ HealEnd
    BY <1>3, <2>6 DEF HealBegin, HealEnd, Sleep
  <2>7. QED
    BY <2>2, <2>3, <2>4, <2>5, <2>6, HealCases DEF RunHeal
<1>4. QED
  BY <1>2, <1>3

LEMMA HealFreshInit == Init => HealIsFresh
BY DEF Init, HealIsFresh, Sleep

(* heal works on what is true now (nfqlb.go: heal): the services it has    *)
(* yet to visit are in the map, and the policy routes it has yet to create *)
(* belong to targets.                                                      *)
THEOREM HealWorksOnWhatIsTrue == Spec => []HealIsFresh
<1>1. QED
  BY StructureInit, StructureStep, HealFreshInit, HealFreshStep, PTL DEF Spec
-----------------------------------------------------------------------------
(* What a call knows at its steps.  The services of the map have a handle; *)
(* one that is being deleted has left the map; an endpoint that is being   *)
(* routed is a target of a service with a handle.                          *)

Handles ==
    /\ services \subseteq held
    /\ call.op = "DeleteService" /\ call.pc # "mu" => call.svc \notin services
    /\ call.op = "AddTarget" => call.svc \in held

Routing ==
    call.op = "AddTarget" /\ call.pc = "route" =>
        /\ call.id \in DOMAIN targets[call.svc]
        /\ call.ips \subseteq targets[call.svc][call.id]

LEMMA HandlesStep ==
  ASSUME Structure, Handles, [Next]_vars
  PROVE  Handles'
<1> USE DEF Handles, goVars, lockVars, extVars
<1>1. call \in CallRecords
  BY DEF Structure, CallOK
<1>2. CASE Request
  <2>1. services' = services /\ held' = held
    BY <1>2 DEF Request, CallAddService, CallDeleteService, CallAddTarget,
       CallDeleteTarget, AddFlow, DeleteFlow
  <2>2. \/ call' = call
        \/ call'.op \in {"AddService", "DeleteTarget"}
        \/ call'.op = "DeleteService" /\ call'.pc = "mu"
        \/ call'.op = "AddTarget" /\ call'.svc \in held
    BY <1>2 DEF Request, CallAddService, CallDeleteService, Call, CallAddTarget,
       CallDeleteTarget, AddFlow, DeleteFlow, Idle
  <2>3. QED
    BY <2>1, <2>2
<1>3. CASE RunAddService
  <2>1. call' = Idle /\ held \subseteq held' /\ services' \subseteq held'
    BY <1>3 DEF RunAddService, AddServiceExisting, AddServiceNoRoom, AddServiceInit,
       AddServiceInitFails, Return
  <2>2. QED
    BY <2>1, IdleIsOK
<1>4. CASE DeleteServiceUnknown
  BY <1>4, IdleIsOK DEF DeleteServiceUnknown, Enter, At, Return
<1>5. CASE DeleteServiceForget
  BY <1>1, <1>5 DEF DeleteServiceForget, Enter, At, CallRecords
<1>6. CASE DeleteServiceUnlink
  BY <1>1, <1>6 DEF DeleteServiceUnlink, EnterService, At, CallRecords
<1>7. CASE DeleteServiceUnlinkFails \/ DeleteServiceListFails
  BY <1>7, IdleIsOK DEF DeleteServiceUnlinkFails, DeleteServiceListFails, Return
<1>8. ASSUME NEW id \in Ids, DeleteServiceTarget(id) PROVE Handles'
  BY <1>1, <1>8 DEF DeleteServiceTarget, At, CallRecords
<1>9. CASE DeleteServiceList
  <2>1. PICK todo : call' = [call EXCEPT !.pc = "flows", !.todo = todo]
    BY <1>9 DEF DeleteServiceList
  <2>2. QED
    BY <1>1, <1>9, <2>1 DEF DeleteServiceList, At, CallRecords
<1>10. ASSUME NEW f \in Flows, DeleteServiceFlow(f) PROVE Handles'
  BY <1>1, <1>10 DEF DeleteServiceFlow, At, CallRecords
<1>11. CASE DeleteServiceReturn
  BY <1>11, IdleIsOK DEF DeleteServiceReturn, At, Return
<1>12. CASE RunAddTarget \/ RunDeleteTarget
  <2>1. services' = services /\ held' = held
    BY <1>12 DEF RunAddTarget, AddTargetExisting, AddTargetActivate, AddTargetActivateFails,
       AddTargetRoute, AddTargetReturn, RunDeleteTarget, DeleteTargetAbsent,
       DeleteTargetDeactivate, DeleteTargetUnroute, DeleteTargetReturn
  <2>2. call' = Idle \/ (call'.op = call.op /\ call'.svc = call.svc)
    BY <1>1, <1>12 DEF RunAddTarget, AddTargetExisting, AddTargetActivate,
       AddTargetActivateFails, AddTargetRoute, AddTargetReturn, RunDeleteTarget,
       DeleteTargetAbsent, DeleteTargetDeactivate, DeleteTargetUnroute,
       DeleteTargetReturn, Return, CallRecords
  <2>3. call.op # "DeleteService"
    BY <1>12 DEF RunAddTarget, AddTargetExisting, AddTargetActivate, AddTargetActivateFails,
       AddTargetRoute, AddTargetReturn, RunDeleteTarget, DeleteTargetAbsent,
       DeleteTargetDeactivate, DeleteTargetUnroute, DeleteTargetReturn, EnterService, At
  <2>4. QED
    BY <2>1, <2>2, <2>3, IdleIsOK
<1>13. CASE RunHeal
  BY <1>13 DEF RunHeal, HealBegin, HealLock, HealRoute, HealUnlock, HealEnd
<1>14. CASE UNCHANGED vars
  BY <1>14 DEF vars
<1>15. QED
  BY <1>2, <1>3, <1>4, <1>5, <1>6, <1>7, <1>8, <1>9, <1>10, <1>11, <1>12, <1>13, <1>14
     DEF Next, RunCall, RunDeleteService

LEMMA RoutingStep ==
  ASSUME Structure, Routing, [Next]_vars
  PROVE  Routing'
<1> USE DEF Routing
<1>1. call \in CallRecords
  BY DEF Structure, CallOK
<1>2. CASE call' = Idle
  BY <1>2, IdleIsOK
<1>3. CASE AddTargetActivate
  <2>1. call.svc \in DOMAIN targets
    BY <1>3 DEF AddTargetActivate, EnterService, At, Structure, CallOK, Idle, Maps, TargetsOK
  <2>2. /\ targets' = [targets EXCEPT ![call.svc] = With(@, call.id, call.ips)]
        /\ call' = [call EXCEPT !.pc = "route"]
    BY <1>3 DEF AddTargetActivate
  <2>3. targets'[call.svc] = With(targets[call.svc], call.id, call.ips)
    BY <2>1, <2>2
  <2>4. /\ call.id \in DOMAIN targets'[call.svc]
        /\ targets'[call.svc][call.id] = call.ips
    BY <2>3 DEF With
  <2>5. call'.svc = call.svc /\ call'.id = call.id /\ call'.ips = call.ips
    BY <1>1, <2>2 DEF CallRecords
  <2>6. QED
    BY <2>4, <2>5
<1>4. ASSUME NEW ip \in Addresses, AddTargetRoute(ip) PROVE Routing'
  <2>1. /\ call'.op = call.op /\ call'.pc = call.pc /\ call'.svc = call.svc
        /\ call'.id = call.id /\ call'.ips \subseteq call.ips
    BY <1>1, <1>4 DEF AddTargetRoute, CallRecords
  <2>2. QED
    BY <1>4, <2>1 DEF AddTargetRoute, goVars
<1>5. CASE CallMoves /\ ~AddTargetActivate /\ ~(\E ip \in Addresses : AddTargetRoute(ip))
  <2>1. CASE call'.op # "AddTarget"
    BY <2>1
  <2>2. CASE call'.pc # "route"
    BY <2>2
  <2>3. ASSUME NEW s \in Services,
               \/ CallAddService(s) \/ CallDeleteService(s)
               \/ \E id \in Ids : (\E ips \in AddressSets : CallAddTarget(s, id, ips))
                                   \/ CallDeleteTarget(s, id)
        PROVE  call'.pc # "route"
    BY <2>3 DEF CallAddService, CallDeleteService, Call, CallAddTarget, CallDeleteTarget, Idle
  <2>4. CASE DeleteServiceForget \/ DeleteServiceUnlink \/ DeleteServiceList
    BY <1>1, <2>4 DEF DeleteServiceForget, DeleteServiceUnlink, DeleteServiceList, CallRecords
  <2>5. ASSUME NEW x, DeleteServiceTarget(x) \/ DeleteServiceFlow(x) \/ DeleteTargetUnroute(x)
        PROVE  call'.op # "AddTarget"
    BY <1>1, <2>5 DEF DeleteServiceTarget, DeleteServiceFlow, DeleteTargetUnroute, At, CallRecords
  <2>6. CASE DeleteTargetDeactivate
    BY <1>1, <2>6, IdleIsOK DEF DeleteTargetDeactivate, EnterService, At, Return, CallRecords
  <2>7. QED
    BY <1>5, <2>1, <2>2, <2>3, <2>4, <2>5, <2>6 DEF CallMoves
<1>6. CASE UNCHANGED call
  <2>1. CASE UNCHANGED targets
    BY <1>6, <2>1
  <2>2. CASE StoreChange
    BY <1>1, <1>2, <1>3, <1>6, <2>2 DEF StoreChange, AddServiceExisting, AddServiceInit, Return,
       DeleteServiceUnknown, DeleteServiceForget, DeleteServiceUnlink,
       DeleteServiceTarget, DeleteServiceReturn, DeleteTargetDeactivate, EnterService, At
  <2>3. QED
    BY <2>1, <2>2, StoreCases DEF store
<1>7. QED
  BY <1>2, <1>3, <1>4, <1>5, <1>6, CallCases
-----------------------------------------------------------------------------
(* What nfqlb's shared memory holds of the services of the map *)

(* A target t of service s is active under its mark, an index that the     *)
(* shared memory has.                                                      *)
ActiveTarget(s, t) ==
    t < MaxTargets /\ t \in DOMAIN active[s] /\ active[s][t] = Mark(s, t)

Active ==
    \A s \in services : s \in shm /\ \A t \in DOMAIN targets[s] : ActiveTarget(s, t)

LEMMA ActiveStep ==
  ASSUME Structure, Handles, Active, [Next]_vars
  PROVE  Active'
<1> USE DEF Active, ActiveTarget, Mark
<1>1. /\ DOMAIN targets = Services /\ DOMAIN active = Services /\ DOMAIN offset = Services
      /\ services \subseteq Services
  BY DEF Structure, Maps, TargetsOK
<1>2. CASE UNCHANGED store
  BY <1>2 DEF store
<1>3. CASE AddServiceExisting \/ DeleteServiceUnknown \/ DeleteServiceForget \/ DeleteServiceReturn
  BY <1>3 DEF AddServiceExisting, DeleteServiceUnknown, DeleteServiceForget,
     DeleteServiceReturn, goVars, extVars
<1>4. CASE AddServiceInit
  <2>1. /\ services' = services \cup {call.svc} /\ shm' = shm \cup {call.svc}
        /\ targets' = [targets EXCEPT ![call.svc] = NoMap]
        /\ active' = [active EXCEPT ![call.svc] = NoMap]
        /\ \E o \in Offsets : offset' = [offset EXCEPT ![call.svc] = o]
        /\ call.svc \notin services
    BY <1>4 DEF AddServiceInit
  <2>2. ASSUME NEW s \in services
        PROVE  targets'[s] = targets[s] /\ active'[s] = active[s] /\ offset'[s] = offset[s]
    BY <1>1, <2>1
  <2>3. call.svc \in Services
    BY <1>4 DEF AddServiceInit, Enter, At, Structure, CallOK, Idle
  <2>4. DOMAIN targets'[call.svc] = {}
    BY <1>1, <2>1, <2>3, NoMapLemma
  <2>5. QED
    BY <2>1, <2>2, <2>4
<1>5. CASE DeleteServiceUnlink
  <2>1. call.svc \notin services
    BY <1>5 DEF DeleteServiceUnlink, EnterService, At, Handles
  <2>2. QED
    BY <1>5, <2>1 DEF DeleteServiceUnlink, goVars
<1>6. ASSUME NEW id \in Ids, DeleteServiceTarget(id) PROVE Active'
  <2>1. call.svc \notin services
    BY <1>6 DEF DeleteServiceTarget, At, Handles
  <2>2. QED
    BY <1>1, <1>6, <2>1 DEF DeleteServiceTarget, DeactivateFails
<1>7. CASE AddTargetActivate
  <2>1. /\ targets' = [targets EXCEPT ![call.svc] = With(@, call.id, call.ips)]
        /\ active' = [active EXCEPT ![call.svc] = With(@, call.id, Mark(call.svc, call.id))]
        /\ call.svc \in shm /\ call.id < MaxTargets
        /\ UNCHANGED <<services, offset, shm>>
    BY <1>7 DEF AddTargetActivate, Activatable
  <2>2. ASSUME NEW s \in services, s # call.svc
        PROVE  targets'[s] = targets[s] /\ active'[s] = active[s]
    BY <1>1, <2>1, <2>2
  <2>3. CASE call.svc \in services
    <3>1. /\ targets'[call.svc] = With(targets[call.svc], call.id, call.ips)
          /\ active'[call.svc] = With(active[call.svc], call.id, Mark(call.svc, call.id))
      BY <1>1, <2>1, <2>3
    <3>2. ASSUME NEW t \in DOMAIN targets'[call.svc]
          PROVE  /\ t < MaxTargets /\ t \in DOMAIN active'[call.svc]
                 /\ active'[call.svc][t] = Mark(call.svc, t)
      <4>1. CASE t = call.id
        BY <2>1, <3>1, <4>1 DEF With
      <4>2. CASE t # call.id
        <5>1. t \in DOMAIN targets[call.svc]
          BY <3>1, <3>2, <4>2 DEF With
        <5>2. t \in DOMAIN active'[call.svc] /\ active'[call.svc][t] = active[call.svc][t]
          BY <2>3, <3>1, <4>2, <5>1 DEF With
        <5>3. QED
          BY <2>3, <5>1, <5>2
      <4>3. QED
        BY <4>1, <4>2
    <3>3. QED
      BY <2>1, <2>2, <3>2
  <2>4. CASE call.svc \notin services
    BY <2>1, <2>2, <2>4
  <2>5. QED
    BY <2>3, <2>4
<1>8. CASE DeleteTargetDeactivate
  <2>1. /\ targets' = [targets EXCEPT ![call.svc] = Without(@, call.id)]
        /\ \/ active' = [active EXCEPT ![call.svc] = Without(@, call.id)]
           \/ active' = active
        /\ UNCHANGED <<services, offset, shm>>
    BY <1>8 DEF DeleteTargetDeactivate, Deactivate, DeactivateFails
  <2>2. ASSUME NEW s \in services, s # call.svc
        PROVE  targets'[s] = targets[s] /\ active'[s] = active[s]
    BY <1>1, <2>1, <2>2
  <2>3. ASSUME call.svc \in services, NEW t \in DOMAIN targets'[call.svc]
        PROVE  /\ t < MaxTargets /\ t \in DOMAIN active'[call.svc]
               /\ active'[call.svc][t] = Mark(call.svc, t)
    <3>1. targets'[call.svc] = Without(targets[call.svc], call.id)
      BY <1>1, <2>1, <2>3
    <3>2. t \in DOMAIN targets[call.svc] /\ t # call.id
      BY <2>3, <3>1 DEF Without
    <3>3. \/ active'[call.svc] = Without(active[call.svc], call.id)
          \/ active'[call.svc] = active[call.svc]
      BY <1>1, <2>1, <2>3
    <3>4. t \in DOMAIN active[call.svc]
      BY <2>3, <3>2
    <3>5. t \in DOMAIN active'[call.svc] /\ active'[call.svc][t] = active[call.svc][t]
      BY <3>2, <3>3, <3>4 DEF Without
    <3>6. QED
      BY <2>3, <3>2, <3>5
  <2>4. QED
    BY <2>1, <2>2, <2>3
<1>9. QED
  BY <1>2, <1>3, <1>4, <1>5, <1>6, <1>7, <1>8, StoreCases DEF StoreChange

(* The ranges of two services of the map do not meet. *)
Apart ==
    \A s1, s2 \in services :
        s1 # s2 => \/ offset[s1] + MaxTargets <= offset[s2]
                   \/ offset[s2] + MaxTargets <= offset[s1]

LEMMA ApartStep ==
  ASSUME Structure, Apart, [Next]_vars
  PROVE  Apart'
<1> USE DEF Apart
<1>1. offset \in [Services -> Nat] /\ services \subseteq Services
  BY DEF Structure, Maps
<1>2. CASE AddServiceInit
  <2>1. PICK o \in Offsets : offset' = [offset EXCEPT ![call.svc] = o]
    BY <1>2 DEF AddServiceInit
  <2>2. services' = services \cup {call.svc} /\ call.svc \notin services /\ call.svc \in Services
    BY <1>2 DEF AddServiceInit, Enter, At, Structure, CallOK, Idle
  <2>3. o \in Nat /\ FitsAt(o, MaxTargets, Table)
    BY NfqlbAssumption DEF Offsets, Placements, IsFirstFit
  <2>4. ASSUME NEW s \in services
        PROVE  o + MaxTargets <= offset[s] \/ offset[s] + MaxTargets <= o
    <3>1. DOMAIN Table = services /\ Table[s].offset = offset[s]
          /\ Table[s].maxTargets = MaxTargets
      BY DEF Table
    <3>2. ~Overlaps(o, MaxTargets, Table[s])
      BY <2>3, <3>1 DEF FitsAt
    <3>3. offset[s] \in Nat
      BY <1>1
    <3>4. QED
      BY <2>3, <3>1, <3>2, <3>3, NfqlbAssumption DEF Overlaps
  <2>5. offset'[call.svc] = o /\ \A s \in services : offset'[s] = offset[s]
    BY <1>1, <2>1, <2>2
  <2>6. QED
    BY <2>2, <2>4, <2>5
<1>3. CASE services' \subseteq services /\ UNCHANGED offset
  BY <1>3
<1>4. CASE StoreChange /\ ~AddServiceInit
  BY <1>3, <1>4 DEF StoreChange, AddServiceExisting, DeleteServiceUnknown,
     DeleteServiceForget, DeleteServiceUnlink, DeleteServiceTarget, DeleteServiceReturn,
     AddTargetActivate, DeleteTargetDeactivate, goVars
<1>5. QED
  BY <1>2, <1>3, <1>4, StoreCases DEF store
-----------------------------------------------------------------------------
(* The inductive invariant, and what follows from it *)

IInv == Structure /\ HealIsFresh /\ Handles /\ Routing /\ Active /\ Apart

LEMMA IInvInit == Init => IInv
<1> SUFFICES ASSUME Init PROVE IInv
  OBVIOUS
<1>1. Handles /\ Routing
  BY IdleIsOK DEF Init, Handles, Routing
<1>2. Active /\ Apart
  BY DEF Init, Active, Apart
<1>3. QED
  BY <1>1, <1>2, StructureInit, HealFreshInit DEF IInv

LEMMA IInvStep == IInv /\ [Next]_vars => IInv'
BY StructureStep, HealFreshStep, HandlesStep, RoutingStep, ActiveStep, ApartStep DEF IInv

LEMMA InvariantCorrect == Spec => []IInv
<1>1. QED
  BY IInvInit, IInvStep, PTL DEF Spec

(* A target of a service in the map is active in nfqlb's shared memory     *)
(* under the mark its policy routes use, whatever fails (nfqlb.go).        *)
THEOREM TargetsAreActive == Spec => []TargetsActive
<1>1. IInv => TargetsActive
  BY DEF IInv, Active, ActiveTarget, TargetsActive
<1>2. QED
  BY <1>1, InvariantCorrect, PTL

(* No two targets of the services in the map are steered with one mark.    *)
THEOREM MarksOfTargetsAreDistinct == Spec => []ActiveMarksDistinct
<1>1. IInv => ActiveMarksDistinct
  <2> SUFFICES ASSUME IInv, NEW s1 \in services, NEW s2 \in services,
                      NEW id1 \in DOMAIN targets[s1], NEW id2 \in DOMAIN targets[s2],
                      id1 + offset[s1] = id2 + offset[s2]
               PROVE  s1 = s2 /\ id1 = id2
    BY DEF ActiveMarksDistinct, Mark
  <2>1. offset[s1] \in Nat /\ offset[s2] \in Nat
    BY DEF IInv, Structure, Maps
  <2>2. id1 \in Nat /\ id2 \in Nat
    BY NfqlbAssumption DEF IInv, Structure, Maps, TargetsOK
  <2>3. id1 < MaxTargets /\ id2 < MaxTargets
    BY DEF IInv, Active, ActiveTarget
  <2>4. s1 # s2 => \/ offset[s1] + MaxTargets <= offset[s2]
                   \/ offset[s2] + MaxTargets <= offset[s1]
    BY DEF IInv, Apart
  <2>5. s1 = s2
    BY <2>1, <2>2, <2>3, <2>4, NfqlbAssumption
  <2>6. QED
    BY <2>1, <2>2, <2>5
<1>2. QED
  BY <1>1, InvariantCorrect, PTL
-----------------------------------------------------------------------------
(* The kernel's rules and routes *)

IsNet(n) == n = [rules |-> n.rules, routes |-> n.routes]

(* A request adds at most the route it is for, a deletion none. *)
LEMMA CreateAdds ==
  ASSUME NEW n, IsNet(n), NEW mark, NEW ip,
         NEW m \in {CreatePolicyRoute(n, mark, ip)} \cup CreatePolicyRouteFails(n, mark, ip)
  PROVE  IsNet(m) /\ m.routes \subseteq n.routes \cup {RouteFor(mark, ip)}
<1> DEFINE deleted == DeletePolicyRoute(n, mark, ip)
           ruled == WithRule(deleted, mark, ip)
           routed == WithRoute(ruled, mark, ip)
<1>1. IsNet(deleted) /\ deleted.routes \subseteq n.routes
  BY DEF DeletePolicyRoute, IsNet
<1>2. IsNet(ruled) /\ ruled.routes = deleted.routes
  <2> HIDE DEF deleted
  <2>1. QED
    BY <1>1 DEF WithRule, IsNet
<1>3. IsNet(routed) /\ routed.routes \subseteq ruled.routes \cup {RouteFor(mark, ip)}
  <2> HIDE DEF ruled
  <2>1. QED
    BY <1>2 DEF WithRoute, IsNet
<1>4. m \in {n, deleted, ruled, routed}
  BY DEF CreatePolicyRoute, CreatePolicyRouteFails
<1> HIDE DEF deleted, ruled, routed
<1>5. QED
  BY <1>1, <1>2, <1>3, <1>4

LEMMA DeleteAdds ==
  ASSUME NEW n, IsNet(n), NEW mark, NEW ip,
         NEW m \in {DeletePolicyRoute(n, mark, ip)} \cup DeletePolicyRouteFails(n, mark, ip)
  PROVE  IsNet(m) /\ m.routes \subseteq n.routes
<1>1. CASE m = DeletePolicyRoute(n, mark, ip)
  BY <1>1 DEF DeletePolicyRoute, IsNet
<1>2. CASE m \in DeletePolicyRouteFails(n, mark, ip)
  BY <1>2 DEF DeletePolicyRouteFails, IsNet
<1>3. QED
  BY <1>1, <1>2

NetMove ==
    \/ \E ip \in Addresses : AddTargetRoute(ip) \/ DeleteTargetUnroute(ip)
    \/ \E id \in Ids, ip \in Addresses : HealRoute(id, ip)

LEMMA NetCases == [Next]_vars => UNCHANGED net \/ NetMove
<1> SUFFICES ASSUME [Next]_vars PROVE UNCHANGED net \/ NetMove
  OBVIOUS
<1> USE DEF goVars, lockVars, extVars
<1>1. CASE Request
  BY <1>1 DEF Request, CallAddService, CallDeleteService, CallAddTarget,
     CallDeleteTarget, AddFlow, DeleteFlow
<1>2. CASE RunAddService
  BY <1>2 DEF RunAddService, AddServiceExisting, AddServiceNoRoom, AddServiceInit,
     AddServiceInitFails
<1>3. CASE RunDeleteService
  BY <1>3 DEF RunDeleteService, DeleteServiceUnknown, DeleteServiceForget,
     DeleteServiceUnlink, DeleteServiceUnlinkFails, DeleteServiceTarget,
     DeleteServiceList, DeleteServiceListFails, DeleteServiceFlow, DeleteServiceReturn
<1>4. CASE RunAddTarget
  BY <1>4 DEF RunAddTarget, NetMove, AddTargetExisting, AddTargetActivate,
     AddTargetActivateFails, AddTargetReturn
<1>5. CASE RunDeleteTarget
  BY <1>5 DEF RunDeleteTarget, NetMove, DeleteTargetAbsent, DeleteTargetDeactivate,
     DeleteTargetReturn
<1>6. CASE RunHeal
  BY <1>6 DEF RunHeal, NetMove, HealBegin, HealLock, HealUnlock, HealEnd
<1>7. CASE UNCHANGED vars
  BY <1>7 DEF vars
<1>8. QED
  BY <1>1, <1>2, <1>3, <1>4, <1>5, <1>6, <1>7 DEF Next, RunCall

LEMMA RouteStep ==
  ASSUME NEW mark, NEW ip, IsNet(net), Route(mark, ip)
  PROVE  IsNet(net)' /\ net'.routes \subseteq net.routes \cup {<<mark, ip>>}
<1>1. net' \in {CreatePolicyRoute(net, mark, ip)} \cup CreatePolicyRouteFails(net, mark, ip)
  BY DEF Route
<1>2. QED
  BY <1>1, CreateAdds DEF RouteFor, IsNet

LEMMA UnrouteStep ==
  ASSUME NEW mark, NEW ip, IsNet(net), Unroute(mark, ip)
  PROVE  IsNet(net)' /\ net'.routes \subseteq net.routes
<1>1. net' \in {DeletePolicyRoute(net, mark, ip)} \cup DeletePolicyRouteFails(net, mark, ip)
  BY DEF Unroute
<1>2. QED
  BY <1>1, DeleteAdds DEF IsNet

AddedForTargets ==
    \A r \in net'.routes \ net.routes :
        \E s \in held : \E id \in DOMAIN targets[s] :
            r[1] = Mark(s, id) /\ r[2] \in targets[s][id]

LEMMA AddedStep ==
  ASSUME IInv, IsNet(net), [Next]_vars
  PROVE  IsNet(net)' /\ AddedForTargets
<1>1. CASE UNCHANGED net
  BY <1>1 DEF IsNet, AddedForTargets
<1>2. ASSUME NEW ip \in Addresses, AddTargetRoute(ip)
      PROVE  IsNet(net)' /\ AddedForTargets
  <2>1. IsNet(net)' /\ net'.routes \subseteq net.routes \cup {<<Mark(call.svc, call.id), ip>>}
    BY <1>2, RouteStep DEF AddTargetRoute
  <2>2. /\ call.svc \in held /\ call.id \in DOMAIN targets[call.svc]
        /\ ip \in targets[call.svc][call.id]
    BY <1>2 DEF AddTargetRoute, At, IInv, Handles, Routing
  <2>3. QED
    BY <2>1, <2>2 DEF AddedForTargets
<1>3. ASSUME NEW ip \in Addresses, DeleteTargetUnroute(ip)
      PROVE  IsNet(net)' /\ AddedForTargets
  <2>1. IsNet(net)' /\ net'.routes \subseteq net.routes
    BY <1>3, UnrouteStep DEF DeleteTargetUnroute
  <2>2. QED
    BY <2>1 DEF AddedForTargets
<1>4. ASSUME NEW id \in Ids, NEW ip \in Addresses, HealRoute(id, ip)
      PROVE  IsNet(net)' /\ AddedForTargets
  <2>1. IsNet(net)' /\ net'.routes \subseteq net.routes \cup {<<Mark(heal.svc, id), ip>>}
    BY <1>4, RouteStep DEF HealRoute
  <2>2. heal.svc \in held /\ id \in DOMAIN targets[heal.svc] /\ ip \in targets[heal.svc][id]
    BY <1>4 DEF HealRoute, IInv, HealIsFresh, Wanted, Handles
  <2>3. QED
    BY <2>1, <2>2 DEF AddedForTargets
<1>5. QED
  BY <1>1, <1>2, <1>3, <1>4, NetCases DEF NetMove

(* A policy route appears only for an address of a current target of a     *)
(* service the reconciler holds: neither heal nor a late step of a call    *)
(* brings back the route of a target that is gone (nfqlb.go, routing.go).  *)
THEOREM RoutesOnlyForTargets == Spec => RoutesAddedForTargets
<1>1. Init => IsNet(net)
  BY DEF Init, EmptyNet, IsNet
<1>2. IInv /\ IsNet(net) /\ [Next]_vars => IsNet(net)' /\ AddedForTargets
  BY AddedStep
<1>3. QED
  BY <1>1, <1>2, InvariantCorrect, PTL DEF Spec, RoutesAddedForTargets, AddedForTargets
-----------------------------------------------------------------------------
(* The nftables sets *)

LEMMA UpdateSetLemma == \A current, new : UpdateSet(current, new) = new
BY DEF UpdateSet

LEMMA QueuedLemma ==
  ASSUME NEW sets, NEW cidrs, sets = GetIPv4AndIPv6(cidrs),
         NEW dst \in Hosts, NEW l4 \in Protocols
  PROVE  LET icmp == IF dst \in Hosts4 THEN "icmp" ELSE "ipv6-icmp"
         IN /\ Queued(sets, "prerouting", l4, dst) <=> dst \in cidrs
            /\ Queued(sets, "output", l4, dst) <=> dst \in cidrs /\ l4 = icmp
<1>1. sets.v4 = cidrs \cap Hosts4 /\ sets.v6 = cidrs \cap Hosts6
  BY DEF GetIPv4AndIPv6
<1>2. Queued(sets, "prerouting", l4, dst) <=> dst \in sets["v4"] \/ dst \in sets["v6"]
  BY DEF Queued, Rules
<1>3. Queued(sets, "output", l4, dst) <=> \/ l4 = "icmp" /\ dst \in sets["v4"]
                                          \/ l4 = "ipv6-icmp" /\ dst \in sets["v6"]
  BY DEF Queued, Rules
<1>4. QED
  BY <1>1, <1>2, <1>3, NfqlbAssumption DEF NftSetsAssumption, Hosts, Protocols

LEMMA FlowChangeCatchesUp ==
  ASSUME NEW table, FlowChange(table)
  PROVE  FlowsAreQueued'
<1>1. flows' = table /\ vips' = SetDestinationCIDRs(vips, Destinations(table))
  BY DEF FlowChange
<1>2. vips' = GetIPv4AndIPv6(Destinations(flows'))
  BY <1>1, UpdateSetLemma DEF SetDestinationCIDRs, GetIPv4AndIPv6
<1>3. ASSUME NEW dst \in Hosts, NEW l4 \in Protocols
      PROVE  LET icmp == IF dst \in Hosts4 THEN "icmp" ELSE "ipv6-icmp"
             IN /\ Queued(vips', "prerouting", l4, dst) <=> dst \in Destinations(flows')
                /\ Queued(vips', "output", l4, dst) <=>
                      dst \in Destinations(flows') /\ l4 = icmp
  BY <1>2, QueuedLemma
<1>4. QED
  BY <1>3 DEF FlowsAreQueued

LEMMA FlowChangeFailsIsFault ==
  ASSUME Structure, NEW table, FlowChangeFails(table)
  PROVE  faults' # faults
BY DEF FlowChangeFails, Fault, Structure, FaultsOK

LEMMA CatchUpStep ==
  ASSUME Structure, [Next]_vars, <<flows, vips>>' # <<flows, vips>>, UNCHANGED faults
  PROVE  FlowsAreQueued'
<1>1. FlowsMove
  BY FlowsCases
<1>2. ASSUME NEW f, FlowDelete(f) \/ FlowDeleteFails(f)
      PROVE  FlowsAreQueued'
  BY <1>2, FlowChangeCatchesUp, FlowChangeFailsIsFault DEF FlowDelete, FlowDeleteFails
<1>3. ASSUME NEW s, NEW f, NEW cidrs, AddFlow(s, f, cidrs)
      PROVE  FlowsAreQueued'
  BY <1>3, FlowChangeCatchesUp, FlowChangeFailsIsFault DEF AddFlow
<1>4. QED
  BY <1>1, <1>2, <1>3 DEF FlowsMove, DeleteFlow, DeleteServiceFlow

(* A change of the flow table that succeeds makes the nftables sets those  *)
(* of the whole table, whatever has failed before (netfilter.go, set.go).  *)
THEOREM SetsCatchUp == Spec => VipsCatchUp
<1>1. Structure /\ [Next]_vars =>
        [<<flows, vips>>' # <<flows, vips>> /\ UNCHANGED faults => FlowsAreQueued']_vars
  BY CatchUpStep
<1>2. QED
  BY <1>1, StructureInit, StructureStep, PTL DEF Spec, VipsCatchUp
-----------------------------------------------------------------------------
(* Services that are drained before they are deleted, without failures:    *)
(* a handle without a service belongs to the call that deletes it, which   *)
(* finds no target and has every flow of the service yet to delete before  *)
(* it; that call does not fail.                                            *)

Quiet == DrainFirst /\ faults = 0
Deleting == call.op = "DeleteService"

DrainedCall ==
    Deleting =>
        /\ call.svc \in held /\ ~call.err
        /\ DOMAIN targets[call.svc] = {}
        /\ call.pc = "targets" => call.todo = {}
        /\ call.pc = "flows" => \A f \in DOMAIN flows : flows[f].svc = call.svc => f \in call.todo

HeldAreServices ==
    \A s \in held \ services : Deleting /\ call.pc # "mu" /\ call.svc = s

FlowsAreHeld == \A f \in DOMAIN flows : flows[f].svc \in held

Drained == Quiet => DrainedCall /\ HeldAreServices /\ FlowsAreHeld

LEMMA QuietBefore ==
  ASSUME Structure, [Next]_vars, Quiet'
  PROVE  Quiet
<1>1. UNCHANGED faults \/ Fault
  BY FaultsCases
<1>2. QED
  BY <1>1 DEF Quiet, Fault, Structure, FaultsOK

LEMMA DrainedStep ==
  ASSUME Structure, Handles, Drained, [Next]_vars
  PROVE  Drained'
<1> SUFFICES ASSUME Quiet' PROVE (DrainedCall /\ HeldAreServices /\ FlowsAreHeld)'
  BY DEF Drained
<1>1. Quiet /\ faults' = faults /\ faults \in Nat
  BY QuietBefore DEF Quiet, Structure, FaultsOK
<1>2. DrainedCall /\ HeldAreServices /\ FlowsAreHeld /\ call \in CallRecords
  BY <1>1 DEF Drained, Structure, CallOK
<1> USE DEF DrainedCall, HeldAreServices, FlowsAreHeld, Deleting
<1> DEFINE Goal == (DrainedCall /\ HeldAreServices /\ FlowsAreHeld)'
<1>3. ASSUME UNCHANGED <<services, held, flows>>, ~Deleting, ~Deleting'
      PROVE  Goal
  BY <1>2, <1>3
<1>4. CASE Request
  <2>1. ASSUME NEW s \in Services, CallDeleteService(s) PROVE Goal
    <3>1. /\ call'.op = "DeleteService" /\ call'.pc = "mu" /\ call'.svc = s /\ ~call'.err
          /\ s \in held /\ targets[s] = NoMap
          /\ UNCHANGED <<services, held, flows, targets>>
      BY <1>1, <2>1 DEF CallDeleteService, Call, Idle, goVars, extVars, Quiet
    <3>2. ~Deleting
      BY <2>1, IdleIsOK DEF CallDeleteService, Call
    <3>3. QED
      BY <1>2, <3>1, <3>2, NoMapLemma
  <2>2. ASSUME NEW s \in Services, CallAddService(s) PROVE Goal
    BY <1>3, <2>2, IdleIsOK DEF CallAddService, Call, Idle, goVars, extVars
  <2>3. ASSUME NEW s \in Services, NEW id \in Ids, NEW ips \in AddressSets,
               CallAddTarget(s, id, ips)
        PROVE  Goal
    BY <1>3, <2>3, IdleIsOK DEF CallAddTarget, Idle, goVars, extVars
  <2>4. ASSUME NEW s \in Services, NEW id \in Ids, CallDeleteTarget(s, id)
        PROVE  Goal
    BY <1>3, <2>4, IdleIsOK DEF CallDeleteTarget, Idle, goVars, extVars
  <2>5. ASSUME NEW s \in Services, NEW f \in Flows, NEW cidrs \in CidrSets,
               AddFlow(s, f, cidrs)
        PROVE  Goal
    <3>1. flows' = With(flows, f, [svc |-> s, cidrs |-> cidrs])
      BY <1>1, <2>5, FlowChangeFailsIsFault DEF AddFlow, FlowChange
    <3>2. \A g \in DOMAIN flows' : flows'[g].svc \in held
      BY <1>2, <2>5, <3>1 DEF AddFlow, With
    <3>3. QED
      BY <1>2, <2>5, <3>2, IdleIsOK DEF AddFlow, goVars
  <2>6. ASSUME NEW s \in Services, NEW f \in Flows, DeleteFlow(s, f)
        PROVE  Goal
    <3>1. flows' = Without(flows, f)
      BY <1>1, <2>6, FlowChangeFailsIsFault DEF DeleteFlow, FlowDelete, FlowDeleteFails, FlowChange
    <3>2. \A g \in DOMAIN flows' : flows'[g].svc \in held
      BY <1>2, <3>1 DEF Without
    <3>3. QED
      BY <1>2, <2>6, <3>2, IdleIsOK DEF DeleteFlow, goVars
  <2>7. QED
    BY <1>4, <2>1, <2>2, <2>3, <2>4, <2>5, <2>6 DEF Request
<1>5. CASE RunAddService
  <2>1. /\ call' = Idle /\ held \subseteq held' /\ UNCHANGED flows /\ ~Deleting
        /\ held' \ services' \subseteq held \ services
    BY <1>5 DEF RunAddService, AddServiceExisting, AddServiceNoRoom, AddServiceInit,
       AddServiceInitFails, Return, Enter, At, goVars, extVars
  <2>2. QED
    BY <1>2, <2>1, IdleIsOK
<1>6. CASE DeleteServiceUnknown
  <2>1. Deleting /\ call.pc = "mu" /\ call.svc \notin services
    BY <1>6 DEF DeleteServiceUnknown, Enter, At
  <2>2. QED
    BY <1>2, <2>1
<1>7. CASE DeleteServiceForget
  <2>1. /\ Deleting /\ services' = services \ {call.svc} /\ UNCHANGED <<held, targets, flows>>
        /\ call.pc = "mu"
    BY <1>7 DEF DeleteServiceForget, Enter, At, extVars
  <2>2. call'.op = call.op /\ call'.pc = "smu" /\ call'.svc = call.svc /\ call'.err = call.err
    BY <1>2, <1>7 DEF DeleteServiceForget, CallRecords
  <2>3. QED
    BY <1>2, <2>1, <2>2
<1>8. CASE DeleteServiceUnlink
  <2>1. /\ Deleting /\ UNCHANGED <<services, held, targets, flows>> /\ call.pc = "smu"
    BY <1>8 DEF DeleteServiceUnlink, EnterService, At, goVars
  <2>2. /\ call'.op = call.op /\ call'.pc = "targets" /\ call'.svc = call.svc
        /\ call'.err = call.err /\ call'.todo = DOMAIN targets[call.svc]
    BY <1>2, <1>8 DEF DeleteServiceUnlink, CallRecords
  <2>3. QED
    BY <1>2, <2>1, <2>2
<1>9. CASE DeleteServiceUnlinkFails \/ DeleteServiceListFails
  BY <1>1, <1>9 DEF DeleteServiceUnlinkFails, DeleteServiceListFails, Fault
<1>10. ASSUME NEW id \in Ids, DeleteServiceTarget(id) PROVE Goal
  BY <1>2, <1>10 DEF DeleteServiceTarget, At
<1>11. CASE DeleteServiceList
  <2>1. /\ Deleting /\ UNCHANGED <<services, held, targets, flows>> /\ call.pc = "targets"
    BY <1>11 DEF DeleteServiceList, At, goVars, extVars
  <2>2. /\ call'.op = call.op /\ call'.pc = "flows" /\ call'.svc = call.svc
        /\ call'.err = call.err /\ call'.todo = {f \in DOMAIN flows : flows[f].svc = call.svc}
    BY <1>2, <1>11 DEF DeleteServiceList, CallRecords
  <2>3. QED
    BY <1>2, <2>1, <2>2
<1>12. ASSUME NEW f \in Flows, DeleteServiceFlow(f) PROVE Goal
  <2>1. /\ Deleting /\ UNCHANGED <<services, held, targets>> /\ call.pc = "flows"
    BY <1>12 DEF DeleteServiceFlow, At, goVars
  <2>2. flows' = Without(flows, f) /\ call' = [call EXCEPT !.todo = @ \ {f}]
    BY <1>1, <1>12, FlowChangeFailsIsFault DEF DeleteServiceFlow, FlowDelete,
       FlowDeleteFails, FlowChange
  <2>3. /\ call'.op = call.op /\ call'.pc = "flows" /\ call'.svc = call.svc
        /\ call'.err = call.err /\ call'.todo = call.todo \ {f}
    BY <1>2, <2>1, <2>2 DEF CallRecords
  <2>4. \A g \in DOMAIN flows' : g \in DOMAIN flows /\ g # f /\ flows'[g] = flows[g]
    BY <2>2 DEF Without
  <2>5. QED
    BY <1>2, <2>1, <2>3, <2>4
<1>13. CASE DeleteServiceReturn
  <2>1. /\ Deleting /\ UNCHANGED <<services, flows>> /\ call.pc = "flows" /\ call.todo = {}
        /\ call' = Idle /\ held' = held \ {call.svc}
    BY <1>2, <1>13 DEF DeleteServiceReturn, At, Return, extVars
  <2>2. \A f \in DOMAIN flows : flows[f].svc # call.svc
    BY <1>2, <2>1
  <2>3. QED
    BY <1>2, <2>1, <2>2, IdleIsOK
<1>14. CASE RunAddTarget \/ RunDeleteTarget
  <2>1. UNCHANGED <<services, held, flows>> /\ ~Deleting
    BY <1>14 DEF RunAddTarget, AddTargetExisting, AddTargetActivate, AddTargetActivateFails,
       AddTargetRoute, AddTargetReturn, RunDeleteTarget, DeleteTargetAbsent,
       DeleteTargetDeactivate, DeleteTargetUnroute, DeleteTargetReturn, EnterService, At,
       goVars, extVars
  <2>2. ~Deleting'
    BY <1>2, <1>14, IdleIsOK DEF RunAddTarget, AddTargetExisting, AddTargetActivate,
       AddTargetActivateFails, AddTargetRoute, AddTargetReturn, RunDeleteTarget,
       DeleteTargetAbsent, DeleteTargetDeactivate, DeleteTargetUnroute,
       DeleteTargetReturn, EnterService, At, Return, CallRecords
  <2>3. QED
    BY <1>3, <2>1, <2>2
<1>15. CASE RunHeal \/ UNCHANGED vars
  <2>1. UNCHANGED <<services, held, targets, flows, call>>
    BY <1>15 DEF RunHeal, HealBegin, HealLock, HealRoute, HealUnlock, HealEnd, vars, goVars, extVars
  <2>2. QED
    BY <1>2, <2>1
<1>16. QED
  BY <1>4, <1>5, <1>6, <1>7, <1>8, <1>9, <1>10, <1>11, <1>12, <1>13, <1>14, <1>15
     DEF Next, RunCall, RunDeleteService

(* No flow outlives its service when services are drained first and        *)
(* nothing fails (nfqlb.go: DeleteService).                                *)
THEOREM NoFlowOutlivesItsService == Spec => []FlowsOfHeldServices
<1>1. Init => Drained
  BY IdleIsOK, NoMapLemma DEF Init, Drained, DrainedCall, HeldAreServices, FlowsAreHeld, Deleting
<1>2. IInv /\ Drained /\ [Next]_vars => Drained'
  BY DrainedStep DEF IInv
<1>3. Drained => FlowsOfHeldServices
  BY DEF Drained, FlowsAreHeld, Quiet, FlowsOfHeldServices
<1>4. QED
  BY <1>1, <1>2, <1>3, InvariantCorrect, PTL DEF Spec
-----------------------------------------------------------------------------
(* The policy routes of services that are drained first, without failures. *)
(* The routes are those of the targets, without the ones AddTarget has yet *)
(* to create and with the ones DeleteTarget has yet to delete; there is a  *)
(* rule for every route.                                                   *)

(* An endpoint has at most one address of a family: a table has one        *)
(* default route for each.                                                 *)
Single(ips) == \A a, b \in ips : Family(a) = Family(b) => a = b
OnePerFamily == \A ips \in AddressSets : Single(ips)

Lists ==
    /\ Single(call.ips)
    /\ \A s \in Services : \A id \in DOMAIN targets[s] : Single(targets[s][id])

DeletionOK ==
    call.op = "DeleteTarget" =>
        /\ call.svc \in held
        /\ call.pc = "smu" /\ call.id \in DOMAIN targets[call.svc] =>
              call.ips = targets[call.svc][call.id]
        /\ call.pc = "unroute" =>
              call.id \notin DOMAIN targets[call.svc] /\ call.id < MaxTargets

AddRouting == call.op = "AddTarget" /\ call.pc = "route"
DeleteRouting == call.op = "DeleteTarget" /\ call.pc = "unroute"

LEMMA RoutingCases ==
  ASSUME Structure, [Next]_vars
  PROVE  \/ UNCHANGED call
         \/ ~AddRouting /\ ~DeleteRouting /\ ~AddRouting' /\ ~DeleteRouting'
         \/ AddTargetActivate \/ AddTargetReturn
         \/ DeleteTargetDeactivate \/ DeleteTargetReturn
         \/ \E ip \in Addresses : AddTargetRoute(ip) \/ DeleteTargetUnroute(ip)
<1> USE DEF AddRouting, DeleteRouting
<1>1. call \in CallRecords
  BY DEF Structure, CallOK
<1>2. CASE Request
  BY <1>2, IdleIsOK DEF Request, CallAddService, CallDeleteService, Call, CallAddTarget,
     CallDeleteTarget, AddFlow, DeleteFlow, Idle
<1>3. CASE RunAddService
  BY <1>3, IdleIsOK DEF RunAddService, AddServiceExisting, AddServiceNoRoom, AddServiceInit,
     AddServiceInitFails, Enter, At, Return
<1>4. CASE RunDeleteService
  <2>1. call.op = "DeleteService"
    BY <1>4 DEF RunDeleteService, DeleteServiceUnknown, DeleteServiceForget,
       DeleteServiceUnlink, DeleteServiceUnlinkFails, DeleteServiceTarget, DeleteServiceList,
       DeleteServiceListFails, DeleteServiceFlow, DeleteServiceReturn, Enter, EnterService, At
  <2>2. call' = Idle \/ call'.op = call.op
    BY <1>1, <1>4 DEF RunDeleteService, DeleteServiceUnknown, DeleteServiceForget,
       DeleteServiceUnlink, DeleteServiceUnlinkFails, DeleteServiceTarget, DeleteServiceList,
       DeleteServiceListFails, DeleteServiceFlow, DeleteServiceReturn, Return, CallRecords
  <2>3. QED
    BY <2>1, <2>2, IdleIsOK
<1>5. CASE AddTargetExisting \/ AddTargetActivateFails \/ DeleteTargetAbsent
  BY <1>5, IdleIsOK DEF AddTargetExisting, AddTargetActivateFails, DeleteTargetAbsent,
     EnterService, At, Return
<1>6. CASE RunHeal \/ UNCHANGED vars
  BY <1>6 DEF RunHeal, HealBegin, HealLock, HealRoute, HealUnlock, HealEnd, vars
<1>7. QED
  BY <1>2, <1>3, <1>4, <1>5, <1>6 DEF Next, RunCall, RunAddTarget, RunDeleteTarget

LEMMA ListsStep ==
  ASSUME OnePerFamily, Structure, Lists, [Next]_vars
  PROVE  Lists'
<1>1. /\ call \in CallRecords /\ DOMAIN targets = Services
      /\ \A t \in Services : \A id \in DOMAIN targets[t] : targets[t][id] \subseteq Addresses
  BY DEF Structure, CallOK, Maps, TargetsOK
<1>2. Single(call'.ips)
  <2>1. CASE UNCHANGED call
    BY <2>1 DEF Lists
  <2>2. CASE call' = Idle
    BY <2>2 DEF Idle, Single
  <2>3. ASSUME NEW s \in Services, CallAddService(s) \/ CallDeleteService(s)
        PROVE  Single(call'.ips)
    BY <2>3 DEF CallAddService, CallDeleteService, Call, Idle, Single
  <2>4. ASSUME NEW s \in Services, NEW id \in Ids, NEW ips \in AddressSets,
               CallAddTarget(s, id, ips)
        PROVE  Single(call'.ips)
    BY <2>4 DEF CallAddTarget, Idle, OnePerFamily
  <2>5. ASSUME NEW s \in Services, NEW id \in Ids, CallDeleteTarget(s, id)
        PROVE  Single(call'.ips)
    <3>1. call'.ips = IF id \in DOMAIN targets[s] THEN targets[s][id] ELSE {}
      BY <2>5 DEF CallDeleteTarget, Idle
    <3>2. QED
      BY <3>1 DEF Lists, Single
  <2>6. CASE call'.ips \subseteq call.ips
    BY <2>6 DEF Lists, Single
  <2>7. CASE \/ DeleteServiceForget \/ DeleteServiceUnlink \/ DeleteServiceList
             \/ AddTargetActivate \/ DeleteTargetDeactivate
    <3>1. call' = Idle \/ call'.ips = call.ips
      BY <1>1, <2>7 DEF DeleteServiceForget, DeleteServiceUnlink, DeleteServiceList,
         AddTargetActivate, DeleteTargetDeactivate, Return, CallRecords
    <3>2. QED
      BY <2>2, <2>6, <3>1
  <2>8. ASSUME NEW x, \/ DeleteServiceTarget(x) \/ DeleteServiceFlow(x)
                      \/ AddTargetRoute(x) \/ DeleteTargetUnroute(x)
        PROVE  Single(call'.ips)
    <3>1. call'.ips \subseteq call.ips
      BY <1>1, <2>8 DEF DeleteServiceTarget, DeleteServiceFlow, AddTargetRoute,
         DeleteTargetUnroute, CallRecords
    <3>2. QED
      BY <2>6, <3>1
  <2>9. QED
    BY <2>1, <2>2, <2>3, <2>4, <2>5, <2>7, <2>8, CallCases DEF CallMoves
<1>3. ASSUME NEW t \in Services, NEW i \in DOMAIN targets'[t]
      PROVE  Single(targets'[t][i])
  <2>1. CASE UNCHANGED targets
    BY <1>3, <2>1 DEF Lists
  <2>2. CASE AddServiceInit
    <3>1. t # call.svc => targets'[t] = targets[t]
      BY <1>1, <2>2 DEF AddServiceInit
    <3>2. t = call.svc => DOMAIN targets'[t] = {}
      BY <1>1, <2>2, NoMapLemma DEF AddServiceInit
    <3>3. QED
      BY <1>3, <3>1, <3>2 DEF Lists
  <2>3. ASSUME NEW x, targets' = [targets EXCEPT ![call.svc] = Without(@, x)]
        PROVE  Single(targets'[t][i])
    <3>1. targets'[t] = targets[t] \/ targets'[t] = Without(targets[t], x)
      BY <1>1, <2>3
    <3>2. i \in DOMAIN targets[t] /\ targets'[t][i] = targets[t][i]
      BY <1>3, <3>1 DEF Without
    <3>3. QED
      BY <3>2 DEF Lists
  <2>4. CASE AddTargetActivate
    <3>1. targets'[t] = targets[t] \/ targets'[t] = With(targets[t], call.id, call.ips)
      BY <1>1, <2>4 DEF AddTargetActivate
    <3>2. \/ i \in DOMAIN targets[t] /\ targets'[t][i] = targets[t][i]
          \/ targets'[t][i] = call.ips
      BY <1>3, <3>1 DEF With
    <3>3. QED
      BY <3>2 DEF Lists
  <2>5. CASE StoreChange
    BY <2>1, <2>2, <2>3, <2>4, <2>5 DEF StoreChange, AddServiceExisting, DeleteServiceUnknown,
       DeleteServiceForget, DeleteServiceUnlink, DeleteServiceTarget, DeleteServiceReturn,
       DeleteTargetDeactivate, goVars
  <2>6. QED
    BY <2>1, <2>5, StoreCases DEF store
<1>4. QED
  BY <1>2, <1>3 DEF Lists

LEMMA DeletionStep ==
  ASSUME Structure, Active, HeldAreServices, DeletionOK, [Next]_vars
  PROVE  DeletionOK'
<1> USE DEF DeletionOK
<1>1. call \in CallRecords /\ DOMAIN targets = Services
  BY DEF Structure, CallOK, Maps, TargetsOK
<1>2. CASE DeleteTargetDeactivate
  <2>1. /\ call.op = "DeleteTarget" /\ call.pc = "smu" /\ call.id \in DOMAIN targets[call.svc]
        /\ UNCHANGED held /\ call.svc \in Services
        /\ targets' = [targets EXCEPT ![call.svc] = Without(@, call.id)]
        /\ call' = Idle \/ call' = [call EXCEPT !.pc = "unroute"]
    BY <1>2 DEF DeleteTargetDeactivate, EnterService, At, Return, Structure, CallOK, Idle
  <2>2. CASE call' = Idle
    BY <2>2, IdleIsOK
  <2>3. CASE call' = [call EXCEPT !.pc = "unroute"]
    <3>1. /\ call'.op = "DeleteTarget" /\ call'.pc = "unroute"
          /\ call'.svc = call.svc /\ call'.id = call.id
      BY <1>1, <2>1, <2>3 DEF CallRecords
    <3>2. call.svc \in services
      BY <2>1 DEF HeldAreServices, Deleting
    <3>3. call.id < MaxTargets
      BY <2>1, <3>2 DEF Active, ActiveTarget
    <3>4. targets'[call.svc] = Without(targets[call.svc], call.id)
      BY <1>1, <2>1
    <3>5. call.id \notin DOMAIN targets'[call.svc]
      BY <3>4 DEF Without
    <3>6. QED
      BY <2>1, <3>1, <3>3, <3>5
  <2>4. QED
    BY <2>1, <2>2, <2>3
<1>3. CASE call.op = "DeleteTarget" /\ ~DeleteTargetDeactivate
  <2>1. UNCHANGED store
    BY <1>3, StoreCases DEF StoreChange, AddServiceExisting, AddServiceInit,
       DeleteServiceUnknown, DeleteServiceForget, DeleteServiceUnlink,
       DeleteServiceTarget, DeleteServiceReturn, AddTargetActivate, Enter, EnterService, At
  <2>2. ASSUME NEW ip \in Addresses, DeleteTargetUnroute(ip)
        PROVE  /\ call'.op = call.op /\ call'.svc = call.svc /\ call'.id = call.id
               /\ call.pc = "unroute" /\ call'.pc = "unroute"
    BY <1>1, <2>2 DEF DeleteTargetUnroute, At, CallRecords
  <2>3. CallMoves => \E ip \in Addresses : DeleteTargetUnroute(ip)
    BY <1>3, IdleIsOK DEF CallMoves, CallAddService, CallDeleteService, Call, CallAddTarget,
       CallDeleteTarget, DeleteServiceForget, DeleteServiceUnlink, DeleteServiceTarget,
       DeleteServiceList, DeleteServiceFlow, AddTargetActivate, AddTargetRoute, Enter,
       EnterService, At
  <2>4. QED
    BY <1>3, <2>1, <2>2, <2>3, CallCases, IdleIsOK DEF store
<1>4. CASE call.op # "DeleteTarget"
  <2>1. ASSUME NEW s \in Services, NEW id \in Ids, CallDeleteTarget(s, id)
        PROVE  DeletionOK'
    <3>1. /\ s \in held /\ UNCHANGED <<held, targets>>
          /\ call'.svc = s /\ call'.id = id /\ call'.pc = "smu"
          /\ id \in DOMAIN targets[s] => call'.ips = targets[s][id]
      BY <2>1 DEF CallDeleteTarget, Idle, goVars
    <3>2. QED
      BY <3>1
  <2>2. CallMoves => call'.op # "DeleteTarget"
                     \/ \E s \in Services, id \in Ids : CallDeleteTarget(s, id)
    <3>1. ASSUME NEW s \in Services,
                 \/ CallAddService(s) \/ CallDeleteService(s)
                 \/ \E id \in Ids, ips \in AddressSets : CallAddTarget(s, id, ips)
          PROVE  call'.op # "DeleteTarget"
      BY <3>1 DEF CallAddService, CallDeleteService, Call, CallAddTarget, Idle
    <3>2. ASSUME \/ DeleteServiceForget \/ DeleteServiceUnlink \/ DeleteServiceList
                 \/ AddTargetActivate \/ DeleteTargetDeactivate
                 \/ \E x : \/ DeleteServiceTarget(x) \/ DeleteServiceFlow(x)
                           \/ AddTargetRoute(x) \/ DeleteTargetUnroute(x)
          PROVE  call'.op # "DeleteTarget"
      BY <1>1, <1>4, <3>2 DEF DeleteServiceForget, DeleteServiceUnlink, DeleteServiceList,
         AddTargetActivate, DeleteTargetDeactivate, DeleteServiceTarget, DeleteServiceFlow,
         AddTargetRoute, DeleteTargetUnroute, Enter, EnterService, At, CallRecords
    <3>3. QED
      BY <3>1, <3>2 DEF CallMoves
  <2>3. QED
    BY <1>4, <2>1, <2>2, CallCases, IdleIsOK
<1>5. QED
  BY <1>2, <1>3, <1>4
-----------------------------------------------------------------------------
(* The policy routes, one by one.  Every mark is a number: identifiers and *)
(* offsets are.                                                            *)

IsWanted(m, ip) ==
    \E s \in services : \E id \in DOMAIN targets[s] : m = Mark(s, id) /\ ip \in targets[s][id]
IsWaiting(m, ip) == AddRouting /\ m = Mark(call.svc, call.id) /\ ip \in call.ips
IsLeaving(m, ip) == DeleteRouting /\ m = Mark(call.svc, call.id) /\ ip \in call.ips

Steering ==
    /\ net.routes \subseteq Nat \X Addresses /\ net.rules \subseteq Nat \X {IPv4, IPv6}
    /\ \A m \in Nat, ip \in Addresses :
          <<m, ip>> \in net.routes <=> (IsWanted(m, ip) /\ ~IsWaiting(m, ip)) \/ IsLeaving(m, ip)
    /\ \A m \in Nat, family \in {IPv4, IPv6} :
          <<m, family>> \in net.rules <=>
              \E ip \in Addresses : Family(ip) = family /\ <<m, ip>> \in net.routes

(* Under its mark, only the target itself is routed. *)
LEMMA MarkIsOwn ==
  ASSUME Structure, Active, Apart, NEW s \in services, NEW t \in services,
         NEW i \in Ids, NEW j \in Ids, i < MaxTargets, j < MaxTargets, Mark(s, i) = Mark(t, j)
  PROVE  s = t /\ i = j
<1>1. offset[s] \in Nat /\ offset[t] \in Nat
  BY DEF Structure, Maps
<1>2. i \in Nat /\ j \in Nat /\ MaxTargets \in Nat
  BY NfqlbAssumption
<1>3. i + offset[s] = j + offset[t]
  BY DEF Mark
<1>4. s # t => \/ offset[s] + MaxTargets <= offset[t]
               \/ offset[t] + MaxTargets <= offset[s]
  BY DEF Apart
<1>5. s = t
  BY <1>1, <1>2, <1>3, <1>4
<1>6. QED
  BY <1>1, <1>2, <1>3, <1>5

(* A step of AddTarget finds neither the rule nor another route. *)
LEMMA SteeringAdd ==
  ASSUME Structure, Handles, Routing, Active, Apart, Lists, HeldAreServices, IsNet(net), Steering,
         NEW ip \in Addresses, AddTargetRoute(ip), UNCHANGED faults
  PROVE  Steering'
<1> DEFINE mark == Mark(call.svc, call.id)
           family == Family(ip)
<1>1. /\ AddRouting /\ call.svc \in services /\ call.id \in Ids /\ call.id < MaxTargets
      /\ call.id \in DOMAIN targets[call.svc] /\ call.ips \subseteq targets[call.svc][call.id]
      /\ ip \in call.ips
  <2>1. AddRouting /\ ip \in call.ips
    BY DEF AddTargetRoute, At, AddRouting
  <2>2. call.svc \in services
    BY <2>1 DEF AddRouting, Handles, HeldAreServices, Deleting
  <2>3. /\ call.id \in DOMAIN targets[call.svc] /\ call.ips \subseteq targets[call.svc][call.id]
        /\ call.id \in Ids /\ call.id < MaxTargets
    BY <2>1, <2>2 DEF AddRouting, Routing, Structure, CallOK, Active, ActiveTarget
  <2>4. QED
    BY <2>1, <2>2, <2>3
<1>2. mark \in Nat /\ family \in {IPv4, IPv6} /\ Single(targets[call.svc][call.id])
  <2>1. call.svc \in Services
    BY <1>1 DEF Structure, Maps
  <2>2. call.id \in Nat /\ offset[call.svc] \in Nat
    BY <1>1, <2>1, NfqlbAssumption DEF Structure, Maps
  <2>3. QED
    BY <1>1, <2>1, <2>2 DEF Mark, Family, Lists
<1>3. \A m \in Nat, a \in Addresses : ~IsLeaving(m, a)
  BY <1>1 DEF AddRouting, IsLeaving, DeleteRouting
<1>4. ASSUME NEW a \in Addresses, IsWanted(mark, a)
      PROVE  a \in targets[call.svc][call.id]
  <2>1. PICK s \in services : \E id \in DOMAIN targets[s] : mark = Mark(s, id) /\ a \in targets[s][id]
    BY <1>4 DEF IsWanted
  <2>2. PICK id \in DOMAIN targets[s] : mark = Mark(s, id) /\ a \in targets[s][id]
    BY <2>1
  <2>3. id \in Ids /\ id < MaxTargets
    BY DEF Structure, Maps, TargetsOK, Active, ActiveTarget
  <2>4. s = call.svc /\ id = call.id
    BY <1>1, <2>2, <2>3, MarkIsOwn
  <2>5. QED
    BY <2>2, <2>4
<1>5. ASSUME NEW a \in Addresses, Family(a) = family
      PROVE  <<mark, a>> \notin net.routes
  <2>1. SUFFICES ASSUME IsWanted(mark, a), ~IsWaiting(mark, a) PROVE FALSE
    BY <1>2, <1>3 DEF Steering
  <2>2. a \in targets[call.svc][call.id] /\ ip \in targets[call.svc][call.id]
    BY <1>1, <1>4, <2>1
  <2>3. a = ip
    BY <1>2, <1>5, <2>2 DEF Single
  <2>4. QED
    BY <1>1, <2>1, <2>3 DEF IsWaiting
<1>6. <<mark, family>> \notin net.rules
  BY <1>2, <1>5 DEF Steering
<1>7. /\ net'.rules = net.rules \cup {<<mark, family>>}
      /\ net'.routes = net.routes \cup {<<mark, ip>>}
  <2>1. Fault => FALSE
    BY DEF Fault, Structure, FaultsOK
  <2>2. net' = CreatePolicyRoute(net, mark, ip)
    BY <2>1 DEF AddTargetRoute, Route
  <2>3. ~ValidPolicyRoute(net, mark, ip)
    BY <1>5 DEF ValidPolicyRoute, RouteFor
  <2>4. DeletePolicyRoute(net, mark, ip) = net
    BY <1>6 DEF DeletePolicyRoute, RuleFor
  <2>5. /\ WithRule(net, mark, ip).rules = net.rules \cup {<<mark, family>>}
        /\ WithRule(net, mark, ip).routes = net.routes
        /\ IsNet(WithRule(net, mark, ip))
    BY DEF WithRule, RuleFor, IsNet
  <2>6. TableOf(WithRule(net, mark, ip), mark, ip) = {}
    <3>1. ASSUME NEW r \in net.routes, r[1] = mark, r[2] \in family PROVE FALSE
      <4>1. r = <<mark, r[2]>> /\ r[2] \in Addresses
        BY <3>1 DEF Steering
      <4>2. Family(r[2]) = family
        BY <1>2, <3>1, <4>1, FamiliesAssumption DEF Family, Addresses
      <4>3. QED
        BY <1>5, <3>1, <4>1, <4>2
    <3>2. QED
      BY <2>5, <3>1 DEF TableOf
  <2>7. QED
    BY <2>2, <2>3, <2>4, <2>5, <2>6 DEF CreatePolicyRoute, WithRoute, RouteFor, IsNet
<1>8. /\ UNCHANGED <<services, targets, offset>>
      /\ call'.op = call.op /\ call'.pc = call.pc /\ call'.svc = call.svc /\ call'.id = call.id
      /\ call'.ips = call.ips \ {ip}
  BY DEF AddTargetRoute, goVars, Structure, CallOK, CallRecords
<1>9. ASSUME NEW m \in Nat, NEW a \in Addresses
      PROVE  /\ IsWanted(m, a)' <=> IsWanted(m, a)
             /\ IsWaiting(m, a)' <=> IsWaiting(m, a) /\ <<m, a>> # <<mark, ip>>
             /\ ~IsLeaving(m, a)'
  BY <1>1, <1>8 DEF IsWanted, IsWaiting, IsLeaving, AddRouting, DeleteRouting, Mark
<1>10. IsWanted(mark, ip)
  BY <1>1 DEF IsWanted
<1> HIDE DEF mark, family
<1>11. ASSUME NEW m \in Nat, NEW a \in Addresses
       PROVE  <<m, a>> \in net'.routes <=>
                (IsWanted(m, a)' /\ ~IsWaiting(m, a)') \/ IsLeaving(m, a)'
  BY <1>3, <1>7, <1>9, <1>10 DEF Steering
<1>12. ASSUME NEW m \in Nat, NEW f \in {IPv4, IPv6}
       PROVE  <<m, f>> \in net'.rules <=>
                \E a \in Addresses : Family(a) = f /\ <<m, a>> \in net'.routes
  BY <1>7 DEF Steering, family
<1>13. net'.routes \subseteq Nat \X Addresses /\ net'.rules \subseteq Nat \X {IPv4, IPv6}
  BY <1>2, <1>7 DEF Steering
<1>14. QED
  BY <1>11, <1>12, <1>13 DEF Steering

(* DeleteTarget finds the rule and the route, and nobody shares the rule. *)
LEMMA SteeringDelete ==
  ASSUME Structure, Active, Apart, Lists, HeldAreServices, DeletionOK, IsNet(net), Steering,
         NEW ip \in Addresses, DeleteTargetUnroute(ip), UNCHANGED faults
  PROVE  Steering'
<1> DEFINE mark == Mark(call.svc, call.id)
           family == Family(ip)
<1>1. /\ DeleteRouting /\ call.svc \in services /\ call.id \in Ids /\ call.id < MaxTargets
      /\ call.id \notin DOMAIN targets[call.svc] /\ ip \in call.ips
  <2>1. DeleteRouting /\ ip \in call.ips
    BY DEF DeleteTargetUnroute, At, DeleteRouting
  <2>2. call.svc \in services
    BY <2>1 DEF DeleteRouting, DeletionOK, HeldAreServices, Deleting
  <2>3. call.id \notin DOMAIN targets[call.svc] /\ call.id \in Ids /\ call.id < MaxTargets
    BY <2>1 DEF DeleteRouting, DeletionOK, Structure, CallOK
  <2>4. QED
    BY <2>1, <2>2, <2>3
<1>2. mark \in Nat /\ family \in {IPv4, IPv6}
  <2>1. call.svc \in Services
    BY <1>1 DEF Structure, Maps
  <2>2. call.id \in Nat /\ offset[call.svc] \in Nat
    BY <1>1, <2>1, NfqlbAssumption DEF Structure, Maps
  <2>3. QED
    BY <2>2 DEF Mark, Family
<1>3. \A m \in Nat, a \in Addresses : ~IsWaiting(m, a)
  BY <1>1 DEF DeleteRouting, IsWaiting, AddRouting
<1>4. ASSUME NEW a \in Addresses, IsWanted(mark, a)
      PROVE  FALSE
  <2>1. PICK s \in services : \E id \in DOMAIN targets[s] : mark = Mark(s, id) /\ a \in targets[s][id]
    BY <1>4 DEF IsWanted
  <2>2. PICK id \in DOMAIN targets[s] : mark = Mark(s, id) /\ a \in targets[s][id]
    BY <2>1
  <2>3. id \in Ids /\ id < MaxTargets
    BY DEF Structure, Maps, TargetsOK, Active, ActiveTarget
  <2>4. s = call.svc /\ id = call.id
    BY <1>1, <2>2, <2>3, MarkIsOwn
  <2>5. QED
    BY <1>1, <2>2, <2>4
<1>5. ASSUME NEW a \in Addresses
      PROVE  <<mark, a>> \in net.routes <=> a \in call.ips
  BY <1>1, <1>2, <1>4 DEF Steering, IsLeaving
<1>6. <<mark, family>> \in net.rules
  BY <1>1, <1>2, <1>5 DEF Steering
<1>7. /\ net'.rules = net.rules \ {<<mark, family>>}
      /\ net'.routes = net.routes \ {<<mark, ip>>}
  <2>1. Fault => FALSE
    BY DEF Fault, Structure, FaultsOK
  <2>2. net' = DeletePolicyRoute(net, mark, ip)
    BY <2>1 DEF DeleteTargetUnroute, Unroute
  <2>3. QED
    BY <1>6, <2>2 DEF DeletePolicyRoute, RuleFor, RouteFor
<1>8. /\ UNCHANGED <<services, targets, offset>>
      /\ call'.op = call.op /\ call'.pc = call.pc /\ call'.svc = call.svc /\ call'.id = call.id
      /\ call'.ips = call.ips \ {ip}
  BY DEF DeleteTargetUnroute, goVars, Structure, CallOK, CallRecords
<1>9. ASSUME NEW m \in Nat, NEW a \in Addresses
      PROVE  /\ IsWanted(m, a)' <=> IsWanted(m, a)
             /\ IsLeaving(m, a)' <=> IsLeaving(m, a) /\ <<m, a>> # <<mark, ip>>
             /\ ~IsWaiting(m, a)'
  BY <1>1, <1>8 DEF IsWanted, IsWaiting, IsLeaving, AddRouting, DeleteRouting, Mark
<1>10. \A a \in Addresses : <<mark, a>> \in net'.routes => Family(a) # family
  BY <1>1, <1>5, <1>7 DEF Lists, Single
<1> HIDE DEF mark
<1>11. ASSUME NEW m \in Nat, NEW a \in Addresses
       PROVE  <<m, a>> \in net'.routes <=>
                (IsWanted(m, a)' /\ ~IsWaiting(m, a)') \/ IsLeaving(m, a)'
  <2>1. CASE m = mark /\ a = ip
    BY <1>4, <1>7, <1>9, <2>1
  <2>2. CASE <<m, a>> # <<mark, ip>>
    BY <1>3, <1>7, <1>9, <2>2 DEF Steering
  <2>3. QED
    BY <2>1, <2>2
<1>12. ASSUME NEW m \in Nat, NEW f \in {IPv4, IPv6}
       PROVE  <<m, f>> \in net'.rules <=>
                \E a \in Addresses : Family(a) = f /\ <<m, a>> \in net'.routes
  <2>1. CASE m = mark /\ f = family
    BY <1>7, <1>10, <2>1
  <2>2. CASE m # mark \/ f # family
    <3>1. <<m, f>> \in net'.rules <=> <<m, f>> \in net.rules
      BY <1>7, <2>2
    <3>2. ASSUME NEW a \in Addresses, Family(a) = f
          PROVE  <<m, a>> \in net'.routes <=> <<m, a>> \in net.routes
      BY <1>7, <2>2, <3>2
    <3>3. QED
      BY <3>1, <3>2 DEF Steering
  <2>3. QED
    BY <2>1, <2>2
<1>13. net'.routes \subseteq Nat \X Addresses /\ net'.rules \subseteq Nat \X {IPv4, IPv6}
  BY <1>7 DEF Steering
<1>14. QED
  BY <1>11, <1>12, <1>13 DEF Steering

(* heal finds every route that it looks at. *)
LEMMA SteeringHeal ==
  ASSUME Structure, HealIsFresh, Active, Apart, Routing, Handles, HeldAreServices, Steering,
         NEW id \in Ids, NEW ip \in Addresses, HealRoute(id, ip)
  PROVE  net' = net
<1> DEFINE mark == Mark(heal.svc, id)
<1>1. heal.svc \in services /\ id \in DOMAIN targets[heal.svc] /\ ip \in targets[heal.svc][id]
  BY DEF HealRoute, HealIsFresh, Wanted
<1>2. id < MaxTargets
  BY <1>1 DEF Active, ActiveTarget
<1>3. mark \in Nat
  BY <1>1, NfqlbAssumption DEF Structure, Maps, Mark
<1>4. IsWanted(mark, ip)
  BY <1>1 DEF IsWanted
<1>5. ASSUME IsWaiting(mark, ip) PROVE FALSE
  <2>1. /\ AddRouting /\ mark = Mark(call.svc, call.id)
    BY <1>5 DEF IsWaiting
  <2>2. call.svc \in services /\ call.id \in DOMAIN targets[call.svc] /\ call.id \in Ids
    BY <2>1 DEF AddRouting, Handles, HeldAreServices, Deleting, Routing, Structure, CallOK
  <2>3. call.id < MaxTargets
    BY <2>2 DEF Active, ActiveTarget
  <2>4. call.svc = heal.svc
    BY <1>1, <1>2, <2>1, <2>2, <2>3, MarkIsOwn
  <2>5. smu[heal.svc] = "heal" /\ smu[call.svc] = "reconciler"
    <3>1. heal.svc \in Services /\ heal.pc = "route"
      BY <1>1 DEF HealRoute, Structure, Maps
    <3>2. call.svc \in Services /\ call.pc \in ReconcilerSteps
      BY <2>1, <2>2 DEF AddRouting, ReconcilerSteps, Structure, Maps
    <3>3. QED
      BY <3>1, <3>2 DEF Structure, SmuOK
  <2>6. QED
    BY <2>4, <2>5
<1>6. <<mark, ip>> \in net.routes
  BY <1>3, <1>4, <1>5 DEF Steering
<1>7. QED
  BY <1>6 DEF HealRoute, Route, CreatePolicyRoute, CreatePolicyRouteFails, ValidPolicyRoute, RouteFor

(* A target comes with all its routes yet to be created. *)
LEMMA SteeringActivate ==
  ASSUME Structure, Active, Apart, Handles, HeldAreServices, Steering, AddTargetActivate
  PROVE  Steering'
<1> DEFINE mark == Mark(call.svc, call.id)
<1>1. /\ call.op = "AddTarget" /\ call.pc = "smu" /\ call.id \in Ids /\ call.id < MaxTargets
      /\ call.id \notin DOMAIN targets[call.svc]
      /\ targets' = [targets EXCEPT ![call.svc] = With(@, call.id, call.ips)]
      /\ call' = [call EXCEPT !.pc = "route"]
      /\ UNCHANGED <<services, offset, net>>
  BY DEF AddTargetActivate, EnterService, At, Activatable, Structure, CallOK
<1>2. call.svc \in services
  BY <1>1 DEF Handles, HeldAreServices, Deleting
<1>3. /\ call'.op = "AddTarget" /\ call'.pc = "route" /\ call'.svc = call.svc
      /\ call'.id = call.id /\ call'.ips = call.ips
  BY <1>1 DEF Structure, CallOK, CallRecords
<1>4. /\ \A s \in services : s # call.svc => targets'[s] = targets[s]
      /\ targets'[call.svc] = With(targets[call.svc], call.id, call.ips)
  BY <1>1, <1>2 DEF Structure, Maps, TargetsOK
<1>5. ASSUME NEW a, IsWanted(mark, a) PROVE FALSE
  <2>1. PICK s \in services : \E id \in DOMAIN targets[s] : mark = Mark(s, id) /\ a \in targets[s][id]
    BY <1>5 DEF IsWanted
  <2>2. PICK id \in DOMAIN targets[s] : mark = Mark(s, id)
    BY <2>1
  <2>3. id \in Ids /\ id < MaxTargets
    BY DEF Structure, Maps, TargetsOK, Active, ActiveTarget
  <2>4. s = call.svc /\ id = call.id
    BY <1>1, <1>2, <2>2, <2>3, MarkIsOwn
  <2>5. QED
    BY <1>1, <2>2, <2>4
<1>6. ASSUME NEW m \in Nat, NEW a \in Addresses
      PROVE  /\ IsWanted(m, a)' <=> IsWanted(m, a) \/ (m = mark /\ a \in call.ips)
             /\ IsWaiting(m, a)' <=> m = mark /\ a \in call.ips
             /\ ~IsLeaving(m, a)' /\ ~IsWaiting(m, a) /\ ~IsLeaving(m, a)
  <2>1. IsWaiting(m, a)' <=> m = mark /\ a \in call.ips
    BY <1>1, <1>3 DEF IsWaiting, AddRouting, Mark
  <2>2. ~IsLeaving(m, a)' /\ ~IsWaiting(m, a) /\ ~IsLeaving(m, a)
    BY <1>1, <1>3 DEF IsWaiting, IsLeaving, AddRouting, DeleteRouting
  <2>3. ASSUME IsWanted(m, a) PROVE IsWanted(m, a)'
    <3>1. PICK s \in services : \E id \in DOMAIN targets[s] : m = Mark(s, id) /\ a \in targets[s][id]
      BY <2>3 DEF IsWanted
    <3>2. PICK id \in DOMAIN targets[s] : m = Mark(s, id) /\ a \in targets[s][id]
      BY <3>1
    <3>3. id \in DOMAIN targets'[s] /\ targets'[s][id] = targets[s][id]
      BY <1>1, <1>4, <3>2 DEF With
    <3>4. QED
      BY <1>1, <3>2, <3>3 DEF IsWanted, Mark
  <2>4. ASSUME m = mark, a \in call.ips PROVE IsWanted(m, a)'
    <3>1. call.id \in DOMAIN targets'[call.svc] /\ targets'[call.svc][call.id] = call.ips
      BY <1>4 DEF With
    <3>2. QED
      BY <1>1, <1>2, <2>4, <3>1 DEF IsWanted, Mark
  <2>5. ASSUME IsWanted(m, a)' PROVE IsWanted(m, a) \/ (m = mark /\ a \in call.ips)
    <3>1. PICK s \in services : \E id \in DOMAIN targets'[s] : m = Mark(s, id) /\ a \in targets'[s][id]
      BY <1>1, <2>5 DEF IsWanted, Mark
    <3>2. PICK id \in DOMAIN targets'[s] : m = Mark(s, id) /\ a \in targets'[s][id]
      BY <3>1
    <3>3. CASE s = call.svc /\ id = call.id
      BY <1>4, <3>2, <3>3 DEF With
    <3>4. CASE ~(s = call.svc /\ id = call.id)
      <4>1. id \in DOMAIN targets[s] /\ targets'[s][id] = targets[s][id]
        BY <1>4, <3>2, <3>4 DEF With
      <4>2. QED
        BY <3>2, <4>1 DEF IsWanted
    <3>5. QED
      BY <3>3, <3>4
  <2>6. QED
    BY <2>1, <2>2, <2>3, <2>4, <2>5
<1> HIDE DEF mark
<1>7. QED
  BY <1>1, <1>5, <1>6 DEF Steering

(* A target goes with all its routes yet to be deleted. *)
LEMMA SteeringDeactivate ==
  ASSUME Structure, Active, Apart, HeldAreServices, DeletionOK, Steering,
         DeleteTargetDeactivate, UNCHANGED faults
  PROVE  Steering'
<1> DEFINE mark == Mark(call.svc, call.id)
<1>1. /\ call.op = "DeleteTarget" /\ call.pc = "smu"
      /\ call.id \in DOMAIN targets[call.svc]
      /\ targets' = [targets EXCEPT ![call.svc] = Without(@, call.id)]
      /\ UNCHANGED <<services, offset, net>>
  BY DEF DeleteTargetDeactivate, EnterService, At
<1>2. call.svc \in services /\ call.ips = targets[call.svc][call.id]
  BY <1>1 DEF DeletionOK, HeldAreServices, Deleting
<1>3. call.id \in Ids /\ call.id < MaxTargets /\ call.svc \in shm
  BY <1>1, <1>2 DEF Structure, CallOK, Active, ActiveTarget
<1>4. call' = [call EXCEPT !.pc = "unroute"]
  BY <1>3 DEF DeleteTargetDeactivate, DeactivateFails, Fault, Structure, FaultsOK
<1>5. /\ call'.op = "DeleteTarget" /\ call'.pc = "unroute" /\ call'.svc = call.svc
      /\ call'.id = call.id /\ call'.ips = call.ips
  BY <1>1, <1>4 DEF Structure, CallOK, CallRecords
<1>6. /\ \A s \in services : s # call.svc => targets'[s] = targets[s]
      /\ targets'[call.svc] = Without(targets[call.svc], call.id)
  BY <1>1, <1>2 DEF Structure, Maps, TargetsOK
<1>7. ASSUME NEW m \in Nat, NEW a \in Addresses
      PROVE  /\ IsWanted(m, a) <=> IsWanted(m, a)' \/ (m = mark /\ a \in call.ips)
             /\ IsLeaving(m, a)' <=> m = mark /\ a \in call.ips
             /\ ~IsWaiting(m, a)' /\ ~IsWaiting(m, a) /\ ~IsLeaving(m, a)
  <2>1. IsLeaving(m, a)' <=> m = mark /\ a \in call.ips
    BY <1>1, <1>5 DEF IsLeaving, DeleteRouting, Mark
  <2>2. ~IsWaiting(m, a)' /\ ~IsWaiting(m, a) /\ ~IsLeaving(m, a)
    BY <1>1, <1>5 DEF IsWaiting, IsLeaving, AddRouting, DeleteRouting
  <2>3. ASSUME IsWanted(m, a)' PROVE IsWanted(m, a)
    <3>1. PICK s \in services : \E id \in DOMAIN targets'[s] : m = Mark(s, id) /\ a \in targets'[s][id]
      BY <1>1, <2>3 DEF IsWanted, Mark
    <3>2. PICK id \in DOMAIN targets'[s] : m = Mark(s, id) /\ a \in targets'[s][id]
      BY <3>1
    <3>3. id \in DOMAIN targets[s] /\ targets'[s][id] = targets[s][id]
      BY <1>6, <3>2 DEF Without
    <3>4. QED
      BY <3>2, <3>3 DEF IsWanted
  <2>4. ASSUME m = mark, a \in call.ips PROVE IsWanted(m, a)
    BY <1>1, <1>2, <2>4 DEF IsWanted
  <2>5. ASSUME IsWanted(m, a) PROVE IsWanted(m, a)' \/ (m = mark /\ a \in call.ips)
    <3>1. PICK s \in services : \E id \in DOMAIN targets[s] : m = Mark(s, id) /\ a \in targets[s][id]
      BY <2>5 DEF IsWanted
    <3>2. PICK id \in DOMAIN targets[s] : m = Mark(s, id) /\ a \in targets[s][id]
      BY <3>1
    <3>3. CASE s = call.svc /\ id = call.id
      BY <1>2, <3>2, <3>3
    <3>4. CASE ~(s = call.svc /\ id = call.id)
      <4>1. id \in DOMAIN targets'[s] /\ targets'[s][id] = targets[s][id]
        BY <1>6, <3>2, <3>4 DEF Without
      <4>2. QED
        BY <1>1, <3>2, <4>1 DEF IsWanted, Mark
    <3>5. QED
      BY <3>3, <3>4
  <2>6. QED
    BY <2>1, <2>2, <2>3, <2>4, <2>5
<1> HIDE DEF mark
<1>8. QED
  BY <1>1, <1>7 DEF Steering

(* What is wanted changes in no other step. *)
LEMMA WantedStays ==
  ASSUME Structure, DrainedCall, [Next]_vars, ~AddTargetActivate, ~DeleteTargetDeactivate,
         NEW m, NEW a
  PROVE  IsWanted(m, a)' <=> IsWanted(m, a)
<1>1. /\ DOMAIN targets = Services /\ DOMAIN offset = Services /\ services \subseteq Services
  BY DEF Structure, Maps, TargetsOK
<1>2. CASE UNCHANGED <<services, targets, offset>>
  BY <1>2 DEF IsWanted, Mark
<1>3. CASE AddServiceInit
  <2>1. /\ services' = services \cup {call.svc} /\ call.svc \notin services
        /\ \A s \in services : targets'[s] = targets[s] /\ offset'[s] = offset[s]
    BY <1>1, <1>3 DEF AddServiceInit
  <2>2. call.svc \in Services
    BY <1>3 DEF AddServiceInit, Enter, At, Structure, CallOK, Idle
  <2>3. DOMAIN targets'[call.svc] = {}
    BY <1>1, <1>3, <2>2, NoMapLemma DEF AddServiceInit
  <2>4. QED
    BY <2>1, <2>3 DEF IsWanted, Mark
<1>4. CASE DeleteServiceForget
  <2>1. /\ services' = services \ {call.svc} /\ UNCHANGED <<targets, offset>>
        /\ DOMAIN targets[call.svc] = {}
    BY <1>4 DEF DeleteServiceForget, Enter, At, DrainedCall, Deleting
  <2>2. QED
    BY <2>1 DEF IsWanted, Mark
<1>5. ASSUME NEW id \in Ids, DeleteServiceTarget(id) PROVE FALSE
  BY <1>5 DEF DeleteServiceTarget, At, DrainedCall, Deleting
<1>6. CASE StoreChange
  BY <1>2, <1>3, <1>4, <1>5, <1>6 DEF StoreChange, AddServiceExisting, DeleteServiceUnknown,
     DeleteServiceUnlink, DeleteServiceReturn, goVars
<1>7. QED
  BY <1>2, <1>6, StoreCases DEF store

(* Nor does what a call has yet to create or delete, except by its steps. *)
LEMMA PendingStays ==
  ASSUME Structure, [Next]_vars, ~AddTargetActivate, ~DeleteTargetDeactivate,
         \A ip \in Addresses : ~AddTargetRoute(ip) /\ ~DeleteTargetUnroute(ip),
         NEW m, NEW a
  PROVE  (IsWaiting(m, a)' <=> IsWaiting(m, a)) /\ (IsLeaving(m, a)' <=> IsLeaving(m, a))
<1> USE DEF IsWaiting, IsLeaving
<1>1. CASE ~AddRouting /\ ~DeleteRouting /\ ~AddRouting' /\ ~DeleteRouting'
  BY <1>1
<1>2. CASE AddTargetReturn \/ DeleteTargetReturn
  BY <1>2, IdleIsOK DEF AddTargetReturn, DeleteTargetReturn, Return, AddRouting, DeleteRouting
<1>3. CASE UNCHANGED call
  <2>1. CASE UNCHANGED offset
    BY <1>3, <2>1 DEF AddRouting, DeleteRouting, Mark
  <2>2. CASE AddServiceInit
    BY <1>3, <2>2 DEF AddServiceInit, Enter, At, AddRouting, DeleteRouting
  <2>3. UNCHANGED offset \/ AddServiceInit
    BY StoreCases DEF store, StoreChange, AddServiceExisting, DeleteServiceUnknown,
       DeleteServiceForget, DeleteServiceUnlink, DeleteServiceTarget, DeleteServiceReturn,
       AddTargetActivate, DeleteTargetDeactivate, goVars
  <2>4. QED
    BY <2>1, <2>2, <2>3
<1>4. QED
  BY <1>1, <1>2, <1>3, RoutingCases

Exact == Quiet => DeletionOK /\ Steering

LEMMA ExactStep ==
  ASSUME IInv, Lists, IsNet(net), Drained, Exact, [Next]_vars
  PROVE  Exact'
<1> SUFFICES ASSUME Quiet' PROVE DeletionOK' /\ Steering'
  BY DEF Exact
<1>1. Quiet /\ UNCHANGED faults
  BY QuietBefore DEF Quiet, IInv
<1>2. DrainedCall /\ HeldAreServices /\ DeletionOK /\ Steering
  BY <1>1 DEF Drained, Exact
<1>3. DeletionOK'
  BY <1>2, DeletionStep DEF IInv
<1>4. CASE AddTargetActivate
  BY <1>2, <1>3, <1>4, SteeringActivate DEF IInv
<1>5. CASE DeleteTargetDeactivate
  BY <1>1, <1>2, <1>3, <1>5, SteeringDeactivate DEF IInv
<1>6. ASSUME NEW ip \in Addresses, AddTargetRoute(ip) PROVE Steering'
  BY <1>1, <1>2, <1>6, SteeringAdd DEF IInv
<1>7. ASSUME NEW ip \in Addresses, DeleteTargetUnroute(ip) PROVE Steering'
  BY <1>1, <1>2, <1>7, SteeringDelete DEF IInv
<1>8. ASSUME ~AddTargetActivate, ~DeleteTargetDeactivate,
             \A ip \in Addresses : ~AddTargetRoute(ip) /\ ~DeleteTargetUnroute(ip)
      PROVE  Steering'
  <2>1. net' = net
    BY <1>2, <1>8, NetCases, SteeringHeal DEF NetMove, IInv
  <2>2. ASSUME NEW m, NEW a
        PROVE  /\ IsWanted(m, a)' <=> IsWanted(m, a)
               /\ IsWaiting(m, a)' <=> IsWaiting(m, a)
               /\ IsLeaving(m, a)' <=> IsLeaving(m, a)
    BY <1>2, <1>8, WantedStays, PendingStays DEF IInv
  <2>3. QED
    BY <1>2, <2>1, <2>2 DEF Steering
<1>9. QED
  BY <1>3, <1>4, <1>5, <1>6, <1>7, <1>8

LEMMA SteeringSettles ==
  ASSUME Structure, Steering, IsNet(net), call = Idle
  PROVE  net.rules = WantedRules /\ net.routes = WantedRoutes
<1>1. ASSUME NEW m, NEW a PROVE ~IsWaiting(m, a) /\ ~IsLeaving(m, a)
  BY IdleIsOK DEF IsWaiting, IsLeaving, AddRouting, DeleteRouting
<1>2. ASSUME NEW m, NEW a, IsWanted(m, a) PROVE m \in Nat /\ a \in Addresses
  <2>1. PICK s \in services : \E id \in DOMAIN targets[s] : m = id + offset[s] /\ a \in targets[s][id]
    BY <1>2 DEF IsWanted, Mark
  <2>2. PICK id \in DOMAIN targets[s] : m = id + offset[s] /\ a \in targets[s][id]
    BY <2>1
  <2>3. s \in Services /\ offset[s] \in Nat
    BY DEF Structure, Maps
  <2>4. id \in Ids /\ targets[s][id] \subseteq Addresses
    BY <2>3 DEF Structure, Maps, TargetsOK
  <2>5. id \in Nat
    BY <2>4, NfqlbAssumption
  <2>6. QED
    BY <2>2, <2>3, <2>4, <2>5
<1>3. \A m, a : <<m, a>> \in net.routes <=> IsWanted(m, a)
  <2>1. ASSUME NEW m, NEW a, <<m, a>> \in net.routes PROVE m \in Nat /\ a \in Addresses
    BY <2>1 DEF Steering
  <2>2. QED
    BY <1>1, <1>2, <2>1 DEF Steering
<1>4. ASSUME NEW t \in CurrentTargets
      PROVE  /\ t[1] \in services /\ t[2] \in DOMAIN targets[t[1]]
  BY DEF CurrentTargets
<1>5. ASSUME NEW s \in services, NEW id \in DOMAIN targets[s]
      PROVE  <<s, id>> \in CurrentTargets
  BY DEF CurrentTargets, Structure, Maps, TargetsOK
<1>6. \A r : r \in WantedRoutes <=> \E m, a : r = <<m, a>> /\ IsWanted(m, a)
  <2>1. ASSUME NEW r \in WantedRoutes PROVE \E m, a : r = <<m, a>> /\ IsWanted(m, a)
    <3>1. PICK t \in CurrentTargets : \E ip \in targets[t[1]][t[2]] : r = <<Mark(t[1], t[2]), ip>>
      BY DEF WantedRoutes, RouteFor
    <3>2. PICK ip \in targets[t[1]][t[2]] : r = <<Mark(t[1], t[2]), ip>>
      BY <3>1
    <3>3. IsWanted(Mark(t[1], t[2]), ip)
      BY <1>4 DEF IsWanted
    <3>4. QED
      BY <3>2, <3>3
  <2>2. ASSUME NEW m, NEW a, IsWanted(m, a) PROVE <<m, a>> \in WantedRoutes
    <3>1. PICK s \in services : \E id \in DOMAIN targets[s] : m = Mark(s, id) /\ a \in targets[s][id]
      BY <2>2 DEF IsWanted
    <3>2. PICK id \in DOMAIN targets[s] : m = Mark(s, id) /\ a \in targets[s][id]
      BY <3>1
    <3>3. <<s, id>> \in CurrentTargets
      BY <1>5
    <3>4. QED
      BY <3>2, <3>3 DEF WantedRoutes, RouteFor
  <2>3. QED
    BY <2>1, <2>2
<1>7. net.routes = WantedRoutes
  <2>1. \A r \in net.routes : r = <<r[1], r[2]>>
    BY DEF Steering
  <2>2. QED
    BY <1>3, <1>6, <2>1
<1>8. \A r : r \in WantedRules <=> \E m, a : r = <<m, Family(a)>> /\ IsWanted(m, a)
  <2>1. ASSUME NEW r \in WantedRules PROVE \E m, a : r = <<m, Family(a)>> /\ IsWanted(m, a)
    <3>1. PICK t \in CurrentTargets :
            \E ip \in targets[t[1]][t[2]] : r = <<Mark(t[1], t[2]), Family(ip)>>
      BY DEF WantedRules, RuleFor
    <3>2. PICK ip \in targets[t[1]][t[2]] : r = <<Mark(t[1], t[2]), Family(ip)>>
      BY <3>1
    <3>3. IsWanted(Mark(t[1], t[2]), ip)
      BY <1>4 DEF IsWanted
    <3>4. QED
      BY <3>2, <3>3
  <2>2. ASSUME NEW m, NEW a, IsWanted(m, a) PROVE <<m, Family(a)>> \in WantedRules
    <3>1. PICK s \in services : \E id \in DOMAIN targets[s] : m = Mark(s, id) /\ a \in targets[s][id]
      BY <2>2 DEF IsWanted
    <3>2. PICK id \in DOMAIN targets[s] : m = Mark(s, id) /\ a \in targets[s][id]
      BY <3>1
    <3>3. <<s, id>> \in CurrentTargets
      BY <1>5
    <3>4. QED
      BY <3>2, <3>3 DEF WantedRules, RuleFor
  <2>3. QED
    BY <2>1, <2>2
<1>9. net.rules = WantedRules
  <2>1. ASSUME NEW r \in net.rules PROVE r \in WantedRules
    <3>1. r = <<r[1], r[2]>> /\ r[1] \in Nat /\ r[2] \in {IPv4, IPv6}
      BY DEF Steering
    <3>2. PICK a \in Addresses : Family(a) = r[2] /\ <<r[1], a>> \in net.routes
      BY <3>1 DEF Steering
    <3>3. QED
      BY <1>3, <1>8, <3>1, <3>2
  <2>2. ASSUME NEW r \in WantedRules PROVE r \in net.rules
    <3>1. PICK m, a : r = <<m, Family(a)>> /\ IsWanted(m, a)
      BY <1>8
    <3>2. m \in Nat /\ a \in Addresses /\ <<m, a>> \in net.routes /\ Family(a) \in {IPv4, IPv6}
      BY <1>2, <1>3, <3>1 DEF Family
    <3>3. QED
      BY <3>1, <3>2 DEF Steering
  <2>3. QED
    BY <2>1, <2>2
<1>10. QED
  BY <1>7, <1>9

(* When endpoints have one address of a family at most, services are       *)
(* drained before they are deleted and nothing fails, the kernel steers    *)
(* exactly the targets of the services of the map whenever no call is in   *)
(* progress: marks are reused without a trace (routing.go, offset.go).     *)
THEOREM SteeringIsExact ==
  ASSUME OnePerFamily
  PROVE  Spec => []SteeringExact
<1>1. Init => Lists /\ IsNet(net) /\ Drained /\ Exact
  <2> SUFFICES ASSUME Init PROVE Lists /\ IsNet(net) /\ Drained /\ Exact
    OBVIOUS
  <2>1. Lists
    BY NoMapLemma DEF Init, Lists, Single, Idle
  <2>2. IsNet(net) /\ net.rules = {} /\ net.routes = {}
    BY DEF Init, EmptyNet, IsNet
  <2>3. Drained
    BY IdleIsOK, NoMapLemma DEF Init, Drained, DrainedCall, HeldAreServices, FlowsAreHeld, Deleting
  <2>4. DeletionOK /\ Steering
    BY <2>2, IdleIsOK DEF Init, DeletionOK, Steering, IsWanted, IsLeaving, DeleteRouting
  <2>5. QED
    BY <2>1, <2>2, <2>3, <2>4 DEF Exact
<1>2. IInv /\ Lists /\ IsNet(net) /\ Drained /\ Exact /\ [Next]_vars
        => (Lists /\ IsNet(net) /\ Drained /\ Exact)'
  BY ListsStep, AddedStep, DrainedStep, ExactStep DEF IInv
<1>3. IInv /\ Lists /\ IsNet(net) /\ Drained /\ Exact => SteeringExact
  BY SteeringSettles DEF Exact, Quiet, SteeringExact, IInv
<1>4. QED
  BY <1>1, <1>2, <1>3, InvariantCorrect, PTL DEF Spec
=============================================================================
