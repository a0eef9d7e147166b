------------------------------- MODULE Nfqlb -------------------------------
(***************************************************************************)
(* pkg/nfqlb/nfqlb.go: the services, targets and flows of one stateless    *)
(* load balancer, their locks, and the goroutine that heals policy routes. *)
(*                                                                         *)
(* Two goroutines run.  The reconciler calls AddService, DeleteService,    *)
(* AddTarget, DeleteTarget, AddFlow and DeleteFlow, one call at a time, on *)
(* the services for which it holds a handle, the way Manager does.  heal   *)
(* wakes up, takes nfqlb.mu for the whole round, and re-creates the policy *)
(* routes of every target, service by service under service.mu.            *)
(*                                                                         *)
(* A *Service is identified with its name: the reconciler asks for a new   *)
(* one only after it has dropped the handle of the old one.                *)
(*                                                                         *)
(* External, modelled from how this package uses it: the nfqlb command     *)
(* (the shared memory of each service and the flow table) and the kernel   *)
(* (PolicyRouting, NftSets).  A command or a netlink request may fail      *)
(* without a reason in the model MaxFaults times.                          *)
(***************************************************************************)
EXTENDS FwmarkRanges, PolicyRouting, NftSets, FiniteSets

CONSTANTS Services,       \* names of services
          Ids,            \* identifiers of targets
          AddressSets,    \* the address lists endpoints may have
          Flows,          \* names of flows
          CidrSets,       \* the destination CIDRs flows may have
          MaxTargets,     \* defaultMaxTargets: marks of a service, --N of nfqlb init
          StartingOffset, \* nfqlbConfig.startingOffset
          MaxInt,         \* math.MaxInt, the bound of getOffset
          MaxFaults,      \* bound on unexplained failures of commands and netlink
          DrainFirst      \* does the reconciler delete only services without targets?

ASSUME NfqlbAssumption ==
    /\ Ids \subseteq Nat
    /\ AddressSets \subseteq SUBSET Addresses
    /\ CidrSets \subseteq SUBSET (Hosts \cup Networks)
    /\ NftSetsAssumption
    /\ MaxTargets \in Nat \ {0}
    /\ StartingOffset \in Nat
    /\ MaxInt \in Nat
    /\ MaxFaults \in Nat
    /\ DrainFirst \in BOOLEAN

VARIABLES
    services, \* keys of nfqlb.services
    offset,   \* Service.offset
    targets,  \* Service.targets: identifier -> addresses
    held,     \* services the reconciler holds a handle of (Manager.services)
    mu,       \* owner of nfqlb.mu
    smu,      \* owner of each service.mu
    call,     \* the reconciler's call in progress
    heal,     \* the heal goroutine
    shm,      \* services whose shared memory exists (external)
    active,   \* what it holds: active index -> mark (external)
    flows,    \* nfqlb's flow table: flow -> service and CIDRs (external)
    vips,     \* the nftables sets of destinations (external)
    net,      \* rules and routes of the kernel (external)
    faults    \* failures so far

goVars == <<services, offset, targets, held>>
lockVars == <<mu, smu>>
extVars == <<shm, active, flows, vips, net, faults>>
vars == <<goVars, lockVars, call, heal, extVars>>

NoMap == [x \in {} |-> 0]     \* an empty Go map

Idle == [op |-> "none", svc |-> "none", pc |-> "none", id |-> 0,
         ips |-> {}, todo |-> {}, err |-> FALSE]
Sleep == [pc |-> "sleep", todo |-> {}, svc |-> "none", routes |-> {}]

Mark(s, id) == id + offset[s]

Init ==
    /\ services = {}
    /\ offset = [s \in Services |-> StartingOffset]
    /\ targets = [s \in Services |-> NoMap]
    /\ held = {}
    /\ mu = "free"
    /\ smu = [s \in Services |-> "free"]
    /\ call = Idle
    /\ heal = Sleep
    /\ shm = {}
    /\ active = [s \in Services |-> NoMap]
    /\ flows = NoMap
    /\ vips \in ConfiguredSets
    /\ net = EmptyNet
    /\ faults = 0
-----------------------------------------------------------------------------
(* Failures *)

Fault == faults < MaxFaults /\ faults' = faults + 1
NoFault == UNCHANGED faults

(* f without the key x, as Go's delete; f with x set to v. *)
Without(f, x) == [y \in DOMAIN f \ {x} |-> f[y]]
With(f, x, v) == [y \in DOMAIN f \cup {x} |-> IF y = x THEN v ELSE f[y]]

(* createPolicyRoute and deletePolicyRoute, errors logged or dropped by    *)
(* every caller.                                                           *)
Route(mark, ip) ==
    \/ net' = CreatePolicyRoute(net, mark, ip) /\ NoFault
    \/ net' \in CreatePolicyRouteFails(net, mark, ip) /\ Fault

Unroute(mark, ip) ==
    \/ net' = DeletePolicyRoute(net, mark, ip) /\ NoFault
    \/ net' \in DeletePolicyRouteFails(net, mark, ip) /\ Fault

(* `nfqlb activate' and `nfqlb deactivate' map the shared memory, and only *)
(* know indexes below the size the service was made with.                  *)
Activatable(s, id) == s \in shm /\ id < MaxTargets

Deactivate(s, id) ==
    /\ s \in shm
    /\ active' = [active EXCEPT ![s] = Without(@, id)]
    /\ NoFault

DeactivateFails(s) ==
    /\ \/ s \notin shm /\ NoFault
       \/ s \in shm /\ Fault
    /\ UNCHANGED active

(* A change of the flow table followed by updateNfQueueDestinationCIDRs,   *)
(* which programs the destinations of the flows flow-list returns; either  *)
(* part may fail.                                                          *)
Destinations(table) == UNION {table[f].cidrs : f \in DOMAIN table}

FlowChange(table) ==
    /\ flows' = table
    /\ vips' = SetDestinationCIDRs(vips, Destinations(table))
    /\ NoFault

FlowChangeFails(table) ==
    /\ \/ UNCHANGED <<flows, vips>>
       \/ /\ flows' = table
          /\ vips' \in SetDestinationCIDRsFails(vips, Destinations(table))
    /\ Fault

FlowDelete(f) == FlowChange(Without(flows, f))
FlowDeleteFails(f) == FlowChangeFails(Without(flows, f))
-----------------------------------------------------------------------------
(* The reconciler's calls *)

(* The call of op on service s starts: its first step waits for lock. *)
Call(op, s, lock) == call = Idle /\ call' = [Idle EXCEPT !.op = op, !.svc = s, !.pc = lock]
At(op, pc) == call.op = op /\ call.pc = pc
Return == call' = Idle

(* Mutants of Enter and EnterService: the lock is not waited for. *)
EnterUnlocked(op) == At(op, "mu")
EnterServiceUnlocked(op) == At(op, "smu")

(* nfqlb.mu or service.mu can be locked; a step that unlocks it again does *)
(* not show it.                                                            *)
Enter(op) == At(op, "mu") /\ mu = "free"
EnterService(op) == At(op, "smu") /\ smu[call.svc] = "free"

(* Mutant of Unlock: an early return forgets it. *)
NoUnlock == UNCHANGED smu

Lock == smu' = [smu EXCEPT ![call.svc] = "reconciler"]
Unlock == smu' = [smu EXCEPT ![call.svc] = "free"]

CallAddService(s) ==
    /\ s \notin held \/ s \in services
    /\ Call("AddService", s, "mu")
    /\ UNCHANGED <<goVars, lockVars, heal, extVars>>

CallDeleteService(s) ==
    /\ s \in held
    /\ DrainFirst => targets[s] = NoMap
    /\ Call("DeleteService", s, "mu")
    /\ UNCHANGED <<goVars, lockVars, heal, extVars>>

CallAddTarget(s, id, ips) ==
    /\ s \in held
    /\ call = Idle
    /\ call' = [Idle EXCEPT !.op = "AddTarget", !.svc = s, !.pc = "smu", !.id = id, !.ips = ips]
    /\ UNCHANGED <<goVars, lockVars, heal, extVars>>

(* The reconciler passes the addresses the target was added with; it also  *)
(* deletes targets whose addition has failed.                              *)
CallDeleteTarget(s, id) ==
    /\ s \in held
    /\ call = Idle
    /\ call' = [Idle EXCEPT !.op = "DeleteTarget", !.svc = s, !.pc = "smu", !.id = id,
                            !.ips = IF id \in DOMAIN targets[s] THEN targets[s][id] ELSE {}]
    /\ UNCHANGED <<goVars, lockVars, heal, extVars>>
-----------------------------------------------------------------------------
(* AddService: the whole body runs under nfqlb.mu, and touches nothing that *)
(* is used without that lock, so it is one step.                            *)

AddServiceExisting ==
    /\ Enter("AddService")
    /\ call.svc \in services
    /\ held' = held \cup {call.svc}
    /\ Return
    /\ UNCHANGED <<services, offset, targets, lockVars, heal, extVars>>

Table == [s \in services |-> [offset |-> offset[s], maxTargets |-> MaxTargets]]
Placements == StartingOffset .. (MaxInt - MaxTargets)

(* Mutant of Offsets: the offset follows from the number of services. *)
OffsetsByCount == {StartingOffset + Cardinality(services) * MaxTargets}

(* What getOffset returns (FwmarkOffset), nothing if there is no room. *)
Offsets == {o \in Placements : IsFirstFit(o, MaxTargets, Table, StartingOffset)}

AddServiceNoRoom ==
    /\ Enter("AddService")
    /\ call.svc \notin services
    /\ Offsets = {}
    /\ Return
    /\ UNCHANGED <<goVars, lockVars, heal, extVars>>

AddServiceInit ==
    /\ Enter("AddService")
    /\ call.svc \notin services
    /\ \E o \in Offsets : offset' = [offset EXCEPT ![call.svc] = o]
    /\ services' = services \cup {call.svc}
    /\ targets' = [targets EXCEPT ![call.svc] = NoMap]
    /\ held' = held \cup {call.svc}
    /\ shm' = shm \cup {call.svc}
    /\ active' = [active EXCEPT ![call.svc] = NoMap]
    /\ Return
    /\ UNCHANGED <<lockVars, heal, flows, vips, net, faults>>

(* `nfqlb init' failed. *)
AddServiceInitFails ==
    /\ Enter("AddService")
    /\ call.svc \notin services
    /\ Fault
    /\ Return
    /\ UNCHANGED <<goVars, lockVars, heal, shm, active, flows, vips, net>>
-----------------------------------------------------------------------------
(* DeleteService *)

(* The early return for a name that is not in the map leaves nfqlb.mu      *)
(* locked: the error-free result makes the reconciler drop its handle.     *)
DeleteServiceUnknown ==
    /\ Enter("DeleteService")
    /\ call.svc \notin services
    /\ mu' = "reconciler"
    /\ held' = held \ {call.svc}
    /\ Return
    /\ UNCHANGED <<services, offset, targets, smu, heal, extVars>>

(* Lock, remove the entry, unlock. *)
DeleteServiceForget ==
    /\ Enter("DeleteService")
    /\ call.svc \in services
    /\ services' = services \ {call.svc}
    /\ call' = [call EXCEPT !.pc = "smu"]
    /\ UNCHANGED <<offset, targets, held, lockVars, heal, extVars>>

(* `nfqlb delete' unlinks the shared memory, under service.mu. *)
DeleteServiceUnlink ==
    /\ EnterService("DeleteService")
    /\ Lock
    /\ shm' = shm \ {call.svc}
    /\ call' = [call EXCEPT !.pc = "targets", !.todo = DOMAIN targets[call.svc]]
    /\ UNCHANGED <<goVars, mu, heal, active, flows, vips, net, faults>>

(* Mutant of DeleteServiceUnlinkFails: the error return keeps service.mu. *)
DeleteServiceKeepsLock ==
    /\ EnterService("DeleteService")
    /\ Fault
    /\ Lock
    /\ Return
    /\ UNCHANGED <<goVars, mu, heal, shm, active, flows, vips, net>>

DeleteServiceUnlinkFails ==
    /\ EnterService("DeleteService")
    /\ Fault
    /\ Return
    /\ UNCHANGED <<goVars, lockVars, heal, shm, active, flows, vips, net>>

(* A target goes: it leaves the map of targets first.  `nfqlb deactivate'  *)
(* has to map the shared memory, which the call has just unlinked: it      *)
(* fails, and deleteTargetNoLock returns without deleting policy routes.   *)
DeleteServiceTarget(id) ==
    /\ At("DeleteService", "targets") /\ id \in call.todo
    /\ targets' = [targets EXCEPT ![call.svc] = Without(@, id)]
    /\ DeactivateFails(call.svc)
    /\ call' = [call EXCEPT !.todo = @ \ {id}, !.err = TRUE]
    /\ UNCHANGED <<services, offset, held, lockVars, heal, shm, flows, vips, net>>

(* Mutant of DeleteServiceList: the flows are taken to go with the service. *)
DeleteServiceSkipsFlows ==
    /\ At("DeleteService", "targets") /\ call.todo = {}
    /\ call' = [call EXCEPT !.pc = "flows"]
    /\ UNCHANGED <<goVars, lockVars, heal, extVars>>

(* flowList, for the flows that refer to the service. *)
DeleteServiceList ==
    /\ At("DeleteService", "targets") /\ call.todo = {}
    /\ call' = [call EXCEPT !.pc = "flows",
                            !.todo = {f \in DOMAIN flows : flows[f].svc = call.svc}]
    /\ UNCHANGED <<goVars, lockVars, heal, extVars>>

DeleteServiceListFails ==
    /\ At("DeleteService", "targets") /\ call.todo = {}
    /\ Fault
    /\ Unlock
    /\ Return
    /\ UNCHANGED <<goVars, mu, heal, shm, active, flows, vips, net>>

DeleteServiceFlow(f) ==
    /\ At("DeleteService", "flows") /\ f \in call.todo
    /\ \/ FlowDelete(f) /\ call' = [call EXCEPT !.todo = @ \ {f}]
       \/ FlowDeleteFails(f) /\ call' = [call EXCEPT !.todo = @ \ {f}, !.err = TRUE]
    /\ UNCHANGED <<goVars, lockVars, heal, shm, active, net>>

DeleteServiceReturn ==
    /\ At("DeleteService", "flows") /\ call.todo = {}
    /\ Unlock
    /\ held' = IF call.err THEN held ELSE held \ {call.svc}
    /\ Return
    /\ UNCHANGED <<services, offset, targets, mu, heal, extVars>>
-----------------------------------------------------------------------------
(* AddTarget, under service.mu *)

AddTargetExisting ==
    /\ EnterService("AddTarget")
    /\ call.id \in DOMAIN targets[call.svc]
    /\ Return
    /\ UNCHANGED <<goVars, lockVars, heal, extVars>>

(* `nfqlb activate' needs the shared memory and an index below --N. *)
AddTargetActivate ==
    /\ EnterService("AddTarget")
    /\ call.id \notin DOMAIN targets[call.svc]
    /\ Activatable(call.svc, call.id)
    /\ Lock
    /\ active' = [active EXCEPT ![call.svc] = With(@, call.id, Mark(call.svc, call.id))]
    /\ targets' = [targets EXCEPT ![call.svc] = With(@, call.id, call.ips)]
    /\ call' = [call EXCEPT !.pc = "route"]
    /\ UNCHANGED <<services, offset, held, mu, heal, shm, flows, vips, net, faults>>

(* Mutant of AddTargetActivateFails: the target is recorded before the command. *)
AddTargetRecordedFirst ==
    /\ EnterService("AddTarget")
    /\ call.id \notin DOMAIN targets[call.svc]
    /\ \/ ~Activatable(call.svc, call.id) /\ NoFault
       \/ Activatable(call.svc, call.id) /\ Fault
    /\ targets' = [targets EXCEPT ![call.svc] = With(@, call.id, call.ips)]
    /\ Return
    /\ UNCHANGED <<services, offset, held, lockVars, heal, shm, active, flows, vips, net>>

AddTargetActivateFails ==
    /\ EnterService("AddTarget")
    /\ call.id \notin DOMAIN targets[call.svc]
    /\ \/ ~Activatable(call.svc, call.id) /\ NoFault
       \/ Activatable(call.svc, call.id) /\ Fault
    /\ Return
    /\ UNCHANGED <<goVars, lockVars, heal, shm, active, flows, vips, net>>

AddTargetRoute(ip) ==
    /\ At("AddTarget", "route") /\ ip \in call.ips
    /\ Route(Mark(call.svc, call.id), ip)
    /\ call' = [call EXCEPT !.ips = @ \ {ip}]
    /\ UNCHANGED <<goVars, lockVars, heal, shm, active, flows, vips>>

AddTargetReturn ==
    /\ At("AddTarget", "route") /\ call.ips = {}
    /\ Unlock
    /\ Return
    /\ UNCHANGED <<goVars, mu, heal, extVars>>
-----------------------------------------------------------------------------
(* DeleteTarget, under service.mu *)

DeleteTargetAbsent ==
    /\ EnterService("DeleteTarget")
    /\ call.id \notin DOMAIN targets[call.svc]
    /\ Return
    /\ UNCHANGED <<goVars, lockVars, heal, extVars>>

DeleteTargetDeactivate ==
    /\ EnterService("DeleteTarget")
    /\ call.id \in DOMAIN targets[call.svc]
    /\ targets' = [targets EXCEPT ![call.svc] = Without(@, call.id)]
    /\ \/ /\ Deactivate(call.svc, call.id)
          /\ Lock
          /\ call' = [call EXCEPT !.pc = "unroute"]
       \/ DeactivateFails(call.svc) /\ UNCHANGED smu /\ Return
    /\ UNCHANGED <<services, offset, held, mu, heal, shm, flows, vips, net>>

DeleteTargetUnroute(ip) ==
    /\ At("DeleteTarget", "unroute") /\ ip \in call.ips
    /\ Unroute(Mark(call.svc, call.id), ip)
    /\ call' = [call EXCEPT !.ips = @ \ {ip}]
    /\ UNCHANGED <<goVars, lockVars, heal, shm, active, flows, vips>>

DeleteTargetReturn ==
    /\ At("DeleteTarget", "unroute") /\ call.ips = {}
    /\ Unlock
    /\ Return
    /\ UNCHANGED <<goVars, mu, heal, extVars>>
-----------------------------------------------------------------------------
(* AddFlow and DeleteFlow take no lock: only the reconciler's own calls    *)
(* use the flow table and the nftables sets.                               *)

AddFlow(s, f, cidrs) ==
    /\ call = Idle /\ s \in held
    /\ LET table == With(flows, f, [svc |-> s, cidrs |-> cidrs])
       IN FlowChange(table) \/ FlowChangeFails(table)
    /\ UNCHANGED <<goVars, lockVars, call, heal, shm, active, net>>

DeleteFlow(s, f) ==
    /\ call = Idle /\ s \in held
    /\ FlowDelete(f) \/ FlowDeleteFails(f)
    /\ UNCHANGED <<goVars, lockVars, call, heal, shm, active, net>>
-----------------------------------------------------------------------------
(* heal *)

(* The interval has passed: lock the map and walk over its services. *)
HealBegin ==
    /\ heal = Sleep /\ mu = "free"
    /\ mu' = "heal"
    /\ heal' = [heal EXCEPT !.pc = "next", !.todo = services]
    /\ UNCHANGED <<goVars, smu, call, extVars>>

HealLock(s) ==
    /\ heal.pc = "next" /\ s \in heal.todo
    /\ smu[s] = "free"
    /\ smu' = [smu EXCEPT ![s] = "heal"]
    /\ heal' = [pc |-> "route", todo |-> heal.todo \ {s}, svc |-> s,
                routes |-> {r \in Ids \X Addresses :
                              r[1] \in DOMAIN targets[s] /\ r[2] \in targets[s][r[1]]}]
    /\ UNCHANGED <<goVars, mu, call, extVars>>

(* Mutant of HealRoute: the offset of the service is forgotten. *)
HealRouteNoOffset(id, ip) ==
    /\ heal.pc = "route" /\ <<id, ip>> \in heal.routes
    /\ Route(id, ip)
    /\ heal' = [heal EXCEPT !.routes = @ \ {<<id, ip>>}]
    /\ UNCHANGED <<goVars, lockVars, call, shm, active, flows, vips>>

HealRoute(id, ip) ==
    /\ heal.pc = "route" /\ <<id, ip>> \in heal.routes
    /\ Route(Mark(heal.svc, id), ip)
    /\ heal' = [heal EXCEPT !.routes = @ \ {<<id, ip>>}]
    /\ UNCHANGED <<goVars, lockVars, call, shm, active, flows, vips>>

HealUnlock ==
    /\ heal.pc = "route" /\ heal.routes = {}
    /\ smu' = [smu EXCEPT ![heal.svc] = "free"]
    /\ heal' = [heal EXCEPT !.pc = "next", !.svc = "none"]
    /\ UNCHANGED <<goVars, mu, call, extVars>>

HealEnd ==
    /\ heal.pc = "next" /\ heal.todo = {}
    /\ mu' = "free"
    /\ heal' = Sleep
    /\ UNCHANGED <<goVars, smu, call, extVars>>
-----------------------------------------------------------------------------
Request ==
    \/ \E s \in Services : CallAddService(s) \/ CallDeleteService(s)
    \/ \E s \in Services, id \in Ids :
          \/ \E ips \in AddressSets : CallAddTarget(s, id, ips)
          \/ CallDeleteTarget(s, id)
    \/ \E s \in Services, f \in Flows :
          \/ \E cidrs \in CidrSets : AddFlow(s, f, cidrs)
          \/ DeleteFlow(s, f)

RunAddService ==
    \/ AddServiceExisting
    \/ AddServiceNoRoom
    \/ AddServiceInit
    \/ AddServiceInitFails

RunDeleteService ==
    \/ DeleteServiceUnknown
    \/ DeleteServiceForget
    \/ DeleteServiceUnlink
    \/ DeleteServiceUnlinkFails
    \/ \E id \in Ids : DeleteServiceTarget(id)
    \/ DeleteServiceList
    \/ DeleteServiceListFails
    \/ \E f \in Flows : DeleteServiceFlow(f)
    \/ DeleteServiceReturn

RunAddTarget ==
    \/ AddTargetExisting
    \/ AddTargetActivate
    \/ AddTargetActivateFails
    \/ \E ip \in Addresses : AddTargetRoute(ip)
    \/ AddTargetReturn

RunDeleteTarget ==
    \/ DeleteTargetAbsent
    \/ DeleteTargetDeactivate
    \/ \E ip \in Addresses : DeleteTargetUnroute(ip)
    \/ DeleteTargetReturn

RunCall == RunAddService \/ RunDeleteService \/ RunAddTarget \/ RunDeleteTarget

RunHeal ==
    \/ HealBegin
    \/ \E s \in Services : HealLock(s)
    \/ \E id \in Ids, ip \in Addresses : HealRoute(id, ip)
    \/ HealUnlock
    \/ HealEnd

Next == Request \/ RunCall \/ RunHeal

(* Both goroutines run, and sync.Mutex does not starve a waiter: a step    *)
(* that keeps becoming possible, as taking a lock that is released again   *)
(* and again, is taken.  Nothing makes the reconciler issue a call.        *)
Fairness ==
    /\ SF_vars(RunCall)
    /\ SF_vars(RunHeal)

Spec == Init /\ [][Next]_vars /\ Fairness
-----------------------------------------------------------------------------
Owners == {"free", "reconciler", "heal"}
Calls == {"none", "AddService", "DeleteService", "AddTarget", "DeleteTarget"}
CallSteps == {"none", "mu", "smu", "targets", "flows", "route", "unroute"}

(* Types, and who owns a lock at which step. *)
TypeOK ==
    /\ services \subseteq Services /\ held \subseteq Services
    /\ offset \in [Services -> Nat]
    /\ \A s \in Services :
          /\ DOMAIN targets[s] \subseteq Ids
          /\ \A id \in DOMAIN targets[s] : targets[s][id] \subseteq Addresses
    /\ mu \in Owners /\ smu \in [Services -> Owners]
    /\ mu = "heal" <=> heal.pc # "sleep"
    /\ \A s \in Services : smu[s] = "heal" <=> heal.pc = "route" /\ heal.svc = s
    /\ \A s \in Services : smu[s] = "reconciler" <=>
          call.svc = s /\ call.pc \in {"targets", "flows", "route", "unroute"}
    /\ call.op \in Calls /\ call.pc \in CallSteps /\ call.svc \in Services \cup {"none"}
    /\ heal.todo \subseteq Services
    /\ faults \in 0 .. MaxFaults

(* nfqlb.mu was locked by a call that has returned. *)
MuLeaked == mu = "reconciler"

Wanted(s, id, ip) == s \in services /\ id \in DOMAIN targets[s] /\ ip \in targets[s][id]

(* A target of a service in the map is active in nfqlb's shared memory,    *)
(* under the mark its policy routes use, through every failure of a        *)
(* command and every interleaving.                                         *)
TargetsActive ==
    \A s \in services : \A id \in DOMAIN targets[s] :
        /\ s \in shm
        /\ id \in DOMAIN active[s]
        /\ active[s][id] = Mark(s, id)

(* No two targets of the services in the map are steered with one mark:    *)
(* identifiers stay below the size of the range their service was given.   *)
ActiveMarksDistinct ==
    \A s1, s2 \in services :
        \A id1 \in DOMAIN targets[s1], id2 \in DOMAIN targets[s2] :
            Mark(s1, id1) = Mark(s2, id2) => s1 = s2 /\ id1 = id2

(* heal works on what is true now: while it walks over the targets of a    *)
(* service, that service is still in the map and every policy route it has *)
(* yet to create still belongs to a target.                                *)
HealIsFresh ==
    /\ heal.todo \subseteq services
    /\ heal.pc = "route" => \A r \in heal.routes : Wanted(heal.svc, r[1], r[2])

(* A rule or a route appears only for an address of a current target of a  *)
(* service the reconciler still holds: neither heal nor a late step of a   *)
(* call brings back the policy route of a target that is gone.             *)
RoutesAddedForTargets ==
    [][\A r \in net'.routes \ net.routes :
          \E s \in held : \E id \in DOMAIN targets[s] :
              r[1] = Mark(s, id) /\ r[2] \in targets[s][id]]_vars

(* Every call returns, unless the lock of the map has been lost. *)
CallsReturn == call # Idle ~> (call = Idle \/ MuLeaked)

(* heal installs the route of a target that stays, again and again if it   *)
(* has to, whatever has failed before, unless the lock of the map is lost  *)
(* or the table holds a default route through another address.             *)
HealInstalls ==
    \A s \in Services, id \in Ids, ip \in Addresses :
        <>[](/\ Wanted(s, id, ip) /\ ~MuLeaked
             /\ TableOf(net, Mark(s, id), ip) \subseteq {RouteFor(Mark(s, id), ip)})
        => []<>(RouteFor(Mark(s, id), ip) \in net.routes)

(* What the rules and routes of the kernel should be. *)
CurrentTargets == {t \in services \X Ids : t[2] \in DOMAIN targets[t[1]]}
WantedRules ==
    UNION {{RuleFor(Mark(t[1], t[2]), ip) : ip \in targets[t[1]][t[2]]} : t \in CurrentTargets}
WantedRoutes ==
    UNION {{RouteFor(Mark(t[1], t[2]), ip) : ip \in targets[t[1]][t[2]]} : t \in CurrentTargets}

(* When nothing fails and services are drained before they are deleted,    *)
(* the kernel steers exactly the targets of the services in the map: marks *)
(* are reused by later services without a trace of the earlier ones.       *)
SteeringExact ==
    (DrainFirst /\ faults = 0 /\ call = Idle) =>
        net.rules = WantedRules /\ net.routes = WantedRoutes

(* Under the same conditions no flow outlives its service: its packets     *)
(* would go to shared memory that is gone.                                 *)
FlowsOfHeldServices ==
    (DrainFirst /\ faults = 0 /\ call = Idle) =>
        \A f \in DOMAIN flows : flows[f].svc \in held

(* The packets that reach nfqlb are those of the flows: those that arrive  *)
(* for a host of a flow, and the ICMP errors of the load balancer itself.  *)
FlowsAreQueued ==
    \A dst \in Hosts, l4 \in Protocols :
        LET wanted == dst \in Destinations(flows)
            icmp == IF dst \in Hosts4 THEN "icmp" ELSE "ipv6-icmp"
        IN /\ Queued(vips, "prerouting", l4, dst) <=> wanted
           /\ Queued(vips, "output", l4, dst) <=> wanted /\ l4 = icmp

(* A change of the flow table that succeeds brings the nftables sets up to *)
(* date with the whole table: also with the changes whose own update       *)
(* failed, or failed half-way, and with what an earlier process has left.  *)
VipsCatchUp ==
    [][<<flows, vips>>' # <<flows, vips>> /\ UNCHANGED faults => FlowsAreQueued']_vars
-----------------------------------------------------------------------------
(* A promise of a message of the code that the code breaks *)

(* nfqlb.go: "failed creating policy route, will retry in next heal": heal *)
(* never stops coming back.                                                *)
HealComesBack == []<>(heal # Sleep)
=============================================================================
