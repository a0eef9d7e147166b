----------------------------- MODULE LbManager -----------------------------
(***************************************************************************)
(* The stateless load balancer's controller and its Manager                *)
(* (pkg/controllers/statelessloadbalancer): every reconciliation brings    *)
(* nfqlb to the services, endpoints and routes of the cluster by           *)
(* SetServices, SetEndpoints for every service, and SetFlows, in this      *)
(* order, and ends at the first of these that returns an error.            *)
(*                                                                         *)
(* One reconciliation runs at a time, so Manager.mu is always free.  The   *)
(* cluster changes between its reads; the controller manager writes the    *)
(* two slices of a service one after the other, with identifiers unique in *)
(* each list and stable (EndpointIdentifiers).                             *)
(*                                                                         *)
(* nfqlb is what its calls leave behind (Nfqlb has their steps, locks,     *)
(* marks and routes).  A command may fail without a reason in the model    *)
(* MaxFaults times.                                                        *)
(***************************************************************************)
EXTENDS Naturals, FiniteSets, TargetSync

CONSTANTS Services,  \* names of services
          Routes,    \* names of L34Routes
          Backends,  \* what a route may name first: services, or none
          IPv4,      \* addresses of endpoints
          IPv6,
          Lists,     \* for each service, the lists of endpoints it may have
          MaxFaults  \* bound on failing commands and requests

None == "none"

Unique(list) == \A e, n \in list : e.id = n.id => e = n
OneOfEach(list) == \A e, n \in list : e.uid = n.uid => e = n

AllLists == UNION {Lists[s] : s \in Services}
AllEndpoints == UNION AllLists
Addresses == IPv4 \cup IPv6

Endpoints ==
    [uid : Uids(AllEndpoints), id : IdsOf(AllEndpoints),
     addrs : SUBSET Addresses, ready : BOOLEAN]

ASSUME ListsAssumption ==
    /\ \A list \in AllLists :
        /\ Unique(list) /\ OneOfEach(list)
        /\ list \subseteq Endpoints /\ IsFiniteSet(list)
    /\ Backends \subseteq Services \cup {None}
    /\ IsFiniteSet(Routes)
    /\ MaxFaults \in Nat

VARIABLES
    svcs,     \* services of the gateway
    slices,   \* their two EndpointSlices
    writing,  \* the list of which the second slice is yet to be written
    routes,   \* the service that is each route's first backend
    held,     \* keys of Manager.services
    recorded, \* Manager.endpoints
    mflows,   \* keys of Manager.flows: <route>.<service>
    known,    \* keys of NFQueueLoadBalancer.services
    shm,      \* services whose shared memory exists
    targets,  \* Service.targets of the service last made
    table,    \* nfqlb's flow table
    stuck,    \* NFQueueLoadBalancer.mu has been lost
    rec,      \* the reconciliation in progress
    queued,   \* the gateway is in the work queue
    faults,   \* failures so far
    clashed   \* history: services read with one identifier for two endpoints

cluster == <<svcs, slices, writing, routes>>
manager == <<held, recorded, mflows>>
nfqlb == <<known, shm, targets, table, stuck>>
vars == <<cluster, manager, nfqlb, rec, queued, faults, clashed>>

NoTargets == [id \in {} |-> {}]
NoSlices == [IPv4 |-> {}, IPv6 |-> {}]
Idle == [pc |-> "idle", want |-> {}, todo |-> {}, err |-> FALSE,
         svc |-> None, first |-> {}]

Init ==
    /\ svcs = {}
    /\ slices = [s \in Services |-> NoSlices]
    /\ writing = [s \in Services |-> {}]
    /\ routes = [r \in Routes |-> None]
    /\ held = {}
    /\ recorded = [s \in Services |-> {}]
    /\ mflows = {}
    /\ known = {} /\ shm = {} /\ table = {} /\ stuck = FALSE
    /\ targets = [s \in Services |-> NoTargets]
    /\ rec = Idle
    /\ queued = TRUE
    /\ faults = 0
    /\ clashed = {}

FlowsOf(s) == Routes \X {s}

(* n commands or requests fail. *)
Failures(n) == faults + n <= MaxFaults /\ faults' = faults + n

(* A call of a reconciliation returns an error: the queue tries again. *)
GiveUp == rec' = Idle /\ queued' = TRUE
-----------------------------------------------------------------------------
(* The cluster *)

(* Mutant of ServiceChanges: the service is looked up first, as in         *)
(* endpointSliceEnqueue, so that one that goes queues nothing.             *)
ServiceChangesLookedUp(s) ==
    /\ svcs' = IF s \in svcs THEN svcs \ {s} ELSE svcs \cup {s}
    /\ queued' = (queued \/ s \in svcs')
    /\ UNCHANGED <<slices, writing, routes, manager, nfqlb, rec, faults, clashed>>

ServiceChanges(s) ==
    /\ svcs' = IF s \in svcs THEN svcs \ {s} ELSE svcs \cup {s}
    /\ queued' = TRUE
    /\ UNCHANGED <<slices, writing, routes, manager, nfqlb, rec, faults, clashed>>

RouteChanges(r) ==
    /\ \E s \in Backends \ {routes[r]} : routes' = [routes EXCEPT ![r] = s]
    /\ queued' = TRUE
    /\ UNCHANGED <<svcs, slices, writing, manager, nfqlb, rec, faults, clashed>>

Listed(s) == MergeSlices(slices[s].IPv4, slices[s].IPv6)

(* The event of a slice queues the gateway of its service, if that is      *)
(* there: slices outlive their service for a while.  If the service cannot *)
(* be read, the error is logged and nothing is queued.                     *)
SliceWritten(s) ==
    /\ \/ queued' = (queued \/ s \in svcs) /\ UNCHANGED faults
       \/ Failures(1) /\ UNCHANGED queued
    /\ UNCHANGED <<svcs, routes, manager, nfqlb, rec, clashed>>

(* The controller manager has a new list for a service and writes its      *)
(* first slice.  An endpoint keeps its identifier while it is listed.      *)
FirstSliceWritten(s) ==
    /\ writing[s] = {}
    /\ \E list \in Lists[s] \ {Listed(s)} :
        /\ \A e \in list, o \in Listed(s) : e.uid = o.uid => e.id = o.id
        /\ slices' = [slices EXCEPT ![s].IPv4 = SliceOf(list, IPv4)]
        /\ writing' = [writing EXCEPT ![s] = {list}]
    /\ SliceWritten(s)

SecondSliceWritten(s) ==
    /\ \E list \in writing[s] :
        slices' = [slices EXCEPT ![s].IPv6 = SliceOf(list, IPv6)]
    /\ writing' = [writing EXCEPT ![s] = {}]
    /\ SliceWritten(s)
-----------------------------------------------------------------------------
(* SetServices *)

ListServices ==
    /\ rec.pc = "idle" /\ queued
    /\ queued' = FALSE
    /\ rec' = [Idle EXCEPT !.pc = "delete", !.want = svcs, !.todo = held \ svcs]
    /\ UNCHANGED <<cluster, manager, nfqlb, faults, clashed>>

AtDelete(s) == rec.pc = "delete" /\ s \in rec.todo /\ ~stuck

Drop(s) ==
    /\ held' = held \ {s}
    /\ recorded' = [recorded EXCEPT ![s] = {}]
    /\ rec' = [rec EXCEPT !.todo = @ \ {s}]
    /\ UNCHANGED <<cluster, mflows, targets, queued, clashed>>

(* DeleteService of a name it does not know: no error, nfqlb.mu locked.    *)
DeleteServiceUnknown(s) ==
    /\ AtDelete(s) /\ s \notin known
    /\ Drop(s)
    /\ stuck' = TRUE
    /\ UNCHANGED <<known, shm, table, faults>>

Unlinked(s) == known' = known \ {s} /\ shm' = shm \ {s}

(* Mutant of DeleteServiceDrained: the flows of the service stay. *)
DeleteServiceDrainedOnly(s) ==
    /\ AtDelete(s) /\ s \in known /\ targets[s] = NoTargets
    /\ Drop(s) /\ Unlinked(s)
    /\ UNCHANGED <<table, stuck, faults>>

DeleteServiceDrained(s) ==
    /\ AtDelete(s) /\ s \in known /\ targets[s] = NoTargets
    /\ Drop(s) /\ Unlinked(s)
    /\ table' = table \ FlowsOf(s)
    /\ UNCHANGED <<stuck, faults>>

(* The service is forgotten by nfqlb and an error returned: always when    *)
(* there are targets, which cannot be deactivated once the shared memory   *)
(* is unlinked; else when unlinking it or listing or deleting flows fails. *)
DeleteServiceFails(s) ==
    /\ AtDelete(s) /\ s \in known
    /\ \/ known' = known \ {s} /\ Failures(1) /\ UNCHANGED <<shm, targets, table>>
       \/ /\ Unlinked(s)
          /\ targets' = [targets EXCEPT ![s] = NoTargets]
          /\ \/ Failures(1) /\ table' \in {table \ fs : fs \in SUBSET FlowsOf(s)}
             \/ targets[s] # NoTargets /\ table' = table \ FlowsOf(s) /\ UNCHANGED faults
    /\ rec' = [rec EXCEPT !.todo = @ \ {s}, !.err = TRUE]
    /\ UNCHANGED <<cluster, manager, stuck, queued, clashed>>

DeletionsDone ==
    /\ rec.pc = "delete" /\ rec.todo = {}
    /\ rec' = [rec EXCEPT !.pc = "add", !.todo = rec.want \ held]
    /\ UNCHANGED <<cluster, manager, nfqlb, queued, faults, clashed>>

AtAdd(s) == rec.pc = "add" /\ s \in rec.todo /\ ~stuck

(* What nfqlb still knows it returns; else it makes a service. *)
AddService(s) ==
    /\ AtAdd(s)
    /\ IF s \in known THEN UNCHANGED <<known, shm, targets>>
       ELSE /\ known' = known \cup {s} /\ shm' = shm \cup {s}
            /\ targets' = [targets EXCEPT ![s] = NoTargets]
    /\ held' = held \cup {s}
    /\ recorded' = [recorded EXCEPT ![s] = {}]
    /\ rec' = [rec EXCEPT !.todo = @ \ {s}]
    /\ UNCHANGED <<cluster, mflows, table, stuck, queued, faults, clashed>>

(* Mutant of AddServiceFails: the loop goes on and the error is dropped. *)
AddServiceFailsQuietly(s) ==
    /\ AtAdd(s) /\ s \notin known
    /\ Failures(1)
    /\ rec' = [rec EXCEPT !.todo = @ \ {s}]
    /\ UNCHANGED <<cluster, manager, nfqlb, queued, clashed>>

(* SetServices returns at once, before it cleans up the flows. *)
AddServiceFails(s) ==
    /\ AtAdd(s) /\ s \notin known
    /\ Failures(1)
    /\ GiveUp
    /\ UNCHANGED <<cluster, manager, nfqlb, clashed>>

(* Flows of services that are gone are dropped, and the error of the       *)
(* deletions is returned.                                                  *)
CleanupFlows ==
    /\ rec.pc = "add" /\ rec.todo = {}
    /\ mflows' = {f \in mflows : f[2] \in held}
    /\ IF rec.err THEN GiveUp
       ELSE /\ rec' = [rec EXCEPT !.pc = "endpoints", !.todo = rec.want]
            /\ UNCHANGED queued
    /\ UNCHANGED <<cluster, held, recorded, nfqlb, faults, clashed>>
-----------------------------------------------------------------------------
(* SetEndpoints, service by service *)

GetIPv4Slice(s) ==
    /\ rec.pc = "endpoints" /\ s \in rec.todo
    /\ rec' = [rec EXCEPT !.pc = "slice", !.svc = s, !.first = slices[s].IPv4]
    /\ UNCHANGED <<cluster, manager, nfqlb, queued, faults, clashed>>

(* The commands that fail: those of a service whose shared memory is gone  *)
(* and those that fail without a reason.                                   *)
SetEndpoints ==
    /\ rec.pc = "slice"
    /\ LET s == rec.svc
           list == MergeSlices(rec.first, slices[s].IPv6)
           deactivated == {e \in ToRemove(recorded[s], list) : e.id \in DOMAIN targets[s]}
           added == ToAdd(recorded[s], list)
           free == {e \in added :
                       e.id \notin DOMAIN AfterRemoval(targets[s], recorded[s], list)}
       IN  \E failed \in SUBSET free, broken \in SUBSET deactivated :
            /\ IF s \in shm THEN Failures(Cardinality(failed) + Cardinality(broken))
               ELSE failed = free /\ broken = deactivated /\ UNCHANGED faults
            /\ \E t \in Targets(targets[s], recorded[s], list, failed) :
                targets' = [targets EXCEPT ![s] = t]
            /\ recorded' = [recorded EXCEPT ![s] = Recorded(@, list)]
            /\ clashed' = IF Unique(list) THEN clashed ELSE clashed \cup {s}
            /\ IF failed \cup broken # {} THEN GiveUp
               ELSE /\ rec' = [rec EXCEPT !.pc = "endpoints", !.todo = @ \ {s},
                                          !.svc = None, !.first = {}]
                    /\ UNCHANGED queued
    /\ UNCHANGED <<cluster, held, mflows, known, shm, table, stuck>>
-----------------------------------------------------------------------------
(* SetFlows: every flow that goes is deleted and every flow of the routes  *)
(* is set; what is recorded does not depend on what failed.  A failing     *)
(* call may have changed the flow table before.                            *)
WantedFlows == {<<r, routes[r]>> : r \in {q \in Routes : routes[q] \in held}}

SetFlows ==
    /\ rec.pc = "endpoints" /\ rec.todo = {}
    /\ LET gone == mflows \ WantedFlows
       IN  \E failed \in SUBSET (gone \cup WantedFlows) :
            /\ Failures(Cardinality(failed))
            /\ \E effective \in SUBSET failed :
                LET done == ((gone \cup WantedFlows) \ failed) \cup effective
                IN  table' = (table \ (gone \cap done)) \cup (WantedFlows \cap done)
            /\ IF failed = {} THEN rec' = Idle /\ UNCHANGED queued ELSE GiveUp
    /\ mflows' = WantedFlows
    /\ UNCHANGED <<cluster, held, recorded, known, shm, targets, stuck, clashed>>
-----------------------------------------------------------------------------
Reconcile ==
    \/ ListServices
    \/ \E s \in Services :
        \/ DeleteServiceUnknown(s) \/ DeleteServiceDrained(s) \/ DeleteServiceFails(s)
        \/ AddService(s) \/ AddServiceFails(s)
        \/ GetIPv4Slice(s)
    \/ DeletionsDone
    \/ CleanupFlows
    \/ SetEndpoints
    \/ SetFlows

Next ==
    \/ Reconcile
    \/ \E s \in Services :
        ServiceChanges(s) \/ FirstSliceWritten(s) \/ SecondSliceWritten(s)
    \/ \E r \in Routes : RouteChanges(r)

(* The work queue hands out the gateway, and the controller manager writes *)
(* the second slice, if need be in a later reconciliation.                 *)
Fairness ==
    /\ WF_vars(Reconcile)
    /\ \A s \in Services : WF_vars(SecondSliceWritten(s))

Spec == Init /\ [][Next]_vars /\ Fairness
-----------------------------------------------------------------------------
(* Types; and the services SetEndpoints is called for are in the manager:  *)
(* it never returns errServiceNotExisting.                                 *)
TypeOK ==
    /\ svcs \subseteq Services /\ held \subseteq Services
    /\ known \subseteq shm /\ shm \subseteq Services
    /\ routes \in [Routes -> Backends \cup {None}]
    /\ mflows \subseteq Routes \X Services /\ table \subseteq Routes \X Services
    /\ rec.pc \in {"idle", "delete", "add", "endpoints", "slice"}
    /\ rec.pc \in {"endpoints", "slice"} => rec.todo \subseteq held
    /\ \A s \in Services :
        /\ DOMAIN targets[s] \subseteq IdsOf(AllEndpoints)
        /\ \A id \in DOMAIN targets[s] : targets[s][id] \subseteq Addresses
        /\ Uids(recorded[s]) \subseteq Uids(AllEndpoints)
    /\ faults \in 0 .. MaxFaults

(* Every target of a service is the identifier and the addresses of an     *)
(* endpoint the manager has recorded, through every failure and every      *)
(* clash of identifiers: no target is left that no DeleteTarget will be    *)
(* called for.                                                             *)
TargetsRecorded ==
    \A s \in held : \A id \in DOMAIN targets[s] :
        \E e \in recorded[s] : e.id = id /\ e.addrs = targets[s][id]

(* As long as nothing fails, an endpoint the manager has recorded is a     *)
(* target, so that taking it for unchanged is right; not for a service     *)
(* nfqlb has forgotten, and not after identifiers have clashed.            *)
RecordIsTrue ==
    faults = 0 =>
        \A s \in (held \cap known) \ clashed : \A e \in recorded[s] :
            e.id \in DOMAIN targets[s] /\ targets[s][e.id] = e.addrs

(* As long as nothing fails and the lock is not lost, nfqlb has no flow    *)
(* the manager has lost track of, whatever order services and routes come  *)
(* and go in.                                                              *)
FlowsRecorded == faults = 0 /\ ~stuck => table \subseteq mflows

(* Services and routes stay, and no slice is written but the second one of *)
(* a list whose first slice is there.                                      *)
ClusterStops ==
    <>[][/\ UNCHANGED <<svcs, routes>>
         /\ \A s \in Services : writing'[s] \in {writing[s], {}}]_<<svcs, routes, writing>>

(* Deletion has gone wrong: DeleteService has kept the lock, or has failed *)
(* and the handle that is left has no service.                             *)
DeletionWentWrong == stuck \/ ~(held \subseteq known)

Ready(s) == {e \in Listed(s) : e.ready}

Activated(s) ==
    \A e \in Ready(s) : e.id \in DOMAIN targets[s] /\ targets[s][e.id] = e.addrs

Applied ==
    /\ held = svcs
    /\ table = WantedFlows
    /\ \A s \in held \ clashed :
        Activated(s) /\ DOMAIN targets[s] = IdsOf(Ready(s))

(* As long as nothing fails, a gateway that is neither queued nor being    *)
(* reconciled has been applied, wherever between the reads of a            *)
(* reconciliation its services, slices and routes have changed: every      *)
(* change it may have missed, and every early return, queues it again.     *)
SettledIsApplied ==
    rec.pc = "idle" /\ ~queued /\ faults = 0 => DeletionWentWrong \/ Applied

(* When the cluster stops changing and nothing fails, nfqlb comes to       *)
(* have its services, ready endpoints and routes, and nothing else.        *)
Converges ==
    ClusterStops /\ [](faults = 0) => <>[](DeletionWentWrong \/ Applied)

(* manager.go: "SetEndpoints adds the non existing endpoint, updates the   *)
(* existing ones and removes the ones that are not passed as parameter":   *)
(* when the cluster stops changing and nothing fails, the ready            *)
(* endpoints come to be targets.                                           *)
EndpointsApplied ==
    ClusterStops /\ [](faults = 0) =>
        <>[](DeletionWentWrong \/ \A s \in held : Activated(s))
=============================================================================
