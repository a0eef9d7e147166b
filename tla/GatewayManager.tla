--------------------------- MODULE GatewayManager ---------------------------
(***************************************************************************)
(* The two controllers that reconcile gateways, each those of its class:   *)
(* the controller manager of the stateless load balancer                   *)
(* (statelessloadbalancer/controllermanager) and that of kpng              *)
(* (controllers/kpng), with the events that queue a gateway.  A            *)
(* reconciliation makes the workload of the gateway (a deployment, a       *)
(* daemon set), writes the slices of its services, and writes the          *)
(* addresses of its routes, or of its services, to its status.             *)
(*                                                                         *)
(* Everything is in one namespace.  How the slices of one service are      *)
(* written is the subject of EndpointIdentifiers; here it is one step.  A  *)
(* list of the API comes in any order, and another one each time.          *)
(***************************************************************************)
EXTENDS Naturals, Sequences, FiniteSets, SequencesExt

CONSTANTS
    Gateways, ClassOf,  \* gateways, and the class of each
    Services, OwnersOf, \* services, and which gateways their label may name
    Pods, Labels,       \* pods, and what their labels and the selectors may be
    Routes, Vip,        \* routes; the address of each route and service
    MaxChanges,         \* bound on changes of the cluster
    MaxFaults           \* bound on failing requests

None == "none"
Classes == {"stateless", "kpng"}

(* A service moves between gateways of one class: the slices of a service  *)
(* are not written by both controllers.                                    *)
ASSUME GatewayManagerAssumption ==
    /\ ClassOf \in [Gateways -> Classes]
    /\ OwnersOf \in [Services -> (SUBSET Gateways) \ {{}}]
    /\ \A s \in Services : \A g, h \in OwnersOf[s] : ClassOf[g] = ClassOf[h]
    /\ Services \cup Routes \subseteq DOMAIN Vip
    /\ IsFiniteSet(Services) /\ IsFiniteSet(Routes)
    /\ Labels # {}
    /\ None \notin Gateways \cup Labels
    /\ MaxChanges \in Nat /\ MaxFaults \in Nat

VARIABLES
    exists,    \* gateways that exist
    owner,     \* the gateway a service is labelled with
    selector,  \* what a service selects
    label,     \* what a pod is labelled with, None while there is no pod
    parent,    \* the first parent of a route
    changes,   \* changes of these so far
    workload,  \* the workload of a gateway: none, owned, or of a former owner
    slices,    \* the pods in the slices of a service
    status,    \* the addresses in the status of a gateway
    queue,     \* gateways in the work queues
    rec,       \* the reconciliation in progress of each controller
    removed,   \* history: gateways whose deployment has gone
    dropped,   \* history: gateways whose routes could not be listed
    missed,    \* history: gateways that have lost an event of a pod
    faults     \* failures so far

cluster == <<exists, owner, selector, label, parent, changes>>
written == <<workload, slices, status>>
history == <<removed, dropped, missed>>
vars == <<cluster, written, queue, rec, history, faults>>

NoOne == [pc |-> "idle", gw |-> None, todo |-> {}, services |-> {},
          selector |-> [s \in Services |-> None], addresses |-> <<>>, stale |-> FALSE]

Selected(s) == {p \in Pods : label[p] = selector[s]}
Owned(g) == {s \in Services : owner[s] = g}
VipsOf(g) ==
    IF ClassOf[g] = "kpng" THEN {Vip[s] : s \in Owned(g)}
    ELSE {Vip[r] : r \in {t \in Routes : parent[t] = g}}

(* A cluster whose gateways have been reconciled; all services select the  *)
(* same pods.                                                              *)
Init ==
    /\ exists = Gateways
    /\ owner = [s \in Services |-> CHOOSE g \in OwnersOf[s] : TRUE]
    /\ selector = [s \in Services |-> CHOOSE l \in Labels : TRUE]
    /\ label \in [Pods -> Labels \cup {None}]
    /\ parent \in [Routes -> {g \in Gateways : ClassOf[g] = "stateless"}]
    /\ changes = 0
    /\ workload = [g \in Gateways |-> "owned"]
    /\ slices = [s \in Services |-> Selected(s)]
    /\ status = [g \in Gateways |-> CHOOSE o \in SetToSeqs(VipsOf(g)) : TRUE]
    /\ queue = {}
    /\ rec = [c \in Classes |-> NoOne]
    /\ removed = {} /\ dropped = {} /\ missed = {}
    /\ faults = 0

Change == changes < MaxChanges /\ changes' = changes + 1
Fails == faults < MaxFaults /\ faults' = faults + 1

(* A request is for a gateway that may or may not exist. *)
Enqueue(gateways) == queue' = queue \cup (gateways \cap Gateways)

(* The update of a gateway read before this is refused. *)
Outdate(g) ==
    rec' = [c \in Classes |-> IF rec[c].gw = g THEN [rec[c] EXCEPT !.stale = TRUE] ELSE rec[c]]
-----------------------------------------------------------------------------
(* The cluster and the events it sends.  On an update the functions are    *)
(* called for the old and for the new object.                              *)

GatewayComes(g) ==
    /\ g \notin exists /\ Change
    /\ exists' = exists \cup {g}
    /\ Enqueue({g})
    /\ UNCHANGED <<owner, selector, label, parent, written, rec, history, faults>>

(* What it owns is collected later. *)
GatewayGoes(g) ==
    /\ g \in exists /\ Change
    /\ exists' = exists \ {g}
    /\ status' = [status EXCEPT ![g] = <<>>]
    /\ workload' = [workload EXCEPT ![g] = IF @ = "owned" THEN "orphan" ELSE @]
    /\ Enqueue({g})
    /\ Outdate(g)
    /\ UNCHANGED <<owner, selector, label, parent, slices, history, faults>>

(* Owns(DaemonSet): the event of a daemon set queues its gateway, the      *)
(* event of a deployment queues none.                                      *)
WorkloadEvent(g) == Enqueue(IF ClassOf[g] = "kpng" THEN {g} ELSE {})

(* Somebody deletes the workload, or the garbage collector does. *)
WorkloadGoes(g) ==
    /\ \/ workload[g] = "orphan" /\ UNCHANGED changes
       \/ workload[g] = "owned" /\ Change
    /\ workload' = [workload EXCEPT ![g] = "none"]
    /\ WorkloadEvent(g)
    /\ removed' = IF ClassOf[g] = "kpng" THEN removed ELSE removed \cup {g}
    /\ UNCHANGED <<exists, owner, selector, label, parent, slices, status, rec, dropped, missed,
                   faults>>

ServiceMoves(s) ==
    /\ Change
    /\ \E g \in OwnersOf[s] \ {owner[s]} :
        /\ owner' = [owner EXCEPT ![s] = g]
        /\ Enqueue({owner[s], g})
    /\ UNCHANGED <<exists, selector, label, parent, written, rec, history, faults>>

SelectorChanges(s) ==
    /\ Change
    /\ \E l \in Labels \ {selector[s]} : selector' = [selector EXCEPT ![s] = l]
    /\ Enqueue({owner[s]})
    /\ UNCHANGED <<exists, owner, label, parent, written, rec, history, faults>>

(* Mutant of PodEnqueue: of the services, the first that selects is taken. *)
PodEnqueueFirst(l) ==
    LET those == {owner[s] : s \in {t \in Services : selector[t] = l}} \cap exists
    IN IF those = {} THEN {} ELSE {CHOOSE g \in those : TRUE}

(* The gateways of the services that select a pod. *)
PodEnqueue(l) == {owner[s] : s \in {t \in Services : selector[t] = l}} \cap exists

(* Where a list of the gateways, or of the services of one, fails, the     *)
(* error is logged, and nothing repeats the event.                         *)
EventLost(gateways) ==
    /\ Fails
    /\ missed' = missed \cup gateways

PodChanges(p) ==
    /\ Change
    /\ \E l \in (Labels \cup {None}) \ {label[p]} :
        LET found == PodEnqueue(label[p]) \cup PodEnqueue(l)
        IN /\ label' = [label EXCEPT ![p] = l]
           /\ \/ Enqueue(found) /\ UNCHANGED <<missed, faults>>
              \/ \E lost \in (SUBSET found) \ {{}} : Enqueue(found \ lost) /\ EventLost(lost)
    /\ UNCHANGED <<exists, owner, selector, parent, written, rec, removed, dropped>>

RouteMoves(r) ==
    /\ Change
    /\ \E g \in {h \in Gateways : ClassOf[h] = "stateless"} \ {parent[r]} :
        /\ parent' = [parent EXCEPT ![r] = g]
        /\ Enqueue({parent[r], g})
    /\ UNCHANGED <<exists, owner, selector, label, written, rec, history, faults>>
-----------------------------------------------------------------------------
(* Reconcile of the controller of class c *)

At(c, pc) == rec[c].pc = pc
Step(c, r) == rec' = [rec EXCEPT ![c] = r]

GetGateway(g) ==
    LET c == ClassOf[g]
    IN /\ At(c, "idle") /\ g \in queue
       /\ queue' = queue \ {g}
       /\ IF g \in exists
          THEN Step(c, [NoOne EXCEPT !.pc = "workload", !.gw = g])
          ELSE UNCHANGED rec
       /\ UNCHANGED <<cluster, written, history, faults>>

(* Its owner is the gateway that was read: one that has gone since, even   *)
(* if another of its name has been made.                                   *)
Made(g) == IF g \in exists /\ ~rec[ClassOf[g]].stale THEN "owned" ELSE "orphan"

(* A deployment is created and never updated. *)
ReconcileDeployment ==
    LET g == rec["stateless"].gw
    IN /\ At("stateless", "workload")
       /\ workload' = [workload EXCEPT ![g] = IF @ = "none" THEN Made(g) ELSE @]
       /\ removed' = IF workload[g] = "none" THEN removed \ {g} ELSE removed
       /\ Step("stateless", [rec["stateless"] EXCEPT !.pc = "list"])
       /\ UNCHANGED <<cluster, slices, status, queue, dropped, missed, faults>>

(* A daemon set is created or replaced, its owner included. *)
ReconcileDaemonSet ==
    LET g == rec["kpng"].gw
    IN /\ At("kpng", "workload")
       /\ workload' = [workload EXCEPT ![g] = Made(g)]
       /\ Enqueue(IF workload'[g] # workload[g] THEN {g} ELSE {})
       /\ Step("kpng", [rec["kpng"] EXCEPT !.pc = "list"])
       /\ UNCHANGED <<cluster, slices, status, history, faults>>

(* Mutant of ListServices: the services whose addresses are wanted are not *)
(* noted.                                                                  *)
ListServicesOnly(c) ==
    /\ At(c, "list")
    /\ Step(c, [rec[c] EXCEPT !.pc = "services",
                              !.todo = Owned(rec[c].gw), !.selector = selector])
    /\ missed' = missed \ {rec[c].gw}
    /\ UNCHANGED <<cluster, written, queue, removed, dropped, faults>>

ListServices(c) ==
    /\ At(c, "list")
    /\ Step(c, [rec[c] EXCEPT !.pc = "services",
                              !.todo = Owned(rec[c].gw), !.services = Owned(rec[c].gw),
                              !.selector = selector])
    /\ missed' = missed \ {rec[c].gw}
    /\ UNCHANGED <<cluster, written, queue, removed, dropped, faults>>

(* The pods are listed by the selector that came with the service. *)
ReconcileService(c, s) ==
    /\ At(c, "services") /\ s \in rec[c].todo
    /\ slices' = [slices EXCEPT ![s] = {p \in Pods : label[p] = rec[c].selector[s]}]
    /\ Step(c, [rec[c] EXCEPT !.todo = @ \ {s}])
    /\ UNCHANGED <<cluster, workload, status, queue, history, faults>>

(* The addresses of the routes of the gateway as they are now, or of the   *)
(* services as they were listed.                                           *)
VipsListed(c) ==
    IF c = "kpng" THEN {Vip[s] : s \in rec[c].services} ELSE VipsOf(rec[c].gw)

ListAddresses(c, addresses) ==
    /\ At(c, "services") /\ rec[c].todo = {}
    /\ addresses \in SetToSeqs(VipsListed(c))
    /\ Step(c, [rec[c] EXCEPT !.pc = "status", !.addresses = addresses])
    /\ UNCHANGED <<cluster, written, queue, history, faults>>

(* The error is logged, and the reconciliation ends as if it had not been. *)
ListRoutesFails ==
    /\ At("stateless", "services") /\ rec["stateless"].todo = {}
    /\ Fails
    /\ Step("stateless", NoOne)
    /\ dropped' = dropped \cup {rec["stateless"].gw}
    /\ UNCHANGED <<cluster, written, queue, removed, missed>>

(* An update that changes the gateway is an event of it; one of a gateway  *)
(* that has changed since it was read is refused, and retried.             *)
UpdateStatus(c) ==
    LET g == rec[c].gw
    IN /\ At(c, "status")
       /\ status' = [status EXCEPT ![g] = IF rec[c].stale THEN @ ELSE rec[c].addresses]
       /\ Enqueue(IF rec[c].stale \/ status'[g] # status[g] THEN {g} ELSE {})
       /\ dropped' = IF rec[c].stale THEN dropped ELSE dropped \ {g}
       /\ Step(c, NoOne)
       /\ UNCHANGED <<cluster, workload, slices, removed, missed, faults>>

(* Mutant of ReconcileFails: a failed reconciliation is not repeated. *)
ReconcileFailsQuietly(c) ==
    /\ ~At(c, "idle")
    /\ Fails
    /\ Step(c, NoOne)
    /\ UNCHANGED <<cluster, written, queue, history>>

(* Any other request fails, or the process is restarted. *)
ReconcileFails(c) ==
    /\ ~At(c, "idle")
    /\ Fails
    /\ Enqueue({rec[c].gw})
    /\ Step(c, NoOne)
    /\ UNCHANGED <<cluster, written, history>>

AllOrders == UNION {SetToSeqs(V) : V \in SUBSET {Vip[x] : x \in DOMAIN Vip}}

Reconcile(c) ==
    \/ \E g \in Gateways : ClassOf[g] = c /\ GetGateway(g)
    \/ c = "stateless" /\ ReconcileDeployment
    \/ c = "kpng" /\ ReconcileDaemonSet
    \/ ListServices(c)
    \/ \E s \in Services : ReconcileService(c, s)
    \/ \E o \in AllOrders : ListAddresses(c, o)
    \/ UpdateStatus(c)

(* Sooner or later the random order is the one in the status. *)
ListAddressesAgain ==
    \E c \in Classes : rec[c].gw \in Gateways /\ ListAddresses(c, status[rec[c].gw])

Next ==
    \/ \E g \in Gateways : GatewayComes(g) \/ GatewayGoes(g) \/ WorkloadGoes(g)
    \/ \E s \in Services : ServiceMoves(s) \/ SelectorChanges(s)
    \/ \E p \in Pods : PodChanges(p)
    \/ \E r \in Routes : RouteMoves(r)
    \/ \E c \in Classes : Reconcile(c) \/ ReconcileFails(c)
    \/ ListRoutesFails

Spec ==
    /\ Init /\ [][Next]_vars
    /\ \A c \in Classes : WF_vars(Reconcile(c))
    /\ SF_vars(ListAddressesAgain)
-----------------------------------------------------------------------------
TypeOK ==
    /\ exists \subseteq Gateways /\ queue \subseteq Gateways
    /\ \A s \in Services : owner[s] \in OwnersOf[s] /\ selector[s] \in Labels
    /\ \A p \in Pods : label[p] \in Labels \cup {None}
    /\ \A r \in Routes : ClassOf[parent[r]] = "stateless"
    /\ workload \in [Gateways -> {"none", "owned", "orphan"}]
    /\ slices \in [Services -> SUBSET Pods]
    /\ status \in [Gateways -> AllOrders]
    /\ \A c \in Classes :
        /\ rec[c].pc \in {"idle", "workload", "list", "services", "status"}
        /\ At(c, "idle") => rec[c] = NoOne
        /\ ~At(c, "idle") => rec[c].gw \in Gateways /\ ClassOf[rec[c].gw] = c
        /\ rec[c].todo \subseteq rec[c].services /\ rec[c].services \subseteq Services
        /\ rec[c].addresses \in AllOrders
    /\ \A g \in removed : workload[g] = "none"
    /\ removed \cup dropped \cup missed \subseteq Gateways
    /\ changes \in 0..MaxChanges /\ faults \in 0..MaxFaults

(* What a gateway has been given, as far as the controllers promise it: no *)
(* slices after a lost event of a pod, no addresses after a list of routes *)
(* that failed, no workload after a deployment that has gone, each until a *)
(* later reconciliation has made up for it.                                *)
AppliedTo(g) ==
    /\ g \in missed \/ \A s \in Owned(g) : slices[s] = Selected(s)
    /\ g \in dropped \/ ToSet(status[g]) = VipsOf(g)
    /\ g \in removed \/ workload[g] # "none"

(* A gateway that is neither queued nor being reconciled has slices that   *)
(* list the pods its services select, the addresses of its routes or       *)
(* services, and its workload, wherever between two requests of its        *)
(* reconciliation a change came (enqueue.go of both controllers).  Three   *)
(* things alone are not made up for, each kept as history: an event of a   *)
(* pod whose handling failed (controllermanager/enqueue.go:127, 149), a    *)
(* list of routes that failed (l34router.go:41), and a deployment that has *)
(* gone.  Every other failure is retried.                                  *)
SettledIsApplied ==
    \A g \in exists \ queue : rec[ClassOf[g]].gw # g => AppliedTo(g)

(* When the cluster stops changing, all gateways come to be applied, as    *)
(* far as AppliedTo promises, and are then left alone: the order of the    *)
(* addresses in the status, which is new each time, does not keep a        *)
(* gateway busy for ever.                                                  *)
Converges ==
    <>[](queue = {} /\ (\A c \in Classes : At(c, "idle")) /\ \A g \in exists : AppliedTo(g))
=============================================================================
