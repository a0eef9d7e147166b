# A verification of the L3/4 Gateway API proof of concept

The repository turns Kubernetes `Gateway`, `Service` and `L34Route` objects into
a data plane: pods that run `nfqlb`, a user-space load balancer, and `bird`, a
routing daemon, in front of the application pods. This directory holds TLA+
models of its Go code, the TLC runs that check them and the TLAPS proofs about
them. All paths below are relative to `src/`.

Contents: [1 Inventory](#1-inventory), [2 Plan](#2-plan),
[3 Modules and code](#3-modules-and-code), [4 Runs](#4-runs),
[5 Findings](#5-findings), [6 Fairness](#6-fairness), [7 Proofs](#7-proofs),
[8 What is taken as given](#8-what-is-taken-as-given),
[9 What is not modelled](#9-what-is-not-modelled).

To check: `tlc -config MCNfqlb.cfg MCNfqlb` (and so on), and `tlapm M.tla` for
`FwmarkOffset_proofs`, `Nfqlb_proofs`, `EndpointIdentifiers_proofs`,
`LbManager_proofs`, `Router_proofs`, `PodNetwork_proofs` and
`GatewayManager_proofs`.

## 1. Inventory

| Component | Code | State | Operations | What is hard |
|---|---|---|---|---|
| forwarding-mark allocation | `pkg/nfqlb/offset.go` | the map of services (read) | `getOffset` | random map order, interval arithmetic, overflow, termination |
| nfqlb services, targets, flows, heal | `pkg/nfqlb/nfqlb.go` | `services`, `Service.targets`, two mutexes; in the system: shared memory, flow table | `AddService`, `DeleteService`, `AddTarget`, `DeleteTarget`, `AddFlow`, `DeleteFlow`, `heal` | a goroutine against the reconciler, commands that fail half-way, locks kept by early returns |
| policy routing of targets | `pkg/nfqlb/routing.go` | kernel rules and routes | `createPolicyRoute`, `deletePolicyRoute` | two requests that may each fail, an existing route through another address |
| nftables sets | `pkg/nfqlb/netfilter.go`, `set.go` | two sets of destinations | `configure`, `setDestinationCIDRs`, `delete` | two sets updated one after the other; sets that outlive the process |
| load balancer manager | `pkg/controllers/statelessloadbalancer/manager.go`, `lb.go` | `services`, `endpoints`, `flows` | `SetServices`, `SetEndpoints`, `SetFlows` | its own record drifts from what the load balancer holds when calls fail |
| load balancer controller | `pkg/controllers/statelessloadbalancer/*.go` | none | `Reconcile` | early returns that leave later parts of a reconciliation undone; two slices read one after the other |
| endpoint identifiers | `controllermanager/endpointslice.go`, `pkg/endpointslice/merge.go` | two EndpointSlices in the API server | `reconcileEndpointSlices` | two writes that are not atomic, stale reads, identifiers that must be unique and stable |
| gateway controller manager | `controllermanager/*.go` | deployment, gateway status | `Reconcile`, enqueue functions | events that map to no gateway, changes between two requests, a status whose order is random |
| pod injector | `podinjector/` | annotations of pods | `Reconcile` | table identifiers over several gateways, which are freed and given again |
| network attachments | `pkg/networkattachment`, `pkg/networking` | none | parsing of annotations | none (conversions) |
| router controller | `pkg/controllers/router` | none | `Reconcile` | two reads, an error to be repeated |
| BIRD configuration | `pkg/bird` | `running`, a mutex, a file, kernel rules | `Run`, `Configure`, `setPolicyRoutes` | a flag that is set before bird runs and never reset, a return with the mutex held, file, bird and rules changed one after the other |
| CNI plugins | `cmd/cni`, `pkg/cni/store.go` | files, kernel rules, routes and addresses | ADD, DEL | a step that fails half-way, tables flushed as a whole |
| kpng controller | `pkg/controllers/kpng` | daemon set, EndpointSlices, gateway status | `Reconcile`, enqueue functions | as the gateway controller manager |
| istio controller | `pkg/controllers/istio` | deployments | `Reconcile` | a container appended again |
| programs, API types, helpers | `cmd`, `api`, `pkg/log`, `pkg/cli`, `pkg/template` | none | flags, wiring | none |

How they interact. The *controller manager* watches gateways, services, pods and
routes; it creates the data-plane deployment, writes the two EndpointSlices
(IPv4, IPv6) of each service, in which it stores an identifier for every
endpoint, and writes the addresses of the gateway's routes to its status. It
means to watch the slices too, but a change of a slice queues no gateway
(section 8). The *load balancer controller*, in the data-plane pod, watches the
same objects and the slices, and drives the *manager*, which calls *nfqlb*: a
service is a block of shared memory and a range of forwarding marks; a target
(an endpoint's identifier) is an active index of that memory, and policy routes
from its mark to its addresses; a flow sends packets to a service. `heal` runs
beside it and re-creates policy routes. The *router controller* configures BIRD
with the addresses of the gateway's status, and the *pod injector* annotates
application pods so that the *CNI plugins* give them addresses and routes back.

What makes each part correct:

- marks: the ranges of two services never overlap, a search ends, loses no room
  and does not overflow;
- nfqlb: the kernel steers exactly the current targets; `heal` neither revives a
  target that is gone nor stops; every call returns; a flow does not outlive its
  service; the packets of the flows, and no others, are queued;
- manager: what it records is what the load balancer has; after a reconciliation
  that returns no error the load balancer holds what was asked for; after one
  that fails the next one repairs it;
- identifiers: two endpoints of a service never share one, an endpoint keeps its
  own while it lives, and a reader that merges the slices between the two writes
  sees something safe;
- gateway controllers: every event that changes the outcome reaches the gateway,
  and a gateway that has been applied is left alone;
- pod injector: two gateways of a pod never share a routing table;
- BIRD: packets are sent to its table only for addresses it announces; a
  reconciliation that has ended has applied what is there;
- CNI: what counts as attached is configured, and nothing else is left.

`PROJECT.json` lists the hazards of the code, line by line, with the property
that watches each of them, or the reason why none does yet.

## 2. Plan

Order of work, the most important behaviour first. All steps but the last are
done.

1. **Marks**: `FwmarkRanges`, `FwmarkOffset`, the abstract `FwmarkOwnership` and
   the proof that the first implements the last.
2. **nfqlb**: `Nfqlb` over `FwmarkRanges` (the result of the search),
   `PolicyRouting` and `NftSets`.
3. **Endpoint identifiers**: `EndpointIdentifiers` and its proofs.
4. **Manager and load balancer controller**: `LbManager` over `TargetSync`, with
   an nfqlb reduced to what its calls leave.
5. **BIRD and the router controller**: `Router` over `Bird` over `BirdConfig`.
6. **Pod network**: `PodNetwork` composes the pod injector (`PodAnnotation`), the
   runtime and the two CNI plugins (`CniPlugins`).
7. **Gateway controllers**: `GatewayManager`, the stateless one and kpng's.
8. **Proofs** of the safety properties of every component.
9. Left: the manager's record once calls have failed (`manager.go:204`, `:304`)
   and the label `service-max-endpoints` as a variable.

Abstract specifications worth stating: exclusive ownership of marks (stated and
proved); a load balancer whose calls are atomic (`LbManager`'s nfqlb variables),
implemented by `Nfqlb` for callers that drain services; an identifier allocator
that owns an identifier for each endpoint, implemented by the reconciliation
while reads are fresh; an attachment that is there or not, implemented by the
CNI plugins.

## 3. Modules and code

| Module | Models | State and steps |
|---|---|---|
| `FwmarkRanges` | `offset.go:35-48` | what it means for ranges of marks to overlap, and for a placement to be the first that fits |
| `FwmarkOffset` | `offset.go`, its caller | `services` is the map; `search` is a `getOffset` in progress with `nfqlb.mu` held; one step for each `continue search` |
| `FwmarkOwnership` | abstract | a mark belongs to one service at a time |
| `PolicyRouting` | `routing.go` | operators on the kernel's rules and routes, with what each leaves when a netlink request fails |
| `NftSets` | `netfilter.go`, `set.go` | operators on the two sets: what they are brought to, what a failure leaves, and which packets the four rules queue |
| `Nfqlb` | `nfqlb.go` | the fields of `NFQueueLoadBalancer` and `Service`, both mutexes, the reconciler's call in progress, `heal`, and outside of the process the shared memory, flow table, nftables sets and kernel |
| `EndpointIdentifiers` | `controllermanager/endpointslice.go`, `pkg/endpointslice` | the pods, the slices as stored and as the cache shows them, the work queue, a reconciliation between its reads, choices and writes |
| `TargetSync` | `manager.go:233-357`, `merge.go` | what the two slices merge to and which targets are deleted and added, as operators |
| `LbManager` | `statelessloadbalancer/*.go` | the cluster, the manager's maps, what nfqlb has, a reconciliation in progress |
| `BirdConfig` | `pkg/bird/configuration.go`, `router/gateway.go` | what a configuration says of addresses and sessions |
| `Bird` | `pkg/bird/bird.go`, `network.go` | `mu`, `running`, the file, the goroutine of `Run`, a `Configure` in progress, what the process bird has read, the rules of its table; extended by `Router` |
| `Router` | `pkg/controllers/router` | the gateway and its routers, the work queue, a reconciliation between its reads and `Configure` |
| `PodAnnotation` | `networkattachmentannotation.go` | operators on the elements of an annotation |
| `CniPlugins` | `cmd/cni`, `pkg/cni/store.go` | addresses, rules and routes of the pod's network namespace and the store; ADD and DEL of each plugin, as they succeed and as they fail |
| `PodNetwork` | `podinjector/` | the gateways of a pod, its annotation, the injector's queue and reconciliation, what the runtime has attached |
| `GatewayManager` | `controllermanager/`, `controllers/kpng/` | the cluster, what the controllers write, the queues, a reconciliation of each controller between its requests |
| `MC*` | | values of the constants for TLC |
| `*_proofs` | | the theorems of section 7 |

Notes on granularity.

*Nfqlb.* A call to `nfqlb` the program, or a netlink request pair, is a step; so
heal and a call interleave wherever both have released the locks that separate
them. The body of `AddService` is one step, since it holds `nfqlb.mu` throughout
and what it touches is touched under this lock only; `DeleteService`, which
releases `nfqlb.mu` and takes `service.mu`, and the target calls are several. The
manager is the only caller and makes one call after another. Its handles are
`held`: in `Nfqlb` it may delete a service with targets unless `DrainFirst`, and
in `LbManager` it deletes them as the code does.

*EndpointIdentifiers.* A slice is a function from the pods it lists to their
identifiers. `views` is the sequence of states of both slices from what the
informer cache shows to what is stored: `Put` appends, `Deliver` drops the
first, and a cache is at most `MaxLag` writes behind. Addresses are reduced to
the families a pod has addresses in, since nothing else of them decides about
identifiers; readiness is copied from the pod and decides nothing here. The
order in which the code walks over the new endpoints is that of an API list, so
any endpoint may be next.

*LbManager.* Endpoints have an identifier, addresses and readiness. The load
balancer reads the IPv4 slice, then the IPv6 slice; the two are written in this
order, too, and the steps interleave. Pod lists are chosen from `Lists`, in which
identifiers are unique: what the controller manager writes while its reads are
fresh. nfqlb's locks are reduced to `stuck`, which says that a deletion of an
unknown service has kept `nfqlb.mu`.

*Router, Bird.* The file is *cut* between `os.Create` and the end of the write.
`Run` is two steps, before and after it releases the mutex; what it does when it
is called a second time is left out, since the program calls it once.
`setPolicyRoutes` is one step that may leave any of the rules it was to add or
delete, each of them a failure: no other part reads the rules in between. A
restart is of the container: the file may be lost with it, the rules stay.

*PodNetwork.* An ADD or DEL is one step, since the runtime runs them one at a time
and nothing else looks at the network namespace. A failing ADD ends at any of its
system calls, closing the file and printing the result included, so that a whole
file may be left of it; a failing DEL ends at any of its calls, and one that cannot
read the file ends well without having done anything, as the code does on any
error of `cni.Get`. An element is known by its contents, as its interface name is a
hash of them. The runtime is external: it detaches what is attached and no longer
listed before it attaches what is new, and writes the outcome to the pod's
status, which makes an injector's update of an older pod fail (`rec.stale`). A list
that fails in the handler of an event loses the event; the gateways with such an
event are kept in `missed` until the injector reads the gateways again. `broken` has the
elements that a DEL has undone after a failure: their own, or that of a file which
a failed ADD has left or found (section 5).

*GatewayManager.* Each API request is a step, except that the requests for one
service's slices are one. The controllers share the module because they share
the cluster and differ in a few places only: the kind of workload and its watch,
where the addresses come from, and whether an error of listing them is returned.
The handler of a pod's event lists gateways and services; a list that fails loses
some or all of what it was to queue, and these gateways are in `missed` until they
list their services again. `LbManager` and `EndpointIdentifiers` lose the events of
a slice and of a pod in the same way (`SliceWritten`, `Unseen`).

## 4. Runs

| Run | Shows | Bounds, and why they are enough |
|---|---|---|
| `fwmark_offset` | marks disjoint, first fit, no overflow, the search ends, refinement of `FwmarkOwnership` | three services of sizes 1 to 3 in a range of ten marks that does not hold every combination: holes that fit, holes too small, jumps over several services, exhaustion |
| `nfqlb` | types and lock ownership, every target active under its mark, marks distinct, heal works on what is true now, no route of a target that is gone comes back, calls return, heal installs | two services with room for one target each, an identifier with no room, two addresses that may take over from each other, one unexplained failure at any command |
| `nfqlb_drained` | without failures the kernel holds exactly the policy routes wanted, no flow outlives its service; the packets queued are those of the flow table, through a failed or half-failed update and over sets left by an earlier process | two services, dual-stack targets, two flows with a destination of one or both families and one that is no host; services deleted when empty |
| `nfqlb_heal` | section 5 | as `nfqlb`, without any failure |
| `identifiers` | identifiers unique with fresh reads, slices agree, identifiers stable | three pods for two identifiers: a pod is left out, identifiers are handed on; one failed write, lost answer, restart, lost event or change by others at any point |
| `identifiers_stale` | types; duplicates are copied and never made; slices come to reflect the pods | two pods for one identifier, a cache one write behind, one fault |
| `identifiers_unique` | section 5 | two pods, a cache one write behind, no fault |
| `lb_manager` | types; no target the manager does not know; what it records is true; no flow it has lost track of; a reconciliation that has ended has applied the gateway; a cluster that stops is applied | two services, of which one has two pods that hand an identifier from one slice to the other and change readiness; one route that moves between the services; one failing command or request |
| `lb_handover` | section 5 | one service, the two pods that hand an identifier on, no failure |
| `router` | types and lock ownership; a reconciliation that has ended has applied the gateway; packets are sent to BIRD's table only for addresses bird knows; a cluster that stops is applied | an address of each family, which come and go together; three gateway routers, of which one is static and one of another namespace; one failing call, exit of bird or restart at any step |
| `pod_network` | types; no routing table shared by gateways; what counts as attached is configured, unless a DEL has undone it after a failure; without a failure nothing is left behind and the pod comes to have its addresses | an IPv4 gateway whose next hop is replaced and an IPv6 gateway whose address comes and goes, both selecting the pod or not; two changes of the cluster at any time, so tables are freed and given again; one failing call, read, list or restart, enough for a failed ADD whose file is detached after its table was given to the other gateway |
| `gateways` | types; whatever changes queues the gateways it concerns, unless a list fails in the handler of a pod's event; gateways come to be applied and are left alone | two stateless gateways, between which a service and two routes move, and one of kpng; one pod with two labels; two changes of the cluster and one failing request, list or restart |

`MaxFaults` bounds failures for which the model has no cause. A command the model
does explain, as `nfqlb deactivate` on shared memory that is gone, fails as often
as it has cause to. One unexplained failure is enough to leave each call at each
of its error returns, with every later call following; the runs are small in
services, pods and addresses because the code treats them alike, one by one,
and what two do to each other shows with two.

Deadlock is checked in the runs of `EndpointIdentifiers`, `LbManager`, `Router`
and `FwmarkOffset`. It is not in those of `PodNetwork` and `GatewayManager`, whose
clusters change a bounded number of times (`MaxChanges`) and then may have nothing
left to do, nor in those of `Nfqlb`: once `DeleteService` has kept
`nfqlb.mu` everything waits, which is the finding of `nfqlb_heal`;
`CallsReturn` says that this is the only way to stop.

Each property of a passing run has a mutant in `PROJECT.json`: a definition of
the code with a plausible mistake, under which the run finds the property
violated. The mutants stand beside the definitions they change.

## 5. Findings

Each is a run that ends with a counterexample to what the repository says.

1. `nfqlb_heal`. *"will retry in next heal"* (`nfqlb.go:527`). `DeleteService`
   of an unknown name returns with `nfqlb.mu` locked (`:354-356`); the manager
   makes just this call after a failed deletion. heal and every later
   `AddService` or `DeleteService` then wait for ever.
2. `identifiers_unique`. *"a unique identifier to each endpoint"*
   (`readme.md:124`). The identifiers in use are read from the informer cache
   and updates carry no resource version, so a reconciliation that reads a slice
   from before its predecessor's write gives an identifier out twice; later ones
   keep the duplicate.
3. `lb_handover`. *"SetEndpoints adds the non existing endpoint"*
   (`manager.go:233-234`). When an IPv4 endpoint takes over the identifier of an
   IPv6 one and the load balancer reads between the two writes, both are listed
   with it; the addition of the new one does nothing and is recorded; the old
   one's target is deleted later, and the new one counts as unchanged.

The models also do the following, because the code does, without a run that
points at it; where a property would be disturbed, its condition says so.

- `DeleteService` unlinks the shared memory before it deactivates the targets,
  so `nfqlb deactivate` fails for each and their policy routes stay
  (`nfqlb.go:364-388`, `:567-569`). `SteeringExact` is about services deleted
  without targets.
- `createPolicyRoute` deletes a route through the *new* address
  (`routing.go:42`), so one through a previous address stays and the new one is
  refused (`HealInstalls` asks for a table without one).
- A change of a slice queues no gateway: the slices' controller reference is the
  service, and `Owns` looks for a gateway (`controllermanager.go:94`,
  `endpointslice.go:141-153`). `Settles` asks that reconciliations go on after a
  change by others. Nor does a deployment queue its gateway, since the watch is
  for daemon sets (`:93`): `SettledIsApplied` leaves a gateway out once its
  deployment has gone. It also leaves out the addresses of a gateway whose
  routes could not be listed, an error that is dropped (`l34router.go:40-44`).
- The functions that map an event to what it queues list objects, and when that
  fails they log it at most and queue less or nothing, which nothing repeats
  (`controllermanager/enqueue.go:127-129`, `:145-151`, `kpng/enqueue.go:102-104`,
  `:120-126`, `podinjector/enqueue.go:43-46`, `:75-84`,
  `statelessloadbalancer/enqueue.go:66-76`). Slices or an annotation then stay as
  they are until another event. `SettledIsApplied` of `GatewayManager` leaves out the
  slices of a gateway that has lost one (`missed`) until it is reconciled again;
  `Settles` asks that reconciliations go on after such a change; the load balancer's
  properties and `Converges` of `PodNetwork` are about runs without a failure.
- `routing.go:90` looks for the route of a target and not for its rule: when only
  the rule was deleted before a failure, heal leaves it so. No property covers it.
- Destinations of flows that are not hosts are never queued (`set.go:123-125`),
  though the example of `netfilter.go:39` has one.
- Without a port, the AS number of a gateway router is replaced by the default
  (`configuration.go:123-136`).
- The two elements of a dual-stack gateway share a table that each ADD and DEL
  flushes (`networkattachmentannotation.go:117`, `policy-route/main.go:189`), so
  the first loses its rules. `AttachedIsConfigured` is about single-stack
  gateways (`SingleStack`).
- An ADD that fails after its file was written (`store.go:61-64`,
  `policy-route/main.go:103-106`) is not tried again once its element has left the
  annotation; the DEL that follows finds the file and flushes the table, which
  by then another gateway's element may have been given. `AttachedIsConfigured`
  leaves out the elements of a table flushed so, and an element whose own DEL has
  failed (`broken`), until they are attached again.
- A DEL succeeds without doing anything when it cannot read its file, whatever the
  error (`policy-route/main.go:112-116`, `loopback-vip/main.go:123-127`): the file,
  the rules and the address stay, and every later ADD of the same element fails. `NothingIsLeft` and `Converges` assume that nothing has failed.
- The addresses of the loopback interface are not counted. When two gateways of
  a pod have one address, a DEL that failed once the address was gone
  (`loopback-vip/main.go:145-158`) is tried again later, and then takes the
  address of the other gateway away. `AttachedIsConfigured` is about gateways
  without a common address (`OwnVips`).
- The next hops of a family the gateway has no address of are never on record,
  so the annotation is rewritten with another table at each reconciliation
  (`networkattachmentannotation.go:220-239`). The instance excludes it.
- Nothing queues an application pod when only data-plane pods change
  (`podinjector.go:73-79`), and the elements of a gateway that no longer selects
  the pod stay (`gateway.go:47`): `Applied` of `PodNetwork` asks for the addresses
  of the gateways that select the pod.

## 6. Fairness

- `FwmarkOffset`: `WF(SearchStep)`: the loop runs on its goroutine and waits for
  nothing.
- `Nfqlb`: `SF(RunCall)`, `SF(RunHeal)`: both goroutines run, and `sync.Mutex`
  hands the lock to a waiter that has waited for more than a millisecond, so a
  lock that is released again and again is obtained. Weak fairness would let one
  goroutine take the lock for ever. Nothing makes the reconciler issue calls.
- `EndpointIdentifiers`: `WF(Reconcile)`: the work queue hands out what it
  holds, and retries after an error; `WF(Deliver)`: a watch goes on. Faults,
  restarts and changes of pods need not occur.
- `Router`: `WF(Reconcile)` as above; `WF(Run)`, `WF(ConfigureStep)`: both are
  goroutines, and whoever holds the mutex releases it or is excluded by
  `Converges`. Nothing starts bird again once it has exited.
- `PodNetwork`: `WF(Reconcile)`, and `WF(RuntimeStep)`: the runtime goes on
  attaching and detaching. Nothing makes the cluster change or a pod start.
- `GatewayManager`: `WF(Reconcile(c))` for each controller, and
  `SF(ListAddressesAgain)`: a list comes in a random order, so that of the
  status comes again if it is asked for again and again.
- `LbManager`: `WF(Reconcile)` as above, and `WF(SecondSliceWritten)`: the
  controller manager writes the second slice, if need be in a retry.

The liveness properties condition on what the code cannot promise: that the pods
or the cluster stop changing (`PodsStop`, `ClusterStops`), that no command fails
(`faults = 0`), that the lock is not lost (`MuLeaked`, `stuck`) and that bird has
not exited (`Gone`).

## 7. Proofs

Every invariant that a passing run checks is proved by TLAPS, in the modules
`*_proofs`, for all values of the constants that satisfy the modules'
assumptions; so are the action properties and the refinement of
`FwmarkOwnership`. There is no bound on the number of services, pods, gateways,
addresses, routes, changes or faults. What is assumed of the constants:

- sizes are positive (`FwmarkAssumption`, `NfqlbAssumption`), the two families
  have different addresses (`FamiliesAssumption`, `PodNetworkAssumption`), and
  the bounds of changes, failures, identifiers and lags are natural numbers;
- what an API object lists is finite: the addresses a gateway may have
  (`BirdAssumption`, `PodNetworkAssumption`), endpoints and routes
  (`ListsAssumption`), services (`GatewayManagerAssumption`);
- `ListsAssumption`: no list the controller manager is to write has an identifier
  twice, which is what `IdentifiersAreUnique` says of it while its reads are
  fresh and nothing fails, nor an endpoint twice;
- `GatewayManagerAssumption`: a service stays with gateways of one class, and
  each service and route has an address.

Two results on the network of pods name conditions on the gateways of a pod in
their statement, since the code needs them (`SingleStack`, `OwnVips`).

**Marks.** `TypeCorrect` gives types, and that a search is for a name that is not
in the table. `MarksAreDisjoint`: the comparison of the code, between the ends of
ranges, is turned into a fact about marks by a lemma of arithmetic
(`OverlapsIffShared`); a new entry fits beside all others, and the table does not
change under a search. `SearchSkipsNothing` carries "every placement below the
point the search has reached overlaps a service": a jump over service k passes
placements that all overlap k. It is inductive with the types alone; with
`SearchStartsHigh` (the search never is below `StartingOffset`) it yields
`NewServiceGetsFirstFit`. `SumsStayInRange` needs the entries of the table below
`MaxInt`, which the guard of the loop gives. `Refinement` maps each name to the
marks of its entry: a `Register` is a `Grant`, a deletion a `Release`.

**nfqlb.** All safety properties of `Nfqlb`, in three layers.
1. `Structure`: the steps a call and heal can be at, and which mutex each holds
   there. `TypeOK` follows (`TypeCorrect`). It is what interleaving asks for: a
   step of one goroutine that touches a map is compared only with the steps at
   which the other holds no lock of that map, so `HealIsFresh` is inductive over
   `Structure` (`HealWorksOnWhatIsTrue`).
2. `IInv`, whatever fails. `Handles` says that a service of the map has a handle
   and one that is being deleted has left the map; `Routing` that a call which is
   creating routes works on a target that is there; `Active` that a target is
   active, under its mark, in shared memory that exists; `Apart` that the ranges
   of two services do not meet, which the placement of `AddService` gives
   (`IsFirstFit`, whose search is proved in `FwmarkOffset_proofs`). They yield
   `TargetsAreActive`, `MarksOfTargetsAreDistinct` and, with lemmas about what a
   request of `PolicyRouting` adds at most, `RoutesOnlyForTargets`. `SetsCatchUp`
   is a fact about one update of the two nftables sets, from any former contents.
3. While no command has failed and services are drained first (`Quiet`).
   `DrainedCall` follows a deletion of a service without targets: nothing fails in
   it, and at its end it has deleted the flows it found
   (`NoFlowOutlivesItsService`). `Steering` says of every mark and address that
   the kernel has its route exactly if it is wanted and not yet to be created, or
   no longer wanted and yet to be deleted; and that a rule is there exactly if a
   route is. `Active` and `Apart` give that each mark has one target
   (`MarkIsOwn`), so what a call does under its mark concerns no other.
   `SteeringIsExact` is this between two calls. It assumes `OnePerFamily`: an
   endpoint has one address of a family at most. With two, the second is refused
   as the table has its default route, and the first deletion takes the rule
   away (`routing.go:45-53`, `:64-72`).

**Identifiers.** Four layers.
1. `TypeCorrect`, from a characterization of slices as functions with domains in
   the pods.
2. `GivesNoDuplicates`, for caches and failures of any kind. `NoNewDuplicates`
   is not inductive: it says nothing of the endpoints that are still to get an
   identifier. The strengthening `GivenInv` adds that these had none in what was
   read and have not been given one yet, and that an endpoint that had one keeps
   it; an identifier is then only ever given to an endpoint that had none, and a
   free one meets no other.
3. `Settled`, for caches and failures of any kind too: while nothing queues the
   service, what a reconciliation works on are the pods as they are, and each of
   them with an address has an identifier, is yet to get one, or finds them all in
   use (`PublishInv`). Both slices, made from the same identifiers, then list
   these pods (`WrittenReflects`). A slice that others empty queues nothing, nor
   does a pod whose event is lost to a failed list, so it is stated until there is
   such a change (`unseen`).
4. For fresh reads (`MaxLag = 0`), `AgreeInv`: what is stored, what has been
   read of the first slice and what is given agree wherever two of them list
   the same endpoint, at each step of a reconciliation, and no endpoint is in
   the slices without having been read. It is needed since a write replaces one
   slice while the other is of before; it implies
   `BothSlicesAgree` and, with the lemma that each step replaces one slice by one
   that agrees with both, `IdentifiersAreStable`. `UniqueInv` follows
   uniqueness through the steps: of what is stored while nothing is under way,
   of what is merged between the reads, of what is given, and of a first slice
   that is part of what is given between the writes. It holds until a write has
   failed: then a slice that is of before may list, for another endpoint, an
   identifier that was handed on (`UniqueWhenFresh` says `faults = 0` for this
   reason). A slice that others empty takes nothing away from it.

**Manager.** The inductive invariant (`IInv` of `LbManager_proofs`) has the types
and a part for each property.
1. `Progress` says what the steps of a reconciliation have established: a service
   that nfqlb knows is one of the manager's, those yet to be added are those
   wanted that are not, and those whose endpoints are yet to be set are the
   manager's. `TypeCorrect` follows.
2. `EveryTargetIsRecorded` holds through every failure. It rests on a lemma about
   `SetEndpoints`: what is left of the targets after the removals is what stays
   recorded, and what is added to them is recorded whether or not it was added.
3. `RecordsAreTrue` needs `RecordsUnique`: the record of a service has no
   identifier twice as long as no list that was read had. Then a removal takes no
   target of an endpoint that stays, and every addition finds its identifier
   free. A step in which no command fails is one in which none of the sets of
   failing commands has a member, for which lists have to be finite.
4. `NoFlowIsLost` needs `FlowsHeld`: the flows of nfqlb are of services the manager
   has, which a deletion that ends well keeps up.
5. `Settled`: while nothing has queued the gateway, a reconciliation works on what
   is still there, and has applied the services it has been through
   (`ApplyingInv`). The record after `SetEndpoints` is the list's ready endpoints,
   whatever it was before (`RecordedIsReady`), and by 2 and 3 the targets are what
   is recorded; by 4 `SetFlows` leaves the flows of the routes and no other. A
   slice of a service that is gone queues nothing: it is read only once the
   service is back, which is an event of its own.

**Router.** `TypeCorrect` gives types and who holds `Bird.mu`. `BirdInv` says
what a `Configure` has done at each of its steps: the file is whole once birdc
is called, and bird has read it when the rules are changed.
`RulesFollowBirdCorrect` needs it for the step that adds and deletes rules. That
the addresses are finitely many is needed to count the rules that fail.
`RecInv` says what a reconciliation works on: as long as nothing has queued the
gateway, the addresses and routers it has read are those of the cluster, and when
none is under way the gateway is applied (`Settled`).

**Pod network.** Four layers.
1. `TypeCorrect` and `TablesAreDistinct` have no condition. `getFreeTableID` looks
   for the lowest identifier not in use: one exists since one more identifier
   than are in use is looked at (`SomeIsFree`) and natural numbers are
   well-founded (`SmallestExists`), so a new element of the annotation meets no
   other. `RuntimeOK` says what the store has: the whole files are those of what is
   attached and those that a failed ADD or a DEL that did nothing has left; while
   nothing has failed, they are those of what is attached.
2. `SinglesInv`, for single-stack gateways: the annotation has one table for
   each gateway, and what is attached has been on record together
   (`AttachedApart`), because the runtime detaches what is no longer listed before
   it attaches. So no two attached elements have one table, which is what
   flushing a table as a whole asks for.
3. `NothingElseIsLeft`: until something fails the kernel is exactly what is attached
   (`LeftInv`). No address is attached twice then, even if two gateways have it,
   as the second ADD is refused.
4. `AttachedAreConfigured` holds through every failure (`ConfiguredInv`): an ADD or DEL
   that ends half-way touches its own table and address only. The elements in
   `broken` are excepted: a table that is flushed for an element that is not
   attached is that of an attached one only if a failed ADD has left or found a file
   of the former, so `Flushed` names all elements this may undo.

`Settled` has no condition on the constants either, and is about the injector alone:
while nothing queues the pod, the list being written has the addresses of the
gateways it has come to, as they still are, but for gateways with a lost event
(`ListedInv`). It asks that the annotation made for a
gateway has its addresses exactly, also where the injector finds that nothing
has changed, and touches no other gateway's (`AnnotationListsVips`).

Both conditions of 2 to 4 are needed. With a dual-stack gateway TLC finds the
state in which the second element has flushed the table of the first; with two
gateways that have one address, the one of section 5, after four changes and one
failure.

**Gateways.** A gateway that nothing has queued is applied as far as the
reconciliation at work on it has come, or wholly when none is (`GatewayInv`): its
slices, but for those of the services yet to be visited; what has been listed of
the cluster, which is as it still is; its status, unless it is yet to be written;
its workload. The slices of a gateway that has missed an event are excepted, until
the next reconciliation lists its services: from then on each of them is yet to be
visited. A step elsewhere does not disturb it (`Undisturbed`). What might is a
reconciliation of another gateway that writes a service's slices after the
service has moved here with a selector that is of before; `MovedAreQueued` says that
the move has queued this gateway. `Settled` follows, and that the order of the
addresses does not matter from a fact about sequences: one without repetition
and as long as a finite set lists all of the set (`ToSetLemma`).

Model-checked only: liveness under fairness (`SearchEnds`, `CallsReturn`,
`HealInstalls`, `Settles`, the four `Converges`), which is out of the prover's
reach, and the three findings of section 5, which are counterexamples. Two of
the liveness properties have their safety half proved, as `Settled` of
EndpointIdentifiers_proofs and of PodNetwork_proofs, which no run lists: once
nothing is queued and no reconciliation is under way, the slices, or the
annotation, are as the cluster says. That this comes about is what TLC checks.

## 8. What is taken as given

From how the code uses them:

- the `nfqlb` program: `init` makes, or clears, the shared memory of a name;
  `activate` and `deactivate` fail without it, and for an index at or above the
  size it was made with; `delete` unlinks it; flows are kept in one table
  whatever becomes of the services they name;
- the kernel: a second rule or default route of the same table and family is
  refused (EEXIST); `RouteDel` matches the gateway it is given;
- the API server accepts an update that has no resource version; an informer
  cache shows a former state of both slices, and never goes back;
- an update that carries the resource version of an object that has changed
  since is refused;
- bird refuses a configuration that is cut, and `birdc` fails while bird does not
  run; nothing starts bird again in the same container;
- the kernel applies an nftables batch as a whole; the network namespace, with
  its rules, routes and nftables, outlives the containers of a pod;
- the runtime runs CNI plugins one at a time, detaches before it attaches, tries
  again what has failed, and calls DEL with what it called ADD with;
- controller-runtime runs one reconciliation of a gateway at a time and queues
  it again after an error.

## 9. What is not modelled

The parsing of network attachments (pure functions of JSON annotations), the
istio webhook (fixed containers appended to a deployment), the programs'
flags and wiring, and API types have no state or steps of their own. Of the
components that are modelled:

- how long commands and intervals take, logs, metrics, the context's end;
- `Start`'s `flowlb` process, the removal of the nftables table when it ends, the
  neighbour cache and link lookups of `routing.go`;
- the fields of a flow beside its service and destinations: `SetFlows` sets every flow every
  time, so they are written as they are read;
- duplicate or malformed names and addresses; a `service-max-endpoints` label
  that changes; several gateways in one data-plane pod, which there are not; several
  namespaces (the `todo: filter namespace` of the lists), except in `Router`;
- the text of BIRD's configuration and of the deployments; a service that moves
  between a stateless gateway and one of kpng, whose controllers would write
  the same slices (`GatewayManagerAssumption`).
