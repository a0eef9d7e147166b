----------------------------- MODULE PodNetwork -----------------------------
(***************************************************************************)
(* The network of an application pod: the pod injector (podinjector)       *)
(* writes its annotation from the gateways, the runtime (the controller of *)
(* dynamic networks, and Multus) compares it with what is attached and has *)
(* the CNI plugins detach and attach the difference.                       *)
(*                                                                         *)
(* A reconciliation reads the gateways at once, and the services and the   *)
(* data-plane pods of each in turn.  Its update carries the version of the *)
(* pod it has read, so it replaces just what it has read or is refused: the *)
(* runtime writes to the status of the pod in between.                     *)
(***************************************************************************)
EXTENDS CniPlugins

CONSTANTS Gateways,   \* names of gateways of the class
          VipSets,    \* what the status of each may list
          HopSets,    \* what addresses its data-plane pods may have
          MaxChanges  \* bound on changes of the cluster

Addresses == IPv4 \cup IPv6

(* Addresses are told apart by family, and a list of them is finite. *)
ASSUME PodNetworkAssumption ==
    /\ IPv4 \cap IPv6 = {}
    /\ \A g \in Gateways :
        /\ \A v \in VipSets[g] : v \subseteq Addresses /\ IsFiniteSet(v)
        /\ \A h \in HopSets[g] : h \subseteq Addresses
    /\ MaxChanges \in Nat

VARIABLES
    selecting,   \* gateways with a service that selects the pod
    vips,        \* addresses in the status of the gateways
    hops,        \* addresses of their data-plane pods
    changes,     \* changes of these so far
    podRuns,     \* the phase of the pod is Running
    annotation,  \* elements of the pod's annotation
    queued,      \* the pod is in the injector's work queue
    missed,      \* history: gateways with a lost event since it last read them
    rec,         \* the reconciliation in progress
    attached,    \* elements in the pod's network status
    tried,       \* elements whose ADD has failed
    broken       \* history: elements undone by a DEL, see Flushed

cluster == <<selecting, vips, hops, changes>>
runtime == <<attached, tried, broken>>
vars == <<cni, cluster, podRuns, annotation, queued, missed, rec, runtime>>

Idle == [pc |-> "idle", vips |-> [g \in Gateways |-> {}], todo |-> {}, elements |-> {},
         stale |-> FALSE]

Init ==
    /\ CniInit
    /\ selecting \in SUBSET Gateways
    /\ vips \in [Gateways -> UNION {VipSets[g] : g \in Gateways}]
    /\ hops \in [Gateways -> UNION {HopSets[g] : g \in Gateways}]
    /\ \A g \in Gateways : vips[g] \in VipSets[g] /\ hops[g] \in HopSets[g]
    /\ changes = 0
    /\ podRuns = FALSE
    /\ annotation = {}
    /\ queued = FALSE /\ missed = {}
    /\ rec = Idle
    /\ attached = {} /\ tried = {} /\ broken = {}
-----------------------------------------------------------------------------
(* The cluster *)

PodStarts ==
    /\ ~podRuns
    /\ podRuns' = TRUE
    /\ queued' = TRUE
    /\ UNCHANGED <<cni, cluster, annotation, missed, rec, runtime>>

Change == changes < MaxChanges /\ changes' = changes + 1

(* The handlers of events list the services and the pods; when a list      *)
(* fails, they queue nothing, and the event is not repeated.               *)
EventLost(g) ==
    /\ Fails
    /\ missed' = missed \cup {g}
    /\ UNCHANGED queued

(* A service of the gateway comes, goes, or changes its selector. *)
ServiceChanges(g) ==
    /\ Change
    /\ selecting' = IF g \in selecting THEN selecting \ {g} ELSE selecting \cup {g}
    /\ \/ queued' = TRUE /\ UNCHANGED <<missed, faults>>
       \/ EventLost(g)
    /\ UNCHANGED <<netns, store, vips, hops, podRuns, annotation, rec, runtime>>

(* Mutant of StatusChanges: the pods of no service are looked for. *)
StatusChangesQuietly(g) ==
    /\ Change
    /\ \E v \in VipSets[g] \ {vips[g]} : vips' = [vips EXCEPT ![g] = v]
    /\ UNCHANGED <<cni, selecting, hops, podRuns, annotation, queued, missed, rec, runtime>>

(* The event of a gateway queues the pods that its services select. *)
StatusChanges(g) ==
    /\ Change
    /\ \E v \in VipSets[g] \ {vips[g]} : vips' = [vips EXCEPT ![g] = v]
    /\ \/ queued' = (queued \/ g \in selecting) /\ UNCHANGED <<missed, faults>>
       \/ EventLost(g)
    /\ UNCHANGED <<netns, store, selecting, hops, podRuns, annotation, rec, runtime>>

(* The event of a data-plane pod queues that pod and no other. *)
DataPlanePodChanges(g) ==
    /\ Change
    /\ \E h \in HopSets[g] \ {hops[g]} : hops' = [hops EXCEPT ![g] = h]
    /\ UNCHANGED <<cni, selecting, vips, podRuns, annotation, queued, missed, rec, runtime>>
-----------------------------------------------------------------------------
(* Reconcile of the pod injector *)

GetGatewaysForGatewayClass ==
    /\ rec.pc = "idle" /\ queued
    /\ queued' = FALSE
    /\ missed' = {}
    /\ rec' = IF podRuns
              THEN [pc |-> "gateways", vips |-> vips, todo |-> Gateways,
                    elements |-> annotation, stale |-> FALSE]
              ELSE Idle
    /\ UNCHANGED <<cni, cluster, podRuns, annotation, runtime>>

(* The elements of a gateway that no longer selects the pod stay. *)
ReconcileGateway(g) ==
    /\ rec.pc = "gateways" /\ g \in rec.todo
    /\ rec' = [rec EXCEPT !.todo = @ \ {g},
                          !.elements = IF g \in selecting
                            THEN GetNetworkAttachmentAnnotation(@, g, rec.vips[g], hops[g])
                            ELSE @]
    /\ UNCHANGED <<cni, cluster, podRuns, annotation, queued, missed, runtime>>

(* An update that changes the pod is an event of the pod.  One of a pod    *)
(* that has changed since it was read is refused and retried.              *)
UpdatePod ==
    /\ rec.pc = "gateways" /\ rec.todo = {}
    /\ annotation' = IF rec.stale THEN annotation ELSE rec.elements
    /\ queued' = (queued \/ rec.elements # annotation \/ rec.stale)
    /\ rec' = Idle
    /\ UNCHANGED <<cni, cluster, podRuns, missed, runtime>>

(* A read or the update fails, or the process is restarted. *)
ReconcileFails ==
    /\ rec.pc = "gateways"
    /\ Fails
    /\ queued' = TRUE
    /\ rec' = Idle
    /\ UNCHANGED <<netns, store, cluster, podRuns, annotation, missed, runtime>>

Reconcile ==
    \/ GetGatewaysForGatewayClass \/ UpdatePod
    \/ \E g \in Gateways : ReconcileGateway(g)
-----------------------------------------------------------------------------
(* The runtime: it detaches before it attaches. *)

MayDetach(e) == e \in (attached \cup tried) \ annotation
MayAttach(e) == e \in annotation \ attached /\ attached \subseteq annotation

(* What has been done is written to the status of the pod, an event of it. *)
Synced ==
    /\ queued' = TRUE
    /\ rec' = [rec EXCEPT !.stale = rec.pc # "idle"]
    /\ UNCHANGED <<cluster, podRuns, annotation, missed>>

(* Elements with the table that the DEL of e flushes on account of a file  *)
(* that an ADD of e has left when it failed.                               *)
Flushed(e) ==
    {a \in attached : e \in tried \cap store.whole /\ IsPolicyRoute(e) /\ a.table = e.table}

Attach(e) ==
    /\ MayAttach(e) /\ CmdAdd(e)
    /\ attached' = attached \cup {e}
    /\ tried' = tried \ {e}
    /\ broken' = broken \ {e}
    /\ Synced

AttachFails(e) ==
    /\ MayAttach(e) /\ CmdAddFails(e)
    /\ tried' = tried \cup {e}
    /\ UNCHANGED <<attached, broken>>
    /\ UNCHANGED <<cluster, podRuns, annotation, queued, missed, rec>>

Detach(e) ==
    /\ MayDetach(e) /\ CmdDel(e)
    /\ attached' = attached \ {e}
    /\ tried' = tried \ {e}
    /\ broken' = (broken \cup Flushed(e)) \ {e}
    /\ Synced

DetachFails(e) ==
    /\ MayDetach(e) /\ CmdDelFails(e)
    /\ broken' = broken \cup Flushed(e) \cup {e}
    /\ UNCHANGED <<attached, tried>>
    /\ UNCHANGED <<cluster, podRuns, annotation, queued, missed, rec>>

RuntimeStep == \E e \in annotation \cup attached \cup tried : Attach(e) \/ Detach(e)

Next ==
    \/ PodStarts
    \/ \E g \in Gateways : ServiceChanges(g) \/ StatusChanges(g) \/ DataPlanePodChanges(g)
    \/ Reconcile \/ ReconcileFails
    \/ RuntimeStep
    \/ \E e \in annotation \cup attached \cup tried : AttachFails(e) \/ DetachFails(e)

Spec ==
    /\ Init /\ [][Next]_vars
    /\ WF_vars(Reconcile) /\ WF_vars(RuntimeStep)
-----------------------------------------------------------------------------
(* No gateway has addresses of both families. *)
SingleStack == \A g \in Gateways : \A v \in VipSets[g] : v \subseteq IPv4 \/ v \subseteq IPv6

(* The virtual addresses a gateway may ever have. *)
AllVips(g) == UNION VipSets[g]

(* No two gateways have an address in common. *)
OwnVips == \A g, h \in Gateways : g # h => AllVips(g) \cap AllVips(h) = {}

IsElement(e) ==
    /\ e.kind \in {"vip", "policy-route"} /\ e.proxy \in Gateways
    /\ e.vips \subseteq Addresses /\ e.vips # {} /\ e.gateways \subseteq Addresses
    /\ IsVip(e) <=> e.table = 0
    /\ IsPolicyRoute(e) => e.table >= FirstTable

TypeOK ==
    /\ selecting \subseteq Gateways /\ podRuns \in BOOLEAN /\ queued \in BOOLEAN
    /\ \A g \in Gateways : vips[g] \in VipSets[g] /\ hops[g] \in HopSets[g]
    /\ rec.pc \in {"idle", "gateways"} /\ rec.todo \subseteq Gateways
    /\ rec.stale \in BOOLEAN /\ missed \subseteq Gateways
    /\ \A e \in annotation \cup rec.elements \cup attached \cup tried \cup broken : IsElement(e)
    /\ \A e \in store.whole \cup store.cut : IsElement(e)
    /\ store.whole \cap store.cut = {}
    /\ attached \subseteq store.whole
    /\ faults \in 0..MaxFaults /\ changes \in 0..MaxChanges

(* Two gateways of a pod never share a routing table, which the plugin     *)
(* flushes for the one and the other (getFreeTableID).                     *)
TablesDistinct ==
    \A e, f \in annotation :
        IsPolicyRoute(e) /\ IsPolicyRoute(f) /\ e.table = f.table => e.proxy = f.proxy

(* An element that counts as attached has its address, or its rules and    *)
(* routes, in the kernel, whatever was attached and detached since and     *)
(* wherever that has failed (cmdAdd and cmdDel of both plugins).  There    *)
(* are two ways to undo it, both after a failure: its own DEL has failed,  *)
(* or an ADD that failed has left or found a whole file (store.go:48, 61,  *)
(* policy-route/main.go:103), and the DEL of that element has flushed the  *)
(* table that this one was given since.  The gateways have one family each *)
(* and share no address: else the elements of a gateway, or those of two,  *)
(* are undone one by the other.                                            *)
AttachedIsConfigured == \A e \in attached \ broken : Configured(e)

(* Without a failure the kernel has nothing that no attached element says. *)
NothingIsLeft ==
    faults = 0 =>
        /\ addrs = UNION {e.vips : e \in {a \in attached : IsVip(a)}}
        /\ rules = UNION {Rules(e) : e \in {a \in attached : IsPolicyRoute(a)}}
        /\ routes = UNION {{e.table} \X e.gateways : e \in {a \in attached : IsPolicyRoute(a)}}

(* What Converges comes to: the pod has the elements of its annotation,    *)
(* which has the addresses of the gateways that select the pod.            *)
Applied ==
    /\ attached = annotation
    /\ \A g \in selecting :
        {VipElement(g, v) : v \in vips[g]} = {e \in Managed(attached, g) : IsVip(e)}

(* When nothing fails, a pod comes to have the addresses of the gateways   *)
(* that select it (the cluster changes MaxChanges times), and is then left *)
(* alone.                                                                  *)
Converges ==
    <>podRuns /\ [](faults = 0) => <>[]Applied
=============================================================================
