------------------------------- MODULE Router -------------------------------
(***************************************************************************)
(* The router controller (pkg/controllers/router) and the Bird it drives:  *)
(* a reconciliation reads the gateway, then the gateway routers, and hands *)
(* the addresses of the first and the list of the others to Configure.     *)
(***************************************************************************)
EXTENDS Bird

CONSTANTS Statuses,  \* sets of addresses the status of the gateway may list
          Foreign    \* GatewayRouters in other namespaces than the gateway

ASSUME RouterAssumption == Statuses \subseteq SUBSET Vips /\ Foreign \subseteq Routers

VARIABLES
    status,   \* addresses in the status of the gateway
    exists,   \* the gateway exists
    routers,  \* the GatewayRouters labelled with its name
    queued,   \* the gateway is in the work queue
    rec       \* the reconciliation in progress

cluster == <<status, exists, routers>>
vars == <<bird, cluster, queued, rec>>

Idle == [pc |-> "idle", vips |-> {}]

Init ==
    /\ BirdInit
    /\ status = {} /\ exists = TRUE /\ routers = {}
    /\ queued = TRUE
    /\ rec = Idle
-----------------------------------------------------------------------------
StatusChanges ==
    /\ exists
    /\ \E vips \in Statuses \ {status} : status' = vips
    /\ queued' = TRUE
    /\ UNCHANGED <<bird, exists, routers, rec>>

GatewayComesOrGoes ==
    /\ exists' = ~exists
    /\ status' = {}
    /\ queued' = TRUE
    /\ UNCHANGED <<bird, routers, rec>>

(* An event of a router queues the gateway of its label in the namespace   *)
(* of the router: for one of another namespace, a gateway Reconcile does   *)
(* not look at.                                                            *)
RouterChanges(r) ==
    /\ routers' = IF r \in routers THEN routers \ {r} ELSE routers \cup {r}
    /\ queued' = (queued \/ r \notin Foreign)
    /\ UNCHANGED <<bird, status, exists, rec>>
-----------------------------------------------------------------------------
GetGateway ==
    /\ rec.pc = "idle" /\ queued
    /\ queued' = FALSE
    /\ rec' = IF exists THEN [pc |-> "list", vips |-> status] ELSE Idle
    /\ UNCHANGED <<bird, cluster>>

ReadFails ==
    /\ rec.pc = "list" \/ (rec.pc = "idle" /\ queued)
    /\ Failures(1)
    /\ queued' = TRUE
    /\ rec' = Idle
    /\ UNCHANGED <<mu, running, file, runner, loaded, rules, call, outcome, cluster>>

GetGatewayRouters ==
    /\ rec.pc = "list"
    /\ Configure(rec.vips, routers)
    /\ rec' = [Idle EXCEPT !.pc = "configure"]
    /\ UNCHANGED <<mu, running, file, runner, loaded, rules, outcome, faults, cluster, queued>>

(* Mutant of Returned: the error of Configure is logged and dropped. *)
ReturnedQuietly ==
    /\ rec.pc = "configure" /\ At("none")
    /\ rec' = Idle
    /\ outcome' = "none"
    /\ UNCHANGED <<mu, running, file, runner, loaded, rules, call, faults, cluster, queued>>

Returned ==
    /\ rec.pc = "configure" /\ At("none")
    /\ rec' = Idle
    /\ queued' = (queued \/ outcome = "failed")
    /\ outcome' = "none"
    /\ UNCHANGED <<mu, running, file, runner, loaded, rules, call, faults, cluster>>

Restart ==
    /\ RestartBird
    /\ rec' = Idle
    /\ queued' = TRUE
    /\ UNCHANGED cluster

Reconcile == GetGateway \/ ReadFails \/ GetGatewayRouters \/ Returned

Next ==
    \/ StatusChanges \/ GatewayComesOrGoes
    \/ \E r \in Routers : RouterChanges(r)
    \/ Reconcile \/ Restart
    \/ (Run \/ RunWriteFails \/ BirdExits \/ ConfigureStep)
       /\ UNCHANGED <<cluster, queued, rec>>

Spec ==
    /\ Init /\ [][Next]_vars
    /\ WF_vars(Reconcile)
    /\ WF_vars(Run /\ UNCHANGED <<cluster, queued, rec>>)
    /\ WF_vars(ConfigureStep /\ UNCHANGED <<cluster, queued, rec>>)
-----------------------------------------------------------------------------
Configs == {GetConfig(v, g) : v \in SUBSET Vips, g \in SUBSET Routers}
Files == [content : {"absent", "cut", "whole"}, config : Configs]
Calls == [pc : {"none", "lock", "write", "birdc", "rules"},
          vips : SUBSET Vips, gateways : SUBSET Routers]
Reconciliations == [pc : {"idle", "list", "configure"}, vips : SUBSET Vips]

(* Values of the variables; Bird.mu is held by the Configure that works,   *)
(* which a reconciliation waits for, or by a Run that has returned.        *)
TypeOK ==
    /\ mu \in {"free", "run", "configure"} /\ running \in BOOLEAN
    /\ file \in Files /\ loaded \in Files
    /\ runner \in {"start", "exec", "bird", "returned"}
    /\ rules \subseteq Vips
    /\ call \in Calls
    /\ outcome \in {"none", "ok", "failed"}
    /\ faults \in 0..MaxFaults
    /\ status \subseteq Vips /\ exists \in BOOLEAN /\ routers \subseteq Routers
    /\ queued \in BOOLEAN
    /\ rec \in Reconciliations
    /\ mu = "configure" <=> call.pc \in {"write", "birdc", "rules"}
    /\ mu = "run" => runner = "returned"
    /\ call.pc # "none" => rec.pc = "configure"

(* What bird and the kernel have is what the gateway and the routers of    *)
(* its namespace say.                                                      *)
Local(config) == {p \in config.peers : p.name \notin Foreign}

Applied ==
    /\ rules = status
    /\ file.content = "whole"
    /\ RoutesOf(file.config) = status
    /\ Local(file.config) = GatewaysConfig(routers \ Foreign)
    /\ runner = "bird" => loaded = file

(* A reconciliation that has come to its end and is not to be repeated has *)
(* applied the gateway, whenever bird was started and whatever failed      *)
(* before (router.go: Reconcile; bird.go: Run, Configure).                 *)
SettledIsApplied == exists /\ rec.pc = "idle" /\ ~queued => Applied

(* Packets of an address are sent to BIRD's table only when bird, if it    *)
(* runs, has been told of the address, and until it has been told that the *)
(* address is gone (Configure: the order of its three parts).              *)
RulesFollowBird ==
    [][/\ rules' \ rules \subseteq RoutesOf(file.config)
       /\ runner = "bird" =>
            /\ rules' \ rules \subseteq RoutesOf(loaded.config)
            /\ (rules \ rules') \cap RoutesOf(loaded.config) = {}]_vars

ClusterStops == <>[][UNCHANGED cluster]_vars

(* When the cluster stops changing, the gateway comes to be applied,       *)
(* unless bird has exited, which nothing starts again, or Run has kept the *)
(* lock.                                                                   *)
Converges == ClusterStops => <>[](Gone \/ ~exists \/ Applied)

=============================================================================
