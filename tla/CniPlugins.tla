----------------------------- MODULE CniPlugins -----------------------------
(***************************************************************************)
(* The CNI plugins loopback-vip and policy-route (cmd/cni) in the network  *)
(* namespace of one pod, with the files they keep of what they were given  *)
(* (pkg/cni/store.go).  ADD and DEL are run one at a time; each is one     *)
(* step, which ends where the code does, or at the system call that fails. *)
(***************************************************************************)
EXTENDS PodAnnotation

CONSTANT MaxFaults  \* bound on failing system calls

ASSUME CniAssumption == MaxFaults \in Nat

VARIABLES
    addrs,   \* addresses of the loopback interface
    rules,   \* policy rules: tables and sources
    routes,  \* default routes: tables and next hops
    store,   \* the files: which elements there is one for, written or cut
    faults   \* failures so far

netns == <<addrs, rules, routes>>
cni == <<netns, store, faults>>

CniInit ==
    /\ addrs = {} /\ rules = {} /\ routes = {}
    /\ store = [whole |-> {}, cut |-> {}]
    /\ faults = 0

Fails == faults < MaxFaults /\ faults' = faults + 1

RulesOf(table) == {r \in rules : r[1] = table}
RoutesOf(table) == {r \in routes : r[1] = table}

Rules(e) == {e.table} \X e.vips
Hops(e, family) == {e.table} \X (e.gateways \cap family)
-----------------------------------------------------------------------------
(* The store *)

Stored(e) == e \in store.whole \cup store.cut

Store(e) ==
    /\ ~Stored(e)
    /\ store' = [store EXCEPT !.whole = @ \cup {e}]
    /\ UNCHANGED faults

(* The file exists and is not opened again, or it cannot be made, or it is *)
(* made and not written, or it is written and cannot be closed.  The last  *)
(* is also what is left when the result of an ADD cannot be printed.       *)
StoreFails(e) ==
    \/ Stored(e) /\ UNCHANGED <<store, faults>>
    \/ /\ Fails /\ ~Stored(e)
       /\ store' \in {store, [store EXCEPT !.cut = @ \cup {e}],
                     [store EXCEPT !.whole = @ \cup {e}]}

Delete(e) == store' = [store EXCEPT !.whole = @ \ {e}] /\ UNCHANGED faults
-----------------------------------------------------------------------------
(* loopback-vip *)

AddVip(e) ==
    /\ e.vips \cap addrs = {}
    /\ addrs' = addrs \cup e.vips
    /\ Store(e)
    /\ UNCHANGED <<rules, routes>>

(* The address is there already or is refused, or it stays, whatever there *)
(* is of a file.                                                           *)
AddVipFails(e) ==
    /\ \/ e.vips \subseteq addrs /\ UNCHANGED <<addrs, store, faults>>
       \/ Fails /\ UNCHANGED <<addrs, store>>
       \/ e.vips \cap addrs = {} /\ addrs' = addrs \cup e.vips /\ StoreFails(e)
    /\ UNCHANGED <<rules, routes>>

DelVip(e) ==
    /\ e \in store.whole /\ e.vips \subseteq addrs
    /\ addrs' = addrs \ e.vips
    /\ Delete(e)
    /\ UNCHANGED <<rules, routes>>

DelVipFails(e) ==
    /\ \/ e \in store.cut /\ UNCHANGED <<addrs, faults>>
       \/ e \in store.whole /\ e.vips \cap addrs = {} /\ UNCHANGED <<addrs, faults>>
       \/ e \in store.whole /\ e.vips \subseteq addrs /\ Fails
          /\ addrs' \in {addrs, addrs \ e.vips}
    /\ UNCHANGED <<rules, routes, store>>
-----------------------------------------------------------------------------
(* policy-route *)

(* Mutant of Flush: the rules of the table are left. *)
FlushRoutes(table) == rules' = rules /\ routes' = routes \ RoutesOf(table)

Flush(table) == rules' = rules \ RulesOf(table) /\ routes' = routes \ RoutesOf(table)

FlushFails(table) ==
    /\ Fails
    /\ \/ \E gone \in SUBSET RulesOf(table) :
            rules' = rules \ gone /\ UNCHANGED routes
       \/ \E gone \in SUBSET RoutesOf(table) :
            rules' = rules \ RulesOf(table) /\ routes' = routes \ gone

ConfigureNetNs(e) ==
    /\ rules' = (rules \ RulesOf(e.table)) \cup Rules(e)
    /\ routes' = (routes \ RoutesOf(e.table)) \cup Hops(e, IPv4) \cup Hops(e, IPv6)

(* What comes after the call that fails is left out: the route of the      *)
(* second family and the rules, or some of the rules.                      *)
ConfigureNetNsFails(e) ==
    \/ FlushFails(e.table)
    \/ /\ Fails
       /\ rules' = rules \ RulesOf(e.table)
       /\ routes' = (routes \ RoutesOf(e.table)) \cup Hops(e, IPv4)
    \/ /\ Fails
       /\ \E added \in SUBSET Rules(e) \ {Rules(e)} :
            rules' = (rules \ RulesOf(e.table)) \cup added
       /\ routes' = (routes \ RoutesOf(e.table)) \cup Hops(e, IPv4) \cup Hops(e, IPv6)

AddPolicyRoute(e) ==
    /\ ConfigureNetNs(e)
    /\ Store(e)
    /\ UNCHANGED addrs

(* A table that was configured stays so, whatever there is of a file.      *)
AddPolicyRouteFails(e) ==
    /\ \/ ConfigureNetNsFails(e) /\ UNCHANGED store
       \/ ConfigureNetNs(e) /\ StoreFails(e)
    /\ UNCHANGED addrs

DelPolicyRoute(e) ==
    /\ e \in store.whole
    /\ Flush(e.table)
    /\ Delete(e)
    /\ UNCHANGED addrs

(* Mutant of DelPolicyRouteFails: the file is removed before the flush. *)
DelPolicyRouteFailsForgotten(e) ==
    /\ e \in store.whole /\ FlushFails(e.table)
    /\ store' = [store EXCEPT !.whole = @ \ {e}]
    /\ UNCHANGED addrs

DelPolicyRouteFails(e) ==
    /\ \/ e \in store.cut /\ UNCHANGED <<rules, routes, faults>>
       \/ e \in store.whole /\ FlushFails(e.table)
       \/ e \in store.whole /\ Flush(e.table) /\ Fails
    /\ UNCHANGED <<addrs, store>>
-----------------------------------------------------------------------------
(* Both: "file does not exist, so the VIP is already removed", which is    *)
(* also what any other error of reading it is taken for.                   *)
DelNothing(e) ==
    /\ \/ ~Stored(e) /\ UNCHANGED faults
       \/ Fails
    /\ UNCHANGED <<netns, store>>

CmdAdd(e) == IF IsVip(e) THEN AddVip(e) ELSE AddPolicyRoute(e)
CmdAddFails(e) == IF IsVip(e) THEN AddVipFails(e) ELSE AddPolicyRouteFails(e)
CmdDel(e) == DelNothing(e) \/ IF IsVip(e) THEN DelVip(e) ELSE DelPolicyRoute(e)
CmdDelFails(e) == IF IsVip(e) THEN DelVipFails(e) ELSE DelPolicyRouteFails(e)

(* The kernel has what an element says. *)
Configured(e) ==
    IF IsVip(e) THEN e.vips \subseteq addrs
    ELSE /\ Rules(e) \subseteq RulesOf(e.table)
         /\ Hops(e, IPv4) \cup Hops(e, IPv6) \subseteq RoutesOf(e.table)
=============================================================================
