---------------------------- MODULE PolicyRouting ----------------------------
(***************************************************************************)
(* pkg/nfqlb/routing.go: the ip rule and the default route that steer the  *)
(* packets nfqlb marked for a target to one of its addresses.              *)
(*                                                                         *)
(* The kernel state is a record net.  net.rules holds pairs                *)
(* <<mark, family>>: packets with the mark use the routing table of the    *)
(* same number.  net.routes holds pairs <<mark, address>>: that table's    *)
(* default route goes through the address.  netlink.RuleAdd and RouteAdd   *)
(* are exclusive (EEXIST): a table has at most one default route for an    *)
(* address family, and RouteDel only removes the route with the gateway it *)
(* is given.                                                               *)
(***************************************************************************)

CONSTANTS IPv4, \* the IPv4 addresses of endpoints
          IPv6  \* the IPv6 addresses of endpoints

ASSUME FamiliesAssumption == IPv4 \cap IPv6 = {}

Addresses == IPv4 \cup IPv6

EmptyNet == [rules |-> {}, routes |-> {}]

Family(ip) == IF ip \in IPv4 THEN IPv4 ELSE IPv6

(* getRule, getRoute. *)
RuleFor(mark, ip) == <<mark, Family(ip)>>
RouteFor(mark, ip) == <<mark, ip>>

(* The default routes a table has in the family of ip. *)
TableOf(net, mark, ip) ==
    {r \in net.routes : r[1] = mark /\ r[2] \in Family(ip)}

(* validPolicyRoute only looks at the route, not at the rule. *)
ValidPolicyRoute(net, mark, ip) == RouteFor(mark, ip) \in net.routes

(* Mutant of DeletePolicyRoute: the rule is forgotten. *)
DeleteRouteOnly(net, mark, ip) ==
    [net EXCEPT !.routes = @ \ {RouteFor(mark, ip)}]

(* The rule first; when there is none, the route is not looked at. *)
DeletePolicyRoute(net, mark, ip) ==
    IF RuleFor(mark, ip) \in net.rules
    THEN [rules  |-> net.rules \ {RuleFor(mark, ip)},
          routes |-> net.routes \ {RouteFor(mark, ip)}]
    ELSE net

WithRule(net, mark, ip) == [net EXCEPT !.rules = @ \cup {RuleFor(mark, ip)}]

(* RouteAdd: refused while the table has a default route of the family. *)
WithRoute(net, mark, ip) ==
    IF TableOf(net, mark, ip) = {}
    THEN [net EXCEPT !.routes = @ \cup {RouteFor(mark, ip)}]
    ELSE net

CreatePolicyRoute(net, mark, ip) ==
    IF ValidPolicyRoute(net, mark, ip)
    THEN net
    ELSE WithRoute(WithRule(DeletePolicyRoute(net, mark, ip), mark, ip), mark, ip)

(* What is left when the kernel refuses one of the requests: RuleDel or    *)
(* RouteDel of a deletion; RuleDel (the rule is then still there and       *)
(* RuleAdd fails), RuleAdd or RouteAdd of a creation.                      *)
DeletePolicyRouteFails(net, mark, ip) ==
    {net, [net EXCEPT !.rules = @ \ {RuleFor(mark, ip)}]}

CreatePolicyRouteFails(net, mark, ip) ==
    IF ValidPolicyRoute(net, mark, ip)
    THEN {net}
    ELSE LET deleted == DeletePolicyRoute(net, mark, ip)
         IN  {net, deleted, WithRule(deleted, mark, ip)}
=============================================================================
