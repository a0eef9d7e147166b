--------------------------- MODULE PodAnnotation ----------------------------
(***************************************************************************)
(* The network attachment annotation of an application pod                 *)
(* (podinjector/network/networkattachmentannotation.go): a set of network  *)
(* selection elements, one for each virtual address of a gateway and one,  *)
(* with a routing table, for each family it has addresses and next hops    *)
(* in.  The interface name of an element is a hash of its arguments, so an *)
(* element is known by what it says.                                       *)
(***************************************************************************)
EXTENDS Naturals, FiniteSets

CONSTANTS IPv4,  \* addresses: virtual ones and next hops
          IPv6

FirstTable == 5000

VipElement(proxy, vip) ==
    [kind |-> "vip", proxy |-> proxy, vips |-> {vip}, table |-> 0, gateways |-> {}]

PolicyRouteElement(proxy, table, gateways, vips) ==
    [kind |-> "policy-route", proxy |-> proxy, vips |-> vips,
     table |-> table, gateways |-> gateways]

IsVip(e) == e.kind = "vip"
IsPolicyRoute(e) == e.kind = "policy-route"

Managed(elements, proxy) == {e \in elements : e.proxy = proxy}

UsedTableIDs(elements) == {e.table : e \in {p \in elements : IsPolicyRoute(p)}}

(* Mutant of FreeTableID: the tables in use are counted. *)
TableIDByCount(elements) == FirstTable + Cardinality(UsedTableIDs(elements))

(* The lowest that no element uses, whoever's it is. *)
FreeTableID(elements) ==
    LET used == UsedTableIDs(elements)
    IN CHOOSE t \in FirstTable .. FirstTable + Cardinality(used) :
         t \notin used /\ \A u \in FirstTable .. (t - 1) : u \in used

(* The next hops of a family are on record with its addresses only. *)
EqualVIPsGateways(managed, vips, gateways) ==
    /\ UNION {e.vips : e \in {m \in managed : IsVip(m)}} = vips
    /\ UNION {e.gateways : e \in managed} = gateways

GetNetworkAttachmentAnnotation(elements, proxy, vips, gateways) ==
    LET managed == Managed(elements, proxy)
        families == {F \in {IPv4, IPv6} : vips \cap F # {} /\ gateways \cap F # {}}
    IN IF EqualVIPsGateways(managed, vips, gateways)
       THEN elements
       ELSE (elements \ managed)
            \cup {VipElement(proxy, vip) : vip \in vips}
            \cup {PolicyRouteElement(proxy, FreeTableID(elements),
                                     gateways \cap F, vips \cap F) : F \in families}
=============================================================================
