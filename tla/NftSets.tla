------------------------------ MODULE NftSets ------------------------------
(***************************************************************************)
(* pkg/nfqlb/netfilter.go and set.go: the nftables table that directs the  *)
(* packets of the flows to the queues of the nfqlb process: two sets of    *)
(* destinations, one per address family, and four rules that look them up. *)
(*                                                                         *)
(* External: the kernel, which applies the changes of one Flush together   *)
(* or not at all.                                                          *)
(***************************************************************************)
CONSTANTS Hosts4, Hosts6, \* destination CIDRs of one IPv4 or IPv6 address
          Networks        \* longer destination CIDRs, and what is not a CIDR

NftSetsAssumption ==
    /\ Hosts4 \cap Hosts6 = {}
    /\ Networks \cap (Hosts4 \cup Hosts6) = {}

Hosts == Hosts4 \cup Hosts6

(* configureSets: the table and the sets of an earlier process of the same *)
(* network namespace are taken over with their elements.                   *)
ConfiguredSets == [v4 : SUBSET Hosts4, v6 : SUBSET Hosts6]

(* The chains nfqlb (prerouting, every protocol) and nfqlb-local (output,  *)
(* where only ICMP errors of this host are of interest).                   *)
Protocols == {"icmp", "ipv6-icmp", "other"}
Rules ==
    {[hook |-> "prerouting", l4 |-> Protocols, set |-> "v4"],
     [hook |-> "prerouting", l4 |-> Protocols, set |-> "v6"],
     [hook |-> "output", l4 |-> {"icmp"}, set |-> "v4"],
     [hook |-> "output", l4 |-> {"ipv6-icmp"}, set |-> "v6"]}

(* A packet of protocol l4 to dst that comes by a hook is queued. *)
Queued(sets, hook, l4, dst) ==
    \E r \in Rules : r.hook = hook /\ l4 \in r.l4 /\ dst \in sets[r.set]

(* getIPv4AndIPv6: only hosts can be queued, the other CIDRs are dropped. *)
GetIPv4AndIPv6(cidrs) == [v4 |-> cidrs \cap Hosts4, v6 |-> cidrs \cap Hosts6]

(* Mutant of UpdateSet: what is no longer wanted stays. *)
UpdateSetAdds(current, new) == current \cup new

(* updateSet deletes and adds the difference, in one Flush. *)
UpdateSet(current, new) == (current \ (current \ new)) \cup (new \ current)

SetDestinationCIDRs(sets, cidrs) ==
    LET new == GetIPv4AndIPv6(cidrs)
    IN [v4 |-> UpdateSet(sets.v4, new.v4), v6 |-> UpdateSet(sets.v6, new.v6)]

(* Reading either set or the update of the IPv4 set failed, or only that   *)
(* of the IPv6 set, which comes last.                                      *)
SetDestinationCIDRsFails(sets, cidrs) ==
    {sets, [sets EXCEPT !.v4 = UpdateSet(@, GetIPv4AndIPv6(cidrs).v4)]}
=============================================================================
