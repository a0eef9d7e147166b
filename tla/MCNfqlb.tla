------------------------------ MODULE MCNfqlb ------------------------------
(***************************************************************************)
(* Nfqlb on two services of one mark each, of which the identifier 1 has   *)
(* no room, and two IPv4 addresses that may take over from each other.     *)
(***************************************************************************)
EXTENDS Nfqlb

(* Every endpoint has one address. *)
SingleAddress == {{ip} : ip \in Addresses}

(* Every endpoint has one IPv4 address and may have the IPv6 addresses. *)
DualStack == {{ip} : ip \in IPv4} \cup {{ip} \cup IPv6 : ip \in IPv4}

(* Every flow has the IPv4 destination, one that cannot be queued as well, *)
(* and may have the IPv6 destination.                                      *)
DualStackFlows == {Hosts4 \cup Networks, Hosts \cup Networks}
=============================================================================
