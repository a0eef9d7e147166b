----------------------------- MODULE BirdConfig -----------------------------
(***************************************************************************)
(* What a BIRD configuration says (pkg/bird/configuration.go): the static  *)
(* routes of the virtual addresses, and one BGP session for each gateway   *)
(* router with the parameters of its object                                *)
(* (pkg/controllers/router/gateway.go).  The text around them is layout,   *)
(* and ports and AS numbers are only told apart.                           *)
(***************************************************************************)
CONSTANTS IPv4,     \* virtual addresses
          IPv6,
          Routers,  \* names of GatewayRouters
          SpecOf    \* the specification of each

Unset == "unset"  \* a pointer that is nil, a string that is empty

DefaultLocalPort == "10179"
DefaultLocalASN == "8103"
DefaultRemotePort == "10179"
DefaultRemoteASN == "4248829953"

Vips == IPv4 \cup IPv6

(* interfaces.go: "the minimal parameters to be defined in bgp properties  *)
(* are RemoteASN and LocalASN".                                            *)
ASSUME RoutersAssumption ==
    /\ IPv4 \cap IPv6 = {}
    /\ \A r \in Routers : SpecOf[r].localASN # Unset /\ SpecOf[r].remoteASN # Unset

OrDefault(value, default) == IF value = Unset THEN default ELSE value

NewGateway(r) == [SpecOf[r] EXCEPT !.protocol = OrDefault(@, "BGP")]

(* The AS number is looked at when the port is given. *)
ASN(port, asn, default) == IF port = Unset THEN default ELSE asn

BfdConfig(switch) == OrDefault(switch, "off")

BgpConfig(r) ==
    LET gw == NewGateway(r)
    IN [name |-> r, family |-> gw.family,
        localPort |-> OrDefault(gw.localPort, DefaultLocalPort),
        localASN |-> ASN(gw.localPort, gw.localASN, DefaultLocalASN),
        remotePort |-> OrDefault(gw.remotePort, DefaultRemotePort),
        remoteASN |-> ASN(gw.remotePort, gw.remoteASN, DefaultRemoteASN),
        bfd |-> BfdConfig(gw.bfd)]

(* A router with the protocol Static adds nothing. *)
GatewaysConfig(routers) ==
    {BgpConfig(r) : r \in {n \in routers : NewGateway(n).protocol = "BGP"}}

(* Mutant of VipsConfig: only the IPv4 addresses are written. *)
VipsConfigIPv4(vips) == [ipv4 |-> vips \cap IPv4, ipv6 |-> {}]

VipsConfig(vips) == [ipv4 |-> vips \cap IPv4, ipv6 |-> vips \cap IPv6]

GetConfig(vips, routers) ==
    [vips |-> VipsConfig(vips), peers |-> GatewaysConfig(routers)]

RoutesOf(config) == config.vips.ipv4 \cup config.vips.ipv6
=============================================================================
