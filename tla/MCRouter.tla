------------------------------ MODULE MCRouter ------------------------------
(***************************************************************************)
(* Router with an address of each family, a BGP router with ports, one     *)
(* without, and a static one.                                              *)
(***************************************************************************)
EXTENDS Router

RouterSpec(protocol, localPort, remotePort, localASN, bfd) ==
    [protocol |-> protocol, family |-> "ipv4", localPort |-> localPort,
     localASN |-> localASN, remotePort |-> remotePort, remoteASN |-> "4200000000",
     bfd |-> bfd]

Specs ==
    [near |-> RouterSpec("BGP", "179", "179", "64512", "on"),
     far |-> RouterSpec(Unset, "179", "179", "64513", Unset),
     static |-> RouterSpec("Static", Unset, Unset, "64512", "on")]

=============================================================================
