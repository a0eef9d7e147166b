---------------------------- MODULE MCPodNetwork ----------------------------
(***************************************************************************)
(* PodNetwork with an IPv4 gateway, whose data-plane pods are replaced,    *)
(* and an IPv6 gateway, which comes to have an address, or loses it.       *)
(***************************************************************************)
EXTENDS PodNetwork

SingleStackVips == [g |-> {{"a"}}, h |-> {{}, {"b6"}}]
SingleStackHops == [g |-> {{"x"}, {"y"}}, h |-> {{"z6"}}]

(* What the properties of the kernel presuppose. *)
ASSUME KernelAssumption == SingleStack /\ OwnVips
=============================================================================
