-------------------------- MODULE MCGatewayManager --------------------------
(***************************************************************************)
(* GatewayManager with two stateless gateways, between which a service and *)
(* a route may move, and one of kpng with a service.                       *)
(***************************************************************************)
EXTENDS GatewayManager

Class == [g |-> "stateless", h |-> "stateless", k |-> "kpng"]
Owners == [s |-> {"g", "h"}, t |-> {"k"}]
Addresses == [s |-> "c", t |-> "c", q |-> "a", r |-> "b"]
=============================================================================
