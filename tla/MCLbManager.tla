---------------------------- MODULE MCLbManager ----------------------------
(***************************************************************************)
(* LbManager on a service with two pods and one without, and one route.    *)
(***************************************************************************)
EXTENDS LbManager

Endpoint(uid, id, addrs, ready) ==
    [uid |-> uid, id |-> id, addrs |-> addrs, ready |-> ready]

(* Pod p has an IPv6 address only and q an IPv4 address only: when one      *)
(* takes over the identifier of the other, the slices say so at two times. *)
P(ready) == Endpoint("p", 0, {"p6"}, ready)
Q == Endpoint("q", 0, {"q4"}, TRUE)

Pods == [a |-> {{P(TRUE)}, {P(FALSE)}, {Q}}, b |-> {}]
PodsHandover == [a |-> {{P(TRUE)}, {Q}}]
=============================================================================
