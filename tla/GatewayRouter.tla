---------------------------- MODULE GatewayRouter ---------------------------
(* The ranking of gateway.ChargerRouter, which charges and payouts share. *)
EXTENDS Integers

CONSTANT Primary   \* PAYMENTS_PRIMARY

Gateway == {"hubtel", "paystack", "moolre"}

ASSUME PrimaryAssumption == Primary \in Gateway

\* The primary first, the others in a fixed order.
Rank(g) == IF g = Primary THEN 0
           ELSE CASE g = "hubtel" -> 1 [] g = "paystack" -> 2 [] g = "moolre" -> 3

First(S) == CHOOSE g \in S : \A k \in S : Rank(g) <= Rank(k)

\* Route, as the set of gateways to try in order of Rank: those not excluded, or
\* all of them when none would be left.
Route(excluded) == IF Gateway \ excluded = {} THEN Gateway ELSE Gateway \ excluded
=============================================================================
