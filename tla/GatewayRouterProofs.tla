------------------------- MODULE GatewayRouterProofs ------------------------
(* What every loop over a ranking relies on. *)
EXTENDS GatewayRouter, FiniteSets, FiniteSetTheorems, TLAPS

\* A ranking that is not used up has a first gateway.
LEMMA FirstInRoute ==
    ASSUME NEW S \in SUBSET Gateway, S # {}
    PROVE  First(S) \in S
<1>1. \E g \in S : \A k \in S : Rank(g) <= Rank(k)
  BY DEF Gateway, Rank
<1>2. QED
  BY <1>1 DEF First

\* A ranking is never empty, also when every circuit is open.
LEMMA RouteNotEmpty ==
    ASSUME NEW S \in SUBSET Gateway
    PROVE  Route(S) \in SUBSET Gateway /\ Route(S) # {}
BY DEF Route, Gateway

\* A ranking is finite, and so is what gateways have done for one charge or payout.
LEMMA GatewayFinite ==
    ASSUME NEW S \in SUBSET Gateway
    PROVE  IsFiniteSet(S) /\ Cardinality(S) \in Nat
<1>1. IsFiniteSet({}) /\ IsFiniteSet({"hubtel"}) /\ IsFiniteSet({"hubtel", "paystack"})
  BY FS_EmptySet, FS_AddElement
<1>2. IsFiniteSet(Gateway)
  BY <1>1, FS_AddElement DEF Gateway
<1>3. QED
  BY <1>2, FS_Subset, FS_CardinalityType
=============================================================================
