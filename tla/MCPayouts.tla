----------------------------- MODULE MCPayouts ------------------------------
(* Instances of Payouts for TLC. *)
EXTENDS Payouts, TLC

CONSTANTS x, y, e1, e2, f, d1, d2, k

\* A batch of two entries, and a second attempt at creating a batch under its key.
BatchOfBoth == e1 :> x @@ e2 :> x @@ f :> y
KeyShared == x :> k @@ y :> k
BatchOfOne == e1 :> x
KeyOne == x :> k

WithoutMoolre == {"hubtel", "paystack"}
AllGateways == {"hubtel", "paystack", "moolre"}
Symmetric == Permutations({d1, d2}) \cup Permutations({e1, e2})

-----------------------------------------------------------------------------
\* payouts/service.go: "Resume of a partially failed batch reuses the same keys and
\* cannot double-pay".  Dispatch keeps no record of what it paid, and the gateways
\* only know the references they have seen themselves.
EntryPaidOnce == \A e \in Entries : Cardinality(Gateways(e)) <= 1
=============================================================================
