---------------------------- MODULE MCSettlement ----------------------------
(* Instances of Settlement for TLC. *)
EXTENDS Settlement, TLC

CONSTANTS p, q, w1, w2, h1, h2, e1, e2

\* One Paystack charge, two event ids about it.
GatewayOneCharge == p :> "paystack"
EventRefOneCharge == e1 :> p @@ e2 :> p

\* A Paystack and a Hubtel charge, one event id about each.
GatewayTwoCharges == p :> "paystack" @@ q :> "hubtel"
EventRefTwoCharges == e1 :> p @@ e2 :> q

Symmetric == Permutations({w1, w2}) \cup Permutations({h1, h2})

AllGateways == {"hubtel", "paystack", "moolre"}

-----------------------------------------------------------------------------
(* What comments, tests and design documents say of settlement, stated so  *)
(* that TLC can compare it with what the code does.                        *)

\* worker_test.go: "Exactly one ledger entry should exist" and "ledger must
\* remain idempotent", said of DrainOutbox; CompleteSucceeded inserts an entry
\* whenever processOne calls it, also for a charge that is booked already.
BookedOnce ==
    \A r \in Refs :
        LET fromWebhooks == {e \in WebhookEvents : EventRef[e] = r /\ webhookEntries[e] > 0}
        IN  workerEntries[r] + Cardinality(fromWebhooks) <= 1
=============================================================================
