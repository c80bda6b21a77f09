----------------------------- MODULE MCCharging -----------------------------
(* Instances of Charging for TLC. *)
EXTENDS Charging, TLC

CONSTANTS a, b, k

\* All requests carry the same idempotency key.
KeyShared == [q \in Requests |-> k]

\* Moolre, last in every ranking but its own, has no credentials.
WithoutMoolre == {"hubtel", "paystack"}

-----------------------------------------------------------------------------
(* What documents and comments say of charges, stated so that TLC can       *)
(* compare it with what the code does.                                      *)

\* clients/README.md: "Retry with the same idempotency_key to avoid double charge".
\* Initiate looks the key up before the gateway call and stores it after.
OneChargePerKey ==
    Cardinality({ref \in accepted : KeyOf[ref[1]] = k}) <= 1
=============================================================================
