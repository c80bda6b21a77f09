------------------------------ MODULE MCClient ------------------------------
(* An instance of ProductClient for TLC: attempts a1 and a2 of an order in   *)
(* GHS under one key, attempt b of a keyless order in a currency the table   *)
(* refuses.  Paystack alone has credentials and is last in the ranking.      *)
EXTENDS ProductClient, TLC

CONSTANTS a1, a2, b, OA, OB

Order == [q \in Requests |-> IF q = b THEN OB ELSE OA]
ClientKeys == [q \in Requests |-> IF q = b THEN <<"drawn", b>> ELSE <<"given", OA>>]
OnlyPaystack == {"paystack"}
Attempts == Permutations({a1, a2})
=============================================================================
