----------------------------- MODULE MCAdapters -----------------------------
(* Instances of Adapters for TLC. *)
EXTENDS Adapters, TLC

CONSTANTS i, a, b

\* A plain product, and one that reads like a reference of its own.
SomeProducts == {<<"shop">>, <<"optd", "moolre", "x">>}

\* An unknown gateway, an empty product, no reference at all.
Malformed == {<<"optd", "shop", "visa", "ulid">>, <<"optd", "", "hubtel", "ulid">>, <<"shop">>}

Symmetric == Permutations({a, b})
=============================================================================
