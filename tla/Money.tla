-------------------------------- MODULE Money --------------------------------
(***************************************************************************)
(* Amounts as 64-bit integers with a currency, and the one place where     *)
(* they are added up: payouts.Create totals the entries of a batch, and    *)
(* payout_batches stores the total if it is above zero.                    *)
(***************************************************************************)
EXTENDS Integers, Sequences

CONSTANTS
    Half,        \* 2^63: amounts are in -Half .. Half - 1
    Requests     \* the batches that may be asked for: sequences of amounts

ASSUME MoneyAssumption ==
    /\ Half \in Nat \ {0}
    /\ Requests \subseteq Seq([units : -Half..(Half - 1), currency : STRING])

VARIABLE batches     \* payout_batches: entries and total of the row last written

\* int64 arithmetic wraps around.
Wrapped(n) == ((n + Half) % (2 * Half)) - Half

New(units, currency) == [units |-> units, currency |-> currency]
Zero == New(0, "")

\* The answer of Add for two different currencies.
Mismatch == New(0, "mismatch")

\* An amount without a currency takes the other's.
Combine(c, d) == IF c = "" THEN d ELSE c
Combines(c, d) == c = d \/ c = "" \/ d = ""

Add(m, other) ==
    IF Mismatch \in {m, other} \/ ~Combines(m.currency, other.currency) THEN Mismatch
    ELSE New(Wrapped(m.units + other.units), Combine(m.currency, other.currency))

\* The loop over the entries of a request.
Total(req) ==
    LET upto[n \in 0..Len(req)] == IF n = 0 THEN Zero ELSE Add(upto[n - 1], req[n])
    IN  upto[Len(req)]

\* Mutant: the table has no check on the total.
CheckNothing(total) == TRUE

\* CHECK (total_pesewas > 0).
Check(total) == total.units > 0

MoneyInit == batches = {}

CreateBatch(req) ==
    /\ req # <<>>
    /\ \A i \in 1..Len(req) : req[i].units > 0
    /\ Total(req) # Mismatch
    /\ Check(Total(req))
    /\ batches' = {[entries |-> req, total |-> Total(req)]}

MoneyNext == \E req \in Requests : CreateBatch(req)

MoneySpec == MoneyInit /\ [][MoneyNext]_batches

----------------------------------------------------------------------------
Sum(req) ==
    LET upto[n \in 0..Len(req)] == IF n = 0 THEN 0 ELSE upto[n - 1] + req[n].units
    IN  upto[Len(req)]

(* A batch of one or two entries is stored with the sum of its entries, in *)
(* the one currency they name: Add wraps around without an error, but the  *)
(* sum of two positive amounts can only wrap to a negative number, which   *)
(* the table refuses.  Three entries can wrap to a positive total.         *)
TotalIsSum ==
    \A b \in batches :
        Len(b.entries) <= 2 =>
            /\ b.total.units = Sum(b.entries)
            /\ \A i \in 1..Len(b.entries) : b.entries[i].currency \in {"", b.total.currency}
=============================================================================
