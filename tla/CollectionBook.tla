--------------------------- MODULE CollectionBook ---------------------------
(***************************************************************************)
(* What settlement promises a product about its charges, with the workers, *)
(* handlers, locks, retries and crashes left out.                          *)
(*                                                                         *)
(* The gateway decides each charge's outcome once.  The service shows a    *)
(* status per charge and keeps the set of charges whose collection is in   *)
(* the ledger.  A charge is booked only when the gateway collected it, in  *)
(* the same step in which it is shown as succeeded, and is never unbooked. *)
(* A charge may be shown as failed at any time: the service does that on   *)
(* the gateway's word and also when it fails to read its own row.          *)
(***************************************************************************)
CONSTANT Refs
VARIABLES outcome, shown, booked

Init ==
    /\ outcome = [r \in Refs |-> "pending"]
    /\ shown = [r \in Refs |-> "none"]
    /\ booked = {}

\* The gateway's outcome becomes final.
Decide(r) ==
    /\ outcome[r] = "pending"
    /\ \E s \in {"succeeded", "failed"} : outcome' = [outcome EXCEPT ![r] = s]
    /\ UNCHANGED <<shown, booked>>

\* The charge becomes known to the service.
Open(r) ==
    /\ shown[r] = "none"
    /\ shown' = [shown EXCEPT ![r] = "pending"]
    /\ UNCHANGED <<outcome, booked>>

\* The collection is booked and the charge shown as succeeded.
Book(r) ==
    /\ shown[r] # "none"
    /\ outcome[r] = "succeeded"
    /\ shown' = [shown EXCEPT ![r] = "succeeded"]
    /\ booked' = booked \cup {r}
    /\ UNCHANGED outcome

\* The charge is shown as failed; what is booked stays booked.
Reject(r) ==
    /\ shown[r] # "none"
    /\ shown' = [shown EXCEPT ![r] = "failed"]
    /\ UNCHANGED <<outcome, booked>>

Next == \E r \in Refs : Decide(r) \/ Open(r) \/ Book(r) \/ Reject(r)

Spec == Init /\ [][Next]_<<outcome, shown, booked>>
=============================================================================
