------------------------------ MODULE Payouts -------------------------------
(***************************************************************************)
(* Payout batches: payouts.Create stores a batch with its reservations,    *)
(* payouts.Dispatch pays the entries one by one.                           *)
(*                                                                         *)
(* Nothing in the repository calls Dispatch yet.  Its caller is taken to   *)
(* be free: any stored batch, loaded with Get, may be dispatched any       *)
(* number of times, also by several dispatchers at once, which is what     *)
(* resuming a batch means.  Every store, Valkey or gateway call is one     *)
(* atomic step and may fail.                                               *)
(*                                                                         *)
(* An entry stands for its reference (built on a fresh ULID) and for its   *)
(* reservation row.  A gateway pays a reference at most once.              *)
(***************************************************************************)
EXTENDS Integers, FiniteSets, GatewayRouter

CONSTANTS
    Requests,    \* POST /v1/payouts requests that are valid, and the batch of each
    KeyOf,       \* (product, batch_date, idempotency_key) of each request, or NoKey
    Entries,     \* the payouts
    BatchOf,     \* the request each entry belongs to
    InGHS,       \* the entries whose currency is GHS
    Dispatchers, \* processes that call Dispatch
    Configured,  \* gateways whose adapter has credentials
    MaxRounds,   \* bound on the dispatches of one batch
    MaxFaults,   \* bound on failed, unanswered or misread calls and crashes
    NoKey, NoBatch, NoEntry

ASSUME PayoutAssumption ==
    /\ IsFiniteSet(Entries) /\ IsFiniteSet(Dispatchers) /\ NoEntry \notin Entries
    /\ NoBatch \notin Requests
    /\ BatchOf \in [Entries -> Requests]
    /\ InGHS \subseteq Entries
    /\ \A e, f \in Entries : BatchOf[e] = BatchOf[f] /\ e \in InGHS => f \in InGHS \* Money.Add
    /\ Configured \subseteq Gateway
    /\ MaxRounds \in Nat /\ MaxFaults \in Nat

VARIABLES
    request,      \* each request: is Create still to run?
    batches,      \* payout_batches
    reservations, \* payout_reservations.status, "none" when there is no row
    paid,         \* <<e, g>>: gateway g has paid entry e
    ledger,       \* vendor_payout entries of each payout
    locks,        \* Valkey: the entries whose key payout:<ref> is set
    overran,      \* entries whose key expired before its dispatch gave it back
    rounds,       \* how often each batch has been dispatched
    dpc, batch, todo, current, route, held, \* each dispatcher, see TypeOK
    faults

storeVars == <<batches, reservations, ledger>>
lockVars == <<locks, overran>>
dispatchVars == <<dpc, batch, todo, current, route, held>>
vars == <<request, storeVars, paid, lockVars, rounds, dispatchVars, faults>>

TypeOK ==
    /\ request \in [Requests -> {"new", "done"}]
    /\ batches \subseteq Requests
    /\ reservations \in [Entries -> {"none", "open", "settled", "released"}]
    /\ paid \subseteq Entries \X Gateway
    /\ ledger \in [Entries -> Nat]
    /\ locks \subseteq Entries
    /\ overran \subseteq Entries
    /\ rounds \in [Requests -> 0..MaxRounds]
    /\ dpc \in [Dispatchers -> {"idle", "entry", "route", "pay", "append", "release", "unlock"}]
    /\ batch \in [Dispatchers -> Requests \cup {NoBatch}]
    /\ todo \in [Dispatchers -> SUBSET Entries]                 \* entries not looked at
    /\ current \in [Dispatchers -> Entries \cup {NoEntry}]      \* the entry in hand
    /\ route \in [Dispatchers -> SUBSET Gateway]                \* gateways not tried
    /\ held \in [Dispatchers -> SUBSET Entries]                 \* deferred releases
    /\ faults \in 0..MaxFaults

Init ==
    /\ request = [q \in Requests |-> "new"]
    /\ batches = {}
    /\ reservations = [e \in Entries |-> "none"]
    /\ paid = {}
    /\ ledger = [e \in Entries |-> 0]
    /\ locks = {}
    /\ overran = {}
    /\ rounds = [q \in Requests |-> 0]
    /\ dpc = [d \in Dispatchers |-> "idle"]
    /\ batch = [d \in Dispatchers |-> NoBatch]
    /\ todo = [d \in Dispatchers |-> {}]
    /\ current = [d \in Dispatchers |-> NoEntry]
    /\ route = [d \in Dispatchers |-> {}]
    /\ held = [d \in Dispatchers |-> {}]
    /\ faults = 0

Fault == faults < MaxFaults /\ faults' = faults + 1
NoFault == UNCHANGED faults

-----------------------------------------------------------------------------
(* payouts.Create. *)

EntriesOf(q) == {e \in Entries : BatchOf[e] = q}

\* The transaction of CreateBatchWithReservations: the batch and one open
\* reservation per entry.
CreateBatchWithReservations(q) ==
    /\ batches' = batches \cup {q}
    /\ reservations' = [e \in Entries |-> IF BatchOf[e] = q THEN "open" ELSE reservations[e]]

\* The unique index lets one batch in per product, date and key, if there is a key.
Unique(q) == KeyOf[q] = NoKey \/ \A p \in batches : KeyOf[p] # KeyOf[q]

\* Stored, refused as a conflict, or failed, perhaps with only the reply lost.  No
\* outbox is wired, so Create ends here.
Create(q) ==
    /\ request[q] = "new"
    /\ request' = [request EXCEPT ![q] = "done"]
    /\ \/ Unique(q) /\ CreateBatchWithReservations(q) /\ NoFault
       \/ Unique(q) /\ CreateBatchWithReservations(q) /\ Fault
       \/ ~Unique(q) /\ UNCHANGED <<batches, reservations>> /\ NoFault
       \/ UNCHANGED <<batches, reservations>> /\ Fault
    /\ UNCHANGED <<ledger, paid, lockVars, rounds, dispatchVars>>

-----------------------------------------------------------------------------
(* payouts.Dispatch. *)

Goto(d, next) == dpc' = [dpc EXCEPT ![d] = next]

\* Some caller loads the batch and calls Dispatch.
Dispatch(d, q) ==
    /\ dpc[d] = "idle"
    /\ q \in batches
    /\ rounds[q] < MaxRounds
    /\ rounds' = [rounds EXCEPT ![q] = @ + 1]
    /\ batch' = [batch EXCEPT ![d] = q]
    /\ todo' = [todo EXCEPT ![d] = {e \in EntriesOf(q) : reservations[e] # "none"}]
    /\ Goto(d, "entry")
    /\ UNCHANGED <<request, storeVars, paid, lockVars, current, route, held, faults>>

\* Mutant: an entry that is locked is paid all the same.
TryAcquireIgnored(d) ==
    /\ dpc[d] = "entry"
    /\ \E e \in todo[d] :
         /\ todo' = [todo EXCEPT ![d] = @ \ {e}]
         /\ locks' = locks \cup {e}
         /\ held' = [held EXCEPT ![d] = @ \cup {e}]
         /\ current' = [current EXCEPT ![d] = e]
    /\ Goto(d, "route")
    /\ UNCHANGED <<request, storeVars, paid, overran, rounds, batch, route, faults>>

\* TryAcquire (SET key 1 NX PX 30000) for an entry: the rows of a batch carry one
\* created_at, so FindBatch returns them in any order.  An entry that is locked, or
\* whose lock cannot be asked for, is skipped.
TryAcquire(d) ==
    /\ dpc[d] = "entry"
    /\ \E e \in todo[d] :
         /\ todo' = [todo EXCEPT ![d] = @ \ {e}]
         /\ \/ /\ e \notin locks
               /\ locks' = locks \cup {e}
               /\ held' = [held EXCEPT ![d] = @ \cup {e}]
               /\ current' = [current EXCEPT ![d] = e]
               /\ Goto(d, "route")
               /\ NoFault
            \/ /\ e \in locks
               /\ NoFault
               /\ UNCHANGED <<locks, held, current, dpc>>
            \/ /\ locks' \in {locks, locks \cup {e}}
               /\ Fault
               /\ UNCHANGED <<held, current, dpc>>
    /\ UNCHANGED <<request, storeVars, paid, overran, rounds, batch, route>>

\* Route, whatever circuits are open at the moment: they are those of charges, and
\* Dispatch reports no outcome to them.
RouteEntry(d) ==
    /\ dpc[d] = "route"
    /\ \E S \in SUBSET Gateway : route' = [route EXCEPT ![d] = Route(S)]
    /\ Goto(d, "pay")
    /\ UNCHANGED <<request, storeVars, paid, lockVars, rounds, batch, todo, current, held, faults>>

\* The entry in hand is done with, the dispatch goes on.
NextEntry(d) ==
    /\ Goto(d, "entry")
    /\ current' = [current EXCEPT ![d] = NoEntry]
    /\ route' = [route EXCEPT ![d] = {}]

\* The gateway said no: the next one, or ReleaseReservation after the last.
NextGateway(d, g) ==
    /\ route' = [route EXCEPT ![d] = @ \ {g}]
    /\ Goto(d, IF route[d] = {g} THEN "release" ELSE "pay")
    /\ UNCHANGED current

\* Mutant: the loop over the gateways has no break.
PayoutWithoutBreak(d) ==
    LET e == current[d]
        g == First(route[d])
    IN
    /\ dpc[d] = "pay"
    /\ paid' = paid \cup (IF g \in Configured THEN {<<e, g>>} ELSE {})
    /\ route' = [route EXCEPT ![d] = @ \ {g}]
    /\ Goto(d, IF route[d] = {g} THEN "append" ELSE "pay")
    /\ UNCHANGED <<request, storeVars, lockVars, rounds, batch, todo, current, held, faults>>

\* adapter.Payout(e) of gateway g answers a: it has no credentials; it pays; it
\* refuses; it pays and the answer is lost; it does not pay, and a 2xx with a body
\* nobody can read counts as success.
PayoutCall(e, g, a) ==
    \/ g \notin Configured /\ a = "notConfigured" /\ UNCHANGED paid /\ NoFault
    \/ g \in Configured /\ a = "ok" /\ paid' = paid \cup {<<e, g>>} /\ NoFault
    \/ g \in Configured /\ a = "error" /\ UNCHANGED paid /\ NoFault
    \/ g \in Configured /\ a = "error" /\ paid' = paid \cup {<<e, g>>} /\ Fault
    \/ g \in Configured /\ a = "ok" /\ UNCHANGED paid /\ Fault

\* One turn of the loop over the gateways.  A gateway without credentials ends it
\* with no error and no payment.
Payout(d) ==
    LET g == First(route[d]) IN
    /\ dpc[d] = "pay"
    /\ \E a \in {"notConfigured", "ok", "error"} :
         /\ PayoutCall(current[d], g, a)
         /\ \/ a = "notConfigured" /\ NextEntry(d)
            \/ a = "ok" /\ Goto(d, "append") /\ UNCHANGED <<current, route>>
            \/ a = "error" /\ NextGateway(d, g)
    /\ UNCHANGED <<request, storeVars, lockVars, rounds, batch, todo, held>>

\* Mutant: the ledger entry is forgotten.
AppendNothing(d) ==
    /\ dpc[d] = "append"
    /\ NextEntry(d)
    /\ UNCHANGED <<request, storeVars, paid, lockVars, rounds, batch, todo, held, faults>>

\* AppendEntry of the vendor_payout.  Its error is dropped: a failed call, or the
\* CHECK (currency = 'GHS') of ledger_entries.
AppendEntry(d) ==
    LET e == current[d] IN
    /\ dpc[d] = "append"
    /\ NextEntry(d)
    /\ \/ e \in InGHS /\ ledger' = [ledger EXCEPT ![e] = @ + 1] /\ NoFault
       \/ e \notin InGHS /\ UNCHANGED ledger /\ NoFault
       \/ UNCHANGED ledger /\ Fault
    /\ UNCHANGED <<request, batches, reservations, paid, lockVars, rounds, batch, todo, held>>

\* Reservation rows and batches draw their ids from the same UUIDs.
ReservationId(e) == <<"reservation", e>>
BatchId(q) == <<"batch", q>>

\* Mutant: every entry that no gateway paid is booked too.
ReleaseAndBook(d) ==
    /\ dpc[d] = "release"
    /\ NextEntry(d)
    /\ ledger' = [ledger EXCEPT ![current[d]] = @ + 1]
    /\ UNCHANGED <<request, batches, reservations, paid, lockVars, rounds, batch, todo, held,
                   faults>>

\* Mutant: a status the table does not know.
ReleaseToFailed(d) ==
    /\ dpc[d] = "release"
    /\ NextEntry(d)
    /\ reservations' = [reservations EXCEPT ![current[d]] = "failed"]
    /\ UNCHANGED <<request, batches, ledger, paid, lockVars, rounds, batch, todo, held, faults>>

\* ReleaseReservation is called with the id of the batch: the UPDATE touches the
\* open reservation of that id, which there is none of, and the error is dropped.
ReleaseReservation(d) ==
    LET id == BatchId(batch[d]) IN
    /\ dpc[d] = "release"
    /\ NextEntry(d)
    /\ reservations' = [e \in Entries |->
         IF ReservationId(e) = id /\ reservations[e] = "open" THEN "released" ELSE reservations[e]]
    /\ UNCHANGED <<request, batches, ledger, paid, lockVars, rounds, batch, todo, held, faults>>

\* The deferred releases run when the batch is through, one DEL each; an error is
\* ignored.  SettleReservation is never called.
Unlock(d) ==
    /\ todo[d] = {} /\ dpc[d] \in {"entry", "unlock"}
    /\ \/ \E e \in held[d] :
            /\ held' = [held EXCEPT ![d] = @ \ {e}]
            /\ Goto(d, "unlock")
            /\ \/ locks' = locks \ {e} /\ NoFault
               \/ UNCHANGED locks /\ Fault
            /\ UNCHANGED batch
       \/ /\ held[d] = {}
          /\ Goto(d, "idle")
          /\ batch' = [batch EXCEPT ![d] = NoBatch]
          /\ NoFault
          /\ UNCHANGED <<held, locks>>
    /\ UNCHANGED <<request, storeVars, paid, overran, rounds, todo, current, route>>

\* The dispatching process stops; its keys stay until they expire.
Crash(d) ==
    /\ dpc[d] # "idle"
    /\ Goto(d, "idle")
    /\ batch' = [batch EXCEPT ![d] = NoBatch]
    /\ todo' = [todo EXCEPT ![d] = {}]
    /\ current' = [current EXCEPT ![d] = NoEntry]
    /\ route' = [route EXCEPT ![d] = {}]
    /\ held' = [held EXCEPT ![d] = {}]
    /\ Fault
    /\ UNCHANGED <<request, storeVars, paid, lockVars, rounds>>

\* The key's 30 seconds are over.  It is kept until the batch is through, so that
\* may happen long after its entry was done with.
LockExpires(e) ==
    /\ e \in locks
    /\ locks' = locks \ {e}
    /\ overran' = overran \cup (IF \E d \in Dispatchers : e \in held[d] THEN {e} ELSE {})
    /\ UNCHANGED <<request, storeVars, paid, rounds, dispatchVars, faults>>

-----------------------------------------------------------------------------
DispatchStep(d) ==
    \/ TryAcquire(d) \/ RouteEntry(d) \/ Payout(d) \/ AppendEntry(d)
    \/ ReleaseReservation(d) \/ Unlock(d)

Next ==
    \/ \E q \in Requests : Create(q)
    \/ \E d \in Dispatchers :
          \/ \E q \in Requests : Dispatch(d, q)
          \/ DispatchStep(d) \/ Crash(d)
    \/ \E e \in Entries : LockExpires(e)

Spec == Init /\ [][Next]_vars

-----------------------------------------------------------------------------
(* Properties. *)

Gateways(e) == {g \in Gateway : <<e, g>> \in paid}

\* Two dispatches have one entry in hand only after its key expired before its
\* dispatch gave it back: keys without an owner token, held to the end of the batch.
DispatchersExclusive ==
    \A e \in Entries \ overran : \A c, d \in Dispatchers :
        current[c] = e /\ current[d] = e => c = d

\* Every dispatch of a batch pays an entry through one gateway at the most, plus one
\* for every answer that was lost: no other path of Dispatch pays again.
PaymentsBounded ==
    \A e \in Entries : Cardinality(Gateways(e)) <= rounds[BatchOf[e]] + faults

\* The ledger shows a vendor payout only if a gateway paid, except once for every
\* answer that was misread.
BookedIsPaid ==
    Cardinality({e \in Entries : ledger[e] > 0 /\ Gateways(e) = {}}) <= faults

\* While no call goes wrong, a paid GHS entry is in the ledger as soon as no dispatch
\* has it in hand, however many dispatches race for it.
PaidIsBooked ==
    \A e \in InGHS :
        /\ faults = 0
        /\ Gateways(e) # {}
        /\ \A d \in Dispatchers : current[d] # e
        => ledger[e] > 0
=============================================================================
