----------------------------- MODULE Settlement -----------------------------
(***************************************************************************)
(* How a charge the gateway has accepted reaches the ledger.               *)
(*                                                                         *)
(* Three kinds of process work on the same PostgreSQL rows at once:        *)
(*   - the tail of charges.Initiate, which stores the intent and then its  *)
(*     outbox row in two separate statements;                              *)
(*   - the webhook handlers (webhooks.Process), one per HTTP request;      *)
(*   - the outbox workers (worker.DrainOutbox / processOne), guarded by a  *)
(*     Valkey key with a time to live and no owner token.                  *)
(* Every store, lock or gateway call is one atomic step, so everything     *)
(* else may happen between two calls of one process.  A call may fail, a   *)
(* process may crash; MaxFaults bounds how often.                          *)
(*                                                                         *)
(* A charge is named by its reference.  A charge has at most one outbox    *)
(* row (Initiate inserts it once), so the reference names the row too.     *)
(***************************************************************************)
EXTENDS Integers, FiniteSets

CONSTANTS
    Refs,           \* charge references (payment_intents.ref)
    Workers,        \* worker processes (cmd/worker replicas)
    Handlers,       \* webhook requests the API serves at the same time
    WebhookEvents,  \* aggregator event ids (webhook_inbox primary key)
    EventRef,       \* the charge each event id is about
    GatewayOf,      \* the gateway each charge was accepted by
    Configured,     \* gateways whose adapter has credentials
    ClaimLimit,     \* rows one drain claims (50 in the code)
    MaxFaults,      \* bound on failed calls and crashes in one behaviour
    NoRef, NoEvent

Gateway == {"hubtel", "paystack", "moolre"}
Status == {"pending", "succeeded", "failed"}

ASSUME RefsAssumption ==
    /\ IsFiniteSet(Refs) /\ NoRef \notin Refs
    /\ GatewayOf \in [Refs -> Gateway]
    /\ Configured \subseteq Gateway

ASSUME ProcessAssumption ==
    /\ IsFiniteSet(Workers)
    /\ NoEvent \notin WebhookEvents
    /\ EventRef \in [WebhookEvents -> Refs]

ASSUME BoundAssumption == ClaimLimit \in Nat \ {0} /\ MaxFaults \in Nat

VARIABLES
    truth,          \* the charge's outcome at the gateway
    initiate,       \* how far charges.Initiate has got with storing the charge
    intents,        \* payment_intents.status, "none" when there is no row
    events,         \* gateway_events.status (the outbox), "none" when there is no row
    createdAt,      \* gateway_events.created_at, as a position in the outbox
    inbox,          \* webhook_inbox: the event ids recorded
    webhookEntries, \* collection entries written by the handler of each event id
    workerEntries,  \* collection entries of each charge written by workers
    locks,          \* Valkey: the rows whose key outbox:<id> is set
    overran,        \* rows whose key expired while a worker was processing them
    wpc, claimed, current,       \* each worker: next call, rows left, row in hand
    hpc, handling,               \* each handler: next call, event in hand
    answered,       \* last HTTP answer the gateway got for each event id
    faults          \* failed calls and crashes so far

storeVars == <<intents, events, createdAt, inbox, webhookEntries, workerEntries>>
workerVars == <<wpc, claimed, current>>
handlerVars == <<hpc, handling, answered>>
lockVars == <<locks, overran>>
vars == <<truth, initiate, storeVars, lockVars, workerVars, handlerVars, faults>>

WorkerPC == {"idle", "drain", "intent", "verify", "succeed", "fail", "release"}
HandlerPC == {"idle", "find", "verify", "succeed", "fail", "dropAck", "dropRetry"}

TypeOK ==
    /\ truth \in [Refs -> Status]
    /\ initiate \in [Refs -> {"unsaved", "saved", "done"}]
    /\ intents \in [Refs -> Status \cup {"none"}]
    /\ events \in [Refs -> Status \cup {"none"}]
    /\ createdAt \in [Refs -> Nat]
    /\ inbox \subseteq WebhookEvents
    /\ webhookEntries \in [WebhookEvents -> Nat]
    /\ workerEntries \in [Refs -> Nat]
    /\ locks \subseteq Refs
    /\ overran \subseteq Refs
    /\ wpc \in [Workers -> WorkerPC]
    /\ claimed \in [Workers -> SUBSET Refs]
    /\ current \in [Workers -> Refs \cup {NoRef}]
    /\ hpc \in [Handlers -> HandlerPC]
    /\ handling \in [Handlers -> WebhookEvents \cup {NoEvent}]
    /\ answered \in [WebhookEvents -> {"none", "2xx", "5xx"}]
    /\ faults \in 0..MaxFaults

Init ==
    /\ truth = [r \in Refs |-> "pending"]
    /\ initiate = [r \in Refs |-> "unsaved"]
    /\ intents = [r \in Refs |-> "none"]
    /\ events = [r \in Refs |-> "none"]
    /\ createdAt = [r \in Refs |-> 0]
    /\ inbox = {}
    /\ webhookEntries = [e \in WebhookEvents |-> 0]
    /\ workerEntries = [r \in Refs |-> 0]
    /\ locks = {}
    /\ overran = {}
    /\ wpc = [w \in Workers |-> "idle"]
    /\ claimed = [w \in Workers |-> {}]
    /\ current = [w \in Workers |-> NoRef]
    /\ hpc = [h \in Handlers |-> "idle"]
    /\ handling = [h \in Handlers |-> NoEvent]
    /\ answered = [e \in WebhookEvents |-> "none"]
    /\ faults = 0

Fault == faults < MaxFaults /\ faults' = faults + 1
NoFault == UNCHANGED faults

-----------------------------------------------------------------------------
(* The gateway. *)

\* The payer approves or declines: the gateway's own record becomes final.
GatewaySettles(r) ==
    /\ truth[r] = "pending"
    /\ GatewayOf[r] \in Configured
    /\ \E s \in {"succeeded", "failed"} : truth' = [truth EXCEPT ![r] = s]
    /\ UNCHANGED <<initiate, storeVars, lockVars, workerVars, handlerVars, faults>>

\* What Verify may say instead of the truth when the call goes wrong.  A 2xx
\* body that does not parse (and Hubtel's 404) reads as pending; Paystack's and
\* Moolre's "request not ok" envelope reads as failed.
Glitches(g) ==
    {"error", "pending"} \cup (IF g \in {"paystack", "moolre"} THEN {"failed"} ELSE {})

\* adapter.Verify(ref) answers a: the truth, an error always when the adapter
\* has no credentials, a glitch when the call goes wrong.
Verify(r, a) ==
    \/ GatewayOf[r] \notin Configured /\ a = "error" /\ NoFault
    \/ GatewayOf[r] \in Configured /\ a = truth[r] /\ NoFault
    \/ GatewayOf[r] \in Configured /\ a \in Glitches(GatewayOf[r]) /\ Fault

VerifyAnswer == Status \cup {"error"}

\* Only Paystack's Verify reports an amount.  The zero Money of the others has
\* no currency, which the CHECK (currency = 'GHS') of ledger_entries rejects.
AmountReported(r) == GatewayOf[r] = "paystack"

-----------------------------------------------------------------------------
(* charges.Initiate, after the gateway call. *)

\* CreateIntent.  On an error Initiate returns and writes no outbox row, also when
\* the intent was stored and only the reply was lost.
CreateIntent(r) ==
    /\ initiate[r] = "unsaved"
    /\ \/ /\ intents' = [intents EXCEPT ![r] = "pending"]
          /\ initiate' = [initiate EXCEPT ![r] = "saved"]
          /\ NoFault
       \/ /\ intents' \in {intents, [intents EXCEPT ![r] = "pending"]}
          /\ initiate' = [initiate EXCEPT ![r] = "done"]
          /\ Fault
    /\ UNCHANGED <<truth, events, createdAt, inbox, webhookEntries, workerEntries,
                   lockVars, workerVars, handlerVars>>

\* InsertOutboxEvent.  An error is only logged: the intent stays without a row.
InsertOutboxEvent(r) ==
    /\ initiate[r] = "saved"
    /\ initiate' = [initiate EXCEPT ![r] = "done"]
    /\ \/ /\ events' = [events EXCEPT ![r] = "pending"]
          /\ createdAt' = [createdAt EXCEPT
                             ![r] = Cardinality({q \in Refs : events[q] # "none"}) + 1]
          /\ NoFault
       \/ Fault /\ UNCHANGED <<events, createdAt>>
    /\ UNCHANGED <<truth, intents, inbox, webhookEntries, workerEntries,
                   lockVars, workerVars, handlerVars>>

-----------------------------------------------------------------------------
(* The webhook handlers: api.handleWebhook around webhooks.Process, for a   *)
(* request whose signature and payload are good (anything else is answered  *)
(* before the store is touched).                                            *)

\* The handler's request is answered and the handler is free again.
Answer(h, code) ==
    /\ answered' = [answered EXCEPT ![handling[h]] = code]
    /\ handling' = [handling EXCEPT ![h] = NoEvent]
    /\ hpc' = [hpc EXCEPT ![h] = "idle"]

HandlerGoto(h, pc) ==
    /\ hpc' = [hpc EXCEPT ![h] = pc]
    /\ UNCHANGED <<handling, answered>>

\* Mutant: an insert without ON CONFLICT DO NOTHING's row count.
ReceiveWebhookNoDedup(h, e) ==
    /\ hpc[h] = "idle"
    /\ inbox' = inbox \cup {e}
    /\ hpc' = [hpc EXCEPT ![h] = "find"]
    /\ handling' = [handling EXCEPT ![h] = e]
    /\ UNCHANGED <<truth, initiate, intents, events, createdAt, webhookEntries,
                   workerEntries, lockVars, workerVars, answered, faults>>

\* Delivery or redelivery of event e, up to InsertWebhookInbox: a recorded event
\* is answered as a duplicate, a failed insert with 5xx (the row may be there all
\* the same), a fresh one goes on.
ReceiveWebhook(h, e) ==
    /\ hpc[h] = "idle"
    /\ \/ /\ e \notin inbox
          /\ inbox' = inbox \cup {e}
          /\ hpc' = [hpc EXCEPT ![h] = "find"]
          /\ handling' = [handling EXCEPT ![h] = e]
          /\ NoFault
          /\ UNCHANGED answered
       \/ /\ e \in inbox
          /\ answered' = [answered EXCEPT ![e] = "2xx"]
          /\ NoFault
          /\ UNCHANGED <<inbox, hpc, handling>>
       \/ /\ answered' = [answered EXCEPT ![e] = "5xx"]
          /\ inbox' \in {inbox, inbox \cup {e}}
          /\ Fault
          /\ UNCHANGED <<hpc, handling>>
    /\ UNCHANGED <<truth, initiate, intents, events, createdAt, webhookEntries,
                   workerEntries, lockVars, workerVars>>

\* FindIntent.  No row and a failed query are treated alike: the dedup row is
\* dropped and the delivery acknowledged as unknown.  A terminal intent ends
\* the request and keeps the dedup row.
HandlerFindIntent(h) ==
    LET status == intents[EventRef[handling[h]]] IN
    /\ hpc[h] = "find"
    /\ \/ status = "none" /\ HandlerGoto(h, "dropAck") /\ NoFault
       \/ HandlerGoto(h, "dropAck") /\ Fault
       \/ status = "pending" /\ HandlerGoto(h, "verify") /\ NoFault
       \/ status \in {"succeeded", "failed"} /\ Answer(h, "2xx") /\ NoFault
    /\ UNCHANGED <<truth, initiate, storeVars, lockVars, workerVars>>

\* Mutant: the payload's word is taken for the gateway's.
HandlerVerifyTrustsPayload(h) ==
    /\ hpc[h] = "verify"
    /\ \E pc \in {"succeed", "fail"} : HandlerGoto(h, pc)
    /\ UNCHANGED <<truth, initiate, storeVars, lockVars, workerVars, faults>>

\* Verify against the gateway.  An error drops the dedup row so that a retry
\* can process the event again; "pending" is acknowledged and keeps it.
HandlerVerify(h) ==
    /\ hpc[h] = "verify"
    /\ \E a \in VerifyAnswer :
         /\ Verify(EventRef[handling[h]], a)
         /\ \/ a = "error" /\ HandlerGoto(h, "dropRetry")
            \/ a = "pending" /\ Answer(h, "2xx")
            \/ a = "succeeded" /\ HandlerGoto(h, "succeed")
            \/ a = "failed" /\ HandlerGoto(h, "fail")
    /\ UNCHANGED <<truth, initiate, storeVars, lockVars, workerVars>>

\* DeleteWebhookInbox, whose own error is ignored, then the answer.
HandlerDropInbox(h) ==
    /\ hpc[h] \in {"dropAck", "dropRetry"}
    /\ \/ inbox' = inbox \ {handling[h]} /\ NoFault
       \/ UNCHANGED inbox /\ Fault
    /\ Answer(h, IF hpc[h] = "dropAck" THEN "2xx" ELSE "5xx")
    /\ UNCHANGED <<truth, initiate, intents, events, createdAt, webhookEntries,
                   workerEntries, lockVars, workerVars>>

\* Mutant: the status update is left out of the transaction.
ApplyEntriesOnly(e, status) ==
    /\ UNCHANGED intents
    /\ webhookEntries' = IF status = "succeeded"
                           THEN [webhookEntries EXCEPT ![e] = @ + 1]
                           ELSE webhookEntries

\* ApplyChargeOutcome's transaction: the status is set whatever it was, and a
\* success appends one collection entry.
ApplyChargeOutcome(e, status) ==
    /\ intents' = [intents EXCEPT ![EventRef[e]] = status]
    /\ webhookEntries' = IF status = "succeeded"
                           THEN [webhookEntries EXCEPT ![e] = @ + 1]
                           ELSE webhookEntries

\* Can the transaction's rows satisfy the table constraints?
OutcomeAccepted(r, status) == status = "succeeded" => AmountReported(r)

\* Process applies the outcome.  The transaction commits, or is rejected by a
\* constraint, or fails, or commits and the reply is lost; on every error the
\* answer is 5xx and the dedup row stays.
HandlerApply(h) ==
    LET e == handling[h]
        status == IF hpc[h] = "succeed" THEN "succeeded" ELSE "failed"
        ok == OutcomeAccepted(EventRef[e], status)
    IN
    /\ hpc[h] \in {"succeed", "fail"}
    /\ \/ ok /\ ApplyChargeOutcome(e, status) /\ Answer(h, "2xx") /\ NoFault
       \/ ok /\ ApplyChargeOutcome(e, status) /\ Answer(h, "5xx") /\ Fault
       \/ ok /\ UNCHANGED <<intents, webhookEntries>> /\ Answer(h, "5xx") /\ Fault
       \/ ~ok /\ UNCHANGED <<intents, webhookEntries>> /\ Answer(h, "5xx") /\ NoFault
    /\ UNCHANGED <<truth, initiate, events, createdAt, inbox, workerEntries,
                   lockVars, workerVars>>

\* The API process stops, or the request's context is cancelled.
HandlerCrash(h) ==
    /\ hpc[h] # "idle"
    /\ Answer(h, "5xx")
    /\ Fault
    /\ UNCHANGED <<truth, initiate, storeVars, lockVars, workerVars>>

-----------------------------------------------------------------------------
(* The outbox workers. *)

\* Mutant: ORDER BY created_at DESC.
Newest(S, n) ==
    {r \in S : Cardinality({q \in S : createdAt[q] > createdAt[r]}) < n}

\* The n oldest rows of S, by created_at.
Oldest(S, n) ==
    {r \in S : Cardinality({q \in S : createdAt[q] < createdAt[r]}) < n}

\* Mutant: the query forgets WHERE status = 'pending'.
ClaimAnyStatus(w) ==
    LET rows == {r \in Refs : events[r] # "none"} IN
    /\ wpc[w] = "idle"
    /\ rows # {}
    /\ claimed' = [claimed EXCEPT ![w] = Oldest(rows, ClaimLimit)]
    /\ wpc' = [wpc EXCEPT ![w] = "drain"]
    /\ UNCHANGED <<truth, initiate, storeVars, lockVars, current, handlerVars, faults>>

\* ClaimPending.  FOR UPDATE SKIP LOCKED runs outside a transaction, so the row
\* locks are gone when the query returns: what is left is a snapshot.
ClaimPending(w) ==
    LET pending == {r \in Refs : events[r] = "pending"} IN
    /\ wpc[w] = "idle"
    /\ pending # {}
    /\ claimed' = [claimed EXCEPT ![w] = Oldest(pending, ClaimLimit)]
    /\ wpc' = [wpc EXCEPT ![w] = "drain"]
    /\ UNCHANGED <<truth, initiate, storeVars, lockVars, current, handlerVars, faults>>

WorkerGoto(w, pc) ==
    /\ wpc' = [wpc EXCEPT ![w] = pc]
    /\ UNCHANGED <<claimed, current>>

\* The drain goes on with the rows in rest, or ends.
DrainRest(w, rest) ==
    /\ claimed' = [claimed EXCEPT ![w] = rest]
    /\ current' = [current EXCEPT ![w] = NoRef]
    /\ wpc' = [wpc EXCEPT ![w] = IF rest = {} THEN "idle" ELSE "drain"]

\* Mutant: SET without NX.
TryAcquireWithoutNX(w) ==
    /\ wpc[w] = "drain"
    /\ \E r \in claimed[w] :
         /\ locks' = locks \cup {r}
         /\ claimed' = [claimed EXCEPT ![w] = @ \ {r}]
         /\ current' = [current EXCEPT ![w] = r]
    /\ wpc' = [wpc EXCEPT ![w] = "intent"]
    /\ UNCHANGED <<truth, initiate, storeVars, overran, handlerVars, faults>>

\* TryAcquire (SET key 1 NX PX 60000) for the oldest row left: taken, held by
\* someone else, or failed (the key may be set all the same); the last two skip
\* the row until the next drain.
TryAcquire(w) ==
    /\ wpc[w] = "drain"
    /\ \E r \in claimed[w] :
         /\ \A q \in claimed[w] : createdAt[r] <= createdAt[q]
         /\ \/ /\ r \notin locks
               /\ locks' = locks \cup {r}
               /\ claimed' = [claimed EXCEPT ![w] = @ \ {r}]
               /\ current' = [current EXCEPT ![w] = r]
               /\ wpc' = [wpc EXCEPT ![w] = "intent"]
               /\ NoFault
            \/ /\ r \in locks
               /\ DrainRest(w, claimed[w] \ {r})
               /\ NoFault
               /\ UNCHANGED locks
            \/ /\ DrainRest(w, claimed[w] \ {r})
               /\ locks' \in {locks, locks \cup {r}}
               /\ Fault
    /\ UNCHANGED <<truth, initiate, storeVars, overran, handlerVars>>

\* GetIntent.  Any error is taken for a missing intent and leads to
\* CompleteFailed; a terminal intent is copied onto the outbox row.
WorkerGetIntent(w) ==
    /\ wpc[w] = "intent"
    /\ \/ /\ NoFault
          /\ WorkerGoto(w, CASE intents[current[w]] = "succeeded" -> "succeed"
                             [] intents[current[w]] = "pending" -> "verify"
                             [] OTHER -> "fail")
       \/ Fault /\ WorkerGoto(w, "fail")
    /\ UNCHANGED <<truth, initiate, storeVars, lockVars, handlerVars>>

\* Mutant: a charge that is still pending is given up.
WorkerVerifyGivesUp(w) ==
    /\ wpc[w] = "verify"
    /\ \E a \in VerifyAnswer :
         /\ Verify(current[w], a)
         /\ WorkerGoto(w, CASE a = "succeeded" -> "succeed"
                            [] a = "error" -> "release"
                            [] OTHER -> "fail")
    /\ UNCHANGED <<truth, initiate, storeVars, lockVars, handlerVars>>

\* Verify.  An error and "pending" leave the row for the next drain
\* (shouldTryInitiate is constantly false, MarkPendingRetry changes no status).
WorkerVerify(w) ==
    /\ wpc[w] = "verify"
    /\ \E a \in VerifyAnswer :
         /\ Verify(current[w], a)
         /\ WorkerGoto(w, CASE a = "succeeded" -> "succeed"
                            [] a = "failed" -> "fail"
                            [] OTHER -> "release")
    /\ UNCHANGED <<truth, initiate, storeVars, lockVars, handlerVars>>

\* Mutant: the ledger entry is left out of the transaction.
CompleteWithoutEntry(r) ==
    /\ events' = [events EXCEPT ![r] = "succeeded"]
    /\ intents' = [intents EXCEPT ![r] = "succeeded"]
    /\ UNCHANGED workerEntries

\* The transaction of CompleteSucceeded: the outbox row, the intent and a new
\* collection entry, whatever the row and the intent said before.
CompleteSucceeded(r) ==
    /\ events' = [events EXCEPT ![r] = "succeeded"]
    /\ intents' = [intents EXCEPT ![r] = "succeeded"]
    /\ workerEntries' = [workerEntries EXCEPT ![r] = @ + 1]

\* Mutant: only the outbox row is closed.
CompleteRowOnly(r) ==
    /\ events' = [events EXCEPT ![r] = "failed"]
    /\ UNCHANGED <<intents, workerEntries>>

\* Mutant: a status the schema does not know.
CompleteWithError(r) ==
    /\ events' = [events EXCEPT ![r] = "error"]
    /\ intents' = [intents EXCEPT ![r] = "failed"]
    /\ UNCHANGED workerEntries

\* The transaction of CompleteFailed.
CompleteFailed(r) ==
    /\ events' = [events EXCEPT ![r] = "failed"]
    /\ intents' = [intents EXCEPT ![r] = "failed"]
    /\ UNCHANGED workerEntries

\* processOne records the outcome; a failed transaction changes nothing.
WorkerComplete(w) ==
    /\ wpc[w] \in {"succeed", "fail"}
    /\ WorkerGoto(w, "release")
    /\ \/ wpc[w] = "succeed" /\ CompleteSucceeded(current[w]) /\ NoFault
       \/ wpc[w] = "fail" /\ CompleteFailed(current[w]) /\ NoFault
       \/ UNCHANGED <<events, intents, workerEntries>> /\ Fault
    /\ UNCHANGED <<truth, initiate, createdAt, inbox, webhookEntries, lockVars, handlerVars>>

\* The deferred Release: DEL of the key, whoever set it; its error is ignored.
Release(w) ==
    /\ wpc[w] = "release"
    /\ DrainRest(w, claimed[w])
    /\ \/ locks' = locks \ {current[w]} /\ NoFault
       \/ UNCHANGED locks /\ Fault
    /\ UNCHANGED <<truth, initiate, storeVars, overran, handlerVars>>

\* The worker process stops and is started again; its key is left behind.
WorkerCrash(w) ==
    /\ wpc[w] # "idle"
    /\ DrainRest(w, {})
    /\ Fault
    /\ UNCHANGED <<truth, initiate, storeVars, lockVars, handlerVars>>

\* The key's 60 seconds are over, whether or not its owner is.
LockExpires(r) ==
    /\ r \in locks
    /\ locks' = locks \ {r}
    /\ overran' = overran \cup (IF \E w \in Workers : current[w] = r THEN {r} ELSE {})
    /\ UNCHANGED <<truth, initiate, storeVars, workerVars, handlerVars, faults>>

-----------------------------------------------------------------------------
InitiateStep == \E r \in Refs : CreateIntent(r) \/ InsertOutboxEvent(r)

HandlerStep(h) ==
    \/ HandlerFindIntent(h) \/ HandlerVerify(h)
    \/ HandlerDropInbox(h) \/ HandlerApply(h)

WorkerStep(w) ==
    \/ ClaimPending(w) \/ TryAcquire(w) \/ WorkerGetIntent(w)
    \/ WorkerVerify(w) \/ WorkerComplete(w) \/ Release(w)

Next ==
    \/ InitiateStep
    \/ \E r \in Refs : GatewaySettles(r) \/ LockExpires(r)
    \/ \E h \in Handlers :
          \/ \E e \in WebhookEvents : ReceiveWebhook(h, e)
          \/ HandlerStep(h) \/ HandlerCrash(h)
    \/ \E w \in Workers : WorkerStep(w) \/ WorkerCrash(w)

Spec == Init /\ [][Next]_vars

\* The worker's ticker fires for ever, every call of processOne returns (the job
\* context has a deadline) and Valkey expires keys.  Nothing is assumed of the
\* gateway, of redelivery or of the API.
Fairness ==
    /\ \A w \in Workers : WF_vars(WorkerStep(w))
    /\ \A r \in Refs : WF_vars(LockExpires(r))

FairSpec == Spec /\ Fairness

-----------------------------------------------------------------------------
(* Properties. *)

Terminal == {"succeeded", "failed"}

\* A collection entry of charge r is in the ledger.
Booked(r) ==
    \/ workerEntries[r] > 0
    \/ \E e \in WebhookEvents : EventRef[e] = r /\ webhookEntries[e] > 0

\* No collection is booked for money the gateway did not collect, however stale
\* the status a handler or a worker acts on (Process, processOne).
LedgerBacked == \A r \in Refs : Booked(r) => truth[r] = "succeeded"

\* A charge shown as succeeded, by its intent or by its outbox row, has its
\* collection in the ledger: ApplyChargeOutcome and CompleteSucceeded commit both
\* or neither, and the worker's copy of a terminal status adds no bare success.
SucceededIsBooked ==
    \A r \in Refs : "succeeded" \in {intents[r], events[r]} => Booked(r)

\* webhooks.Process is idempotent per event id: redeliveries, concurrent
\* deliveries, crashes and dropped dedup rows together book an event once.
OneEntryPerWebhookEvent == \A e \in WebhookEvents : webhookEntries[e] <= 1

\* The outbox books a charge once per worker at the most: claims are snapshots,
\* so every worker holding one when the row is completed may book it again, but
\* a completed row is never claimed again.
WorkerEntriesBounded ==
    \A r \in Refs : workerEntries[r] <= Cardinality(Workers)

\* Two workers process one outbox row together only after the row's key expired
\* under one of them (TryAcquire, Release without an owner token, crash).
WorkersExclusive ==
    \A r \in Refs \ overran : \A v, w \in Workers :
        current[v] = r /\ current[w] = r => v = w

\* A row that left the outbox is never polled again, so its charge must be
\* settled: no worker and no handler puts such an intent back to pending.
ClosedRowMeansSettledIntent ==
    \A r \in Refs : events[r] \in Terminal => intents[r] \in Terminal

\* Every charge shown with a final status other than the gateway's costs a call that
\* went wrong: an error of GetIntent taken for a missing intent, an envelope read as
\* failed.  No status that was read before another process settled the charge, and no
\* terminal status copied from the intent, makes a second charge wrong.
ShownIsTrue ==
    Cardinality({r \in Refs : intents[r] \in Terminal /\ intents[r] # truth[r]}) <= faults

\* Settlement, seen through the gateway's outcomes, the intents' statuses and the
\* set of booked charges, is a CollectionBook: every transaction of Process and
\* processOne is one of its steps, every other step is invisible to it.
Book == INSTANCE CollectionBook WITH
            outcome <- truth, shown <- intents, booked <- {r \in Refs : Booked(r)}

ImplementsBook == Book!Spec

\* The older rows of the outbox whose charges the gateway has not decided: the worker
\* leaves them pending and ClaimPending puts them in front of r in every drain.
Ahead(r) ==
    {q \in Refs : events[q] = "pending" /\ truth[q] = "pending" /\ createdAt[q] < createdAt[r]}

\* Once the gateway has an outcome, a charge waiting in the outbox leaves it, unless
\* it is starved: ClaimLimit older rows are undecided at the gateway (for good, when
\* its credentials are gone) and fill the batch of every drain.  Rows that failed,
\* were skipped or are decided later, keys left behind and crashes hold up nobody.
OutboxSettles ==
    \A r \in Refs :
        (events[r] = "pending" /\ truth[r] # "pending")
            ~> (events[r] \in Terminal \/ Cardinality(Ahead(r)) >= ClaimLimit)
=============================================================================
