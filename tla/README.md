# Formal models of Orcta Pay

TLA+ models of the payment service in `internal/`, of its two binaries and of the Go
client, model-checked with TLC and proved with TLAPS. All paths below are relative to the
repository root.

## 1. The system

Orcta Pay stands between products and three payment aggregators (Hubtel, Paystack,
Moolre). Two binaries share one PostgreSQL database and one Valkey instance:
`cmd/api` serves HTTP, `cmd/worker` runs a 10 s ticker.

| Component | State | Operations | Interacts with |
|---|---|---|---|
| charges (`internal/charges`) | `payment_intents`, `gateway_events` | `Initiate`, `Status` | router, store |
| router (`internal/gateway/router.go`) | none | `Route`, `InitiateWithFallback`, `RecordResult` | adapters, health |
| health (`internal/storage/valkey/gateway_health.go`) | per-gateway counters, circuit key with TTL, latency samples | `IsCircuitOpen`, `RecordResult`, `SuccessRate`, `P95Latency` | Valkey |
| adapters (`hubtel.go`, `paystack.go`, `moolre.go`) | none (HTTP) | `Initiate`, `Verify`, `Payout`, `Refund` | aggregators |
| webhooks (`internal/webhooks`, `internal/api/webhooks.go`) | `webhook_inbox`, `payment_intents`, `ledger_entries` | `Process` | store, adapters |
| worker (`internal/worker`) | `gateway_events`, `payment_intents`, `ledger_entries`, Valkey row locks | `DrainOutbox`, `Reconcile` (reads only) | store, adapters, locker |
| locker (`internal/storage/valkey/locks.go`) | Valkey keys with TTL, no owner token | `TryAcquire`, `Release` | Valkey |
| payouts (`internal/payouts`) | `payout_batches`, `payout_reservations`, `ledger_entries`, Valkey locks | `Create`, `Dispatch` | store, router, locker |
| ledger (`internal/ledger`) | `ledger_entries` | `RecordCollection`, `ConfirmSettlement` | store |
| apps (`internal/apps`) | `apps` (key hashes, revocation) | `CreateApp`, `RotateKey`, `RevokeApp` | store |
| front door (`internal/api/ratelimit.go`, `auth.go`, `router.go`) | fixed-window counters in Valkey or in memory, session cookies | `Allow`, `bearerAuth`, `handleLogin` | Valkey |
| webhook gate (`internal/webhooks/signature.go`, `payload.go`) | none | `VerifyStandardWebhook`, the gateways' own headers, `parsePayload` | webhooks |
| configuration and wiring (`internal/config`, `internal/platform`, `cmd`) | the settings, the pool, the Valkey client | `Load`, `Validate`, `Build`, `run`, `App.Close` | all |
| memory store (`internal/storage/postgres/store.go`) | the tables as maps | the store's methods | charges, webhooks, ledger |
| references, money | none | `BuildReference`, `ParseReference`, `Money.Add` | everything |
| Go client (`clients/go/orctapay`) | none | `CreateCharge` and single requests | the HTTP API |

What is hard in it:

* **Two writers for every charge.** A webhook handler and a worker settle the same
  intent, each after asking the gateway, with nothing but unconditional UPDATEs.
* **Locks that are hints.** `ClaimPending` runs `FOR UPDATE SKIP LOCKED` outside a
  transaction, Valkey keys expire under their owner and are deleted by whoever comes
  last.
* **Dedup that is committed before the work.** The inbox row is inserted first and
  three error paths delete it; a fourth does not.
* **The gateway call comes before the row.** Idempotency is a lookup before and a
  unique constraint after the call.
* **Fallback after silence.** A gateway that accepted and did not answer is followed
  by the next one, for charges and for payouts.
* **Dropped errors.** A dozen calls whose error is ignored or only logged.
* **Three vocabularies.** Each aggregator says yes, no and perhaps in its own codes; what
  an adapter makes of a reply decides whether money is asked for again.
* **Round trips that look like one.** INCR and EXPIRE, the commands of a pipeline, a key
  looked up and a key stored: time and other clients come between them.
* **Silent substitutes.** Outside production a missing database becomes a map and a
  missing Valkey a counter per process.

## 2. The models

Rules common to all modules: every store, Valkey or gateway call of a process is one
atomic action, so anything may happen between two calls; each of these calls can also
fail or lose its reply, and each process can crash. `Fault` counts these events and
`MaxFaults` bounds them, a bound on the behaviours explored, not on the code.
Transactions (`WithTx`) are one action. Names of the code are kept.

| Module | Models |
|---|---|
| `Settlement` | tail of `charges.Initiate`; `webhooks.Process` under `handleWebhook`; `worker.DrainOutbox`/`processOne`; locker; the store methods they call |
| `CollectionBook` | abstract specification: what settlement promises a product |
| `GatewayRouter` | `ChargerRouter.Route` and the order of its result |
| `Charging` | `charges.Initiate`, `InitiateWithFallback`, the circuit breaker, `CreateIntent` and its constraints |
| `Payouts` | `payouts.Create`, `payouts.Dispatch`, reservations, the payout ledger entries |
| `ProductClient` | `CreateCharge` of the Go client over a connection that breaks; extends `Charging` |
| `Adapters` | the four operations of the three adapters as functions of the reply; references; the status, callback and refund endpoints |
| `GatewayHealth` | the success-rate window and the latency samples, their recorders and readers |
| `FrontDoor` | the limiter by address, `bearerAuth` and sessions, the limiter by credential |
| `Startup` | `Load`, `Validate`, `Build`, serving, shutdown; the webhook gate and its inbox identity |
| `Stores` | `PostgresStore` and `MemoryStore` in lockstep; the ledger service |
| `Money` | `Add` in a fixed width and the total of a batch |
| `Apps` | apps and keys under concurrent calls |
| `SettlementProofs`, `PayoutsProofs`, `AdaptersProofs`, `FrontDoorProofs`, `HealthProofs` | theorems about the module they extend |
| `ClientProofs` | theorems about `Charging`, and about `ProductClient` on top of it |
| `DeploymentProofs` | theorems about `Startup`, `Stores`, `Apps` and `Money` |
| `GatewayRouterProofs` | lemmas on rankings |
| `MCSettlement`, `MCCharging`, `MCPayouts`, `MCAdapters`, `MCClient`, `MCFrontDoor`, `MCHealth`, `MCDeployment` | constants for TLC, and sentences of docs, comments and tests stated as formulas. `MCDeployment` checks `Startup`, `Stores`, `Money` and `Apps`, which share no state, one per behaviour |

Operators introduced by a comment that starts with *Mutant* are not part of the
models. Each is one definition with a plausible mistake in it; putting it in the
place of the original makes TLC report the property that guards against the mistake.

### Settlement

State: `intents`, `events` (the outbox; one row per charge, so the reference names it),
`createdAt`, `inbox`, and the ledger as two counters, `webhookEntries` per event id and
`workerEntries` per charge, so that who booked is visible. `truth` is the aggregator's
own record and is external. `wpc`/`claimed`/`current` and `hpc`/`handling` are the
program counters and locals of workers and handlers. `overran` and `answered` are
history: rows whose key expired under a worker, and the last HTTP answer per event.

| Code | Actions |
|---|---|
| `charges/service.go` 144-151 | `CreateIntent`, `InsertOutboxEvent` |
| `webhooks.go` 69-131 | `ReceiveWebhook`, `HandlerFindIntent`, `HandlerVerify`, `HandlerDropInbox`, `HandlerApply`; `HandlerCrash` |
| `worker.go` 78-177 | `ClaimPending`, `TryAcquire`, `WorkerGetIntent`, `WorkerVerify`, `WorkerComplete`, `Release`; `WorkerCrash` |
| key TTL | `LockExpires` |

Details of the code that decide properties and are therefore kept: only Paystack's
`Verify` reports an amount, and the zero `Money` of the others has an empty currency
that `ledger_entries` rejects (`OutcomeAccepted`), while `CompleteSucceeded` falls back
to the intent's amount; a body `Verify` cannot parse reads as `pending`, and a refused
envelope of Paystack or Moolre as `failed` (`Glitches`); `GetIntent`'s error and a
missing row are one case; `MarkPendingRetry` changes no status and `shouldTryInitiate`
is constantly false, so both disappear. `Reconcile` writes nothing and is left out.

### CollectionBook

`Decide`, `Open`, `Book`, `Reject`: a charge is booked only when the gateway collected
it and in the step in which it is shown as succeeded, and is never unbooked; it may be
shown as failed at any time, which is as much as the code guarantees. The refinement maps
`outcome` to `truth`, `shown` to `intents` and `booked` to the charges with an entry.

### Charging

State: one program counter and the locals of `Initiate` per request, the intents and
outbox rows, `accepted` (what gateways have started to collect, external), and the
breaker in Valkey: `fails`, `open`. `cooled` is history. A reference is the pair of the
request's ULID and a gateway. `Route` reads the circuits in one step; a circuit that
cannot be read counts as open. An adapter answers a 2xx whose body it cannot read as
`pending` (`hubtel.go` 166-168, `paystack.go` 169-171, `moolre.go` 233-235); `CallGateway`
has it, as a fault, with and without the gateway's having accepted. Counters `s` and `t` and
the latency samples influence no decision of a charge; they are in `GatewayHealth`.

### Payouts

An entry stands for its reference and its reservation. Nothing in the repository calls
`Dispatch`, so the model lets any stored batch be dispatched, repeatedly and
concurrently (`MaxRounds` per batch). Gateways are assumed to pay one reference once,
the most favourable reading. The ranking may lose any circuits, since those are moved
by charges. `ReleaseReservation` is applied to the id `Dispatch` passes, the batch's,
which no reservation has; `SettleReservation` is never called. Hence reservations
stay open for ever, against the comment on `payouts/service.go` 189-191.

### ProductClient

`Charging` with a client in front: an attempt is a request, `call` and `told` are what the
client does and knows. `Send` enters `handleCreateCharge`, `SendRefused` ends before it
(limiter, `bearerAuth`, proxy), `Receive` delivers the answer, `CutOff` and `ProxyGivesUp`
end the connection while the server goes on, `Unanswered` follows a crash. `Written` is what the
handler writes, `Result` what `doJSONBytes` and the switch of `createCharge` make of it: a 502 is a
failed charge only with the code `unavailable`. The product tries an order again when all
its attempts have ended without a charge; `overlaps` counts attempts sent while the server was
still busy with an earlier one.

### Adapters

A reply is its HTTP class, whether the body can be read, and the codes the adapters look
at. `HubtelInitiate` ... `MoolrePayout` are one function per adapter and operation; `Read`
dispatches. Calls are concurrent: `Send` (reference parsed, adapter found, answers that need
no request), `CreateRecipient`, `Handle` (external: the gateway acts, refuses or
reports), `Receive`, `Lose` (the 10 s are over; the request may still be on its way and
arrive in `HandleLate`), `Garble` (a proxy's 5xx, a body that is not JSON, a status call turned
away). A reference is the sequence of its dash-separated segments, so products with dashes,
also ones that contain the name of a gateway, are among the instances.

### GatewayHealth

`RecordResult` puts the commands of its pipeline into a queue and `Run` executes them one by
one, between those of others and between ticks of the clock, since a pipeline is no
transaction; `RecordLatency` does the same with ZADD and EXPIRE (`ExpireSamples`), and
`CutPipeline` loses what is left of either. The samples carry their age. `P95Latency` reads the
sorted set and computes over the samples inside the window, and a later round trip, `Remove`,
deletes those it found to be older; both can fail. What `/v1/gateways/health` makes of these
numbers (eligibility, ranks) is computed for the answer and kept nowhere; it is left out.

### FrontDoor

One slot per request in progress. `Arrive`, `Authenticate`, and per limiter `Incr`, `Expire`,
`Ttl`, each a round trip, or `Fallback` to the process's own counter when INCR fails. Time is
a countdown (`Tick`), `Outage`, `Recovery` and `Crash` are the faults. `passed` is history:
what a window let through.

### Startup

`Load` takes one of the settings and refuses or accepts it; `OpenPool` and `OpenValkey` are
Build's two connections, with memory in their place outside production; `Begin` and `End`
requests or jobs; `Signal`, `StopListening` (the API accepts for another 100 ms after the signal), `Shutdown`, `ShutdownTimesOut`, `ServeFails`, `Restart` the ways
out. `HandleWebhook` is the signature gate and the inbox of the store Build has chosen; what
follows is in `Settlement`. The keys of the inbox are event ids alone: Paystack's carry the
event type, those of Hubtel and Moolre neither type nor gateway.

### Stores, Money, Apps

`Stores` applies every call to both stores and compares them; the comparison ends with the
first call that a constraint refuses, since the maps have no constraints, or that stores or
looks up a key which reads like another one in use once product and key are joined
(`strained`). `said` is what the two stores answered to the last call, for
`FindByIdempotencyKey` the charge found. What differs without strain is `GetIntent`'s amount: memory does not keep it and a success
without a reported amount is booked with 1800 pesewas. `Money` is checked in a width of
four bits. `Apps` splits `RotateKey` into its read and its write, and `RevokeApp` into its UPDATE and the
EXISTS after it (`RevokeChecks`), whose error is dropped.

## 3. Runs

Passing runs:

| Run | Instance | Distinct states | Shows |
|---|---|---|---|
| `one_charge` | 1 Paystack charge, 2 event ids, 2 workers, 2 handlers, 2 faults | 264,723 (symmetry on workers and on handlers) | the seven invariants below |
| `two_charges` | Paystack and Hubtel charge, 1 event each, 1 worker claiming 1 row at a time, 1 handler, 1 fault, fair | 450,248 | `ShownIsTrue`, `ImplementsBook`, `OutboxSettles` |
| `initiate` | 2 requests with one key, Moolre unconfigured, threshold 2, 2 faults | 116,791 | five invariants |
| `payouts` | batch of 2, a second request under its key with an entry not in GHS, 2 dispatchers, 2 rounds, 1 fault | 386,755 (symmetry on dispatchers and on entries) | five invariants |
| `client` | 2 attempts of a keyed order, 1 of a keyless one not in GHS, Paystack alone configured, 1 fault, 2 broken connections | 631,365 (symmetry on the attempts) | three invariants |
| `adapters` | 1 charge and 2 other calls, every gateway as home, configured or not, products with dashes, 1 glitch | 589,582 (symmetry on the calls) | five invariants |
| `health` | 2 recorders, 1 reader, 4 reports, latencies 1 and 2, window 3, positions up to 40 samples, 1 fault | 4,145,459 (symmetry on the recorders) | `RateIsProper`, and two action properties |
| `frontdoor` | 1 process, 2 requests of a browser that logs in and out, limits 2 and 1, window 2, 1 fault, fair | 405,490 | two invariants, `RefusalEnds` |
| `deployment` | settings: every mixture Validate looks at; 2 starts; 2 charges, 3 keys of which two clash, 2 entries; batches in 4 bits; 2 apps, 4 calls, 1 lost answer | 2,270,185 | six invariants |

*Settlement.* `LedgerBacked`: no collection without money at the gateway.
`SucceededIsBooked`: no bare success, in the intent or the outbox.
`OneEntryPerWebhookEvent`: redelivery, concurrency, crashes and deleted dedup rows book an
event once. `WorkerEntriesBounded`: at most one entry per worker, the true bound of the
outbox's duplication. `WorkersExclusive`: the lock excludes until it expires.
`ClosedRowMeansSettledIntent`: what leaves the outbox is settled. `ShownIsTrue`: charges
shown with a final status that is not the gateway's are at most the faults so far; this is
what a worker's failed `GetIntent` or a misread `Verify` costs, however late the overwrite.
`OutboxSettles`: what the gateway has decided leaves the outbox, or is starved by
`ClaimLimit` older rows that stay open. The run claims one row at a time, so that a
charge its customer never answers does keep the other one waiting.

*Charging.* `PendingIsLive`: a pending answer names a stored charge with the gateway of its
reference, and those that no gateway is collecting are at most the faults (bodies nobody could read). `SameKeySameRef`: answers to one key agree.
`OneAcceptancePerRequest`: one collection plus one per lost answer. `BreakerTrips`:
the circuit opens at the threshold however increments, reads and resets interleave.

*Payouts.* `DispatchersExclusive`, `PaymentsBounded` (one payment per dispatch and lost
answer), `BookedIsPaid` (up to misread replies), `PaidIsBooked` (without faults, in GHS).

*Client.* `KeyedRetryIsSafe`: a keyed order is collected once, plus once per fault inside the
server and per overlapping attempt. `ToldFailedIsUncollected`, `ToldPendingIsStored`: what
the two answers mean for the money.

*Adapters.* `VerdictIsRecord`: a final status is the gateway's record, except that Paystack
and Moolre report a charge they do not know yet as failed. `DeclineIsFinal`: after a
refusal the router may go on. `RefundAnswersTrue`, `PayoutAnswersTrue`: up to glitches, with
two exceptions of payouts (Paystack's transfer body is not read; Hubtel's 01 is a
refusal for payouts alone). `RoutedHome`: a reference leads back to its gateway.

*Health.* `RateIsProper`: never more successes than attempts, unless time passes inside a
pipeline or one is cut off. `P95IsQuantile`: what a read shows is the 95th percentile of the
samples in its window, with older ones still in the set. `FreshSamplesKept`: no step, neither
the key's expiry nor a reader's late ZREM, loses a sample before its window is over unless
a pipeline was torn or something failed.

*Front door.* `CounterExpires`: no counter without an expiry while nothing fails.
`FleetLimit`: what a window lets through when processes fall back to their own counters.
`RefusalEnds`: a refused caller is served again.

*Deployment.* `ProductionIsGuarded`, `CloseIsLast`, `DuplicateWasSeen` (Startup);
`MemoryStandsIn` (Stores): until something strains them the two stores hold the same rows, find
the same charge under every key that reads like no other in use, and answer alike; `TotalIsSum` (Money); `StoredKeyIsHeld` (Apps).

Runs that end with a counterexample compare a sentence of the repository with the code:

| Run | Sentence | What the code does |
|---|---|---|
| `claim_webhook_then_worker` | "Exactly one ledger entry should exist" (`worker_test.go:220`) | the worker books a charge a webhook has booked |
| `claim_double_charge` | "Retry with the same idempotency_key to avoid double charge" (`clients/README.md:41`) | two concurrent requests both reach the gateway |
| `claim_payout_once` | "cannot double-pay" (`payouts/service.go:108-109`) | a second dispatch pays again through another gateway |

Other disagreements met while modelling, which the models contain and no run singles out:

* "5xx so the gateway retries" (`api/webhooks.go:107`): when the outcome transaction fails the
  dedup row stays, and the retry is a duplicate. Always so for a Hubtel or Moolre success,
  whose Money has no currency.
* "failed charge must not write ledger entries" (`webhooks/service_test.go:196`): a failed
  `GetIntent` in the worker marks a booked charge failed.
* The outbox row is "inserted alongside the intent" (`charges/service.go:65-67`): two
  statements, the second one's error is logged.
* "exponential backoff via the next tick" (`worker.go:76-77`): rows that cannot settle are
  claimed at every tick, oldest first, and can starve the rest; `OutboxSettles` has this exception.
* "no charge has occurred yet" when `Initiate` errs (`PAYMENTS_SERVICE_DESIGN.md:129`): an answer
  that is lost or late is an error as well, the next gateway is tried, and the first may
  collect. `OneAcceptancePerRequest` has one more collection per fault for it.
* An empty `WEBHOOK_SECRET` "fails closed ... except for Moolre" (`ARCHITECTURE.md:474`), with no
  environment named: in production the code refuses Moolre's notifications too
  (`api/webhooks.go:115-121`), which `ProductionIsGuarded` states.
* "Hard floor" on the success rate (`PAYMENTS_SERVICE_DESIGN.md:119`), "success-rate floor"
  (`dashboard/README.md:69`, ADR-0034:25): `Route` reads circuits only. The page calls a
  gateway below the floor or without credentials ineligible; `Route` ranks it all the same.
* Samples are pruned "opportunistically on write" (`gateway_health.go:33`): only reads prune.
* "persists the intent, then calls `AggregatorClient.Initiate`" (`ARCHITECTURE.md:308`): the
  other way round; a charge in a currency the table refuses is collected and not stored.
* Three entries of a batch can wrap around to a positive total that passes the table's check.
* Of two concurrent rotations both callers are given a key and one hash is stored. Nothing
  calls `GetAppByHash`, so neither keys of apps nor their revocation affect authentication.
* API and worker each build a `MemoryStore` of their own, so without a database nobody drains
  the API's charges. The map's keys are `product:key`, so pairs with colons can clash.
* `HTTP_HANDLER_TIMEOUT` is read and never used.

**Bounds.** Two actors of each kind are what the hazards need: a loser and a winner of a
lock, a first and a second delivery, two requests with a key. One fault separates "any one
call goes wrong" from the fault-free behaviours; two let a lost reply meet a crash.
`ClaimLimit` is 50 as in the code in `one_charge` and 1 in `two_charges`, where the limit is the
subject; batches of several rows are covered by the proofs alone. The threshold of
the breaker is 2 instead of 5. Counters need no bound of their own: `fails`,
`workerEntries` and `ledger` grow with requests, workers and rounds. In `FrontDoor` one number
stands for all counts past the limit, a window of 2 is the shortest that has a middle, and
one process is enough for a lost INCR to double the count; `FleetLimit` is
stated for any number of processes and checked for one (with two the run takes far longer than
minutes). Sessions come and go so that the bucket a request is counted in changes under it. Positions of the p95 are checked up
to 40 samples, past the first multiples of 20 at which rounding matters; with a window of 3
samples inside and outside it are in the set together, and a reader's ZREM comes after further reports. The width of four
bits has all the cases of 64: no wrap, wrap to a negative and, with three entries, wrap to a
positive total. What is proved without these bounds is in section 4.

**Fairness.** `Settlement`: weak fairness of each worker's step (the ticker fires until
the process is stopped, every call has a deadline through the job context) and of key
expiry (Valkey). Nothing is assumed of the gateway's decision, of redelivery, or of the
API. Since crashes are bounded by `MaxFaults`, a worker is eventually left to work, which is
what a supervisor that restarts it provides.
`FrontDoor`: weak fairness of `Tick` (time passes) and of each request's step (a Valkey call is
answered or times out). Nothing is assumed of callers, outages or logins.

**Deadlock** is checked in the Settlement runs. The others have finitely many requests, rounds,
calls, records or starts and stop when these are used up; in `FrontDoor` time always passes.

## 4. Proofs

All theorems hold for every value of the constants that satisfies the named assumptions,
which TLC evaluates in the runs: finiteness where sets are counted, null values outside the
sets, bounds in Nat. The ones that say something about the code:

* `ProductAssumption`: a product is not the empty string (`charges/service.go` 181,
  "product is required"). Without it `ParseReference` refuses what `BuildReference` built.
* `ClientAssumption`: every attempt of the Go client carries a key, the product's own or a
  generated one (`client.go` 282-289), and the attempts of a keyed order share it.
* `DoorAssumption`: the limits are above zero.
* `MoneyAssumption`: amounts are in the range of the integer type, whatever its width.

The inductive invariants were also checked by TLC, with the constants of their module's run.
Every invariant, every action property and the refinement that a run checks is also a theorem.

`SettlementProofs`:

* `TypeCorrect`.
* `LockExcludes` rests on `LockInv`: a row that has not overrun and is in a worker's hands
  has its key set, and no two workers have it. Needed because exclusion alone does not survive
  `TryAcquire`: that the key is set is what makes SET NX refuse the second worker.
* `WebhookIdempotent` rests on `InboxInv`: an event in a handler's hands is in the inbox and
  in no other handler's, and an event that has been booked keeps its dedup row and is in
  nobody's hands, so neither a delivery nor a deletion can reopen it.
* `LedgerIsBacked`, `SuccessIsBooked`, `ClosedRowsSettled` rest on one invariant, `BooksInv`,
  which also says that a decision in hand still holds: a handler or worker about to book
  has the gateway's word for it, and the gateway's outcomes are final.
* `OutboxBookingsBounded` rests on `BookingBudget`: workers have booked nothing while the row
  is open, and entries written plus workers that still hold the row, claimed or in hand,
  never exceed the number of workers. A closed row is claimed by nobody new.
* `ShownStatusIsTrue` rests on `MistakeBudget`: charges shown wrongly *or about to be*, by a
  handler or worker with a wrong verdict in hand (`Mistaken`), are at most the faults. Writing
  the verdict adds none: it was counted when it was read.
* `RefinesBook`: `Spec => Book!Spec`, from `BooksInv`.

`PayoutsProofs`:

* `TypeCorrect`, with `InHand`: a dispatcher has an entry exactly between `TryAcquire` and the
  end of its turn, and a gateway left to try whenever it pays.
* `EntriesAreExclusive` rests on `KeysHeld`: the entry in hand is among the keys to be given
  back, such a key is set unless it overran, and no two dispatches hold it.
* `PaymentsAreBounded` rests on `PaymentBudget`: payments made plus dispatches that may still
  pay (`Due`) are covered by rounds and faults. Paying uses up a due dispatch or a fault.
* `BookingsAreBacked` rests on `MisreadBudget`: the entries booked *or about to be booked*
  without a payment are at most the faults; booking itself adds none.
* `PaymentsAreBooked` rests on `PaidInHand`: a payment not booked has a dispatch about to
  book it.

`ClientProofs`, of `Charging`:

* `TypeCorrect`, with `InHand`: which locals are set at which point of `Initiate`.
* `PendingCanSettle` rests on `RowInHand` (the row of a request past `CreateIntent`, or answered as
  pending, is in the table with the gateway its reference names) and `MisreadBudget` (requests past the gateway call
  whose gateway has not accepted are at most the faults).
* `KeysNameOneCharge`: from "at most one stored row per key, and every answer names it".
* `BreakerOpens`: `BreakerTrips` is inductive, given `InHand`.
* `RequestsCollectOnce` rests on an acceptance budget: acceptances of a request are at most
  the faults so far, plus one once it is past the loop.

`ClientProofs`, of `ProductClient`:

* `ClientImplementsCharging`: `ClientSpec => Spec`. A client step leaves the service alone, so
  every theorem about `Charging` holds of the composition and may be used in it.
* `FailedMeansUncollected` rests on `QuietInv` (without a fault, a request that is still trying
  or was answered as failed has started nothing; an outcome is final) and `ToldInv` (what
  the client was told is what the service answered).
* `PendingMeansStored` rests on `LoneInv` (without overlaps the server is busy with one attempt of an
  order) and `FreshInv` (the key an attempt has looked up is still free when its row is
  written). The second needs the first: another attempt with the key is the only one
  that could take it.
* `KeyedRetriesAreSafe` rests on a budget, `RetryInv`: the collections of a keyed order plus its
  attempts that may still collect unaccounted (`Attempting`: routing, calling, or not yet
  looked up while the key is free) are at most the faults and overlaps so far, plus one
  (`Credit`) while an attempt is under way or the key is stored. `RetryMoves` lists
  what one step of an attempt can do to this: it takes no new risk, takes one at the price of
  a fault, or turns its risk into a collection. The bound alone is not inductive: it does not
  say who may still collect.

`AdaptersProofs`, for any products, concurrent calls and numbers of glitches:

* `ParseInvertsBuild`, by the lengths and positions of the segments; `AllRoutedHome` follows.
* `DeclinesAreFinal`, `VerdictsAreRecords`, `RefundsAnswerTrue` and `PayoutsAnswerTrue` rest on
  `AdaptersInv`. Its core, `OutcomeInv`, states the four properties of the result *a reply on
  its way will be read as* (`Outcome`), not only of the results returned: what a reply says
  was true when it was sent and the gateway's final records do not change. `CallInv` says what
  a call can have done at each point, `RecordInv` that nobody but the charge's own call makes
  its gateway hear of it. `OthersUndisturbed` is the frame: a step of one call keeps the
  invariant of every other. The readings of the three adapters are separate lemmas
  (`NotOkReads`, `ReadIsResult` and their neighbours), one case per gateway.

`FrontDoorProofs`, for any processes, callers, limits and windows:

* `CountersExpire` rests on `DoorInv`: a call about to send EXPIRE is alone with a counter
  that has no expiry, and such a counter has let nobody through yet.
* `FleetIsLimited` rests on `FleetInv`: what was let through is at most the shared counter up to
  the limit, what each process may have added (`OwnPart`), and the limit once more per
  restart. A process may have filled one window of its own, or two when the current one
  does not end before the shared one. The sum over processes is the number of cells under
  the graph of `OwnPart` (`Cells`), so adding one request to one process adds one cell; no
  induction over a sum is needed.

`HealthProofs`, for any recorders, windows, latencies and numbers of samples:

* `RatesAreProper` rests on `Sound`: successes counted *and owed* by pipelines past their first
  INCR are attempts counted, a success counter has an expiry or gets one next in the same
  pipeline, and it expires no later than the attempts.
* `SamplesOutlastWindow` rests on `RenewalInv`: unless something was torn or failed, the key lives
  at least as long as each sample's window lasts, or the sample is new and the EXPIRE that will
  see to it is next in some pipeline. `SampleInv` adds that what a reader is about to
  remove is old.
* `P95sAreQuantiles`: `IndexIsQuantile` is the arithmetic of the index for every n;
  `EveryPositionTaken` shows that counting the samples below each is an injection of the
  samples into 0..n-1, therefore onto, so the position has a sample; `QuantileOfSamples` puts
  the two together for any finite set of samples, and `SampleInv` says that samples are one.

`DeploymentProofs`, of `Startup`, for any settings, notifications and numbers of requests and starts:

* `ConnectionsCloseLast` rests on `StageInv`: what a process holds at each stage.
* `ProductionGuarded` rests on `GuardInv`: each stage keeps its part of the promise, and what
  the earlier ones checked stays in force.
* `DuplicatesWereSeen` rests on `InboxInv`: every row of either inbox comes from a notification
  that was seen, under the id `parsePayload` gives it.

`DeploymentProofs`, of the others:

* `MemoryDoesStandIn` (`Stores`) rests on `StandInInv`: up to the first strained call the two stores
  agree row by row, and what memory has under a joined string belongs to a key that reads like
  it (`SameUnderKey`), which makes the lookups agree; one lemma per operation.
* `KeysAreHeld` (`Apps`) rests on `KeyInv`: the key stored for an app is that of a call about it
  that got past its checks and, unless something was lost, answers with the key.
* `TotalsAreSums` (`Money`): the loop is unrolled for one and two entries (`LoopsUnrolled`), and
  `WrapOfSum` shows that two positive amounts add up to their sum or to a negative number.
  What the loop computes for longer requests would need induction over data.

`GatewayRouterProofs` holds the lemmas on rankings that `ClientProofs` and `PayoutsProofs` use: a ranking is never
empty and has a first gateway.

Only model-checked: the liveness properties `OutboxSettles` and `RefusalEnds`, because fairness and ENABLED are outside the prover's reach.

## 5. Not modelled, and the plan

Left out for good: observability (nothing reads it back; on the error paths of `Build` it is
not shut down), the list handlers and other reads (with the eligibility and ranks of the health page), sqlc output (its statements are part of
the store actions), the TypeScript client, the dashboard, deployment scripts, the ULID's
clock and base32 form, `Money.Sub`, `Mul`, `Compare` and `String`, which no state depends on,
and `MemoryStore`'s payout methods, whose reservations do nothing.

What is left to do:

1. Safety facts around the liveness properties that the prover can reach: that a step of the
   loops in `DrainOutbox`, `InitiateWithFallback` and `Dispatch` uses up what is left to try.
2. Action properties as theorems: what no step of a component may undo (a settled intent, a
   booked entry, a recorded event, a final answer of the client).
