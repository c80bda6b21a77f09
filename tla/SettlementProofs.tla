-------------------------- MODULE SettlementProofs --------------------------
(***************************************************************************)
(* Proofs about Settlement, for any number of charges, workers, handlers,  *)
(* event ids and faults.                                                   *)
(***************************************************************************)
EXTENDS Settlement, FiniteSetTheorems, TLAPS

\* Positions in the outbox are natural numbers.
LEMMA OutboxCount ==
    ASSUME TypeOK
    PROVE  Cardinality({q \in Refs : events[q] # "none"}) \in Nat
<1>1. {q \in Refs : events[q] # "none"} \subseteq Refs
  OBVIOUS
<1>2. IsFiniteSet({q \in Refs : events[q] # "none"})
  BY <1>1, RefsAssumption, FS_Subset
<1>3. QED
  BY <1>2, FS_CardinalityType

\* Answering a request and going on with a drain keep the types they touch.
LEMMA AnswerType ==
    ASSUME TypeOK, NEW h \in Handlers, NEW code \in {"2xx", "5xx"}, Answer(h, code)
    PROVE  /\ answered' \in [WebhookEvents -> {"none", "2xx", "5xx"}]
           /\ handling' \in [Handlers -> WebhookEvents \cup {NoEvent}]
           /\ hpc' \in [Handlers -> HandlerPC]
BY DEF TypeOK, Answer, HandlerPC

\* What a worker moves on to, the rest of its batch or idle, is well typed.
LEMMA DrainRestType ==
    ASSUME TypeOK, NEW w \in Workers, NEW rest \in SUBSET Refs, DrainRest(w, rest)
    PROVE  /\ claimed' \in [Workers -> SUBSET Refs]
           /\ current' \in [Workers -> Refs \cup {NoRef}]
           /\ wpc' \in [Workers -> WorkerPC]
BY DEF TypeOK, DrainRest, WorkerPC

\* Every variable keeps its type: the statuses stay within the CHECK constraints
\* of the schema whatever the interleaving.
THEOREM TypeCorrect == Spec => []TypeOK
<1>1. Init => TypeOK
  BY BoundAssumption DEF Init, TypeOK, Status, WorkerPC, HandlerPC
<1>2. TypeOK /\ [Next]_vars => TypeOK'
  <2> SUFFICES ASSUME TypeOK, [Next]_vars PROVE TypeOK'
    OBVIOUS
  <2> USE RefsAssumption, ProcessAssumption, BoundAssumption
      DEF TypeOK, Status, WorkerPC, HandlerPC, Fault, NoFault,
          storeVars, workerVars, handlerVars, lockVars
  <2>1. ASSUME NEW r \in Refs, CreateIntent(r) PROVE TypeOK'
    BY <2>1 DEF CreateIntent
  <2>2. ASSUME NEW r \in Refs, InsertOutboxEvent(r) PROVE TypeOK'
    <3>1. Cardinality({q \in Refs : events[q] # "none"}) \in Nat
      BY OutboxCount
    <3>2. createdAt' \in [Refs -> Nat]
      BY <2>2, <3>1 DEF InsertOutboxEvent
    <3>3. events' \in [Refs -> Status \cup {"none"}] /\ faults' \in 0..MaxFaults
      BY <2>2 DEF InsertOutboxEvent
    <3>4. initiate' \in [Refs -> {"unsaved", "saved", "done"}]
      BY <2>2 DEF InsertOutboxEvent
    <3>5. UNCHANGED <<truth, intents, inbox, webhookEntries, workerEntries,
                      lockVars, workerVars, handlerVars>>
      BY <2>2 DEF InsertOutboxEvent
    <3>6. QED
      BY <3>2, <3>3, <3>4, <3>5
  <2>3. ASSUME NEW r \in Refs, GatewaySettles(r) PROVE TypeOK'
    BY <2>3 DEF GatewaySettles
  <2>4. ASSUME NEW r \in Refs, LockExpires(r) PROVE TypeOK'
    BY <2>4 DEF LockExpires
  <2>5. ASSUME NEW h \in Handlers, NEW e \in WebhookEvents, ReceiveWebhook(h, e)
        PROVE  TypeOK'
    BY <2>5 DEF ReceiveWebhook
  <2>6. ASSUME NEW h \in Handlers, HandlerFindIntent(h) PROVE TypeOK'
    BY <2>6 DEF HandlerFindIntent, HandlerGoto, Answer
  <2>7. ASSUME NEW h \in Handlers, HandlerVerify(h) PROVE TypeOK'
    BY <2>7 DEF HandlerVerify, Verify, HandlerGoto, Answer
  <2>8. ASSUME NEW h \in Handlers, HandlerDropInbox(h) PROVE TypeOK'
    <3>1. \E code \in {"2xx", "5xx"} : Answer(h, code)
      BY <2>8 DEF HandlerDropInbox
    <3>2. inbox' \subseteq WebhookEvents /\ faults' \in 0..MaxFaults
      BY <2>8 DEF HandlerDropInbox
    <3>3. QED
      BY <2>8, <3>1, <3>2, AnswerType DEF HandlerDropInbox
  <2>9. ASSUME NEW h \in Handlers, HandlerApply(h) PROVE TypeOK'
    BY <2>9 DEF HandlerApply, ApplyChargeOutcome, Answer
  <2>10. ASSUME NEW h \in Handlers, HandlerCrash(h) PROVE TypeOK'
    BY <2>10, AnswerType DEF HandlerCrash
  <2>11. ASSUME NEW w \in Workers, ClaimPending(w) PROVE TypeOK'
    BY <2>11 DEF ClaimPending, Oldest
  <2>12. ASSUME NEW w \in Workers, TryAcquire(w) PROVE TypeOK'
    <3>1. locks' \subseteq Refs /\ faults' \in 0..MaxFaults
      BY <2>12 DEF TryAcquire
    <3>2. /\ claimed' \in [Workers -> SUBSET Refs]
          /\ current' \in [Workers -> Refs \cup {NoRef}]
          /\ wpc' \in [Workers -> WorkerPC]
      <4>1. PICK r \in claimed[w] :
                \/ /\ claimed' = [claimed EXCEPT ![w] = @ \ {r}]
                   /\ current' = [current EXCEPT ![w] = r]
                   /\ wpc' = [wpc EXCEPT ![w] = "intent"]
                \/ DrainRest(w, claimed[w] \ {r})
        BY <2>12 DEF TryAcquire
      <4>2. CASE DrainRest(w, claimed[w] \ {r})
        BY <4>2, DrainRestType
      <4>3. QED
        BY <4>1, <4>2
    <3>3. QED
      BY <2>12, <3>1, <3>2 DEF TryAcquire
  <2>13. ASSUME NEW w \in Workers, WorkerGetIntent(w) PROVE TypeOK'
    BY <2>13 DEF WorkerGetIntent, WorkerGoto
  <2>14. ASSUME NEW w \in Workers, WorkerVerify(w) PROVE TypeOK'
    BY <2>14 DEF WorkerVerify, Verify, WorkerGoto
  <2>15. ASSUME NEW w \in Workers, WorkerComplete(w) PROVE TypeOK'
    BY <2>15 DEF WorkerComplete, WorkerGoto, CompleteSucceeded, CompleteFailed
  <2>16. ASSUME NEW w \in Workers, Release(w) PROVE TypeOK'
    <3>1. locks' \subseteq Refs /\ faults' \in 0..MaxFaults
      BY <2>16 DEF Release
    <3>2. QED
      BY <2>16, <3>1, DrainRestType DEF Release
  <2>17. ASSUME NEW w \in Workers, WorkerCrash(w) PROVE TypeOK'
    BY <2>17 DEF WorkerCrash, DrainRest
  <2>18. CASE UNCHANGED vars
    BY <2>18 DEF vars
  <2>19. QED
    BY <2>1, <2>2, <2>3, <2>4, <2>5, <2>6, <2>7, <2>8, <2>9, <2>10, <2>11, <2>12,
       <2>13, <2>14, <2>15, <2>16, <2>17, <2>18
       DEF Next, InitiateStep, HandlerStep, WorkerStep
<1>3. QED
  BY <1>1, <1>2, PTL DEF Spec

-----------------------------------------------------------------------------
(* The lock. *)

\* A worker in a row's critical section holds the row's key, unless the key
\* expired under some worker.
LockHeld == \A r \in Refs \ overran : \A w \in Workers : current[w] = r => r \in locks

LockInv == LockHeld /\ WorkersExclusive

\* Workers exclude each other on a row until a key expires under one of them: the
\* unconditional DEL of Release and the keys left by crashes do no harm before.
THEOREM LockExcludes == Spec => []WorkersExclusive
<1>1. Init => LockInv
  BY RefsAssumption DEF Init, LockInv, LockHeld, WorkersExclusive
<1>2. TypeOK /\ LockInv /\ [Next]_vars => LockInv'
  <2> SUFFICES ASSUME TypeOK, LockInv, [Next]_vars PROVE LockInv'
    OBVIOUS
  <2> USE RefsAssumption
      DEF TypeOK, LockInv, LockHeld, WorkersExclusive, workerVars, lockVars
  <2>1. ASSUME NEW r \in Refs, CreateIntent(r) PROVE LockInv'
    BY <2>1 DEF CreateIntent
  <2>2. ASSUME NEW r \in Refs, InsertOutboxEvent(r) PROVE LockInv'
    BY <2>2 DEF InsertOutboxEvent
  <2>3. ASSUME NEW r \in Refs, GatewaySettles(r) PROVE LockInv'
    BY <2>3 DEF GatewaySettles
  <2>4. ASSUME NEW r \in Refs, LockExpires(r) PROVE LockInv'
    BY <2>4 DEF LockExpires
  <2>5. ASSUME NEW h \in Handlers, NEW e \in WebhookEvents, ReceiveWebhook(h, e)
        PROVE  LockInv'
    BY <2>5 DEF ReceiveWebhook
  <2>6. ASSUME NEW h \in Handlers, HandlerFindIntent(h) PROVE LockInv'
    BY <2>6 DEF HandlerFindIntent, HandlerGoto, Answer
  <2>7. ASSUME NEW h \in Handlers, HandlerVerify(h) PROVE LockInv'
    BY <2>7 DEF HandlerVerify, HandlerGoto, Answer
  <2>8. ASSUME NEW h \in Handlers, HandlerDropInbox(h) PROVE LockInv'
    BY <2>8 DEF HandlerDropInbox, Answer
  <2>9. ASSUME NEW h \in Handlers, HandlerApply(h) PROVE LockInv'
    BY <2>9 DEF HandlerApply, ApplyChargeOutcome, Answer
  <2>10. ASSUME NEW h \in Handlers, HandlerCrash(h) PROVE LockInv'
    BY <2>10 DEF HandlerCrash, Answer
  <2>11. ASSUME NEW w \in Workers, ClaimPending(w) PROVE LockInv'
    BY <2>11 DEF ClaimPending, Oldest
  <2>12. ASSUME NEW w \in Workers, TryAcquire(w) PROVE LockInv'
    BY <2>12 DEF TryAcquire, DrainRest
  <2>13. ASSUME NEW w \in Workers, WorkerGetIntent(w) PROVE LockInv'
    BY <2>13 DEF WorkerGetIntent, WorkerGoto
  <2>14. ASSUME NEW w \in Workers, WorkerVerify(w) PROVE LockInv'
    BY <2>14 DEF WorkerVerify, WorkerGoto
  <2>15. ASSUME NEW w \in Workers, WorkerComplete(w) PROVE LockInv'
    BY <2>15 DEF WorkerComplete, WorkerGoto, CompleteSucceeded, CompleteFailed
  <2>16. ASSUME NEW w \in Workers, Release(w) PROVE LockInv'
    BY <2>16 DEF Release, DrainRest
  <2>17. ASSUME NEW w \in Workers, WorkerCrash(w) PROVE LockInv'
    BY <2>17 DEF WorkerCrash, DrainRest
  <2>18. CASE UNCHANGED vars
    BY <2>18 DEF vars
  <2>19. QED
    BY <2>1, <2>2, <2>3, <2>4, <2>5, <2>6, <2>7, <2>8, <2>9, <2>10, <2>11, <2>12,
       <2>13, <2>14, <2>15, <2>16, <2>17, <2>18
       DEF Next, InitiateStep, HandlerStep, WorkerStep
<1>3. LockInv => WorkersExclusive
  BY DEF LockInv
<1>4. QED
  BY <1>1, <1>2, <1>3, TypeCorrect, PTL DEF Spec

-----------------------------------------------------------------------------
(* The webhook inbox. *)

\* A handler has an event in hand exactly while it is not idle.
HandlerBusy == \A h \in Handlers : hpc[h] = "idle" <=> handling[h] = NoEvent

\* Between insert and answer an event has its dedup row and one handler only.
DedupExclusive ==
    /\ \A h \in Handlers : handling[h] # NoEvent => handling[h] \in inbox
    /\ \A g, h \in Handlers : handling[g] = handling[h] /\ handling[h] # NoEvent => g = h

\* A booked event keeps its dedup row for ever and is in nobody's hands.
BookedEventClosed ==
    \A e \in WebhookEvents : webhookEntries[e] > 0 =>
        e \in inbox /\ \A h \in Handlers : handling[h] # e

InboxInv == HandlerBusy /\ DedupExclusive /\ BookedEventClosed /\ OneEntryPerWebhookEvent

\* One event id is booked at most once, whatever is redelivered, dropped or lost.
THEOREM WebhookIdempotent == Spec => []OneEntryPerWebhookEvent
<1>1. Init => InboxInv
  BY DEF Init, InboxInv, HandlerBusy, DedupExclusive, BookedEventClosed,
         OneEntryPerWebhookEvent
<1>2. TypeOK /\ InboxInv /\ [Next]_vars => InboxInv'
  <2> SUFFICES ASSUME TypeOK, InboxInv, [Next]_vars PROVE InboxInv'
    OBVIOUS
  <2> USE ProcessAssumption
      DEF TypeOK, InboxInv, HandlerBusy, DedupExclusive, BookedEventClosed,
          OneEntryPerWebhookEvent, storeVars, handlerVars, HandlerPC
  <2>1. ASSUME NEW r \in Refs, CreateIntent(r) PROVE InboxInv'
    BY <2>1 DEF CreateIntent
  <2>2. ASSUME NEW r \in Refs, InsertOutboxEvent(r) PROVE InboxInv'
    BY <2>2 DEF InsertOutboxEvent
  <2>3. ASSUME NEW r \in Refs, GatewaySettles(r) PROVE InboxInv'
    BY <2>3 DEF GatewaySettles
  <2>4. ASSUME NEW r \in Refs, LockExpires(r) PROVE InboxInv'
    BY <2>4 DEF LockExpires
  <2>5. ASSUME NEW h \in Handlers, NEW e \in WebhookEvents, ReceiveWebhook(h, e)
        PROVE  InboxInv'
    BY <2>5 DEF ReceiveWebhook
  <2>6. ASSUME NEW h \in Handlers, HandlerFindIntent(h) PROVE InboxInv'
    BY <2>6 DEF HandlerFindIntent, HandlerGoto, Answer
  <2>7. ASSUME NEW h \in Handlers, HandlerVerify(h) PROVE InboxInv'
    BY <2>7 DEF HandlerVerify, HandlerGoto, Answer
  <2>8. ASSUME NEW h \in Handlers, HandlerDropInbox(h) PROVE InboxInv'
    BY <2>8 DEF HandlerDropInbox, Answer
  <2>9. ASSUME NEW h \in Handlers, HandlerApply(h) PROVE InboxInv'
    BY <2>9 DEF HandlerApply, ApplyChargeOutcome, Answer
  <2>10. ASSUME NEW h \in Handlers, HandlerCrash(h) PROVE InboxInv'
    BY <2>10 DEF HandlerCrash, Answer
  <2>11. ASSUME NEW w \in Workers, ClaimPending(w) PROVE InboxInv'
    BY <2>11 DEF ClaimPending, Oldest
  <2>12. ASSUME NEW w \in Workers, TryAcquire(w) PROVE InboxInv'
    BY <2>12 DEF TryAcquire, DrainRest
  <2>13. ASSUME NEW w \in Workers, WorkerGetIntent(w) PROVE InboxInv'
    BY <2>13 DEF WorkerGetIntent, WorkerGoto
  <2>14. ASSUME NEW w \in Workers, WorkerVerify(w) PROVE InboxInv'
    BY <2>14 DEF WorkerVerify, WorkerGoto
  <2>15. ASSUME NEW w \in Workers, WorkerComplete(w) PROVE InboxInv'
    BY <2>15 DEF WorkerComplete, WorkerGoto, CompleteSucceeded, CompleteFailed
  <2>16. ASSUME NEW w \in Workers, Release(w) PROVE InboxInv'
    BY <2>16 DEF Release, DrainRest
  <2>17. ASSUME NEW w \in Workers, WorkerCrash(w) PROVE InboxInv'
    BY <2>17 DEF WorkerCrash, DrainRest
  <2>18. CASE UNCHANGED vars
    BY <2>18 DEF vars
  <2>19. QED
    BY <2>1, <2>2, <2>3, <2>4, <2>5, <2>6, <2>7, <2>8, <2>9, <2>10, <2>11, <2>12,
       <2>13, <2>14, <2>15, <2>16, <2>17, <2>18
       DEF Next, InitiateStep, HandlerStep, WorkerStep
<1>3. InboxInv => OneEntryPerWebhookEvent
  BY DEF InboxInv
<1>4. QED
  BY <1>1, <1>2, <1>3, TypeCorrect, PTL DEF Spec

-----------------------------------------------------------------------------
(* The books. *)

\* A worker has a row in hand exactly between TryAcquire and Release, and the row
\* in hand is no longer among those it has left to process.
WorkerBusy ==
    \A w \in Workers :
        /\ wpc[w] \in {"idle", "drain"} <=> current[w] = NoRef
        /\ current[w] \notin claimed[w]

\* Initiate stores the intent before the outbox row (whose foreign key needs it).
StoredInOrder ==
    \A r \in Refs :
        /\ initiate[r] = "unsaved" => intents[r] = "none"
        /\ initiate[r] \in {"unsaved", "saved"} => events[r] = "none"
        /\ initiate[r] = "saved" => intents[r] # "none"
        /\ events[r] # "none" => intents[r] # "none"

\* What a worker claimed or holds is in the outbox, and what a handler is about
\* to verify or apply has an intent: rows are never deleted.
InHandExists ==
    /\ \A w \in Workers : \A r \in claimed[w] \cup ({current[w]} \ {NoRef}) : events[r] # "none"
    /\ \A h \in Handlers : hpc[h] \in {"verify", "succeed", "fail"} =>
            intents[EventRef[handling[h]]] # "none"

\* A decision to book is still true when it is carried out: outcomes are final.
DecisionsHold ==
    /\ \A h \in Handlers : hpc[h] = "succeed" => truth[EventRef[handling[h]]] = "succeeded"
    /\ \A w \in Workers : wpc[w] = "succeed" => truth[current[w]] = "succeeded"

BooksInv ==
    /\ HandlerBusy /\ WorkerBusy /\ StoredInOrder /\ InHandExists /\ DecisionsHold
    /\ LedgerBacked /\ SucceededIsBooked /\ ClosedRowMeansSettledIntent

\* Intents, ledger, outbox and the work in hand agree at every step.
LEMMA BooksInvariant == Spec => []BooksInv
<1> USE RefsAssumption, ProcessAssumption
<1>1. Init => BooksInv
  BY DEF Init, BooksInv, HandlerBusy, WorkerBusy, StoredInOrder, InHandExists,
         DecisionsHold, LedgerBacked, SucceededIsBooked, ClosedRowMeansSettledIntent,
         Booked, Terminal
<1>2. TypeOK /\ BooksInv /\ [Next]_vars => BooksInv'
  <2> SUFFICES ASSUME TypeOK, BooksInv, [Next]_vars PROVE BooksInv'
    OBVIOUS
  <2> USE DEF TypeOK, Status, BooksInv, HandlerBusy, WorkerBusy, StoredInOrder,
          InHandExists, DecisionsHold, LedgerBacked, SucceededIsBooked,
          ClosedRowMeansSettledIntent, Booked, Terminal, WorkerPC, HandlerPC,
          storeVars, workerVars, handlerVars
  <2>1. ASSUME NEW r \in Refs, CreateIntent(r) PROVE BooksInv'
    BY <2>1 DEF CreateIntent
  <2>2. ASSUME NEW r \in Refs, InsertOutboxEvent(r) PROVE BooksInv'
    BY <2>2 DEF InsertOutboxEvent
  <2>3. ASSUME NEW r \in Refs, GatewaySettles(r) PROVE BooksInv'
    BY <2>3 DEF GatewaySettles
  <2>4. ASSUME NEW r \in Refs, LockExpires(r) PROVE BooksInv'
    BY <2>4 DEF LockExpires
  <2>5. ASSUME NEW h \in Handlers, NEW e \in WebhookEvents, ReceiveWebhook(h, e)
        PROVE  BooksInv'
    BY <2>5 DEF ReceiveWebhook
  <2>6. ASSUME NEW h \in Handlers, HandlerFindIntent(h) PROVE BooksInv'
    BY <2>6 DEF HandlerFindIntent, HandlerGoto, Answer
  <2>7. ASSUME NEW h \in Handlers, HandlerVerify(h) PROVE BooksInv'
    BY <2>7 DEF HandlerVerify, HandlerGoto, Answer, Verify, Glitches
  <2>8. ASSUME NEW h \in Handlers, HandlerDropInbox(h) PROVE BooksInv'
    BY <2>8 DEF HandlerDropInbox, Answer
  <2>9. ASSUME NEW h \in Handlers, HandlerApply(h) PROVE BooksInv'
    <3> DEFINE ev == handling[h]
               ref == EventRef[ev]
    <3>1. ev \in WebhookEvents /\ ref \in Refs
      BY <2>9 DEF HandlerApply
    <3>2. /\ hpc' = [hpc EXCEPT ![h] = "idle"]
          /\ handling' = [handling EXCEPT ![h] = NoEvent]
          /\ UNCHANGED <<truth, initiate, events, workerEntries, claimed, current, wpc>>
      BY <2>9 DEF HandlerApply, Answer
    <3>3. CASE UNCHANGED <<intents, webhookEntries>>
      BY <3>2, <3>3
    <3>4. CASE /\ hpc[h] = "succeed"
               /\ intents' = [intents EXCEPT ![ref] = "succeeded"]
               /\ webhookEntries' = [webhookEntries EXCEPT ![ev] = @ + 1]
      <4>1. /\ webhookEntries'[ev] > 0
            /\ \A e \in WebhookEvents \ {ev} : webhookEntries'[e] = webhookEntries[e]
        BY <3>1, <3>4
      <4>2. \A r \in Refs : Booked(r)' <=> Booked(r) \/ r = ref
        BY <3>1, <3>2, <3>4, <4>1
      <4>3. LedgerBacked' /\ SucceededIsBooked' /\ ClosedRowMeansSettledIntent'
        BY <3>1, <3>2, <3>4, <4>2
      <4>4. HandlerBusy' /\ WorkerBusy' /\ StoredInOrder' /\ InHandExists' /\ DecisionsHold'
        BY <3>1, <3>2, <3>4
      <4>5. QED
        BY <4>3, <4>4
    <3>5. CASE /\ hpc[h] = "fail"
               /\ intents' = [intents EXCEPT ![ref] = "failed"]
               /\ UNCHANGED webhookEntries
      <4>1. \A r \in Refs : Booked(r)' <=> Booked(r)
        BY <3>2, <3>5
      <4>2. LedgerBacked'
        BY <3>2, <4>1 DEF LedgerBacked
      <4>3. \A r \in Refs : intents'[r] = "failed" \/ intents'[r] = intents[r]
        BY <3>1, <3>5
      <4>4. SucceededIsBooked'
        BY <3>2, <4>1, <4>3
      <4>5. ClosedRowMeansSettledIntent'
        BY <3>2, <4>3
      <4>6. HandlerBusy' /\ WorkerBusy' /\ StoredInOrder' /\ InHandExists' /\ DecisionsHold'
        BY <3>1, <3>2, <3>5
      <4>7. QED
        BY <4>2, <4>4, <4>5, <4>6
    <3>6. QED
      BY <2>9, <3>3, <3>4, <3>5 DEF HandlerApply, ApplyChargeOutcome
  <2>10. ASSUME NEW h \in Handlers, HandlerCrash(h) PROVE BooksInv'
    BY <2>10 DEF HandlerCrash, Answer
  <2>11. ASSUME NEW w \in Workers, ClaimPending(w) PROVE BooksInv'
    BY <2>11 DEF ClaimPending, Oldest
  <2>12. ASSUME NEW w \in Workers, TryAcquire(w) PROVE BooksInv'
    BY <2>12 DEF TryAcquire, DrainRest
  <2>13. ASSUME NEW w \in Workers, WorkerGetIntent(w) PROVE BooksInv'
    BY <2>13 DEF WorkerGetIntent, WorkerGoto
  <2>14. ASSUME NEW w \in Workers, WorkerVerify(w) PROVE BooksInv'
    BY <2>14 DEF WorkerVerify, WorkerGoto, Verify, Glitches
  <2>15. ASSUME NEW w \in Workers, WorkerComplete(w) PROVE BooksInv'
    BY <2>15 DEF WorkerComplete, WorkerGoto, CompleteSucceeded, CompleteFailed
  <2>16. ASSUME NEW w \in Workers, Release(w) PROVE BooksInv'
    BY <2>16 DEF Release, DrainRest
  <2>17. ASSUME NEW w \in Workers, WorkerCrash(w) PROVE BooksInv'
    BY <2>17 DEF WorkerCrash, DrainRest
  <2>18. CASE UNCHANGED vars
    BY <2>18 DEF vars
  <2>19. QED
    BY <2>1, <2>2, <2>3, <2>4, <2>5, <2>6, <2>7, <2>8, <2>9, <2>10, <2>11, <2>12,
       <2>13, <2>14, <2>15, <2>16, <2>17, <2>18
       DEF Next, InitiateStep, HandlerStep, WorkerStep
<1>3. QED
  BY <1>1, <1>2, TypeCorrect, PTL DEF Spec

\* Every collection in the ledger was collected by the gateway.
THEOREM LedgerIsBacked == Spec => []LedgerBacked
BY BooksInvariant, PTL DEF BooksInv

\* Every charge shown as succeeded is in the ledger.
THEOREM SuccessIsBooked == Spec => []SucceededIsBooked
BY BooksInvariant, PTL DEF BooksInv

\* A charge that left the outbox is settled.
THEOREM ClosedRowsSettled == Spec => []ClosedRowMeansSettledIntent
BY BooksInvariant, PTL DEF BooksInv

-----------------------------------------------------------------------------
(* How often the outbox may book a charge. *)

\* The workers that may still book r: they claimed it or are processing it.
Holders(r) ==
    {w \in Workers : r \in claimed[w] \/ (current[w] = r /\ wpc[w] # "release")}

\* A row is booked by its workers only when it leaves the outbox, and from then on
\* each booking uses up one of the workers that still hold it.
BookingBudget ==
    \A r \in Refs :
        /\ events[r] \notin Terminal => workerEntries[r] = 0
        /\ workerEntries[r] + Cardinality(Holders(r)) <= Cardinality(Workers)

\* A set of workers is finite and no larger than all of them.
LEMMA HoldersFinite ==
    ASSUME NEW S \in SUBSET Workers
    PROVE  /\ IsFiniteSet(S) /\ Cardinality(S) \in Nat
           /\ Cardinality(S) <= Cardinality(Workers)
           /\ Cardinality(Workers) \in Nat
BY ProcessAssumption, FS_Subset, FS_CardinalityType

\* Fewer workers are no more.
LEMMA FewerHolders ==
    ASSUME NEW T \in SUBSET Workers, NEW S \in SUBSET T
    PROVE  Cardinality(S) <= Cardinality(T)
<1>1. IsFiniteSet(T)
  BY HoldersFinite
<1>2. QED
  BY <1>1, FS_Subset

\* A worker that lets go of a reference is one holder less.
LEMMA OneHolderLess ==
    ASSUME NEW T \in SUBSET Workers, NEW w \in T
    PROVE  Cardinality(T \ {w}) = Cardinality(T) - 1
<1>1. IsFiniteSet(T)
  BY HoldersFinite
<1>2. QED
  BY <1>1, FS_RemoveElement

\* A step that adds no booking, closes no row and adds no holder keeps the budget.
LEMMA BudgetFrame ==
    ASSUME TypeOK, BookingBudget, UNCHANGED <<events, workerEntries>>,
           \A r \in Refs : Holders(r)' \subseteq Holders(r)
    PROVE  BookingBudget'
<1> SUFFICES ASSUME NEW r \in Refs
             PROVE  /\ events'[r] \notin Terminal => workerEntries'[r] = 0
                    /\ workerEntries'[r] + Cardinality(Holders(r)') <= Cardinality(Workers)
  BY DEF BookingBudget
<1>1. Holders(r) \in SUBSET Workers /\ Holders(r)' \in SUBSET Holders(r)
  BY DEF Holders
<1>2. Cardinality(Holders(r)') <= Cardinality(Holders(r))
  BY <1>1, FewerHolders
<1>3. /\ Cardinality(Holders(r)) \in Nat /\ Cardinality(Holders(r)') \in Nat
      /\ Cardinality(Workers) \in Nat
  BY <1>1, HoldersFinite
<1>4. QED
  BY <1>2, <1>3 DEF BookingBudget, TypeOK

\* A charge is booked from the outbox at most once per worker.
THEOREM OutboxBookingsBounded == Spec => []WorkerEntriesBounded
<1>1. Init => BookingBudget
  <2>1. ASSUME NEW r \in Refs, Init
        PROVE  Cardinality(Holders(r)) \in Nat /\ Cardinality(Holders(r)) <= Cardinality(Workers)
               /\ Cardinality(Workers) \in Nat
    BY HoldersFinite DEF Holders
  <2>2. QED
    BY <2>1 DEF Init, BookingBudget
<1>2. TypeOK /\ BooksInv /\ BookingBudget /\ [Next]_vars => BookingBudget'
  <2> SUFFICES ASSUME TypeOK, BooksInv, BookingBudget, [Next]_vars PROVE BookingBudget'
    OBVIOUS
  <2> USE RefsAssumption DEF storeVars, workerVars, handlerVars
  <2>1. ASSUME NEW r \in Refs, CreateIntent(r) PROVE BookingBudget'
    BY <2>1, BudgetFrame DEF CreateIntent, Holders
  <2>2. ASSUME NEW r \in Refs, InsertOutboxEvent(r) PROVE BookingBudget'
    <3>1. events[r] = "none"
      BY <2>2 DEF InsertOutboxEvent, BooksInv, StoredInOrder
    <3>2. \A q \in Refs : events'[q] \notin Terminal => events[q] \notin Terminal
      BY <2>2, <3>1 DEF InsertOutboxEvent, TypeOK, Terminal
    <3>3. UNCHANGED workerEntries /\ \A q \in Refs : Holders(q)' = Holders(q)
      BY <2>2 DEF InsertOutboxEvent, Holders
    <3>4. QED
      BY <3>2, <3>3 DEF BookingBudget
  <2>3. ASSUME NEW r \in Refs, GatewaySettles(r) PROVE BookingBudget'
    BY <2>3, BudgetFrame DEF GatewaySettles, Holders
  <2>4. ASSUME NEW r \in Refs, LockExpires(r) PROVE BookingBudget'
    BY <2>4, BudgetFrame DEF LockExpires, Holders
  <2>5. ASSUME NEW h \in Handlers, NEW e \in WebhookEvents, ReceiveWebhook(h, e)
        PROVE  BookingBudget'
    BY <2>5, BudgetFrame DEF ReceiveWebhook, Holders
  <2>6. ASSUME NEW h \in Handlers, HandlerFindIntent(h) PROVE BookingBudget'
    BY <2>6, BudgetFrame DEF HandlerFindIntent, Holders
  <2>7. ASSUME NEW h \in Handlers, HandlerVerify(h) PROVE BookingBudget'
    BY <2>7, BudgetFrame DEF HandlerVerify, Holders
  <2>8. ASSUME NEW h \in Handlers, HandlerDropInbox(h) PROVE BookingBudget'
    BY <2>8, BudgetFrame DEF HandlerDropInbox, Holders
  <2>9. ASSUME NEW h \in Handlers, HandlerApply(h) PROVE BookingBudget'
    BY <2>9, BudgetFrame DEF HandlerApply, Holders
  <2>10. ASSUME NEW h \in Handlers, HandlerCrash(h) PROVE BookingBudget'
    BY <2>10, BudgetFrame DEF HandlerCrash, Holders
  <2>11. ASSUME NEW w \in Workers, ClaimPending(w) PROVE BookingBudget'
    <3>1. UNCHANGED <<events, workerEntries>>
      BY <2>11 DEF ClaimPending
    <3>2. ASSUME NEW r \in Refs
          PROVE  workerEntries'[r] + Cardinality(Holders(r)') <= Cardinality(Workers)
      <4>1. Holders(r) \in SUBSET Workers /\ Holders(r)' \in SUBSET Workers
        BY DEF Holders
      <4>2. /\ Cardinality(Holders(r)) \in Nat /\ Cardinality(Holders(r)') \in Nat
            /\ Cardinality(Holders(r)') <= Cardinality(Workers) /\ Cardinality(Workers) \in Nat
        BY <4>1, HoldersFinite
      <4>3. CASE events[r] = "pending"
        <5>1. workerEntries'[r] = 0
          BY <3>1, <4>3 DEF BookingBudget, Terminal
        <5>2. QED
          BY <4>2, <5>1
      <4>4. CASE events[r] # "pending"
        <5>1. Holders(r)' \in SUBSET Holders(r)
          BY <2>11, <4>4 DEF ClaimPending, Oldest, Holders, TypeOK
        <5>2. Cardinality(Holders(r)') <= Cardinality(Holders(r))
          BY <4>1, <5>1, FewerHolders
        <5>3. QED
          BY <3>1, <4>2, <5>2 DEF BookingBudget, TypeOK
      <4>5. QED
        BY <4>3, <4>4
    <3>3. QED
      BY <3>1, <3>2 DEF BookingBudget
  <2>12. ASSUME NEW w \in Workers, TryAcquire(w) PROVE BookingBudget'
    BY <2>12, BudgetFrame DEF TryAcquire, DrainRest, Holders, TypeOK, BooksInv, WorkerBusy
  <2>13. ASSUME NEW w \in Workers, WorkerGetIntent(w) PROVE BookingBudget'
    BY <2>13, BudgetFrame DEF WorkerGetIntent, WorkerGoto, Holders, TypeOK
  <2>14. ASSUME NEW w \in Workers, WorkerVerify(w) PROVE BookingBudget'
    BY <2>14, BudgetFrame DEF WorkerVerify, WorkerGoto, Holders, TypeOK
  <2>15. ASSUME NEW w \in Workers, WorkerComplete(w) PROVE BookingBudget'
    <3> DEFINE ref == current[w]
    <3>1. /\ ref \in Refs /\ wpc[w] \in {"succeed", "fail"}
          /\ wpc' = [wpc EXCEPT ![w] = "release"] /\ UNCHANGED <<claimed, current>>
      BY <2>15 DEF WorkerComplete, WorkerGoto, BooksInv, WorkerBusy, TypeOK
    <3>2. \A r \in Refs : Holders(r)' \subseteq Holders(r)
      BY <3>1 DEF Holders, TypeOK
    <3>3. CASE UNCHANGED <<events, workerEntries>>
      BY <3>2, <3>3, BudgetFrame
    <3>4. CASE /\ UNCHANGED workerEntries
               /\ events' = [events EXCEPT ![ref] = "failed"]
      <4>1. ASSUME NEW r \in Refs
            PROVE  /\ events'[r] \notin Terminal => workerEntries'[r] = 0
                   /\ workerEntries'[r] + Cardinality(Holders(r)') <= Cardinality(Workers)
        <5>1. Holders(r) \in SUBSET Workers /\ Holders(r)' \in SUBSET Holders(r)
          BY <3>2 DEF Holders
        <5>2. /\ Cardinality(Holders(r)') <= Cardinality(Holders(r))
              /\ Cardinality(Holders(r)) \in Nat /\ Cardinality(Holders(r)') \in Nat
              /\ Cardinality(Workers) \in Nat
          BY <5>1, FewerHolders, HoldersFinite
        <5>3. QED
          BY <3>1, <3>4, <5>2 DEF BookingBudget, TypeOK, Terminal
      <4>2. QED
        BY <4>1 DEF BookingBudget
    <3>5. CASE /\ wpc[w] = "succeed"
               /\ events' = [events EXCEPT ![ref] = "succeeded"]
               /\ workerEntries' = [workerEntries EXCEPT ![ref] = @ + 1]
      <4>1. ASSUME NEW r \in Refs
            PROVE  /\ events'[r] \notin Terminal => workerEntries'[r] = 0
                   /\ workerEntries'[r] + Cardinality(Holders(r)') <= Cardinality(Workers)
        <5>1. Holders(r) \in SUBSET Workers /\ Holders(r)' \in SUBSET Holders(r)
          BY <3>2 DEF Holders
        <5>2. /\ Cardinality(Holders(r)') <= Cardinality(Holders(r))
              /\ Cardinality(Holders(r)) \in Nat /\ Cardinality(Holders(r)') \in Nat
              /\ Cardinality(Workers) \in Nat
          BY <5>1, FewerHolders, HoldersFinite
        <5>3. CASE r = ref
          <6>1. ref \notin claimed[w]
            BY DEF BooksInv, WorkerBusy
          <6>2. w \in Holders(r) /\ Holders(r)' \subseteq Holders(r) \ {w}
            BY <3>1, <3>5, <5>3, <6>1 DEF Holders, TypeOK
          <6>3. Cardinality(Holders(r) \ {w}) = Cardinality(Holders(r)) - 1
            BY <5>1, <6>2, OneHolderLess
          <6>4. Cardinality(Holders(r)') <= Cardinality(Holders(r) \ {w})
            BY <5>1, <6>2, FewerHolders
          <6>5. QED
            BY <3>5, <5>2, <5>3, <6>3, <6>4 DEF BookingBudget, TypeOK, Terminal
        <5>4. CASE r # ref
          BY <3>1, <3>5, <5>2, <5>4 DEF BookingBudget, TypeOK, Terminal
        <5>5. QED
          BY <5>3, <5>4
      <4>2. QED
        BY <4>1 DEF BookingBudget
    <3>6. QED
      BY <2>15, <3>3, <3>4, <3>5 DEF WorkerComplete, CompleteSucceeded, CompleteFailed
  <2>16. ASSUME NEW w \in Workers, Release(w) PROVE BookingBudget'
    BY <2>16, BudgetFrame DEF Release, DrainRest, Holders, TypeOK
  <2>17. ASSUME NEW w \in Workers, WorkerCrash(w) PROVE BookingBudget'
    BY <2>17, BudgetFrame DEF WorkerCrash, DrainRest, Holders, TypeOK
  <2>18. CASE UNCHANGED vars
    BY <2>18, BudgetFrame DEF vars, Holders
  <2>19. QED
    BY <2>1, <2>2, <2>3, <2>4, <2>5, <2>6, <2>7, <2>8, <2>9, <2>10, <2>11, <2>12,
       <2>13, <2>14, <2>15, <2>16, <2>17, <2>18
       DEF Next, InitiateStep, HandlerStep, WorkerStep
<1>3. TypeOK /\ BookingBudget => WorkerEntriesBounded
  <2> SUFFICES ASSUME TypeOK, BookingBudget, NEW r \in Refs
               PROVE  workerEntries[r] <= Cardinality(Workers)
    BY DEF WorkerEntriesBounded
  <2>1. Holders(r) \in SUBSET Workers
    BY DEF Holders
  <2>2. Cardinality(Holders(r)) \in Nat /\ Cardinality(Workers) \in Nat
    BY <2>1, HoldersFinite
  <2>3. QED
    BY <2>2 DEF BookingBudget, TypeOK
<1>4. QED
  BY <1>1, <1>2, <1>3, TypeCorrect, BooksInvariant, PTL DEF Spec

-----------------------------------------------------------------------------
(* How many charges may be shown wrongly. *)

\* The charges shown with a final status that is not the gateway's, and those about
\* to be: a handler or a worker has decided on "failed" and the gateway has not.
Mistaken ==
    {r \in Refs :
        \/ intents[r] \in Terminal /\ intents[r] # truth[r]
        \/ truth[r] # "failed" /\ \E h \in Handlers :
                hpc[h] = "fail" /\ EventRef[handling[h]] = r
        \/ truth[r] # "failed" /\ \E w \in Workers : wpc[w] = "fail" /\ current[w] = r}

MistakeBudget == Cardinality(Mistaken) <= faults

\* A set of charges has a size, and a smaller set no larger one.
LEMMA FewerRefs ==
    ASSUME NEW T \in SUBSET Refs, NEW S \in SUBSET T
    PROVE  /\ Cardinality(S) \in Nat /\ Cardinality(T) \in Nat
           /\ Cardinality(S) <= Cardinality(T)
<1>1. IsFiniteSet(T)
  BY RefsAssumption, FS_Subset
<1>2. IsFiniteSet(S)
  BY <1>1, FS_Subset
<1>3. QED
  BY <1>1, <1>2, FS_Subset, FS_CardinalityType

\* One more charge is one more at the most.
LEMMA OneRefMore ==
    ASSUME NEW T \in SUBSET Refs, NEW r \in Refs, NEW S \in SUBSET (T \cup {r})
    PROVE  /\ Cardinality(S) \in Nat /\ Cardinality(T) \in Nat
           /\ Cardinality(S) <= Cardinality(T) + 1
<1> DEFINE n == Cardinality(T)
<1>1. IsFiniteSet(T)
  BY RefsAssumption, FS_Subset
<1>2. Cardinality(T \cup {r}) = IF r \in T THEN n ELSE n + 1
  BY <1>1, FS_AddElement
<1>3. n \in Nat
  BY <1>1, FS_CardinalityType
<1>4. Cardinality(S) \in Nat /\ Cardinality(S) <= Cardinality(T \cup {r})
  BY FewerRefs
<1> HIDE DEF n
<1>5. Cardinality(S) \in Nat /\ Cardinality(S) <= n + 1
  BY <1>2, <1>3, <1>4
<1>6. QED
  BY <1>3, <1>5 DEF n

\* A step that mistakes no further charge keeps the budget.
LEMMA MistakesKept ==
    ASSUME TypeOK, MistakeBudget, Mistaken' \subseteq Mistaken,
           faults' = faults \/ faults' = faults + 1
    PROVE  MistakeBudget'
<1>1. Mistaken \in SUBSET Refs /\ Mistaken' \in SUBSET Mistaken
  BY DEF Mistaken
<1>2. /\ Cardinality(Mistaken') \in Nat /\ Cardinality(Mistaken) \in Nat
      /\ Cardinality(Mistaken') <= Cardinality(Mistaken)
  BY <1>1, FewerRefs
<1>3. faults \in Nat
  BY BoundAssumption DEF TypeOK
<1>4. QED
  BY <1>2, <1>3 DEF MistakeBudget

\* A call that goes wrong may mistake the one charge it is about.
LEMMA OneMistake ==
    ASSUME TypeOK, MistakeBudget, NEW r \in Refs, Mistaken' \subseteq Mistaken \cup {r},
           faults' = faults + 1
    PROVE  MistakeBudget'
<1>1. Mistaken \in SUBSET Refs /\ Mistaken' \in SUBSET (Mistaken \cup {r})
  BY DEF Mistaken
<1>2. /\ Cardinality(Mistaken') \in Nat /\ Cardinality(Mistaken) \in Nat
      /\ Cardinality(Mistaken') <= Cardinality(Mistaken) + 1
  BY <1>1, OneRefMore
<1>3. faults \in Nat
  BY BoundAssumption DEF TypeOK
<1>4. QED
  BY <1>2, <1>3 DEF MistakeBudget

\* No more charges are shown with a status that is not the gateway's than calls
\* went wrong, whatever stale status a handler or a worker acts on.
THEOREM ShownStatusIsTrue == Spec => []ShownIsTrue
<1> USE RefsAssumption, ProcessAssumption
<1>1. Init => MistakeBudget
  <2> SUFFICES ASSUME Init PROVE MistakeBudget
    OBVIOUS
  <2>1. Mistaken = {}
    BY DEF Init, Mistaken, Terminal
  <2>2. QED
    BY <2>1, FS_EmptySet DEF Init, MistakeBudget
<1>2. TypeOK /\ BooksInv /\ MistakeBudget /\ [Next]_vars => MistakeBudget'
  <2> SUFFICES ASSUME TypeOK, BooksInv, MistakeBudget, [Next]_vars PROVE MistakeBudget'
    OBVIOUS
  <2> DEFINE Kept == Mistaken' \subseteq Mistaken /\ (faults' = faults \/ faults' = faults + 1)
             New(r) == Mistaken' \subseteq Mistaken \cup {r} /\ faults' = faults + 1
  <2> USE DEF TypeOK, Mistaken, Terminal, Status, storeVars, workerVars, handlerVars,
          NoFault, Fault
  <2>1. ASSUME NEW r \in Refs, CreateIntent(r) PROVE Kept
    BY <2>1 DEF CreateIntent
  <2>2. ASSUME NEW r \in Refs, InsertOutboxEvent(r) PROVE Kept
    BY <2>2 DEF InsertOutboxEvent
  <2>3. ASSUME NEW r \in Refs, GatewaySettles(r) PROVE Kept
    BY <2>3 DEF GatewaySettles
  <2>4. ASSUME NEW r \in Refs, LockExpires(r) PROVE Kept
    BY <2>4 DEF LockExpires
  <2>5. ASSUME NEW h \in Handlers, NEW e \in WebhookEvents, ReceiveWebhook(h, e)
        PROVE  Kept
    BY <2>5 DEF ReceiveWebhook
  <2>6. ASSUME NEW h \in Handlers, HandlerFindIntent(h) PROVE Kept
    BY <2>6 DEF HandlerFindIntent, HandlerGoto, Answer
  <2>7. ASSUME NEW h \in Handlers, HandlerVerify(h) PROVE Kept \/ \E r \in Refs : New(r)
    <3> DEFINE ref == EventRef[handling[h]]
    <3>1. ref \in Refs
      BY <2>7 DEF HandlerVerify, BooksInv, HandlerBusy
    <3>2. CASE faults' = faults
      BY <2>7, <3>2 DEF HandlerVerify, HandlerGoto, Answer, Verify
    <3>3. CASE faults' = faults + 1
      BY <2>7, <3>1, <3>3 DEF HandlerVerify, HandlerGoto, Answer
    <3>4. QED
      BY <2>7, <3>2, <3>3 DEF HandlerVerify, Verify
  <2>8. ASSUME NEW h \in Handlers, HandlerDropInbox(h) PROVE Kept
    BY <2>8 DEF HandlerDropInbox, Answer
  <2>9. ASSUME NEW h \in Handlers, HandlerApply(h) PROVE Kept
    <3> DEFINE ref == EventRef[handling[h]]
    <3>1. handling[h] \in WebhookEvents /\ ref \in Refs
      BY <2>9 DEF HandlerApply, BooksInv, HandlerBusy
    <3>2. /\ hpc' = [hpc EXCEPT ![h] = "idle"]
          /\ handling' = [handling EXCEPT ![h] = NoEvent]
          /\ UNCHANGED <<truth, wpc, current>>
          /\ faults' = faults \/ faults' = faults + 1
      BY <2>9 DEF HandlerApply, Answer
    <3>3. CASE UNCHANGED intents
      BY <3>2, <3>3
    <3>4. CASE hpc[h] = "succeed" /\ intents' = [intents EXCEPT ![ref] = "succeeded"]
      <4>1. truth[ref] = "succeeded"
        BY <3>4 DEF BooksInv, DecisionsHold
      <4>2. QED
        BY <3>1, <3>2, <3>4, <4>1
    <3>5. CASE hpc[h] = "fail" /\ intents' = [intents EXCEPT ![ref] = "failed"]
      <4>1. truth[ref] # "failed" => ref \in Mistaken
        BY <3>1, <3>5
      <4>2. QED
        BY <3>1, <3>2, <3>5, <4>1
    <3>6. QED
      BY <2>9, <3>3, <3>4, <3>5 DEF HandlerApply, ApplyChargeOutcome
  <2>10. ASSUME NEW h \in Handlers, HandlerCrash(h) PROVE Kept
    BY <2>10 DEF HandlerCrash, Answer
  <2>11. ASSUME NEW w \in Workers, ClaimPending(w) PROVE Kept
    BY <2>11 DEF ClaimPending
  <2>12. ASSUME NEW w \in Workers, TryAcquire(w) PROVE Kept
    BY <2>12 DEF TryAcquire, DrainRest
  <2>13. ASSUME NEW w \in Workers, WorkerGetIntent(w) PROVE Kept \/ \E r \in Refs : New(r)
    <3> DEFINE ref == current[w]
    <3>1. ref \in Refs /\ intents[ref] # "none"
      BY <2>13 DEF WorkerGetIntent, BooksInv, WorkerBusy, InHandExists, StoredInOrder
    <3>2. CASE faults' = faults
      BY <2>13, <3>1, <3>2 DEF WorkerGetIntent, WorkerGoto
    <3>3. CASE faults' = faults + 1
      BY <2>13, <3>1, <3>3 DEF WorkerGetIntent, WorkerGoto
    <3>4. QED
      BY <2>13, <3>2, <3>3 DEF WorkerGetIntent
  <2>14. ASSUME NEW w \in Workers, WorkerVerify(w) PROVE Kept \/ \E r \in Refs : New(r)
    <3> DEFINE ref == current[w]
    <3>1. ref \in Refs
      BY <2>14 DEF WorkerVerify, BooksInv, WorkerBusy
    <3>2. CASE faults' = faults
      BY <2>14, <3>1, <3>2 DEF WorkerVerify, WorkerGoto, Verify
    <3>3. CASE faults' = faults + 1
      BY <2>14, <3>1, <3>3 DEF WorkerVerify, WorkerGoto
    <3>4. QED
      BY <2>14, <3>2, <3>3 DEF WorkerVerify, Verify
  <2>15. ASSUME NEW w \in Workers, WorkerComplete(w) PROVE Kept
    <3> DEFINE ref == current[w]
    <3>1. /\ ref \in Refs /\ wpc' = [wpc EXCEPT ![w] = "release"]
          /\ UNCHANGED <<truth, current, hpc, handling>>
          /\ faults' = faults \/ faults' = faults + 1
      BY <2>15 DEF WorkerComplete, WorkerGoto, BooksInv, WorkerBusy
    <3>2. CASE UNCHANGED intents
      BY <3>1, <3>2
    <3>3. CASE wpc[w] = "succeed" /\ intents' = [intents EXCEPT ![ref] = "succeeded"]
      <4>1. truth[ref] = "succeeded"
        BY <3>3 DEF BooksInv, DecisionsHold
      <4>2. QED
        BY <3>1, <3>3, <4>1
    <3>4. CASE wpc[w] = "fail" /\ intents' = [intents EXCEPT ![ref] = "failed"]
      <4>1. truth[ref] # "failed" => ref \in Mistaken
        BY <3>1, <3>4
      <4>2. QED
        BY <3>1, <3>4, <4>1
    <3>5. QED
      BY <2>15, <3>2, <3>3, <3>4 DEF WorkerComplete, CompleteSucceeded, CompleteFailed
  <2>16. ASSUME NEW w \in Workers, Release(w) PROVE Kept
    BY <2>16 DEF Release, DrainRest
  <2>17. ASSUME NEW w \in Workers, WorkerCrash(w) PROVE Kept
    BY <2>17 DEF WorkerCrash, DrainRest
  <2>18. ASSUME UNCHANGED vars PROVE Kept
    BY <2>18 DEF vars
  <2>19. Kept \/ \E r \in Refs : New(r)
    <3> HIDE DEF Kept, New
    <3>1. QED
      BY <2>1, <2>2, <2>3, <2>4, <2>5, <2>6, <2>7, <2>8, <2>9, <2>10, <2>11, <2>12,
         <2>13, <2>14, <2>15, <2>16, <2>17, <2>18
         DEF Next, InitiateStep, HandlerStep, WorkerStep
  <2>20. QED
    BY <2>19, MistakesKept, OneMistake
<1>3. TypeOK /\ MistakeBudget => ShownIsTrue
  <2> SUFFICES ASSUME TypeOK, MistakeBudget PROVE ShownIsTrue
    OBVIOUS
  <2> DEFINE shown == {r \in Refs : intents[r] \in Terminal /\ intents[r] # truth[r]}
  <2>1. Mistaken \in SUBSET Refs /\ shown \in SUBSET Mistaken
    BY DEF Mistaken
  <2>2. /\ Cardinality(shown) \in Nat /\ Cardinality(Mistaken) \in Nat
        /\ Cardinality(shown) <= Cardinality(Mistaken)
    BY <2>1, FewerRefs
  <2>3. faults \in Nat
    BY BoundAssumption DEF TypeOK
  <2> HIDE DEF shown
  <2>4. Cardinality(shown) <= faults
    BY <2>2, <2>3 DEF MistakeBudget
  <2>5. QED
    BY <2>4 DEF ShownIsTrue, shown
<1>4. QED
  BY <1>1, <1>2, <1>3, TypeCorrect, BooksInvariant, PTL DEF Spec

-----------------------------------------------------------------------------
(* Settlement implements CollectionBook. *)

BookedSet == {r \in Refs : Booked(r)}

\* A step that leaves the gateway, the intents and the ledger alone is invisible.
LEMMA Invisible ==
    ASSUME UNCHANGED <<truth, intents, webhookEntries, workerEntries>>
    PROVE  UNCHANGED <<truth, intents, BookedSet>>
BY DEF BookedSet, Booked

\* Every run of the workers, the handlers and Initiate, seen through outcomes,
\* statuses and booked charges, is a run of the abstract collection book.
THEOREM RefinesBook == Spec => ImplementsBook
<1> USE DEF BookedSet
<1>1. Init => Book!Init
  BY DEF Init, Book!Init, Booked
<1>2. TypeOK /\ BooksInv /\ [Next]_vars => [Book!Next]_<<truth, intents, BookedSet>>
  <2> SUFFICES ASSUME TypeOK, BooksInv, [Next]_vars
               PROVE  Book!Next \/ UNCHANGED <<truth, intents, BookedSet>>
    BY DEF Book!Next
  <2> DEFINE Mapped == Book!Next \/ UNCHANGED <<truth, intents, BookedSet>>
  <2> HIDE DEF Mapped
  <2> USE DEF storeVars
  <2>1. ASSUME NEW r \in Refs, CreateIntent(r) PROVE Mapped
    <3>1. CASE UNCHANGED intents
      BY <2>1, <3>1, Invisible DEF CreateIntent, Mapped
    <3>2. CASE intents' = [intents EXCEPT ![r] = "pending"]
      <4>1. intents[r] = "none" /\ UNCHANGED <<truth, BookedSet>>
        BY <2>1 DEF CreateIntent, BooksInv, StoredInOrder, Booked
      <4>2. Book!Open(r)
        BY <3>2, <4>1 DEF Book!Open
      <4>3. QED
        BY <4>2 DEF Book!Next, Mapped
    <3>3. QED
      BY <2>1, <3>1, <3>2 DEF CreateIntent
  <2>2. ASSUME NEW r \in Refs, InsertOutboxEvent(r) PROVE Mapped
    BY <2>2, Invisible DEF InsertOutboxEvent, Mapped
  <2>3. ASSUME NEW r \in Refs, GatewaySettles(r) PROVE Mapped
    <3>1. Book!Decide(r)
      BY <2>3 DEF GatewaySettles, Book!Decide, Booked
    <3>2. QED
      BY <3>1 DEF Book!Next, Mapped
  <2>4. ASSUME NEW r \in Refs, LockExpires(r) PROVE Mapped
    BY <2>4, Invisible DEF LockExpires, Mapped
  <2>5. ASSUME NEW h \in Handlers, NEW e \in WebhookEvents, ReceiveWebhook(h, e)
        PROVE  Mapped
    BY <2>5, Invisible DEF ReceiveWebhook, Mapped
  <2>6. ASSUME NEW h \in Handlers, HandlerFindIntent(h) PROVE Mapped
    BY <2>6, Invisible DEF HandlerFindIntent, Mapped
  <2>7. ASSUME NEW h \in Handlers, HandlerVerify(h) PROVE Mapped
    BY <2>7, Invisible DEF HandlerVerify, Mapped
  <2>8. ASSUME NEW h \in Handlers, HandlerDropInbox(h) PROVE Mapped
    BY <2>8, Invisible DEF HandlerDropInbox, Mapped
  <2>9. ASSUME NEW h \in Handlers, HandlerApply(h) PROVE Mapped
    <3> DEFINE ev == handling[h]
               ref == EventRef[ev]
    <3>1. /\ ev \in WebhookEvents /\ ref \in Refs /\ intents[ref] # "none"
          /\ UNCHANGED <<truth, workerEntries>>
      BY <2>9, ProcessAssumption
         DEF HandlerApply, TypeOK, BooksInv, HandlerBusy, InHandExists
    <3>2. CASE UNCHANGED <<intents, webhookEntries>>
      BY <3>1, <3>2, Invisible DEF Mapped
    <3>3. CASE /\ hpc[h] = "succeed"
               /\ intents' = [intents EXCEPT ![ref] = "succeeded"]
               /\ webhookEntries' = [webhookEntries EXCEPT ![ev] = @ + 1]
      <4>1. truth[ref] = "succeeded"
        BY <3>3 DEF BooksInv, DecisionsHold
      <4>2. /\ webhookEntries'[ev] > 0
            /\ \A e \in WebhookEvents \ {ev} : webhookEntries'[e] = webhookEntries[e]
        BY <3>1, <3>3 DEF TypeOK
      <4>3. \A r \in Refs : Booked(r)' <=> Booked(r) \/ r = ref
        BY <3>1, <4>2 DEF Booked
      <4>4. BookedSet' = BookedSet \cup {ref}
        BY <3>1, <4>3
      <4>5. Book!Book(ref)
        BY <3>1, <3>3, <4>1, <4>4 DEF Book!Book
      <4>6. QED
        BY <3>1, <4>5 DEF Book!Next, Mapped
    <3>4. CASE intents' = [intents EXCEPT ![ref] = "failed"] /\ UNCHANGED webhookEntries
      <4>1. Book!Reject(ref)
        BY <3>1, <3>4 DEF Book!Reject, Booked
      <4>2. QED
        BY <3>1, <4>1 DEF Book!Next, Mapped
    <3>5. QED
      BY <2>9, <3>2, <3>3, <3>4 DEF HandlerApply, ApplyChargeOutcome
  <2>10. ASSUME NEW h \in Handlers, HandlerCrash(h) PROVE Mapped
    BY <2>10, Invisible DEF HandlerCrash, Mapped
  <2>11. ASSUME NEW w \in Workers, ClaimPending(w) PROVE Mapped
    BY <2>11, Invisible DEF ClaimPending, Mapped
  <2>12. ASSUME NEW w \in Workers, TryAcquire(w) PROVE Mapped
    BY <2>12, Invisible DEF TryAcquire, Mapped
  <2>13. ASSUME NEW w \in Workers, WorkerGetIntent(w) PROVE Mapped
    BY <2>13, Invisible DEF WorkerGetIntent, Mapped
  <2>14. ASSUME NEW w \in Workers, WorkerVerify(w) PROVE Mapped
    BY <2>14, Invisible DEF WorkerVerify, Mapped
  <2>15. ASSUME NEW w \in Workers, WorkerComplete(w) PROVE Mapped
    <3> DEFINE ref == current[w]
    <3>1. /\ ref \in Refs /\ intents[ref] # "none"
          /\ UNCHANGED <<truth, webhookEntries>>
      BY <2>15 DEF WorkerComplete, TypeOK, BooksInv, WorkerBusy, InHandExists, StoredInOrder
    <3>2. CASE UNCHANGED <<intents, workerEntries>>
      BY <3>1, <3>2, Invisible DEF Mapped
    <3>3. CASE /\ wpc[w] = "succeed"
               /\ intents' = [intents EXCEPT ![ref] = "succeeded"]
               /\ workerEntries' = [workerEntries EXCEPT ![ref] = @ + 1]
      <4>1. truth[ref] = "succeeded"
        BY <3>3 DEF BooksInv, DecisionsHold
      <4>2. /\ workerEntries'[ref] > 0
            /\ \A r \in Refs \ {ref} : workerEntries'[r] = workerEntries[r]
        BY <3>1, <3>3 DEF TypeOK
      <4>3. \A r \in Refs : Booked(r)' <=> Booked(r) \/ r = ref
        BY <3>1, <4>2 DEF Booked
      <4>4. BookedSet' = BookedSet \cup {ref}
        BY <3>1, <4>3
      <4>5. Book!Book(ref)
        BY <3>1, <3>3, <4>1, <4>4 DEF Book!Book
      <4>6. QED
        BY <3>1, <4>5 DEF Book!Next, Mapped
    <3>4. CASE intents' = [intents EXCEPT ![ref] = "failed"] /\ UNCHANGED workerEntries
      <4>1. Book!Reject(ref)
        BY <3>1, <3>4 DEF Book!Reject, Booked
      <4>2. QED
        BY <3>1, <4>1 DEF Book!Next, Mapped
    <3>5. QED
      BY <2>15, <3>2, <3>3, <3>4 DEF WorkerComplete, CompleteSucceeded, CompleteFailed
  <2>16. ASSUME NEW w \in Workers, Release(w) PROVE Mapped
    BY <2>16, Invisible DEF Release, Mapped
  <2>17. ASSUME NEW w \in Workers, WorkerCrash(w) PROVE Mapped
    BY <2>17, Invisible DEF WorkerCrash, Mapped
  <2>18. CASE UNCHANGED vars
    BY <2>18, Invisible DEF vars, Mapped
  <2>19. QED
    BY <2>1, <2>2, <2>3, <2>4, <2>5, <2>6, <2>7, <2>8, <2>9, <2>10, <2>11, <2>12,
       <2>13, <2>14, <2>15, <2>16, <2>17, <2>18
       DEF Next, Mapped, InitiateStep, HandlerStep, WorkerStep
<1>3. QED
  BY <1>1, <1>2, TypeCorrect, BooksInvariant, PTL DEF Spec, ImplementsBook, Book!Spec
=============================================================================
