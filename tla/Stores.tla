------------------------------- MODULE Stores --------------------------------
(***************************************************************************)
(* PostgresStore and MemoryStore under the same calls.  Build puts the     *)
(* second in the place of the first when the database cannot be reached    *)
(* outside production; the services cannot tell which one they talk to.    *)
(* Every call is one transaction there and one critical section here, so   *)
(* the two are run in lockstep and compared.                               *)
(*                                                                         *)
(* A run ends with the first call that a constraint of the tables refuses, *)
(* that names a charge nobody stored, or that uses an idempotency key      *)
(* which, joined to its product, reads like another one in use:            *)
(* MemoryStore has no constraints, synthesizes what it misses and keeps    *)
(* keys as joined strings.                                                 *)
(***************************************************************************)
EXTENDS Integers, Sequences, FiniteSets

CONSTANTS
    Refs,        \* references of charges
    Keys,        \* pairs of a product and an idempotency key
    Joined,      \* the string "product:key" of each pair
    Events,      \* ids of webhook events
    Price,       \* the amount of every intent
    Reported,    \* the amounts a gateway may report
    Guess,       \* the 1800 pesewas MemoryStore books for want of an amount
    MaxEntries,  \* bound on ledger entries
    NoRef, NoKey

ASSUME StoresAssumption ==
    /\ Joined \in [Keys -> STRING]
    /\ Price \in Nat \ {0} /\ Reported \subseteq Nat \ {0} /\ Guess \in Nat \ {0}
    /\ MaxEntries \in Nat
    /\ NoRef \notin Refs /\ NoKey \notin Keys

VARIABLES
    pg,        \* PostgreSQL: intents by reference, keys, outbox rows, inbox, ledger
    mem,       \* MemoryStore: the same as maps
    said,      \* what the last call answered in either: success, or the charge found
    strained   \* was there a call the two need not agree on?

storesVars == <<pg, mem, said, strained>>

\* The strings under which MemoryStore keeps keys.
Joins == {Joined[k] : k \in Keys}

\* An entry knows its amount, whether somebody told that amount, and whether
\* settlement_time is set.
Entry == [amount : {0, Price, Guess} \cup Reported, told : BOOLEAN, settled : BOOLEAN]

StoresTypeOK ==
    /\ \A s \in {pg, mem} :
          /\ s.intent \in [Refs -> {"none", "pending", "succeeded", "failed"}]
          /\ s.outbox \in [Refs -> {"none", "pending", "succeeded", "failed"}]
          /\ s.inbox \subseteq Events
          /\ s.ledger \in [Refs -> Seq(Entry)]
    /\ pg.idem \in [Keys -> Refs \cup {NoRef}]
    /\ mem.idem \in [Joins -> Refs \cup {NoRef}]
    /\ \A i \in 1..2 : said[i] \in BOOLEAN \cup Refs \cup {NoRef}
    /\ strained \in BOOLEAN

Empty(keys) ==
    [intent |-> [r \in Refs |-> "none"], outbox |-> [r \in Refs |-> "none"],
     idem |-> [k \in keys |-> NoRef], inbox |-> {}, ledger |-> [r \in Refs |-> <<>>]]

StoresInit ==
    /\ pg = Empty(Keys) /\ mem = Empty(Joins)
    /\ said = <<TRUE, TRUE>> /\ strained = FALSE

Stored(r) == pg.intent[r] # "none"

\* Another pair of product and key that reads the same once joined has a charge.
Shared(k) == \E j \in Keys \ {k} : Joined[j] = Joined[k] /\ pg.idem[j] # NoRef

Entries(s) == {e \in Refs \X (1..MaxEntries) : e[2] <= Len(s.ledger[e[1]])}
Room == Cardinality(Entries(mem)) < MaxEntries

\* One call on both stores, which changes PostgreSQL only if the tables accept it.
\* fits: neither refused, nor about something that is not there.
Call(fits, accepted, pgAfter, memAfter, memOk) ==
    /\ ~strained
    /\ strained' = ~fits
    /\ pg' = IF accepted THEN pgAfter ELSE pg
    /\ mem' = memAfter
    /\ said' = <<accepted, memOk>>

----------------------------------------------------------------------------
(* Webhooks.                                                               *)

InsertWebhookInbox(e) ==
    /\ ~strained
    /\ pg' = [pg EXCEPT !.inbox = @ \cup {e}]
    /\ mem' = [mem EXCEPT !.inbox = @ \cup {e}]
    /\ said' = <<e \notin pg.inbox, e \notin mem.inbox>>
    /\ UNCHANGED strained

DeleteWebhookInbox(e) ==
    Call(TRUE, TRUE, [pg EXCEPT !.inbox = @ \ {e}], [mem EXCEPT !.inbox = @ \ {e}], TRUE)

Booked(s, r, entry) == [s EXCEPT !.ledger[r] = Append(@, entry)]
Marked(s, r, status) == [s EXCEPT !.intent[r] = IF @ = "none" THEN @ ELSE status]

\* Process has found the intent.  A success without an amount (0) has a Money without
\* a currency, which ledger_entries refuses.
ApplyChargeOutcome(r, status, amount) ==
    LET entry == [amount |-> amount, told |-> amount # 0, settled |-> FALSE]
        After(s) == IF status = "succeeded" THEN Booked(Marked(s, r, status), r, entry)
                    ELSE Marked(s, r, status)
        accepted == status = "failed" \/ amount # 0
    IN  /\ Stored(r) /\ Room
        /\ Call(accepted, accepted, After(pg), After(mem), TRUE)

----------------------------------------------------------------------------
(* Charges.                                                                *)

\* References are fresh; storable says whether amount, currency and gateway pass the
\* checks of payment_intents.  Its keys are unique as pairs, MemoryStore's are the
\* strings, and the later one wins.
CreateIntent(r, k, storable) ==
    LET accepted == storable /\ (k # NoKey => pg.idem[k] = NoRef)
        fits == accepted /\ (k # NoKey => ~Shared(k))
        Into(s, i) == [s EXCEPT !.intent[r] = "pending",
                                !.idem = IF k = NoKey THEN @ ELSE [@ EXCEPT ![i] = r]]
    IN  /\ ~Stored(r)
        /\ Call(fits, accepted, Into(pg, k),
                Into(mem, IF k = NoKey THEN k ELSE Joined[k]), TRUE)

\* What Initiate asks before it does anything else.
FindByIdempotencyKey(k) ==
    /\ ~strained
    /\ strained' = Shared(k)
    /\ said' = <<pg.idem[k], mem.idem[Joined[k]]>>
    /\ UNCHANGED <<pg, mem>>

\* gateway_events refers to payment_intents; MemoryStore makes up the intent.
InsertOutboxEvent(r) ==
    /\ pg.outbox[r] = "none"
    /\ Call(Stored(r), Stored(r), [pg EXCEPT !.outbox[r] = "pending"],
            [mem EXCEPT !.outbox[r] = "pending",
                        !.intent[r] = IF @ = "none" THEN "pending" ELSE @], TRUE)

\* An UPDATE that finds no row is no error in PostgreSQL.
UpdateStatus(r, status) ==
    Call(Stored(r), TRUE, Marked(pg, r, status), Marked(mem, r, status),
         mem.intent[r] # "none")

----------------------------------------------------------------------------
(* The ledger service.                                                     *)

RecordCollection(r, amount) ==
    LET entry == [amount |-> amount, told |-> TRUE, settled |-> FALSE] IN
    /\ Room
    /\ Call(TRUE, TRUE, Booked(pg, r, entry), Booked(mem, r, entry), TRUE)

Unsettled(s, r) == \E i \in 1..Len(s.ledger[r]) : ~s.ledger[r][i].settled

Stamped(s, r) ==
    [s EXCEPT !.ledger[r] = [i \in 1..Len(@) |-> [@[i] EXCEPT !.settled = TRUE]]]

\* Mutant: only the first unsettled entry is stamped.
MemStampFirst(s, r) ==
    [s EXCEPT !.ledger[r] = [i \in 1..Len(@) |->
        IF \A j \in 1..(i - 1) : @[j].settled THEN [@[i] EXCEPT !.settled = TRUE]
        ELSE @[i]]]

\* StampSettlement of MemoryStore, entry by entry.
MemStamp(s, r) ==
    [s EXCEPT !.ledger[r] = [i \in 1..Len(@) |->
        IF @[i].settled THEN @[i] ELSE [@[i] EXCEPT !.settled = TRUE]]]

ConfirmSettlement(r) ==
    /\ ~strained
    /\ pg' = Stamped(pg, r) /\ mem' = MemStamp(mem, r)
    /\ said' = <<Unsettled(pg, r), Unsettled(mem, r)>>
    /\ UNCHANGED strained

----------------------------------------------------------------------------
(* The worker.  It completes rows it has claimed, some of them completed   *)
(* by another since.                                                       *)

\* The amount of GetIntent: MemoryStore does not keep it.
MemAmount(r) ==
    IF mem.ledger[r] = <<>> \/ mem.ledger[r][1].amount = 0 THEN Guess
    ELSE mem.ledger[r][1].amount

\* amount is 0 when the gateway reports none.
CompleteSucceeded(r, amount) ==
    LET entry(own) == [amount  |-> IF amount = 0 THEN own ELSE amount,
                       told    |-> amount # 0,
                       settled |-> FALSE]
        After(s, own) == [Booked(Marked(s, r, "succeeded"), r, entry(own))
                            EXCEPT !.outbox[r] = "succeeded"]
    IN  /\ pg.outbox[r] # "none" /\ Room
        /\ Call(TRUE, TRUE, After(pg, Price), After(mem, MemAmount(r)), TRUE)

CompleteFailed(r) ==
    /\ pg.outbox[r] # "none"
    /\ Call(TRUE, TRUE, [Marked(pg, r, "failed") EXCEPT !.outbox[r] = "failed"],
                        [Marked(mem, r, "failed") EXCEPT !.outbox[r] = "failed"], TRUE)

StoresNext ==
    \/ \E e \in Events : InsertWebhookInbox(e) \/ DeleteWebhookInbox(e)
    \/ \E k \in Keys : FindByIdempotencyKey(k)
    \/ \E r \in Refs :
          \/ \E k \in Keys \cup {NoKey}, b \in BOOLEAN : CreateIntent(r, k, b)
          \/ InsertOutboxEvent(r)
          \/ \E s \in {"succeeded", "failed"} :
                \/ UpdateStatus(r, s)
                \/ \E a \in Reported \cup {0} : ApplyChargeOutcome(r, s, a)
          \/ \E a \in Reported : RecordCollection(r, a)
          \/ ConfirmSettlement(r)
          \/ \E a \in Reported \cup {0} : CompleteSucceeded(r, a)
          \/ CompleteFailed(r)

StoresSpec == StoresInit /\ [][StoresNext]_storesVars

----------------------------------------------------------------------------
(* MemoryStore stands in for PostgreSQL.  Up to the first call that a      *)
(* constraint refuses, that names an unknown charge or whose key reads     *)
(* like another one in use, every call, lookups of keys included, is       *)
(* answered alike, and afterwards both hold the same charges, statuses,    *)
(* outbox rows and events and the same charge, or none, under every key    *)
(* that reads like no other one in use; the ledgers differ only in the     *)
(* amounts nobody told, which MemoryStore guesses.                         *)
MemoryStandsIn ==
    ~strained =>
        /\ said[1] = said[2]
        /\ pg.intent = mem.intent /\ pg.outbox = mem.outbox /\ pg.inbox = mem.inbox
        /\ \A k \in Keys : ~Shared(k) => mem.idem[Joined[k]] = pg.idem[k]
        /\ \A r \in Refs :
              /\ Len(pg.ledger[r]) = Len(mem.ledger[r])
              /\ \A i \in 1..Len(pg.ledger[r]) :
                    LET p == pg.ledger[r][i]
                        m == mem.ledger[r][i]
                    IN  p.settled = m.settled /\ p.told = m.told
                        /\ (p.told => p.amount = m.amount)
=============================================================================
