--------------------------- MODULE DeploymentProofs -------------------------
(***************************************************************************)
(* Proofs about what a deployment rests on: Startup for any settings,      *)
(* notifications, numbers of requests and restarts, Stores for any         *)
(* references, keys and events, Apps for any numbers of apps, names and    *)
(* concurrent calls, Money for any width of its integers and any requests. *)
(* The modules share no state.                                             *)
(***************************************************************************)
EXTENDS Startup, Stores, Apps, Money, TLAPS

-----------------------------------------------------------------------------
(* Startup: the life of a process, its settings and webhook signatures. *)

Stages == {"load", "pool", "valkey", "up", "draining", "closing", "stopped", "refused"}

\* What a process holds at each stage of its life.
StageInv ==
    /\ stage \in Stages
    /\ pool \in {"none", "open", "closed"} /\ valkey \in {"none", "open", "closed"}
    /\ busy \in Nat /\ cut \in BOOLEAN
    /\ stage \in {"load", "pool"} => pool = "none"
    /\ stage \in {"load", "pool", "valkey"} => valkey = "none"
    /\ stage \in {"valkey", "up", "draining", "closing"} => pool # "closed" /\ valkey # "closed"
    /\ stage \in {"load", "pool", "valkey", "refused"} => busy = 0
    /\ stage \in {"stopped", "refused"} => pool # "open" /\ valkey # "open"
    /\ stage = "stopped" /\ busy > 0 => cut

\* StageInv is an invariant of a process.
LEMMA StageKept == StartupSpec => []StageInv
<1>1. StartupInit => StageInv
  <2> SUFFICES ASSUME StartupInit PROVE StageInv
    OBVIOUS
  <2>1. /\ stage = "load" /\ pool = "none" /\ valkey = "none"
        /\ busy = 0 /\ cut = FALSE
    BY Zenon DEF StartupInit
  <2>2. QED
    BY <2>1 DEF StageInv, Stages
<1>2. StageInv /\ [StartupNext]_startupVars => StageInv'
  <2> SUFFICES ASSUME StageInv, [StartupNext]_startupVars PROVE StageInv'
    OBVIOUS
  <2> USE DEF StageInv, Stages, connVars, hookVars
  <2>1. CASE Load
    BY <2>1 DEF Load
  <2>2. CASE OpenPool
    BY <2>2 DEF OpenPool
  <2>3. CASE OpenValkey
    BY <2>3 DEF OpenValkey, Closed
  <2>4. CASE Begin \/ End \/ Signal \/ StopListening
    <3>1. CASE Begin
      BY <3>1 DEF Begin
    <3>2. CASE End
      <4>1. busy' \in Nat
        BY <3>2 DEF End
      <4>2. QED
        BY <3>2, <4>1 DEF End
    <3>3. CASE Signal \/ StopListening
      BY <3>3 DEF Signal, StopListening
    <3>4. QED
      BY <2>4, <3>1, <3>2, <3>3
  <2>5. CASE Shutdown \/ ShutdownTimesOut \/ ServeFails
    <3>1. /\ stage' = "stopped" /\ busy' = busy
          /\ pool' = Closed(pool) /\ valkey' = Closed(valkey)
      BY <2>5 DEF Shutdown, ShutdownTimesOut, ServeFails, Close
    <3>2. cut' = TRUE \/ (cut' = cut /\ busy' = 0)
      BY <2>5, <3>1, Zenon DEF Shutdown, ShutdownTimesOut, ServeFails
    <3>3. /\ pool' \in {"none", "closed"} /\ valkey' \in {"none", "closed"}
          /\ busy' \in Nat
      BY <3>1 DEF Closed
    <3>4. cut' \in BOOLEAN
      BY <3>2, Zenon
    <3>5. busy' > 0 => cut'
      <4>1. CASE cut' = TRUE
        BY <4>1, Zenon
      <4>2. CASE busy' = 0
        BY <4>2
      <4>3. QED
        BY <3>2, <4>1, <4>2
    <3>6. QED
      BY <3>1, <3>3, <3>4, <3>5
  <2>6. CASE Restart
    BY <2>6 DEF Restart
  <2>7. ASSUME NEW d \in Deliveries, HandleWebhook(d) PROVE StageInv'
    BY <2>7 DEF HandleWebhook
  <2>8. CASE UNCHANGED startupVars
    BY <2>8 DEF startupVars
  <2>9. QED
    BY <2>1, <2>2, <2>3, <2>4, <2>5, <2>6, <2>7, <2>8 DEF StartupNext
<1>3. QED
  BY <1>1, <1>2, PTL DEF StartupSpec

\* Connections are closed last: no exit of Build or run leaves one open, and nothing
\* works on a closed one unless srv.Shutdown timed out or ListenAndServe failed.
THEOREM ConnectionsCloseLast == StartupSpec => []CloseIsLast
<1>1. StageInv => CloseIsLast
  BY DEF StageInv, Stages, CloseIsLast
<1>2. QED
  BY <1>1, StageKept, PTL

-----------------------------------------------------------------------------
\* A limit by address that came through rateLimitConfig is positive.
LEMMA LimitPositive ==
    ASSUME NEW e \in Environs PROVE ConfigOf(e).ip > 0
<1>1. e.rps \in Int /\ e.ipPerMinute \in Int
  BY StartupAssumption
<1>2. IpPerMinute(e) > 0
  BY <1>1 DEF IpPerMinute, AtLeastOne, IntVar, Unset
<1>3. QED
  BY <1>2 DEF ConfigOf

\* In production the gate lets only signed notifications through.
LEMMA ProductionIsSigned ==
    ASSUME NEW d \in Deliveries, Accepts(d), Production PROVE Vouched(d)
<1>1. VerifyWebhook(d)
  BY DEF Accepts
<1>2. QED
  BY <1>1 DEF VerifyWebhook, Legacy, Vouched

\* Each stage of the start-up keeps its part of the promise, and what the earlier
\* ones have checked stays in force.
GuardInv ==
    /\ Production => cfg.apiKey /\ cfg.level # "debug" /\ cfg.ip > 0
    /\ stage = "load" \/ Production => unsigned = {}
    /\ stage \in {"valkey", "up", "draining", "closing"} /\ Production => pool = "open"
    /\ stage \in {"up", "draining", "closing"} /\ Production => valkey = "open"

\* A process that works in production has its connections, its API key and a limit,
\* and took only signed notifications, for every setting it may be started with.
THEOREM ProductionGuarded == StartupSpec => []ProductionIsGuarded
<1>1. StartupInit => GuardInv
  <2> SUFFICES ASSUME StartupInit PROVE GuardInv
    OBVIOUS
  <2>1. stage = "load" /\ cfg = NoConfig /\ unsigned = {}
    BY Zenon DEF StartupInit
  <2>2. ~Production
    BY <2>1 DEF NoConfig, Production
  <2>3. QED
    BY <2>1, <2>2 DEF GuardInv
<1>2. GuardInv /\ [StartupNext]_startupVars => GuardInv'
  <2> SUFFICES ASSUME GuardInv, [StartupNext]_startupVars PROVE GuardInv'
    OBVIOUS
  <2> USE DEF GuardInv, connVars, hookVars
  <2>1. CASE Load
    <3>1. PICK e \in Environs :
            IF Validate(e) THEN stage' = "pool" /\ cfg' = ConfigOf(e)
            ELSE stage' = "refused" /\ UNCHANGED cfg
      BY <2>1 DEF Load
    <3>2. CASE Validate(e)
      <4>1. stage' = "pool" /\ cfg' = ConfigOf(e)
        BY <3>1, <3>2
      <4>2. Production' => cfg'.apiKey /\ cfg'.level # "debug"
        BY <3>2, <4>1 DEF Validate, Production
      <4>3. cfg'.ip > 0
        BY <4>1, LimitPositive
      <4>4. QED
        BY <2>1, <4>1, <4>2, <4>3 DEF Load
    <3>3. CASE ~Validate(e)
      BY <2>1, <3>1, <3>3 DEF Load, Production
    <3>4. QED
      BY <3>2, <3>3
  <2>2. CASE OpenPool
    BY <2>2 DEF OpenPool, Production
  <2>3. CASE OpenValkey
    BY <2>3 DEF OpenValkey, Production
  <2>4. CASE Begin \/ End \/ Signal \/ StopListening
    BY <2>4 DEF Begin, End, Signal, StopListening, Production
  <2>5. CASE Shutdown \/ ShutdownTimesOut \/ ServeFails
    BY <2>5 DEF Shutdown, ShutdownTimesOut, ServeFails, Close, Production
  <2>6. CASE Restart
    BY <2>6 DEF Restart, NoConfig, Production
  <2>7. ASSUME NEW d \in Deliveries, HandleWebhook(d) PROVE GuardInv'
    <3>1. Production => unsigned' = unsigned
      BY <2>7, ProductionIsSigned DEF HandleWebhook
    <3>2. UNCHANGED <<stage, cfg, pool, valkey>> /\ stage # "load"
      BY <2>7 DEF HandleWebhook
    <3>3. QED
      BY <3>1, <3>2 DEF Production
  <2>8. CASE UNCHANGED startupVars
    BY <2>8 DEF startupVars, Production
  <2>9. QED
    BY <2>1, <2>2, <2>3, <2>4, <2>5, <2>6, <2>7, <2>8 DEF StartupNext
<1>3. GuardInv => ProductionIsGuarded
  BY DEF GuardInv, ProductionIsGuarded
<1>4. QED
  BY <1>1, <1>2, <1>3, PTL DEF StartupSpec

-----------------------------------------------------------------------------
\* The id under which a notification is kept.
IdOf(n) == <<IF n.gw = "paystack" THEN n.event ELSE "", n.tx>>

\* Every row of either inbox comes from a notification that was seen.
InboxInv ==
    /\ DOMAIN inbox = {"postgres", "memory"}
    /\ \A n \in seen : n = [gw |-> n.gw, event |-> n.event, tx |-> n.tx]
    /\ \A place \in {"postgres", "memory"} : \A id \in inbox[place] : \E n \in seen : IdOf(n) = id
    /\ DuplicateWasSeen

\* Nothing is turned away as a duplicate that was not seen before: the ids of
\* parsePayload tell Paystack's events apart and all transactions.
THEOREM DuplicatesWereSeen == StartupSpec => []DuplicateWasSeen
<1>1. StartupInit => InboxInv
  BY DEF StartupInit, InboxInv, DuplicateWasSeen
<1>2. InboxInv /\ [StartupNext]_startupVars => InboxInv'
  <2> SUFFICES ASSUME InboxInv, [StartupNext]_startupVars PROVE InboxInv'
    OBVIOUS
  <2>1. CASE UNCHANGED hookVars
    BY <2>1 DEF hookVars, InboxInv, DuplicateWasSeen
  <2>2. CASE Restart
    BY <2>2 DEF Restart, InboxInv, DuplicateWasSeen
  <2>3. ASSUME NEW d \in Deliveries, HandleWebhook(d) PROVE InboxInv'
    <3>1. IdOf(Notice(d)) = EventId(d)
      BY DEF IdOf, Notice, EventId
    <3>2. Store \in {"postgres", "memory"}
      BY DEF Store
    <3>3. CASE UNCHANGED <<inbox, seen, acked>>
      BY <3>3 DEF InboxInv, DuplicateWasSeen
    <3>4. CASE EventId(d) \in inbox[Store] /\ acked' = Notice(d) /\ UNCHANGED <<inbox, seen>>
      <4>1. PICK n \in seen : IdOf(n) = EventId(d)
        BY <3>2, <3>4 DEF InboxInv
      <4>2. n.tx = d.tx
        BY <4>1 DEF IdOf, EventId
      <4>3. ASSUME d.gw = "paystack", d.event # "" PROVE n.gw = "paystack" /\ n.event = d.event
        BY <4>1, <4>3 DEF IdOf, EventId
      <4>4. n = [gw |-> n.gw, event |-> n.event, tx |-> n.tx]
        BY DEF InboxInv
      <4>5. DuplicateWasSeen'
        BY <3>4, <4>2, <4>3, <4>4 DEF DuplicateWasSeen, Notice
      <4>6. QED
        BY <3>4, <4>5 DEF InboxInv
    <3>5. CASE /\ seen' = seen \cup {Notice(d)}
               /\ inbox' \in {inbox, [inbox EXCEPT ![Store] = @ \cup {EventId(d)}]}
               /\ UNCHANGED acked
      <4>1. DOMAIN inbox' = {"postgres", "memory"}
        BY <3>5 DEF InboxInv
      <4>2. \A n \in seen' : n = [gw |-> n.gw, event |-> n.event, tx |-> n.tx]
        BY <3>5 DEF InboxInv, Notice
      <4>3. ASSUME NEW place \in {"postgres", "memory"}, NEW id \in inbox'[place]
            PROVE  \E n \in seen' : IdOf(n) = id
        <5>1. id \in inbox[place] \/ id = EventId(d)
          BY <3>2, <3>5 DEF InboxInv
        <5>2. QED
          BY <3>1, <3>5, <5>1 DEF InboxInv
      <4>4. DuplicateWasSeen'
        BY <3>5 DEF InboxInv, DuplicateWasSeen
      <4>5. QED
        BY <4>1, <4>2, <4>3, <4>4 DEF InboxInv
    <3>6. QED
      BY <2>3, <3>3, <3>4, <3>5 DEF HandleWebhook
  <2>4. QED
    BY <2>1, <2>2, <2>3 DEF StartupNext, startupVars, hookVars, Load, OpenPool, OpenValkey,
       Begin, End, Signal, StopListening, Shutdown, ShutdownTimesOut, ServeFails, Close
<1>3. QED
  BY <1>1, <1>2, PTL DEF StartupSpec, InboxInv

-----------------------------------------------------------------------------
(* Stores: MemoryStore stands in for PostgreSQL. *)

Status == {"none", "pending", "succeeded", "failed"}

\* The shape of a store whose keys are names.
StoreOf(names) ==
    [intent : [Refs -> Status], outbox : [Refs -> Status],
     idem : [names -> Refs \cup {NoRef}], inbox : SUBSET Events,
     ledger : [Refs -> Seq(Entry)]]

\* What two ledger entries of the same collection have in common.
SameEntry(p, m) ==
    p.settled = m.settled /\ p.told = m.told /\ (p.told => p.amount = m.amount)

SameLedger(p, m) ==
    Len(p) = Len(m) /\ \A i \in 1..Len(p) : SameEntry(p[i], m[i])

\* PostgreSQL's p and MemoryStore's m hold the same; what MemoryStore has under a string
\* belongs to one of the keys that read like it.
Agree(p, m) ==
    /\ p \in StoreOf(Keys) /\ m \in StoreOf(Joins)
    /\ p.intent = m.intent /\ p.outbox = m.outbox /\ p.inbox = m.inbox
    /\ \A k \in Keys : p.idem[k] # NoRef => m.idem[Joined[k]] = p.idem[k]
    /\ \A k \in Keys : m.idem[Joined[k]] # NoRef =>
          \E j \in Keys : Joined[j] = Joined[k] /\ p.idem[j] = m.idem[Joined[k]]
    /\ \A r \in Refs : SameLedger(p.ledger[r], m.ledger[r])

\* Ledgers that agree still do when both get an entry for the same collection.
LEMMA AppendAgrees ==
    ASSUME NEW p \in Seq(Entry), NEW m \in Seq(Entry), SameLedger(p, m),
           NEW x \in Entry, NEW y \in Entry, SameEntry(x, y)
    PROVE  /\ Append(p, x) \in Seq(Entry) /\ Append(m, y) \in Seq(Entry)
           /\ SameLedger(Append(p, x), Append(m, y))
BY DEF SameLedger

\* Ledgers that agree still do when both are stamped, each in its own way.
LEMMA StampAgrees ==
    ASSUME NEW p, NEW m, Agree(p, m), NEW r \in Refs
    PROVE  /\ Agree(Stamped(p, r), MemStamp(m, r))
           /\ Unsettled(p, r) = Unsettled(m, r)
<1> DEFINE a == p.ledger[r]
           b == m.ledger[r]
           c == [i \in 1..Len(a) |-> [a[i] EXCEPT !.settled = TRUE]]
           d == [i \in 1..Len(b) |-> IF b[i].settled THEN b[i] ELSE [b[i] EXCEPT !.settled = TRUE]]
<1>1. /\ a \in Seq(Entry) /\ b \in Seq(Entry) /\ SameLedger(a, b)
      /\ Stamped(p, r) = [p EXCEPT !.ledger[r] = c]
      /\ MemStamp(m, r) = [m EXCEPT !.ledger[r] = d]
  BY DEF Agree, StoreOf, Stamped, MemStamp
<1>2. \A i \in 1..Len(a) : a[i] \in Entry /\ b[i] \in Entry /\ SameEntry(a[i], b[i])
  BY <1>1 DEF SameLedger
<1>3. Unsettled(p, r) = Unsettled(m, r)
  BY <1>1, <1>2 DEF SameLedger, SameEntry, Unsettled
<1> HIDE DEF a, b
<1>4. c \in Seq(Entry) /\ d \in Seq(Entry) /\ Len(c) = Len(a) /\ Len(d) = Len(b)
  <2>1. \A i \in 1..Len(a) : c[i] \in Entry
    BY <1>2 DEF Entry
  <2>2. \A i \in 1..Len(b) : d[i] \in Entry
    BY <1>1, <1>2 DEF SameLedger, Entry
  <2>3. Len(a) \in Nat /\ Len(b) \in Nat
    BY <1>1
  <2>4. QED
    BY <2>1, <2>2, <2>3
<1>5. SameLedger(c, d)
  <2>1. Len(a) = Len(b)
    BY <1>1 DEF SameLedger
  <2>2. ASSUME NEW i \in 1..Len(a) PROVE SameEntry(c[i], d[i])
    BY <1>2, <2>1 DEF SameEntry, Entry
  <2>3. QED
    BY <1>4, <2>1, <2>2 DEF SameLedger
<1> HIDE DEF c, d
<1>6. Agree([p EXCEPT !.ledger[r] = c], [m EXCEPT !.ledger[r] = d])
  BY <1>4, <1>5 DEF Agree, StoreOf
<1>7. QED
  BY <1>1, <1>3, <1>6

\* So do stores that both book a collection,
LEMMA BookAgrees ==
    ASSUME NEW p, NEW m, Agree(p, m), NEW r \in Refs,
           NEW x \in Entry, NEW y \in Entry, SameEntry(x, y)
    PROVE  Agree(Booked(p, r, x), Booked(m, r, y))
<1>1. /\ p.ledger[r] \in Seq(Entry) /\ m.ledger[r] \in Seq(Entry)
      /\ SameLedger(p.ledger[r], m.ledger[r])
  BY DEF Agree, StoreOf
<1>2. /\ Append(p.ledger[r], x) \in Seq(Entry) /\ Append(m.ledger[r], y) \in Seq(Entry)
      /\ SameLedger(Append(p.ledger[r], x), Append(m.ledger[r], y))
  BY <1>1, AppendAgrees
<1>3. ASSUME NEW u \in Seq(Entry), NEW v \in Seq(Entry), SameLedger(u, v)
      PROVE  Agree([p EXCEPT !.ledger[r] = u], [m EXCEPT !.ledger[r] = v])
  BY <1>3 DEF Agree, StoreOf
<1>4. QED
  BY <1>2, <1>3 DEF Booked

\* mark a charge,
LEMMA MarkAgrees ==
    ASSUME NEW p, NEW m, Agree(p, m), NEW r \in Refs, NEW status \in Status
    PROVE  Agree(Marked(p, r, status), Marked(m, r, status))
BY DEF Agree, StoreOf, Marked

\* move an outbox row
LEMMA OutboxAgrees ==
    ASSUME NEW p, NEW m, Agree(p, m), NEW r \in Refs, NEW status \in Status
    PROVE  Agree([p EXCEPT !.outbox[r] = status], [m EXCEPT !.outbox[r] = status])
BY DEF Agree, StoreOf

\* or change the inbox.
LEMMA InboxAgrees ==
    ASSUME NEW p, NEW m, Agree(p, m), NEW E \in SUBSET Events
    PROVE  Agree([p EXCEPT !.inbox = E], [m EXCEPT !.inbox = E])
BY DEF Agree, StoreOf

\* Stores that agree have the same charge, or none, under a key unlike any other in use.
LEMMA SameUnderKey ==
    ASSUME Agree(pg, mem), NEW k \in Keys, ~Shared(k)
    PROVE  mem.idem[Joined[k]] = pg.idem[k]
<1>1. CASE pg.idem[k] # NoRef
  BY <1>1 DEF Agree
<1>2. CASE pg.idem[k] = NoRef
  BY <1>2 DEF Agree, Shared
<1>3. QED
  BY <1>1, <1>2

\* Up to the first call the two need not agree on they do agree, and have answered
\* alike.
StandInInv == ~strained => Agree(pg, mem) /\ said[1] = said[2]

\* MemoryStore answers like PostgreSQL and holds the same up to the first call that a
\* constraint refuses, that names an unknown charge or whose key reads like another one
\* in use, whatever keys, events and amounts there are.
THEOREM MemoryDoesStandIn == StoresSpec => []MemoryStandsIn
<1>1. StoresInit => StandInInv
  <2> SUFFICES ASSUME StoresInit PROVE StandInInv
    OBVIOUS
  <2>1. Empty(Keys) \in StoreOf(Keys) /\ Empty(Joins) \in StoreOf(Joins)
    BY DEF Empty, StoreOf, Status
  <2>2. Agree(Empty(Keys), Empty(Joins))
    <3>1. \A r \in Refs : SameLedger(Empty(Keys).ledger[r], Empty(Joins).ledger[r])
      BY DEF Empty, SameLedger
    <3>2. QED
      BY <2>1, <3>1, StoresAssumption DEF Agree, Empty, Joins
  <2>3. QED
    BY <2>2 DEF StoresInit, StandInInv
<1>2. StandInInv /\ [StoresNext]_storesVars => StandInInv'
  <2> SUFFICES ASSUME StandInInv, [StoresNext]_storesVars PROVE StandInInv'
    OBVIOUS
  <2>0. CASE UNCHANGED storesVars
    BY <2>0 DEF StandInInv, storesVars
  <2>a. StoresNext => ~strained
    BY Zenon DEF StoresNext, InsertWebhookInbox, DeleteWebhookInbox, CreateIntent,
       FindByIdempotencyKey, InsertOutboxEvent, UpdateStatus, ApplyChargeOutcome,
       RecordCollection, ConfirmSettlement, CompleteSucceeded, CompleteFailed, Call
  <2> SUFFICES ASSUME StoresNext, Agree(pg, mem), ~strained'
               PROVE  Agree(pg, mem)' /\ (said[1] = said[2])'
    BY <2>0, <2>a, Zenon DEF StandInInv
  <2>1. CASE \E e \in Events : InsertWebhookInbox(e)
    <3> PICK e \in Events : InsertWebhookInbox(e)
      BY <2>1
    <3>1. pg.inbox = mem.inbox /\ pg.inbox \in SUBSET Events
      BY DEF Agree, StoreOf
    <3>2. Agree([pg EXCEPT !.inbox = pg.inbox \cup {e}], [mem EXCEPT !.inbox = pg.inbox \cup {e}])
      BY <3>1, InboxAgrees
    <3>3. QED
      BY <3>1, <3>2 DEF InsertWebhookInbox
  <2>2. CASE \E e \in Events : DeleteWebhookInbox(e)
    <3> PICK e \in Events : DeleteWebhookInbox(e)
      BY <2>2
    <3>1. pg.inbox = mem.inbox /\ pg.inbox \in SUBSET Events
      BY DEF Agree, StoreOf
    <3>2. Agree([pg EXCEPT !.inbox = pg.inbox \ {e}], [mem EXCEPT !.inbox = pg.inbox \ {e}])
      BY <3>1, InboxAgrees
    <3>3. QED
      BY <3>1, <3>2 DEF DeleteWebhookInbox, Call
  <2>3. CASE \E r \in Refs, k \in Keys \cup {NoKey}, b \in BOOLEAN : CreateIntent(r, k, b)
    <3> PICK r \in Refs, k \in Keys \cup {NoKey}, b \in BOOLEAN : CreateIntent(r, k, b)
      BY <2>3
    <3>1. /\ k # NoKey => pg.idem[k] = NoRef /\ ~Shared(k)
          /\ said' = <<TRUE, TRUE>>
          /\ pg' = [pg EXCEPT !.intent[r] = "pending",
                              !.idem = IF k = NoKey THEN @ ELSE [@ EXCEPT ![k] = r]]
          /\ mem' = [mem EXCEPT !.intent[r] = "pending",
                                !.idem = IF k = NoKey THEN @ ELSE [@ EXCEPT ![Joined[k]] = r]]
      BY DEF CreateIntent, Call
    <3>2. CASE k = NoKey
      BY <3>1, <3>2 DEF Agree, StoreOf, Status
    <3>3. CASE k # NoKey
      <4>1. k \in Keys /\ Joined[k] \in Joins /\ pg.idem[k] = NoRef
            /\ \A j \in Keys : Joined[j] \in Joins /\ (Joined[j] = Joined[k] => pg.idem[j] = NoRef)
        BY <3>1, <3>3 DEF Joins, Shared
      <4>2. pg' \in StoreOf(Keys) /\ mem' \in StoreOf(Joins)
        BY <3>1, <3>3, <4>1 DEF Agree, StoreOf, Status
      <4>3. /\ pg'.intent = mem'.intent /\ pg'.outbox = mem'.outbox /\ pg'.inbox = mem'.inbox
            /\ \A q \in Refs : SameLedger(pg'.ledger[q], mem'.ledger[q])
        BY <3>1 DEF Agree, StoreOf
      <4>4. /\ \A j \in Keys : pg'.idem[j] = IF j = k THEN r ELSE pg.idem[j]
            /\ \A j \in Keys : mem'.idem[Joined[j]] =
                                IF Joined[j] = Joined[k] THEN r ELSE mem.idem[Joined[j]]
        BY <3>1, <3>3, <4>1 DEF Agree, StoreOf
      <4>5. \A j \in Keys : pg'.idem[j] # NoRef => mem'.idem[Joined[j]] = pg'.idem[j]
        BY <4>1, <4>4 DEF Agree
      <4>6. ASSUME NEW j \in Keys, mem'.idem[Joined[j]] # NoRef
            PROVE  \E i \in Keys : Joined[i] = Joined[j] /\ pg'.idem[i] = mem'.idem[Joined[j]]
        <5>1. CASE Joined[j] = Joined[k]
          BY <4>1, <4>4, <5>1
        <5>2. CASE Joined[j] # Joined[k]
          <6>1. PICK i \in Keys : Joined[i] = Joined[j] /\ pg.idem[i] = mem.idem[Joined[j]]
            BY <4>4, <4>6, <5>2 DEF Agree
          <6>2. i # k
            BY <5>2, <6>1
          <6>3. QED
            BY <4>4, <5>2, <6>1, <6>2
        <5>3. QED
          BY <5>1, <5>2
      <4>7. QED
        BY <3>1, <4>2, <4>3, <4>5, <4>6 DEF Agree
    <3>4. QED
      BY <3>2, <3>3
  <2>4. CASE \E r \in Refs : InsertOutboxEvent(r)
    <3> PICK r \in Refs : InsertOutboxEvent(r)
      BY <2>4
    <3> QED
      BY DEF InsertOutboxEvent, Call, Agree, StoreOf, Status, Stored
  <2>5. CASE \E r \in Refs, st \in {"succeeded", "failed"} : UpdateStatus(r, st)
    <3> PICK r \in Refs, st \in {"succeeded", "failed"} : UpdateStatus(r, st)
      BY <2>5
    <3>1. Agree(Marked(pg, r, st), Marked(mem, r, st))
      BY MarkAgrees DEF Status
    <3>2. Stored(r) /\ mem.intent[r] # "none"
      BY DEF UpdateStatus, Call, Agree, Stored
    <3>3. QED
      BY <3>1, <3>2 DEF UpdateStatus, Call
  <2>6. CASE \E r \in Refs, st \in {"succeeded", "failed"}, a \in Reported \cup {0} : ApplyChargeOutcome(r, st, a)
    <3> PICK r \in Refs, st \in {"succeeded", "failed"}, a \in Reported \cup {0} : ApplyChargeOutcome(r, st, a)
      BY <2>6
    <3> DEFINE x == [amount |-> a, told |-> a # 0, settled |-> FALSE]
    <3>1. Agree(Marked(pg, r, st), Marked(mem, r, st))
      BY MarkAgrees DEF Status
    <3>2. x \in Entry /\ SameEntry(x, x)
      BY DEF Entry, SameEntry
    <3> HIDE DEF x
    <3>3. Agree(Booked(Marked(pg, r, st), r, x), Booked(Marked(mem, r, st), r, x))
      BY <3>1, <3>2, BookAgrees
    <3>4. QED
      BY <3>1, <3>3 DEF ApplyChargeOutcome, Call, x
  <2>7. CASE \E r \in Refs, a \in Reported : RecordCollection(r, a)
    <3> PICK r \in Refs, a \in Reported : RecordCollection(r, a)
      BY <2>7
    <3> DEFINE x == [amount |-> a, told |-> TRUE, settled |-> FALSE]
    <3>1. x \in Entry /\ SameEntry(x, x)
      BY DEF Entry, SameEntry
    <3> HIDE DEF x
    <3>2. Agree(Booked(pg, r, x), Booked(mem, r, x))
      BY <3>1, BookAgrees
    <3>3. QED
      BY <3>2 DEF RecordCollection, Call, x
  <2>8. CASE \E r \in Refs : ConfirmSettlement(r)
    BY <2>8, StampAgrees DEF ConfirmSettlement
  <2>9. CASE \E r \in Refs, a \in Reported \cup {0} : CompleteSucceeded(r, a)
    <3> PICK r \in Refs, a \in Reported \cup {0} : CompleteSucceeded(r, a)
      BY <2>9
    <3> DEFINE x(own) == [amount |-> IF a = 0 THEN own ELSE a, told |-> a # 0, settled |-> FALSE]
               After(s, own) == [Booked(Marked(s, r, "succeeded"), r, x(own)) EXCEPT !.outbox[r] = "succeeded"]
    <3>1. MemAmount(r) \in {0, Price, Guess} \cup Reported
      <4>1. mem.ledger[r] \in Seq(Entry)
        BY DEF Agree, StoreOf
      <4>2. ASSUME NEW l \in Seq(Entry), l # <<>> PROVE l[1].amount \in {0, Price, Guess} \cup Reported
        <5>1. l[1] \in Entry
          BY <4>2
        <5>2. QED
          BY <5>1 DEF Entry
      <4>3. QED
        BY <4>1, <4>2 DEF MemAmount
    <3>2. x(Price) \in Entry /\ x(MemAmount(r)) \in Entry /\ SameEntry(x(Price), x(MemAmount(r)))
      BY <3>1 DEF Entry, SameEntry
    <3> HIDE DEF x
    <3>3. Agree(Marked(pg, r, "succeeded"), Marked(mem, r, "succeeded"))
      BY MarkAgrees DEF Status
    <3>4. Agree(Booked(Marked(pg, r, "succeeded"), r, x(Price)),
                Booked(Marked(mem, r, "succeeded"), r, x(MemAmount(r))))
      BY <3>2, <3>3, BookAgrees
    <3>5. Agree(After(pg, Price), After(mem, MemAmount(r)))
      BY <3>4, OutboxAgrees DEF Status
    <3>6. QED
      BY <3>5 DEF CompleteSucceeded, Call, x
  <2>10. CASE \E r \in Refs : CompleteFailed(r)
    <3> PICK r \in Refs : CompleteFailed(r)
      BY <2>10
    <3>1. Agree(Marked(pg, r, "failed"), Marked(mem, r, "failed"))
      BY MarkAgrees DEF Status
    <3>2. Agree([Marked(pg, r, "failed") EXCEPT !.outbox[r] = "failed"],
                [Marked(mem, r, "failed") EXCEPT !.outbox[r] = "failed"])
      BY <3>1, OutboxAgrees DEF Status
    <3>3. QED
      BY <3>2 DEF CompleteFailed, Call
  <2>11. CASE \E k \in Keys : FindByIdempotencyKey(k)
    <3> PICK k \in Keys : FindByIdempotencyKey(k)
      BY <2>11
    <3>1. ~Shared(k) /\ said' = <<pg.idem[k], mem.idem[Joined[k]]>> /\ UNCHANGED <<pg, mem>>
      BY DEF FindByIdempotencyKey
    <3>2. pg.idem[k] = mem.idem[Joined[k]]
      BY <3>1, SameUnderKey
    <3>3. QED
      BY <3>1, <3>2 DEF Agree
  <2>12. QED
    BY <2>1, <2>2, <2>3, <2>4, <2>5, <2>6, <2>7, <2>8, <2>9, <2>10, <2>11, Zenon DEF StoresNext
<1>3. StandInInv => MemoryStandsIn
  <2> SUFFICES ASSUME StandInInv, ~strained PROVE MemoryStandsIn
    BY DEF MemoryStandsIn
  <2>1. Agree(pg, mem) /\ said[1] = said[2]
    BY DEF StandInInv
  <2>2. \A k \in Keys : ~Shared(k) => mem.idem[Joined[k]] = pg.idem[k]
    BY <2>1, SameUnderKey
  <2>3. QED
    BY <2>1, <2>2, Zenon DEF MemoryStandsIn, Agree, SameLedger, SameEntry
<1>4. QED
  BY <1>1, <1>2, <1>3, PTL DEF StoresSpec

-----------------------------------------------------------------------------
(* Apps: the key a caller was told is the key that is stored. *)

\* Every app has the key of a call that was about it and has got past its checks;
\* as long as nothing got lost, that call answers with the key.
KeyInv ==
    /\ AppsTypeOK
    /\ \A c \in AppCalls :
          /\ pcs[c] = "update" => target[c] \in AppIds /\ Exists(target[c]) /\ c \notin late
          /\ c \in late => pcs[c] \in {"answer", "over"}
          /\ lost = 0 /\ pcs[c] = "over" /\ answer[c] = "key" => c \in told
    /\ \A a \in AppIds :
          /\ Exists(a) <=> hash[a] # NoHash
          /\ hash[a] # NoHash =>
                /\ target[hash[a]] = a /\ hash[a] \notin late
                /\ pcs[hash[a]] \in {"answer", "over"}
                /\ lost = 0 => answer[hash[a]] = "key"

\* KeyInv, which contains AppsTypeOK, is inductive.
LEMMA KeyKept == AppsSpec => []KeyInv
<1> USE AppsAssumption DEF AppsAssumption
<1>1. AppsInit => KeyInv
  BY DEF AppsInit, KeyInv, AppsTypeOK, Exists
<1>2. KeyInv /\ [AppsNext]_appsVars => KeyInv'
  <2> SUFFICES ASSUME KeyInv, [AppsNext]_appsVars PROVE KeyInv'
    OBVIOUS
  <2> USE DEF KeyInv, AppsTypeOK, Exists
  <2>1. CASE \E c \in AppCalls, a \in AppIds, n \in Names : CreateApp(c, a, n)
    <3> PICK c \in AppCalls, a \in AppIds, n \in Names : CreateApp(c, a, n)
      BY <2>1
    <3>1. CASE UNCHANGED appVars
      BY <3>1 DEF CreateApp, Says, Fails, appVars
    <3>2. CASE name' = [name EXCEPT ![a] = n] /\ hash' = [hash EXCEPT ![a] = c]
      BY <3>2 DEF CreateApp, Says, Fails, appVars
    <3>3. QED
      BY <3>1, <3>2 DEF CreateApp, appVars
  <2>2. CASE \E c \in AppCalls, a \in AppIds : Rotate(c, a)
    BY <2>2 DEF Rotate, Says, appVars
  <2>3. CASE \E c \in AppCalls, a \in AppIds : RevokeApp(c, a)
    BY <2>3 DEF RevokeApp, Says, Fails
  <2>4. CASE \E c \in AppCalls : UpdateAppKeyHash(c)
    BY <2>4 DEF UpdateAppKeyHash, Says, Fails
  <2>5. CASE \E c \in AppCalls : RevokeChecks(c)
    BY <2>5 DEF RevokeChecks, Says, appVars
  <2>6. CASE \E c \in AppCalls : Respond(c)
    BY <2>6 DEF Respond, appVars
  <2>7. CASE UNCHANGED appsVars
    BY <2>7 DEF appsVars, appVars
  <2>8. QED
    BY <2>1, <2>2, <2>3, <2>4, <2>5, <2>6, <2>7 DEF AppsNext
<1>3. QED
  BY <1>1, <1>2, PTL DEF AppsSpec

\* Once the calls about an app are over and nothing was lost, somebody holds its
\* key, from a call that began before the app was revoked.
THEOREM KeysAreHeld == AppsSpec => []StoredKeyIsHeld
<1>1. KeyInv => StoredKeyIsHeld
  BY AppsAssumption DEF AppsAssumption, KeyInv, StoredKeyIsHeld, AppsTypeOK, Exists
<1>2. QED
  BY <1>1, KeyKept, PTL
-----------------------------------------------------------------------------
(* Money: the total of a batch. *)

\* A remainder below the modulus is the number itself.
LEMMA SmallRest == \A a, m \in Int : 0 <= a /\ a < m => a % m = a
OBVIOUS

\* Past the modulus once, it is subtracted once.
LEMMA OnceRound == \A a, m \in Int : m <= a /\ a < 2 * m => a % m = a - m
OBVIOUS

\* An int64 is left alone, and the sum of two positive ones is right or negative.
LEMMA WrapOfSum ==
    /\ \A n \in -Half..(Half - 1) : Wrapped(n) = n
    /\ \A m, n \in 1..(Half - 1) : Wrapped(m + n) = m + n \/ Wrapped(m + n) < 0
<1>1. Half \in Nat \ {0}
  BY MoneyAssumption
<1>2. \A n \in -Half..(Half - 1) : Wrapped(n) = n
  BY <1>1, SmallRest DEF Wrapped
<1>3. ASSUME NEW m \in 1..(Half - 1), NEW n \in 1..(Half - 1)
      PROVE  Wrapped(m + n) = m + n \/ Wrapped(m + n) < 0
  <2> DEFINE a == m + n + Half
  <2>1. a \in Int /\ 2 * Half \in Int /\ 0 <= a /\ a < 2 * (2 * Half)
    BY <1>1
  <2>2. CASE a < 2 * Half
    <3>1. a % (2 * Half) = a
      BY <2>1, <2>2, SmallRest
    <3>2. QED
      BY <1>1, <3>1 DEF Wrapped
  <2>3. CASE 2 * Half <= a
    <3>1. a % (2 * Half) = a - 2 * Half
      BY <2>1, <2>3, OnceRound
    <3>2. QED
      BY <1>1, <3>1 DEF Wrapped
  <2>4. QED
    BY <2>1, <2>2, <2>3
<1>4. QED
  BY <1>2, <1>3

\* What the loop over the entries of a request comes to for one and two entries.
LEMMA LoopsUnrolled ==
    ASSUME NEW req, Len(req) \in {1, 2}
    PROVE  /\ Total(req) = IF Len(req) = 1 THEN Add(Zero, req[1])
                           ELSE Add(Add(Zero, req[1]), req[2])
           /\ Sum(req) = IF Len(req) = 1 THEN 0 + req[1].units
                         ELSE (0 + req[1].units) + req[2].units
<1> DEFINE F(g) == [n \in 0..Len(req) |-> IF n = 0 THEN Zero ELSE Add(g[n - 1], req[n])]
           G == [n \in 0..Len(req) |-> IF n = 0 THEN Zero
                                       ELSE IF n = 1 THEN Add(Zero, req[1])
                                       ELSE Add(Add(Zero, req[1]), req[2])]
           H == CHOOSE g : g = F(g)
           f(g) == [n \in 0..Len(req) |-> IF n = 0 THEN 0 ELSE g[n - 1] + req[n].units]
           s == [n \in 0..Len(req) |-> IF n = 0 THEN 0
                                       ELSE IF n = 1 THEN 0 + req[1].units
                                       ELSE (0 + req[1].units) + req[2].units]
           h == CHOOSE g : g = f(g)
<1>1. G = F(G)
  OBVIOUS
<1>2. H = F(H)
  BY <1>1
<1>3. Total(req) = H[Len(req)]
  BY DEF Total
<1>4. s = f(s)
  OBVIOUS
<1>5. h = f(h)
  BY <1>4
<1>6. Sum(req) = h[Len(req)]
  BY DEF Sum
<1> HIDE DEF H, h
<1>7. H[0] = Zero /\ H[1] = Add(Zero, req[1])
  BY <1>2
<1>8. Len(req) = 2 => H[2] = Add(Add(Zero, req[1]), req[2])
  BY <1>2, <1>7
<1>9. h[0] = 0 /\ h[1] = 0 + req[1].units
  BY <1>5
<1>10. Len(req) = 2 => h[2] = (0 + req[1].units) + req[2].units
  BY <1>5, <1>9
<1>11. QED
  BY <1>3, <1>6, <1>7, <1>8, <1>9, <1>10

\* The total of one or two entries that Create and the table both accept.
LEMMA RightTotal ==
    ASSUME NEW req \in Requests, req # <<>>, Len(req) <= 2,
           \A i \in 1..Len(req) : req[i].units > 0,
           Total(req) # Mismatch, Check(Total(req))
    PROVE  /\ Total(req).units = Sum(req)
           /\ \A i \in 1..Len(req) : req[i].currency \in {"", Total(req).currency}
<1>1. /\ Half \in Nat \ {0} /\ Len(req) \in {1, 2}
      /\ \A i \in 1..Len(req) : req[i].units \in 1..(Half - 1)
  <2> DEFINE Amount == [units : -Half..(Half - 1), currency : STRING]
  <2>1. Half \in Nat \ {0} /\ req \in Seq(Amount)
    BY MoneyAssumption
  <2>2. \A a \in Amount : a.units \in -Half..(Half - 1)
    OBVIOUS
  <2> HIDE DEF Amount
  <2>3. /\ \A i \in 1..Len(req) : req[i] \in Amount
        /\ Len(req) \in Nat /\ (Len(req) = 0 => req = <<>>)
    BY <2>1
  <2>4. Len(req) # 0 /\ \A i \in 1..Len(req) : req[i].units > 0
    BY <2>3
  <2>5. Len(req) \in {1, 2}
    <3>1. \A n \in Nat : n # 0 /\ n <= 2 => n \in {1, 2}
      OBVIOUS
    <3>2. QED
      BY <2>3, <2>4, <3>1, Zenon
  <2>6. \A i \in 1..Len(req) : req[i].units \in 1..(Half - 1)
    BY <2>1, <2>2, <2>3, <2>4
  <2>7. QED
    BY <2>1, <2>5, <2>6
<1>2. Total(req) # Mismatch /\ Total(req).units > 0
  BY DEF Check
<1> DEFINE e == req[1]
           d == req[2]
<1>3. Add(Zero, e) = New(e.units, e.currency)
  <2>1. Wrapped(0 + e.units) = e.units
    BY <1>1, WrapOfSum
  <2>2. Mismatch # Zero /\ Mismatch # e
    <3>1. Mismatch.currency # Zero.currency /\ Mismatch.units # e.units
      BY <1>1 DEF Mismatch, Zero, New
    <3>2. QED
      BY <3>1, Zenon
  <2>3. Zero.units = 0 /\ Zero.currency = ""
    BY DEF Zero, New
  <2>4. QED
    BY <2>1, <2>2, <2>3 DEF Add, Combines, Combine
<1>4. CASE Len(req) = 1
  <2>1. Total(req) = New(e.units, e.currency) /\ Sum(req) = e.units
    BY <1>1, <1>3, <1>4, LoopsUnrolled
  <2>2. QED
    BY <1>4, <2>1 DEF New
<1>5. CASE Len(req) = 2
  <2>1. Total(req) = Add(New(e.units, e.currency), d) /\ Sum(req) = e.units + d.units
    <3>1. Total(req) = Add(Add(Zero, e), d) /\ Sum(req) = (0 + e.units) + d.units
      BY <1>1, <1>5, LoopsUnrolled
    <3>2. e.units \in Int
      BY <1>1, <1>5
    <3>3. QED
      BY <1>3, <3>1, <3>2
  <2>2. New(e.units, e.currency).units = e.units /\ New(e.units, e.currency).currency = e.currency
    BY DEF New
  <2>3. /\ Combines(e.currency, d.currency)
        /\ Total(req) = New(Wrapped(e.units + d.units), Combine(e.currency, d.currency))
    BY <1>2, <2>1, <2>2 DEF Add
  <2>4. /\ Total(req).units = Wrapped(e.units + d.units)
        /\ Total(req).currency = Combine(e.currency, d.currency)
    BY <2>3 DEF New
  <2>5. Wrapped(e.units + d.units) = e.units + d.units
    <3>1. e.units \in 1..(Half - 1) /\ d.units \in 1..(Half - 1) /\ Half \in Nat
      BY <1>1, <1>5
    <3>2. Wrapped(e.units + d.units) > 0
      BY <1>2, <2>4
    <3>3. Wrapped(e.units + d.units) = e.units + d.units \/ Wrapped(e.units + d.units) < 0
      BY <3>1, WrapOfSum
    <3>4. Wrapped(e.units + d.units) \in Int
      BY <3>1 DEF Wrapped
    <3>5. QED
      BY <3>2, <3>3, <3>4
  <2>6. \A i \in 1..Len(req) : req[i].currency \in {"", Total(req).currency}
    <3>1. \A i \in 1..Len(req) : i = 1 \/ i = 2
      BY <1>5
    <3>2. e.currency \in {"", Total(req).currency} /\ d.currency \in {"", Total(req).currency}
      BY <2>3, <2>4 DEF Combines, Combine
    <3>3. QED
      BY <3>1, <3>2
  <2>7. QED
    BY <2>1, <2>4, <2>5, <2>6
<1>6. QED
  BY <1>1, <1>4, <1>5

\* A stored batch of one or two entries has the sum of its entries for a total, in their
\* currency: where Add wraps around, the check of payout_batches refuses the row.
THEOREM TotalsAreSums == MoneySpec => []TotalIsSum
<1>1. MoneyInit => TotalIsSum
  BY DEF MoneyInit, TotalIsSum
<1>2. TotalIsSum /\ [MoneyNext]_batches => TotalIsSum'
  <2> SUFFICES ASSUME TotalIsSum, MoneyNext PROVE TotalIsSum'
    BY DEF TotalIsSum
  <2>1. PICK req \in Requests : CreateBatch(req)
    BY DEF MoneyNext
  <2>2. SUFFICES ASSUME NEW b \in batches', Len(b.entries) <= 2
                 PROVE  /\ b.total.units = Sum(b.entries)
                        /\ \A i \in 1..Len(b.entries) :
                              b.entries[i].currency \in {"", b.total.currency}
    BY Zenon DEF TotalIsSum
  <2>3. b.entries = req /\ b.total = Total(req)
    BY <2>1 DEF CreateBatch
  <2>4. QED
    BY <2>1, <2>2, <2>3, RightTotal DEF CreateBatch
<1>3. QED
  BY <1>1, <1>2, PTL DEF MoneySpec
=============================================================================
