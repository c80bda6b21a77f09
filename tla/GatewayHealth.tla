---------------------------- MODULE GatewayHealth ----------------------------
(***************************************************************************)
(* The success-rate window and the latency samples that HealthStore keeps  *)
(* in Valkey for one gateway, the requests that record into them and the   *)
(* pages that read them (the circuit breaker itself is in Charging).       *)
(*                                                                         *)
(* RecordResult and RecordLatency send their commands in one pipeline,     *)
(* which is no transaction: commands of other clients, and time, come      *)
(* between them.  P95Latency reads in one round trip and removes what it   *)
(* found stale in another.                                                 *)
(***************************************************************************)
EXTENDS Integers, Sequences, FiniteSets

CONSTANTS
    Recorders,    \* requests that report outcomes and latencies
    Readers,      \* requests for a page that shows the gateway's p95
    Latencies,    \* milliseconds a call can take
    MaxCounted,   \* bound on the numbers of samples P95Index is checked for
    Window,       \* healthWindowTTL
    MaxRecords,   \* bound on the outcomes and latencies reported
    MaxFaults     \* bound on pipelines cut off and readers' calls that fail

ASSUME HealthAssumption ==
    /\ IsFiniteSet(Recorders) /\ Latencies \subseteq Nat
    /\ {MaxCounted, Window, MaxRecords} \subseteq Nat \ {0} /\ MaxFaults \in Nat

NoExpiry == -1
NoP95 == -1

VARIABLES
    t, s,        \* attempts and successes, 0 when the key does not exist
    tTtl, sTtl,  \* their time to live, or NoExpiry
    samples,     \* the sorted set: samples [ms, age, id], ordered by ms
    latTtl,      \* its time to live
    queue,       \* each recorder: the commands of its pipeline still to be run
    p95,         \* each reader: the value it has computed, or NoP95
    stale,       \* each reader: the members it is about to remove
    torn,        \* has time passed inside a pipeline?
    records, faults

windowVars == <<t, s, tTtl, sTtl>>
latencyVars == <<samples, latTtl>>
readerVars == <<p95, stale>>
vars == <<windowVars, latencyVars, queue, readerVars, torn, records, faults>>

Fault == faults < MaxFaults /\ faults' = faults + 1

Init ==
    /\ t = 0 /\ s = 0 /\ tTtl = NoExpiry /\ sTtl = NoExpiry
    /\ samples = {} /\ latTtl = NoExpiry
    /\ queue = [r \in Recorders |-> <<>>]
    /\ p95 = [v \in Readers |-> NoP95]
    /\ stale = [v \in Readers |-> {}]
    /\ torn = FALSE /\ records = 0 /\ faults = 0

-----------------------------------------------------------------------------
(* RecordResult and RecordLatency. *)

\* Mutant: successes are counted before attempts.
SuccessFirst(success) ==
    IF success THEN <<"incrS", "expireS", "incrT", "expireT">> ELSE <<"incrT", "expireT">>

\* The commands on the window.
Pipeline(success) ==
    IF success THEN <<"incrT", "expireT", "incrS", "expireS">> ELSE <<"incrT", "expireT">>

\* A recorder reports an outcome.
RecordResult(r, success) ==
    /\ queue[r] = <<>> /\ records < MaxRecords
    /\ queue' = [queue EXCEPT ![r] = Pipeline(success)]
    /\ records' = records + 1
    /\ UNCHANGED <<windowVars, latencyVars, readerVars, torn, faults>>

\* A recorder reports a latency: ZADD of a member with a time stamp and a number of
\* its own, and an EXPIRE still to be run.
RecordLatency(r, ms) ==
    /\ queue[r] = <<>> /\ records < MaxRecords
    /\ samples' = samples \cup {[ms |-> ms, age |-> 0, id |-> records + 1]}
    /\ queue' = [queue EXCEPT ![r] = <<"expireL">>]
    /\ records' = records + 1
    /\ UNCHANGED <<windowVars, latTtl, readerVars, torn, faults>>

\* Mutant: EXPIRE NX.
ExpireOnce == IF samples = {} \/ latTtl # NoExpiry THEN latTtl ELSE Window

\* EXPIRE on the samples: it renews the expiry of the whole set, if there is one.
ExpireSamples == IF samples = {} THEN latTtl ELSE Window

\* Valkey runs the next command of a pipeline.  EXPIRE needs a key that exists.
Run(r) ==
    /\ queue[r] # <<>>
    /\ LET cmd == Head(queue[r]) IN
         /\ t' = IF cmd = "incrT" THEN t + 1 ELSE t
         /\ s' = IF cmd = "incrS" THEN s + 1 ELSE s
         /\ tTtl' = IF cmd = "expireT" /\ t > 0 THEN Window ELSE tTtl
         /\ sTtl' = IF cmd = "expireS" /\ s > 0 THEN Window ELSE sTtl
         /\ latTtl' = IF cmd = "expireL" THEN ExpireSamples ELSE latTtl
    /\ queue' = [queue EXCEPT ![r] = Tail(@)]
    /\ UNCHANGED <<samples, readerVars, torn, records, faults>>

\* The connection breaks: the rest of the pipeline is not run.
CutPipeline(r) ==
    /\ queue[r] # <<>>
    /\ queue' = [queue EXCEPT ![r] = <<>>]
    /\ Fault
    /\ UNCHANGED <<windowVars, latencyVars, readerVars, torn, records>>

-----------------------------------------------------------------------------
(* Time. *)

Expired(ttl) == ttl = 1
Older(ttl) == IF ttl = NoExpiry THEN NoExpiry ELSE IF ttl = 1 THEN NoExpiry ELSE ttl - 1

\* A unit of time passes; keys whose time is over are gone.
Tick ==
    /\ t' = IF Expired(tTtl) THEN 0 ELSE t
    /\ s' = IF Expired(sTtl) THEN 0 ELSE s
    /\ tTtl' = Older(tTtl)
    /\ sTtl' = Older(sTtl)
    /\ samples' = IF Expired(latTtl) THEN {}
                  ELSE {[x EXCEPT !.age = IF @ > Window THEN @ ELSE @ + 1] : x \in samples}
    /\ latTtl' = Older(latTtl)
    /\ torn' = (torn \/ \E r \in Recorders : queue[r] # <<>>)
    /\ UNCHANGED <<queue, readerVars, records, faults>>

-----------------------------------------------------------------------------
(* P95Latency. *)

\* Mutant: stale members are removed and counted all the same.
Unfiltered == samples

\* The samples not older than the window.
Fresh == {x \in samples : x.age <= Window}

\* ceil(0.95 n) - 1, counted from 0 and clamped.
P95Index(n) ==
    LET i == (95 * n + 99) \div 100 - 1 IN IF i < 0 THEN 0 ELSE IF i >= n THEN n - 1 ELSE i

\* The samples in the order ZRANGE returns them: by score, then by member.
Before(x, y) == x.ms < y.ms \/ (x.ms = y.ms /\ x.id < y.id)

\* The element at a position of the ordered samples.
P95(S) ==
    IF S = {} THEN 0
    ELSE (CHOOSE x \in S : Cardinality({y \in S : Before(y, x)}) = P95Index(Cardinality(S))).ms

\* ZRANGE: the p95 of what is fresh, and the names of what is not.  The page shows 0
\* when the call fails.
P95Latency(v) ==
    /\ p95[v] = NoP95
    /\ \/ /\ p95' = [p95 EXCEPT ![v] = P95(Fresh)]
          /\ stale' = [stale EXCEPT ![v] = {x.id : x \in {y \in samples : y.age > Window}}]
          /\ UNCHANGED faults
       \/ /\ p95' = [p95 EXCEPT ![v] = 0]
          /\ UNCHANGED stale
          /\ Fault
    /\ UNCHANGED <<windowVars, latencyVars, queue, torn, records>>

\* ZREM, which drops the key with its last member, and the return.  Nothing is sent
\* when nothing was stale; an error is ignored, whether or not the members are gone.
Remove(v) ==
    /\ p95[v] # NoP95
    /\ \/ /\ samples' = {x \in samples : x.id \notin stale[v]}
          /\ latTtl' = IF samples' = {} THEN NoExpiry ELSE latTtl
          /\ UNCHANGED faults
       \/ /\ stale[v] # {}
          /\ UNCHANGED latencyVars
          /\ Fault
    /\ p95' = [p95 EXCEPT ![v] = NoP95]
    /\ stale' = [stale EXCEPT ![v] = {}]
    /\ UNCHANGED <<windowVars, queue, torn, records>>

Next ==
    \/ \E r \in Recorders :
          \/ Run(r) \/ CutPipeline(r)
          \/ \E ok \in BOOLEAN : RecordResult(r, ok)
          \/ \E ms \in Latencies : RecordLatency(r, ms)
    \/ \E v \in Readers : P95Latency(v) \/ Remove(v)
    \/ Tick

Spec == Init /\ [][Next]_vars

-----------------------------------------------------------------------------
(* Properties. *)

\* There are never more successes than attempts, however pipelines interleave and
\* though the two counters expire separately: the rate stays within 0..1.  Only time
\* that passes inside a pipeline, or a pipeline cut off, can leave the successes of
\* a window whose attempts are gone.
RateIsProper == torn \/ faults > 0 \/ s <= t

\* The position P95Latency takes is the least one with 95 of 100 samples up to it.
IndexIsLeast ==
    \A n \in 1..MaxCounted : /\ 100 * (P95Index(n) + 1) >= 95 * n
                             /\ 100 * P95Index(n) < 95 * n

\* The least of the samples in S that at least 95 of 100 of them do not exceed.
IsQuantile(value, S) ==
    LET enough(ms) == 100 * Cardinality({x \in S : x.ms <= ms}) >= 95 * Cardinality(S)
    IN  enough(value) /\ \A x \in S : enough(x.ms) => value <= x.ms

\* The p95 a reader gets, unless its call fails, is the smallest sample of the last Window that at least
\* 95 of 100 of them do not exceed, although samples older than that wait in the set,
\* kept there by the expiry later samples renew.
P95IsQuantile ==
    [][\A v \in Readers :
          LET inWindow == {x \in samples : x.age <= Window}
          IN  p95[v] = NoP95 /\ p95'[v] # NoP95 /\ inWindow # {} /\ faults' = faults =>
                 IndexIsLeast /\ IsQuantile(p95'[v], inWindow)]_vars

\* A sample still inside the window is not lost: not when the set expires, which the
\* samples before and after it share, and not when a reader removes members it found
\* stale some time ago.  Only a pipeline cut off between ZADD and EXPIRE, or held up
\* there, leaves a sample to the expiry of an older one.
FreshSamplesKept ==
    [][torn' \/ faults' > 0 \/
       \A x \in samples : x.age + 1 < Window => \E y \in samples' : y.id = x.id]_vars
=============================================================================
