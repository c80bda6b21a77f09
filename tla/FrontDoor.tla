------------------------------ MODULE FrontDoor ------------------------------
(***************************************************************************)
(* What a POST to /v1/charges or /v1/payouts passes before its handler:    *)
(* the limiter by address, bearerAuth, the limiter by credential.  Each    *)
(* limiter counts in a fixed window in Valkey (INCR, then EXPIRE by the    *)
(* call that counted 1, then TTL for the ones it refuses), one round trip  *)
(* per step, and in the process's own memory when INCR fails.              *)
(*                                                                         *)
(* Time is a countdown: ttl and left are the seconds a window has to go.   *)
(***************************************************************************)
EXTENDS Integers, FiniteSets

CONSTANTS
    Procs,      \* API processes
    Calls,      \* slots for requests in progress
    ProcOf,     \* the process a slot belongs to
    Callers,    \* who sends requests
    IpOf,       \* clientIP of each caller
    TokenOf,    \* the bearer token a caller sends, or NoToken
    ApiKey,     \* ORCTA_PAY_API_KEY, NoToken when it is empty
    IpLimit, KeyLimit, Window,
    MaxFaults,  \* bound on lost replies, outages of Valkey and crashes
    NoToken, NoBucket, NoCaller

Limiter == {"ip", "key"}

\* The keys of both limiters.  Without a token or a session cookie the limiter by
\* credential counts the address.
Bucket == {<<"ip", IpOf[u]>> : u \in Callers}
          \cup {<<"key", TokenOf[u]>> : u \in {v \in Callers : TokenOf[v] # NoToken}}
          \cup {<<"key", <<"cookie", u>>>> : u \in Callers}
          \cup {<<"key", <<"anonymous", IpOf[u]>>>> : u \in Callers}

LimitOf(b) == IF b[1] = "ip" THEN IpLimit ELSE KeyLimit

\* A counter after one more request.  Every number past the limit refuses, so one
\* number stands for all of them.
Counted(n, b) == IF n > LimitOf(b) THEN n ELSE n + 1

ASSUME DoorAssumption ==
    /\ IsFiniteSet(Procs) /\ IsFiniteSet(Calls)
    /\ ProcOf \in [Calls -> Procs]
    /\ IpLimit \in Nat \ {0} /\ KeyLimit \in Nat \ {0} /\ Window \in Nat \ {0}
    /\ MaxFaults \in Nat
    /\ NoBucket \notin Bucket /\ NoCaller \notin Callers

NoExpiry == -1

VARIABLES
    pc,       \* each slot: its next step
    who,      \* the caller it serves
    at,       \* the bucket it is counted in
    count,    \* Valkey: the counter of each bucket, 0 when the key does not exist
    ttl,      \* Valkey: the key's time to live, or NoExpiry
    mem,      \* each process: its own counter of each bucket
    left,     \* each process: the rest of that counter's window, 0 when it is over
    up,       \* can Valkey be reached?
    session,  \* callers with a session cookie that has not run out
    passed,   \* requests let through per bucket since its key has an expiry
    crashes, faults

callVars == <<pc, who, at>>
sharedVars == <<count, ttl>>
localVars == <<mem, left>>
vars == <<callVars, sharedVars, localVars, up, session, passed, crashes, faults>>

TypeOK ==
    /\ pc \in [Calls -> {"idle", "incr", "expire", "ttl", "auth"}]
    /\ who \in [Calls -> Callers \cup {NoCaller}]
    /\ at \in [Calls -> Bucket \cup {NoBucket}]
    /\ count \in [Bucket -> Nat]
    /\ ttl \in [Bucket -> NoExpiry..Window]
    /\ mem \in [Procs -> [Bucket -> Nat]]
    /\ left \in [Procs -> [Bucket -> 0..Window]]
    /\ up \in BOOLEAN
    /\ session \subseteq Callers
    /\ passed \in [Bucket -> Nat]
    /\ crashes \in 0..MaxFaults
    /\ faults \in 0..MaxFaults

\* A process without a Valkey client behaves like one that never reaches Valkey.
Init ==
    /\ pc = [c \in Calls |-> "idle"]
    /\ who = [c \in Calls |-> NoCaller]
    /\ at = [c \in Calls |-> NoBucket]
    /\ count = [b \in Bucket |-> 0]
    /\ ttl = [b \in Bucket |-> NoExpiry]
    /\ mem = [p \in Procs |-> [b \in Bucket |-> 0]]
    /\ left = [p \in Procs |-> [b \in Bucket |-> 0]]
    /\ up \in BOOLEAN
    /\ session = {}
    /\ passed = [b \in Bucket |-> 0]
    /\ crashes = 0
    /\ faults = 0

Fault == faults < MaxFaults /\ faults' = faults + 1
NoFault == UNCHANGED faults

-----------------------------------------------------------------------------
(* The chain of middlewares. *)

Move(c, point, bucket) ==
    /\ pc' = [pc EXCEPT ![c] = point]
    /\ at' = [at EXCEPT ![c] = bucket]

Finish(c) == Move(c, "idle", NoBucket) /\ who' = [who EXCEPT ![c] = NoCaller]

\* A request reaches rateLimitIPMiddleware.
Arrive(c, u) ==
    /\ pc[c] = "idle"
    /\ who' = [who EXCEPT ![c] = u]
    /\ Move(c, "incr", <<"ip", IpOf[u]>>)
    /\ UNCHANGED <<sharedVars, localVars, up, session, passed, crashes, faults>>

\* The limiter lets the request go on: to bearerAuth, or to the handler.
Allowed(c) ==
    IF at[c][1] = "ip" THEN Move(c, "auth", NoBucket) /\ UNCHANGED who ELSE Finish(c)

\* 429 or 401.
Refused(c) == Finish(c)

\* rateLimitAPIKeyMiddleware: the token, else the cookie, else the address.
KeyBucket(u) ==
    IF TokenOf[u] # NoToken THEN <<"key", TokenOf[u]>>
    ELSE IF u \in session THEN <<"key", <<"cookie", u>>>>
    ELSE <<"key", <<"anonymous", IpOf[u]>>>>

Authentic(u) == ApiKey = NoToken \/ u \in session \/ TokenOf[u] = ApiKey

\* bearerAuth.
Authenticate(c) ==
    /\ pc[c] = "auth"
    /\ \/ Authentic(who[c]) /\ Move(c, "incr", KeyBucket(who[c])) /\ UNCHANGED who
       \/ ~Authentic(who[c]) /\ Refused(c)
    /\ UNCHANGED <<sharedVars, localVars, up, session, passed, crashes, faults>>

\* handleLogin: a cookie signed with the API key, good for twelve hours.  Logging
\* out takes the cookie away from the browser.
Login(u) ==
    /\ ApiKey # NoToken /\ TokenOf[u] = NoToken
    /\ u \notin session
    /\ session' = session \cup {u}
    /\ UNCHANGED <<callVars, sharedVars, localVars, up, passed, crashes, faults>>

SessionEnds(u) ==
    /\ u \in session
    /\ session' = session \ {u}
    /\ UNCHANGED <<callVars, sharedVars, localVars, up, passed, crashes, faults>>

-----------------------------------------------------------------------------
(* Allow. *)

\* Ghost: what a window lets through while its key runs out.
Pass(b) == passed' = [passed EXCEPT ![b] = IF ttl'[b] # NoExpiry THEN @ + 1 ELSE 0]

\* Mutant: the window starts anew with every request.
IncrRefreshes(c) ==
    LET b == at[c] n == Counted(count[at[c]], at[c]) IN
    /\ pc[c] = "incr" /\ up
    /\ count' = [count EXCEPT ![b] = n]
    /\ ttl' = [ttl EXCEPT ![b] = Window]
    /\ IF n > LimitOf(b) THEN Move(c, "ttl", b) /\ UNCHANGED <<who, passed>> ELSE Allowed(c) /\ Pass(b)
    /\ UNCHANGED <<localVars, up, session, crashes, faults>>

\* Mutant: without Valkey a process counts and lets everything through.
MemoryUnlimited(c) ==
    LET p == ProcOf[c] b == at[c] IN
    /\ mem' = [mem EXCEPT ![p][b] = Counted(@, b)]
    /\ left' = [left EXCEPT ![p][b] = Window]
    /\ Allowed(c)
    /\ Pass(b)

\* allowMemory, under the process's mutex.
AllowMemory(c) ==
    LET p == ProcOf[c] b == at[c] IN
    \/ /\ left[p][b] = 0
       /\ mem' = [mem EXCEPT ![p][b] = 1]
       /\ left' = [left EXCEPT ![p][b] = Window]
       /\ Allowed(c)
       /\ Pass(b)
    \/ /\ left[p][b] > 0
       /\ mem' = [mem EXCEPT ![p][b] = Counted(@, b)]
       /\ UNCHANGED left
       /\ IF Counted(mem[p][b], b) > LimitOf(b)
            THEN Refused(c) /\ UNCHANGED passed
            ELSE Allowed(c) /\ Pass(b)

\* INCR answers.  The call that counts 1 still has to give the key its expiry.
Incr(c) ==
    LET b == at[c] n == Counted(count[at[c]], at[c]) IN
    /\ pc[c] = "incr" /\ up
    /\ count' = [count EXCEPT ![b] = n]
    /\ UNCHANGED ttl
    /\ \/ n = 1 /\ Move(c, "expire", b) /\ UNCHANGED <<who, passed>>
       \/ n > 1 /\ n <= LimitOf(b) /\ Allowed(c) /\ Pass(b)
       \/ n > 1 /\ n > LimitOf(b) /\ Move(c, "ttl", b) /\ UNCHANGED <<who, passed>>
    /\ UNCHANGED <<localVars, up, session, crashes, faults>>

\* INCR fails: Valkey cannot be reached, or only its answer is lost.
Fallback(c) ==
    LET b == at[c] IN
    /\ pc[c] = "incr"
    /\ \/ ~up /\ UNCHANGED count /\ NoFault
       \/ up /\ count' = [count EXCEPT ![b] = Counted(@, b)] /\ Fault
    /\ UNCHANGED ttl
    /\ AllowMemory(c)
    /\ UNCHANGED <<up, session, crashes>>

\* Mutant: the expiry is forgotten.
ExpireForgotten(c) ==
    /\ pc[c] = "expire"
    /\ UNCHANGED sharedVars
    /\ Allowed(c)
    /\ Pass(at[c])
    /\ UNCHANGED <<localVars, up, session, crashes, faults>>

\* EXPIRE, on a key that may be gone by now.  Its error is dropped.
Expire(c) ==
    LET b == at[c] IN
    /\ pc[c] = "expire"
    /\ \/ up /\ ttl' = [ttl EXCEPT ![b] = IF count[b] > 0 THEN Window ELSE NoExpiry] /\ NoFault
       \/ ~up /\ UNCHANGED ttl /\ NoFault
       \/ up /\ UNCHANGED ttl /\ Fault
    /\ UNCHANGED count
    /\ Allowed(c)
    /\ Pass(b)
    /\ UNCHANGED <<localVars, up, session, crashes>>

\* TTL for the Retry-After header; the request is refused whatever it says.
Ttl(c) ==
    /\ pc[c] = "ttl"
    /\ Refused(c)
    /\ UNCHANGED <<sharedVars, localVars, up, session, passed, crashes, faults>>

-----------------------------------------------------------------------------
(* Time and failures. *)

\* A second passes: keys run out, windows of processes end.
Tick ==
    LET gone(b) == ttl[b] = 1 IN
    /\ count' = [b \in Bucket |-> IF gone(b) THEN 0 ELSE count[b]]
    /\ ttl' = [b \in Bucket |-> IF gone(b) THEN NoExpiry
                                ELSE IF ttl[b] > 1 THEN ttl[b] - 1 ELSE ttl[b]]
    /\ passed' = [b \in Bucket |-> IF gone(b) THEN 0 ELSE passed[b]]
    /\ mem' = [p \in Procs |-> [b \in Bucket |-> IF left[p][b] <= 1 THEN 0 ELSE mem[p][b]]]
    /\ left' = [p \in Procs |-> [b \in Bucket |-> IF left[p][b] > 0 THEN left[p][b] - 1 ELSE 0]]
    /\ UNCHANGED <<callVars, up, session, crashes, faults>>

Outage ==
    /\ up
    /\ up' = FALSE
    /\ Fault
    /\ UNCHANGED <<callVars, sharedVars, localVars, session, passed, crashes>>

Recovery ==
    /\ ~up /\ faults > 0
    /\ up' = TRUE
    /\ UNCHANGED <<callVars, sharedVars, localVars, session, passed, crashes, faults>>

\* A process stops with the requests it serves and starts again.
Crash(p) ==
    /\ Fault
    /\ crashes' = crashes + 1
    /\ pc' = [c \in Calls |-> IF ProcOf[c] = p THEN "idle" ELSE pc[c]]
    /\ at' = [c \in Calls |-> IF ProcOf[c] = p THEN NoBucket ELSE at[c]]
    /\ mem' = [mem EXCEPT ![p] = [b \in Bucket |-> 0]]
    /\ left' = [left EXCEPT ![p] = [b \in Bucket |-> 0]]
    /\ who' = [c \in Calls |-> IF ProcOf[c] = p THEN NoCaller ELSE who[c]]
    /\ UNCHANGED <<sharedVars, up, session, passed>>

CallStep(c) == Authenticate(c) \/ Incr(c) \/ Fallback(c) \/ Expire(c) \/ Ttl(c)

Next ==
    \/ \E c \in Calls, u \in Callers : Arrive(c, u)
    \/ \E c \in Calls : CallStep(c)
    \/ \E u \in Callers : Login(u) \/ SessionEnds(u)
    \/ Tick \/ Outage \/ Recovery
    \/ \E p \in Procs : Crash(p)

Spec == Init /\ [][Next]_vars

\* Time passes, and a Valkey call ends: it answers or its connection times out.
FairSpec == Spec /\ WF_vars(Tick) /\ \A c \in Calls : WF_vars(CallStep(c))

-----------------------------------------------------------------------------
(* Properties. *)

\* The counter of a bucket has an expiry, or the call that counted 1 is about to
\* give it one; only a lost EXPIRE, an outage or a crash between the two leaves a
\* counter that never runs out and refuses its caller for good.
CounterExpires ==
    \A b \in Bucket : count[b] > 0 /\ ttl[b] = NoExpiry /\ faults = 0 =>
        \E c \in Calls : pc[c] = "expire" /\ at[c] = b

\* While a bucket's window runs, the fleet lets through no more than the limit, plus
\* what processes allow on their own when INCR fails: each has its own counter, two
\* of its windows can overlap the shared one, and a restart forgets the count.
FleetLimit ==
    \A b \in Bucket : passed[b] <= LimitOf(b) * (1 + 2 * Cardinality(Procs) + crashes)

\* A caller that is refused is served again: however it keeps on asking, the window
\* it has used up ends.
RefusalEnds ==
    \A b \in Bucket : (count[b] > LimitOf(b)) ~> (count[b] = 0 \/ faults > 0)
=============================================================================
