------------------------------ MODULE Charging ------------------------------
(***************************************************************************)
(* charges.Initiate and the gateway router under it, for several requests  *)
(* at once.                                                                *)
(*                                                                         *)
(* A request looks its idempotency key up, asks the router for a ranking,  *)
(* lets the router try the gateways of a second ranking one by one, feeds  *)
(* every outcome to the circuit breaker in Valkey and only then stores the *)
(* intent and its outbox row.  Every store, Valkey or gateway call is one  *)
(* atomic step; the circuits a ranking looks at are read in one step.      *)
(*                                                                         *)
(* A reference is <<q, g>>: the ULID drawn by request q and a gateway      *)
(* segment.  The product prefix is part of the key q carries.              *)
(***************************************************************************)
EXTENDS Integers, FiniteSets, GatewayRouter

CONSTANTS
    Requests,         \* POST /v1/charges requests that pass validate
    KeyOf,            \* the (product, idempotency key) of each request, or NoKey
    InGHS,            \* the requests whose currency is GHS
    Configured,       \* gateways whose adapter has credentials
    FailureThreshold, \* consecutive failures that open a circuit (5 in the code)
    MaxFaults,        \* bound on failed or unanswered calls and crashes
    NoKey, NoGateway, NoRef

Ref == Requests \X Gateway

ASSUME RequestAssumption ==
    /\ IsFiniteSet(Requests)
    /\ InGHS \subseteq Requests
    /\ Configured \subseteq Gateway
    /\ NoGateway \notin Gateway /\ NoRef \notin Ref

ASSUME LimitAssumption == FailureThreshold \in Nat \ {0} /\ MaxFaults \in Nat

VARIABLES
    pc,        \* each request: its next call
    base,      \* the gateway its base reference names (ordered[0])
    route,     \* the gateways InitiateWithFallback has not tried yet
    lastErr,   \* InitiateWithFallback's lastErr
    chosen,    \* the gateway last called
    outcome,   \* how the request was answered
    answer,    \* the reference in the answer
    accepted,  \* the references gateways have started to collect
    intents,   \* payment_intents: rows [ref, gateway]
    outbox,    \* gateway_events: references with a pending row
    fails,     \* Valkey health:<gw>:f, consecutive failures
    open,      \* Valkey health:<gw>:circuit, gateways whose key exists
    cooled,    \* gateways whose circuit key ran out after its last SET
    faults

requestVars == <<pc, base, route, lastErr, chosen, outcome, answer>>
storeVars == <<intents, outbox>>
healthVars == <<fails, open, cooled>>
vars == <<requestVars, accepted, storeVars, healthVars, faults>>

PC == {"lookup", "route", "fallback", "call", "recordOk", "recordFailure", "getFailures",
       "trip", "create", "outbox", "createAnyway", "outboxAnyway", "done"}
Outcome == {"none", "pending", "replayed", "unconfigured", "failed", "error"}
Row == [ref : Ref, gateway : Gateway]

TypeOK ==
    /\ pc \in [Requests -> PC]
    /\ base \in [Requests -> Gateway \cup {NoGateway}]
    /\ route \in [Requests -> SUBSET Gateway]
    /\ lastErr \in [Requests -> {"none", "notConfigured", "failed"}]
    /\ chosen \in [Requests -> Gateway \cup {NoGateway}]
    /\ outcome \in [Requests -> Outcome]
    /\ answer \in [Requests -> Ref \cup {NoRef}]
    /\ accepted \subseteq Ref
    /\ intents \subseteq Row
    /\ outbox \subseteq Ref
    /\ fails \in [Gateway -> Nat]
    /\ open \subseteq Gateway
    /\ cooled \subseteq Gateway
    /\ faults \in 0..MaxFaults

Init ==
    /\ pc = [q \in Requests |-> "lookup"]
    /\ base = [q \in Requests |-> NoGateway]
    /\ route = [q \in Requests |-> {}]
    /\ lastErr = [q \in Requests |-> "none"]
    /\ chosen = [q \in Requests |-> NoGateway]
    /\ outcome = [q \in Requests |-> "none"]
    /\ answer = [q \in Requests |-> NoRef]
    /\ accepted = {}
    /\ intents = {}
    /\ outbox = {}
    /\ fails = [g \in Gateway |-> 0]
    /\ open = {}
    /\ cooled = {}
    /\ faults = 0

Fault == faults < MaxFaults /\ faults' = faults + 1
NoFault == UNCHANGED faults

-----------------------------------------------------------------------------
(* The router: which circuits a ranking leaves out. *)

\* What IsCircuitOpen rules out: open circuits, and circuits it fails to read.
Excluded(S) ==
    \/ S = open /\ NoFault
    \/ open \subseteq S /\ S # open /\ Fault

-----------------------------------------------------------------------------
(* charges.Initiate. *)

Goto(q, next) == pc' = [pc EXCEPT ![q] = next]

\* Initiate returns.
Return(q, how, ref) ==
    /\ Goto(q, "done")
    /\ outcome' = [outcome EXCEPT ![q] = how]
    /\ answer' = [answer EXCEPT ![q] = ref]

Stored(ref) == \E i \in intents : i.ref = ref
StoredKey(k) == \E i \in intents : k # NoKey /\ KeyOf[i.ref[1]] = k

\* Mutant: the key is not looked up.
LookupNever(q) ==
    /\ pc[q] = "lookup"
    /\ Goto(q, "route")
    /\ UNCHANGED <<base, route, lastErr, chosen, outcome, answer, accepted, storeVars,
                   healthVars, faults>>

\* FindByIdempotencyKey.  A failed query counts as a key never seen.
Lookup(q) ==
    /\ pc[q] = "lookup"
    /\ \/ /\ StoredKey(KeyOf[q])
          /\ \E i \in intents : KeyOf[i.ref[1]] = KeyOf[q] /\ Return(q, "replayed", i.ref)
          /\ NoFault
       \/ /\ ~StoredKey(KeyOf[q])
          /\ Goto(q, "route")
          /\ NoFault
          /\ UNCHANGED <<outcome, answer>>
       \/ /\ KeyOf[q] # NoKey
          /\ Goto(q, "route")
          /\ Fault
          /\ UNCHANGED <<outcome, answer>>
    /\ UNCHANGED <<base, route, lastErr, chosen, accepted, storeVars, healthVars>>

\* Mutant: the base reference is built before the ranking has a gateway for it.
RouteBaseUnset(q) ==
    /\ pc[q] = "route"
    /\ Goto(q, "fallback")
    /\ UNCHANGED <<base, route, lastErr, chosen, outcome, answer, accepted, storeVars,
                   healthVars, faults>>

\* The first ranking only gives the base reference its gateway segment.  A ranking
\* is never empty, so Initiate's "no gateway available" is never returned.
RouteBase(q) ==
    /\ pc[q] = "route"
    /\ \E S \in SUBSET Gateway :
         /\ Excluded(S)
         /\ base' = [base EXCEPT ![q] = First(Route(S))]
    /\ Goto(q, "fallback")
    /\ UNCHANGED <<route, lastErr, chosen, outcome, answer, accepted, storeVars, healthVars>>

\* InitiateWithFallback ranks again.
RouteFallback(q) ==
    /\ pc[q] = "fallback"
    /\ \E S \in SUBSET Gateway : Excluded(S) /\ route' = [route EXCEPT ![q] = Route(S)]
    /\ Goto(q, "call")
    /\ UNCHANGED <<base, lastErr, chosen, outcome, answer, accepted, storeVars, healthVars>>

\* Mutant: the loop goes on after a gateway has accepted.
CallGatewayWithoutReturn(q) ==
    LET g == First(route[q]) IN
    /\ pc[q] = "call"
    /\ route[q] # {}
    /\ route' = [route EXCEPT ![q] = @ \ {g}]
    /\ chosen' = [chosen EXCEPT ![q] = g]
    /\ accepted' = accepted \cup (IF g \in Configured THEN {<<q, g>>} ELSE {})
    /\ UNCHANGED <<pc, lastErr, base, outcome, answer, storeVars, healthVars, faults>>

\* adapter.Initiate of the next gateway, with the reference rebuilt for it: no
\* credentials, accepted, refused, accepted with the answer lost, or answered with a
\* 2xx whose body does not parse, which every adapter takes for an acceptance.
CallGateway(q) ==
    LET g == First(route[q]) IN
    /\ pc[q] = "call"
    /\ route[q] # {}
    /\ route' = [route EXCEPT ![q] = @ \ {g}]
    /\ chosen' = [chosen EXCEPT ![q] = g]
    /\ \/ /\ g \notin Configured
          /\ lastErr' = [lastErr EXCEPT ![q] = "notConfigured"]
          /\ NoFault
          /\ UNCHANGED <<pc, accepted>>
       \/ /\ g \in Configured
          /\ accepted' = accepted \cup {<<q, g>>}
          /\ Goto(q, "recordOk")
          /\ NoFault
          /\ UNCHANGED lastErr
       \/ /\ g \in Configured
          /\ lastErr' = [lastErr EXCEPT ![q] = "failed"]
          /\ Goto(q, "recordFailure")
          /\ NoFault
          /\ UNCHANGED accepted
       \/ /\ g \in Configured
          /\ accepted' = accepted \cup {<<q, g>>}
          /\ lastErr' = [lastErr EXCEPT ![q] = "failed"]
          /\ Goto(q, "recordFailure")
          /\ Fault
       \/ /\ g \in Configured
          /\ accepted' \in {accepted, accepted \cup {<<q, g>>}}
          /\ Goto(q, "recordOk")
          /\ Fault
          /\ UNCHANGED lastErr
    /\ UNCHANGED <<base, outcome, answer, storeVars, healthVars>>

\* The loop is over and no gateway accepted.  Only the last error counts: if it was
\* a missing configuration the charge is stored under the base reference.
GiveUp(q) ==
    /\ pc[q] = "call"
    /\ route[q] = {}
    /\ \/ /\ lastErr[q] = "notConfigured"
          /\ Goto(q, "createAnyway")
          /\ UNCHANGED <<outcome, answer>>
       \/ lastErr[q] # "notConfigured" /\ Return(q, "failed", NoRef)
    /\ UNCHANGED <<base, route, lastErr, chosen, accepted, storeVars, healthVars, faults>>

-----------------------------------------------------------------------------
(* RecordResult: the breaker.  Its errors are dropped by the router. *)

\* After a success the consecutive failures are forgotten.
RecordSuccess(q) ==
    LET cleared == [fails EXCEPT ![chosen[q]] = 0] IN
    /\ pc[q] = "recordOk"
    /\ Goto(q, "create")
    /\ \/ fails' = cleared /\ NoFault
       \/ fails' \in {fails, cleared} /\ Fault
    /\ UNCHANGED <<base, route, lastErr, chosen, outcome, answer, accepted, storeVars,
                   open, cooled>>

\* After a failure the count goes up, and is read back in a second round trip.
RecordFailure(q) ==
    LET counted == [fails EXCEPT ![chosen[q]] = @ + 1] IN
    /\ pc[q] = "recordFailure"
    /\ \/ fails' = counted /\ Goto(q, "getFailures") /\ NoFault
       \/ fails' \in {fails, counted} /\ Goto(q, "call") /\ Fault
    /\ UNCHANGED <<base, route, lastErr, chosen, outcome, answer, accepted, storeVars,
                   open, cooled>>

\* Mutant: the threshold itself does not count.
GetFailuresOffByOne(q) ==
    /\ pc[q] = "getFailures"
    /\ Goto(q, IF fails[chosen[q]] <= FailureThreshold THEN "call" ELSE "trip")
    /\ UNCHANGED <<base, route, lastErr, chosen, outcome, answer, accepted, storeVars,
                   healthVars, faults>>

\* maybeOpenCircuit reads the count ...
GetFailures(q) ==
    /\ pc[q] = "getFailures"
    /\ \/ fails[chosen[q]] < FailureThreshold /\ Goto(q, "call") /\ NoFault
       \/ fails[chosen[q]] >= FailureThreshold /\ Goto(q, "trip") /\ NoFault
       \/ Goto(q, "call") /\ Fault
    /\ UNCHANGED <<base, route, lastErr, chosen, outcome, answer, accepted, storeVars,
                   healthVars>>

\* ... and opens the circuit, whatever the count has become since.
Trip(q) ==
    /\ pc[q] = "trip"
    /\ Goto(q, "call")
    /\ \/ open' = open \cup {chosen[q]} /\ cooled' = cooled \ {chosen[q]} /\ NoFault
       \/ UNCHANGED <<open, cooled>> /\ Fault
    /\ UNCHANGED <<base, route, lastErr, chosen, outcome, answer, accepted, storeVars, fails>>

\* The key's 30 seconds are over.
CircuitExpires(g) ==
    /\ g \in open
    /\ open' = open \ {g}
    /\ cooled' = cooled \cup {g}
    /\ UNCHANGED <<requestVars, accepted, storeVars, fails, faults>>

-----------------------------------------------------------------------------
(* Storing the charge. *)

\* Mutant: the reference is not rebuilt after a fallback.
ActualRefKeepsBase(q) == <<q, base[q]>>

\* The reference of the gateway that accepted, on the ULID of the base reference.
ActualRef(q) == IF base[q] # chosen[q] THEN <<q, chosen[q]>> ELSE <<q, base[q]>>

\* Mutant: no UNIQUE (product, idempotency_key).
StorableTwice(q) == q \in InGHS

\* Do the constraints of payment_intents let the request's row in?
Storable(q) == q \in InGHS /\ ~StoredKey(KeyOf[q])

\* CreateIntent of a charge a gateway has accepted.  On an error Initiate returns
\* the error and forgets the charge, also when the row is there all the same.
CreateIntent(q) ==
    LET row == [ref |-> ActualRef(q), gateway |-> chosen[q]] IN
    /\ pc[q] = "create"
    /\ \/ /\ Storable(q)
          /\ intents' = intents \cup {row}
          /\ Goto(q, "outbox")
          /\ NoFault
          /\ UNCHANGED <<outcome, answer>>
       \/ /\ ~Storable(q)
          /\ Return(q, "error", NoRef)
          /\ NoFault
          /\ UNCHANGED intents
       \/ /\ intents' \in {intents, IF Storable(q) THEN intents \cup {row} ELSE intents}
          /\ Return(q, "error", NoRef)
          /\ Fault
    /\ UNCHANGED <<base, route, lastErr, chosen, accepted, outbox, healthVars>>

\* InsertOutboxEvent.  An error is only logged.
InsertOutboxEvent(q) ==
    /\ pc[q] = "outbox"
    /\ Return(q, "pending", ActualRef(q))
    /\ \/ outbox' = outbox \cup {ActualRef(q)} /\ NoFault
       \/ UNCHANGED outbox /\ Fault
    /\ UNCHANGED <<base, route, lastErr, chosen, accepted, intents, healthVars>>

\* Mutant: only a charge that a gateway has accepted is stored.
CreateNothingAnyway(q) ==
    /\ pc[q] = "createAnyway"
    /\ Goto(q, "outboxAnyway")
    /\ UNCHANGED <<base, route, lastErr, chosen, outcome, answer, accepted, storeVars,
                   healthVars, faults>>

\* CreateIntent of a charge no gateway has accepted, under the base reference.  Its
\* error is dropped.
CreateIntentAnyway(q) ==
    LET row == [ref |-> <<q, base[q]>>, gateway |-> base[q]] IN
    /\ pc[q] = "createAnyway"
    /\ Goto(q, "outboxAnyway")
    /\ \/ Storable(q) /\ intents' = intents \cup {row} /\ NoFault
       \/ ~Storable(q) /\ UNCHANGED intents /\ NoFault
       \/ UNCHANGED intents /\ Fault
    /\ UNCHANGED <<base, route, lastErr, chosen, outcome, answer, accepted, outbox, healthVars>>

\* Its outbox row: refused by the foreign key when there is no intent.  The answer
\* is a pending charge in every case.
InsertOutboxEventAnyway(q) ==
    LET ref == <<q, base[q]>> IN
    /\ pc[q] = "outboxAnyway"
    /\ Return(q, "unconfigured", ref)
    /\ \/ Stored(ref) /\ outbox' = outbox \cup {ref} /\ NoFault
       \/ ~Stored(ref) /\ UNCHANGED outbox /\ NoFault
       \/ UNCHANGED outbox /\ Fault
    /\ UNCHANGED <<base, route, lastErr, chosen, accepted, intents, healthVars>>

\* The API process stops, or the client goes away: Initiate does not return.
Crash(q) ==
    /\ pc[q] # "done"
    /\ Goto(q, "done")
    /\ Fault
    /\ UNCHANGED <<base, route, lastErr, chosen, outcome, answer, accepted, storeVars, healthVars>>

-----------------------------------------------------------------------------
RequestStep(q) ==
    \/ Lookup(q) \/ RouteBase(q) \/ RouteFallback(q) \/ CallGateway(q) \/ GiveUp(q)
    \/ RecordSuccess(q) \/ RecordFailure(q) \/ GetFailures(q) \/ Trip(q)
    \/ CreateIntent(q) \/ InsertOutboxEvent(q)
    \/ CreateIntentAnyway(q) \/ InsertOutboxEventAnyway(q)

Next ==
    \/ \E q \in Requests : RequestStep(q) \/ Crash(q)
    \/ \E g \in Gateway : CircuitExpires(g)

Spec == Init /\ [][Next]_vars

-----------------------------------------------------------------------------
(* Properties. *)

\* A charge reported as pending by the normal path can be settled, however the two
\* rankings and the fallback went: it is stored with the gateway its reference names
\* (Status routes by the reference's segment, webhooks by the stored gateway, the
\* worker by the outbox row), and the gateway is collecting under that reference, but
\* for one charge per call that went wrong (a 2xx body that does not parse).
PendingIsLive ==
    /\ \A q \in Requests : outcome[q] = "pending" =>
          [ref |-> answer[q], gateway |-> answer[q][2]] \in intents
    /\ Cardinality({q \in Requests : outcome[q] = "pending" /\ answer[q] \notin accepted}) <= faults

\* Requests with one idempotency key that are told of a charge, by the normal path
\* or by replay, are told of the same charge.
SameKeySameRef ==
    \A p, q \in Requests :
        /\ KeyOf[p] = KeyOf[q] /\ KeyOf[p] # NoKey
        /\ {outcome[p], outcome[q]} \subseteq {"pending", "replayed"}
        => answer[p] = answer[q]

\* One request starts one collection, plus one for every answer that was lost:
\* InitiateWithFallback stops at the first gateway that accepts.
OneAcceptancePerRequest ==
    \A q \in Requests : Cardinality({g \in Gateway : <<q, g>> \in accepted}) <= 1 + faults

\* While no call is lost or cut off, FailureThreshold consecutive failures leave the
\* circuit open, about to open, or open until it cooled down, however the
\* requests' increments, reads and resets interleave.
BreakerTrips ==
    \A g \in Gateway : faults = 0 /\ fails[g] >= FailureThreshold =>
        \/ g \in open \cup cooled
        \/ \E q \in Requests : chosen[q] = g /\ pc[q] \in {"getFailures", "trip"}
=============================================================================
