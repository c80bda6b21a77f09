---------------------------- MODULE ProductClient ----------------------------
(***************************************************************************)
(* A product that charges through the Go client, composed with the charge  *)
(* service: POST /v1/charges from the call of CreateCharge to its result,  *)
(* over a connection that can be refused, cut off or timed out while the   *)
(* server goes on.                                                         *)
(*                                                                         *)
(* A request of Charging is one attempt of an order.  A product tries an   *)
(* order again once every earlier attempt has ended without a charge; the  *)
(* server may still be busy with one of them.                              *)
(***************************************************************************)
EXTENDS Charging

CONSTANTS
    Orders,      \* what the product wants paid
    OrderOf,     \* the order of each attempt
    Keyed,       \* orders whose caller passes an IdempotencyKey
    MaxCutoffs   \* bound on connections that end before the answer

\* createCharge: without a key of the caller's, every call draws a ULID for one.
ChargeKey(q) == IF OrderOf[q] \in Keyed THEN <<"given", OrderOf[q]>> ELSE <<"drawn", q>>

ASSUME ClientAssumption ==
    /\ OrderOf \in [Requests -> Orders]
    /\ Keyed \subseteq Orders
    /\ \A q \in Requests : KeyOf[q] = ChargeKey(q) /\ KeyOf[q] # NoKey
    /\ MaxCutoffs \in Nat

VARIABLES
    call,      \* each attempt: "idle", "waiting" for its answer or "returned"
    arrived,   \* the attempts handleCreateCharge was entered for
    told,      \* what createCharge returned
    toldRef,   \* the reference in a ChargePending
    cutoffs,   \* connections that ended early
    overlaps   \* attempts sent while the server was busy with one of the same order

clientVars == <<call, arrived, told, toldRef, cutoffs, overlaps>>
allVars == <<vars, clientVars>>

ClientTypeOK ==
    /\ TypeOK
    /\ call \in [Requests -> {"idle", "waiting", "returned"}]
    /\ arrived \subseteq Requests
    /\ told \in [Requests -> {"none", "pending", "failed", "error"}]
    /\ toldRef \in [Requests -> Ref \cup {NoRef}]
    /\ cutoffs \in 0..MaxCutoffs
    /\ overlaps \in Nat

ClientInit ==
    /\ Init
    /\ call = [q \in Requests |-> "idle"]
    /\ arrived = {}
    /\ told = [q \in Requests |-> "none"]
    /\ toldRef = [q \in Requests |-> NoRef]
    /\ cutoffs = 0
    /\ overlaps = 0

-----------------------------------------------------------------------------
(* The wire: what the service writes and what createCharge makes of it. *)

\* handleCreateCharge: status code, error code ("" when there is no envelope) and
\* reference.
Written(q) ==
    CASE outcome[q] \in {"pending", "replayed", "unconfigured"} ->
            [status |-> 201, code |-> "", ref |-> answer[q]]
      [] outcome[q] = "failed" -> [status |-> 502, code |-> "unavailable", ref |-> NoRef]
      [] outcome[q] = "error" -> [status |-> 500, code |-> "internal_error", ref |-> NoRef]

\* Answers given before handleCreateCharge: the limiters and bearerAuth.
Refusals == {[status |-> 401, code |-> "unauthorized", ref |-> NoRef],
             [status |-> 429, code |-> "rate_limited", ref |-> NoRef]}

\* A proxy's own answer has no envelope.
ProxyAnswer == [status |-> 502, code |-> "", ref |-> NoRef]

\* Mutant: every 502 is taken for a declined charge.
Any502IsFailed(r) ==
    CASE r.status \in 200..299 -> "pending"
      [] r.status = 502 -> "failed"
      [] OTHER -> "error"

\* doJSONBytes and the switch of createCharge: only the service's own "unavailable"
\* is a failed charge, every other answer outside 2xx is an error.
Result(r) ==
    LET code == IF r.code # "" THEN r.code ELSE IF r.status >= 500 THEN "internal_error"
                ELSE "unknown"
    IN  CASE r.status \in 200..299 -> "pending"
          [] r.status \notin 200..299 /\ code = "unavailable" -> "failed"
          [] OTHER -> "error"

\* createCharge returns.
Returns(q, result, ref) ==
    /\ call' = [call EXCEPT ![q] = "returned"]
    /\ told' = [told EXCEPT ![q] = result]
    /\ toldRef' = [toldRef EXCEPT ![q] = IF result = "pending" THEN ref ELSE NoRef]

-----------------------------------------------------------------------------
Earlier(q) == {p \in Requests \ {q} : OrderOf[p] = OrderOf[q] /\ call[p] # "idle"}

\* The product calls CreateCharge: for the first time, or again when no earlier
\* attempt is known to have started a charge.
Send(q) ==
    /\ call[q] = "idle"
    /\ \A p \in Earlier(q) : call[p] = "returned" /\ told[p] \in {"failed", "error"}
    /\ call' = [call EXCEPT ![q] = "waiting"]
    /\ arrived' = arrived \cup {q}
    /\ overlaps' = overlaps
         + Cardinality({p \in Earlier(q) : p \in arrived /\ pc[p] # "done"})
    /\ UNCHANGED <<told, toldRef, cutoffs, vars>>

\* The call is answered before it reaches handleCreateCharge, or reaches nothing.
SendRefused(q) ==
    /\ call[q] = "idle"
    /\ \A p \in Earlier(q) : call[p] = "returned" /\ told[p] \in {"failed", "error"}
    /\ \E r \in Refusals \cup {ProxyAnswer} : Returns(q, Result(r), r.ref)
    /\ UNCHANGED <<arrived, cutoffs, overlaps, vars>>

\* Initiate has returned and its answer arrives.
Receive(q) ==
    /\ call[q] = "waiting"
    /\ pc[q] = "done" /\ outcome[q] # "none"
    /\ Returns(q, Result(Written(q)), Written(q).ref)
    /\ UNCHANGED <<arrived, cutoffs, overlaps, vars>>

\* The client's 10 seconds are over, the connection breaks, the body cannot be read
\* or is too large: createCharge returns an error, whatever the server did or does.
\* When the server notices, its context ends: that is Charging's Crash.
CutOff(q) ==
    /\ call[q] = "waiting"
    /\ cutoffs < MaxCutoffs
    /\ cutoffs' = cutoffs + 1
    /\ Returns(q, "error", NoRef)
    /\ UNCHANGED <<arrived, overlaps, vars>>

\* A proxy answers 502 in the server's place while the server goes on.
ProxyGivesUp(q) ==
    /\ call[q] = "waiting"
    /\ cutoffs < MaxCutoffs
    /\ cutoffs' = cutoffs + 1
    /\ Returns(q, Result(ProxyAnswer), NoRef)
    /\ UNCHANGED <<arrived, overlaps, vars>>

\* A crashed server answers nothing; the proxy or the client's timeout does.
Unanswered(q) ==
    /\ call[q] = "waiting"
    /\ pc[q] = "done" /\ outcome[q] = "none"
    /\ Returns(q, Result(ProxyAnswer), NoRef)
    /\ UNCHANGED <<arrived, cutoffs, overlaps, vars>>

ClientStep(q) ==
    \/ Send(q) \/ SendRefused(q) \/ Receive(q)
    \/ CutOff(q) \/ ProxyGivesUp(q) \/ Unanswered(q)

ServerStep ==
    /\ \/ \E q \in arrived : RequestStep(q) \/ Crash(q)
       \/ \E g \in Gateway : CircuitExpires(g)
    /\ UNCHANGED clientVars

ClientNext == ServerStep \/ \E q \in Requests : ClientStep(q)

ClientSpec == ClientInit /\ [][ClientNext]_allVars

-----------------------------------------------------------------------------
(* Properties. *)

Collected(o) == {ref \in accepted : OrderOf[ref[1]] = o}

\* A product that passes a key and tries again after errors and failures pays for an
\* order once, plus once for every call lost or cut off inside the server and every
\* attempt sent while the server was still busy with an earlier one: the idempotency
\* key protects retries that come after the answer, whatever happened to the answer.
KeyedRetryIsSafe ==
    \A o \in Keyed : (\A q \in Requests : OrderOf[q] = o => q \in InGHS) =>
        Cardinality(Collected(o)) <= 1 + faults + overlaps

\* Without a fault inside the server, an attempt the client reports as ChargeFailed
\* has started no collection: only the service's own verdict counts, never a proxy's
\* 502 given while Initiate is still running.
ToldFailedIsUncollected ==
    \A q \in Requests : told[q] = "failed" /\ faults = 0 => \A g \in Gateway : <<q, g>> \notin accepted

\* A ChargePending names a charge the store knows, so that its status, its webhook
\* and its settlement can find it; only a fault inside the server, a currency the
\* table refuses or an overlapping attempt leaves the client with a reference that
\* was never stored (Initiate drops CreateIntent's error when no gateway is
\* configured).
ToldPendingIsStored ==
    \A q \in InGHS : told[q] = "pending" /\ faults = 0 /\ overlaps = 0 => Stored(toldRef[q])
=============================================================================
