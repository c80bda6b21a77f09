---------------------------- MODULE ClientProofs ----------------------------
(***************************************************************************)
(* Proofs about the charge service (Charging), for any number of requests, *)
(* any keys, any configuration and any number of faults, and about the     *)
(* product client composed with it (ProductClient), for any orders,        *)
(* attempts and broken connections.                                        *)
(***************************************************************************)
EXTENDS ProductClient, GatewayRouterProofs

-----------------------------------------------------------------------------
(* The charge service: types and what is in hand. *)

\* What a request has in hand at each of its calls.
InHand ==
    \A q \in Requests :
        /\ pc[q] \notin {"lookup", "route", "done"} => base[q] \in Gateway
        /\ pc[q] \in {"recordOk", "recordFailure", "getFailures", "trip", "create", "outbox"}
              => chosen[q] \in Gateway

\* The reference handed to the gateway names the attempt and the gateway chosen for it.
LEMMA ActualRefIsChosen ==
    ASSUME NEW q \in Requests
    PROVE  ActualRef(q) = <<q, chosen[q]>>
BY DEF ActualRef

\* Every variable keeps its type and every call has the arguments it needs.
THEOREM TypeCorrect == Spec => [](TypeOK /\ InHand)
<1>1. Init => TypeOK /\ InHand
  BY LimitAssumption DEF Init, TypeOK, InHand, PC, Outcome
<1>2. TypeOK /\ InHand /\ [Next]_vars => (TypeOK /\ InHand)'
  <2> SUFFICES ASSUME TypeOK, InHand, [Next]_vars PROVE (TypeOK /\ InHand)'
    OBVIOUS
  <2> USE RequestAssumption, LimitAssumption
      DEF TypeOK, InHand, PC, Outcome, Row, Ref, Fault, NoFault, requestVars, storeVars, healthVars
  <2>1. ASSUME NEW q \in Requests, Lookup(q) PROVE (TypeOK /\ InHand)'
    BY <2>1 DEF Lookup, Goto, Return
  <2>2. ASSUME NEW q \in Requests, RouteBase(q) PROVE (TypeOK /\ InHand)'
    <3>1. PICK S \in SUBSET Gateway : Excluded(S) /\ base' = [base EXCEPT ![q] = First(Route(S))]
      BY <2>2 DEF RouteBase
    <3>2. First(Route(S)) \in Gateway
      BY RouteNotEmpty, FirstInRoute
    <3>3. faults' \in 0..MaxFaults
      BY <3>1 DEF Excluded
    <3>4. QED
      BY <2>2, <3>1, <3>2, <3>3 DEF RouteBase, Goto
  <2>3. ASSUME NEW q \in Requests, RouteFallback(q) PROVE (TypeOK /\ InHand)'
    <3>1. PICK S \in SUBSET Gateway : Excluded(S) /\ route' = [route EXCEPT ![q] = Route(S)]
      BY <2>3 DEF RouteFallback
    <3>2. Route(S) \in SUBSET Gateway
      BY RouteNotEmpty
    <3>3. faults' \in 0..MaxFaults
      BY <3>1 DEF Excluded
    <3>4. QED
      BY <2>3, <3>1, <3>2, <3>3 DEF RouteFallback, Goto
  <2>4. ASSUME NEW q \in Requests, CallGateway(q) PROVE (TypeOK /\ InHand)'
    <3>1. First(route[q]) \in Gateway
      BY <2>4, FirstInRoute DEF CallGateway
    <3>2. QED
      BY <2>4, <3>1 DEF CallGateway, Goto
  <2>5. ASSUME NEW q \in Requests, GiveUp(q) PROVE (TypeOK /\ InHand)'
    BY <2>5 DEF GiveUp, Goto, Return
  <2>6. ASSUME NEW q \in Requests, RecordSuccess(q) PROVE (TypeOK /\ InHand)'
    BY <2>6 DEF RecordSuccess, Goto
  <2>7. ASSUME NEW q \in Requests, RecordFailure(q) PROVE (TypeOK /\ InHand)'
    BY <2>7 DEF RecordFailure, Goto
  <2>8. ASSUME NEW q \in Requests, GetFailures(q) PROVE (TypeOK /\ InHand)'
    BY <2>8 DEF GetFailures, Goto
  <2>9. ASSUME NEW q \in Requests, Trip(q) PROVE (TypeOK /\ InHand)'
    BY <2>9 DEF Trip, Goto
  <2>10. ASSUME NEW q \in Requests, CreateIntent(q) PROVE (TypeOK /\ InHand)'
    <3>1. [ref |-> ActualRef(q), gateway |-> chosen[q]] \in Row
      BY <2>10, ActualRefIsChosen DEF CreateIntent
    <3>2. intents' \subseteq Row /\ faults' \in 0..MaxFaults
      BY <2>10, <3>1 DEF CreateIntent
    <3>3. /\ outcome' \in [Requests -> Outcome] /\ answer' \in [Requests -> Ref \cup {NoRef}]
          /\ pc' \in [Requests -> PC] /\ \A p \in Requests : p # q => pc'[p] = pc[p]
          /\ pc'[q] \in {"outbox", "done"}
      BY <2>10 DEF CreateIntent, Goto, Return
    <3>4. UNCHANGED <<base, route, lastErr, chosen, accepted, outbox, healthVars>>
      BY <2>10 DEF CreateIntent
    <3>5. InHand'
      BY <2>10, <3>3, <3>4 DEF CreateIntent
    <3>6. QED
      BY <3>2, <3>3, <3>4, <3>5
  <2>11. ASSUME NEW q \in Requests, InsertOutboxEvent(q) PROVE (TypeOK /\ InHand)'
    BY <2>11, ActualRefIsChosen DEF InsertOutboxEvent, Goto, Return
  <2>12. ASSUME NEW q \in Requests, CreateIntentAnyway(q) PROVE (TypeOK /\ InHand)'
    BY <2>12 DEF CreateIntentAnyway, Goto
  <2>13. ASSUME NEW q \in Requests, InsertOutboxEventAnyway(q) PROVE (TypeOK /\ InHand)'
    BY <2>13 DEF InsertOutboxEventAnyway, Goto, Return
  <2>14. ASSUME NEW q \in Requests, Crash(q) PROVE (TypeOK /\ InHand)'
    BY <2>14 DEF Crash, Goto
  <2>15. ASSUME NEW g \in Gateway, CircuitExpires(g) PROVE (TypeOK /\ InHand)'
    BY <2>15 DEF CircuitExpires
  <2>16. CASE UNCHANGED vars
    BY <2>16 DEF vars
  <2>17. QED
    BY <2>1, <2>2, <2>3, <2>4, <2>5, <2>6, <2>7, <2>8, <2>9, <2>10, <2>11, <2>12,
       <2>13, <2>14, <2>15, <2>16 DEF Next, RequestStep
<1>3. QED
  BY <1>1, <1>2, PTL DEF Spec

-----------------------------------------------------------------------------
(* The reference a product is given. *)

RowOf(ref) == [ref |-> ref, gateway |-> ref[2]]

\* One element more or less.
LEMMA OneElement ==
    ASSUME NEW S, IsFiniteSet(S), NEW x
    PROVE  /\ IsFiniteSet(S \cup {x}) /\ Cardinality(S \cup {x}) \in Nat
           /\ Cardinality(S \cup {x}) <= Cardinality(S) + 1
           /\ x \in S => IsFiniteSet(S \ {x}) /\ Cardinality(S \ {x}) = Cardinality(S) - 1
<1>1. Cardinality(S) \in Nat
  BY FS_CardinalityType
<1>2. IsFiniteSet(S \cup {x})
      /\ Cardinality(S \cup {x}) = IF x \in S THEN Cardinality(S) ELSE Cardinality(S) + 1
  BY FS_AddElement, Zenon
<1>3. IsFiniteSet(S \ {x})
      /\ Cardinality(S \ {x}) = IF x \in S THEN Cardinality(S) - 1 ELSE Cardinality(S)
  BY FS_RemoveElement, Zenon
<1>4. QED
  BY <1>1, <1>2, <1>3

\* Once its intent is stored, a request has the row of the gateway it chose, and a
\* request answered as pending the row of its answer.
RowInHand ==
    \A q \in Requests :
        /\ pc[q] = "outbox" => RowOf(<<q, chosen[q]>>) \in intents
        /\ outcome[q] = "pending" => RowOf(answer[q]) \in intents

\* Rows are where they are looked for.
LEMMA RowsKept == Spec => []RowInHand
<1>1. Init => RowInHand
  BY DEF Init, RowInHand
<1>2. TypeOK /\ InHand /\ RowInHand /\ [Next]_vars => RowInHand'
  <2> SUFFICES ASSUME TypeOK, InHand, RowInHand, [Next]_vars PROVE RowInHand'
    OBVIOUS
  <2> USE DEF TypeOK, InHand, RowInHand, RowOf, requestVars, storeVars, healthVars
  <2>1. ASSUME NEW q \in Requests, Lookup(q) PROVE RowInHand'
    BY <2>1 DEF Lookup, Goto, Return
  <2>2. ASSUME NEW q \in Requests, RouteBase(q) PROVE RowInHand'
    BY <2>2 DEF RouteBase, Goto
  <2>3. ASSUME NEW q \in Requests, RouteFallback(q) PROVE RowInHand'
    BY <2>3 DEF RouteFallback, Goto
  <2>4. ASSUME NEW q \in Requests, CallGateway(q) PROVE RowInHand'
    BY <2>4 DEF CallGateway, Goto
  <2>5. ASSUME NEW q \in Requests, GiveUp(q) PROVE RowInHand'
    BY <2>5 DEF GiveUp, Goto, Return
  <2>6. ASSUME NEW q \in Requests, RecordSuccess(q) PROVE RowInHand'
    BY <2>6 DEF RecordSuccess, Goto
  <2>7. ASSUME NEW q \in Requests, RecordFailure(q) PROVE RowInHand'
    BY <2>7 DEF RecordFailure, Goto
  <2>8. ASSUME NEW q \in Requests, GetFailures(q) PROVE RowInHand'
    BY <2>8 DEF GetFailures, Goto
  <2>9. ASSUME NEW q \in Requests, Trip(q) PROVE RowInHand'
    BY <2>9 DEF Trip, Goto
  <2>10. ASSUME NEW q \in Requests, CreateIntent(q) PROVE RowInHand'
    BY <2>10, ActualRefIsChosen DEF CreateIntent, Goto, Return
  <2>11. ASSUME NEW q \in Requests, InsertOutboxEvent(q) PROVE RowInHand'
    BY <2>11, ActualRefIsChosen DEF InsertOutboxEvent, Goto, Return
  <2>12. ASSUME NEW q \in Requests, CreateIntentAnyway(q) PROVE RowInHand'
    BY <2>12 DEF CreateIntentAnyway, Goto
  <2>13. ASSUME NEW q \in Requests, InsertOutboxEventAnyway(q) PROVE RowInHand'
    BY <2>13 DEF InsertOutboxEventAnyway, Goto, Return
  <2>14. ASSUME NEW q \in Requests, Crash(q) PROVE RowInHand'
    BY <2>14 DEF Crash, Goto
  <2>15. ASSUME NEW g \in Gateway, CircuitExpires(g) PROVE RowInHand'
    BY <2>15 DEF CircuitExpires
  <2>16. CASE UNCHANGED vars
    BY <2>16 DEF vars
  <2>17. QED
    BY <2>1, <2>2, <2>3, <2>4, <2>5, <2>6, <2>7, <2>8, <2>9, <2>10, <2>11, <2>12,
       <2>13, <2>14, <2>15, <2>16 DEF Next, RequestStep
<1>3. QED
  BY <1>1, <1>2, TypeCorrect, PTL DEF Spec

\* The requests that took, or are taking, for accepted what no gateway is collecting.
Misread ==
    {q \in Requests :
        \/ outcome[q] = "pending" /\ answer[q] \notin accepted
        \/ pc[q] \in {"recordOk", "create", "outbox"} /\ <<q, chosen[q]>> \notin accepted}

MisreadBudget == Cardinality(Misread) <= faults

\* A step that misreads nothing new keeps the budget, and so does a fault that misreads
\* one answer.
LEMMA MisreadFrame ==
    ASSUME TypeOK, MisreadBudget, faults' \in {faults, faults + 1},
           \/ Misread' \subseteq Misread
           \/ faults' = faults + 1 /\ \E q \in Requests : Misread' \subseteq Misread \cup {q}
    PROVE  MisreadBudget'
<1>1. Misread \subseteq Requests /\ IsFiniteSet(Misread) /\ Cardinality(Misread) \in Nat
  BY RequestAssumption, FS_Subset, FS_CardinalityType DEF Misread
<1>2. faults \in Nat /\ Cardinality(Misread) <= faults
  BY LimitAssumption DEF TypeOK, MisreadBudget
<1>3. CASE Misread' \subseteq Misread
  <2>1. IsFiniteSet(Misread') /\ Cardinality(Misread') <= Cardinality(Misread)
    BY <1>1, <1>3, FS_Subset
  <2>2. Cardinality(Misread') \in Nat
    BY <2>1, FS_CardinalityType
  <2>3. QED
    BY <1>1, <1>2, <2>1, <2>2 DEF MisreadBudget
<1>4. ASSUME faults' = faults + 1, NEW q \in Requests, Misread' \subseteq Misread \cup {q}
      PROVE  MisreadBudget'
  <2>1. /\ IsFiniteSet(Misread \cup {q}) /\ Cardinality(Misread \cup {q}) \in Nat
        /\ Cardinality(Misread \cup {q}) <= Cardinality(Misread) + 1
    BY <1>1, OneElement, Zenon
  <2>2. IsFiniteSet(Misread') /\ Cardinality(Misread') <= Cardinality(Misread \cup {q})
    BY <1>4, <2>1, FS_Subset
  <2>3. Cardinality(Misread') \in Nat
    BY <2>2, FS_CardinalityType
  <2>4. QED
    BY <1>1, <1>2, <1>4, <2>1, <2>2, <2>3 DEF MisreadBudget
<1>5. QED
  BY <1>3, <1>4

\* A pending charge is stored under the reference it is told by, and collected under
\* it but for one charge per call that went wrong.
THEOREM PendingCanSettle == Spec => []PendingIsLive
<1>1. Init => MisreadBudget
  <2> SUFFICES ASSUME Init PROVE MisreadBudget
    OBVIOUS
  <2>1. Misread = {}
    BY DEF Init, Misread
  <2>2. QED
    BY <2>1, FS_EmptySet DEF Init, MisreadBudget
<1>2. TypeOK /\ InHand /\ MisreadBudget /\ [Next]_vars => MisreadBudget'
  <2> SUFFICES ASSUME TypeOK, InHand, MisreadBudget, [Next]_vars PROVE MisreadBudget'
    OBVIOUS
  <2> DEFINE Fewer == Misread' \subseteq Misread /\ faults' \in {faults, faults + 1}
             OneMore(q) == Misread' \subseteq Misread \cup {q} /\ faults' = faults + 1
  <2> USE DEF TypeOK, Misread, Goto, Return, Fault, NoFault, requestVars, storeVars, healthVars
  <2>1. ASSUME NEW q \in Requests, Lookup(q) PROVE Fewer
    BY <2>1 DEF Lookup
  <2>2. ASSUME NEW q \in Requests, RouteBase(q) PROVE Fewer
    BY <2>2 DEF RouteBase, Excluded
  <2>3. ASSUME NEW q \in Requests, RouteFallback(q) PROVE Fewer
    BY <2>3 DEF RouteFallback, Excluded
  <2>4. ASSUME NEW q \in Requests, CallGateway(q) PROVE Fewer \/ OneMore(q)
    BY <2>4 DEF CallGateway
  <2>5. ASSUME NEW q \in Requests, GiveUp(q) PROVE Fewer
    BY <2>5 DEF GiveUp
  <2>6. ASSUME NEW q \in Requests, RecordSuccess(q) PROVE Fewer
    BY <2>6 DEF RecordSuccess
  <2>7. ASSUME NEW q \in Requests, RecordFailure(q) PROVE Fewer
    BY <2>7 DEF RecordFailure
  <2>8. ASSUME NEW q \in Requests, GetFailures(q) PROVE Fewer
    BY <2>8 DEF GetFailures
  <2>9. ASSUME NEW q \in Requests, Trip(q) PROVE Fewer
    BY <2>9 DEF Trip
  <2>10. ASSUME NEW q \in Requests, CreateIntent(q) PROVE Fewer
    BY <2>10, ActualRefIsChosen DEF CreateIntent
  <2>11. ASSUME NEW q \in Requests, InsertOutboxEvent(q) PROVE Fewer
    BY <2>11, ActualRefIsChosen DEF InsertOutboxEvent
  <2>12. ASSUME NEW q \in Requests, CreateIntentAnyway(q) PROVE Fewer
    BY <2>12 DEF CreateIntentAnyway
  <2>13. ASSUME NEW q \in Requests, InsertOutboxEventAnyway(q) PROVE Fewer
    BY <2>13 DEF InsertOutboxEventAnyway
  <2>14. ASSUME NEW q \in Requests, Crash(q) PROVE Fewer
    BY <2>14 DEF Crash
  <2>15. ASSUME NEW g \in Gateway, CircuitExpires(g) PROVE Fewer
    BY <2>15 DEF CircuitExpires
  <2>16. ASSUME UNCHANGED vars PROVE Fewer
    BY <2>16 DEF vars
  <2>17. Fewer \/ \E q \in Requests : OneMore(q)
    <3> HIDE DEF Fewer, OneMore
    <3>1. QED
      BY <2>1, <2>2, <2>3, <2>4, <2>5, <2>6, <2>7, <2>8, <2>9, <2>10, <2>11, <2>12,
         <2>13, <2>14, <2>15, <2>16 DEF Next, RequestStep
  <2>18. QED
    BY <2>17, MisreadFrame
<1>3. TypeOK /\ RowInHand /\ MisreadBudget => PendingIsLive
  <2> SUFFICES ASSUME TypeOK, RowInHand, MisreadBudget PROVE PendingIsLive
    OBVIOUS
  <2> DEFINE unread == {q \in Requests : outcome[q] = "pending" /\ answer[q] \notin accepted}
  <2>1. Misread \subseteq Requests /\ unread \subseteq Misread
    BY DEF Misread
  <2>2. IsFiniteSet(Misread)
    BY <2>1, RequestAssumption, FS_Subset
  <2>3. IsFiniteSet(unread) /\ Cardinality(unread) <= Cardinality(Misread)
    BY <2>1, <2>2, FS_Subset
  <2>4. Cardinality(unread) \in Nat /\ Cardinality(Misread) \in Nat /\ faults \in Nat
    BY <2>2, <2>3, FS_CardinalityType, LimitAssumption DEF TypeOK
  <2> HIDE DEF unread
  <2>5. Cardinality(unread) <= faults
    BY <2>3, <2>4 DEF MisreadBudget
  <2>6. QED
    BY <2>5 DEF unread, PendingIsLive, RowInHand, RowOf
<1>4. QED
  BY <1>1, <1>2, <1>3, TypeCorrect, RowsKept, PTL DEF Spec

-----------------------------------------------------------------------------
(* Idempotency keys. *)

\* UNIQUE (product, idempotency_key), as an invariant of the rows.
KeyUnique ==
    \A i, j \in intents :
        KeyOf[i.ref[1]] = KeyOf[j.ref[1]] /\ KeyOf[i.ref[1]] # NoKey => i.ref = j.ref

\* A request told of a charge with its key was told of a stored one.
ToldOfStored ==
    \A q \in Requests : outcome[q] \in {"pending", "replayed"} /\ KeyOf[q] # NoKey =>
        \E i \in intents : i.ref = answer[q] /\ KeyOf[i.ref[1]] = KeyOf[q]

KeyInv == KeyUnique /\ ToldOfStored

\* Requests with one key that are told of a charge are told of the same one.
THEOREM KeysNameOneCharge == Spec => []SameKeySameRef
<1>1. Init => KeyInv
  BY DEF Init, KeyInv, KeyUnique, ToldOfStored
<1>2. TypeOK /\ InHand /\ RowInHand /\ KeyInv /\ [Next]_vars => KeyInv'
  <2> SUFFICES ASSUME TypeOK, InHand, RowInHand, KeyInv, [Next]_vars PROVE KeyInv'
    OBVIOUS
  <2> USE DEF TypeOK, KeyInv, KeyUnique, ToldOfStored, requestVars, storeVars, healthVars
  <2>1. ASSUME NEW q \in Requests, Lookup(q) PROVE KeyInv'
    BY <2>1 DEF Lookup, Goto, Return, StoredKey
  <2>2. ASSUME NEW q \in Requests, RouteBase(q) PROVE KeyInv'
    BY <2>2 DEF RouteBase, Goto
  <2>3. ASSUME NEW q \in Requests, RouteFallback(q) PROVE KeyInv'
    BY <2>3 DEF RouteFallback, Goto
  <2>4. ASSUME NEW q \in Requests, CallGateway(q) PROVE KeyInv'
    BY <2>4 DEF CallGateway, Goto
  <2>5. ASSUME NEW q \in Requests, GiveUp(q) PROVE KeyInv'
    BY <2>5 DEF GiveUp, Goto, Return
  <2>6. ASSUME NEW q \in Requests, RecordSuccess(q) PROVE KeyInv'
    BY <2>6 DEF RecordSuccess, Goto
  <2>7. ASSUME NEW q \in Requests, RecordFailure(q) PROVE KeyInv'
    BY <2>7 DEF RecordFailure, Goto
  <2>8. ASSUME NEW q \in Requests, GetFailures(q) PROVE KeyInv'
    BY <2>8 DEF GetFailures, Goto
  <2>9. ASSUME NEW q \in Requests, Trip(q) PROVE KeyInv'
    BY <2>9 DEF Trip, Goto
  <2>10. ASSUME NEW q \in Requests, CreateIntent(q) PROVE KeyInv'
    <3> DEFINE row == [ref |-> ActualRef(q), gateway |-> chosen[q]]
    <3>1. row.ref[1] = q
      BY ActualRefIsChosen
    <3>2. intents' \in {intents, intents \cup {row}} /\ (intents' # intents => Storable(q))
      BY <2>10 DEF CreateIntent
    <3>3. KeyUnique'
      BY <3>1, <3>2 DEF Storable, StoredKey
    <3>4. \A p \in Requests : outcome'[p] \in {"pending", "replayed"}
                                 => outcome'[p] = outcome[p] /\ answer'[p] = answer[p]
      BY <2>10 DEF CreateIntent, Return
    <3>5. ToldOfStored'
      BY <3>2, <3>4
    <3>6. QED
      BY <3>3, <3>5
  <2>11. ASSUME NEW q \in Requests, InsertOutboxEvent(q) PROVE KeyInv'
    <3>1. RowOf(<<q, chosen[q]>>) \in intents
      BY <2>11 DEF InsertOutboxEvent, RowInHand
    <3>2. ToldOfStored'
      BY <2>11, <3>1, ActualRefIsChosen DEF InsertOutboxEvent, Return, RowOf
    <3>3. QED
      BY <2>11, <3>2 DEF InsertOutboxEvent
  <2>12. ASSUME NEW q \in Requests, CreateIntentAnyway(q) PROVE KeyInv'
    <3> DEFINE row == [ref |-> <<q, base[q]>>, gateway |-> base[q]]
    <3>1. intents' \in {intents, intents \cup {row}} /\ (intents' # intents => Storable(q))
      BY <2>12 DEF CreateIntentAnyway
    <3>2. KeyUnique'
      BY <3>1 DEF Storable, StoredKey
    <3>3. ToldOfStored'
      BY <2>12, <3>1 DEF CreateIntentAnyway
    <3>4. QED
      BY <3>2, <3>3
  <2>13. ASSUME NEW q \in Requests, InsertOutboxEventAnyway(q) PROVE KeyInv'
    BY <2>13 DEF InsertOutboxEventAnyway, Goto, Return
  <2>14. ASSUME NEW q \in Requests, Crash(q) PROVE KeyInv'
    BY <2>14 DEF Crash, Goto
  <2>15. ASSUME NEW g \in Gateway, CircuitExpires(g) PROVE KeyInv'
    BY <2>15 DEF CircuitExpires
  <2>16. CASE UNCHANGED vars
    BY <2>16 DEF vars
  <2>17. QED
    BY <2>1, <2>2, <2>3, <2>4, <2>5, <2>6, <2>7, <2>8, <2>9, <2>10, <2>11, <2>12,
       <2>13, <2>14, <2>15, <2>16 DEF Next, RequestStep
<1>3. KeyInv => SameKeySameRef
  BY DEF KeyInv, KeyUnique, ToldOfStored, SameKeySameRef
<1>4. QED
  BY <1>1, <1>2, <1>3, TypeCorrect, RowsKept, PTL DEF Spec

-----------------------------------------------------------------------------
(* The breaker. *)

\* Consecutive failures open the circuit although counting, reading and opening are
\* three round trips that other requests' resets and failures may come between.
THEOREM BreakerOpens == Spec => []BreakerTrips
<1>1. Init => BreakerTrips
  BY LimitAssumption DEF Init, BreakerTrips
<1>2. TypeOK /\ InHand /\ BreakerTrips /\ [Next]_vars => BreakerTrips'
  <2> SUFFICES ASSUME TypeOK, InHand, BreakerTrips, [Next]_vars PROVE BreakerTrips'
    OBVIOUS
  <2> USE LimitAssumption
      DEF TypeOK, InHand, BreakerTrips, Fault, NoFault, requestVars, storeVars, healthVars
  <2>1. ASSUME NEW q \in Requests, Lookup(q) PROVE BreakerTrips'
    BY <2>1 DEF Lookup, Goto, Return
  <2>2. ASSUME NEW q \in Requests, RouteBase(q) PROVE BreakerTrips'
    BY <2>2 DEF RouteBase, Goto, Excluded
  <2>3. ASSUME NEW q \in Requests, RouteFallback(q) PROVE BreakerTrips'
    BY <2>3 DEF RouteFallback, Goto, Excluded
  <2>4. ASSUME NEW q \in Requests, CallGateway(q) PROVE BreakerTrips'
    BY <2>4 DEF CallGateway, Goto
  <2>5. ASSUME NEW q \in Requests, GiveUp(q) PROVE BreakerTrips'
    BY <2>5 DEF GiveUp, Goto, Return
  <2>6. ASSUME NEW q \in Requests, RecordSuccess(q) PROVE BreakerTrips'
    BY <2>6 DEF RecordSuccess, Goto
  <2>7. ASSUME NEW q \in Requests, RecordFailure(q) PROVE BreakerTrips'
    BY <2>7 DEF RecordFailure, Goto
  <2>8. ASSUME NEW q \in Requests, GetFailures(q) PROVE BreakerTrips'
    BY <2>8 DEF GetFailures, Goto
  <2>9. ASSUME NEW q \in Requests, Trip(q) PROVE BreakerTrips'
    BY <2>9 DEF Trip, Goto
  <2>10. ASSUME NEW q \in Requests, CreateIntent(q) PROVE BreakerTrips'
    BY <2>10 DEF CreateIntent, Goto, Return
  <2>11. ASSUME NEW q \in Requests, InsertOutboxEvent(q) PROVE BreakerTrips'
    BY <2>11 DEF InsertOutboxEvent, Goto, Return
  <2>12. ASSUME NEW q \in Requests, CreateIntentAnyway(q) PROVE BreakerTrips'
    BY <2>12 DEF CreateIntentAnyway, Goto
  <2>13. ASSUME NEW q \in Requests, InsertOutboxEventAnyway(q) PROVE BreakerTrips'
    BY <2>13 DEF InsertOutboxEventAnyway, Goto, Return
  <2>14. ASSUME NEW q \in Requests, Crash(q) PROVE BreakerTrips'
    BY <2>14 DEF Crash, Goto
  <2>15. ASSUME NEW g \in Gateway, CircuitExpires(g) PROVE BreakerTrips'
    BY <2>15 DEF CircuitExpires
  <2>16. CASE UNCHANGED vars
    BY <2>16 DEF vars
  <2>17. QED
    BY <2>1, <2>2, <2>3, <2>4, <2>5, <2>6, <2>7, <2>8, <2>9, <2>10, <2>11, <2>12,
       <2>13, <2>14, <2>15, <2>16 DEF Next, RequestStep
<1>3. QED
  BY <1>1, <1>2, TypeCorrect, PTL DEF Spec

-----------------------------------------------------------------------------
(* How many collections a request starts. *)

AcceptedBy(q) == {g \in Gateway : <<q, g>> \in accepted}

\* Until a gateway accepts, every collection started is one whose answer was lost.
AcceptanceBudget ==
    \A q \in Requests :
        Cardinality(AcceptedBy(q)) <=
            faults + (IF pc[q] \in {"recordOk", "create", "outbox", "done"} THEN 1 ELSE 0)

\* A step that starts no collection keeps the budget if the request does not go
\* back to before its acceptance.
LEMMA AcceptanceFrame ==
    ASSUME TypeOK, AcceptanceBudget, UNCHANGED accepted, faults' \in {faults, faults + 1},
           \A q \in Requests : pc[q] \in {"recordOk", "create", "outbox", "done"}
                               => pc'[q] \in {"recordOk", "create", "outbox", "done"}
    PROVE  AcceptanceBudget'
<1> SUFFICES ASSUME NEW q \in Requests
             PROVE  Cardinality(AcceptedBy(q)') <=
                      faults' + (IF pc'[q] \in {"recordOk", "create", "outbox", "done"}
                                   THEN 1 ELSE 0)
  BY DEF AcceptanceBudget
<1>1. AcceptedBy(q)' = AcceptedBy(q) /\ Cardinality(AcceptedBy(q)) \in Nat
  BY GatewayFinite DEF AcceptedBy
<1>2. QED
  BY <1>1 DEF AcceptanceBudget, TypeOK

\* A request starts one collection, plus one per lost answer.
THEOREM RequestsCollectOnce == Spec => []OneAcceptancePerRequest
<1>1. Init => AcceptanceBudget
  <2> SUFFICES ASSUME Init, NEW q \in Requests PROVE Cardinality(AcceptedBy(q)) = 0
    BY DEF Init, AcceptanceBudget
  <2>1. AcceptedBy(q) = {}
    BY DEF Init, AcceptedBy
  <2>2. QED
    BY <2>1, FS_EmptySet
<1>2. TypeOK /\ AcceptanceBudget /\ [Next]_vars => AcceptanceBudget'
  <2> SUFFICES ASSUME TypeOK, AcceptanceBudget, [Next]_vars PROVE AcceptanceBudget'
    OBVIOUS
  <2> USE DEF Fault, NoFault, requestVars, storeVars, healthVars
  <2>1. ASSUME NEW q \in Requests, Lookup(q) PROVE AcceptanceBudget'
    BY <2>1, AcceptanceFrame DEF Lookup, Goto, Return, TypeOK
  <2>2. ASSUME NEW q \in Requests, RouteBase(q) PROVE AcceptanceBudget'
    BY <2>2, AcceptanceFrame DEF RouteBase, Goto, TypeOK, Excluded
  <2>3. ASSUME NEW q \in Requests, RouteFallback(q) PROVE AcceptanceBudget'
    BY <2>3, AcceptanceFrame DEF RouteFallback, Goto, TypeOK, Excluded
  <2>4. ASSUME NEW q \in Requests, CallGateway(q) PROVE AcceptanceBudget'
    <3> DEFINE g == First(route[q])
    <3>1. g \in Gateway
      BY <2>4, FirstInRoute DEF CallGateway, TypeOK
    <3>2. CASE UNCHANGED <<accepted>>
      BY <2>4, <3>2, AcceptanceFrame DEF CallGateway, Goto, TypeOK
    <3>3. CASE /\ accepted' = accepted \cup {<<q, g>>}
               /\ \/ pc' = [pc EXCEPT ![q] = "recordOk"] /\ faults' = faults
                  \/ pc' = [pc EXCEPT ![q] = "recordFailure"] /\ faults' = faults + 1
                  \/ pc' = [pc EXCEPT ![q] = "recordOk"] /\ faults' = faults + 1
      <4> SUFFICES ASSUME NEW p \in Requests
                   PROVE  Cardinality(AcceptedBy(p)') <=
                            faults' + (IF pc'[p] \in {"recordOk", "create", "outbox", "done"}
                                         THEN 1 ELSE 0)
        BY DEF AcceptanceBudget
      <4>1. IsFiniteSet(AcceptedBy(p)) /\ Cardinality(AcceptedBy(p)) \in Nat
        BY GatewayFinite DEF AcceptedBy
      <4>2. CASE p = q
        <5>1. AcceptedBy(p)' = AcceptedBy(p) \cup {g}
          BY <3>1, <3>3, <4>2 DEF AcceptedBy
        <5>2. Cardinality(AcceptedBy(p)') <= Cardinality(AcceptedBy(p)) + 1
          <6> DEFINE S == AcceptedBy(p)
                     n == Cardinality(S)
          <6>1. Cardinality(S \cup {g}) = IF g \in S THEN n ELSE n + 1
            BY <4>1, FS_AddElement
          <6>2. n \in Nat
            BY <4>1
          <6> HIDE DEF n
          <6>3. Cardinality(S \cup {g}) <= n + 1
            BY <6>1, <6>2
          <6>4. QED
            BY <5>1, <6>3 DEF n
        <5>3. Cardinality(AcceptedBy(p)') \in Nat
          BY GatewayFinite DEF AcceptedBy
        <5>4. pc[p] = "call"
          BY <2>4, <4>2 DEF CallGateway
        <5>5. QED
          BY <3>3, <4>1, <4>2, <5>2, <5>3, <5>4 DEF AcceptanceBudget, TypeOK
      <4>3. CASE p # q
        <5>1. AcceptedBy(p)' = AcceptedBy(p)
          BY <3>3, <4>3 DEF AcceptedBy
        <5>2. QED
          BY <3>3, <4>1, <4>3, <5>1 DEF AcceptanceBudget, TypeOK
      <4>4. QED
        BY <4>2, <4>3
    <3>4. QED
      BY <2>4, <3>2, <3>3 DEF CallGateway, Goto
  <2>5. ASSUME NEW q \in Requests, GiveUp(q) PROVE AcceptanceBudget'
    BY <2>5, AcceptanceFrame DEF GiveUp, Goto, Return, TypeOK
  <2>6. ASSUME NEW q \in Requests, RecordSuccess(q) PROVE AcceptanceBudget'
    BY <2>6, AcceptanceFrame DEF RecordSuccess, Goto, TypeOK
  <2>7. ASSUME NEW q \in Requests, RecordFailure(q) PROVE AcceptanceBudget'
    BY <2>7, AcceptanceFrame DEF RecordFailure, Goto, TypeOK
  <2>8. ASSUME NEW q \in Requests, GetFailures(q) PROVE AcceptanceBudget'
    BY <2>8, AcceptanceFrame DEF GetFailures, Goto, TypeOK
  <2>9. ASSUME NEW q \in Requests, Trip(q) PROVE AcceptanceBudget'
    BY <2>9, AcceptanceFrame DEF Trip, Goto, TypeOK
  <2>10. ASSUME NEW q \in Requests, CreateIntent(q) PROVE AcceptanceBudget'
    BY <2>10, AcceptanceFrame DEF CreateIntent, Goto, Return, TypeOK
  <2>11. ASSUME NEW q \in Requests, InsertOutboxEvent(q) PROVE AcceptanceBudget'
    BY <2>11, AcceptanceFrame DEF InsertOutboxEvent, Goto, Return, TypeOK
  <2>12. ASSUME NEW q \in Requests, CreateIntentAnyway(q) PROVE AcceptanceBudget'
    BY <2>12, AcceptanceFrame DEF CreateIntentAnyway, Goto, TypeOK
  <2>13. ASSUME NEW q \in Requests, InsertOutboxEventAnyway(q) PROVE AcceptanceBudget'
    BY <2>13, AcceptanceFrame DEF InsertOutboxEventAnyway, Goto, Return, TypeOK
  <2>14. ASSUME NEW q \in Requests, Crash(q) PROVE AcceptanceBudget'
    BY <2>14, AcceptanceFrame DEF Crash, Goto, TypeOK
  <2>15. ASSUME NEW g \in Gateway, CircuitExpires(g) PROVE AcceptanceBudget'
    BY <2>15, AcceptanceFrame DEF CircuitExpires, TypeOK
  <2>16. CASE UNCHANGED vars
    BY <2>16, AcceptanceFrame DEF vars
  <2>17. QED
    BY <2>1, <2>2, <2>3, <2>4, <2>5, <2>6, <2>7, <2>8, <2>9, <2>10, <2>11, <2>12,
       <2>13, <2>14, <2>15, <2>16 DEF Next, RequestStep
<1>3. TypeOK /\ AcceptanceBudget => OneAcceptancePerRequest
  <2> SUFFICES ASSUME TypeOK, AcceptanceBudget, NEW q \in Requests
               PROVE  Cardinality(AcceptedBy(q)) <= 1 + faults
    BY DEF OneAcceptancePerRequest, AcceptedBy
  <2>1. Cardinality(AcceptedBy(q)) \in Nat
    BY GatewayFinite DEF AcceptedBy
  <2>2. QED
    BY <2>1 DEF AcceptanceBudget, TypeOK
<1>4. QED
  BY <1>1, <1>2, <1>3, TypeCorrect, PTL DEF Spec

-----------------------------------------------------------------------------
(* The product client. *)

\* A step of the client leaves the service alone.
LEMMA ClientStepIsLocal ==
    ASSUME NEW q \in Requests, ClientStep(q) PROVE UNCHANGED vars
BY DEF ClientStep, Send, SendRefused, Receive, CutOff, ProxyGivesUp, Unanswered

\* A step of the composition is a step of the service or leaves it alone.
LEMMA StepOfService ==
    ASSUME [ClientNext]_allVars, arrived \subseteq Requests PROVE [Next]_vars
<1>1. CASE ServerStep
  BY <1>1 DEF ServerStep, Next
<1>2. ASSUME NEW q \in Requests, ClientStep(q) PROVE UNCHANGED vars
  BY <1>2, ClientStepIsLocal
<1>3. CASE UNCHANGED allVars
  BY <1>3 DEF allVars
<1>4. QED
  BY <1>1, <1>2, <1>3 DEF ClientNext

\* Only attempts of the client reach the API.
LEMMA ArrivedAreRequests == ClientSpec => [](arrived \subseteq Requests)
<1>1. ClientInit => arrived \subseteq Requests
  BY DEF ClientInit
<1>2. arrived \subseteq Requests /\ [ClientNext]_allVars => (arrived \subseteq Requests)'
  <2> SUFFICES ASSUME arrived \subseteq Requests, [ClientNext]_allVars
               PROVE  (arrived \subseteq Requests)'
    OBVIOUS
  <2>1. CASE ServerStep
    BY <2>1 DEF ServerStep, clientVars
  <2>2. ASSUME NEW q \in Requests, ClientStep(q) PROVE (arrived \subseteq Requests)'
    BY <2>2 DEF ClientStep, Send, SendRefused, Receive, CutOff, ProxyGivesUp, Unanswered
  <2>3. CASE UNCHANGED allVars
    BY <2>3 DEF allVars, clientVars
  <2>4. QED
    BY <2>1, <2>2, <2>3 DEF ClientNext
<1>3. QED
  BY <1>1, <1>2, PTL DEF ClientSpec

\* The composition keeps to the specification of the charge service: whatever is
\* proved of Charging holds of the service behind any client.
THEOREM ClientImplementsCharging == ClientSpec => Spec
<1>1. ClientInit => Init
  BY DEF ClientInit
<1>2. arrived \subseteq Requests /\ [ClientNext]_allVars => [Next]_vars
  BY StepOfService
<1>3. QED
  BY <1>1, <1>2, ArrivedAreRequests, PTL DEF ClientSpec, Spec

-----------------------------------------------------------------------------
(* Failed means uncollected. *)

\* Where Initiate is while no gateway has accepted, unless an answer was lost.
Trying == {"lookup", "route", "fallback", "call", "recordFailure", "getFailures", "trip",
           "createAnyway", "outboxAnyway"}

NothingStarted(q) == \A g \in Gateway : <<q, g>> \notin accepted

\* An outcome ends a request, and without a fault a request that is still trying, or
\* was answered as failed, has started nothing.
QuietInv ==
    /\ \A q \in Requests : outcome[q] # "none" => pc[q] = "done"
    /\ faults = 0 => \A q \in Requests :
          pc[q] \in Trying \/ outcome[q] = "failed" => NothingStarted(q)

\* Without a fault, a request that failed or is still trying has started no charge.
LEMMA FailedStartedNothing == Spec => []QuietInv
<1>1. Init => QuietInv
  BY DEF Init, QuietInv, NothingStarted
<1>2. TypeOK /\ QuietInv /\ [Next]_vars => QuietInv'
  <2> SUFFICES ASSUME TypeOK, QuietInv, [Next]_vars PROVE QuietInv'
    OBVIOUS
  <2> USE DEF TypeOK, QuietInv, NothingStarted, Trying, Fault, NoFault, Goto, Return,
              requestVars, storeVars, healthVars
  <2>1. ASSUME NEW q \in Requests, Lookup(q) PROVE QuietInv'
    BY <2>1 DEF Lookup
  <2>2. ASSUME NEW q \in Requests, RouteBase(q) PROVE QuietInv'
    BY <2>2 DEF RouteBase, Excluded
  <2>3. ASSUME NEW q \in Requests, RouteFallback(q) PROVE QuietInv'
    BY <2>3 DEF RouteFallback, Excluded
  <2>4. ASSUME NEW q \in Requests, CallGateway(q) PROVE QuietInv'
    BY <2>4 DEF CallGateway
  <2>5. ASSUME NEW q \in Requests, GiveUp(q) PROVE QuietInv'
    BY <2>5 DEF GiveUp
  <2>6. ASSUME NEW q \in Requests, RecordSuccess(q) PROVE QuietInv'
    BY <2>6 DEF RecordSuccess
  <2>7. ASSUME NEW q \in Requests, RecordFailure(q) PROVE QuietInv'
    BY <2>7 DEF RecordFailure
  <2>8. ASSUME NEW q \in Requests, GetFailures(q) PROVE QuietInv'
    BY <2>8 DEF GetFailures
  <2>9. ASSUME NEW q \in Requests, Trip(q) PROVE QuietInv'
    BY <2>9 DEF Trip
  <2>10. ASSUME NEW q \in Requests, CreateIntent(q) PROVE QuietInv'
    BY <2>10 DEF CreateIntent
  <2>11. ASSUME NEW q \in Requests, InsertOutboxEvent(q) PROVE QuietInv'
    BY <2>11 DEF InsertOutboxEvent
  <2>12. ASSUME NEW q \in Requests, CreateIntentAnyway(q) PROVE QuietInv'
    BY <2>12 DEF CreateIntentAnyway
  <2>13. ASSUME NEW q \in Requests, InsertOutboxEventAnyway(q) PROVE QuietInv'
    BY <2>13 DEF InsertOutboxEventAnyway
  <2>14. ASSUME NEW q \in Requests, Crash(q) PROVE QuietInv'
    BY <2>14 DEF Crash
  <2>15. ASSUME NEW g \in Gateway, CircuitExpires(g) PROVE QuietInv'
    BY <2>15 DEF CircuitExpires
  <2>16. CASE UNCHANGED vars
    BY <2>16 DEF vars
  <2>17. QED
    BY <2>1, <2>2, <2>3, <2>4, <2>5, <2>6, <2>7, <2>8, <2>9, <2>10, <2>11, <2>12,
       <2>13, <2>14, <2>15, <2>16 DEF Next, RequestStep
<1>3. QED
  BY <1>1, <1>2, TypeCorrect, PTL DEF Spec

\* A request that has ended keeps its outcome.
LEMMA OutcomesAreFinal ==
    ASSUME TypeOK, QuietInv, [Next]_vars, NEW q \in Requests, outcome[q] # "none"
    PROVE  outcome'[q] = outcome[q] /\ answer'[q] = answer[q]
<1> USE DEF TypeOK, Goto, Return, requestVars
<1>1. pc[q] = "done"
  BY DEF QuietInv
<1>2. ASSUME NEW p \in Requests, RequestStep(p)
      PROVE  outcome'[q] = outcome[q] /\ answer'[q] = answer[q]
  <2>1. CASE Lookup(p)
    BY <1>1, <2>1 DEF Lookup
  <2>2. CASE GiveUp(p)
    BY <1>1, <2>2 DEF GiveUp
  <2>3. CASE CreateIntent(p)
    BY <1>1, <2>3 DEF CreateIntent
  <2>4. CASE InsertOutboxEvent(p)
    BY <1>1, <2>4 DEF InsertOutboxEvent
  <2>5. CASE InsertOutboxEventAnyway(p)
    BY <1>1, <2>5 DEF InsertOutboxEventAnyway
  <2>6. CASE RouteBase(p) \/ RouteFallback(p) \/ CallGateway(p)
    BY <2>6 DEF RouteBase, RouteFallback, CallGateway
  <2>7. CASE RecordSuccess(p) \/ RecordFailure(p) \/ GetFailures(p) \/ Trip(p)
    BY <2>7 DEF RecordSuccess, RecordFailure, GetFailures, Trip
  <2>8. CASE CreateIntentAnyway(p)
    BY <2>8 DEF CreateIntentAnyway
  <2>9. QED
    BY <1>2, <2>1, <2>2, <2>3, <2>4, <2>5, <2>6, <2>7, <2>8 DEF RequestStep
<1>3. ASSUME NEW p \in Requests, Crash(p)
      PROVE  outcome'[q] = outcome[q] /\ answer'[q] = answer[q]
  BY <1>3 DEF Crash
<1>4. ASSUME NEW g \in Gateway, CircuitExpires(g)
      PROVE  outcome'[q] = outcome[q] /\ answer'[q] = answer[q]
  BY <1>4 DEF CircuitExpires
<1>5. CASE UNCHANGED vars
  BY <1>5 DEF vars
<1>6. QED
  BY <1>2, <1>3, <1>4, <1>5 DEF Next

\* What createCharge makes of the answers.
LEMMA ResultsMean ==
    /\ \A r \in Refusals \cup {ProxyAnswer} : Result(r) = "error"
    /\ \A q \in Requests : outcome[q] \in Outcome \ {"none"} =>
          /\ Result(Written(q)) = "failed" => outcome[q] = "failed"
          /\ Result(Written(q)) = "pending" =>
                /\ outcome[q] \in {"pending", "replayed", "unconfigured"}
                /\ Written(q).ref = answer[q]
<1>1. \A r \in Refusals \cup {ProxyAnswer} : Result(r) = "error"
  <2>1. Result([status |-> 401, code |-> "unauthorized", ref |-> NoRef]) = "error"
    BY DEF Result
  <2>2. Result([status |-> 429, code |-> "rate_limited", ref |-> NoRef]) = "error"
    BY DEF Result
  <2>3. Result(ProxyAnswer) = "error"
    BY DEF ProxyAnswer, Result
  <2>4. QED
    BY <2>1, <2>2, <2>3 DEF Refusals
<1>2. ASSUME NEW q \in Requests, outcome[q] \in {"pending", "replayed", "unconfigured"}
      PROVE  Result(Written(q)) = "pending" /\ Written(q).ref = answer[q]
  <2>1. ASSUME NEW x PROVE LET r == [status |-> 201, code |-> "", ref |-> x]
                           IN  Result(r) = "pending" /\ r.ref = x
    BY DEF Result
  <2>2. Written(q) = [status |-> 201, code |-> "", ref |-> answer[q]]
    BY <1>2 DEF Written
  <2>3. QED
    BY <2>1, <2>2, Zenon
<1>3. ASSUME NEW q \in Requests, outcome[q] = "failed" PROVE Result(Written(q)) = "failed"
  <2>1. Written(q) = [status |-> 502, code |-> "unavailable", ref |-> NoRef]
    BY <1>3 DEF Written
  <2>2. QED
    BY <2>1 DEF Result
<1>4. ASSUME NEW q \in Requests, outcome[q] = "error" PROVE Result(Written(q)) = "error"
  <2>1. Written(q) = [status |-> 500, code |-> "internal_error", ref |-> NoRef]
    BY <1>4 DEF Written
  <2>2. QED
    BY <2>1 DEF Result
<1>5. QED
  BY <1>1, <1>2, <1>3, <1>4 DEF Outcome

\* What the client was told is what the service has answered.
ToldInv ==
    /\ told \in [Requests -> {"none", "pending", "failed", "error"}]
    /\ DOMAIN toldRef = Requests
    /\ \A q \in Requests :
          /\ told[q] = "failed" => outcome[q] = "failed"
          /\ told[q] = "pending" =>
                /\ outcome[q] \in {"pending", "replayed", "unconfigured"}
                /\ toldRef[q] = answer[q]

\* What the client tells the product is what the API answered.
LEMMA ToldKept == ClientSpec => []ToldInv
<1>1. ClientInit => ToldInv
  BY DEF ClientInit, ToldInv
<1>2. TypeOK /\ QuietInv /\ arrived \subseteq Requests /\ ToldInv /\ [ClientNext]_allVars => ToldInv'
  <2> SUFFICES ASSUME TypeOK, QuietInv, arrived \subseteq Requests, ToldInv,
                      [ClientNext]_allVars
               PROVE  ToldInv'
    OBVIOUS
  <2>1. CASE UNCHANGED <<told, toldRef>>
    <3>1. \A q \in Requests : outcome[q] # "none" =>
            outcome'[q] = outcome[q] /\ answer'[q] = answer[q]
      BY StepOfService, OutcomesAreFinal
    <3>2. QED
      BY <2>1, <3>1 DEF ToldInv
  <2>2. ASSUME NEW q \in Requests, Receive(q) PROVE ToldInv'
    <3>1. outcome[q] \in Outcome \ {"none"}
      BY <2>2 DEF Receive, TypeOK
    <3>2. UNCHANGED <<outcome, answer>>
      BY <2>2 DEF Receive, vars, requestVars
    <3>3. Result(Written(q)) \in {"pending", "failed", "error"}
      BY DEF Result
    <3>4. /\ told' = [told EXCEPT ![q] = Result(Written(q))]
          /\ toldRef' = [toldRef EXCEPT ![q] =
                            IF Result(Written(q)) = "pending" THEN Written(q).ref ELSE NoRef]
      BY <2>2 DEF Receive, Returns
    <3>5. QED
      BY <3>1, <3>2, <3>3, <3>4, ResultsMean DEF ToldInv
  <2>3. ASSUME NEW q \in Requests,
               SendRefused(q) \/ CutOff(q) \/ ProxyGivesUp(q) \/ Unanswered(q)
        PROVE  ToldInv'
    <3>1. \E ref : /\ told' = [told EXCEPT ![q] = "error"]
                   /\ toldRef' = [toldRef EXCEPT ![q] = ref]
      BY <2>3, ResultsMean DEF SendRefused, CutOff, ProxyGivesUp, Unanswered, Returns
    <3>2. UNCHANGED <<outcome, answer>>
      BY <2>3 DEF SendRefused, CutOff, ProxyGivesUp, Unanswered, vars, requestVars
    <3>3. QED
      BY <3>1, <3>2 DEF ToldInv
  <2>4. QED
    BY <2>1, <2>2, <2>3
    DEF ClientNext, ClientStep, ServerStep, Send, allVars, clientVars
<1>3. QED
  BY <1>1, <1>2, ClientImplementsCharging, TypeCorrect, FailedStartedNothing,
     ArrivedAreRequests, PTL DEF ClientSpec

\* Without a fault inside the service, what the client reports as failed started no
\* collection, whatever connections broke and whoever answered in its place.
THEOREM FailedMeansUncollected == ClientSpec => []ToldFailedIsUncollected
<1>1. QuietInv /\ ToldInv => ToldFailedIsUncollected
  BY DEF QuietInv, ToldInv, ToldFailedIsUncollected, NothingStarted
<1>2. QED
  BY <1>1, ClientImplementsCharging, FailedStartedNothing, ToldKept, PTL

-----------------------------------------------------------------------------
(* Pending means stored. *)

\* A step of one attempt on the server moves only that attempt, stores rows of no
\* other and takes none away.
LEMMA StepFacts ==
    ASSUME TypeOK, NEW p \in Requests, RequestStep(p) \/ Crash(p)
    PROVE  /\ pc[p] # "done"
           /\ \A q \in Requests \ {p} : /\ pc'[q] = pc[q] /\ base'[q] = base[q]
                                        /\ outcome'[q] = outcome[q] /\ answer'[q] = answer[q]
           /\ intents \subseteq intents'
           /\ \A i \in intents' : i \in intents \/ i.ref[1] = p
           /\ faults' = 0 => faults = 0
<1> DEFINE Goal ==
           /\ pc[p] # "done"
           /\ \A q \in Requests \ {p} : /\ pc'[q] = pc[q] /\ base'[q] = base[q]
                                        /\ outcome'[q] = outcome[q] /\ answer'[q] = answer[q]
           /\ intents \subseteq intents'
           /\ \A i \in intents' : i \in intents \/ i.ref[1] = p
           /\ faults' = 0 => faults = 0
<1> USE DEF TypeOK, Goto, Return, Fault, NoFault, storeVars
<1>1. CASE Lookup(p)
  BY <1>1 DEF Lookup
<1>2. CASE RouteBase(p)
  BY <1>2 DEF RouteBase, Excluded
<1>3. CASE RouteFallback(p)
  BY <1>3 DEF RouteFallback, Excluded
<1>4. CASE CallGateway(p)
  BY <1>4 DEF CallGateway
<1>5. CASE GiveUp(p)
  BY <1>5 DEF GiveUp
<1>6. CASE RecordSuccess(p)
  BY <1>6 DEF RecordSuccess
<1>7. CASE RecordFailure(p)
  BY <1>7 DEF RecordFailure
<1>8. CASE GetFailures(p)
  BY <1>8 DEF GetFailures
<1>9. CASE Trip(p)
  BY <1>9 DEF Trip
<1>10. CASE CreateIntent(p)
  <2>1. ActualRef(p)[1] = p
    BY ActualRefIsChosen
  <2>2. intents' \in {intents, intents \cup {[ref |-> ActualRef(p), gateway |-> chosen[p]]}}
    BY <1>10 DEF CreateIntent
  <2>3. QED
    BY <1>10, <2>1, <2>2 DEF CreateIntent
<1>11. CASE InsertOutboxEvent(p)
  BY <1>11 DEF InsertOutboxEvent
<1>12. CASE CreateIntentAnyway(p)
  BY <1>12 DEF CreateIntentAnyway
<1>13. CASE InsertOutboxEventAnyway(p)
  BY <1>13 DEF InsertOutboxEventAnyway
<1>14. CASE Crash(p)
  BY <1>14 DEF Crash
<1>15. QED
  BY <1>1, <1>2, <1>3, <1>4, <1>5, <1>6, <1>7, <1>8, <1>9, <1>10, <1>11, <1>12, <1>13,
     <1>14 DEF RequestStep

\* Without overlaps the server is busy with one attempt of an order at most.
LoneInv ==
    /\ call \in [Requests -> {"idle", "waiting", "returned"}]
    /\ arrived \subseteq Requests /\ overlaps \in Nat
    /\ \A q \in Requests \ arrived : pc[q] = "lookup"
    /\ \A q \in arrived : call[q] # "idle"
    /\ overlaps = 0 => \A p, q \in arrived :
          p # q /\ OrderOf[p] = OrderOf[q] => "done" \in {pc[p], pc[q]}

\* Without overlaps the attempts of an order reach the API one after the other.
LEMMA LoneKept == ClientSpec => []LoneInv
<1>1. ClientInit => LoneInv
  BY DEF ClientInit, Init, LoneInv
<1>2. TypeOK /\ LoneInv /\ [ClientNext]_allVars => LoneInv'
  <2> SUFFICES ASSUME TypeOK, LoneInv, [ClientNext]_allVars PROVE LoneInv'
    OBVIOUS
  <2>1. ASSUME NEW p \in arrived, RequestStep(p) \/ Crash(p), UNCHANGED clientVars
        PROVE  LoneInv'
    <3>1. /\ pc[p] # "done"
          /\ \A q \in Requests \ {p} : pc'[q] = pc[q]
      BY <2>1, StepFacts DEF LoneInv
    <3>2. QED
      BY <2>1, <3>1 DEF LoneInv, clientVars
  <2>2. ASSUME NEW g \in Gateway, CircuitExpires(g), UNCHANGED clientVars PROVE LoneInv'
    BY <2>2 DEF LoneInv, clientVars, CircuitExpires, requestVars
  <2>3. ASSUME NEW q \in Requests, Send(q) PROVE LoneInv'
    <3> DEFINE Busy == {p \in Earlier(q) : p \in arrived /\ pc[p] # "done"}
    <3>1. /\ call[q] = "idle" /\ call' = [call EXCEPT ![q] = "waiting"]
          /\ arrived' = arrived \cup {q} /\ overlaps' = overlaps + Cardinality(Busy)
          /\ pc' = pc
      BY <2>3 DEF Send, vars, requestVars
    <3>2. IsFiniteSet(Busy) /\ Cardinality(Busy) \in Nat
      <4>1. Busy \subseteq Requests
        BY DEF Earlier
      <4>2. QED
        BY <4>1, RequestAssumption, FS_Subset, FS_CardinalityType
    <3>3. overlaps' \in Nat /\ (overlaps' = 0 => overlaps = 0 /\ Cardinality(Busy) = 0)
      BY <3>1, <3>2 DEF LoneInv
    <3>4. overlaps' = 0 => Busy = {}
      BY <3>2, <3>3, FS_EmptySet
    <3>5. ASSUME overlaps' = 0, NEW p \in arrived, p # q, OrderOf[p] = OrderOf[q]
          PROVE  pc[p] = "done"
      BY <3>4, <3>5 DEF LoneInv, Earlier
    <3> HIDE DEF Busy
    <3>6. overlaps' = 0 => \A p, r \in arrived' :
            p # r /\ OrderOf[p] = OrderOf[r] => "done" \in {pc'[p], pc'[r]}
      BY <3>1, <3>3, <3>5 DEF LoneInv
    <3>7. QED
      BY <3>1, <3>3, <3>6 DEF LoneInv
  <2>4. ASSUME NEW q \in Requests,
               \/ SendRefused(q) \/ Receive(q) \/ CutOff(q) \/ ProxyGivesUp(q) \/ Unanswered(q)
        PROVE  LoneInv'
    <3>1. call' = [call EXCEPT ![q] = "returned"]
      BY <2>4 DEF SendRefused, Receive, CutOff, ProxyGivesUp, Unanswered, Returns
    <3>2. UNCHANGED <<arrived, overlaps, pc>>
      BY <2>4 DEF SendRefused, Receive, CutOff, ProxyGivesUp, Unanswered, vars, requestVars
    <3>3. QED
      BY <3>1, <3>2 DEF LoneInv
  <2>5. CASE UNCHANGED allVars
    BY <2>5 DEF allVars, vars, requestVars, clientVars, LoneInv
  <2>6. QED
    BY <2>1, <2>2, <2>3, <2>4, <2>5 DEF ClientNext, ClientStep, ServerStep
<1>3. QED
  BY <1>1, <1>2, ClientImplementsCharging, TypeCorrect, PTL DEF ClientSpec

\* Between its lookup and its row.
Unstored == {"route", "fallback", "call", "recordOk", "recordFailure", "getFailures", "trip",
             "create", "createAnyway"}

\* The key an attempt has looked up is still free when its row is written, so the row
\* the answer names is there.
FreshInv ==
    faults = 0 /\ overlaps = 0 => \A q \in Requests :
        /\ pc[q] \in Unstored => ~StoredKey(KeyOf[q])
        /\ q \in InGHS /\ pc[q] = "outboxAnyway" => Stored(<<q, base[q]>>)
        /\ q \in InGHS /\ outcome[q] \in {"pending", "replayed", "unconfigured"} => Stored(answer[q])

\* Attempts with one key belong to one order.
LEMMA KeysNameOrders ==
    ASSUME NEW p \in Requests, NEW q \in Requests, KeyOf[p] = KeyOf[q], p # q
    PROVE  OrderOf[p] = OrderOf[q]
<1>1. ChargeKey(p) = ChargeKey(q)
  BY ClientAssumption
<1>2. CASE OrderOf[p] \in Keyed /\ OrderOf[q] \in Keyed
  <2>1. ChargeKey(p) = <<"given", OrderOf[p]>> /\ ChargeKey(q) = <<"given", OrderOf[q]>>
    BY <1>2, Zenon DEF ChargeKey
  <2>2. \A x, y : <<"given", x>> = <<"given", y>> => x = y
    OBVIOUS
  <2>3. QED
    BY <1>1, <2>1, <2>2, Zenon
<1>3. CASE OrderOf[p] \notin Keyed /\ OrderOf[q] \notin Keyed
  <2>1. ChargeKey(p) = <<"drawn", p>> /\ ChargeKey(q) = <<"drawn", q>>
    BY <1>3, Zenon DEF ChargeKey
  <2>2. \A x, y : <<"drawn", x>> = <<"drawn", y>> => x = y
    OBVIOUS
  <2>3. QED
    BY <1>1, <2>1, <2>2, Zenon
<1>4. CASE (OrderOf[p] \in Keyed) # (OrderOf[q] \in Keyed)
  <2>1. {ChargeKey(p)[1], ChargeKey(q)[1]} = {"given", "drawn"}
    BY <1>4 DEF ChargeKey
  <2>2. QED
    BY <1>1, <2>1
<1>5. QED
  BY <1>2, <1>3, <1>4

\* What a step of attempt p does to its own part of FreshInv.
LEMMA OwnPartKept ==
    ASSUME TypeOK, InHand, RowInHand, FreshInv, QuietInv, overlaps = 0, faults' = 0,
           NEW p \in Requests, RequestStep(p) \/ Crash(p)
    PROVE  /\ pc'[p] \in Unstored => ~StoredKey(KeyOf[p])'
           /\ p \in InGHS /\ pc'[p] = "outboxAnyway" => Stored(<<p, base[p]>>)'
           /\ p \in InGHS /\ outcome'[p] \in {"pending", "replayed", "unconfigured"}
                => Stored(answer[p])'
<1> USE DEF TypeOK, Goto, Return, Fault, NoFault, storeVars, Unstored
<1>1. /\ faults = 0 /\ pc[p] # "done" /\ outcome[p] = "none"
      /\ intents \subseteq intents'
  BY StepFacts DEF QuietInv
<1>2. pc[p] \in Unstored => ~StoredKey(KeyOf[p])
  BY <1>1 DEF FreshInv
<1>3. CASE Lookup(p)
  BY <1>1, <1>3 DEF Lookup, StoredKey, Stored
<1>4. CASE RouteBase(p)
  BY <1>1, <1>2, <1>4 DEF RouteBase, StoredKey
<1>5. CASE RouteFallback(p)
  BY <1>1, <1>2, <1>5 DEF RouteFallback, StoredKey
<1>6. CASE CallGateway(p)
  BY <1>1, <1>2, <1>6 DEF CallGateway, StoredKey
<1>7. CASE GiveUp(p)
  BY <1>1, <1>2, <1>7 DEF GiveUp, StoredKey
<1>8. CASE RecordSuccess(p) \/ RecordFailure(p)
  BY <1>1, <1>2, <1>8 DEF RecordSuccess, RecordFailure, StoredKey
<1>9. CASE GetFailures(p) \/ Trip(p)
  BY <1>1, <1>2, <1>9 DEF GetFailures, Trip, StoredKey
<1>10. CASE CreateIntent(p)
  <2>1. pc'[p] \in {"outbox", "done"} /\ outcome'[p] \in {"none", "error"}
    BY <1>1, <1>10 DEF CreateIntent
  <2>2. QED
    BY <2>1
<1>11. CASE InsertOutboxEvent(p)
  <2>1. RowOf(<<p, chosen[p]>>) \in intents
    BY <1>11 DEF InsertOutboxEvent, RowInHand
  <2>2. answer'[p] = <<p, chosen[p]>> /\ pc'[p] = "done"
    BY <1>11, ActualRefIsChosen DEF InsertOutboxEvent
  <2>3. QED
    BY <1>1, <2>1, <2>2 DEF Stored, RowOf
<1>12. CASE CreateIntentAnyway(p)
  <2> DEFINE row == [ref |-> <<p, base[p]>>, gateway |-> base[p]]
  <2>1. p \in InGHS => Storable(p)
    BY <1>2, <1>12 DEF CreateIntentAnyway, Storable
  <2>2. faults' # faults + 1
    BY <1>1
  <2>3. p \in InGHS => row \in intents'
    BY <1>12, <2>1, <2>2 DEF CreateIntentAnyway
  <2>4. /\ pc'[p] = "outboxAnyway" /\ base'[p] = base[p] /\ outcome'[p] = "none"
    BY <1>1, <1>12 DEF CreateIntentAnyway
  <2>5. row.ref = <<p, base[p]>>
    OBVIOUS
  <2> HIDE DEF row
  <2>6. QED
    BY <2>3, <2>4, <2>5 DEF Stored
<1>13. CASE InsertOutboxEventAnyway(p)
  <2>1. p \in InGHS => Stored(<<p, base[p]>>)
    BY <1>1, <1>13 DEF InsertOutboxEventAnyway, FreshInv
  <2>2. answer'[p] = <<p, base[p]>> /\ pc'[p] = "done"
    BY <1>13 DEF InsertOutboxEventAnyway
  <2>3. QED
    BY <1>1, <2>1, <2>2 DEF Stored
<1>14. CASE Crash(p)
  BY <1>1, <1>14 DEF Crash
<1>15. QED
  BY <1>3, <1>4, <1>5, <1>6, <1>7, <1>8, <1>9, <1>10, <1>11, <1>12, <1>13, <1>14
  DEF RequestStep

\* FreshInv is an invariant of the client and the API together.
LEMMA FreshKept == ClientSpec => []FreshInv
<1>1. ClientInit => FreshInv
  BY DEF ClientInit, Init, FreshInv, Unstored
<1>2. /\ TypeOK /\ InHand /\ RowInHand /\ QuietInv /\ LoneInv /\ FreshInv
      /\ [ClientNext]_allVars
      => FreshInv'
  <2> SUFFICES ASSUME TypeOK, InHand, RowInHand, QuietInv, LoneInv, FreshInv,
                      [ClientNext]_allVars
               PROVE  FreshInv'
    OBVIOUS
  <2>1. ASSUME NEW p \in arrived, RequestStep(p) \/ Crash(p), UNCHANGED clientVars
        PROVE  FreshInv'
    <3>1. p \in Requests
      BY DEF LoneInv
    <3>2. SUFFICES ASSUME faults' = 0, overlaps' = 0, NEW q \in Requests
          PROVE  /\ pc'[q] \in Unstored => ~StoredKey(KeyOf[q])'
                 /\ q \in InGHS /\ pc'[q] = "outboxAnyway" => Stored(<<q, base[q]>>)'
                 /\ q \in InGHS /\ outcome'[q] \in {"pending", "replayed", "unconfigured"}
                      => Stored(answer[q])'
      BY DEF FreshInv
    <3>3. overlaps = 0
      BY <2>1, <3>2 DEF clientVars
    <3>4. CASE q = p
      BY <2>1, <3>1, <3>2, <3>3, <3>4, OwnPartKept
    <3>5. CASE q # p
      <4>1. /\ pc[p] # "done" /\ faults = 0
            /\ pc'[q] = pc[q] /\ base'[q] = base[q]
            /\ outcome'[q] = outcome[q] /\ answer'[q] = answer[q]
            /\ intents \subseteq intents'
            /\ \A i \in intents' : i \in intents \/ i.ref[1] = p
        BY <2>1, <3>1, <3>2, <3>5, StepFacts
      <4>2. ASSUME pc[q] \in Unstored PROVE ~StoredKey(KeyOf[q])'
        <5>1. ~StoredKey(KeyOf[q])
          BY <3>3, <4>1, <4>2 DEF FreshInv
        <5>2. q \in arrived /\ pc[q] # "done"
          BY <4>2 DEF LoneInv, Unstored
        <5>3. OrderOf[p] # OrderOf[q]
          BY <3>3, <3>5, <4>1, <5>2 DEF LoneInv
        <5>4. KeyOf[p] # KeyOf[q]
          BY <3>1, <3>5, <5>3, KeysNameOrders
        <5>5. QED
          BY <4>1, <5>1, <5>4 DEF StoredKey
      <4>3. QED
        BY <3>3, <4>1, <4>2 DEF FreshInv, Stored
    <3>6. QED
      BY <3>4, <3>5
  <2>2. ASSUME NEW g \in Gateway, CircuitExpires(g), UNCHANGED clientVars PROVE FreshInv'
    BY <2>2 DEF FreshInv, clientVars, CircuitExpires, requestVars, storeVars, Stored, StoredKey
  <2>3. ASSUME NEW q \in Requests, ClientStep(q) PROVE FreshInv'
    <3>1. UNCHANGED vars
      BY <2>3, ClientStepIsLocal
    <3>2. overlaps' = 0 => overlaps = 0
      <4>1. CASE Send(q)
        <5> DEFINE Busy == {p \in Earlier(q) : p \in arrived /\ pc[p] # "done"}
        <5>1. overlaps' = overlaps + Cardinality(Busy)
          BY <4>1 DEF Send
        <5>2. Cardinality(Busy) \in Nat
          <6>1. Busy \subseteq Requests
            BY DEF Earlier
          <6>2. QED
            BY <6>1, RequestAssumption, FS_Subset, FS_CardinalityType
        <5> HIDE DEF Busy
        <5>3. QED
          BY <5>1, <5>2 DEF LoneInv
      <4>2. CASE ~Send(q)
        BY <2>3, <4>2
        DEF ClientStep, SendRefused, Receive, CutOff, ProxyGivesUp, Unanswered
      <4>3. QED
        BY <4>1, <4>2
    <3>3. QED
      BY <3>1, <3>2 DEF FreshInv, vars, requestVars, storeVars, Stored, StoredKey
  <2>4. CASE UNCHANGED allVars
    BY <2>4 DEF allVars, vars, clientVars, requestVars, storeVars, FreshInv, Stored, StoredKey
  <2>5. QED
    BY <2>1, <2>2, <2>3, <2>4 DEF ClientNext, ServerStep
<1>3. QED
  BY <1>1, <1>2, ClientImplementsCharging, TypeCorrect, RowsKept,
     FailedStartedNothing, LoneKept, PTL DEF ClientSpec

\* A ChargePending names a stored charge unless a fault, a refused currency or an
\* overlapping attempt came in between: on the normal path, by replay and when no
\* gateway is configured.
THEOREM PendingMeansStored == ClientSpec => []ToldPendingIsStored
<1>1. FreshInv /\ ToldInv => ToldPendingIsStored
  BY RequestAssumption DEF FreshInv, ToldInv, ToldPendingIsStored
<1>2. QED
  BY <1>1, FreshKept, ToldKept, PTL

-----------------------------------------------------------------------------
(* Retries under a key. *)

Risky == {"route", "fallback", "call", "recordFailure", "getFailures", "trip",
          "createAnyway", "outboxAnyway"}

\* Can the attempt still start a collection that nothing accounts for yet?
AtRisk(q) == pc[q] \in Risky \/ (pc[q] = "lookup" /\ ~StoredKey(KeyOf[q]))
Attempting(o) == {q \in arrived : OrderOf[q] = o /\ AtRisk(q)}

\* The one collection an order may have belongs to an attempt under way or is stored.
Covered(o) == \E q \in arrived : OrderOf[q] = o /\ (pc[q] # "done" \/ StoredKey(KeyOf[q]))

Credit(o) == IF Covered(o) THEN 1 ELSE 0

AllInGHS(o) == \A q \in Requests : OrderOf[q] = o => q \in InGHS

\* What an order has collected and may yet collect is paid for: by its one charge, by
\* a fault or by an overlap.
Held(o) == Cardinality(Collected(o)) + Cardinality(Attempting(o)) <= faults + overlaps + Credit(o)

RetryInv == \A o \in Keyed : AllInGHS(o) => Held(o)

\* The attempts of a keyed order carry its key.
LEMMA OrdersShareKeys ==
    ASSUME NEW p \in Requests, NEW q \in Requests, OrderOf[p] = OrderOf[q], OrderOf[p] \in Keyed
    PROVE  KeyOf[p] = KeyOf[q]
BY ClientAssumption, Zenon DEF ChargeKey

\* A step of attempt p takes no risk it was not in, takes one at the price of a fault,
\* or turns its risk into a collection; it ends stored, at risk or with a fault.
RetryMoves(p) ==
    \/ /\ accepted' = accepted /\ (AtRisk(p)' => AtRisk(p))
       /\ pc'[p] # "done" \/ StoredKey(KeyOf[p])'
    \/ /\ accepted' = accepted /\ faults' = faults + 1 /\ pc'[p] # "done"
    \/ /\ \E g \in Gateway : accepted' = accepted \cup {<<p, g>>}
       /\ pc'[p] # "done" /\ AtRisk(p)
       /\ faults' = faults + 1 \/ ~AtRisk(p)'
    \/ /\ accepted' = accepted /\ AtRisk(p) /\ ~AtRisk(p)'
    \/ /\ accepted' = accepted /\ faults' = faults + 1 /\ (AtRisk(p)' => AtRisk(p))

\* What a step of a request may do to what gateways accepted, to its own risk of
\* losing an accepted charge, and to the number of faults.
LEMMA StepsMoveRisk ==
    ASSUME TypeOK, InHand, RowInHand, NEW p \in Requests, p \in InGHS,
           RequestStep(p) \/ Crash(p)
    PROVE  RetryMoves(p) /\ faults' \in {faults, faults + 1}
<1> USE DEF TypeOK, Goto, Return, Fault, NoFault, storeVars, Risky, AtRisk
<1>0. faults \in Nat
  BY LimitAssumption
<1>1. CASE Lookup(p)
  <2>1. accepted' = accepted /\ intents' = intents
    BY <1>1 DEF Lookup
  <2>2. StoredKey(KeyOf[p])' <=> StoredKey(KeyOf[p])
    BY <2>1 DEF StoredKey
  <2>3. QED
    BY <1>1, <2>1, <2>2 DEF Lookup, RetryMoves
<1>2. CASE RouteBase(p)
  BY <1>2 DEF RouteBase, Excluded, RetryMoves
<1>3. CASE RouteFallback(p)
  BY <1>3 DEF RouteFallback, Excluded, RetryMoves
<1>4. CASE CallGateway(p)
  <2>1. First(route[p]) \in Gateway
    BY <1>4, FirstInRoute DEF CallGateway
  <2>2. QED
    BY <1>4, <2>1 DEF CallGateway, RetryMoves
<1>5. CASE GiveUp(p)
  BY <1>5 DEF GiveUp, RetryMoves
<1>6. CASE RecordSuccess(p) \/ RecordFailure(p)
  BY <1>6 DEF RecordSuccess, RecordFailure, RetryMoves
<1>7. CASE GetFailures(p) \/ Trip(p)
  BY <1>7 DEF GetFailures, Trip, RetryMoves
<1>8. CASE CreateIntent(p)
  <2>1. accepted' = accepted /\ ~AtRisk(p)' /\ (pc'[p] = "done" \/ pc'[p] = "outbox")
    BY <1>8 DEF CreateIntent
  <2>2. ~Storable(p) => StoredKey(KeyOf[p])
    BY DEF Storable
  <2>3. ~Storable(p) /\ intents' = intents => StoredKey(KeyOf[p])'
    BY <2>2 DEF StoredKey
  <2>4. faults' \in {faults, faults + 1}
    BY <1>8 DEF CreateIntent
  <2>5. faults' = faults + 1 \/ pc'[p] # "done" \/ StoredKey(KeyOf[p])'
    BY <1>8, <2>3 DEF CreateIntent
  <2>6. QED
    BY <2>1, <2>4, <2>5, Zenon DEF RetryMoves
<1>9. CASE InsertOutboxEvent(p)
  <2>1. RowOf(<<p, chosen[p]>>) \in intents'
    BY <1>9 DEF InsertOutboxEvent, RowInHand
  <2>2. StoredKey(KeyOf[p])'
    BY <2>1, ClientAssumption DEF StoredKey, RowOf
  <2>3. accepted' = accepted /\ ~AtRisk(p)' /\ faults' \in {faults, faults + 1}
    BY <1>9 DEF InsertOutboxEvent
  <2>4. QED
    BY <2>2, <2>3, Zenon DEF RetryMoves
<1>10. CASE CreateIntentAnyway(p)
  BY <1>10 DEF CreateIntentAnyway, RetryMoves
<1>11. CASE InsertOutboxEventAnyway(p)
  BY <1>11 DEF InsertOutboxEventAnyway, RetryMoves
<1>12. CASE Crash(p)
  BY <1>12 DEF Crash, RetryMoves
<1>13. QED
  BY <1>1, <1>2, <1>3, <1>4, <1>5, <1>6, <1>7, <1>8, <1>9, <1>10, <1>11, <1>12 DEF RequestStep

\* A step of an attempt starts collections under its own ULID only.
LEMMA OwnReferences ==
    ASSUME TypeOK, NEW p \in Requests, RequestStep(p) \/ Crash(p)
    PROVE  /\ \A ref \in accepted' : ref \in accepted \/ ref[1] = p
           /\ faults' \in {faults, faults + 1}
<1> USE DEF Fault, NoFault
<1>1. CASE Lookup(p) \/ RouteBase(p) \/ RouteFallback(p)
  BY <1>1 DEF Lookup, RouteBase, RouteFallback, Excluded
<1>2. CASE CallGateway(p)
  BY <1>2 DEF CallGateway
<1>3. CASE GiveUp(p) \/ RecordSuccess(p) \/ RecordFailure(p) \/ GetFailures(p) \/ Trip(p)
  BY <1>3 DEF GiveUp, RecordSuccess, RecordFailure, GetFailures, Trip
<1>4. CASE CreateIntent(p) \/ InsertOutboxEvent(p)
  BY <1>4 DEF CreateIntent, InsertOutboxEvent
<1>5. CASE CreateIntentAnyway(p) \/ InsertOutboxEventAnyway(p)
  BY <1>5 DEF CreateIntentAnyway, InsertOutboxEventAnyway
<1>6. CASE Crash(p)
  BY <1>6 DEF Crash
<1>7. QED
  BY <1>1, <1>2, <1>3, <1>4, <1>5, <1>6 DEF RequestStep

\* There are finitely many references.
LEMMA ReferencesAreFinite ==
    ASSUME NEW A \in SUBSET Ref PROVE IsFiniteSet(A) /\ Cardinality(A) \in Nat
<1>1. IsFiniteSet(Gateway)
  BY GatewayFinite
<1>2. IsFiniteSet(Ref)
  BY <1>1, RequestAssumption, FS_Product DEF Ref
<1>3. QED
  BY <1>2, FS_Subset, FS_CardinalityType

\* There are finitely many attempts.
LEMMA AttemptsAreFinite ==
    ASSUME NEW A \in SUBSET Requests PROVE IsFiniteSet(A) /\ Cardinality(A) \in Nat
BY RequestAssumption, FS_Subset, FS_CardinalityType

\* A step of an attempt of the order itself.
LEMMA OwnRetryKept ==
    ASSUME TypeOK, InHand, RowInHand, LoneInv, NEW o \in Keyed, AllInGHS(o), Held(o),
           NEW p \in arrived, OrderOf[p] = o, RequestStep(p) \/ Crash(p), UNCHANGED clientVars
    PROVE  Held(o)'
<1> DEFINE C == Collected(o)
           D == Attempting(o)
<1>1. p \in Requests /\ p \in InGHS /\ arrived \subseteq Requests
  BY DEF LoneInv, AllInGHS
<1>2. RetryMoves(p) /\ faults' \in {faults, faults + 1}
  BY <1>1, StepsMoveRisk
<1>3. /\ pc[p] # "done" /\ \A q \in Requests \ {p} : pc'[q] = pc[q]
      /\ intents \subseteq intents'
  BY <1>1, StepFacts
<1>4. \A q \in Requests : StoredKey(KeyOf[q]) => StoredKey(KeyOf[q])'
  BY <1>3 DEF StoredKey
<1>5. /\ arrived' = arrived /\ overlaps' = overlaps /\ overlaps \in Nat
      /\ faults \in Nat /\ accepted \subseteq Ref
  BY LimitAssumption DEF clientVars, LoneInv, TypeOK
<1>6. \A q \in Requests \ {p} : AtRisk(q)' => AtRisk(q)
  BY <1>3, <1>4 DEF AtRisk
<1>7. /\ D' \subseteq D \cup {p}
      /\ (AtRisk(p)' => AtRisk(p)) => D' \subseteq D
      /\ ~AtRisk(p)' => D' \subseteq D \ {p}
      /\ AtRisk(p) => p \in D
  BY <1>1, <1>5, <1>6 DEF Attempting
<1>8. Credit(o) = 1 /\ Credit(o)' \in {0, 1}
      /\ (pc'[p] # "done" \/ StoredKey(KeyOf[p])' => Credit(o)' = 1)
  BY <1>3, <1>5 DEF Credit, Covered
<1>9. accepted' = accepted => C' = C
  BY DEF Collected
<1>10. ASSUME NEW g \in Gateway, accepted' = accepted \cup {<<p, g>>}
       PROVE  C' = C \cup {<<p, g>>}
  BY <1>10 DEF Collected
<1>11. /\ IsFiniteSet(C) /\ Cardinality(C) \in Nat
       /\ IsFiniteSet(D) /\ Cardinality(D) \in Nat
  <2>1. C \in SUBSET Ref /\ D \in SUBSET Requests
    BY <1>1, <1>5 DEF Collected, Attempting
  <2>2. QED
    BY <2>1, ReferencesAreFinite, AttemptsAreFinite
<1>12. Cardinality(C) + Cardinality(D) <= faults + overlaps + 1
  BY <1>8 DEF Held
<1> HIDE DEF C, D
<1>13. \A g \in Gateway : C' = C \cup {<<p, g>>} =>
          Cardinality(C') \in Nat /\ Cardinality(C') <= Cardinality(C) + 1
  BY <1>11, OneElement, Zenon
<1>14. /\ IsFiniteSet(D \cup {p}) /\ Cardinality(D \cup {p}) \in Nat
       /\ Cardinality(D \cup {p}) <= Cardinality(D) + 1
  BY <1>11, OneElement, Zenon
<1>15. p \in D => IsFiniteSet(D \ {p}) /\ Cardinality(D \ {p}) = Cardinality(D) - 1
  BY <1>11, OneElement, Zenon
<1>16. /\ Cardinality(D') \in Nat /\ Cardinality(D') <= Cardinality(D) + 1
       /\ D' \subseteq D => Cardinality(D') <= Cardinality(D)
       /\ p \in D /\ D' \subseteq D \ {p} => Cardinality(D') <= Cardinality(D) - 1
  <2>1. Cardinality(D') \in Nat /\ Cardinality(D') <= Cardinality(D) + 1
    <3>1. IsFiniteSet(D') /\ Cardinality(D') <= Cardinality(D \cup {p})
      BY <1>7, <1>14, FS_Subset
    <3>2. Cardinality(D') \in Nat
      BY <3>1, FS_CardinalityType
    <3>3. QED
      BY <1>11, <1>14, <3>1, <3>2
  <2>2. D' \subseteq D => Cardinality(D') <= Cardinality(D)
    BY <1>11, FS_Subset
  <2>3. p \in D /\ D' \subseteq D \ {p} => Cardinality(D') <= Cardinality(D) - 1
    BY <1>15, FS_Subset
  <2>4. QED
    BY <2>1, <2>2, <2>3
<1>17. Cardinality(C') + Cardinality(D') <= faults' + overlaps' + Credit(o)'
  <2>1. CASE /\ accepted' = accepted /\ (AtRisk(p)' => AtRisk(p))
             /\ pc'[p] # "done" \/ StoredKey(KeyOf[p])'
    <3>1. C' = C /\ D' \subseteq D /\ Credit(o)' = 1
      BY <1>7, <1>8, <1>9, <2>1
    <3>2. QED
      BY <1>2, <1>5, <1>11, <1>12, <1>16, <3>1
  <2>2. CASE accepted' = accepted /\ faults' = faults + 1 /\ pc'[p] # "done"
    <3>1. C' = C /\ Credit(o)' = 1
      BY <1>8, <1>9, <2>2
    <3>2. QED
      BY <1>5, <1>11, <1>12, <1>16, <2>2, <3>1
  <2>3. ASSUME NEW g \in Gateway, accepted' = accepted \cup {<<p, g>>},
               pc'[p] # "done", AtRisk(p), faults' = faults + 1 \/ ~AtRisk(p)'
        PROVE  Cardinality(C') + Cardinality(D') <= faults' + overlaps' + Credit(o)'
    <3>1. Cardinality(C') \in Nat /\ Cardinality(C') <= Cardinality(C) + 1 /\ Credit(o)' = 1
      BY <1>8, <1>10, <1>13, <2>3
    <3>2. p \in D /\ D' \subseteq D
      BY <1>7, <2>3
    <3>3. CASE faults' = faults + 1
      BY <1>5, <1>11, <1>12, <1>16, <3>1, <3>2, <3>3
    <3>4. CASE ~AtRisk(p)'
      <4>1. D' \subseteq D \ {p}
        BY <1>7, <3>4
      <4>2. QED
        BY <1>2, <1>5, <1>11, <1>12, <1>16, <3>1, <3>2, <4>1
    <3>5. QED
      BY <2>3, <3>3, <3>4
  <2>4. CASE accepted' = accepted /\ AtRisk(p) /\ ~AtRisk(p)'
    <3>1. C' = C /\ p \in D /\ D' \subseteq D \ {p}
      BY <1>7, <1>9, <2>4
    <3>2. QED
      BY <1>2, <1>5, <1>8, <1>11, <1>12, <1>16, <3>1
  <2>5. CASE accepted' = accepted /\ faults' = faults + 1 /\ (AtRisk(p)' => AtRisk(p))
    <3>1. C' = C /\ D' \subseteq D
      BY <1>7, <1>9, <2>5
    <3>2. QED
      BY <1>5, <1>8, <1>11, <1>12, <1>16, <2>5, <3>1
  <2>6. QED
    BY <1>2, <2>1, <2>2, <2>3, <2>4, <2>5 DEF RetryMoves
<1>18. QED
  BY <1>17 DEF Held, C, D

\* Nothing that leaves the order's pieces as they are, or takes some away, hurts it.
LEMMA FewerRisks ==
    ASSUME NEW o \in Keyed, Held(o), TypeOK, LoneInv,
           Collected(o)' \subseteq Collected(o), Attempting(o)' \subseteq Attempting(o),
           Covered(o) => Covered(o)', faults' \in {faults, faults + 1}, overlaps' = overlaps
    PROVE  Held(o)'
<1> DEFINE C == Collected(o)
           D == Attempting(o)
<1>1. C \in SUBSET Ref /\ D \in SUBSET Requests
  BY DEF Collected, Attempting, TypeOK, LoneInv
<1>2. /\ IsFiniteSet(C) /\ Cardinality(C) \in Nat
      /\ IsFiniteSet(D) /\ Cardinality(D) \in Nat
  BY <1>1, ReferencesAreFinite, AttemptsAreFinite
<1>3. faults \in Nat /\ overlaps \in Nat
  BY LimitAssumption DEF TypeOK, LoneInv
<1>4. Credit(o) \in {0, 1} /\ Credit(o)' \in {0, 1} /\ (Credit(o) = 1 => Credit(o)' = 1)
  BY DEF Credit
<1>5. Cardinality(C) + Cardinality(D) <= faults + overlaps + Credit(o)
  BY DEF Held
<1>6. C' \subseteq C /\ D' \subseteq D
  OBVIOUS
<1> HIDE DEF C, D
<1>7. /\ Cardinality(C') \in Nat /\ Cardinality(C') <= Cardinality(C)
      /\ Cardinality(D') \in Nat /\ Cardinality(D') <= Cardinality(D)
  BY <1>2, <1>6, FS_Subset, FS_CardinalityType
<1>8. Cardinality(C') + Cardinality(D') <= faults' + overlaps' + Credit(o)'
  BY <1>2, <1>3, <1>4, <1>5, <1>7
<1>9. QED
  BY <1>8 DEF Held, C, D

\* A step of an attempt of another order.
LEMMA OtherRetryKept ==
    ASSUME TypeOK, LoneInv, NEW o \in Keyed, Held(o), NEW p \in arrived, OrderOf[p] # o,
           RequestStep(p) \/ Crash(p), UNCHANGED clientVars
    PROVE  Held(o)'
<1>1. p \in Requests /\ arrived \subseteq Requests /\ arrived' = arrived /\ overlaps' = overlaps
  BY DEF LoneInv, clientVars
<1>2. /\ \A q \in Requests \ {p} : pc'[q] = pc[q]
      /\ intents \subseteq intents'
  BY <1>1, StepFacts
<1>3. /\ \A ref \in accepted' : ref \in accepted \/ ref[1] = p
      /\ faults' \in {faults, faults + 1}
  BY <1>1, OwnReferences
<1>4. \A q \in Requests : StoredKey(KeyOf[q]) => StoredKey(KeyOf[q])'
  BY <1>2 DEF StoredKey
<1>5. \A q \in Requests \ {p} : AtRisk(q)' => AtRisk(q)
  BY <1>2, <1>4 DEF AtRisk
<1>6. Collected(o)' \subseteq Collected(o)
  BY <1>3 DEF Collected
<1>7. Attempting(o)' \subseteq Attempting(o)
  BY <1>1, <1>5 DEF Attempting
<1>8. Covered(o) => Covered(o)'
  BY <1>1, <1>2, <1>4 DEF Covered
<1>9. QED
  BY <1>1, <1>3, <1>6, <1>7, <1>8, FewerRisks

\* A new attempt: the first one brings the order's one charge with it, one under a
\* stored key is replayed, and any other is an overlap.
LEMMA SendRetryKept ==
    ASSUME TypeOK, LoneInv, NEW o \in Keyed, Held(o), NEW q \in Requests, Send(q)
    PROVE  Held(o)'
<1> DEFINE Busy == {p \in Earlier(q) : p \in arrived /\ pc[p] # "done"}
           C == Collected(o)
           D == Attempting(o)
<1>1. /\ call[q] = "idle" /\ arrived' = arrived \cup {q}
      /\ overlaps' = overlaps + Cardinality(Busy)
      /\ UNCHANGED <<pc, intents, accepted, faults>>
  BY DEF Send, vars, requestVars, storeVars
<1>2. /\ q \notin arrived /\ arrived \subseteq Requests /\ overlaps \in Nat
      /\ faults \in Nat /\ accepted \subseteq Ref
  BY <1>1, LimitAssumption DEF LoneInv, TypeOK
<1>3. IsFiniteSet(Busy) /\ Cardinality(Busy) \in Nat
  <2>1. Busy \in SUBSET Requests
    BY DEF Earlier
  <2>2. QED
    BY <2>1, AttemptsAreFinite
<1>4. /\ IsFiniteSet(C) /\ Cardinality(C) \in Nat
      /\ IsFiniteSet(D) /\ Cardinality(D) \in Nat
  <2>1. C \in SUBSET Ref /\ D \in SUBSET Requests
    BY <1>2 DEF Collected, Attempting
  <2>2. QED
    BY <2>1, ReferencesAreFinite, AttemptsAreFinite
<1>5. C' = C
  BY <1>1 DEF Collected
<1>6. \A p \in Requests : /\ StoredKey(KeyOf[p])' <=> StoredKey(KeyOf[p])
                          /\ AtRisk(p)' <=> AtRisk(p)
  BY <1>1 DEF StoredKey, AtRisk
<1>7. D' \subseteq D \cup {q} /\ (OrderOf[q] # o \/ ~AtRisk(q) => D' \subseteq D)
  BY <1>1, <1>2, <1>6 DEF Attempting
<1>8. Covered(o) => Covered(o)'
  BY <1>1, <1>2, <1>6 DEF Covered
<1>9. Credit(o) \in {0, 1} /\ Credit(o)' \in {0, 1} /\ (Credit(o) = 1 => Credit(o)' = 1)
  BY <1>8 DEF Credit
<1>10. Cardinality(C) + Cardinality(D) <= faults + overlaps + Credit(o)
  BY DEF Held
<1>11. ASSUME OrderOf[q] = o, AtRisk(q)
       PROVE  Busy # {} \/ (Credit(o) = 0 /\ Credit(o)' = 1)
  <2>1. ASSUME NEW p \in arrived, OrderOf[p] = o, pc[p] # "done" PROVE p \in Busy
    BY <1>2, <1>11, <2>1 DEF Earlier, LoneInv
  <2>2. ~StoredKey(KeyOf[q]) /\ pc[q] # "done"
    <3>1. pc[q] = "lookup"
      BY <1>2 DEF LoneInv
    <3>2. QED
      BY <1>11, <3>1 DEF AtRisk, Risky
  <2>3. \A p \in arrived : OrderOf[p] = o => ~StoredKey(KeyOf[p])
    BY <1>2, <1>11, <2>2, OrdersShareKeys
  <2>4. Busy = {} => ~Covered(o)
    BY <2>1, <2>3 DEF Covered
  <2>5. Covered(o)'
    BY <1>1, <1>11, <2>2 DEF Covered
  <2>6. QED
    BY <2>4, <2>5 DEF Credit
<1> HIDE DEF C, D, Busy
<1>12. Busy # {} => Cardinality(Busy) >= 1
  BY <1>3, FS_EmptySet
<1>13. /\ Cardinality(D') \in Nat /\ Cardinality(D') <= Cardinality(D) + 1
       /\ D' \subseteq D => Cardinality(D') <= Cardinality(D)
  <2>1. /\ IsFiniteSet(D \cup {q}) /\ Cardinality(D \cup {q}) \in Nat
        /\ Cardinality(D \cup {q}) <= Cardinality(D) + 1
    BY <1>4, OneElement, Zenon
  <2>2. IsFiniteSet(D') /\ Cardinality(D') <= Cardinality(D \cup {q})
    BY <1>7, <2>1, FS_Subset
  <2>3. Cardinality(D') \in Nat
    BY <2>2, FS_CardinalityType
  <2>4. D' \subseteq D => Cardinality(D') <= Cardinality(D)
    BY <1>4, FS_Subset
  <2>5. QED
    BY <1>4, <2>1, <2>2, <2>3, <2>4
<1>14. Cardinality(C') + Cardinality(D') <= faults' + overlaps' + Credit(o)'
  <2>1. CASE OrderOf[q] # o \/ ~AtRisk(q)
    <3>1. Cardinality(D') <= Cardinality(D)
      BY <1>7, <1>13, <2>1
    <3>2. QED
      BY <1>1, <1>2, <1>3, <1>4, <1>5, <1>9, <1>10, <1>13, <3>1
  <2>2. CASE OrderOf[q] = o /\ AtRisk(q)
    <3>1. Cardinality(Busy) >= 1 \/ (Credit(o) = 0 /\ Credit(o)' = 1)
      BY <1>11, <1>12, <2>2
    <3>2. QED
      BY <1>1, <1>2, <1>3, <1>4, <1>5, <1>9, <1>10, <1>13, <3>1
  <2>3. QED
    BY <2>1, <2>2
<1>15. QED
  BY <1>14 DEF Held, C, D

\* RetryInv is an invariant of the client and the API together.
LEMMA RetryKept == ClientSpec => []RetryInv
<1>1. ClientInit => RetryInv
  <2> SUFFICES ASSUME ClientInit, NEW o \in Keyed PROVE Held(o)
    BY DEF RetryInv
  <2>1. Collected(o) = {} /\ Attempting(o) = {} /\ faults = 0 /\ overlaps = 0
    BY DEF ClientInit, Init, Collected, Attempting
  <2>2. Credit(o) \in {0, 1}
    BY DEF Credit
  <2>3. Cardinality({}) = 0
    BY FS_EmptySet
  <2>4. QED
    BY <2>1, <2>2, <2>3 DEF Held
<1>2. TypeOK /\ InHand /\ RowInHand /\ LoneInv /\ RetryInv /\ [ClientNext]_allVars => RetryInv'
  <2> SUFFICES ASSUME TypeOK, InHand, RowInHand, LoneInv, RetryInv, [ClientNext]_allVars,
                      NEW o \in Keyed, AllInGHS(o)
               PROVE  Held(o)'
    BY DEF RetryInv
  <2>1. Held(o)
    BY DEF RetryInv
  <2>2. ASSUME NEW p \in arrived, RequestStep(p) \/ Crash(p), UNCHANGED clientVars
        PROVE  Held(o)'
    BY <2>1, <2>2, OwnRetryKept, OtherRetryKept
  <2>3. ASSUME NEW q \in Requests, Send(q) PROVE Held(o)'
    BY <2>1, <2>3, SendRetryKept
  <2>4. CASE UNCHANGED <<pc, intents, accepted, faults, arrived, overlaps>>
    BY <2>1, <2>4 DEF Held, Collected, Attempting, Credit, Covered, AtRisk, StoredKey
  <2>5. ASSUME NEW g \in Gateway, CircuitExpires(g), UNCHANGED clientVars PROVE Held(o)'
    BY <2>4, <2>5 DEF CircuitExpires, requestVars, storeVars, clientVars
  <2>6. ASSUME NEW q \in Requests,
               \/ SendRefused(q) \/ Receive(q) \/ CutOff(q) \/ ProxyGivesUp(q) \/ Unanswered(q)
        PROVE  Held(o)'
    BY <2>4, <2>6 DEF SendRefused, Receive, CutOff, ProxyGivesUp, Unanswered, vars, requestVars, storeVars
  <2>7. CASE UNCHANGED allVars
    BY <2>4, <2>7 DEF allVars, vars, requestVars, storeVars, clientVars
  <2>8. QED
    BY <2>2, <2>3, <2>5, <2>6, <2>7 DEF ClientNext, ClientStep, ServerStep
<1>3. QED
  BY <1>1, <1>2, ClientImplementsCharging, TypeCorrect, RowsKept, LoneKept, PTL
  DEF ClientSpec

\* A product that retries under a key pays once, plus once for every fault inside the
\* server and every overlapping attempt, whatever happened to the answers.
THEOREM KeyedRetriesAreSafe == ClientSpec => []KeyedRetryIsSafe
<1>1. TypeOK /\ LoneInv /\ RetryInv => KeyedRetryIsSafe
  <2> SUFFICES ASSUME TypeOK, LoneInv, RetryInv, NEW o \in Keyed, AllInGHS(o)
               PROVE  Cardinality(Collected(o)) <= 1 + faults + overlaps
    BY DEF KeyedRetryIsSafe, AllInGHS
  <2>1. Collected(o) \in SUBSET Ref /\ Attempting(o) \in SUBSET Requests
    BY DEF Collected, Attempting, TypeOK, LoneInv
  <2>2. Cardinality(Collected(o)) \in Nat /\ Cardinality(Attempting(o)) \in Nat
    BY <2>1, ReferencesAreFinite, AttemptsAreFinite
  <2>3. faults \in Nat /\ overlaps \in Nat /\ Credit(o) \in {0, 1}
    BY LimitAssumption DEF TypeOK, LoneInv, Credit
  <2>4. Cardinality(Collected(o)) + Cardinality(Attempting(o)) <= faults + overlaps + Credit(o)
    BY DEF RetryInv, Held
  <2>5. QED
    BY <2>2, <2>3, <2>4
<1>2. QED
  BY <1>1, RetryKept, LoneKept, ClientImplementsCharging, TypeCorrect, PTL
=============================================================================
