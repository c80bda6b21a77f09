---------------------------- MODULE PayoutsProofs ---------------------------
(***************************************************************************)
(* Proofs about Payouts, for any number of batches, entries, dispatchers,  *)
(* dispatches and faults.                                                  *)
(***************************************************************************)
EXTENDS Payouts, GatewayRouterProofs

\* What a dispatcher has in hand at each of its calls.
InHand ==
    \A d \in Dispatchers :
        /\ dpc[d] \in {"idle", "entry", "unlock"} <=> current[d] = NoEntry
        /\ dpc[d] = "idle" => todo[d] = {} /\ held[d] = {}
        /\ dpc[d] = "pay" => route[d] # {}
        /\ current[d] \notin todo[d]

\* Every variable keeps its type and every call has the arguments it needs.
THEOREM TypeCorrect == Spec => [](TypeOK /\ InHand)
<1>1. Init => TypeOK /\ InHand
  BY PayoutAssumption DEF Init, TypeOK, InHand
<1>2. TypeOK /\ InHand /\ [Next]_vars => (TypeOK /\ InHand)'
  <2> SUFFICES ASSUME TypeOK, InHand, [Next]_vars PROVE (TypeOK /\ InHand)'
    OBVIOUS
  <2> USE PayoutAssumption
      DEF TypeOK, InHand, Fault, NoFault, Goto, storeVars, lockVars, dispatchVars
  <2>1. ASSUME NEW q \in Requests, Create(q) PROVE (TypeOK /\ InHand)'
    BY <2>1 DEF Create, CreateBatchWithReservations
  <2>2. ASSUME NEW d \in Dispatchers, NEW q \in Requests, Dispatch(d, q)
        PROVE  (TypeOK /\ InHand)'
    BY <2>2 DEF Dispatch, EntriesOf
  <2>3. ASSUME NEW d \in Dispatchers, TryAcquire(d) PROVE (TypeOK /\ InHand)'
    BY <2>3 DEF TryAcquire
  <2>4. ASSUME NEW d \in Dispatchers, RouteEntry(d) PROVE (TypeOK /\ InHand)'
    <3>1. PICK S \in SUBSET Gateway : route' = [route EXCEPT ![d] = Route(S)]
      BY <2>4 DEF RouteEntry
    <3>2. Route(S) \in SUBSET Gateway /\ Route(S) # {}
      BY RouteNotEmpty
    <3>3. QED
      BY <2>4, <3>1, <3>2 DEF RouteEntry
  <2>5. ASSUME NEW d \in Dispatchers, Payout(d) PROVE (TypeOK /\ InHand)'
    <3>1. First(route[d]) \in route[d] /\ First(route[d]) \in Gateway
      BY <2>5, FirstInRoute DEF Payout
    <3>2. current[d] \in Entries
      BY <2>5 DEF Payout
    <3>3. paid' \subseteq Entries \X Gateway /\ faults' \in 0..MaxFaults
      BY <2>5, <3>1, <3>2 DEF Payout, PayoutCall
    <3>4. QED
      BY <2>5, <3>1, <3>3 DEF Payout, NextEntry, NextGateway
  <2>6. ASSUME NEW d \in Dispatchers, AppendEntry(d) PROVE (TypeOK /\ InHand)'
    BY <2>6 DEF AppendEntry, NextEntry
  <2>7. ASSUME NEW d \in Dispatchers, ReleaseReservation(d) PROVE (TypeOK /\ InHand)'
    BY <2>7 DEF ReleaseReservation, NextEntry
  <2>8. ASSUME NEW d \in Dispatchers, Unlock(d) PROVE (TypeOK /\ InHand)'
    BY <2>8 DEF Unlock
  <2>9. ASSUME NEW d \in Dispatchers, Crash(d) PROVE (TypeOK /\ InHand)'
    BY <2>9 DEF Crash
  <2>10. ASSUME NEW e \in Entries, LockExpires(e) PROVE (TypeOK /\ InHand)'
    BY <2>10 DEF LockExpires
  <2>11. CASE UNCHANGED vars
    BY <2>11 DEF vars
  <2>12. QED
    BY <2>1, <2>2, <2>3, <2>4, <2>5, <2>6, <2>7, <2>8, <2>9, <2>10, <2>11
       DEF Next, DispatchStep
<1>3. QED
  BY <1>1, <1>2, PTL DEF Spec

-----------------------------------------------------------------------------
(* The lock. *)

\* A dispatch holds the key of the entry in its hand; a key that is held is set, and
\* held once, unless it overran.
KeysHeld ==
    /\ \A d \in Dispatchers : current[d] \in held[d] \cup {NoEntry}
    /\ \A d \in Dispatchers : held[d] \subseteq locks \cup overran
    /\ \A e \in Entries \ overran : \A c, d \in Dispatchers :
          e \in held[c] /\ e \in held[d] => c = d

\* No two dispatches have one entry in hand while its key lasts.
THEOREM EntriesAreExclusive == Spec => []DispatchersExclusive
<1>1. Init => KeysHeld
  BY DEF Init, KeysHeld
<1>2. TypeOK /\ InHand /\ KeysHeld /\ [Next]_vars => KeysHeld'
  <2> SUFFICES ASSUME TypeOK, InHand, KeysHeld, [Next]_vars PROVE KeysHeld'
    OBVIOUS
  <2> USE PayoutAssumption
      DEF TypeOK, InHand, KeysHeld, Goto, storeVars, lockVars, dispatchVars
  <2>1. ASSUME NEW q \in Requests, Create(q) PROVE KeysHeld'
    BY <2>1 DEF Create
  <2>2. ASSUME NEW d \in Dispatchers, NEW q \in Requests, Dispatch(d, q) PROVE KeysHeld'
    BY <2>2 DEF Dispatch
  <2>3. ASSUME NEW d \in Dispatchers, TryAcquire(d) PROVE KeysHeld'
    BY <2>3 DEF TryAcquire
  <2>4. ASSUME NEW d \in Dispatchers, RouteEntry(d) PROVE KeysHeld'
    BY <2>4 DEF RouteEntry
  <2>5. ASSUME NEW d \in Dispatchers, Payout(d) PROVE KeysHeld'
    BY <2>5 DEF Payout, NextEntry, NextGateway
  <2>6. ASSUME NEW d \in Dispatchers, AppendEntry(d) PROVE KeysHeld'
    BY <2>6 DEF AppendEntry, NextEntry
  <2>7. ASSUME NEW d \in Dispatchers, ReleaseReservation(d) PROVE KeysHeld'
    BY <2>7 DEF ReleaseReservation, NextEntry
  <2>8. ASSUME NEW d \in Dispatchers, Unlock(d) PROVE KeysHeld'
    BY <2>8 DEF Unlock
  <2>9. ASSUME NEW d \in Dispatchers, Crash(d) PROVE KeysHeld'
    BY <2>9 DEF Crash
  <2>10. ASSUME NEW e \in Entries, LockExpires(e) PROVE KeysHeld'
    BY <2>10 DEF LockExpires
  <2>11. CASE UNCHANGED vars
    BY <2>11 DEF vars
  <2>12. QED
    BY <2>1, <2>2, <2>3, <2>4, <2>5, <2>6, <2>7, <2>8, <2>9, <2>10, <2>11
       DEF Next, DispatchStep
<1>3. KeysHeld => DispatchersExclusive
  BY PayoutAssumption DEF KeysHeld, DispatchersExclusive
<1>4. QED
  BY <1>1, <1>2, <1>3, TypeCorrect, PTL DEF Spec

-----------------------------------------------------------------------------
(* The books. *)

\* While no call goes wrong, a payment that is not booked has a dispatch about to
\* book it.
PaidInHand ==
    faults = 0 =>
        \A e \in InGHS : Gateways(e) # {} =>
            \/ ledger[e] > 0
            \/ \E d \in Dispatchers : dpc[d] = "append" /\ current[d] = e

\* A step that pays nobody and takes no entry out of a dispatcher's hands keeps PaidInHand.
LEMMA BookedFrame ==
    ASSUME PaidInHand, UNCHANGED <<paid, ledger>>, faults' = 0 => faults = 0,
           \A c \in Dispatchers : dpc[c] = "append" =>
               dpc'[c] = "append" /\ current'[c] = current[c]
    PROVE  PaidInHand'
<1> SUFFICES ASSUME faults' = 0, NEW e \in InGHS, Gateways(e)' # {}, ~(ledger'[e] > 0)
             PROVE  \E c \in Dispatchers : dpc'[c] = "append" /\ current'[c] = e
  BY DEF PaidInHand
<1>1. Gateways(e) # {}
  BY DEF Gateways
<1>2. PICK c \in Dispatchers : dpc[c] = "append" /\ current[c] = e
  BY <1>1 DEF PaidInHand
<1>3. QED
  BY <1>2

\* While no call goes wrong, what is paid is booked.
THEOREM PaymentsAreBooked == Spec => []PaidIsBooked
<1>1. Init => PaidInHand
  BY DEF Init, PaidInHand, Gateways
<1>2. TypeOK /\ InHand /\ PaidInHand /\ [Next]_vars => PaidInHand'
  <2> SUFFICES ASSUME TypeOK, InHand, PaidInHand, [Next]_vars PROVE PaidInHand'
    OBVIOUS
  <2> USE PayoutAssumption
      DEF TypeOK, InHand, Goto, Fault, NoFault, storeVars, lockVars, dispatchVars
  <2>1. ASSUME NEW q \in Requests, Create(q) PROVE PaidInHand'
    BY <2>1, BookedFrame DEF Create
  <2>2. ASSUME NEW d \in Dispatchers, NEW q \in Requests, Dispatch(d, q) PROVE PaidInHand'
    BY <2>2, BookedFrame DEF Dispatch
  <2>3. ASSUME NEW d \in Dispatchers, TryAcquire(d) PROVE PaidInHand'
    BY <2>3, BookedFrame DEF TryAcquire
  <2>4. ASSUME NEW d \in Dispatchers, RouteEntry(d) PROVE PaidInHand'
    BY <2>4, BookedFrame DEF RouteEntry
  <2>5. ASSUME NEW d \in Dispatchers, Payout(d) PROVE PaidInHand'
    <3>1. CASE UNCHANGED paid
      <4>1. \A c \in Dispatchers : dpc[c] = "append" =>
              dpc'[c] = "append" /\ current'[c] = current[c]
        BY <2>5 DEF Payout, NextEntry, NextGateway
      <4>2. UNCHANGED ledger /\ (faults' = 0 => faults = 0)
        BY <2>5 DEF Payout, PayoutCall
      <4>3. QED
        BY <3>1, <4>1, <4>2, BookedFrame
    <3>2. CASE /\ paid' = paid \cup {<<current[d], First(route[d])>>}
               /\ UNCHANGED <<current, faults, ledger>>
               /\ dpc' = [dpc EXCEPT ![d] = "append"]
      <4>1. \A e \in InGHS : e # current[d] => Gateways(e)' = Gateways(e)
        BY <3>2 DEF Gateways
      <4>2. dpc'[d] = "append" /\ current'[d] = current[d]
        BY <3>2
      <4>3. \A c \in Dispatchers : dpc[c] = "append" => dpc'[c] = "append"
        BY <3>2
      <4> SUFFICES ASSUME faults' = 0, NEW e \in InGHS, Gateways(e)' # {}, ~(ledger'[e] > 0)
                   PROVE  \E c \in Dispatchers : dpc'[c] = "append" /\ current'[c] = e
        BY DEF PaidInHand
      <4>4. CASE e = current[d]
        BY <4>2, <4>4
      <4>5. CASE e # current[d]
        <5>1. Gateways(e) # {} /\ ~(ledger[e] > 0) /\ faults = 0
          BY <3>2, <4>1, <4>5
        <5>2. PICK c \in Dispatchers : dpc[c] = "append" /\ current[c] = e
          BY <5>1 DEF PaidInHand
        <5>3. QED
          BY <3>2, <4>3, <5>2
      <4>6. QED
        BY <4>4, <4>5
    <3>3. CASE faults' = faults + 1
      BY <3>3 DEF PaidInHand
    <3>4. QED
      BY <2>5, <3>1, <3>2, <3>3 DEF Payout, PayoutCall
  <2>6. ASSUME NEW d \in Dispatchers, AppendEntry(d) PROVE PaidInHand'
    <3>1. \A c \in Dispatchers \ {d} : dpc'[c] = dpc[c] /\ current'[c] = current[c]
      BY <2>6 DEF AppendEntry, NextEntry
    <3>2. \A e \in Entries : ledger[e] > 0 => ledger'[e] > 0
      BY <2>6 DEF AppendEntry
    <3>3. faults' = 0 /\ current[d] \in InGHS => ledger'[current[d]] > 0
      BY <2>6 DEF AppendEntry
    <3>4. UNCHANGED paid /\ (faults' = 0 => faults = 0)
      BY <2>6 DEF AppendEntry
    <3> SUFFICES ASSUME faults' = 0, NEW e \in InGHS, Gateways(e)' # {}, ~(ledger'[e] > 0)
                 PROVE  \E c \in Dispatchers : dpc'[c] = "append" /\ current'[c] = e
      BY DEF PaidInHand
    <3>5. Gateways(e) # {} /\ ~(ledger[e] > 0) /\ e \in Entries
      BY <3>2, <3>4 DEF Gateways
    <3>6. PICK c \in Dispatchers : dpc[c] = "append" /\ current[c] = e
      BY <3>4, <3>5 DEF PaidInHand
    <3>7. c # d
      BY <3>3, <3>6
    <3>8. QED
      BY <3>1, <3>6, <3>7
  <2>7. ASSUME NEW d \in Dispatchers, ReleaseReservation(d) PROVE PaidInHand'
    BY <2>7, BookedFrame DEF ReleaseReservation, NextEntry
  <2>8. ASSUME NEW d \in Dispatchers, Unlock(d) PROVE PaidInHand'
    <3>1. \A c \in Dispatchers : dpc[c] = "append" => dpc'[c] = "append"
      BY <2>8 DEF Unlock
    <3>2. UNCHANGED <<paid, ledger, current>> /\ (faults' = 0 => faults = 0)
      BY <2>8 DEF Unlock
    <3>3. QED
      BY <3>1, <3>2, BookedFrame
  <2>9. ASSUME NEW d \in Dispatchers, Crash(d) PROVE PaidInHand'
    <3>1. faults' # 0
      BY <2>9 DEF Crash
    <3>2. QED
      BY <3>1 DEF PaidInHand
  <2>10. ASSUME NEW e \in Entries, LockExpires(e) PROVE PaidInHand'
    BY <2>10, BookedFrame DEF LockExpires
  <2>11. CASE UNCHANGED vars
    BY <2>11, BookedFrame DEF vars
  <2>12. QED
    BY <2>1, <2>2, <2>3, <2>4, <2>5, <2>6, <2>7, <2>8, <2>9, <2>10, <2>11
       DEF Next, DispatchStep
<1>3. PaidInHand => PaidIsBooked
  BY DEF PaidInHand, PaidIsBooked
<1>4. QED
  BY <1>1, <1>2, <1>3, TypeCorrect, PTL DEF Spec

-----------------------------------------------------------------------------
(* How often an entry is paid. *)

\* The cardinality of a set that gains or loses an element.
LEMMA CardinalityKept ==
    ASSUME NEW S, IsFiniteSet(S), NEW T, T \subseteq S
    PROVE  Cardinality(T) \in Nat /\ Cardinality(S) \in Nat /\ Cardinality(T) <= Cardinality(S)
BY FS_Subset, FS_CardinalityType

\* A set with at most one element more is larger by at most one.
LEMMA CardinalityGains ==
    ASSUME NEW S, IsFiniteSet(S), NEW x, NEW T, T \subseteq S \cup {x}
    PROVE  /\ Cardinality(T) \in Nat /\ Cardinality(S) \in Nat
           /\ Cardinality(T) <= Cardinality(S) + 1
<1> DEFINE n == Cardinality(S)
<1>1. IsFiniteSet(S \cup {x}) /\ Cardinality(S \cup {x}) = IF x \in S THEN n ELSE n + 1
  BY FS_AddElement
<1>2. n \in Nat
  BY FS_CardinalityType
<1>3. Cardinality(T) \in Nat /\ Cardinality(T) <= Cardinality(S \cup {x})
  BY <1>1, CardinalityKept
<1> HIDE DEF n
<1>4. Cardinality(T) \in Nat /\ Cardinality(T) <= n + 1
  BY <1>1, <1>2, <1>3
<1>5. QED
  BY <1>2, <1>4 DEF n

\* A set with one element less is smaller by at least one.
LEMMA CardinalityLoses ==
    ASSUME NEW S, IsFiniteSet(S), NEW x \in S, NEW T, T \subseteq S \ {x}
    PROVE  /\ Cardinality(T) \in Nat /\ Cardinality(S) \in Nat
           /\ Cardinality(T) + 1 <= Cardinality(S)
<1> DEFINE n == Cardinality(S)
<1>1. IsFiniteSet(S \ {x}) /\ Cardinality(S \ {x}) = IF x \in S THEN n - 1 ELSE n
  BY FS_RemoveElement
<1>2. n \in Nat
  BY FS_CardinalityType
<1>3. Cardinality(T) \in Nat /\ Cardinality(T) <= Cardinality(S \ {x})
  BY <1>1, CardinalityKept
<1> HIDE DEF n
<1>4. Cardinality(T) \in Nat /\ Cardinality(T) + 1 <= n
  BY <1>1, <1>2, <1>3
<1>5. QED
  BY <1>2, <1>4 DEF n

\* The dispatches that may still pay an entry.
Due(e) ==
    {d \in Dispatchers : e \in todo[d] \/ (current[d] = e /\ dpc[d] \in {"route", "pay"})}

\* What gateways have paid and what dispatches may still pay is covered by the
\* dispatches so far and the answers lost so far.
PaymentBudget ==
    \A e \in Entries :
        Cardinality(Gateways(e)) + Cardinality(Due(e)) <= rounds[BatchOf[e]] + faults

\* The terms of PaymentBudget are numbers.
LEMMA BudgetIsNat ==
    ASSUME TypeOK, NEW e \in Entries
    PROVE  /\ IsFiniteSet(Gateways(e)) /\ IsFiniteSet(Due(e))
           /\ Cardinality(Gateways(e)) \in Nat /\ Cardinality(Due(e)) \in Nat
           /\ rounds[BatchOf[e]] \in Nat /\ faults \in Nat
<1>1. IsFiniteSet(Gateways(e)) /\ Cardinality(Gateways(e)) \in Nat
  BY GatewayFinite DEF Gateways
<1>2. IsFiniteSet(Due(e)) /\ Cardinality(Due(e)) \in Nat
  BY PayoutAssumption, FS_Subset, FS_CardinalityType DEF Due
<1>3. QED
  BY <1>1, <1>2, PayoutAssumption DEF TypeOK

\* A step that pays nothing and starts no dispatch keeps the budget.
LEMMA BudgetFrame ==
    ASSUME TypeOK, PaymentBudget, UNCHANGED <<paid, rounds>>, faults' \in {faults, faults + 1},
           \A e \in Entries : Due(e)' \subseteq Due(e)
    PROVE  PaymentBudget'
<1> SUFFICES ASSUME NEW e \in Entries
             PROVE  Cardinality(Gateways(e)') + Cardinality(Due(e)') <= rounds'[BatchOf[e]] + faults'
  BY DEF PaymentBudget
<1>1. Gateways(e)' = Gateways(e)
  BY DEF Gateways
<1>2. Cardinality(Due(e)') \in Nat /\ Cardinality(Due(e)') <= Cardinality(Due(e))
  BY BudgetIsNat, CardinalityKept
<1>3. Cardinality(Gateways(e)) + Cardinality(Due(e)) <= rounds[BatchOf[e]] + faults
  BY DEF PaymentBudget
<1>4. QED
  BY <1>1, <1>2, <1>3, BudgetIsNat

\* Every dispatch pays an entry at most once, plus once per lost answer.
THEOREM PaymentsAreBounded == Spec => []PaymentsBounded
<1>1. Init => PaymentBudget
  <2> SUFFICES ASSUME Init, NEW e \in Entries
               PROVE  Cardinality(Gateways(e)) + Cardinality(Due(e)) <= rounds[BatchOf[e]] + faults
    BY DEF PaymentBudget
  <2>1. Gateways(e) = {} /\ Due(e) = {}
    BY DEF Init, Gateways, Due
  <2>2. rounds[BatchOf[e]] = 0 /\ faults = 0
    BY PayoutAssumption DEF Init
  <2>3. QED
    BY <2>1, <2>2, FS_EmptySet
<1>2. TypeOK /\ InHand /\ PaymentBudget /\ [Next]_vars => PaymentBudget'
  <2> SUFFICES ASSUME TypeOK, InHand, PaymentBudget, [Next]_vars PROVE PaymentBudget'
    OBVIOUS
  <2> USE DEF Goto, Fault, NoFault, storeVars, lockVars, dispatchVars
  <2>1. ASSUME NEW q \in Requests, Create(q) PROVE PaymentBudget'
    BY <2>1, BudgetFrame DEF Create, Due
  <2>2. ASSUME NEW d \in Dispatchers, NEW q \in Requests, Dispatch(d, q) PROVE PaymentBudget'
    <3> SUFFICES ASSUME NEW e \in Entries
                 PROVE  Cardinality(Gateways(e)') + Cardinality(Due(e)')
                          <= rounds'[BatchOf[e]] + faults'
      BY DEF PaymentBudget
    <3>1. Gateways(e)' = Gateways(e) /\ faults' = faults
      BY <2>2 DEF Dispatch, Gateways
    <3>2. Cardinality(Gateways(e)) + Cardinality(Due(e)) <= rounds[BatchOf[e]] + faults
      BY DEF PaymentBudget
    <3>3. CASE BatchOf[e] = q
      <4>1. Due(e)' \subseteq Due(e) \cup {d}
        BY <2>2 DEF Dispatch, Due, TypeOK
      <4>2. Cardinality(Due(e)') \in Nat /\ Cardinality(Due(e)') <= Cardinality(Due(e)) + 1
        BY <4>1, BudgetIsNat, CardinalityGains
      <4>3. rounds'[BatchOf[e]] = rounds[BatchOf[e]] + 1
        BY <2>2, <3>3 DEF Dispatch, TypeOK
      <4>4. QED
        BY <3>1, <3>2, <4>2, <4>3, BudgetIsNat
    <3>4. CASE BatchOf[e] # q
      <4>1. Due(e)' \subseteq Due(e)
        BY <2>2, <3>4 DEF Dispatch, Due, TypeOK, EntriesOf
      <4>2. Cardinality(Due(e)') \in Nat /\ Cardinality(Due(e)') <= Cardinality(Due(e))
        BY <4>1, BudgetIsNat, CardinalityKept
      <4>3. rounds'[BatchOf[e]] = rounds[BatchOf[e]]
        BY <2>2, <3>4, PayoutAssumption DEF Dispatch, TypeOK
      <4>4. QED
        BY <3>1, <3>2, <4>2, <4>3, BudgetIsNat
    <3>5. QED
      BY <3>3, <3>4
  <2>3. ASSUME NEW d \in Dispatchers, TryAcquire(d) PROVE PaymentBudget'
    <3>1. \A e \in Entries : Due(e)' \subseteq Due(e)
      BY <2>3 DEF TryAcquire, Due, TypeOK
    <3>2. QED
      BY <2>3, <3>1, BudgetFrame DEF TryAcquire
  <2>4. ASSUME NEW d \in Dispatchers, RouteEntry(d) PROVE PaymentBudget'
    <3>1. \A e \in Entries : Due(e)' \subseteq Due(e)
      BY <2>4 DEF RouteEntry, Due, TypeOK
    <3>2. QED
      BY <2>4, <3>1, BudgetFrame DEF RouteEntry
  <2>5. ASSUME NEW d \in Dispatchers, Payout(d) PROVE PaymentBudget'
    <3> DEFINE f == current[d]
               g == First(route[d])
    <3>1. \A e \in Entries : Due(e)' \subseteq Due(e)
      BY <2>5, PayoutAssumption DEF Payout, NextEntry, NextGateway, Due, TypeOK
    <3>2. UNCHANGED rounds
      BY <2>5 DEF Payout
    <3>3. CASE UNCHANGED paid
      <4>1. faults' \in {faults, faults + 1}
        BY <2>5 DEF Payout, PayoutCall
      <4>2. QED
        BY <3>1, <3>2, <3>3, <4>1, BudgetFrame
    <3>4. CASE /\ paid' = paid \cup {<<f, g>>}
               /\ \/ dpc' = [dpc EXCEPT ![d] = "append"] /\ UNCHANGED <<current, todo, faults>>
                  \/ faults' = faults + 1
      <4> SUFFICES ASSUME NEW e \in Entries
                   PROVE  Cardinality(Gateways(e)') + Cardinality(Due(e)')
                            <= rounds'[BatchOf[e]] + faults'
        BY DEF PaymentBudget
      <4>1. Cardinality(Gateways(e)) + Cardinality(Due(e)) <= rounds[BatchOf[e]] + faults
        BY DEF PaymentBudget
      <4>2. Cardinality(Due(e)') \in Nat /\ Cardinality(Due(e)') <= Cardinality(Due(e))
        BY <3>1, BudgetIsNat, CardinalityKept
      <4>3. CASE e # f
        <5>1. Gateways(e)' = Gateways(e)
          BY <3>4, <4>3 DEF Gateways
        <5>2. QED
          BY <3>2, <3>4, <4>1, <4>2, <5>1, BudgetIsNat
      <4>4. CASE e = f
        <5>1. Gateways(e)' \subseteq Gateways(e) \cup {g}
          BY <3>4, <4>4 DEF Gateways
        <5>2. /\ Cardinality(Gateways(e)') \in Nat
              /\ Cardinality(Gateways(e)') <= Cardinality(Gateways(e)) + 1
          BY <5>1, BudgetIsNat, CardinalityGains
        <5>3. CASE faults' = faults + 1
          BY <3>2, <4>1, <4>2, <5>2, <5>3, BudgetIsNat
        <5>4. CASE dpc' = [dpc EXCEPT ![d] = "append"] /\ UNCHANGED <<current, todo, faults>>
          <6>1. d \in Due(e) /\ Due(e)' \subseteq Due(e) \ {d}
            BY <2>5, <4>4, <5>4 DEF Payout, Due, TypeOK, InHand
          <6>2. Cardinality(Due(e)') + 1 <= Cardinality(Due(e))
            BY <6>1, BudgetIsNat, CardinalityLoses
          <6>3. QED
            BY <3>2, <4>1, <4>2, <5>2, <5>4, <6>2, BudgetIsNat
        <5>5. QED
          BY <3>4, <5>3, <5>4
      <4>5. QED
        BY <4>3, <4>4
    <3>5. QED
      BY <2>5, <3>3, <3>4 DEF Payout, PayoutCall
  <2>6. ASSUME NEW d \in Dispatchers, AppendEntry(d) PROVE PaymentBudget'
    <3>1. \A e \in Entries : Due(e)' \subseteq Due(e)
      BY <2>6, PayoutAssumption DEF AppendEntry, NextEntry, Due, TypeOK
    <3>2. QED
      BY <2>6, <3>1, BudgetFrame DEF AppendEntry
  <2>7. ASSUME NEW d \in Dispatchers, ReleaseReservation(d) PROVE PaymentBudget'
    <3>1. \A e \in Entries : Due(e)' \subseteq Due(e)
      BY <2>7, PayoutAssumption DEF ReleaseReservation, NextEntry, Due, TypeOK
    <3>2. QED
      BY <2>7, <3>1, BudgetFrame DEF ReleaseReservation
  <2>8. ASSUME NEW d \in Dispatchers, Unlock(d) PROVE PaymentBudget'
    <3>1. \A e \in Entries : Due(e)' \subseteq Due(e)
      BY <2>8 DEF Unlock, Due, TypeOK
    <3>2. QED
      BY <2>8, <3>1, BudgetFrame DEF Unlock
  <2>9. ASSUME NEW d \in Dispatchers, Crash(d) PROVE PaymentBudget'
    <3>1. \A e \in Entries : Due(e)' \subseteq Due(e)
      BY <2>9 DEF Crash, Due, TypeOK
    <3>2. QED
      BY <2>9, <3>1, BudgetFrame DEF Crash
  <2>10. ASSUME NEW e \in Entries, LockExpires(e) PROVE PaymentBudget'
    BY <2>10, BudgetFrame DEF LockExpires, Due
  <2>11. CASE UNCHANGED vars
    BY <2>11, BudgetFrame DEF vars, Due
  <2>12. QED
    BY <2>1, <2>2, <2>3, <2>4, <2>5, <2>6, <2>7, <2>8, <2>9, <2>10, <2>11
       DEF Next, DispatchStep
<1>3. TypeOK /\ PaymentBudget => PaymentsBounded
  <2> SUFFICES ASSUME TypeOK, PaymentBudget, NEW e \in Entries
               PROVE  Cardinality(Gateways(e)) <= rounds[BatchOf[e]] + faults
    BY DEF PaymentsBounded
  <2>1. Cardinality(Gateways(e)) + Cardinality(Due(e)) <= rounds[BatchOf[e]] + faults
    BY DEF PaymentBudget
  <2>2. QED
    BY <2>1, BudgetIsNat
<1>4. QED
  BY <1>1, <1>2, <1>3, TypeCorrect, PTL DEF Spec

-----------------------------------------------------------------------------
(* What backs the ledger's vendor payouts. *)

\* The entries that are booked, or about to be, and that no gateway has paid.
Misread ==
    {e \in Entries :
        /\ Gateways(e) = {}
        /\ ledger[e] > 0 \/ \E d \in Dispatchers : dpc[d] = "append" /\ current[d] = e}

MisreadBudget == IsFiniteSet(Misread) /\ Cardinality(Misread) <= faults

\* A step that adds no such entry keeps the budget.
LEMMA MisreadFrame ==
    ASSUME TypeOK, MisreadBudget, faults' \in {faults, faults + 1}, Misread' \subseteq Misread
    PROVE  MisreadBudget'
<1>1. Cardinality(Misread') \in Nat /\ Cardinality(Misread') <= Cardinality(Misread)
      /\ Cardinality(Misread) \in Nat
  BY CardinalityKept DEF MisreadBudget
<1>2. IsFiniteSet(Misread')
  BY FS_Subset DEF MisreadBudget
<1>3. faults \in Nat /\ Cardinality(Misread) <= faults
  BY PayoutAssumption DEF TypeOK, MisreadBudget
<1>4. QED
  BY <1>1, <1>2, <1>3 DEF MisreadBudget

\* Entries are booked without a payment at most once per misread answer.
THEOREM BookingsAreBacked == Spec => []BookedIsPaid
<1>1. Init => MisreadBudget
  <2> SUFFICES ASSUME Init PROVE MisreadBudget
    OBVIOUS
  <2>1. Misread = {}
    BY DEF Init, Misread
  <2>2. QED
    BY <2>1, FS_EmptySet DEF Init, MisreadBudget
<1>2. TypeOK /\ InHand /\ MisreadBudget /\ [Next]_vars => MisreadBudget'
  <2> SUFFICES ASSUME TypeOK, InHand, MisreadBudget, [Next]_vars PROVE MisreadBudget'
    OBVIOUS
  <2> USE DEF TypeOK, InHand, Gateways, Goto, Fault, NoFault, storeVars, lockVars, dispatchVars
  <2>1. ASSUME NEW q \in Requests, Create(q) PROVE MisreadBudget'
    <3>1. Misread' \subseteq Misread
      BY <2>1 DEF Create, Misread
    <3>2. QED
      BY <2>1, <3>1, MisreadFrame DEF Create
  <2>2. ASSUME NEW d \in Dispatchers, NEW q \in Requests, Dispatch(d, q) PROVE MisreadBudget'
    <3>1. Misread' \subseteq Misread
      BY <2>2 DEF Dispatch, Misread
    <3>2. QED
      BY <2>2, <3>1, MisreadFrame DEF Dispatch
  <2>3. ASSUME NEW d \in Dispatchers, TryAcquire(d) PROVE MisreadBudget'
    <3>1. Misread' \subseteq Misread
      BY <2>3 DEF TryAcquire, Misread
    <3>2. QED
      BY <2>3, <3>1, MisreadFrame DEF TryAcquire
  <2>4. ASSUME NEW d \in Dispatchers, RouteEntry(d) PROVE MisreadBudget'
    <3>1. Misread' \subseteq Misread
      BY <2>4 DEF RouteEntry, Misread
    <3>2. QED
      BY <2>4, <3>1, MisreadFrame DEF RouteEntry
  <2>5. ASSUME NEW d \in Dispatchers, Payout(d) PROVE MisreadBudget'
    <3> DEFINE f == current[d]
    <3>1. f \in Entries /\ First(route[d]) \in Gateway
      BY <2>5, FirstInRoute DEF Payout
    <3>2. \A c \in Dispatchers \ {d} : dpc'[c] = dpc[c] /\ current'[c] = current[c]
      BY <2>5 DEF Payout, NextEntry, NextGateway
    <3>3. UNCHANGED ledger /\ paid \subseteq paid' /\ faults' \in {faults, faults + 1}
      BY <2>5 DEF Payout, PayoutCall
    <3>4. dpc'[d] = "append" => current'[d] = f
      BY <2>5 DEF Payout, NextEntry, NextGateway
    <3>5. Misread' \subseteq Misread \cup {f}
      BY <3>2, <3>3, <3>4 DEF Misread
    <3>6. CASE f \notin Misread' \/ f \in Misread
      BY <3>3, <3>5, <3>6, MisreadFrame
    <3>7. CASE faults' = faults + 1
      <4>1. /\ Cardinality(Misread') \in Nat /\ Cardinality(Misread) \in Nat
            /\ Cardinality(Misread') <= Cardinality(Misread) + 1
        BY <3>5, CardinalityGains DEF MisreadBudget
      <4>2. IsFiniteSet(Misread')
        BY <3>5, FS_Subset, FS_AddElement DEF MisreadBudget
      <4>3. faults \in Nat /\ Cardinality(Misread) <= faults
        BY PayoutAssumption DEF MisreadBudget
      <4>4. QED
        BY <3>7, <4>1, <4>2, <4>3 DEF MisreadBudget
    <3>8. CASE paid' = paid \cup {<<f, First(route[d])>>}
      <4>1. f \notin Misread'
        BY <3>1, <3>8 DEF Misread
      <4>2. QED
        BY <3>6, <4>1
    <3>9. CASE UNCHANGED paid /\ dpc'[d] # "append"
      <4>1. Misread' \subseteq Misread
        BY <3>2, <3>3, <3>9 DEF Misread
      <4>2. QED
        BY <3>6, <4>1, <3>1
    <3>10. QED
      BY <2>5, <3>7, <3>8, <3>9 DEF Payout, PayoutCall, NextEntry, NextGateway
  <2>6. ASSUME NEW d \in Dispatchers, AppendEntry(d) PROVE MisreadBudget'
    <3>1. Misread' \subseteq Misread
      BY <2>6 DEF AppendEntry, NextEntry, Misread
    <3>2. QED
      BY <2>6, <3>1, MisreadFrame DEF AppendEntry
  <2>7. ASSUME NEW d \in Dispatchers, ReleaseReservation(d) PROVE MisreadBudget'
    <3>1. Misread' \subseteq Misread
      BY <2>7 DEF ReleaseReservation, NextEntry, Misread
    <3>2. QED
      BY <2>7, <3>1, MisreadFrame DEF ReleaseReservation
  <2>8. ASSUME NEW d \in Dispatchers, Unlock(d) PROVE MisreadBudget'
    <3>1. Misread' \subseteq Misread
      BY <2>8 DEF Unlock, Misread
    <3>2. QED
      BY <2>8, <3>1, MisreadFrame DEF Unlock
  <2>9. ASSUME NEW d \in Dispatchers, Crash(d) PROVE MisreadBudget'
    <3>1. Misread' \subseteq Misread
      BY <2>9 DEF Crash, Misread
    <3>2. QED
      BY <2>9, <3>1, MisreadFrame DEF Crash
  <2>10. ASSUME NEW e \in Entries, LockExpires(e) PROVE MisreadBudget'
    <3>1. Misread' \subseteq Misread
      BY <2>10 DEF LockExpires, Misread
    <3>2. QED
      BY <2>10, <3>1, MisreadFrame DEF LockExpires
  <2>11. CASE UNCHANGED vars
    <3>1. Misread' = Misread
      BY <2>11 DEF vars, Misread
    <3>2. QED
      BY <2>11, <3>1, MisreadFrame DEF vars
  <2>12. QED
    BY <2>1, <2>2, <2>3, <2>4, <2>5, <2>6, <2>7, <2>8, <2>9, <2>10, <2>11
       DEF Next, DispatchStep
<1>3. TypeOK /\ MisreadBudget => BookedIsPaid
  <2> SUFFICES ASSUME TypeOK, MisreadBudget PROVE BookedIsPaid
    OBVIOUS
  <2> DEFINE T == {e \in Entries : ledger[e] > 0 /\ Gateways(e) = {}}
  <2>1. T \subseteq Misread
    BY DEF Misread
  <2>2. Cardinality(T) \in Nat /\ Cardinality(T) <= Cardinality(Misread)
        /\ Cardinality(Misread) \in Nat
    BY <2>1, CardinalityKept DEF MisreadBudget
  <2>3. Cardinality(Misread) <= faults /\ faults \in Nat
    BY PayoutAssumption DEF TypeOK, MisreadBudget
  <2> HIDE DEF T
  <2>4. Cardinality(T) <= faults
    BY <2>2, <2>3
  <2>5. QED
    BY <2>4 DEF BookedIsPaid, T
<1>4. QED
  BY <1>1, <1>2, <1>3, TypeCorrect, PTL DEF Spec
=============================================================================
