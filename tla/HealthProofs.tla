---------------------------- MODULE HealthProofs ----------------------------
(***************************************************************************)
(* Proofs about GatewayHealth, for any number of recorders, readers,       *)
(* reports and samples, and any window.                                    *)
(***************************************************************************)
EXTENDS GatewayHealth, FunctionTheorems, FiniteSetTheorems, TLAPS

-----------------------------------------------------------------------------
(* The success rate. *)

\* What can be left of a pipeline.
Failure == {<<"incrT", "expireT">>, <<"expireT">>}
Owing == {<<"expireT", "incrS", "expireS">>, <<"incrS", "expireS">>}
Left == {<<>>, <<"incrT", "expireT", "incrS", "expireS">>, <<"expireS">>, <<"expireL">>}
            \cup Failure \cup Owing

\* The recorders whose attempt is counted and whose success is not yet.
Owed == {r \in Recorders : queue[r] \in Owing}

Ttl == {NoExpiry} \cup 1..Window

WindowType ==
    /\ t \in Nat /\ s \in Nat /\ tTtl \in Ttl /\ sTtl \in Ttl /\ torn \in BOOLEAN /\ faults \in Nat
    /\ queue \in [Recorders -> Left]

\* The successes counted and owed are attempts counted, a count of successes has an expiry
\* or gets one in the same pipeline, and it expires no later than the attempts do.
Sound ==
    /\ s + Cardinality(Owed) <= t
    /\ s > 0 /\ sTtl = NoExpiry => \E r \in Recorders : queue[r] = <<"expireS">>
    /\ sTtl # NoExpiry => s > 0 /\ tTtl # NoExpiry /\ sTtl <= tTtl
    /\ \A r \in Recorders : queue[r] \in {<<"incrS", "expireS">>, <<"expireS">>} => tTtl = Window

\* As long as no time passes inside a pipeline and none is cut off.
WindowInv == WindowType /\ (torn \/ faults > 0 \/ Sound)

\* What RecordResult sends, and how Valkey works through it.
LEMMA Commands ==
    /\ \A ok \in BOOLEAN : Pipeline(ok) \in Left \ (Owing \cup {<<>>, <<"expireS">>, <<"expireT">>})
    /\ \A q \in Left \ {<<>>} : Tail(q) \in Left
    /\ \A q \in Left \ {<<>>} :
          \/ Head(q) = "incrT" /\ q \notin Owing /\ q # <<"expireS">> /\ Tail(q) # <<"expireS">>
                /\ Tail(q) # <<"incrS", "expireS">>
          \/ Head(q) = "expireT" /\ (q \in Owing <=> Tail(q) \in Owing) /\ q # <<"expireS">>
                /\ Tail(q) # <<"expireS">>
          \/ q = <<"incrS", "expireS">> /\ Head(q) = "incrS" /\ Tail(q) = <<"expireS">>
          \/ q = <<"expireS">> /\ Head(q) = "expireS" /\ Tail(q) = <<>>
          \/ q = <<"expireL">> /\ Head(q) = "expireL" /\ Tail(q) = <<>>
<1> DEFINE q4 == <<"incrT", "expireT", "incrS", "expireS">>
           q3 == <<"expireT", "incrS", "expireS">>
           q2 == <<"incrS", "expireS">>
           q1 == <<"expireS">>
           f2 == <<"incrT", "expireT">>
           f1 == <<"expireT">>
           l1 == <<"expireL">>
<1>1. /\ Tail(q4) = q3 /\ Tail(q3) = q2 /\ Tail(q2) = q1 /\ Tail(q1) = <<>>
      /\ Tail(f2) = f1 /\ Tail(f1) = <<>> /\ Tail(l1) = <<>>
  OBVIOUS
<1>2. /\ Head(q4) = "incrT" /\ Head(q3) = "expireT" /\ Head(q2) = "incrS" /\ Head(q1) = "expireS"
      /\ Head(f2) = "incrT" /\ Head(f1) = "expireT" /\ Head(l1) = "expireL"
  OBVIOUS
<1>3. /\ q4 # q3 /\ q4 # q2 /\ q4 # q1 /\ q4 # f2 /\ q4 # f1 /\ q4 # <<>>
      /\ q3 # q2 /\ q3 # q1 /\ q3 # f2 /\ q3 # f1 /\ q3 # <<>>
      /\ q2 # q1 /\ q2 # f2 /\ q2 # f1 /\ q2 # <<>>
      /\ q1 # f2 /\ q1 # f1 /\ q1 # <<>> /\ f2 # f1 /\ f2 # <<>> /\ f1 # <<>>
  OBVIOUS
<1>4. /\ Owing = {q3, q2} /\ Left = {<<>>, q4, q1, f2, f1, q3, q2, l1}
      /\ \A ok \in BOOLEAN : Pipeline(ok) = IF ok THEN q4 ELSE f2
  BY DEF Owing, Left, Failure, Pipeline
<1> HIDE DEF q4, q3, q2, q1, f2, f1, l1
<1>5. QED
  <2>1. \A ok \in BOOLEAN : Pipeline(ok) \in Left \ (Owing \cup {<<>>, q1, f1})
    BY <1>3, <1>4
  <2>2. \A q \in Left \ {<<>>} : Tail(q) \in Left
    BY <1>1, <1>4
  <2>3. \A q \in Left \ {<<>>} :
          \/ Head(q) = "incrT" /\ q \notin Owing /\ q # q1 /\ Tail(q) # q1 /\ Tail(q) # q2
          \/ Head(q) = "expireT" /\ (q \in Owing <=> Tail(q) \in Owing) /\ q # q1 /\ Tail(q) # q1
          \/ q = q2 /\ Head(q) = "incrS" /\ Tail(q) = q1
          \/ q = q1 /\ Head(q) = "expireS" /\ Tail(q) = <<>>
          \/ q = l1 /\ Head(q) = "expireL" /\ Tail(q) = <<>>
    <3> TAKE q \in Left \ {<<>>}
    <3>1. q \in {q4, q3, q2, q1, f2, f1, l1}
      BY <1>4
    <3>2. CASE q = q4 \/ q = f2
      BY <1>1, <1>2, <1>3, <1>4, <3>2, Zenon
    <3>3. CASE q = q3 \/ q = f1
      BY <1>1, <1>2, <1>3, <1>4, <3>3, Zenon
    <3>4. CASE q = q2 \/ q = q1 \/ q = l1
      BY <1>1, <1>2, <3>4, Zenon
    <3>5. QED
      BY <3>1, <3>2, <3>3, <3>4
  <2>4. QED
    BY <2>1, <2>2, <2>3 DEF q1, q2, f1, l1

\* A set of recorders is finite.
LEMMA OwedFinite ==
    ASSUME NEW S \in SUBSET Recorders PROVE IsFiniteSet(S) /\ Cardinality(S) \in Nat
BY HealthAssumption, FS_Subset, FS_CardinalityType

\* What a recorder may send.
Sent == {Pipeline(ok) : ok \in BOOLEAN} \cup {<<"expireL">>}

\* A new pipeline owes nothing yet.
LEMMA NewPipeline ==
    ASSUME WindowType, Sound, NEW r \in Recorders, NEW q \in Sent, queue[r] = <<>>,
           queue' = [queue EXCEPT ![r] = q], UNCHANGED windowVars
    PROVE  Sound'
<1>1. /\ queue'[r] \notin Owing \cup {<<"expireS">>} /\ queue[r] \notin Owing \cup {<<"expireS">>}
      /\ queue'[r] # <<"incrS", "expireS">>
      /\ \A p \in Recorders \ {r} : queue'[p] = queue[p]
  <2>1. <<>> \notin Owing \cup {<<"expireS">>}
    BY DEF Owing
  <2>2. queue'[r] = q /\ \A p \in Recorders \ {r} : queue'[p] = queue[p]
    BY DEF WindowType
  <2>3. q \notin Owing \cup {<<"expireS">>}
    <3>1. CASE q = <<"expireL">>
      BY <3>1 DEF Owing
    <3>2. CASE q \in {Pipeline(ok) : ok \in BOOLEAN}
      BY <3>2, Commands
    <3>3. QED
      BY <3>1, <3>2 DEF Sent
  <2>4. <<"incrS", "expireS">> \in Owing
    BY DEF Owing
  <2>5. QED
    BY <2>1, <2>2, <2>3, <2>4, Zenon
<1>2. Owed' = Owed
  BY <1>1 DEF Owed
<1>3. QED
  BY <1>1, <1>2 DEF Sound, windowVars

\* A command of a pipeline, while every pipeline is whole.
LEMMA CommandRun ==
    ASSUME WindowType, Sound, NEW r \in Recorders, Run(r)
    PROVE  Sound'
<1> DEFINE cmd == Head(queue[r])
<1>1. /\ queue[r] \in Left \ {<<>>} /\ queue'[r] = Tail(queue[r])
      /\ \A p \in Recorders \ {r} : queue'[p] = queue[p]
      /\ t' = IF cmd = "incrT" THEN t + 1 ELSE t
      /\ s' = IF cmd = "incrS" THEN s + 1 ELSE s
      /\ tTtl' = IF cmd = "expireT" /\ t > 0 THEN Window ELSE tTtl
      /\ sTtl' = IF cmd = "expireS" /\ s > 0 THEN Window ELSE sTtl
  BY DEF Run, WindowType
<1>2. /\ t \in Nat /\ s \in Nat /\ tTtl \in Ttl /\ sTtl \in Ttl /\ Window \in Nat \ {0}
      /\ NoExpiry = -1 /\ Window # NoExpiry
  BY HealthAssumption DEF WindowType, NoExpiry
<1>3. IsFiniteSet(Owed) /\ Cardinality(Owed) \in Nat
  BY OwedFinite DEF Owed
<1>4. CASE cmd = "incrT"
  <2>1. /\ queue[r] \notin Owing /\ queue[r] # <<"expireS">> /\ queue'[r] # <<"expireS">>
        /\ queue'[r] # <<"incrS", "expireS">>
    BY <1>1, <1>4, Commands
  <2>2. Owed' \subseteq Owed \cup {r}
    BY <1>1 DEF Owed
  <2>3. /\ IsFiniteSet(Owed \cup {r}) /\ Cardinality(Owed \cup {r}) \in Nat
        /\ Cardinality(Owed \cup {r}) <= Cardinality(Owed) + 1
    <3>1. IsFiniteSet(Owed \cup {r})
          /\ Cardinality(Owed \cup {r}) = IF r \in Owed THEN Cardinality(Owed) ELSE Cardinality(Owed) + 1
      BY <1>3, FS_AddElement, Zenon
    <3>2. QED
      BY <1>3, <3>1
  <2>4. Cardinality(Owed') \in Nat /\ Cardinality(Owed') <= Cardinality(Owed) + 1
    <3>1. IsFiniteSet(Owed') /\ Cardinality(Owed') <= Cardinality(Owed \cup {r})
      BY <2>2, <2>3, FS_Subset
    <3>2. Cardinality(Owed') \in Nat
      BY <3>1, FS_CardinalityType
    <3>3. QED
      BY <1>3, <2>3, <3>1, <3>2
  <2>5. t' = t + 1 /\ s' = s /\ tTtl' = tTtl /\ sTtl' = sTtl
    BY <1>1, <1>4
  <2>6. s' + Cardinality(Owed') <= t'
    BY <1>2, <1>3, <2>4, <2>5 DEF Sound
  <2>7. QED
    BY <1>1, <2>1, <2>5, <2>6 DEF Sound
<1>5. CASE cmd = "expireT"
  <2>1. /\ queue[r] \in Owing <=> queue'[r] \in Owing
        /\ queue[r] # <<"expireS">> /\ queue'[r] # <<"expireS">>
    BY <1>1, <1>5, Commands
  <2>2. Owed' = Owed
    BY <1>1, <2>1 DEF Owed
  <2>3. t' = t /\ s' = s /\ sTtl' = sTtl /\ tTtl' = IF t > 0 THEN Window ELSE tTtl
    BY <1>1, <1>5
  <2>4. queue'[r] = <<"incrS", "expireS">> => t > 0
    <3>1. queue'[r] = <<"incrS", "expireS">> => r \in Owed
      BY <2>1 DEF Owed, Owing
    <3>2. r \in Owed => Cardinality(Owed) > 0
      BY <1>3, FS_EmptySet
    <3>3. QED
      BY <1>2, <1>3, <3>1, <3>2 DEF Sound
  <2>5. sTtl' # NoExpiry => s' > 0 /\ tTtl' # NoExpiry /\ sTtl' <= tTtl'
    BY <1>2, <2>3 DEF Sound, Ttl
  <2>6. \A p \in Recorders : queue'[p] \in {<<"incrS", "expireS">>, <<"expireS">>} => tTtl' = Window
    BY <1>1, <2>1, <2>3, <2>4 DEF Sound
  <2>7. QED
    BY <1>1, <2>1, <2>2, <2>3, <2>5, <2>6 DEF Sound
<1>6. CASE cmd = "incrS"
  <2>1. queue[r] = <<"incrS", "expireS">> /\ queue'[r] = <<"expireS">>
    BY <1>1, <1>6, Commands
  <2>2. queue[r] \in Owing /\ queue'[r] \notin Owing
    BY <2>1 DEF Owing
  <2>3. r \in Owed /\ Owed' = Owed \ {r}
    BY <1>1, <2>2 DEF Owed
  <2>4. Cardinality(Owed') = Cardinality(Owed) - 1
    BY <1>3, <2>3, FS_RemoveElement
  <2>5. t' = t /\ s' = s + 1 /\ tTtl' = tTtl /\ sTtl' = sTtl /\ tTtl = Window
    BY <1>1, <1>6, <2>1 DEF Sound
  <2>6. s' + Cardinality(Owed') <= t'
    BY <1>2, <1>3, <2>4, <2>5 DEF Sound
  <2>7. sTtl' # NoExpiry => s' > 0 /\ tTtl' # NoExpiry /\ sTtl' <= tTtl'
    BY <1>2, <2>5 DEF Sound
  <2>8. QED
    BY <1>1, <2>1, <2>5, <2>6, <2>7 DEF Sound
<1>7. CASE cmd = "expireS"
  <2>1. queue[r] = <<"expireS">> /\ queue'[r] = <<>>
    BY <1>1, <1>7, Commands
  <2>2. queue[r] \notin Owing /\ queue'[r] \notin Owing /\ <<>> \notin {<<"incrS", "expireS">>, <<"expireS">>}
    BY <2>1 DEF Owing
  <2>3. Owed' = Owed
    BY <1>1, <2>2 DEF Owed
  <2>4. t' = t /\ s' = s /\ tTtl' = tTtl /\ sTtl' = (IF s > 0 THEN Window ELSE sTtl) /\ tTtl = Window
    BY <1>1, <1>7, <2>1 DEF Sound
  <2>5. /\ s' > 0 => sTtl' # NoExpiry
        /\ sTtl' # NoExpiry => s' > 0 /\ tTtl' # NoExpiry /\ sTtl' <= tTtl'
    BY <1>2, <2>4 DEF Sound
  <2>6. \A p \in Recorders : queue'[p] \in {<<"incrS", "expireS">>, <<"expireS">>} => tTtl' = Window
    BY <2>4
  <2>7. QED
    BY <2>3, <2>4, <2>5, <2>6 DEF Sound
<1>8. CASE cmd = "expireL"
  <2>1. queue[r] = <<"expireL">> /\ queue'[r] = <<>>
    BY <1>1, <1>8, Commands
  <2>2. /\ queue[r] \notin Owing /\ queue'[r] \notin Owing
        /\ {queue[r], queue'[r]} \cap {<<"incrS", "expireS">>, <<"expireS">>} = {}
    BY <2>1 DEF Owing
  <2>3. Owed' = Owed
    BY <1>1, <2>2 DEF Owed
  <2>4. UNCHANGED <<t, s, tTtl, sTtl>>
    BY <1>1, <1>8
  <2>5. QED
    BY <1>1, <2>2, <2>3, <2>4 DEF Sound
<1>9. QED
  <2>1. cmd \in {"incrT", "expireT", "incrS", "expireS", "expireL"}
    BY <1>1, Commands
  <2>2. QED
    BY <2>1, <1>4, <1>5, <1>6, <1>7, <1>8

\* Time passes between pipelines: the attempts are not gone before the successes.
LEMMA WholeTick ==
    ASSUME WindowType, Sound, Tick, ~torn'
    PROVE  Sound'
<1>1. \A r \in Recorders : queue[r] = <<>> /\ queue'[r] = <<>>
  BY DEF Tick
<1>2. <<>> \notin Owing \cup {<<"incrS", "expireS">>, <<"expireS">>}
  BY DEF Owing
<1>3. Owed = {} /\ Owed' = {} /\ Cardinality({}) = 0
  BY <1>1, <1>2, FS_EmptySet DEF Owed
<1>4. /\ t \in Nat /\ s \in Nat /\ tTtl \in Ttl /\ sTtl \in Ttl /\ Window \in Nat \ {0}
      /\ NoExpiry = -1
  BY HealthAssumption DEF WindowType, NoExpiry
<1>5. s <= t /\ (s > 0 => sTtl # NoExpiry) /\ (sTtl # NoExpiry => s > 0 /\ tTtl # NoExpiry /\ sTtl <= tTtl)
  <2>1. s + Cardinality({}) <= t
    BY <1>3 DEF Sound
  <2>2. s <= t
    BY <1>3, <1>4, <2>1
  <2>3. \A r \in Recorders : queue[r] # <<"expireS">>
    BY <1>1, <1>2, Zenon
  <2>4. QED
    BY <2>2, <2>3 DEF Sound
<1>6. /\ t' = IF tTtl = 1 THEN 0 ELSE t
      /\ s' = IF sTtl = 1 THEN 0 ELSE s
      /\ tTtl' = (IF tTtl = NoExpiry THEN NoExpiry ELSE IF tTtl = 1 THEN NoExpiry ELSE tTtl - 1)
      /\ sTtl' = (IF sTtl = NoExpiry THEN NoExpiry ELSE IF sTtl = 1 THEN NoExpiry ELSE sTtl - 1)
  BY DEF Tick, Expired, Older
<1>7. /\ s' <= t' /\ s' \in Nat /\ (s' > 0 => sTtl' # NoExpiry)
      /\ sTtl' # NoExpiry => s' > 0 /\ tTtl' # NoExpiry /\ sTtl' <= tTtl'
  BY <1>4, <1>5, <1>6 DEF Ttl
<1>8. s' + Cardinality(Owed') <= t'
  BY <1>3, <1>7
<1>9. \A r \in Recorders : queue'[r] \notin {<<"incrS", "expireS">>, <<"expireS">>}
  BY <1>1, <1>2, Zenon
<1>10. QED
  BY <1>7, <1>8, <1>9 DEF Sound

\* WindowInv is inductive.
LEMMA WindowKept == Spec => []WindowInv
<1>1. Init => WindowInv
  <2> SUFFICES ASSUME Init PROVE WindowInv
    OBVIOUS
  <2>1. queue = [r \in Recorders |-> <<>>] /\ torn = FALSE
    BY DEF Init
  <2>2. <<>> \in Left /\ <<>> \notin Owing \cup {<<"incrS", "expireS">>, <<"expireS">>}
    BY DEF Left, Owing
  <2>3. queue \in [Recorders -> Left] /\ torn \in BOOLEAN
    BY <2>1, <2>2
  <2>4. WindowType
    BY <2>3 DEF Init, WindowType, Ttl
  <2>5. Owed = {} /\ Cardinality({}) = 0
    BY <2>1, <2>2, FS_EmptySet DEF Owed
  <2>6. s = 0 /\ t = 0 /\ sTtl = NoExpiry
    BY DEF Init
  <2>7. \A r \in Recorders : queue[r] \notin {<<"incrS", "expireS">>, <<"expireS">>}
    BY <2>1, <2>2
  <2>8. Sound
    BY <2>5, <2>6, <2>7 DEF Sound
  <2>9. QED
    BY <2>4, <2>8 DEF WindowInv
<1>2. WindowInv /\ [Next]_vars => WindowInv'
  <2> SUFFICES ASSUME WindowInv, [Next]_vars PROVE WindowInv'
    OBVIOUS
  <2>1. /\ WindowType /\ t \in Nat /\ s \in Nat /\ tTtl \in Ttl /\ sTtl \in Ttl /\ torn \in BOOLEAN
        /\ faults \in Nat /\ queue \in [Recorders -> Left] /\ Window \in Nat \ {0} /\ Window \in Ttl
    BY HealthAssumption DEF WindowInv, WindowType, Ttl
  <2>2. ASSUME WindowType', torn => torn', faults > 0 => faults' > 0, Sound => torn' \/ faults' > 0 \/ Sound'
        PROVE  WindowInv'
    BY <2>2, Zenon DEF WindowInv
  <2>3. ASSUME NEW r \in Recorders, Run(r) PROVE WindowInv'
    <3>1. queue' = [queue EXCEPT ![r] = Tail(@)] /\ queue[r] # <<>> /\ UNCHANGED <<torn, faults>>
      BY <2>3 DEF Run
    <3>2. queue' \in [Recorders -> Left]
      <4>1. Tail(queue[r]) \in Left
        BY <2>1, <3>1, Commands
      <4>2. QED
        BY <2>1, <3>1, <4>1
    <3>3. t' \in Nat /\ s' \in Nat /\ tTtl' \in Ttl /\ sTtl' \in Ttl
      BY <2>1, <2>3 DEF Run
    <3>4. WindowType'
      BY <2>1, <3>1, <3>2, <3>3 DEF WindowType
    <3>5. QED
      BY <2>1, <2>2, <2>3, <3>1, <3>4, CommandRun
  <2>4. ASSUME NEW r \in Recorders, CutPipeline(r) PROVE WindowInv'
    <3>1. queue' = [queue EXCEPT ![r] = <<>>] /\ UNCHANGED <<windowVars, torn>> /\ faults' = faults + 1
      BY <2>4 DEF CutPipeline, Fault
    <3>2. queue' \in [Recorders -> Left]
      BY <2>1, <3>1 DEF Left
    <3>3. WindowType' /\ faults' > 0
      BY <2>1, <3>1, <3>2 DEF WindowType, windowVars
    <3>4. QED
      BY <3>3 DEF WindowInv
  <2>5. ASSUME NEW r \in Recorders,
               (\E ok \in BOOLEAN : RecordResult(r, ok)) \/ (\E ms \in Latencies : RecordLatency(r, ms))
        PROVE  WindowInv'
    <3>1. PICK q \in Sent : /\ queue' = [queue EXCEPT ![r] = q] /\ queue[r] = <<>>
                            /\ UNCHANGED <<windowVars, torn, faults>>
      BY <2>5 DEF RecordResult, RecordLatency, Sent
    <3>2. queue' \in [Recorders -> Left]
      <4>1. q \in Left
        BY Commands DEF Sent, Left
      <4>2. QED
        BY <2>1, <3>1, <4>1
    <3>3. WindowType'
      BY <2>1, <3>1, <3>2 DEF WindowType, windowVars
    <3>4. QED
      BY <2>1, <2>2, <3>1, <3>3, NewPipeline
  <2>6. CASE Tick
    <3>1. t' \in Nat /\ s' \in Nat /\ tTtl' \in Ttl /\ sTtl' \in Ttl
      BY <2>1, <2>6 DEF Tick, Older, Expired, Ttl, NoExpiry
    <3>2. torn' \in BOOLEAN /\ (torn => torn') /\ UNCHANGED <<queue, faults>>
      BY <2>1, <2>6 DEF Tick
    <3>3. WindowType'
      BY <2>1, <3>1, <3>2 DEF WindowType
    <3>4. QED
      BY <2>1, <2>2, <2>6, <3>2, <3>3, WholeTick
  <2>7. ASSUME UNCHANGED <<windowVars, queue, torn>>, faults' \in Nat, faults > 0 => faults' > 0
        PROVE  WindowInv'
    <3>1. WindowType'
      BY <2>1, <2>7 DEF WindowType, windowVars
    <3>2. Sound => Sound'
      BY <2>7 DEF Sound, Owed, windowVars
    <3>3. QED
      BY <2>2, <2>7, <3>1, <3>2
  <2>8. ASSUME NEW v \in Readers, P95Latency(v) \/ Remove(v) PROVE WindowInv'
    <3>1. UNCHANGED <<windowVars, queue, torn>>
      BY <2>8 DEF P95Latency, Remove
    <3>2. faults' \in {faults, faults + 1}
      BY <2>8 DEF P95Latency, Remove, Fault
    <3>3. faults' \in Nat /\ (faults > 0 => faults' > 0)
      BY <2>1, <3>2
    <3>4. QED
      BY <2>7, <3>1, <3>3
  <2>9. CASE UNCHANGED vars
    BY <2>1, <2>7, <2>9 DEF vars
  <2>10. QED
    BY <2>3, <2>4, <2>5, <2>6, <2>8, <2>9 DEF Next
<1>3. QED
  BY <1>1, <1>2, PTL DEF Spec

\* The rate stays within 0..1 however pipelines interleave and counters expire, as long as
\* no time passes inside a pipeline and none is cut off.
THEOREM RatesAreProper == Spec => []RateIsProper
<1>1. WindowInv => RateIsProper
  <2> SUFFICES ASSUME WindowInv, ~torn, ~(faults > 0) PROVE s <= t
    BY DEF RateIsProper
  <2>1. Sound /\ t \in Nat /\ s \in Nat
    BY DEF WindowInv, WindowType
  <2>2. Cardinality(Owed) \in Nat
    BY OwedFinite DEF Owed
  <2>3. QED
    BY <2>1, <2>2 DEF Sound
<1>2. QED
  BY <1>1, WindowKept, PTL

-----------------------------------------------------------------------------
(* The latency. *)

Sample == [ms : Nat, age : Nat, id : 1..MaxRecords]

\* Every sample has a name of its own, given to no sample before it, and a reader's names
\* are those of samples outside the window.
SampleInv ==
    /\ records \in 0..MaxRecords
    /\ samples \in SUBSET Sample
    /\ \A x \in samples : x.id <= records
    /\ \A x, y \in samples : x.id = y.id => x = y
    /\ p95 \in [Readers -> Nat \cup {NoP95}]
    /\ stale \in [Readers -> SUBSET (1..MaxRecords)]
    /\ \A v \in Readers : \A i \in stale[v] : i <= records
    /\ \A v \in Readers : \A x \in samples : x.id \in stale[v] => x.age > Window

\* So there are finitely many of them.
LEMMA NamedSamples ==
    ASSUME NEW S \in SUBSET Sample, \A x, y \in S : x.id = y.id => x = y
    PROVE  IsFiniteSet(S) /\ Cardinality(S) \in Nat
<1> DEFINE Ids == 1..MaxRecords
           f == [x \in S |-> x.id]
<1>1. f \in [S -> Ids]
  BY DEF Sample
<1>2. IsFiniteSet(Ids)
  BY HealthAssumption, FS_Interval
<1>3. \A x, y \in S : f[x] = f[y] => x = y
  OBVIOUS
<1> HIDE DEF f, Ids
<1>4. f \in Injection(S, Ids)
  BY <1>1, <1>3 DEF Injection, IsInjective
<1>5. IsFiniteSet(S)
  BY <1>2, <1>4, FS_Injection
<1>6. QED
  BY <1>5, FS_CardinalityType

\* The position taken is a position, and the least with 95 of 100 samples up to it.
LEMMA IndexIsQuantile ==
    ASSUME NEW n \in Nat \ {0}
    PROVE  /\ P95Index(n) \in 0..(n - 1)
           /\ 100 * (P95Index(n) + 1) >= 95 * n
           /\ 100 * P95Index(n) < 95 * n
<1> DEFINE d == (95 * n + 99) \div 100
<1>1. d \in Int /\ 100 * d <= 95 * n + 99 /\ 95 * n + 99 < 100 * d + 100
  OBVIOUS
<1>2. P95Index(n) = IF d - 1 < 0 THEN 0 ELSE IF d - 1 >= n THEN n - 1 ELSE d - 1
  BY DEF P95Index
<1> HIDE DEF d
<1>3. QED
  BY <1>1, <1>2

\* The samples before another one in the order of ZRANGE.
Below(S, x) == {y \in S : Before(y, x)}

\* A sample with more before it comes later: every position of the order is taken by one
\* sample.
LEMMA EveryPositionTaken ==
    ASSUME NEW S \in SUBSET Sample, \A x, y \in S : x.id = y.id => x = y,
           NEW k \in 0..(Cardinality(S) - 1)
    PROVE  \E x \in S : Cardinality(Below(S, x)) = k
<1> DEFINE n == Cardinality(S)
           Pos == 0..(n - 1)
           rk == [x \in S |-> Cardinality(Below(S, x))]
<1>1. IsFiniteSet(S) /\ n \in Nat
  BY NamedSamples
<1>2. \A x \in S : x.ms \in Nat /\ x.id \in Nat
  BY DEF Sample
<1>3. ASSUME NEW x \in S
      PROVE  /\ IsFiniteSet(Below(S, x)) /\ Cardinality(Below(S, x)) \in Pos
  <2>1. x \notin Below(S, x) /\ Below(S, x) \in SUBSET (S \ {x})
    BY <1>2 DEF Below, Before
  <2>2. IsFiniteSet(S \ {x}) /\ Cardinality(S \ {x}) = n - 1
    BY <1>1, FS_RemoveElement
  <2>3. IsFiniteSet(Below(S, x)) /\ Cardinality(Below(S, x)) <= n - 1
    BY <2>1, <2>2, FS_Subset
  <2>4. Cardinality(Below(S, x)) \in Nat
    BY <2>3, FS_CardinalityType
  <2>5. QED
    BY <1>1, <2>3, <2>4
<1>4. ASSUME NEW x \in S, NEW y \in S, Before(x, y)
      PROVE  Cardinality(Below(S, x)) < Cardinality(Below(S, y))
  <2>1. x \notin Below(S, x) /\ Below(S, x) \cup {x} \in SUBSET Below(S, y)
    BY <1>2, <1>4 DEF Below, Before
  <2>2. Cardinality(Below(S, x) \cup {x}) = Cardinality(Below(S, x)) + 1
    BY <1>3, <2>1, FS_AddElement
  <2>3. Cardinality(Below(S, x) \cup {x}) <= Cardinality(Below(S, y))
    BY <1>3, <2>1, FS_Subset
  <2>4. Cardinality(Below(S, x)) \in Nat /\ Cardinality(Below(S, y)) \in Nat
    BY <1>3
  <2>5. QED
    BY <2>2, <2>3, <2>4
<1>5. \A x, y \in S : rk[x] = rk[y] => x = y
  <2> SUFFICES ASSUME NEW x \in S, NEW y \in S, rk[x] = rk[y], x # y PROVE FALSE
    OBVIOUS
  <2>1. Before(x, y) \/ Before(y, x)
    BY <1>2 DEF Before
  <2>2. Cardinality(Below(S, x)) \in Nat /\ Cardinality(Below(S, y)) \in Nat
    BY <1>3
  <2>3. Cardinality(Below(S, x)) = Cardinality(Below(S, y))
    OBVIOUS
  <2>4. Cardinality(Below(S, x)) # Cardinality(Below(S, y))
    BY <1>4, <2>1, <2>2
  <2>5. QED
    BY <2>3, <2>4
<1>6. rk \in [S -> Pos]
  BY <1>3
<1>7. \A x \in S : rk[x] = Cardinality(Below(S, x))
  OBVIOUS
<1>8. IsFiniteSet(Pos) /\ Cardinality(Pos) = n
  <2> HIDE DEF n
  <2>1. n - 1 \in Int /\ n = IF 0 > n - 1 THEN 0 ELSE n - 1 - 0 + 1
    BY <1>1
  <2>2. IsFiniteSet(0..(n - 1)) /\ Cardinality(0..(n - 1)) = IF 0 > n - 1 THEN 0 ELSE n - 1 - 0 + 1
    <3> DEFINE m == n - 1
    <3>1. m \in Int
      BY <2>1
    <3> HIDE DEF m
    <3>2. IsFiniteSet(0..m) /\ Cardinality(0..m) = IF 0 > m THEN 0 ELSE m - 0 + 1
      BY <3>1, FS_Interval
    <3>3. QED
      BY <3>2 DEF m
  <2>3. QED
    BY <2>1, <2>2
<1>9. k \in Pos
  OBVIOUS
<1> HIDE DEF rk, Pos
<1>10. rk \in Injection(S, Pos)
  BY <1>5, <1>6 DEF Injection, IsInjective
<1>11. rk \in Surjection(S, Pos)
  BY <1>8, <1>10, FS_Injection
<1>12. \E x \in S : rk[x] = k
  BY <1>9, <1>11 DEF Surjection
<1>13. QED
  BY <1>7, <1>12

\* The p95 of any samples is the least of them that 95 of 100 do not exceed.
LEMMA QuantileOfSamples ==
    ASSUME NEW S \in SUBSET Sample, \A x, y \in S : x.id = y.id => x = y, S # {}
    PROVE  LET enough(v) == 100 * Cardinality({x \in S : x.ms <= v}) >= 95 * Cardinality(S)
           IN  /\ enough(P95(S))
               /\ \A z \in S : enough(z.ms) => P95(S) <= z.ms
<1> DEFINE n == Cardinality(S)
           k == P95Index(n)
           UpTo(v) == {y \in S : y.ms <= v}
<1>1. IsFiniteSet(S) /\ n \in Nat \ {0}
  BY NamedSamples, FS_EmptySet
<1>2. \A x \in S : x.ms \in Nat /\ x.id \in Nat
  BY DEF Sample
<1>3. k \in 0..(n - 1) /\ 100 * (k + 1) >= 95 * n /\ 100 * k < 95 * n
  BY <1>1, IndexIsQuantile
<1>4. PICK x \in S : Cardinality(Below(S, x)) = k /\ P95(S) = x.ms
  <2>1. \E x \in S : Cardinality(Below(S, x)) = k
    BY <1>3, EveryPositionTaken
  <2>2. P95(S) = (CHOOSE x \in S : Cardinality(Below(S, x)) = k).ms
    BY DEF P95, Below
  <2>3. QED
    BY <2>1, <2>2
<1>5. \A v : IsFiniteSet(UpTo(v)) /\ Cardinality(UpTo(v)) \in Nat
  <2> TAKE v
  <2>1. UpTo(v) \in SUBSET S
    OBVIOUS
  <2>2. QED
    BY <1>1, <2>1, FS_Subset, FS_CardinalityType
<1>6. IsFiniteSet(Below(S, x))
  <2>1. Below(S, x) \in SUBSET S
    BY DEF Below
  <2>2. QED
    BY <1>1, <2>1, FS_Subset
<1>7. Cardinality(UpTo(x.ms)) >= k + 1
  <2>1. x \notin Below(S, x) /\ Below(S, x) \cup {x} \in SUBSET UpTo(x.ms)
    BY <1>2 DEF Below, Before
  <2> HIDE DEF UpTo, k
  <2>2. IsFiniteSet(Below(S, x) \cup {x}) /\ Cardinality(Below(S, x) \cup {x}) = k + 1
    BY <1>4, <1>6, <2>1, FS_AddElement
  <2>3. Cardinality(Below(S, x) \cup {x}) <= Cardinality(UpTo(x.ms))
    BY <1>5, <2>1, FS_Subset
  <2>4. k \in Nat
    BY <1>1, <1>3
  <2>5. QED
    BY <1>5, <2>2, <2>3, <2>4
<1>8. ASSUME NEW z \in S, ~(x.ms <= z.ms) PROVE Cardinality(UpTo(z.ms)) <= k
  <2>1. UpTo(z.ms) \in SUBSET Below(S, x)
    BY <1>2, <1>8 DEF Below, Before
  <2> HIDE DEF UpTo, k
  <2>2. QED
    BY <1>4, <1>6, <2>1, FS_Subset
<1>9. 100 * Cardinality(UpTo(x.ms)) >= 95 * n
  <2> HIDE DEF UpTo, k, n
  <2>1. QED
    BY <1>1, <1>3, <1>5, <1>7
<1>10. ASSUME NEW z \in S, 100 * Cardinality(UpTo(z.ms)) >= 95 * n PROVE x.ms <= z.ms
  <2>1. 100 * Cardinality(UpTo(z.ms)) > 100 * k
    <3>1. Cardinality(UpTo(z.ms)) \in Nat /\ 100 * Cardinality(UpTo(z.ms)) >= 95 * n
      BY <1>5, <1>10
    <3> HIDE DEF UpTo, k, n
    <3>2. QED
      BY <1>1, <1>3, <3>1
  <2> HIDE DEF UpTo, k, n
  <2>2. ~(Cardinality(UpTo(z.ms)) <= k)
    BY <1>1, <1>3, <1>5, <2>1
  <2>3. QED
    BY <1>8, <2>2
<1>11. QED
  BY <1>4, <1>9, <1>10

\* What a reader computes is a number of milliseconds.
LEMMA P95IsNat ==
    ASSUME SampleInv PROVE P95(Fresh) \in Nat
<1>1. Fresh \in SUBSET Sample /\ \A x, y \in Fresh : x.id = y.id => x = y
  BY DEF SampleInv, Fresh
<1>2. CASE Fresh = {}
  BY <1>2 DEF P95
<1>3. CASE Fresh # {}
  <2>1. IsFiniteSet(Fresh) /\ Cardinality(Fresh) \in Nat \ {0}
    BY <1>1, <1>3, NamedSamples, FS_EmptySet
  <2>2. P95Index(Cardinality(Fresh)) \in 0..(Cardinality(Fresh) - 1)
    BY <2>1, IndexIsQuantile
  <2>3. \E x \in Fresh : Cardinality(Below(Fresh, x)) = P95Index(Cardinality(Fresh))
    BY <1>1, <2>2, EveryPositionTaken
  <2>4. P95(Fresh) = (CHOOSE x \in Fresh : Cardinality(Below(Fresh, x)) = P95Index(Cardinality(Fresh))).ms
    BY <1>3 DEF P95, Below
  <2>5. QED
    BY <1>1, <2>3, <2>4 DEF Sample
<1>4. QED
  BY <1>2, <1>3

\* SampleInv is inductive.
LEMMA SamplesKept == Spec => []SampleInv
<1>1. Init => SampleInv
  BY HealthAssumption DEF Init, SampleInv
<1>2. SampleInv /\ [Next]_vars => SampleInv'
  <2> SUFFICES ASSUME SampleInv, [Next]_vars PROVE SampleInv'
    OBVIOUS
  <2> USE HealthAssumption
  <2>1. ASSUME NEW r \in Recorders, NEW ms \in Latencies, RecordLatency(r, ms) PROVE SampleInv'
    <3> DEFINE new == [ms |-> ms, age |-> 0, id |-> records + 1]
    <3>1. /\ samples' = samples \cup {new} /\ records' = records + 1 /\ records < MaxRecords
          /\ UNCHANGED <<p95, stale>>
      BY <2>1 DEF RecordLatency, readerVars
    <3>2. new \in Sample /\ new.id = records + 1 /\ records' \in 0..MaxRecords /\ records \in Nat
      BY <3>1 DEF Sample, SampleInv
    <3> HIDE DEF new
    <3>3. \A x \in samples : x.id \in Nat /\ x.id <= records
      BY DEF SampleInv, Sample
    <3>4. \A v \in Readers : \A i \in stale[v] : i \in Nat /\ i <= records
      BY DEF SampleInv
    <3>5. samples' \in SUBSET Sample /\ \A x \in samples' : x.id <= records'
      BY <3>1, <3>2, <3>3 DEF SampleInv
    <3>6. \A x, y \in samples' : x.id = y.id => x = y
      BY <3>1, <3>2, <3>3 DEF SampleInv
    <3>7. \A v \in Readers : \A i \in stale'[v] : i <= records'
      BY <3>1, <3>2, <3>4
    <3>8. \A v \in Readers : \A x \in samples' : x.id \in stale'[v] => x.age > Window
      BY <3>1, <3>2, <3>4 DEF SampleInv
    <3>9. QED
      BY <3>1, <3>2, <3>5, <3>6, <3>7, <3>8 DEF SampleInv
  <2>2. CASE Tick
    <3> DEFINE Aged(x) == [x EXCEPT !.age = IF @ > Window THEN @ ELSE @ + 1]
    <3>1. samples' \in {{}, {Aged(x) : x \in samples}} /\ UNCHANGED <<records, p95, stale>>
      BY <2>2 DEF Tick, readerVars
    <3>2. \A x \in samples : /\ Aged(x) \in Sample /\ Aged(x).id = x.id
                             /\ x.age > Window => Aged(x).age > Window
      BY DEF SampleInv, Sample
    <3> HIDE DEF Aged
    <3>3. QED
      BY <3>1, <3>2 DEF SampleInv
  <2>3. ASSUME samples' \in SUBSET samples, UNCHANGED <<p95, stale>>, records' \in {records, records + 1},
               records' \in 0..MaxRecords
        PROVE  SampleInv'
    <3>1. records \in Nat /\ \A i \in 1..MaxRecords : i <= records => i <= records'
      BY <2>3 DEF SampleInv
    <3>2. \A x \in samples' : x.id <= records'
      BY <2>3, <3>1 DEF SampleInv, Sample
    <3>3. \A v \in Readers : \A i \in stale'[v] : i <= records'
      BY <2>3, <3>1 DEF SampleInv
    <3>4. QED
      BY <2>3, <3>2, <3>3 DEF SampleInv
  <2>4. ASSUME NEW r \in Recorders,
               Run(r) \/ CutPipeline(r) \/ \E ok \in BOOLEAN : RecordResult(r, ok)
        PROVE  SampleInv'
    <3>1. records \in 0..MaxRecords
      BY DEF SampleInv
    <3>2. QED
      BY <2>3, <2>4, <3>1 DEF Run, CutPipeline, RecordResult, latencyVars, readerVars
  <2>5. ASSUME NEW v \in Readers, P95Latency(v) PROVE SampleInv'
    <3>1. /\ UNCHANGED <<samples, records>>
          /\ p95' \in {[p95 EXCEPT ![v] = P95(Fresh)], [p95 EXCEPT ![v] = 0]}
          /\ stale' \in {[stale EXCEPT ![v] = {x.id : x \in {y \in samples : y.age > Window}}], stale}
      BY <2>5 DEF P95Latency, latencyVars
    <3>2. p95' \in [Readers -> Nat \cup {NoP95}]
      BY <3>1, P95IsNat DEF SampleInv
    <3>3. {x.id : x \in {y \in samples : y.age > Window}} \in SUBSET (1..MaxRecords)
      BY DEF SampleInv, Sample
    <3>4. stale' \in [Readers -> SUBSET (1..MaxRecords)]
      BY <3>1, <3>3 DEF SampleInv
    <3>5. /\ \A u \in Readers : \A i \in stale'[u] : i <= records
          /\ \A u \in Readers : \A x \in samples : x.id \in stale'[u] => x.age > Window
      BY <3>1 DEF SampleInv
    <3>6. QED
      BY <3>1, <3>2, <3>4, <3>5 DEF SampleInv
  <2>6. ASSUME NEW v \in Readers, Remove(v) PROVE SampleInv'
    <3>1. /\ samples' \in SUBSET samples /\ UNCHANGED records
          /\ p95' = [p95 EXCEPT ![v] = NoP95] /\ stale' = [stale EXCEPT ![v] = {}]
      BY <2>6 DEF Remove, latencyVars
    <3>2. p95' \in [Readers -> Nat \cup {NoP95}] /\ stale' \in [Readers -> SUBSET (1..MaxRecords)]
      BY <3>1 DEF SampleInv
    <3>3. \A u \in Readers : stale'[u] \in SUBSET stale[u]
      BY <3>1 DEF SampleInv
    <3>4. QED
      BY <3>1, <3>2, <3>3 DEF SampleInv
  <2>7. CASE UNCHANGED vars
    BY <2>7 DEF vars, latencyVars, readerVars, SampleInv
  <2>8. QED
    BY <2>1, <2>2, <2>4, <2>5, <2>6, <2>7 DEF Next
<1>3. QED
  BY <1>1, <1>2, PTL DEF Spec

\* The p95 a reader gets is the p95 of the samples inside the window, whatever else is in
\* the set.
THEOREM P95sAreQuantiles == Spec => P95IsQuantile
<1> DEFINE InWindow == {x \in samples : x.age <= Window}
           Told(v) == p95[v] = NoP95 /\ p95'[v] # NoP95 /\ InWindow # {} /\ faults' = faults =>
                         IndexIsLeast /\ IsQuantile(p95'[v], InWindow)
<1>1. IndexIsLeast
  <2> SUFFICES ASSUME NEW n \in 1..MaxCounted
               PROVE  100 * (P95Index(n) + 1) >= 95 * n /\ 100 * P95Index(n) < 95 * n
    BY DEF IndexIsLeast
  <2>1. MaxCounted \in Nat
    BY HealthAssumption
  <2>2. n \in Nat \ {0}
    BY <2>1
  <2>3. QED
    BY <2>2, IndexIsQuantile
<1>2. ASSUME SampleInv, WindowInv, [Next]_vars, NEW v \in Readers PROVE Told(v)
  <2> SUFFICES ASSUME p95[v] = NoP95, p95'[v] # NoP95, InWindow # {}, faults' = faults
               PROVE  IsQuantile(p95'[v], InWindow)
    BY <1>1
  <2>1. p95' # p95
    OBVIOUS
  <2>2. PICK u \in Readers : P95Latency(u) \/ Remove(u)
    BY <1>2, <2>1 DEF Next, Run, CutPipeline, RecordResult, RecordLatency, Tick, vars, readerVars
  <2>3. ~Remove(u)
    BY <1>2 DEF Remove, SampleInv
  <2>4. p95' = [p95 EXCEPT ![u] = P95(Fresh)]
    <3>1. faults' # faults + 1
      <4>1. faults \in Nat
        BY <1>2 DEF WindowInv, WindowType
      <4>2. QED
        BY <4>1
    <3>2. QED
      BY <2>2, <2>3, <3>1 DEF P95Latency, Fault
  <2>5. p95'[v] = P95(InWindow)
    BY <1>2, <2>4 DEF SampleInv, Fresh
  <2>6. InWindow \in SUBSET Sample /\ \A x, y \in InWindow : x.id = y.id => x = y
    BY <1>2 DEF SampleInv
  <2>7. QED
    BY <2>5, <2>6, QuantileOfSamples DEF IsQuantile
<1>3. SampleInv /\ WindowInv /\ [Next]_vars => [\A v \in Readers : Told(v)]_vars
  BY <1>2
<1>4. QED
  BY <1>3, SamplesKept, WindowKept, PTL DEF Spec, P95IsQuantile

-----------------------------------------------------------------------------
(* The expiry of the samples. *)

\* The set does not expire before the window of its youngest sample is over: it has an
\* expiry that late, or a sample was added just now and its EXPIRE is still to be run.
Renewed ==
    \A x \in samples :
        \/ latTtl # NoExpiry /\ latTtl + x.age >= Window
        \/ x.age = 0 /\ \E r \in Recorders : queue[r] = <<"expireL">>

RenewalInv == latTtl \in Ttl /\ (torn \/ faults > 0 \/ Renewed)

\* RenewalInv is inductive.
LEMMA RenewalKept == Spec => []RenewalInv
<1>1. Init => RenewalInv
  BY DEF Init, RenewalInv, Renewed, Ttl
<1>2. ASSUME SampleInv, WindowInv, RenewalInv, [Next]_vars PROVE RenewalInv'
  <2>1. /\ latTtl \in Ttl /\ Window \in Nat \ {0} /\ Window \in Ttl /\ NoExpiry = -1
        /\ faults \in Nat /\ queue \in [Recorders -> Left] /\ \A x \in samples : x.age \in Nat
    BY <1>2, HealthAssumption DEF RenewalInv, WindowInv, WindowType, SampleInv, Sample, Ttl, NoExpiry
  <2>2. ASSUME latTtl' \in Ttl, torn => torn', faults > 0 => faults' > 0,
               Renewed => torn' \/ faults' > 0 \/ Renewed'
        PROVE  RenewalInv'
    BY <1>2, <2>2, Zenon DEF RenewalInv
  <2>3. ASSUME NEW r \in Recorders, Run(r) PROVE RenewalInv'
    <3>1. /\ queue[r] \in Left \ {<<>>} /\ UNCHANGED <<samples, torn, faults>>
          /\ latTtl' = (IF Head(queue[r]) = "expireL" THEN ExpireSamples ELSE latTtl)
          /\ \A p \in Recorders \ {r} : queue'[p] = queue[p]
      BY <2>1, <2>3 DEF Run
    <3>2. latTtl' \in Ttl
      BY <2>1, <3>1 DEF ExpireSamples
    <3>3. CASE Head(queue[r]) = "expireL"
      <4>1. samples # {} => latTtl' = Window
        BY <3>1, <3>3 DEF ExpireSamples
      <4>2. Renewed'
        BY <2>1, <3>1, <4>1 DEF Renewed
      <4>3. QED
        BY <2>2, <3>1, <3>2, <4>2
    <3>4. CASE Head(queue[r]) # "expireL"
      <4>1. queue[r] # <<"expireL">> /\ latTtl' = latTtl
        BY <3>1, <3>4
      <4>2. Renewed => Renewed'
        BY <3>1, <4>1 DEF Renewed
      <4>3. QED
        BY <2>2, <3>1, <3>2, <4>2
    <3>5. QED
      BY <3>3, <3>4
  <2>4. ASSUME NEW r \in Recorders, CutPipeline(r) PROVE RenewalInv'
    BY <2>1, <2>4 DEF CutPipeline, Fault, RenewalInv, latencyVars
  <2>5. ASSUME NEW r \in Recorders, NEW ok \in BOOLEAN, RecordResult(r, ok) PROVE RenewalInv'
    <3>1. /\ queue[r] = <<>> /\ UNCHANGED <<samples, latTtl, torn, faults>>
          /\ \A p \in Recorders \ {r} : queue'[p] = queue[p]
      BY <2>1, <2>5 DEF RecordResult, latencyVars
    <3>2. <<>> # <<"expireL">>
      OBVIOUS
    <3>3. Renewed => Renewed'
      BY <3>1, <3>2 DEF Renewed
    <3>4. QED
      BY <2>1, <2>2, <3>1, <3>3
  <2>6. ASSUME NEW r \in Recorders, NEW ms \in Latencies, RecordLatency(r, ms) PROVE RenewalInv'
    <3> DEFINE new == [ms |-> ms, age |-> 0, id |-> records + 1]
    <3>1. /\ queue[r] = <<>> /\ queue'[r] = <<"expireL">> /\ UNCHANGED <<latTtl, torn, faults>>
          /\ \A p \in Recorders \ {r} : queue'[p] = queue[p]
          /\ samples' = samples \cup {new} /\ new.age = 0
      BY <2>1, <2>6 DEF RecordLatency
    <3> HIDE DEF new
    <3>2. Renewed => Renewed'
      BY <3>1 DEF Renewed
    <3>3. QED
      BY <2>1, <2>2, <3>1, <3>2
  <2>7. CASE Tick
    <3> DEFINE Aged(x) == [x EXCEPT !.age = IF @ > Window THEN @ ELSE @ + 1]
    <3>1. /\ latTtl' = Older(latTtl) /\ UNCHANGED <<queue, faults>> /\ torn \in BOOLEAN
          /\ torn' = (torn \/ \E r \in Recorders : queue[r] # <<>>)
          /\ samples' = IF latTtl = 1 THEN {} ELSE {Aged(x) : x \in samples}
      BY <1>2, <2>7 DEF Tick, Expired, WindowInv, WindowType
    <3>2. \A x \in samples : Aged(x).age = IF x.age > Window THEN x.age ELSE x.age + 1
      BY <1>2 DEF SampleInv, Sample
    <3> HIDE DEF Aged
    <3>3. latTtl' \in Ttl
      BY <2>1, <3>1 DEF Older, Ttl
    <3>4. ASSUME Renewed, ~torn' PROVE Renewed'
      <4>1. \A r \in Recorders : queue[r] = <<>>
        BY <3>1, <3>4
      <4>2. <<>> # <<"expireL">>
        OBVIOUS
      <4>3. \A x \in samples : latTtl # NoExpiry /\ latTtl + x.age >= Window
        BY <3>4, <4>1, <4>2 DEF Renewed
      <4>4. ASSUME NEW x \in samples, latTtl # 1
            PROVE  latTtl' # NoExpiry /\ latTtl' + Aged(x).age >= Window
        <5>1. latTtl \in 2..Window /\ latTtl' = latTtl - 1 /\ latTtl + x.age >= Window
          BY <2>1, <3>1, <4>3, <4>4 DEF Older, Ttl
        <5>2. x.age \in Nat
          BY <2>1
        <5>3. QED
          BY <2>1, <3>2, <5>1, <5>2
      <4>5. QED
        BY <3>1, <4>4 DEF Renewed
    <3>5. QED
      BY <2>2, <3>1, <3>3, <3>4
  <2>8. ASSUME NEW v \in Readers, P95Latency(v) \/ Remove(v) PROVE RenewalInv'
    <3>1. /\ samples' \in SUBSET samples /\ UNCHANGED <<queue, torn>>
          /\ latTtl' = latTtl \/ (samples' = {} /\ latTtl' = NoExpiry)
      BY <2>8 DEF P95Latency, Remove, latencyVars
    <3>2. faults' \in {faults, faults + 1}
      BY <2>8 DEF P95Latency, Remove, Fault
    <3>3. faults > 0 => faults' > 0
      BY <2>1, <3>2
    <3>4. Renewed => Renewed'
      BY <3>1 DEF Renewed
    <3>5. latTtl' \in Ttl
      BY <2>1, <3>1 DEF Ttl
    <3>6. QED
      BY <2>2, <3>1, <3>3, <3>4, <3>5
  <2>9. CASE UNCHANGED vars
    BY <1>2, <2>9 DEF vars, latencyVars, RenewalInv, Renewed
  <2>10. QED
    BY <1>2, <2>3, <2>4, <2>5, <2>6, <2>7, <2>8, <2>9 DEF Next
<1>3. QED
  BY <1>1, <1>2, SamplesKept, WindowKept, PTL DEF Spec

\* As long as no time passes inside a pipeline and no call fails, no sample is lost before
\* its window is over: neither to the expiry of the set nor to a reader's late ZREM.
THEOREM SamplesOutlastWindow == Spec => FreshSamplesKept
<1> DEFINE Kept == torn' \/ faults' > 0 \/
                   \A x \in samples : x.age + 1 < Window => \E y \in samples' : y.id = x.id
<1>1. ASSUME SampleInv, WindowInv, RenewalInv, [Next]_vars PROVE Kept
  <2> SUFFICES ASSUME ~torn', ~(faults' > 0), NEW x \in samples, x.age + 1 < Window
               PROVE  \E y \in samples' : y.id = x.id
    OBVIOUS
  <2>1. Window \in Nat \ {0} /\ x.age \in Nat /\ faults \in Nat /\ NoExpiry = -1
    BY <1>1, HealthAssumption DEF WindowInv, WindowType, SampleInv, Sample, NoExpiry
  <2>2. ASSUME samples \in SUBSET samples' PROVE \E y \in samples' : y.id = x.id
    BY <2>2
  <2>3. CASE Tick
    <3> DEFINE Aged(z) == [z EXCEPT !.age = IF @ > Window THEN @ ELSE @ + 1]
    <3>1. /\ UNCHANGED faults /\ \A r \in Recorders : queue[r] = <<>>
          /\ ~torn /\ samples' = IF latTtl = 1 THEN {} ELSE {Aged(z) : z \in samples}
      BY <2>3 DEF Tick, Expired
    <3>2. Aged(x).id = x.id
      BY <1>1 DEF SampleInv, Sample
    <3> HIDE DEF Aged
    <3>3. latTtl # NoExpiry /\ latTtl + x.age >= Window
      <4>1. <<>> # <<"expireL">>
        OBVIOUS
      <4>2. QED
        BY <1>1, <3>1, <4>1 DEF RenewalInv, Renewed
    <3>4. latTtl # 1
      BY <2>1, <3>3
    <3>5. QED
      BY <3>1, <3>2, <3>4
  <2>4. ASSUME NEW v \in Readers, Remove(v) PROVE \E y \in samples' : y.id = x.id
    <3>1. samples' \in {samples, {z \in samples : z.id \notin stale[v]}}
      BY <2>4 DEF Remove, latencyVars
    <3>2. x.id \notin stale[v]
      BY <1>1, <2>1 DEF SampleInv
    <3>3. QED
      BY <3>1, <3>2
  <2>5. CASE samples' = samples \/ \E r \in Recorders, ms \in Latencies : RecordLatency(r, ms)
    BY <2>2, <2>5 DEF RecordLatency
  <2>6. QED
    BY <1>1, <2>3, <2>4, <2>5
       DEF Next, Run, CutPipeline, RecordResult, P95Latency, vars, latencyVars
<1>2. SampleInv /\ WindowInv /\ RenewalInv /\ [Next]_vars => [Kept]_vars
  BY <1>1
<1>3. QED
  BY <1>2, SamplesKept, WindowKept, RenewalKept, PTL DEF Spec, FreshSamplesKept
=============================================================================
