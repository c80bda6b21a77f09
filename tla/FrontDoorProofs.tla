--------------------------- MODULE FrontDoorProofs --------------------------
(***************************************************************************)
(* Proofs about FrontDoor, for any processes, callers, limits, windows and *)
(* numbers of faults.                                                      *)
(***************************************************************************)
EXTENDS FrontDoor, FiniteSetTheorems, TLAPS

Points == {"idle", "incr", "expire", "ttl", "auth"}

\* A limit is never 0, and a counter grows by one up to the first number past it.
LEMMA LimitIsPositive == \A b : LimitOf(b) \in Nat /\ LimitOf(b) > 0
BY DoorAssumption DEF DoorAssumption, LimitOf

\* Counting a request never lowers a counter and never leaves it at 0.
LEMMA CountedGrows ==
    ASSUME NEW b, NEW n \in Nat
    PROVE  Counted(n, b) \in Nat /\ Counted(n, b) >= n /\ Counted(n, b) > 0
BY LimitIsPositive DEF Counted

\* Where a request is counted is always one of the buckets.
LEMMA BucketsOfCallers ==
    ASSUME NEW u \in Callers
    PROVE  <<"ip", IpOf[u]>> \in Bucket /\ KeyBucket(u) \in Bucket
BY DEF Bucket, KeyBucket

\* A request the limiter has dealt with leaves its bucket.
Leaves(c) ==
    /\ at' = [at EXCEPT ![c] = NoBucket]
    /\ \/ pc' = [pc EXCEPT ![c] = "auth"] /\ who' = who
       \/ pc' = [pc EXCEPT ![c] = "idle"] /\ who' = [who EXCEPT ![c] = NoCaller]

\* Letting a request through and refusing it both end its part in the limiter.
LEMMA DealtWith == ASSUME NEW c, Allowed(c) \/ Refused(c) PROVE Leaves(c)
BY DEF Allowed, Refused, Finish, Move, Leaves

-----------------------------------------------------------------------------
(* The shared counter. *)

\* What a slot knows of the request it serves.
SlotInv ==
    \A c \in Calls :
        /\ pc[c] # "idle" => who[c] \in Callers
        /\ pc[c] \in {"incr", "expire", "ttl"} => at[c] \in Bucket

\* A key without an expiry has let nobody through; a call about to set the expiry
\* is alone with a counter that has none.
WindowInv ==
    /\ \A b \in Bucket :
          /\ ttl[b] # 0
          /\ count[b] = 0 => ttl[b] = NoExpiry
          /\ ttl[b] = NoExpiry => passed[b] = 0
    /\ \A c \in Calls : pc[c] = "expire" => ttl[at[c]] = NoExpiry /\ count[at[c]] > 0
    /\ \A c, d \in Calls : pc[c] = "expire" /\ pc[d] = "expire" /\ at[c] = at[d] => c = d

\* Without a fault Valkey is out of reach from the start or never.
NeverUp == faults = 0 /\ ~up => \A c \in Calls : pc[c] # "expire"

\* Then the others are where they were.
LEMMA LeavingIsLocal ==
    ASSUME TypeOK, SlotInv, NEW c \in Calls, pc[c] # "idle", Leaves(c)
    PROVE  /\ pc' \in [Calls -> Points] /\ at' \in [Calls -> Bucket \cup {NoBucket}]
           /\ who' \in [Calls -> Callers \cup {NoCaller}]
           /\ pc'[c] \in {"auth", "idle"}
           /\ \A d \in Calls \ {c} : pc'[d] = pc[d] /\ at'[d] = at[d]
           /\ SlotInv'
<1>1. CASE pc' = [pc EXCEPT ![c] = "auth"] /\ who' = who
  BY <1>1 DEF Leaves, TypeOK, SlotInv, Points
<1>2. CASE pc' = [pc EXCEPT ![c] = "idle"] /\ who' = [who EXCEPT ![c] = NoCaller]
  BY <1>2 DEF Leaves, TypeOK, SlotInv, Points
<1>3. QED
  BY <1>1, <1>2 DEF Leaves

\* The same for a request that goes on to a step of its bucket.
LEMMA MoveIsLocal ==
    ASSUME TypeOK, SlotInv, NEW c \in Calls, who[c] \in Callers, who' = who,
           NEW point \in Points, NEW b \in Bucket, Move(c, point, b)
    PROVE  /\ pc' \in [Calls -> Points] /\ at' \in [Calls -> Bucket \cup {NoBucket}]
           /\ pc'[c] = point /\ at'[c] = b
           /\ \A d \in Calls \ {c} : pc'[d] = pc[d] /\ at'[d] = at[d]
           /\ SlotInv'
BY DEF Move, TypeOK, SlotInv, Points

\* A request let through counts while the bucket's key runs out.
LEMMA PassCounts ==
    ASSUME NEW b \in Bucket, passed \in [Bucket -> Nat], Pass(b)
    PROVE  /\ passed' \in [Bucket -> Nat]
           /\ \A k \in Bucket \ {b} : passed'[k] = passed[k]
           /\ passed'[b] = IF ttl'[b] # NoExpiry THEN passed[b] + 1 ELSE 0
<1> DEFINE x == IF ttl'[b] # NoExpiry THEN passed[b] + 1 ELSE 0
<1>1. x \in Nat /\ passed' = [passed EXCEPT ![b] = x]
  BY DEF Pass
<1> HIDE DEF x
<1>2. passed' \in [Bucket -> Nat] /\ (\A k \in Bucket \ {b} : passed'[k] = passed[k]) /\ passed'[b] = x
  BY <1>1
<1>3. QED
  BY <1>2 DEF x

DoorInv == TypeOK /\ crashes <= faults /\ SlotInv /\ WindowInv /\ NeverUp /\ CounterExpires

\* DoorInv is inductive.
LEMMA DoorKept == Spec => []DoorInv
<1> USE DoorAssumption DEF DoorAssumption, NoExpiry
<1>1. Init => DoorInv
  BY DEF Init, DoorInv, TypeOK, SlotInv, WindowInv, NeverUp, CounterExpires
<1>2. DoorInv /\ [Next]_vars => DoorInv'
  <2> SUFFICES ASSUME TypeOK, crashes <= faults, SlotInv, WindowInv, NeverUp, CounterExpires,
                      [Next]_vars
               PROVE  DoorInv'
    BY DEF DoorInv
  <2> USE DEF DoorInv
  <2>1. CASE \E c \in Calls, u \in Callers : Arrive(c, u)
    <3> PICK c \in Calls, u \in Callers : Arrive(c, u)
      BY <2>1
    <3>1. <<"ip", IpOf[u]>> \in Bucket
      BY BucketsOfCallers
    <3>2. TypeOK' /\ SlotInv' /\ WindowInv'
      BY <3>1 DEF Arrive, Move, TypeOK, SlotInv, WindowInv, sharedVars, localVars
    <3>3. NeverUp' /\ CounterExpires'
      BY <3>1 DEF Arrive, Move, TypeOK, NeverUp, CounterExpires, sharedVars, localVars
    <3>4. QED
      BY <3>2, <3>3 DEF Arrive
  <2>2. CASE \E c \in Calls : Authenticate(c)
    <3> PICK c \in Calls : Authenticate(c)
      BY <2>2
    <3>1. pc[c] = "auth" /\ who[c] \in Callers /\ KeyBucket(who[c]) \in Bucket
      BY BucketsOfCallers DEF Authenticate, SlotInv
    <3>2. \/ Leaves(c)
          \/ Move(c, "incr", KeyBucket(who[c])) /\ who' = who
      BY DealtWith DEF Authenticate
    <3>3. UNCHANGED <<sharedVars, localVars, up, session, passed, crashes, faults>>
      BY DEF Authenticate
    <3>4. TypeOK' /\ SlotInv' /\ WindowInv' /\ NeverUp' /\ CounterExpires'
      <4>1. /\ pc' \in [Calls -> Points] /\ at' \in [Calls -> Bucket \cup {NoBucket}]
            /\ who' \in [Calls -> Callers \cup {NoCaller}] /\ SlotInv'
        BY <3>1, <3>2, LeavingIsLocal, MoveIsLocal DEF TypeOK, Points
      <4>2. /\ pc'[c] # "expire"
            /\ \A d \in Calls \ {c} : pc'[d] = pc[d] /\ at'[d] = at[d]
        BY <3>1, <3>2, LeavingIsLocal, MoveIsLocal DEF Points
      <4>3. TypeOK'
        BY <3>3, <4>1 DEF TypeOK, Points, sharedVars, localVars
      <4>4. WindowInv'
        BY <3>3, <4>2 DEF WindowInv, sharedVars
      <4>5. NeverUp' /\ CounterExpires'
        BY <3>1, <3>3, <4>2 DEF NeverUp, CounterExpires, sharedVars
      <4>6. QED
        BY <4>1, <4>3, <4>4, <4>5
    <3>5. QED
      BY <3>3, <3>4
  <2>3. CASE \E c \in Calls : Incr(c)
    <3> PICK c \in Calls : Incr(c)
      BY <2>3
    <3> DEFINE b == at[c]
               n == Counted(count[b], b)
    <3>1. pc[c] = "incr" /\ up /\ who[c] \in Callers /\ b \in Bucket
      BY DEF Incr, SlotInv
    <3>2. n \in Nat /\ n > 0 /\ (n = 1 => count[b] = 0) /\ (n > 1 => count[b] > 0)
      BY <3>1, LimitIsPositive DEF TypeOK, Counted
    <3>3. /\ count' = [count EXCEPT ![b] = n] /\ ttl' = ttl
          /\ UNCHANGED <<localVars, up, session, crashes, faults>>
      BY DEF Incr, b, n
    <3>4. \/ n = 1 /\ Move(c, "expire", b) /\ who' = who /\ passed' = passed
          \/ n > 1 /\ Leaves(c) /\ Pass(b)
          \/ n > 1 /\ Move(c, "ttl", b) /\ who' = who /\ passed' = passed
      BY DealtWith DEF Incr, b, n
    <3>5. count'[b] = n /\ \A k \in Bucket \ {b} : count'[k] = count[k]
      BY <3>1, <3>3 DEF TypeOK
    <3> HIDE DEF b, n
    <3>6. passed' \in [Bucket -> Nat] /\ \A k \in Bucket : ttl[k] = NoExpiry => passed'[k] = 0
      BY <3>1, <3>3, <3>4, PassCounts DEF TypeOK, WindowInv
    <3>7. /\ pc' \in [Calls -> Points] /\ at' \in [Calls -> Bucket \cup {NoBucket}]
          /\ who' \in [Calls -> Callers \cup {NoCaller}] /\ SlotInv'
          /\ \A d \in Calls \ {c} : pc'[d] = pc[d] /\ at'[d] = at[d]
          /\ pc'[c] = "expire" => at'[c] = b /\ n = 1
          /\ n = 1 => pc'[c] = "expire"
      <4>1. CASE n = 1
        BY <3>1, <3>4, <4>1, MoveIsLocal DEF TypeOK, Points
      <4>2. CASE n > 1 /\ Leaves(c)
        BY <3>1, <4>2, LeavingIsLocal
      <4>3. CASE n > 1 /\ Move(c, "ttl", b) /\ who' = who
        BY <3>1, <4>3, MoveIsLocal DEF TypeOK, Points
      <4>4. QED
        BY <3>4, <4>1, <4>2, <4>3
    <3>8. TypeOK'
      <4>1. count' \in [Bucket -> Nat]
        BY <3>1, <3>2, <3>3 DEF TypeOK
      <4>2. QED
        BY <3>3, <3>6, <3>7, <4>1 DEF TypeOK, Points, localVars
    <3>9. WindowInv'
      <4>1. \A d \in Calls \ {c} : pc'[d] = "expire" => at[d] \in Bucket
        BY <3>7 DEF SlotInv
      <4>2. \A k \in Bucket : count[k] \in Nat
        BY DEF TypeOK
      <4>3. CASE n = 1
        BY <3>1, <3>2, <3>3, <3>5, <3>6, <3>7, <4>1, <4>2, <4>3 DEF WindowInv
      <4>4. CASE n > 1
        BY <3>1, <3>2, <3>3, <3>5, <3>6, <3>7, <4>1, <4>2, <4>4 DEF WindowInv
      <4>5. QED
        BY <3>2, <4>3, <4>4
    <3>10. NeverUp' /\ CounterExpires'
      <4>1. NeverUp'
        BY <3>1, <3>3 DEF NeverUp
      <4>2. \A k \in Bucket : count[k] \in Nat
        BY DEF TypeOK
      <4>3. QED
        BY <3>1, <3>2, <3>3, <3>5, <3>7, <4>1, <4>2 DEF CounterExpires
    <3>11. QED
      BY <3>3, <3>7, <3>8, <3>9, <3>10
  <2>4. CASE \E c \in Calls : Fallback(c)
    <3> PICK c \in Calls : Fallback(c)
      BY <2>4
    <3> DEFINE b == at[c]
               p == ProcOf[c]
    <3>1. pc[c] = "incr" /\ who[c] \in Callers /\ b \in Bucket /\ p \in Procs
      BY DEF Fallback, SlotInv
    <3>2. /\ ttl' = ttl /\ up' = up /\ session' = session /\ crashes' = crashes
          /\ Leaves(c)
          /\ Pass(b) \/ passed' = passed
      BY DealtWith DEF Fallback, AllowMemory, b
    <3>3. mem' \in [Procs -> [Bucket -> Nat]] /\ left' \in [Procs -> [Bucket -> 0..Window]]
      <4>1. Counted(mem[p][b], b) \in Nat /\ Window \in 0..Window
        BY <3>1, CountedGrows DEF TypeOK
      <4>2. /\ \/ mem' = [mem EXCEPT ![p][b] = 1]
               \/ mem' = [mem EXCEPT ![p][b] = Counted(mem[p][b], b)]
            /\ left' = [left EXCEPT ![p][b] = Window] \/ left' = left
        BY <3>1 DEF Fallback, AllowMemory, TypeOK
      <4> HIDE DEF b, p
      <4>3. ASSUME NEW x \in Nat PROVE [mem EXCEPT ![p][b] = x] \in [Procs -> [Bucket -> Nat]]
        BY <3>1 DEF TypeOK
      <4>4. [left EXCEPT ![p][b] = Window] \in [Procs -> [Bucket -> 0..Window]]
        BY <3>1, <4>1 DEF TypeOK
      <4>5. mem \in [Procs -> [Bucket -> Nat]] /\ left \in [Procs -> [Bucket -> 0..Window]]
        BY DEF TypeOK
      <4>6. mem' \in [Procs -> [Bucket -> Nat]]
        BY <4>1, <4>2, <4>3
      <4>7. QED
        BY <4>2, <4>4, <4>5, <4>6
    <3>4. \/ ~up /\ count' = count /\ faults' = faults
          \/ /\ count' = [count EXCEPT ![b] = Counted(count[b], b)]
             /\ faults' = faults + 1 /\ faults < MaxFaults
      BY <3>1 DEF Fallback, Fault, NoFault, TypeOK
    <3>5. Counted(count[b], b) \in Nat /\ Counted(count[b], b) > 0
      BY <3>1, CountedGrows DEF TypeOK
    <3> HIDE DEF b, p
    <3>6. passed' \in [Bucket -> Nat] /\ \A k \in Bucket : ttl[k] = NoExpiry => passed'[k] = 0
      BY <3>1, <3>2, PassCounts DEF TypeOK, WindowInv
    <3>7. TypeOK' /\ SlotInv'
      <4>1. count' \in [Bucket -> Nat] /\ faults' \in 0..MaxFaults
        BY <3>1, <3>4, <3>5 DEF TypeOK
      <4>2. QED
        BY <3>1, <3>2, <3>3, <3>6, <4>1, LeavingIsLocal DEF TypeOK, Points
    <3>a. /\ pc'[c] # "expire"
          /\ \A d \in Calls \ {c} : pc'[d] = pc[d] /\ at'[d] = at[d]
      BY <3>1, <3>2, LeavingIsLocal
    <3>8. WindowInv'
      <4>1. \A k \in Bucket : count'[k] >= count[k]
        <5>1. Counted(count[b], b) >= count[b]
          BY <3>1, CountedGrows DEF TypeOK
        <5>2. count \in [Bucket -> Nat]
          BY DEF TypeOK
        <5>3. ASSUME NEW k \in Bucket PROVE count'[k] >= count[k]
          <6>1. count[k] \in Nat /\ count'[k] \in {count[k], Counted(count[b], b)}
            BY <3>1, <3>4, <5>2
          <6>2. count'[k] = count[k] \/ k = b
            BY <3>1, <3>4, <5>2
          <6>3. QED
            BY <5>1, <6>1, <6>2
        <5>4. QED
          BY <5>3
      <4>2. \A d \in Calls : pc[d] = "expire" => at[d] \in Bucket
        BY DEF SlotInv
      <4>3. \A k \in Bucket : count[k] \in Nat /\ count'[k] \in Nat
        BY <3>7 DEF TypeOK
      <4> HIDE DEF SlotInv, TypeOK
      <4>4. QED
        BY <3>2, <3>6, <3>a, <4>1, <4>2, <4>3 DEF WindowInv
    <3>9. NeverUp' /\ CounterExpires'
      BY <3>1, <3>2, <3>4, <3>a DEF TypeOK, NeverUp, CounterExpires
    <3>10. (crashes <= faults)'
      BY <3>2, <3>4 DEF TypeOK
    <3>11. QED
      BY <3>7, <3>8, <3>9, <3>10
  <2>5. CASE \E c \in Calls : Expire(c)
    <3> PICK c \in Calls : Expire(c)
      BY <2>5
    <3> DEFINE b == at[c]
    <3>1. /\ pc[c] = "expire" /\ who[c] \in Callers /\ b \in Bucket
          /\ ttl[b] = NoExpiry /\ count[b] > 0
      BY DEF Expire, SlotInv, WindowInv
    <3>2. /\ count' = count /\ Leaves(c) /\ Pass(b)
          /\ UNCHANGED <<localVars, up, session, crashes>>
      BY DealtWith DEF Expire, b
    <3>3. \/ ttl' = [ttl EXCEPT ![b] = Window] /\ faults' = faults
          \/ ~up /\ ttl' = ttl /\ faults' = faults
          \/ ttl' = ttl /\ faults' = faults + 1 /\ faults < MaxFaults
      BY <3>1 DEF Expire, Fault, NoFault
    <3> HIDE DEF b
    <3>4. /\ passed' \in [Bucket -> Nat] /\ ttl' \in [Bucket -> NoExpiry..Window]
          /\ \A k \in Bucket : ttl'[k] = NoExpiry => passed'[k] = 0
      <4>1. ttl' \in [Bucket -> NoExpiry..Window]
        <5>1. Window \in NoExpiry..Window
          OBVIOUS
        <5>2. ttl \in [Bucket -> NoExpiry..Window]
          BY DEF TypeOK
        <5> HIDE DEF NoExpiry
        <5>3. QED
          BY <3>1, <3>3, <5>1, <5>2
      <4>2. \A k \in Bucket \ {b} : ttl'[k] = ttl[k]
        BY <3>1, <3>3 DEF TypeOK
      <4>3. passed \in [Bucket -> Nat]
        BY DEF TypeOK
      <4>4. QED
        BY <3>1, <3>2, <4>1, <4>2, <4>3, PassCounts DEF WindowInv
    <3>5. TypeOK' /\ SlotInv'
      <4>1. faults' \in 0..MaxFaults
        BY <3>3 DEF TypeOK
      <4>2. QED
        BY <3>1, <3>2, <3>4, <4>1, LeavingIsLocal DEF TypeOK, Points, localVars
    <3>a. /\ pc'[c] # "expire"
          /\ \A d \in Calls \ {c} : pc'[d] = pc[d] /\ at'[d] = at[d]
      BY <3>1, <3>2, LeavingIsLocal
    <3>6. at[c] = b
      BY DEF b
    <3>7. WindowInv'
      <4>1. /\ \A k \in Bucket \ {b} : ttl'[k] = ttl[k]
            /\ ttl'[b] # 0
        BY <3>1, <3>3 DEF TypeOK
      <4>2. \A d \in Calls \ {c} : pc'[d] = "expire" => at[d] \in Bucket \ {b}
        BY <3>1, <3>6, <3>a DEF SlotInv, WindowInv
      <4>3. QED
        BY <3>1, <3>2, <3>4, <3>a, <4>1, <4>2 DEF WindowInv
    <3>8. NeverUp' /\ CounterExpires'
      <4>1. up' = up /\ (faults' = 0 => faults = 0)
        BY <3>2, <3>3 DEF TypeOK
      <4>2. NeverUp'
        BY <3>a, <4>1, Zenon DEF NeverUp
      <4>3. CASE ttl' = [ttl EXCEPT ![b] = Window]
        <5>1. ttl'[b] # NoExpiry /\ \A k \in Bucket \ {b} : ttl'[k] = ttl[k]
          BY <3>1, <4>3 DEF TypeOK
        <5>2. QED
          BY <3>1, <3>2, <3>6, <3>a, <4>1, <4>2, <5>1 DEF CounterExpires
      <4>4. CASE faults' # 0
        BY <4>2, <4>4, Zenon DEF CounterExpires
      <4>5. CASE ~up /\ faults' = faults
        BY <3>1, <4>2, <4>5 DEF CounterExpires, NeverUp, TypeOK
      <4>6. QED
        BY <3>3, <4>2, <4>3, <4>4, <4>5 DEF TypeOK
    <3>9. (crashes <= faults)'
      BY <3>2, <3>3 DEF TypeOK
    <3>10. QED
      BY <3>5, <3>7, <3>8, <3>9
  <2>6. CASE \E c \in Calls : Ttl(c)
    <3> PICK c \in Calls : Ttl(c)
      BY <2>6
    <3>1. pc[c] = "ttl" /\ Leaves(c)
      BY DealtWith DEF Ttl
    <3>2. UNCHANGED <<sharedVars, localVars, up, session, passed, crashes, faults>>
      BY DEF Ttl
    <3>3. TypeOK' /\ SlotInv' /\ WindowInv'
      <4>1. TypeOK' /\ SlotInv'
        BY <3>1, <3>2, LeavingIsLocal DEF TypeOK, Points, sharedVars, localVars
      <4>2. QED
        BY <3>1, <3>2, <4>1, LeavingIsLocal DEF WindowInv, sharedVars
    <3>4. NeverUp' /\ CounterExpires'
      BY <3>1, <3>2 DEF Leaves, TypeOK, NeverUp, CounterExpires, sharedVars, localVars
    <3>5. QED
      BY <3>2, <3>3, <3>4
  <2>7. CASE \E u \in Callers : Login(u) \/ SessionEnds(u)
    <3>1. session' \subseteq Callers
      BY <2>7 DEF Login, SessionEnds, TypeOK
    <3>2. UNCHANGED <<callVars, sharedVars, localVars, up, passed, crashes, faults>>
      BY <2>7 DEF Login, SessionEnds
    <3>3. QED
      BY <3>1, <3>2 DEF TypeOK, SlotInv, WindowInv, NeverUp, CounterExpires, callVars, sharedVars, localVars
  <2>8. CASE Tick
    <3>1. TypeOK'
      BY <2>8 DEF Tick, TypeOK, callVars
    <3>2. WindowInv'
      BY <2>8 DEF Tick, TypeOK, SlotInv, WindowInv, callVars
    <3>3. SlotInv' /\ NeverUp' /\ CounterExpires'
      BY <2>8 DEF Tick, TypeOK, SlotInv, NeverUp, CounterExpires, callVars
    <3>4. QED
      BY <2>8, <3>1, <3>2, <3>3 DEF Tick
  <2>9. CASE Outage \/ Recovery
    <3>1. /\ UNCHANGED <<callVars, sharedVars, localVars, session, passed, crashes>>
          /\ up' \in BOOLEAN /\ faults' \in 0..MaxFaults /\ faults' >= faults /\ faults' > 0
      <4>1. faults' \in 0..MaxFaults /\ faults' >= faults /\ faults' > 0
        BY <2>9 DEF Outage, Recovery, Fault, TypeOK
      <4>2. QED
        BY <2>9, <4>1, Zenon DEF Outage, Recovery
    <3>2. QED
      BY <3>1 DEF TypeOK, SlotInv, WindowInv, NeverUp, CounterExpires, callVars, sharedVars, localVars
  <2>10. CASE \E p \in Procs : Crash(p)
    <3> PICK p \in Procs : Crash(p)
      BY <2>10
    <3>1. faults' = faults + 1 /\ faults < MaxFaults /\ crashes' = crashes + 1
      BY DEF Crash, Fault
    <3>2. TypeOK'
      BY <3>1 DEF Crash, TypeOK, sharedVars
    <3>3. SlotInv' /\ WindowInv'
      BY DEF Crash, TypeOK, SlotInv, WindowInv, sharedVars
    <3>4. NeverUp' /\ CounterExpires' /\ (crashes <= faults)'
      BY <3>1 DEF TypeOK, NeverUp, CounterExpires
    <3>5. QED
      BY <3>2, <3>3, <3>4
  <2>11. CASE UNCHANGED vars
    BY <2>11 DEF vars, TypeOK, SlotInv, WindowInv, NeverUp, CounterExpires, callVars, sharedVars, localVars
  <2>12. QED
    BY <2>1, <2>2, <2>3, <2>4, <2>5, <2>6, <2>7, <2>8, <2>9, <2>10, <2>11 DEF Next, CallStep
<1>3. QED
  BY <1>1, <1>2, PTL DEF Spec

\* The counters are typed, and one without an expiry is about to get it unless a
\* fault came between.
THEOREM CountersExpire == Spec => [](TypeOK /\ CounterExpires)
BY DoorKept, PTL DEF DoorInv

-----------------------------------------------------------------------------
(* What the fleet lets through. *)

Capped(n, limit) == IF n < limit THEN n ELSE limit

\* What a process can have let through on its own while a window with t to go runs:
\* a window of its own that ends earlier began before it, so there is at most one
\* more; one that does not end earlier may be the second.
OwnPart(n, l, t, limit) ==
    IF l = 0 THEN limit
    ELSE IF l < t THEN Capped(n, limit) ELSE limit + Capped(n, limit)

Parts(b) == [p \in Procs |-> OwnPart(mem[p][b], left[p][b], ttl[b], LimitOf(b))]

\* One cell for each request a process can have let through.
Cells(f, limit) == {x \in Procs \X (1..2 * limit) : x[2] <= f[x[1]]}

\* A restart may forget as many as the limit.
FleetAt(b) ==
    passed[b] <= Capped(count[b], LimitOf(b)) + Cardinality(Cells(Parts(b), LimitOf(b)))
                 + LimitOf(b) * crashes

FleetInv == \A b \in Bucket : FleetAt(b)

\* Cells are finitely many: twice the limit for every process.
LEMMA CellsAreFew ==
    ASSUME NEW limit \in Nat, NEW f
    PROVE  /\ IsFiniteSet(Cells(f, limit)) /\ Cardinality(Cells(f, limit)) \in Nat
           /\ Cardinality(Procs) \in Nat
           /\ Cardinality(Cells(f, limit)) <= Cardinality(Procs) * (2 * limit)
<1>1. IsFiniteSet(1..2 * limit) /\ Cardinality(1..2 * limit) = 2 * limit
  <2>1. 2 * limit \in Nat
    OBVIOUS
  <2>2. QED
    BY <2>1, FS_Interval
<1>2. /\ IsFiniteSet(Procs \X (1..2 * limit))
      /\ Cardinality(Procs \X (1..2 * limit)) = Cardinality(Procs) * (2 * limit)
  BY <1>1, FS_Product, DoorAssumption DEF DoorAssumption
<1>3. Cells(f, limit) \in SUBSET (Procs \X (1..2 * limit))
  BY DEF Cells
<1>4. QED
  BY <1>2, <1>3, FS_Subset, FS_CardinalityType, DoorAssumption DEF DoorAssumption

\* No part shrinks: no fewer cells.
LEMMA CellsGrow ==
    ASSUME NEW limit \in Nat, NEW f \in [Procs -> Nat], NEW g \in [Procs -> Nat],
           \A q \in Procs : f[q] <= g[q]
    PROVE  Cardinality(Cells(f, limit)) <= Cardinality(Cells(g, limit))
<1>1. Cells(f, limit) \in SUBSET Cells(g, limit)
  BY DEF Cells
<1>2. QED
  BY <1>1, CellsAreFew, FS_Subset

\* One part grows: one more cell.
LEMMA OneMoreCell ==
    ASSUME NEW limit \in Nat, NEW f \in [Procs -> Nat], NEW g \in [Procs -> Nat],
           NEW p \in Procs, f[p] < g[p], g[p] <= 2 * limit, \A q \in Procs : f[q] <= g[q]
    PROVE  Cardinality(Cells(f, limit)) + 1 <= Cardinality(Cells(g, limit))
<1> DEFINE x == <<p, g[p]>>
<1>1. x \in Cells(g, limit) /\ x \notin Cells(f, limit)
  BY DEF Cells
<1>2. Cells(f, limit) \cup {x} \in SUBSET Cells(g, limit)
  BY <1>1 DEF Cells
<1> HIDE DEF x
<1>3. Cardinality(Cells(f, limit) \cup {x}) = Cardinality(Cells(f, limit)) + 1
  BY <1>1, CellsAreFew, FS_AddElement
<1>4. Cardinality(Cells(f, limit) \cup {x}) <= Cardinality(Cells(g, limit))
  BY <1>2, CellsAreFew, FS_Subset
<1>5. QED
  BY <1>3, <1>4

\* One part shrinks to the limit: at most as many cells fewer.
LEMMA CellsLost ==
    ASSUME NEW limit \in Nat, NEW f \in [Procs -> Nat], NEW g \in [Procs -> Nat],
           NEW p \in Procs, g[p] = limit, \A q \in Procs \ {p} : f[q] <= g[q]
    PROVE  Cardinality(Cells(f, limit)) <= Cardinality(Cells(g, limit)) + limit
<1> DEFINE R == {p} \X ((limit + 1)..(2 * limit))
<1>1. IsFiniteSet({p}) /\ Cardinality({p}) = 1
  BY FS_Singleton
<1>2. /\ IsFiniteSet((limit + 1)..(2 * limit))
      /\ Cardinality((limit + 1)..(2 * limit)) = limit
  <2>1. limit + 1 \in Int /\ 2 * limit \in Int
    OBVIOUS
  <2>2. /\ IsFiniteSet((limit + 1)..(2 * limit))
        /\ Cardinality((limit + 1)..(2 * limit))
             = IF limit + 1 > 2 * limit THEN 0 ELSE 2 * limit - (limit + 1) + 1
    BY <2>1, FS_Interval
  <2>3. QED
    BY <2>2
<1>3. IsFiniteSet(R) /\ Cardinality(R) = limit
  <2>1. IsFiniteSet(R) /\ Cardinality(R) = 1 * limit
    BY <1>1, <1>2, FS_Product
  <2>2. QED
    BY <2>1
<1>4. Cells(f, limit) \in SUBSET (Cells(g, limit) \cup R)
  BY DEF Cells
<1> HIDE DEF R
<1>5. /\ IsFiniteSet(Cells(g, limit) \cup R)
      /\ Cardinality(Cells(g, limit) \cup R)
           = Cardinality(Cells(g, limit)) + Cardinality(R) - Cardinality(Cells(g, limit) \cap R)
  BY <1>3, CellsAreFew, FS_Union
<1>6. IsFiniteSet(Cells(g, limit) \cap R) /\ Cardinality(Cells(g, limit) \cap R) \in Nat
  <2>1. Cells(g, limit) \cap R \in SUBSET R
    OBVIOUS
  <2>2. QED
    BY <1>3, <2>1, FS_Subset, FS_CardinalityType
<1>7. Cardinality(Cells(f, limit)) <= Cardinality(Cells(g, limit) \cup R)
  BY <1>4, <1>5, FS_Subset
<1>8. QED
  BY <1>3, <1>5, <1>6, <1>7, CellsAreFew

\* A process's part is at most twice the limit.
LEMMA PartsAreBounded ==
    ASSUME TypeOK, NEW b \in Bucket
    PROVE  /\ Parts(b) \in [Procs -> Nat]
           /\ \A p \in Procs : Parts(b)[p] <= 2 * LimitOf(b)
BY LimitIsPositive DEF TypeOK, Parts, OwnPart, Capped

\* A bucket whose counters stay, or whose shared counter grows, keeps the bound.
LEMMA QuietBucket ==
    ASSUME TypeOK, TypeOK', NEW b \in Bucket, FleetAt(b),
           passed'[b] = passed[b], ttl'[b] = ttl[b], crashes' = crashes, count'[b] >= count[b],
           \A p \in Procs : mem'[p][b] = mem[p][b] /\ left'[p][b] = left[p][b]
    PROVE  FleetAt(b)'
<1>1. Parts(b)' = Parts(b)
  BY DEF Parts
<1>2. Capped(count'[b], LimitOf(b)) >= Capped(count[b], LimitOf(b))
  BY LimitIsPositive DEF Capped, TypeOK
<1>3. /\ Cardinality(Cells(Parts(b), LimitOf(b))) \in Nat
      /\ LimitOf(b) * crashes \in Nat
      /\ Capped(count[b], LimitOf(b)) \in Nat /\ Capped(count'[b], LimitOf(b)) \in Nat
  BY LimitIsPositive, CellsAreFew DEF TypeOK, Capped
<1>4. QED
  BY <1>1, <1>2, <1>3 DEF FleetAt, TypeOK

\* So does one that lets one more through on a process's account,
LEMMA OwnAccount ==
    ASSUME TypeOK, TypeOK', NEW b \in Bucket, NEW p \in Procs, FleetAt(b),
           passed'[b] <= passed[b] + 1, crashes' = crashes, count'[b] >= count[b],
           Parts(b)[p] < Parts(b)'[p], \A q \in Procs : Parts(b)[q] <= Parts(b)'[q]
    PROVE  FleetAt(b)'
<1> DEFINE limit == LimitOf(b)
           f == Parts(b)
           g == Parts(b)'
<1>1. /\ f \in [Procs -> Nat] /\ g \in [Procs -> Nat] /\ g[p] <= 2 * limit
      /\ limit \in Nat
  BY PartsAreBounded, LimitIsPositive DEF TypeOK, Parts, OwnPart, Capped
<1>2. Cardinality(Cells(f, limit)) + 1 <= Cardinality(Cells(g, limit))
  <2> HIDE DEF f, g, limit
  <2>1. f[p] < g[p] /\ \A q \in Procs : f[q] <= g[q]
    BY DEF f, g
  <2>2. QED
    BY <1>1, <2>1, OneMoreCell
<1>3. Capped(count'[b], limit) >= Capped(count[b], limit)
  BY LimitIsPositive DEF Capped, TypeOK
<1>4. /\ Cardinality(Cells(f, limit)) \in Nat /\ Cardinality(Cells(g, limit)) \in Nat
      /\ limit * crashes \in Nat
      /\ Capped(count[b], limit) \in Nat /\ Capped(count'[b], limit) \in Nat
  BY <1>1, CellsAreFew DEF TypeOK, Capped
<1>5. Cells(Parts(b), LimitOf(b))' = Cells(g, limit)
  BY DEF Cells
<1>6. QED
  BY <1>2, <1>3, <1>4, <1>5 DEF FleetAt, TypeOK

\* or on the account of the shared counter.
LEMMA SharedAccount ==
    ASSUME TypeOK, TypeOK', NEW b \in Bucket, FleetAt(b), passed'[b] = passed[b] + 1,
           count'[b] = count[b] + 1, count'[b] <= LimitOf(b), ttl'[b] = ttl[b],
           crashes' = crashes, mem' = mem, left' = left
    PROVE  FleetAt(b)'
<1>1. Parts(b)' = Parts(b)
  BY DEF Parts
<1>2. Capped(count'[b], LimitOf(b)) = Capped(count[b], LimitOf(b)) + 1
  BY LimitIsPositive DEF Capped, TypeOK
<1>3. /\ Cardinality(Cells(Parts(b), LimitOf(b))) \in Nat
      /\ LimitOf(b) * crashes \in Nat
      /\ Capped(count[b], LimitOf(b)) \in Nat
  BY LimitIsPositive, CellsAreFew DEF TypeOK, Capped
<1>4. QED
  BY <1>1, <1>2, <1>3 DEF FleetAt, TypeOK

\* What allowMemory does to the counters of the processes.
LEMMA MemoryCounts ==
    ASSUME TypeOK, NEW c \in Calls, NEW p \in Procs, NEW k \in Bucket,
           p = ProcOf[c], k = at[c], AllowMemory(c)
    PROVE  /\ \A q \in Procs, b \in Bucket :
                 q # p \/ b # k => mem'[q][b] = mem[q][b] /\ left'[q][b] = left[q][b]
           /\ \/ left[p][k] = 0 /\ mem'[p][k] = 1 /\ left'[p][k] = Window /\ Pass(k)
              \/ /\ left[p][k] > 0 /\ left' = left /\ mem'[p][k] = Counted(mem[p][k], k)
                 /\ passed' = passed \/ (Counted(mem[p][k], k) <= LimitOf(k) /\ Pass(k))
<1>1. mem \in [Procs -> [Bucket -> Nat]] /\ left \in [Procs -> [Bucket -> 0..Window]]
  BY DEF TypeOK
<1>2. CASE /\ left[p][k] = 0 /\ mem' = [mem EXCEPT ![p][k] = 1]
           /\ left' = [left EXCEPT ![p][k] = Window] /\ Pass(k)
  BY <1>1, <1>2
<1>3. CASE /\ left[p][k] > 0 /\ mem' = [mem EXCEPT ![p][k] = Counted(mem[p][k], k)]
           /\ left' = left
           /\ passed' = passed \/ (Counted(mem[p][k], k) <= LimitOf(k) /\ Pass(k))
  <2> DEFINE x == Counted(mem[p][k], k)
  <2>1. mem' = [mem EXCEPT ![p][k] = x]
    BY <1>3
  <2> HIDE DEF x
  <2>2. mem'[p][k] = x /\ \A q \in Procs, b \in Bucket : q # p \/ b # k => mem'[q][b] = mem[q][b]
    BY <1>1, <2>1
  <2>3. QED
    BY <1>3, <2>2 DEF x
<1>4. \/ /\ left[p][k] = 0 /\ mem' = [mem EXCEPT ![p][k] = 1]
         /\ left' = [left EXCEPT ![p][k] = Window] /\ Pass(k)
      \/ /\ left[p][k] > 0 /\ mem' = [mem EXCEPT ![p][k] = Counted(mem[p][k], k)]
         /\ left' = left
         /\ passed' = passed \/ (Counted(mem[p][k], k) <= LimitOf(k) /\ Pass(k))
  <2>1. [mem EXCEPT ![p][k] = Counted(@, k)] = [mem EXCEPT ![p][k] = Counted(mem[p][k], k)]
    BY <1>1
  <2>2. Counted(mem[p][k], k) > LimitOf(k) \/ Counted(mem[p][k], k) <= LimitOf(k)
    BY <1>1, CountedGrows, LimitIsPositive
  <2>3. QED
    BY <2>1, <2>2 DEF AllowMemory
<1>5. QED
  BY <1>2, <1>3, <1>4

\* FleetInv is inductive, given DoorInv.
LEMMA FleetKept == Spec => []FleetInv
<1> USE DoorAssumption DEF DoorAssumption
<1>1. Init => FleetInv
  <2> SUFFICES ASSUME Init, NEW b \in Bucket PROVE FleetAt(b)
    BY DEF FleetInv
  <2>1. /\ Cardinality(Cells(Parts(b), LimitOf(b))) \in Nat
        /\ passed[b] = 0 /\ count[b] = 0 /\ crashes = 0
    BY LimitIsPositive, CellsAreFew DEF Init
  <2>2. Capped(count[b], LimitOf(b)) = 0 /\ LimitOf(b) * crashes = 0
    BY <2>1, LimitIsPositive DEF Capped
  <2>3. QED
    BY <2>1, <2>2 DEF FleetAt
<1>2. FleetInv /\ DoorInv /\ DoorInv' /\ [Next]_vars => FleetInv'
  <2> SUFFICES ASSUME FleetInv, DoorInv, DoorInv', [Next]_vars, NEW b \in Bucket
               PROVE  FleetAt(b)'
    BY DEF FleetInv
  <2>0. /\ FleetAt(b) /\ TypeOK /\ TypeOK' /\ SlotInv /\ WindowInv /\ WindowInv'
    BY DEF FleetInv, DoorInv
  <2>a. /\ LimitOf(b) \in Nat /\ LimitOf(b) > 0 /\ LimitOf(b) * crashes \in Nat
        /\ LimitOf(b) * crashes' \in Nat
        /\ Cardinality(Cells(Parts(b), LimitOf(b))) \in Nat
        /\ Cardinality(Cells(Parts(b)', LimitOf(b))) \in Nat
        /\ Capped(count'[b], LimitOf(b)) \in Nat /\ Capped(count[b], LimitOf(b)) \in Nat
        /\ passed[b] \in Nat /\ passed'[b] \in Nat
    BY <2>0, LimitIsPositive, CellsAreFew DEF TypeOK, Capped
  <2>b. FleetAt(b)' <=> passed'[b] <= Capped(count'[b], LimitOf(b))
                           + Cardinality(Cells(Parts(b)', LimitOf(b))) + LimitOf(b) * crashes'
    BY DEF FleetAt, Cells
  <2>c. CASE ttl'[b] = NoExpiry
    <3>1. passed'[b] = 0
      BY <2>0, <2>c DEF WindowInv
    <3>2. QED
      BY <2>a, <2>b, <3>1
  <2> SUFFICES ASSUME ttl'[b] # NoExpiry PROVE FleetAt(b)'
    BY <2>c
  <2>1. CASE \E c \in Calls : Incr(c)
    <3> PICK c \in Calls : Incr(c)
      BY <2>1
    <3>1. /\ at[c] \in Bucket /\ ttl' = ttl /\ mem' = mem /\ left' = left /\ crashes' = crashes
          /\ count' = [count EXCEPT ![at[c]] = Counted(count[at[c]], at[c])]
          /\ \/ passed' = passed
             \/ Pass(at[c]) /\ Counted(count[at[c]], at[c]) <= LimitOf(at[c])
      BY <2>0 DEF Incr, SlotInv, localVars
    <3>2. CASE b # at[c] \/ passed' = passed
      <4>1. count'[b] >= count[b]
        BY <2>0, <3>1, CountedGrows DEF TypeOK
      <4>2. passed'[b] = passed[b]
        BY <2>0, <3>1, <3>2, PassCounts DEF TypeOK
      <4>3. QED
        BY <2>0, <3>1, <4>1, <4>2, QuietBucket
    <3>3. CASE b = at[c] /\ Pass(b) /\ Counted(count[b], b) <= LimitOf(b)
      <4>1. passed'[b] = passed[b] + 1
        BY <2>0, <3>1, <3>3, PassCounts DEF TypeOK
      <4>2. count'[b] = count[b] + 1 /\ count'[b] <= LimitOf(b)
        BY <2>0, <2>a, <3>1, <3>3 DEF TypeOK, Counted
      <4>3. QED
        BY <2>0, <3>1, <4>1, <4>2, SharedAccount
    <3>4. QED
      BY <3>1, <3>2, <3>3
  <2>2. CASE \E c \in Calls : Expire(c)
    <3> PICK c \in Calls : Expire(c)
      BY <2>2
    <3>1. /\ at[c] \in Bucket /\ count' = count /\ mem' = mem /\ left' = left /\ crashes' = crashes
          /\ Pass(at[c])
          /\ b # at[c] => ttl'[b] = ttl[b]
      BY <2>0 DEF Expire, SlotInv, TypeOK, localVars
    <3>2. CASE b # at[c]
      <4>1. passed'[b] = passed[b]
        BY <2>0, <3>1, <3>2, PassCounts DEF TypeOK
      <4>2. QED
        BY <2>0, <3>1, <3>2, <4>1, QuietBucket DEF TypeOK
    <3>3. CASE b = at[c]
      <4>1. ttl[b] = NoExpiry /\ count[b] > 0 /\ passed[b] = 0
        BY <2>0, <3>1, <3>3 DEF WindowInv, Expire
      <4>2. passed'[b] = 1
        <5>1. passed \in [Bucket -> Nat]
          BY <2>0 DEF TypeOK
        <5>2. QED
          BY <3>1, <3>3, <4>1, <5>1, PassCounts
      <4>3. Capped(count'[b], LimitOf(b)) >= 1
        BY <2>0, <2>a, <3>1, <4>1 DEF TypeOK, Capped
      <4>4. QED
        BY <2>a, <2>b, <4>2, <4>3
    <3>4. QED
      BY <3>2, <3>3
  <2>3. CASE \E c \in Calls : Fallback(c)
    <3> PICK c \in Calls : Fallback(c)
      BY <2>3
    <3> DEFINE p == ProcOf[c]
               k == at[c]
    <3>1. k \in Bucket /\ p \in Procs /\ ttl' = ttl /\ crashes' = crashes /\ AllowMemory(c)
      BY <2>0 DEF Fallback, SlotInv
    <3>2. count'[b] >= count[b]
      <4>1. count' = count \/ count' = [count EXCEPT ![k] = Counted(count[k], k)]
        BY DEF Fallback
      <4>2. count \in [Bucket -> Nat] /\ count[b] \in Nat
        BY <2>0 DEF TypeOK
      <4>3. Counted(count[k], k) >= count[k]
        BY <3>1, <4>2, CountedGrows
      <4> HIDE DEF k
      <4>4. QED
        BY <3>1, <4>1, <4>2, <4>3
    <3>3. CASE b # k
      <4>1. \A q \in Procs : mem'[q][b] = mem[q][b] /\ left'[q][b] = left[q][b]
        BY <2>0, <3>1, <3>3, MemoryCounts
      <4>2. passed'[b] = passed[b]
        BY <2>0, <3>1, <3>3, PassCounts DEF AllowMemory, TypeOK
      <4>3. QED
        BY <2>0, <3>1, <3>2, <4>1, <4>2, QuietBucket
    <3>4. CASE b = k
      <4>1. /\ mem \in [Procs -> [Bucket -> Nat]] /\ left \in [Procs -> [Bucket -> 0..Window]]
            /\ passed \in [Bucket -> Nat] /\ ttl[b] \in 0..Window
        BY <2>0, <3>1 DEF TypeOK, NoExpiry
      <4>2. /\ \A q \in Procs \ {p} : mem'[q][b] = mem[q][b] /\ left'[q][b] = left[q][b]
            /\ \/ left[p][b] = 0 /\ mem'[p][b] = 1 /\ left'[p][b] = Window /\ Pass(b)
               \/ /\ left[p][b] > 0 /\ mem'[p][b] = Counted(mem[p][b], b)
                  /\ left'[p][b] = left[p][b]
                  /\ \/ passed' = passed
                     \/ Counted(mem[p][b], b) <= LimitOf(b) /\ Pass(b)
        BY <2>0, <3>1, <3>4, MemoryCounts
      <4> HIDE DEF p, k
      <4>3. /\ Parts(b) = [q \in Procs |-> OwnPart(mem[q][b], left[q][b], ttl[b], LimitOf(b))]
            /\ Parts(b)' = [q \in Procs |-> OwnPart(mem'[q][b], left'[q][b], ttl[b], LimitOf(b))]
        BY <3>1 DEF Parts
      <4>4. \A q \in Procs \ {p} : Parts(b)[q] = Parts(b)'[q]
        BY <4>2, <4>3
      <4>5. \A q \in Procs : Parts(b)[q] \in Nat
        BY <2>0, PartsAreBounded
      <4>6. CASE left[p][b] = 0 /\ mem'[p][b] = 1 /\ left'[p][b] = Window /\ Pass(b)
        <5>1. Parts(b)[p] = LimitOf(b) /\ Parts(b)'[p] = LimitOf(b) + 1
          BY <2>a, <3>1, <4>1, <4>3, <4>6 DEF OwnPart, Capped
        <5>2. passed'[b] = passed[b] + 1
          BY <3>1, <4>1, <4>6, PassCounts
        <5>3. \A q \in Procs : Parts(b)[q] <= Parts(b)'[q]
          BY <2>a, <4>4, <4>5, <5>1
        <5>4. QED
          BY <2>0, <2>a, <3>1, <3>2, <5>1, <5>2, <5>3, OwnAccount
      <4>7. CASE left[p][b] > 0 /\ left'[p][b] = left[p][b] /\ mem'[p][b] = Counted(mem[p][b], b)
        <5>1. mem[p][b] \in Nat /\ left[p][b] \in Nat /\ left[p][b] # 0
          BY <3>1, <4>1, <4>7
        <5>2. CASE passed' = passed
          <6>1. Parts(b)[p] <= Parts(b)'[p]
            <7>1. Capped(mem[p][b], LimitOf(b)) <= Capped(Counted(mem[p][b], b), LimitOf(b))
              BY <2>a, <5>1 DEF Capped, Counted
            <7>2. Capped(mem[p][b], LimitOf(b)) \in Nat /\ Capped(Counted(mem[p][b], b), LimitOf(b)) \in Nat
              BY <2>a, <5>1 DEF Capped, Counted
            <7>3. QED
              BY <2>a, <3>1, <4>3, <4>7, <5>1, <7>1, <7>2 DEF OwnPart
          <6>2. \A q \in Procs : Parts(b)[q] <= Parts(b)'[q]
            BY <4>4, <4>5, <6>1
          <6>3. Parts(b) \in [Procs -> Nat] /\ Parts(b)' \in [Procs -> Nat]
            BY <2>0, PartsAreBounded, LimitIsPositive DEF Parts, OwnPart, Capped, TypeOK
          <6>4. Cardinality(Cells(Parts(b), LimitOf(b))) <= Cardinality(Cells(Parts(b)', LimitOf(b)))
            BY <2>a, <6>2, <6>3, CellsGrow
          <6>5. Capped(count'[b], LimitOf(b)) >= Capped(count[b], LimitOf(b))
            BY <2>0, <2>a, <3>2 DEF Capped, TypeOK
          <6>6. QED
            BY <2>0, <2>a, <2>b, <3>1, <5>2, <6>4, <6>5 DEF FleetAt
        <5>3. CASE Counted(mem[p][b], b) <= LimitOf(b) /\ Pass(b)
          <6>1. Counted(mem[p][b], b) = mem[p][b] + 1 /\ mem[p][b] < LimitOf(b)
            BY <2>a, <5>1, <5>3 DEF Counted
          <6>2. /\ Capped(mem[p][b], LimitOf(b)) = mem[p][b]
                /\ Capped(Counted(mem[p][b], b), LimitOf(b)) = mem[p][b] + 1
            BY <2>a, <5>1, <6>1 DEF Capped
          <6>3. Parts(b)'[p] = Parts(b)[p] + 1
            <7>1. /\ Parts(b)[p] = OwnPart(mem[p][b], left[p][b], ttl[b], LimitOf(b))
                  /\ Parts(b)'[p] = OwnPart(Counted(mem[p][b], b), left[p][b], ttl[b], LimitOf(b))
              BY <3>1, <4>3, <4>7
            <7>2. QED
              BY <2>a, <5>1, <6>2, <7>1 DEF OwnPart
          <6>4. \A q \in Procs : Parts(b)[q] <= Parts(b)'[q]
            BY <3>1, <4>4, <4>5, <6>3
          <6>5. passed'[b] = passed[b] + 1
            BY <3>1, <4>1, <5>3, PassCounts
          <6>6. QED
            BY <2>0, <2>a, <3>1, <3>2, <4>5, <6>3, <6>4, <6>5, OwnAccount
        <5>4. QED
          BY <4>2, <4>7, <5>1, <5>2, <5>3
      <4>8. QED
        BY <4>2, <4>6, <4>7
    <3>5. QED
      BY <3>3, <3>4
  <2>4. CASE Tick
    <3>1. /\ ttl[b] > 1 /\ ttl[b] \in Nat /\ ttl'[b] = ttl[b] - 1 /\ passed'[b] = passed[b]
          /\ count'[b] = count[b] /\ crashes' = crashes
      <4>1. ttl[b] \in NoExpiry..Window /\ ttl[b] # 0
        BY <2>0 DEF TypeOK, WindowInv
      <4>2. /\ ttl'[b] = IF ttl[b] = 1 THEN NoExpiry ELSE IF ttl[b] > 1 THEN ttl[b] - 1 ELSE ttl[b]
            /\ passed'[b] = IF ttl[b] = 1 THEN 0 ELSE passed[b]
            /\ count'[b] = IF ttl[b] = 1 THEN 0 ELSE count[b]
            /\ crashes' = crashes
        BY <2>4 DEF Tick
      <4>3. QED
        BY <4>1, <4>2 DEF NoExpiry
    <3>2. ASSUME NEW q \in Procs
          PROVE  /\ Parts(b)[q] \in Nat /\ Parts(b)'[q] \in Nat
                 /\ Parts(b)[q] <= Parts(b)'[q]
      <4>1. /\ mem[q][b] \in Nat /\ left[q][b] \in Nat
            /\ mem'[q][b] = IF left[q][b] <= 1 THEN 0 ELSE mem[q][b]
            /\ left'[q][b] = IF left[q][b] > 0 THEN left[q][b] - 1 ELSE 0
        BY <2>0, <2>4 DEF Tick, TypeOK
      <4>2. /\ Parts(b)[q] = OwnPart(mem[q][b], left[q][b], ttl[b], LimitOf(b))
            /\ Parts(b)'[q] = OwnPart(mem'[q][b], left'[q][b], ttl'[b], LimitOf(b))
        BY DEF Parts
      <4>3. QED
        BY <2>a, <3>1, <4>1, <4>2 DEF OwnPart, Capped
    <3>3. Parts(b) \in [Procs -> Nat] /\ Parts(b)' \in [Procs -> Nat]
      BY <3>2 DEF Parts
    <3>4. Cardinality(Cells(Parts(b), LimitOf(b))) <= Cardinality(Cells(Parts(b)', LimitOf(b)))
      BY <2>a, <3>2, <3>3, CellsGrow
    <3>5. QED
      BY <2>0, <2>a, <2>b, <3>1, <3>4 DEF FleetAt
  <2>5. CASE \E p \in Procs : Crash(p)
    <3> PICK p \in Procs : Crash(p)
      BY <2>5
    <3>1. /\ ttl' = ttl /\ count' = count /\ passed' = passed /\ crashes' = crashes + 1
          /\ left'[p][b] = 0
          /\ \A q \in Procs \ {p} : mem'[q][b] = mem[q][b] /\ left'[q][b] = left[q][b]
      BY <2>0 DEF Crash, TypeOK, sharedVars
    <3>2. /\ Parts(b)'[p] = LimitOf(b)
          /\ \A q \in Procs \ {p} : Parts(b)'[q] = Parts(b)[q]
      BY <3>1 DEF Parts, OwnPart
    <3>3. Parts(b) \in [Procs -> Nat] /\ Parts(b)' \in [Procs -> Nat]
      BY <2>0, PartsAreBounded, LimitIsPositive DEF Parts, OwnPart, Capped, TypeOK
    <3>4. \A q \in Procs \ {p} : Parts(b)[q] <= Parts(b)'[q]
      BY <3>2, <3>3
    <3>5. Cardinality(Cells(Parts(b), LimitOf(b)))
            <= Cardinality(Cells(Parts(b)', LimitOf(b))) + LimitOf(b)
      BY <2>a, <3>2, <3>3, <3>4, CellsLost
    <3>6. LimitOf(b) * (crashes + 1) = LimitOf(b) * crashes + LimitOf(b)
      BY <2>0, <2>a DEF TypeOK
    <3>7. QED
      BY <2>0, <2>a, <2>b, <3>1, <3>5, <3>6 DEF FleetAt
  <2>6. CASE UNCHANGED <<sharedVars, localVars, passed, crashes>>
    BY <2>0, <2>6, QuietBucket DEF TypeOK, sharedVars, localVars
  <2>7. CASE \/ \E c \in Calls, u \in Callers : Arrive(c, u)
             \/ \E c \in Calls : Authenticate(c) \/ Ttl(c)
             \/ \E u \in Callers : Login(u) \/ SessionEnds(u)
             \/ Outage \/ Recovery \/ UNCHANGED vars
    <3>1. UNCHANGED <<sharedVars, localVars, passed, crashes>>
      BY <2>7 DEF Arrive, Authenticate, Ttl, Login, SessionEnds, Outage, Recovery, vars
    <3>2. QED
      BY <2>6, <3>1
  <2>8. QED
    BY <2>1, <2>2, <2>3, <2>4, <2>5, <2>7 DEF Next, CallStep
<1>3. QED
  BY <1>1, <1>2, DoorKept, PTL DEF Spec

\* While a bucket's window runs, a fleet of any size lets through no more than the
\* limit, twice the limit for every process that counts on its own, and once more for
\* every restart.
THEOREM FleetIsLimited == Spec => []FleetLimit
<1>1. DoorInv /\ FleetInv => FleetLimit
  <2> SUFFICES ASSUME DoorInv, FleetInv, NEW b \in Bucket
               PROVE  passed[b] <= LimitOf(b) * (1 + 2 * Cardinality(Procs) + crashes)
    BY DEF FleetLimit
  <2> DEFINE limit == LimitOf(b)
             n == Cardinality(Procs)
             cells == Cardinality(Cells(Parts(b), LimitOf(b)))
  <2>1. limit \in Nat /\ n \in Nat /\ cells \in Nat /\ cells <= n * (2 * limit)
    BY LimitIsPositive, CellsAreFew
  <2>2. passed[b] \in Nat /\ crashes \in Nat /\ count[b] \in Nat
    BY DoorAssumption DEF DoorAssumption, DoorInv, TypeOK
  <2>3. Capped(count[b], limit) \in Nat /\ Capped(count[b], limit) <= limit
    BY <2>1, <2>2 DEF Capped
  <2>4. passed[b] <= Capped(count[b], limit) + cells + limit * crashes
    BY DEF FleetInv, FleetAt
  <2> HIDE DEF limit, n, cells
  <2>5. limit * (1 + 2 * n + crashes) = limit + n * (2 * limit) + limit * crashes
    BY <2>1, <2>2
  <2>6. n * (2 * limit) \in Nat /\ limit * crashes \in Nat
    BY <2>1, <2>2
  <2>7. passed[b] <= limit * (1 + 2 * n + crashes)
    BY <2>1, <2>2, <2>3, <2>4, <2>5, <2>6
  <2>8. QED
    BY <2>7 DEF limit, n
<1>2. QED
  BY <1>1, DoorKept, FleetKept, PTL
=============================================================================
