--------------------------- MODULE AdaptersProofs ---------------------------
(***************************************************************************)
(* Proofs about the adapters: references, and what an adapter reports of a *)
(* gateway's answers, for any products, any calls and any number of lost   *)
(* or damaged messages.                                                    *)
(***************************************************************************)
EXTENDS Adapters, SequenceTheorems, TLAPS

\* A reference names the gateway and the product it was built from, whatever dashes
\* or gateway names the product contains.
THEOREM ParseInvertsBuild ==
    ASSUME NEW p \in Products, NEW g \in Gateway
    PROVE  LET ref == ParseReference(BuildReference(p, g))
           IN  ref.ok /\ ref.gateway = g /\ ref.product = p
<1> DEFINE Word == STRING \cup Gateway \cup {"optd", "ulid"}
           pre == <<"optd">> \o p
           ref == pre \o <<g, "ulid">>
           n == Len(ref)
<1>1. p \in Seq(STRING) /\ p # <<>> /\ p # NoProduct
  BY ProductAssumption, Zenon
<1>2. p \in Seq(Word) /\ g \in Word /\ "optd" \in Word /\ "ulid" \in Word
  BY <1>1
<1> HIDE DEF Word
<1>3. Len(p) \in Nat /\ Len(p) >= 1
  BY <1>1
<1>4. /\ pre \in Seq(Word) /\ Len(pre) = Len(p) + 1 /\ pre[1] = "optd"
      /\ \A i \in 1..Len(p) : pre[i + 1] = p[i]
  BY <1>2, <1>3
<1> HIDE DEF pre
<1>5. <<g, "ulid">> \in Seq(Word) /\ Len(<<g, "ulid">>) = 2
  BY <1>2
<1>6. /\ ref \in Seq(Word) /\ n = Len(p) + 3
      /\ \A i \in 1..Len(pre) : ref[i] = pre[i]
      /\ ref[n - 1] = g /\ ref[n] = "ulid"
  BY <1>3, <1>4, <1>5
<1> HIDE DEF ref
<1>7. ref[1] = "optd" /\ \A i \in 1..Len(p) : ref[i + 1] = p[i]
  BY <1>3, <1>4, <1>6
<1>8. SubSeq(ref, 2, n - 2) = p
  BY <1>2, <1>3, <1>6, <1>7
<1>9. ~(n < 4 \/ ref[1] # "optd" \/ ref[n - 1] \notin Gateway \/ SubSeq(ref, 2, n - 2) = NoProduct)
  <2>1. ~(n < 4)
    BY <1>3, <1>6
  <2>2. QED
    BY <1>1, <1>6, <1>7, <1>8, <2>1, Zenon
<1>10. ParseReference(ref) = [ok |-> TRUE, product |-> p, gateway |-> g, ulid |-> "ulid"]
  BY <1>6, <1>8, <1>9 DEF ParseReference
<1>11. BuildReference(p, g) = ref
  BY <1>2, <1>5 DEF BuildReference, ref, pre
<1>12. QED
  BY <1>10, <1>11

\* Status and refund calls for the charge's reference reach its gateway.
THEOREM AllRoutedHome == Spec => []RoutedHome
<1>1. Init => product \in Products /\ home \in Gateway
  BY DEF Init
<1>2. product \in Products /\ home \in Gateway /\ [Next]_vars
        => (product \in Products /\ home \in Gateway)'
  BY DEF Next, vars, setupVars, Send, CreateRecipient, Handle, Receive, Lose, Garble,
         HandleLate, Settle
<1>3. product \in Products /\ home \in Gateway => RoutedHome
  BY ParseInvertsBuild DEF RoutedHome, ChargeRef
<1>4. QED
  BY <1>1, <1>2, <1>3, PTL DEF Spec

-----------------------------------------------------------------------------
(* What the adapters make of replies. *)

\* An answer to the request itself reads as what the gateway did, but for Hubtel's
\* pending code, which refuses a payout, and Paystack's transfer, whose body nobody reads.
LEMMA YesReads ==
    ASSUME NEW g \in Gateway, NEW r \in Yes(g)
    PROVE  /\ Read(g, "initiate", r) # "declined"
           /\ g # "moolre" => Read(g, "refund", r) = "ok"
           /\ Read(g, "payout", r) = "ok" \/ g = "hubtel"
<1> USE DEF Read, Troubled, Body, Reply
<1>1. CASE g = "hubtel"
  BY <1>1 DEF Yes, HubtelInitiate, HubtelRefund, HubtelPayout
<1>2. CASE g = "paystack"
  BY <1>2 DEF Yes, PaystackInitiate, PaystackRefund, PaystackPayout
<1>3. CASE g = "moolre"
  BY <1>3 DEF Yes, MoolreInitiate, MoolrePayout
<1>4. QED
  BY <1>1, <1>2, <1>3 DEF Gateway

\* A gateway's no is never read as a success, and as a decline wherever the adapter can tell.
LEMMA NotOkReads ==
    ASSUME NEW g \in Gateway, NEW r \in NotOk(g)
    PROVE  /\ g # "moolre" => Read(g, "refund", r) = "declined"
           /\ Read(g, "payout", r) = "declined" \/ g = "paystack"
           /\ \A o \in {"status", "callback"} :
                 /\ Read(g, o, r) # "succeeded"
                 /\ g = "hubtel" => Read(g, o, r) # "failed"
<1> USE DEF Read, Troubled, ReadTrouble, Trouble, Body, Reply
<1>1. CASE g = "hubtel"
  BY <1>1 DEF NotOk, HubtelRefund, HubtelPayout, HubtelVerify
<1>2. CASE g = "paystack"
  BY <1>2 DEF NotOk, PaystackRefund, PaystackPayout, PaystackVerify
<1>3. CASE g = "moolre"
  BY <1>3 DEF NotOk, MoolrePayout, MoolreVerify
<1>4. QED
  BY <1>1, <1>2, <1>3 DEF Gateway

\* A report reads as the record, but for a charge Paystack or Moolre do not know.
LEMMA ReportReads ==
    ASSUME NEW g \in Gateway, NEW rec \in {"unknown"} \cup Verdict, NEW r \in Report(g, rec),
           NEW o \in {"status", "callback"}
    PROVE  /\ Read(g, o, r) = "succeeded" => rec = "succeeded"
           /\ Read(g, o, r) = "failed" => rec = "failed" \/ (g # "hubtel" /\ rec = "unknown")
<1> USE DEF Read, Report, Verdict, Troubled, ReadTrouble, Trouble, Body, Reply
<1>1. CASE g = "hubtel"
  BY <1>1 DEF HubtelReport, HubtelVerify
<1>2. CASE g = "paystack"
  BY <1>2 DEF PaystackReport, PaystackVerify, NotOk
<1>3. CASE g = "moolre"
  BY <1>3 DEF MoolreReport, MoolreVerify, NotOk
<1>4. QED
  BY <1>1, <1>2, <1>3 DEF Gateway

\* A proxy's answer, or none, is never a refusal to collect nor a verdict.
LEMMA TroubleReads ==
    ASSUME NEW g \in Gateway, NEW r \in {Trouble("5xx"), Unreadable, NoReply}
    PROVE  /\ Read(g, "initiate", r) # "declined"
           /\ \A o \in {"status", "callback"} : Read(g, o, r) \notin {"succeeded", "failed"}
<1> USE DEF Read, Troubled, ReadTrouble, Trouble, Unreadable, NoReply, Reply
<1>1. CASE g = "hubtel"
  BY <1>1 DEF HubtelInitiate, HubtelVerify
<1>2. CASE g = "paystack"
  BY <1>2 DEF PaystackInitiate, PaystackVerify
<1>3. CASE g = "moolre"
  BY <1>3 DEF MoolreInitiate, MoolreVerify
<1>4. QED
  BY <1>1, <1>2, <1>3 DEF Gateway

\* The kinds of replies there are.
Https == {"none", "2xx", "4xx", "404", "5xx"}

\* Every adapter returns one of its results.
LEMMA ReadIsResult ==
    ASSUME NEW g \in Gateway, NEW o \in Op, g # "moolre" \/ o # "refund",
           NEW r, r.http \in Https
    PROVE  Read(g, o, r) \in Results \ {"none", "malformed", "notConfigured", "notSupported"}
<1> USE DEF Read, Results, Op, Https, Troubled, ReadTrouble
<1>1. CASE g = "hubtel"
  BY <1>1 DEF HubtelInitiate, HubtelVerify, HubtelRefund, HubtelPayout
<1>2. CASE g = "paystack"
  BY <1>2 DEF PaystackInitiate, PaystackVerify, PaystackRefund, PaystackPayout
<1>3. CASE g = "moolre"
  BY <1>3 DEF MoolreInitiate, MoolreVerify, MoolrePayout
<1>4. QED
  BY <1>1, <1>2, <1>3 DEF Gateway

\* Every reply a gateway sends has one of the status classes the adapters tell apart.
LEMMA RepliesAreKnown ==
    ASSUME NEW g \in Gateway
    PROVE  /\ \A r \in Yes(g) \cup NotOk(g) \cup {Trouble("5xx"), Unreadable, NoReply} :
                r.http \in Https
           /\ \A rec \in {"unknown"} \cup Verdict : \A r \in Report(g, rec) : r.http \in Https
<1> USE DEF Yes, NotOk, Trouble, Unreadable, NoReply, Body, Reply, Https
<1>1. CASE g = "hubtel"
  BY <1>1 DEF Report, Verdict, HubtelReport
<1>2. CASE g = "paystack"
  BY <1>2 DEF Report, Verdict, PaystackReport
<1>3. CASE g = "moolre"
  BY <1>3 DEF Report, Verdict, MoolreReport
<1>4. QED
  BY <1>1, <1>2, <1>3 DEF Gateway

-----------------------------------------------------------------------------
(* The calls. *)

\* How far a call is, and what it can have done by then.
CallInv(c) ==
    /\ pc[c] = "new" => op[c] = "none" /\ dest[c] = "none" /\ result[c] = "none"
    /\ pc[c] # "new" => op[c] \in Op
    /\ pc[c] \in {"recipient", "request", "late", "reply"} =>
          dest[c] \in Gateway /\ ~(op[c] = "refund" /\ dest[c] = "moolre")
    /\ pc[c] \in {"recipient", "request", "reply"} => result[c] = "none"
    /\ pc[c] \in {"new", "recipient", "request", "late"} => c \notin refunded /\ c \notin paid
    /\ pc[c] = "recipient" => op[c] = "payout"
    /\ pc[c] = "late" => glitches > 0 /\ result[c] = "transport"
    /\ dest[c] = "none" => result[c] \in {"none", "malformed"}
    /\ op[c] = "initiate" => c = Charge /\ dest[c] = home
    /\ c = Charge => op[c] \in {"none", "initiate"}
    /\ op[c] = "refund" /\ dest[c] = "moolre" =>
          pc[c] = "done" /\ result[c] \in {"notConfigured", "notSupported"}

\* What the adapter has returned, or will make of the reply on its way to it.
Outcome(c) == IF pc[c] = "reply" THEN Read(dest[c], op[c], reply[c]) ELSE result[c]

Final == {"succeeded", "failed"}

\* What that says is true of the gateway.
OutcomeInv(c) ==
    /\ op[c] = "initiate" /\ Outcome(c) = "declined" => record[home] = "unknown"
    /\ op[c] \in {"status", "callback"} =>
          /\ Outcome(c) = "succeeded" => record[dest[c]] = "succeeded"
          /\ Outcome(c) = "failed" =>
                \/ record[dest[c]] = "failed"
                \/ dest[c] # "hubtel" /\ (seen[c] = "unknown" \/ glitches > 0)
    /\ op[c] = "refund" /\ glitches = 0 =>
          /\ Outcome(c) = "ok" => c \in refunded
          /\ Outcome(c) \notin {"none", "malformed", "ok"} => c \notin refunded
    /\ op[c] = "payout" /\ glitches = 0 =>
          /\ Outcome(c) = "ok" => c \in paid \/ dest[c] = "paystack"
          /\ Outcome(c) = "declined" => c \notin paid \/ dest[c] = "hubtel"

\* Only the home gateway ever hears of the charge, and only from Initiate.
RecordInv ==
    /\ \A g \in Gateway \ {home} : record[g] = "unknown"
    /\ pc[Charge] \in {"new", "recipient", "request", "late"} => record[home] = "unknown"

AdaptersInv ==
    TypeOK /\ RecordInv /\ reply = [c \in Calls |-> reply[c]] /\ \A c \in Calls : CallInv(c) /\ OutcomeInv(c)

\* A step of another call.
Same(d) ==
    /\ pc'[d] = pc[d] /\ op'[d] = op[d] /\ dest'[d] = dest[d] /\ reply'[d] = reply[d]
    /\ result'[d] = result[d] /\ seen'[d] = seen[d]
    /\ d \in refunded' <=> d \in refunded
    /\ d \in paid' <=> d \in paid

\* A call is not disturbed by the others: a final record stays, and nobody but
\* the charge's own call makes its gateway hear of it.
LEMMA OthersUndisturbed ==
    ASSUME NEW d \in Calls, CallInv(d), OutcomeInv(d), Same(d), home' = home,
           glitches \in Nat, glitches' \in {glitches, glitches + 1},
           \A g \in Gateway : record[g] \in Final => record'[g] = record[g],
           d = Charge /\ record[home] = "unknown" => record'[home] = "unknown",
           dest[d] \in Gateway \cup {"none"}
    PROVE  CallInv(d)' /\ OutcomeInv(d)'
<1>1. Outcome(d)' = Outcome(d)
  BY DEF Outcome, Same
<1>2. CallInv(d)'
  BY DEF CallInv, Same
<1>3. OutcomeInv(d)'
  <2>1. glitches' = 0 => glitches = 0
    OBVIOUS
  <2>2. glitches > 0 => glitches' > 0
    OBVIOUS
  <2>3. QED
    BY <1>1, <2>1, <2>2 DEF CallInv, OutcomeInv, Outcome, Same, Final
<1>4. QED
  BY <1>2, <1>3

\* A parsed reference names a gateway.
LEMMA ParsedGateway ==
    ASSUME NEW ref, ParseReference(ref).ok PROVE ParseReference(ref).gateway \in Gateway
BY DEF ParseReference

\* A call sends its request to a gateway, or returns without asking one.
LEMMA SendSteps ==
    ASSUME TypeOK, NEW c \in Calls, NEW o \in Op, NEW ref, Send(c, o, ref)
    PROVE  /\ pc[c] = "new" /\ op' = [op EXCEPT ![c] = o]
           /\ UNCHANGED <<setupVars, gatewayVars, reply, seen, glitches>>
           /\ \/ /\ o \in {"status", "refund"} /\ dest' = dest
                 /\ pc' = [pc EXCEPT ![c] = "done"]
                 /\ result' = [result EXCEPT ![c] = "malformed"]
              \/ \E g \in Gateway :
                    /\ o = "initiate" => g = home
                    /\ dest' = [dest EXCEPT ![c] = g]
                    /\ \/ \E what \in {"notConfigured", "notSupported"} :
                             /\ pc' = [pc EXCEPT ![c] = "done"]
                             /\ result' = [result EXCEPT ![c] = what]
                       \/ /\ ~(o = "refund" /\ g = "moolre") /\ result' = result
                          /\ \/ pc' = [pc EXCEPT ![c] = "request"]
                             \/ o = "payout" /\ pc' = [pc EXCEPT ![c] = "recipient"]
<1>1. pc[c] = "new" /\ op' = [op EXCEPT ![c] = o]
      /\ UNCHANGED <<setupVars, gatewayVars, reply, seen, glitches>>
  BY DEF Send
<1>2. CASE /\ o \in {"status", "refund"} /\ ~ParseReference(ref).ok
           /\ Return(c, "malformed") /\ UNCHANGED dest
  BY <1>1, <1>2 DEF Return
<1>3. ASSUME o \in {"status", "refund"} => ParseReference(ref).ok,
             NEW g \in Destination(o, ref), dest' = [dest EXCEPT ![c] = g],
             \/ Shortcut(o, g) # "none" /\ Return(c, Shortcut(o, g))
             \/ /\ Shortcut(o, g) = "none"
                /\ pc' = [pc EXCEPT ![c] = IF o = "payout" /\ g = "paystack"
                                             THEN "recipient" ELSE "request"]
                /\ UNCHANGED result
      PROVE  /\ g \in Gateway /\ (o = "initiate" => g = home)
             /\ \/ \E what \in {"notConfigured", "notSupported"} :
                      /\ pc' = [pc EXCEPT ![c] = "done"]
                      /\ result' = [result EXCEPT ![c] = what]
                \/ /\ ~(o = "refund" /\ g = "moolre") /\ result' = result
                   /\ \/ pc' = [pc EXCEPT ![c] = "request"]
                      \/ o = "payout" /\ pc' = [pc EXCEPT ![c] = "recipient"]
  <2>1. g \in Gateway /\ (o = "initiate" => g = home)
    BY <1>3, ParsedGateway DEF Destination, Op, Gateway, TypeOK
  <2>2. /\ Shortcut(o, g) # "none" => Shortcut(o, g) \in {"notConfigured", "notSupported"}
        /\ o = "refund" /\ g = "moolre" => Shortcut(o, g) # "none"
    BY DEF Shortcut
  <2>3. QED
    BY <1>3, <2>1, <2>2 DEF Return
<1>4. QED
  BY <1>1, <1>2, <1>3 DEF Send

\* When one call takes a step, it is enough to look at that call.
LEMMA OneCallSteps ==
    ASSUME AdaptersInv, NEW c \in Calls, TypeOK', reply' = [d \in Calls |-> reply'[d]], home' = home,
           glitches' \in {glitches, glitches + 1},
           \A d \in Calls \ {c} : Same(d),
           \A g \in Gateway : record[g] \in Final => record'[g] = record[g],
           c # Charge => record' = record,
           CallInv(c)', OutcomeInv(c)', RecordInv'
    PROVE  AdaptersInv'
<1>1. ASSUME NEW d \in Calls \ {c} PROVE CallInv(d)' /\ OutcomeInv(d)'
  <2>1. glitches \in Nat /\ dest[d] \in Gateway \cup {"none"}
    BY CallAssumption DEF AdaptersInv, TypeOK
  <2>2. CallInv(d) /\ OutcomeInv(d)
    BY DEF AdaptersInv
  <2>3. d = Charge /\ record[home] = "unknown" => record'[home] = "unknown"
    OBVIOUS
  <2>4. QED
    BY <2>1, <2>2, <2>3, OthersUndisturbed
<1>2. QED
  BY <1>1 DEF AdaptersInv

\* Starting a call, a charge or any later operation, keeps AdaptersInv.
LEMMA SendKeeps ==
    ASSUME AdaptersInv, NEW c \in Calls, NEW o \in Op, o = "initiate" <=> c = Charge,
           NEW ref, Send(c, o, ref)
    PROVE  AdaptersInv'
<1>1. TypeOK /\ CallInv(c) /\ RecordInv /\ reply = [d \in Calls |-> reply[d]]
  BY DEF AdaptersInv
<1>2. /\ pc[c] = "new" /\ op' = [op EXCEPT ![c] = o]
      /\ UNCHANGED <<setupVars, gatewayVars, reply, seen, glitches>>
  BY <1>1, SendSteps
<1>3. /\ op'[c] = o /\ c \notin refunded /\ c \notin paid /\ result[c] = "none"
      /\ dest[c] = "none"
  BY <1>1, <1>2 DEF TypeOK, CallInv
<1>4. CASE /\ o \in {"status", "refund"} /\ dest' = dest
           /\ pc' = [pc EXCEPT ![c] = "done"]
           /\ result' = [result EXCEPT ![c] = "malformed"]
  <2>1. TypeOK'
    BY <1>1, <1>2, <1>4 DEF TypeOK, PC, Op, Results, setupVars, gatewayVars
  <2>2. pc'[c] = "done" /\ result'[c] = "malformed" /\ dest'[c] = "none"
    BY <1>1, <1>3, <1>4 DEF TypeOK
  <2>3. CallInv(c)' /\ OutcomeInv(c)'
    BY <1>3, <1>4, <2>2 DEF CallInv, OutcomeInv, Outcome
  <2>4. \A d \in Calls \ {c} : Same(d)
    BY <1>1, <1>2, <1>4 DEF Same, TypeOK, gatewayVars
  <2>5. RecordInv'
    BY <1>1, <1>2, <1>4 DEF RecordInv, TypeOK, Calls, setupVars, gatewayVars
  <2>6. QED
    BY <1>1, <1>2, <2>1, <2>3, <2>4, <2>5, OneCallSteps DEF setupVars, gatewayVars
<1>5. ASSUME NEW g \in Gateway, o = "initiate" => g = home, dest' = [dest EXCEPT ![c] = g],
             \/ \E what \in {"notConfigured", "notSupported"} :
                   /\ pc' = [pc EXCEPT ![c] = "done"]
                   /\ result' = [result EXCEPT ![c] = what]
             \/ /\ ~(o = "refund" /\ g = "moolre") /\ result' = result
                /\ \/ pc' = [pc EXCEPT ![c] = "request"]
                   \/ o = "payout" /\ pc' = [pc EXCEPT ![c] = "recipient"]
      PROVE  AdaptersInv'
  <2>1. TypeOK'
    BY <1>1, <1>2, <1>5 DEF TypeOK, PC, Op, Results, setupVars, gatewayVars
  <2>2. /\ dest'[c] = g
        /\ \/ pc'[c] = "done" /\ result'[c] \in {"notConfigured", "notSupported"}
           \/ /\ ~(o = "refund" /\ g = "moolre") /\ result'[c] = "none"
              /\ pc'[c] = "request" \/ (o = "payout" /\ pc'[c] = "recipient")
    BY <1>1, <1>3, <1>5 DEF TypeOK
  <2>3. g # "none"
    BY DEF Gateway
  <2>4. CallInv(c)' /\ OutcomeInv(c)'
    BY <1>2, <1>3, <1>5, <2>2, <2>3 DEF CallInv, OutcomeInv, Outcome, Op, setupVars, gatewayVars
  <2>5. \A d \in Calls \ {c} : Same(d)
    BY <1>1, <1>2, <1>5 DEF Same, TypeOK, gatewayVars
  <2>6. RecordInv'
    BY <1>1, <1>2, <1>5 DEF RecordInv, TypeOK, Calls, setupVars, gatewayVars
  <2>7. QED
    BY <1>1, <1>2, <2>1, <2>4, <2>5, <2>6, OneCallSteps DEF setupVars, gatewayVars
<1>6. QED
  BY <1>1, <1>4, <1>5, SendSteps

\* So does Paystack's first request of a payout, which creates the recipient.
LEMMA RecipientKeeps ==
    ASSUME AdaptersInv, NEW c \in Calls, CreateRecipient(c) PROVE AdaptersInv'
<1>1. /\ TypeOK /\ CallInv(c) /\ RecordInv /\ reply = [d \in Calls |-> reply[d]]
      /\ pc[c] = "recipient" /\ UNCHANGED <<setupVars, gatewayVars, op, dest, reply, seen>>
  BY DEF AdaptersInv, CreateRecipient
<1>2. \/ pc' = [pc EXCEPT ![c] = "request"] /\ result' = result /\ glitches' = glitches
      \/ /\ glitches' = glitches + 1 /\ glitches < MaxGlitches
         /\ pc' = [pc EXCEPT ![c] = "done"]
         /\ \E what \in Results \ {"none", "malformed"} : result' = [result EXCEPT ![c] = what]
  BY DEF CreateRecipient, Glitch, Return, PaystackCreateRecipient, Troubled, ReadTrouble,
         Trouble, NoReply, Reply, Results
<1>3. op[c] = "payout" /\ dest[c] \in Gateway /\ c # Charge /\ glitches \in Nat
  BY <1>1, CallAssumption DEF CallInv, TypeOK
<1>4. TypeOK'
  <2>1. glitches' \in 0..MaxGlitches
    BY <1>1, <1>2, CallAssumption DEF TypeOK
  <2>2. pc' \in [Calls -> PC] /\ result' \in [Calls -> Results]
    BY <1>1, <1>2 DEF TypeOK, PC
  <2>3. QED
    BY <1>1, <2>1, <2>2 DEF TypeOK, setupVars, gatewayVars
<1>5. \/ pc'[c] = "request" /\ result'[c] = result[c]
      \/ pc'[c] = "done" /\ glitches' > 0
  BY <1>1, <1>2, <1>3 DEF TypeOK
<1>6. CallInv(c)' /\ OutcomeInv(c)'
  BY <1>1, <1>3, <1>5, CallAssumption DEF CallInv, OutcomeInv, Outcome, gatewayVars, setupVars, Gateway
<1>7. \A d \in Calls \ {c} : Same(d)
  BY <1>1, <1>2 DEF Same, TypeOK, gatewayVars
<1>8. RecordInv'
  BY <1>1, <1>2, <1>3 DEF RecordInv, TypeOK, Calls, setupVars, gatewayVars
<1>9. QED
  BY <1>1, <1>2, <1>4, <1>6, <1>7, <1>8, OneCallSteps DEF setupVars, gatewayVars

\* So does reading a reply.
LEMMA ReceiveKeeps ==
    ASSUME AdaptersInv, NEW c \in Calls, Receive(c) PROVE AdaptersInv'
<1>1. /\ TypeOK /\ CallInv(c) /\ OutcomeInv(c) /\ RecordInv /\ reply = [d \in Calls |-> reply[d]]
      /\ pc[c] = "reply" /\ UNCHANGED <<setupVars, gatewayVars, op, dest, seen, glitches>>
      /\ pc' = [pc EXCEPT ![c] = "done"]
      /\ result' = [result EXCEPT ![c] = Read(dest[c], op[c], reply[c])]
      /\ reply' = [reply EXCEPT ![c] = NoReply]
  BY DEF AdaptersInv, Receive, Return
<1>2. /\ op[c] \in Op /\ dest[c] \in Gateway /\ ~(op[c] = "refund" /\ dest[c] = "moolre")
      /\ reply[c].http \in Https
  BY <1>1 DEF CallInv, TypeOK, Https
<1>3. Read(dest[c], op[c], reply[c]) \in Results \ {"none", "malformed", "notConfigured", "notSupported"}
  BY <1>2, ReadIsResult
<1>4. NoReply.http \in Https /\ reply' = [d \in Calls |-> reply'[d]]
      /\ \A d \in Calls : reply'[d] = IF d = c THEN NoReply ELSE reply[d]
  BY <1>1 DEF NoReply, Trouble, Reply, Https
<1>5. TypeOK'
  BY <1>1, <1>3, <1>4 DEF TypeOK, PC, Https, setupVars, gatewayVars
<1>6. pc'[c] = "done" /\ result'[c] = Read(dest[c], op[c], reply[c]) /\ Outcome(c)' = Outcome(c)
  BY <1>1 DEF TypeOK, Outcome
<1>7. CallInv(c)' /\ OutcomeInv(c)'
  BY <1>1, <1>2, <1>6 DEF CallInv, OutcomeInv, Outcome, Gateway, setupVars, gatewayVars
<1>8. \A d \in Calls \ {c} : Same(d)
  BY <1>1, <1>4 DEF Same, TypeOK, gatewayVars
<1>9. RecordInv'
  BY <1>1 DEF RecordInv, TypeOK, Calls, setupVars, gatewayVars
<1>10. QED
  BY <1>1, <1>4, <1>5, <1>7, <1>8, <1>9, OneCallSteps DEF setupVars, gatewayVars

\* So does losing a request or a reply: the adapter reports a gateway error.
LEMMA LoseKeeps ==
    ASSUME AdaptersInv, NEW c \in Calls, Lose(c) PROVE AdaptersInv'
<1>1. /\ TypeOK /\ CallInv(c) /\ OutcomeInv(c) /\ RecordInv /\ reply = [d \in Calls |-> reply[d]]
      /\ pc[c] \in {"request", "reply"} /\ UNCHANGED <<setupVars, gatewayVars, op, dest, seen>>
      /\ pc' = [pc EXCEPT ![c] = IF pc[c] = "request" THEN "late" ELSE "done"]
      /\ result' = [result EXCEPT ![c] = Read(dest[c], op[c], NoReply)]
      /\ reply' = [reply EXCEPT ![c] = NoReply]
      /\ glitches < MaxGlitches /\ glitches' = glitches + 1
  BY DEF AdaptersInv, Lose, Glitch
<1>2. op[c] \in Op /\ dest[c] \in Gateway /\ ~(op[c] = "refund" /\ dest[c] = "moolre")
  BY <1>1 DEF CallInv
<1>3. Read(dest[c], op[c], NoReply) = "transport"
  BY <1>2 DEF Read, Op, Gateway, NoReply, Trouble, Reply, Troubled, ReadTrouble, HubtelInitiate,
     HubtelVerify, HubtelRefund, HubtelPayout, PaystackInitiate, PaystackVerify, PaystackRefund,
     PaystackPayout, MoolreInitiate, MoolreVerify, MoolrePayout
<1>4. NoReply.http \in Https /\ reply' = [d \in Calls |-> reply'[d]]
      /\ \A d \in Calls : reply'[d] = IF d = c THEN NoReply ELSE reply[d]
  BY <1>1 DEF NoReply, Trouble, Reply, Https
<1>5. glitches' \in 0..MaxGlitches /\ glitches' > 0
  BY <1>1, CallAssumption DEF TypeOK
<1>6. TypeOK'
  <2>1. pc' \in [Calls -> PC] /\ result' \in [Calls -> Results]
    BY <1>1, <1>3 DEF TypeOK, PC, Results
  <2>2. \A d \in Calls : reply'[d].http \in Https
    BY <1>1, <1>4 DEF TypeOK, Https
  <2>3. QED
    BY <1>1, <1>5, <2>1, <2>2 DEF TypeOK, Https, setupVars, gatewayVars
<1>7. /\ pc'[c] \in {"late", "done"} /\ result'[c] = "transport"
      /\ pc'[c] = "late" => pc[c] = "request"
  BY <1>1, <1>3 DEF TypeOK
<1>8. CallInv(c)' /\ OutcomeInv(c)'
  BY <1>1, <1>2, <1>5, <1>7 DEF CallInv, OutcomeInv, Outcome, Gateway, setupVars, gatewayVars
<1>9. \A d \in Calls \ {c} : Same(d)
  BY <1>1, <1>4 DEF Same, TypeOK, gatewayVars
<1>10. RecordInv'
  BY <1>1 DEF RecordInv, TypeOK, Calls, setupVars, gatewayVars
<1>11. QED
  BY <1>1, <1>4, <1>6, <1>8, <1>9, <1>10, OneCallSteps DEF setupVars, gatewayVars

\* So does a reply that arrives damaged.
LEMMA GarbleKeeps ==
    ASSUME AdaptersInv, NEW c \in Calls, Garble(c) PROVE AdaptersInv'
<1>1. /\ TypeOK /\ CallInv(c) /\ OutcomeInv(c) /\ RecordInv /\ reply = [d \in Calls |-> reply[d]]
      /\ pc[c] = "reply" /\ UNCHANGED <<setupVars, gatewayVars, pc, op, dest, result, seen>>
      /\ glitches < MaxGlitches /\ glitches' = glitches + 1
  BY DEF AdaptersInv, Garble, Glitch
<1>2. op[c] \in Op /\ dest[c] \in Gateway /\ ~(op[c] = "refund" /\ dest[c] = "moolre")
  BY <1>1 DEF CallInv
<1>3. PICK r \in {Trouble("5xx"), Unreadable} \cup
                   (IF op[c] \in {"status", "callback"} THEN NotOk(dest[c]) ELSE {}) :
        reply' = [reply EXCEPT ![c] = r]
  BY DEF Garble
<1>4. /\ r.http \in Https /\ reply' = [d \in Calls |-> reply'[d]]
      /\ \A d \in Calls : reply'[d] = IF d = c THEN r ELSE reply[d]
  <2>1. r.http \in Https
    BY <1>2, <1>3, RepliesAreKnown
  <2>2. QED
    BY <1>1, <1>3, <2>1
<1>5. glitches' \in 0..MaxGlitches /\ glitches' > 0
  BY <1>1, CallAssumption DEF TypeOK
<1>6. TypeOK'
  <2>1. \A d \in Calls : reply'[d].http \in Https
    BY <1>1, <1>4 DEF TypeOK, Https
  <2>2. QED
    BY <1>1, <1>5, <2>1 DEF TypeOK, Https, setupVars, gatewayVars
<1>7. Outcome(c)' = Read(dest[c], op[c], r)
  BY <1>1, <1>4 DEF Outcome
<1>8. /\ op[c] = "initiate" => Outcome(c)' # "declined"
      /\ op[c] \in {"status", "callback"} => Outcome(c)' # "succeeded"
      /\ op[c] \in {"status", "callback"} /\ dest[c] = "hubtel" => Outcome(c)' # "failed"
  BY <1>2, <1>3, <1>7, TroubleReads, NotOkReads
<1>9. CallInv(c)'
  BY <1>1, <1>5 DEF CallInv, setupVars, gatewayVars
<1>10. OutcomeInv(c)'
  BY <1>1, <1>5, <1>8 DEF OutcomeInv
<1>11. \A d \in Calls \ {c} : Same(d)
  BY <1>1, <1>4 DEF Same, TypeOK, gatewayVars
<1>12. RecordInv'
  BY <1>1 DEF RecordInv, setupVars, gatewayVars
<1>13. QED
  BY <1>1, <1>4, <1>6, <1>9, <1>10, <1>11, <1>12, OneCallSteps DEF setupVars, gatewayVars
\* A gateway that acts on a call disturbs no other call and no final record.
LEMMA ActIsLocal ==
    ASSUME AdaptersInv, NEW c \in Calls, pc[c] \in {"request", "late"}, home' = home, Act(c)
    PROVE  /\ record' \in [Gateway -> {"unknown"} \cup Verdict]
           /\ refunded' \subseteq Calls /\ paid' \subseteq Calls
           /\ \A d \in Calls \ {c} : (d \in refunded' <=> d \in refunded) /\ (d \in paid' <=> d \in paid)
           /\ \A g \in Gateway : record[g] \in Final => record'[g] = record[g]
           /\ \A g \in Gateway \ {home} : record'[g] = "unknown"
           /\ c # Charge => record' = record
           /\ \/ op[c] = "initiate" /\ c = Charge
              \/ op[c] = "refund" /\ c \in refunded' /\ c # Charge
              \/ op[c] = "payout" /\ c \in paid' /\ c # Charge
<1>1. TypeOK /\ CallInv(c) /\ RecordInv
  BY DEF AdaptersInv
<1>2. CASE op[c] = "initiate" /\ record' = [record EXCEPT ![dest[c]] = "pending"]
           /\ UNCHANGED <<refunded, paid>>
  <2>1. c = Charge /\ dest[c] = home /\ home \in Gateway /\ record[home] = "unknown"
    BY <1>1, <1>2 DEF CallInv, RecordInv, TypeOK
  <2>2. QED
    BY <1>1, <1>2, <2>1 DEF TypeOK, RecordInv, Verdict, Final
<1>3. CASE op[c] = "refund" /\ refunded' = refunded \cup {c} /\ UNCHANGED <<record, paid>>
  BY <1>1, <1>3 DEF TypeOK, CallInv, RecordInv
<1>4. CASE op[c] = "payout" /\ paid' = paid \cup {c} /\ UNCHANGED <<record, refunded>>
  BY <1>1, <1>4 DEF TypeOK, CallInv, RecordInv
<1>5. QED
  BY <1>2, <1>3, <1>4 DEF Act

\* A request that is answered: the reply reads as what the gateway did.
LEMMA HandleKeeps ==
    ASSUME AdaptersInv, NEW c \in Calls, Handle(c) PROVE AdaptersInv'
<1>1. /\ TypeOK /\ CallInv(c) /\ RecordInv /\ reply = [d \in Calls |-> reply[d]]
      /\ pc[c] = "request" /\ pc' = [pc EXCEPT ![c] = "reply"]
      /\ UNCHANGED <<setupVars, op, dest, result, glitches>>
  BY DEF AdaptersInv, Handle
<1>2. /\ op[c] \in Op /\ dest[c] \in Gateway /\ ~(op[c] = "refund" /\ dest[c] = "moolre")
      /\ c \notin refunded /\ c \notin paid /\ home' = home
      /\ record[dest[c]] \in {"unknown"} \cup Verdict
      /\ op[c] = "initiate" => record[home] = "unknown"
  BY <1>1 DEF CallInv, RecordInv, TypeOK, setupVars
<1>3. pc'[c] = "reply" /\ pc' \in [Calls -> PC] /\ \A d \in Calls \ {c} : pc'[d] = pc[d]
  BY <1>1 DEF TypeOK, PC
<1>4. ASSUME NEW r, r.http \in Https, reply' = [reply EXCEPT ![c] = r]
      PROVE  /\ reply' = [d \in Calls |-> reply'[d]] /\ Outcome(c)' = Read(dest[c], op[c], r)
             /\ \A d \in Calls : reply'[d].http \in Https
             /\ \A d \in Calls \ {c} : reply'[d] = reply[d]
  BY <1>1, <1>3, <1>4 DEF Outcome, TypeOK, Https
<1>5. ASSUME NEW r \in Yes(dest[c]), reply' = [reply EXCEPT ![c] = r], Act(c), UNCHANGED seen
      PROVE  AdaptersInv'
  <2>1. r.http \in Https
    BY <1>2, RepliesAreKnown
  <2>2. /\ record' \in [Gateway -> {"unknown"} \cup Verdict]
        /\ refunded' \subseteq Calls /\ paid' \subseteq Calls
        /\ \A d \in Calls \ {c} : (d \in refunded' <=> d \in refunded) /\ (d \in paid' <=> d \in paid)
        /\ \A g \in Gateway : record[g] \in Final => record'[g] = record[g]
        /\ \A g \in Gateway \ {home} : record'[g] = "unknown"
        /\ c # Charge => record' = record
        /\ \/ op[c] = "initiate" /\ c = Charge
           \/ op[c] = "refund" /\ c \in refunded' /\ c # Charge
           \/ op[c] = "payout" /\ c \in paid' /\ c # Charge
    BY <1>1, <1>2, <1>5, ActIsLocal
  <2>3. TypeOK'
    BY <1>1, <1>3, <1>4, <1>5, <2>1, <2>2 DEF TypeOK, Https, setupVars
  <2>4. CallInv(c)'
    BY <1>1, <1>2, <1>3 DEF CallInv, Gateway
  <2>5. OutcomeInv(c)'
    BY <1>1, <1>2, <1>4, <1>5, <2>1, <2>2, YesReads DEF OutcomeInv
  <2>6. \A d \in Calls \ {c} : Same(d)
    BY <1>1, <1>3, <1>4, <1>5, <2>1, <2>2 DEF Same
  <2>7. RecordInv'
    BY <1>1, <1>2, <1>3, <2>2 DEF RecordInv, Calls
  <2>8. QED
    BY <1>1, <1>2, <1>4, <1>5, <2>1, <2>2, <2>3, <2>4, <2>5, <2>6, <2>7, OneCallSteps
<1>6. ASSUME NEW r \in NotOk(dest[c]), reply' = [reply EXCEPT ![c] = r], UNCHANGED <<gatewayVars, seen>>,
             op[c] \in {"initiate", "refund", "payout"}
      PROVE  AdaptersInv'
  <2>1. r.http \in Https
    BY <1>2, RepliesAreKnown
  <2>2. TypeOK'
    BY <1>1, <1>3, <1>4, <1>6, <2>1 DEF TypeOK, Https, setupVars, gatewayVars
  <2>3. CallInv(c)'
    BY <1>1, <1>2, <1>3, <1>6 DEF CallInv, Gateway, gatewayVars
  <2>4. OutcomeInv(c)'
    BY <1>1, <1>2, <1>4, <1>6, <2>1, NotOkReads DEF OutcomeInv, gatewayVars
  <2>5. \A d \in Calls \ {c} : Same(d)
    BY <1>1, <1>3, <1>4, <1>6, <2>1 DEF Same, gatewayVars
  <2>6. RecordInv'
    BY <1>1, <1>2, <1>3, <1>6 DEF RecordInv, Calls, gatewayVars
  <2>7. QED
    BY <1>1, <1>2, <1>4, <1>6, <2>1, <2>2, <2>3, <2>4, <2>5, <2>6, OneCallSteps DEF gatewayVars
<1>7. ASSUME NEW r \in Report(dest[c], record[dest[c]]), reply' = [reply EXCEPT ![c] = r],
             UNCHANGED gatewayVars, seen' = [seen EXCEPT ![c] = record[dest[c]]],
             op[c] \in {"status", "callback"}
      PROVE  AdaptersInv'
  <2>1. r.http \in Https
    BY <1>2, RepliesAreKnown
  <2>2. /\ seen' \in [Calls -> {"none", "unknown"} \cup Verdict] /\ seen'[c] = record[dest[c]]
        /\ \A d \in Calls \ {c} : seen'[d] = seen[d]
    BY <1>1, <1>2, <1>7 DEF TypeOK
  <2>3. TypeOK'
    BY <1>1, <1>3, <1>4, <1>7, <2>1, <2>2 DEF TypeOK, Https, setupVars, gatewayVars
  <2>4. CallInv(c)'
    BY <1>1, <1>2, <1>3, <1>7 DEF CallInv, Gateway, gatewayVars
  <2>5. OutcomeInv(c)'
    BY <1>1, <1>2, <1>4, <1>7, <2>1, <2>2, ReportReads DEF OutcomeInv, gatewayVars
  <2>6. \A d \in Calls \ {c} : Same(d)
    BY <1>1, <1>3, <1>4, <1>7, <2>1, <2>2 DEF Same, gatewayVars
  <2>7. RecordInv'
    BY <1>1, <1>2, <1>3, <1>7 DEF RecordInv, Calls, gatewayVars
  <2>8. QED
    BY <1>1, <1>2, <1>4, <1>7, <2>1, <2>3, <2>4, <2>5, <2>6, <2>7, OneCallSteps DEF gatewayVars
<1>8. QED
  BY <1>5, <1>6, <1>7 DEF Handle

\* A request its adapter has given up on may still be acted on.
LEMMA HandleLateKeeps ==
    ASSUME AdaptersInv, NEW c \in Calls, HandleLate(c) PROVE AdaptersInv'
<1>1. /\ TypeOK /\ CallInv(c) /\ RecordInv /\ reply = [d \in Calls |-> reply[d]]
      /\ pc[c] = "late" /\ pc' = [pc EXCEPT ![c] = "done"]
      /\ UNCHANGED <<setupVars, op, dest, reply, result, seen, glitches>>
  BY DEF AdaptersInv, HandleLate
<1>2. /\ op[c] \in Op /\ dest[c] \in Gateway /\ ~(op[c] = "refund" /\ dest[c] = "moolre")
      /\ result[c] = "transport" /\ glitches > 0 /\ glitches \in Nat /\ home' = home
  BY <1>1, CallAssumption DEF CallInv, TypeOK, setupVars
<1>3. pc'[c] = "done" /\ pc' \in [Calls -> PC] /\ \A d \in Calls \ {c} : pc'[d] = pc[d]
  BY <1>1 DEF TypeOK, PC
<1>4. /\ record' \in [Gateway -> {"unknown"} \cup Verdict]
      /\ refunded' \subseteq Calls /\ paid' \subseteq Calls
      /\ \A d \in Calls \ {c} : (d \in refunded' <=> d \in refunded) /\ (d \in paid' <=> d \in paid)
      /\ \A g \in Gateway : record[g] \in Final => record'[g] = record[g]
      /\ \A g \in Gateway \ {home} : record'[g] = "unknown"
      /\ c # Charge => record' = record
  <2>1. CASE Act(c)
    BY <1>1, <1>2, <2>1, ActIsLocal
  <2>2. CASE UNCHANGED gatewayVars
    BY <1>1, <2>2 DEF TypeOK, RecordInv, gatewayVars
  <2>3. QED
    BY <2>1, <2>2 DEF HandleLate
<1>5. TypeOK'
  BY <1>1, <1>3, <1>4 DEF TypeOK, setupVars
<1>6. CallInv(c)' /\ OutcomeInv(c)'
  BY <1>1, <1>2, <1>3 DEF CallInv, OutcomeInv, Outcome, Gateway
<1>7. \A d \in Calls \ {c} : Same(d)
  BY <1>1, <1>3, <1>4 DEF Same
<1>8. RecordInv'
  BY <1>1, <1>2, <1>3, <1>4 DEF RecordInv, Calls
<1>9. QED
  BY <1>1, <1>2, <1>4, <1>5, <1>6, <1>7, <1>8, OneCallSteps

\* The payer's decision makes a pending record final.
LEMMA SettleKeeps == ASSUME AdaptersInv, Settle PROVE AdaptersInv'
<1>1. TypeOK /\ RecordInv /\ reply = [d \in Calls |-> reply[d]]
      /\ record[home] = "pending" /\ UNCHANGED <<setupVars, refunded, paid, callVars, glitches>>
  BY DEF AdaptersInv, Settle
<1>2. PICK s \in {"succeeded", "failed"} : record' = [record EXCEPT ![home] = s]
  BY DEF Settle
<1>3. /\ home \in Gateway /\ home' = home /\ record' \in [Gateway -> {"unknown"} \cup Verdict]
      /\ \A g \in Gateway : record[g] \in Final => record'[g] = record[g]
      /\ \A g \in Gateway \ {home} : record'[g] = "unknown"
  BY <1>1, <1>2 DEF TypeOK, RecordInv, Verdict, Final, setupVars
<1>4. TypeOK'
  BY <1>1, <1>3 DEF TypeOK, setupVars, callVars
<1>5. ASSUME NEW d \in Calls PROVE CallInv(d)' /\ OutcomeInv(d)'
  <2>1. CallInv(d) /\ OutcomeInv(d) /\ Same(d)
    BY <1>1 DEF AdaptersInv, Same, callVars
  <2>2. glitches \in Nat /\ glitches' = glitches /\ dest[d] \in Gateway \cup {"none"}
    BY <1>1, CallAssumption DEF TypeOK
  <2>3. QED
    BY <1>1, <1>3, <2>1, <2>2, OthersUndisturbed
<1>6. RecordInv'
  BY <1>1, <1>3 DEF RecordInv, callVars
<1>7. QED
  BY <1>1, <1>4, <1>5, <1>6 DEF AdaptersInv, callVars

\* AdaptersInv is inductive.
LEMMA AdaptersKept ==
    /\ Init => AdaptersInv
    /\ AdaptersInv /\ [Next]_vars => AdaptersInv'
<1>1. ASSUME Init PROVE AdaptersInv
  <2>1. TypeOK
    BY <1>1, CallAssumption DEF Init, TypeOK, PC, Results, NoReply, Trouble, Reply
  <2>2. RecordInv /\ reply = [c \in Calls |-> reply[c]]
    BY <1>1 DEF Init, RecordInv, Gateway
  <2>3. ASSUME NEW c \in Calls PROVE CallInv(c) /\ OutcomeInv(c)
    BY <1>1 DEF Init, CallInv, OutcomeInv, Outcome, Gateway
  <2>4. QED
    BY <2>1, <2>2, <2>3 DEF AdaptersInv
<1>2. ASSUME AdaptersInv, [Next]_vars PROVE AdaptersInv'
  <2>1. CASE Send(Charge, "initiate", ChargeRef)
    BY <1>2, <2>1, SendKeeps DEF Calls, Op
  <2>2. ASSUME NEW c \in Others, NEW o \in Op \ {"initiate"}, NEW ref, Send(c, o, ref)
        PROVE  AdaptersInv'
    BY <1>2, <2>2, SendKeeps, CallAssumption DEF Calls
  <2>3. ASSUME NEW c \in Calls,
               \/ CreateRecipient(c) \/ Handle(c) \/ Receive(c)
               \/ Lose(c) \/ Garble(c) \/ HandleLate(c)
        PROVE  AdaptersInv'
    BY <1>2, <2>3, RecipientKeeps, HandleKeeps, ReceiveKeeps, LoseKeeps, GarbleKeeps, HandleLateKeeps
  <2>4. CASE Settle
    BY <1>2, <2>4, SettleKeeps
  <2>5. CASE UNCHANGED vars
    BY <1>2, <2>5 DEF vars, setupVars, gatewayVars, callVars, AdaptersInv, TypeOK, RecordInv, CallInv,
       OutcomeInv, Outcome
  <2>6. QED
    BY <1>2, <2>1, <2>2, <2>3, <2>4, <2>5 DEF Next
<1>3. QED
  BY <1>1, <1>2

-----------------------------------------------------------------------------
\* What Initiate calls a refusal is one: that gateway is not collecting and never will.
THEOREM DeclinesAreFinal == Spec => []DeclineIsFinal
<1>1. AdaptersInv => DeclineIsFinal
  <2> SUFFICES ASSUME AdaptersInv, result[Charge] = "declined" PROVE record[home] = "unknown"
    BY DEF DeclineIsFinal
  <2>1. TypeOK /\ CallInv(Charge) /\ OutcomeInv(Charge)
    BY DEF AdaptersInv, Calls
  <2>2. pc[Charge] \in PC /\ Charge \in Calls
    BY <2>1 DEF TypeOK, Calls
  <2>3. pc[Charge] = "done" /\ op[Charge] = "initiate"
    BY <2>1, <2>2 DEF CallInv, PC, Op
  <2>4. QED
    BY <2>1, <2>3 DEF OutcomeInv, Outcome, CallInv, Op
<1>2. QED
  BY <1>1, AdaptersKept, PTL DEF Spec

\* What the status endpoint and the callback call final is the gateway's own record.
THEOREM VerdictsAreRecords == Spec => []VerdictIsRecord
<1>1. AdaptersInv => VerdictIsRecord
  <2> SUFFICES ASSUME AdaptersInv, NEW c \in Others, op[c] \in {"status", "callback"}, Returned(c)
      PROVE  /\ result[c] = "succeeded" => record[dest[c]] = "succeeded"
             /\ result[c] = "failed" =>
                  \/ record[dest[c]] = "failed"
                  \/ dest[c] # "hubtel" /\ (seen[c] = "unknown" \/ glitches > 0)
    BY DEF VerdictIsRecord
  <2>1. CallInv(c) /\ OutcomeInv(c)
    BY DEF AdaptersInv, Calls
  <2>2. QED
    BY <2>1 DEF CallInv, OutcomeInv, Outcome, Returned
<1>2. QED
  BY <1>1, AdaptersKept, PTL DEF Spec

\* The refund endpoint's 200, 501 and 502 are true while nothing is lost.
THEOREM RefundsAnswerTrue == Spec => []RefundAnswersTrue
<1>1. AdaptersInv => RefundAnswersTrue
  <2> SUFFICES ASSUME AdaptersInv, NEW c \in Others, op[c] = "refund"
      PROVE  /\ RefundAnswer(result[c]) = 200 => c \in refunded \/ glitches > 0
             /\ RefundAnswer(result[c]) \in {501, 502} => c \notin refunded \/ glitches > 0
             /\ dest[c] = "moolre" => RefundAnswer(result[c]) \in {0, 501, 502}
    BY DEF RefundAnswersTrue
  <2>0. c \in Calls
    BY DEF Calls
  <2>1. CallInv(c) /\ OutcomeInv(c) /\ glitches \in Nat /\ result[c] \in Results
    BY <2>0, CallAssumption DEF AdaptersInv, TypeOK
  <2>2. glitches = 0 \/ glitches > 0
    BY <2>1
  <2>3. /\ RefundAnswer(result[c]) = 200 => result[c] = "ok"
        /\ RefundAnswer(result[c]) \in {501, 502} => result[c] \notin {"none", "malformed", "ok"}
        /\ result[c] \in {"notConfigured", "notSupported"} => RefundAnswer(result[c]) \in {501, 502}
    BY <2>1 DEF RefundAnswer, Results
  <2>4. result[c] # "none" => Outcome(c) = result[c]
    BY <2>1 DEF CallInv, Outcome
  <2>5. QED
    BY <2>1, <2>2, <2>3, <2>4 DEF CallInv, OutcomeInv
<1>2. QED
  BY <1>1, AdaptersKept, PTL DEF Spec

\* A payout's answer is true while nothing is lost, but for the two codes nobody reads right.
THEOREM PayoutsAnswerTrue == Spec => []PayoutAnswersTrue
<1>1. AdaptersInv => PayoutAnswersTrue
  <2> SUFFICES ASSUME AdaptersInv, NEW c \in Others, op[c] = "payout", glitches = 0
      PROVE  /\ result[c] = "ok" => c \in paid \/ dest[c] = "paystack"
             /\ result[c] = "declined" => c \notin paid \/ dest[c] = "hubtel"
    BY DEF PayoutAnswersTrue
  <2>1. CallInv(c) /\ OutcomeInv(c)
    BY DEF AdaptersInv, Calls
  <2>2. QED
    BY <2>1 DEF CallInv, OutcomeInv, Outcome
<1>2. QED
  BY <1>1, AdaptersKept, PTL DEF Spec
=============================================================================
