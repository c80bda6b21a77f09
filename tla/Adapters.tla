------------------------------ MODULE Adapters ------------------------------
(***************************************************************************)
(* What the Hubtel, Paystack and Moolre adapters make of HTTP replies, and *)
(* what the API tells its caller on top of it.                             *)
(*                                                                         *)
(* One charge is started at its home gateway under a reference; then the   *)
(* status endpoint, the Paystack callback and the refund endpoint are      *)
(* called with references, and payouts are sent, several calls at a time.  *)
(* The gateways are external: they act on a request or refuse it and reply *)
(* in the codes the adapters distinguish.  A request or a reply may get    *)
(* lost (the adapter's 10 s run out while the request is still on its      *)
(* way), a proxy may answer 5xx or something that is not the gateway's     *)
(* JSON.  MaxGlitches bounds how often.                                    *)
(*                                                                         *)
(* A reference is the sequence of its dash-separated segments.             *)
(***************************************************************************)
EXTENDS Integers, Sequences

CONSTANTS
    Charge,      \* the one Initiate call (the router calls a gateway once per reference)
    Others,      \* the other calls
    Products,    \* product names, as segments
    OtherRefs,   \* other references callers may pass
    MaxGlitches

Gateway == {"hubtel", "paystack", "moolre"}
Calls == {Charge} \cup Others

\* The segments of the empty string.
NoProduct == <<"">>

ASSUME CallAssumption == Charge \notin Others /\ MaxGlitches \in Nat

\* The service refuses a charge without a product.
ASSUME ProductAssumption == \A p \in Products : p \in Seq(STRING) /\ p \notin {<<>>, NoProduct}

-----------------------------------------------------------------------------
(* References. *)

\* optd-{product}-{gateway}-{ulid}.  A product may contain dashes.
BuildReference(product, g) == <<"optd">> \o product \o <<g, "ulid">>

\* Mutant: the product is taken to be one segment.
ParseThirdSegment(ref) ==
    LET n == Len(ref) IN
    IF n < 4 \/ ref[1] # "optd" \/ ref[3] \notin Gateway
      THEN [ok |-> FALSE]
      ELSE [ok |-> TRUE, product |-> <<ref[2]>>, gateway |-> ref[3], ulid |-> ref[n]]

\* The gateway is the last segment but one, the product all between it and "optd".
ParseReference(ref) ==
    LET n == Len(ref) IN
    IF n < 4 \/ ref[1] # "optd" \/ ref[n - 1] \notin Gateway \/ SubSeq(ref, 2, n - 2) = NoProduct
      THEN [ok |-> FALSE]
      ELSE [ok |-> TRUE, product |-> SubSeq(ref, 2, n - 2), gateway |-> ref[n - 1], ulid |-> ref[n]]

-----------------------------------------------------------------------------
(* Replies.  "2xx" stands for every status below 400.                       *)
(*   code    Hubtel's ResponseCode: absent, "00" (or 0000), "01" (or 000),  *)
(*           "09" (anything else); Paystack's and Moolre's envelope status  *)
(*   status  Hubtel's Status word                                           *)
(*   data    Hubtel's Data.Status ("SUCCESS" in some other case than        *)
(*           Success or success), Paystack's data.status, Moolre's txstatus *)

Reply(http, readable, code, status, data) ==
    [http |-> http, readable |-> readable, code |-> code, status |-> status, data |-> data]

Trouble(http) == Reply(http, FALSE, "absent", "absent", "absent")
Unreadable == Trouble("2xx")
Body(code, status, data) == Reply("2xx", TRUE, code, status, data)

\* A reply that is no 2xx, or no reply: the same in every adapter.
Troubled(r) == r.http # "2xx"
ReadTrouble(r) ==
    CASE r.http = "none" -> "transport"
      [] r.http = "5xx" -> "unavailable"      \* ErrGatewayUnavailable
      [] r.http \in {"4xx", "404"} -> "declined"

-----------------------------------------------------------------------------
(* Hubtel. *)

\* Mutant: pending acceptances are taken for refusals.
HubtelInitiateStrict(r) ==
    IF Troubled(r) THEN ReadTrouble(r)
    ELSE IF ~r.readable THEN "pending"
    ELSE IF r.code \notin {"absent", "00"} THEN "declined"
    ELSE IF r.data = "success" THEN "succeeded" ELSE "pending"

HubtelInitiate(r) ==
    IF Troubled(r) THEN ReadTrouble(r)
    ELSE IF ~r.readable THEN "pending"
    ELSE IF r.code \notin {"absent", "00", "01"} THEN "declined"
    ELSE IF r.data = "success" THEN "succeeded" ELSE "pending"

\* A transaction Hubtel does not know is pending.  A success in Data wins.
HubtelVerify(r) ==
    IF r.http = "404" THEN "pending"
    ELSE IF Troubled(r) THEN ReadTrouble(r)
    ELSE IF ~r.readable THEN "pending"
    ELSE IF r.data \in {"success", "SUCCESS"} \/ r.status = "success" THEN "succeeded"
    ELSE IF r.status = "failed" THEN "failed" ELSE "pending"

HubtelRefund(r) ==
    IF Troubled(r) THEN ReadTrouble(r)
    ELSE IF r.readable /\ r.code \notin {"absent", "00", "01"} THEN "declined" ELSE "ok"

\* Unlike Initiate and Refund, Payout takes "01" and "000" for a refusal.
HubtelPayout(r) ==
    IF Troubled(r) THEN ReadTrouble(r)
    ELSE IF r.readable /\ r.code \notin {"absent", "00"} THEN "declined" ELSE "ok"

-----------------------------------------------------------------------------
(* Paystack: code is the envelope's status. *)

PaystackInitiate(r) ==
    IF Troubled(r) THEN ReadTrouble(r)
    ELSE IF r.readable /\ r.code = "false" THEN "declined" ELSE "pending"

\* "abandoned" is a failure, a word it does not know is pending.
PaystackVerify(r) ==
    IF Troubled(r) THEN ReadTrouble(r)
    ELSE IF ~r.readable THEN "pending"
    ELSE IF r.code = "false" THEN "failed"
    ELSE CASE r.data = "success" -> "succeeded"
           [] r.data \in {"failed", "abandoned"} -> "failed"
           [] OTHER -> "pending"

\* Mutant: the envelope is not looked at.
PaystackRefundUnread(r) == IF Troubled(r) THEN ReadTrouble(r) ELSE "ok"

PaystackRefund(r) ==
    IF Troubled(r) THEN ReadTrouble(r)
    ELSE IF r.readable /\ r.code = "false" THEN "declined" ELSE "ok"

\* The transfer: its body is not looked at.
PaystackPayout(r) == IF Troubled(r) THEN ReadTrouble(r) ELSE "ok"

\* createRecipient, before the transfer: any 2xx goes on, with the bare recipient
\* when the reply names no code.
PaystackCreateRecipient(r) == IF Troubled(r) THEN ReadTrouble(r) ELSE "ok"

-----------------------------------------------------------------------------
(* Moolre: code is the envelope's status ("1", as a number or a string). *)

MoolreInitiate(r) ==
    IF Troubled(r) THEN ReadTrouble(r)
    ELSE IF r.readable /\ r.code # "1" THEN "declined" ELSE "pending"

\* Mutant: txstatus 2 is taken for a success.
MoolreVerifyShifted(r) ==
    IF Troubled(r) THEN ReadTrouble(r)
    ELSE IF ~r.readable THEN "pending"
    ELSE IF r.code # "1" THEN "failed"
    ELSE CASE r.data = "2" -> "succeeded"
           [] r.data = "3" -> "failed"
           [] OTHER -> "pending"

\* An envelope that is not ok is a failed charge, data it cannot read a pending one.
MoolreVerify(r) ==
    IF Troubled(r) THEN ReadTrouble(r)
    ELSE IF ~r.readable THEN "pending"
    ELSE IF r.code # "1" THEN "failed"
    ELSE CASE r.data = "1" -> "succeeded"
           [] r.data = "2" -> "failed"
           [] OTHER -> "pending"

\* Mutant: the envelope is not looked at.
MoolrePayoutUnread(r) == IF Troubled(r) THEN ReadTrouble(r) ELSE "ok"

MoolrePayout(r) ==
    IF Troubled(r) THEN ReadTrouble(r)
    ELSE IF r.readable /\ r.code # "1" THEN "declined" ELSE "ok"

-----------------------------------------------------------------------------
\* What the adapter of gateway g returns for a call of kind op.
Read(g, op, r) ==
    CASE op = "initiate" -> (CASE g = "hubtel" -> HubtelInitiate(r)
                               [] g = "paystack" -> PaystackInitiate(r)
                               [] g = "moolre" -> MoolreInitiate(r))
      [] op \in {"status", "callback"} -> (CASE g = "hubtel" -> HubtelVerify(r)
                                             [] g = "paystack" -> PaystackVerify(r)
                                             [] g = "moolre" -> MoolreVerify(r))
      [] op = "refund" -> (IF g = "hubtel" THEN HubtelRefund(r) ELSE PaystackRefund(r))
      [] op = "payout" -> (CASE g = "hubtel" -> HubtelPayout(r)
                             [] g = "paystack" -> PaystackPayout(r)
                             [] g = "moolre" -> MoolrePayout(r))

Results == {"none", "malformed", "notConfigured", "notSupported", "unavailable", "declined",
            "transport", "pending", "succeeded", "failed", "ok"}

\* handleRefundCharge: the HTTP answer for what Refund returned.
RefundAnswer(result) ==
    CASE result = "none" -> 0
      [] result = "malformed" -> 400
      [] result = "notSupported" -> 501
      [] result = "ok" -> 200
      [] OTHER -> 502

-----------------------------------------------------------------------------
(* The gateways' own replies (external). *)

Verdict == {"pending", "succeeded", "failed"}

\* It has done what it was asked.
Yes(g) ==
    CASE g = "hubtel" -> {Body(code, "absent", data) : code \in {"absent", "00", "01"}, data \in {"absent", "success"}}
      [] g = "paystack" -> {Body("true", "absent", "absent")}
      [] g = "moolre" -> {Body("1", "absent", "absent")}

\* It will not: refused with 4xx or in the envelope.
NotOk(g) ==
    {Trouble("4xx")} \cup
    CASE g = "hubtel" -> {Body("09", "absent", "absent")}
      [] g = "paystack" -> {Body("false", "absent", "absent")}
      [] g = "moolre" -> {Body("0", "absent", "absent")}

\* It reports its record of a charge.
HubtelReport == [unknown |-> {Trouble("404")},
                 pending |-> {Body("00", "absent", "absent")},
                 failed |-> {Body("00", "failed", "absent")},
                 succeeded |-> {Body("00", "success", "absent"), Body("00", "absent", "success"),
                                Body("00", "absent", "SUCCESS")}]
PaystackReport == [unknown |-> NotOk("paystack"),
                   pending |-> {Body("true", "absent", "ongoing"), Body("true", "absent", "queued")},
                   failed |-> {Body("true", "absent", "failed"), Body("true", "absent", "abandoned")},
                   succeeded |-> {Body("true", "absent", "success")}]
MoolreReport == [unknown |-> NotOk("moolre"),
                 pending |-> {Body("1", "absent", "0")},
                 failed |-> {Body("1", "absent", "2")},
                 succeeded |-> {Body("1", "absent", "1")}]

Report(g, rec) == CASE g = "hubtel" -> HubtelReport[rec]
                    [] g = "paystack" -> PaystackReport[rec]
                    [] g = "moolre" -> MoolreReport[rec]

-----------------------------------------------------------------------------
VARIABLES
    product, home,  \* the charge's product and the gateway the router has chosen for it
    configured,     \* gateways whose adapter has credentials
    record,         \* each gateway's record of the charge
    refunded, paid, \* the calls by which a gateway has refunded or paid out
    pc, op, dest,   \* each call: where it is, its kind, the gateway it goes to
    reply,          \* the reply on its way to the adapter
    result,         \* what the adapter returned
    seen,           \* the record a status call was answered from
    glitches

setupVars == <<product, home, configured>>
gatewayVars == <<record, refunded, paid>>
callVars == <<pc, op, dest, reply, result, seen>>
vars == <<setupVars, gatewayVars, callVars, glitches>>

\* "late": the adapter has given up on a request that is still on its way.
PC == {"new", "recipient", "request", "reply", "late", "done"}
Op == {"initiate", "status", "callback", "refund", "payout"}

TypeOK ==
    /\ product \in Products /\ home \in Gateway /\ configured \subseteq Gateway
    /\ record \in [Gateway -> {"unknown"} \cup Verdict]
    /\ refunded \subseteq Calls /\ paid \subseteq Calls
    /\ pc \in [Calls -> PC]
    /\ op \in [Calls -> Op \cup {"none"}]
    /\ dest \in [Calls -> Gateway \cup {"none"}]
    /\ \A c \in Calls : reply[c].http \in {"none", "2xx", "4xx", "404", "5xx"}
    /\ result \in [Calls -> Results]
    /\ seen \in [Calls -> {"none", "unknown"} \cup Verdict]
    /\ glitches \in 0..MaxGlitches

NoReply == Trouble("none")

Init ==
    /\ product \in Products
    /\ home \in Gateway
    /\ configured \in {Gateway, Gateway \ {home}}
    /\ record = [g \in Gateway |-> "unknown"]
    /\ refunded = {}
    /\ paid = {}
    /\ pc = [c \in Calls |-> "new"]
    /\ op = [c \in Calls |-> "none"]
    /\ dest = [c \in Calls |-> "none"]
    /\ reply = [c \in Calls |-> NoReply]
    /\ result = [c \in Calls |-> "none"]
    /\ seen = [c \in Calls |-> "none"]
    /\ glitches = 0

Glitch == glitches < MaxGlitches /\ glitches' = glitches + 1

Return(c, what) ==
    /\ pc' = [pc EXCEPT ![c] = "done"]
    /\ result' = [result EXCEPT ![c] = what]

-----------------------------------------------------------------------------
(* The API's side. *)

\* The gateway a call goes to: the charge's own, Paystack for its callback whatever
\* the reference, the one the reference names, any gateway for a payout.
Destination(o, ref) ==
    CASE o = "initiate" -> {home}
      [] o = "callback" -> {"paystack"}
      [] o = "payout" -> Gateway
      [] OTHER -> {ParseReference(ref).gateway}

\* Adapter calls that return without asking the gateway.
Shortcut(o, g) ==
    CASE g \notin configured -> "notConfigured"
      [] g \in configured /\ o = "refund" /\ g = "moolre" -> "notSupported"
      [] OTHER -> "none"

\* A call begins: a malformed reference is refused, the adapter is looked up, and
\* the request goes out unless the adapter answers by itself.
Send(c, o, ref) ==
    /\ pc[c] = "new"
    /\ op' = [op EXCEPT ![c] = o]
    /\ \/ /\ o \in {"status", "refund"}
          /\ ~ParseReference(ref).ok
          /\ Return(c, "malformed")
          /\ UNCHANGED dest
       \/ /\ o \in {"status", "refund"} => ParseReference(ref).ok
          /\ \E g \in Destination(o, ref) :
               /\ dest' = [dest EXCEPT ![c] = g]
               /\ \/ Shortcut(o, g) # "none" /\ Return(c, Shortcut(o, g))
                  \/ /\ Shortcut(o, g) = "none"
                     /\ pc' = [pc EXCEPT ![c] = IF o = "payout" /\ g = "paystack"
                                                  THEN "recipient" ELSE "request"]
                     /\ UNCHANGED result
    /\ UNCHANGED <<setupVars, gatewayVars, reply, seen, glitches>>

\* Paystack's transfer recipient, before the transfer itself.
CreateRecipient(c) ==
    /\ pc[c] = "recipient"
    /\ \/ /\ \E r \in Yes("paystack") : PaystackCreateRecipient(r) = "ok"
          /\ pc' = [pc EXCEPT ![c] = "request"]
          /\ UNCHANGED <<result, glitches>>
       \/ /\ \E r \in {Trouble("4xx"), Trouble("5xx"), NoReply} :
               Return(c, PaystackCreateRecipient(r))
          /\ Glitch
    /\ UNCHANGED <<setupVars, gatewayVars, op, dest, reply, seen>>

\* The reply arrives, the adapter returns.
Receive(c) ==
    /\ pc[c] = "reply"
    /\ Return(c, Read(dest[c], op[c], reply[c]))
    /\ reply' = [reply EXCEPT ![c] = NoReply]
    /\ UNCHANGED <<setupVars, gatewayVars, op, dest, seen, glitches>>

\* The adapter's HTTP client gives up, before or after the gateway got the request.
Lose(c) ==
    /\ pc[c] \in {"request", "reply"}
    /\ Glitch
    /\ result' = [result EXCEPT ![c] = Read(dest[c], op[c], NoReply)]
    /\ pc' = [pc EXCEPT ![c] = IF pc[c] = "request" THEN "late" ELSE "done"]
    /\ reply' = [reply EXCEPT ![c] = NoReply]
    /\ UNCHANGED <<setupVars, gatewayVars, op, dest, seen>>

\* Something between the two answers instead of the gateway, or the gateway turns
\* away a status call without looking at the charge.
Garble(c) ==
    /\ pc[c] = "reply"
    /\ \E r \in {Trouble("5xx"), Unreadable} \cup
                (IF op[c] \in {"status", "callback"} THEN NotOk(dest[c]) ELSE {}) :
         reply' = [reply EXCEPT ![c] = r]
    /\ Glitch
    /\ UNCHANGED <<setupVars, gatewayVars, pc, op, dest, result, seen>>

-----------------------------------------------------------------------------
(* The gateways' side. *)

\* What acting on the call does.
Act(c) ==
    /\ \/ /\ op[c] = "initiate"
          /\ record' = [record EXCEPT ![dest[c]] = "pending"]
          /\ UNCHANGED <<refunded, paid>>
       \/ /\ op[c] = "refund" /\ record[dest[c]] = "succeeded"
          /\ refunded' = refunded \cup {c}
          /\ UNCHANGED <<record, paid>>
       \/ /\ op[c] = "payout"
          /\ paid' = paid \cup {c}
          /\ UNCHANGED <<record, refunded>>

\* The gateway gets the request: it acts, refuses or reports.
Handle(c) ==
    /\ pc[c] = "request"
    /\ pc' = [pc EXCEPT ![c] = "reply"]
    /\ \/ /\ Act(c)
          /\ reply' \in {[reply EXCEPT ![c] = r] : r \in Yes(dest[c])}
          /\ UNCHANGED seen
       \/ /\ op[c] \in {"initiate", "refund", "payout"}
          /\ reply' \in {[reply EXCEPT ![c] = r] : r \in NotOk(dest[c])}
          /\ UNCHANGED <<gatewayVars, seen>>
       \/ /\ op[c] \in {"status", "callback"}
          /\ reply' \in {[reply EXCEPT ![c] = r] : r \in Report(dest[c], record[dest[c]])}
          /\ seen' = [seen EXCEPT ![c] = record[dest[c]]]
          /\ UNCHANGED gatewayVars
    /\ UNCHANGED <<setupVars, op, dest, result, glitches>>

\* A request nobody waits for any more is acted on, or never arrives.
HandleLate(c) ==
    /\ pc[c] = "late"
    /\ pc' = [pc EXCEPT ![c] = "done"]
    /\ Act(c) \/ UNCHANGED gatewayVars
    /\ UNCHANGED <<setupVars, op, dest, reply, result, seen, glitches>>

\* The payer approves or declines.
Settle ==
    /\ record[home] = "pending"
    /\ \E s \in {"succeeded", "failed"} : record' = [record EXCEPT ![home] = s]
    /\ UNCHANGED <<setupVars, refunded, paid, callVars, glitches>>

-----------------------------------------------------------------------------
ChargeRef == BuildReference(product, home)

Next ==
    \/ Send(Charge, "initiate", ChargeRef)
    \/ \E c \in Others, o \in Op \ {"initiate"}, ref \in {ChargeRef} \cup OtherRefs : Send(c, o, ref)
    \/ \E c \in Calls :
          \/ CreateRecipient(c) \/ Handle(c) \/ Receive(c)
          \/ Lose(c) \/ Garble(c) \/ HandleLate(c)
    \/ Settle

Spec == Init /\ [][Next]_vars

-----------------------------------------------------------------------------
(* Properties. *)

Returned(c) == result[c] # "none"

\* "succeeded" is only ever said of a charge its gateway has collected, and "failed"
\* of one it has refused to collect, except that Paystack and Moolre (not Hubtel)
\* also say it of a charge they do not know yet or of a call they turned away:
\* a status asked for while Initiate is still under way may be final and wrong.
VerdictIsRecord ==
    \A c \in Others : op[c] \in {"status", "callback"} /\ Returned(c) =>
        /\ result[c] = "succeeded" => record[dest[c]] = "succeeded"
        /\ result[c] = "failed" =>
             \/ record[dest[c]] = "failed"
             \/ dest[c] # "hubtel" /\ (seen[c] = "unknown" \/ glitches > 0)

\* A refusal can be acted on: when Initiate says declined (not merely unavailable or
\* unreachable), that gateway is not collecting and never will be, so the router
\* may go on to the next one.
DeclineIsFinal == result[Charge] = "declined" => record[home] = "unknown"

\* The refund endpoint tells the truth while nothing is lost or garbled, and never
\* claims a refund of a gateway that has none.
RefundAnswersTrue ==
    \A c \in Others : op[c] = "refund" =>
        /\ RefundAnswer(result[c]) = 200 => c \in refunded \/ glitches > 0
        /\ RefundAnswer(result[c]) \in {501, 502} => c \notin refunded \/ glitches > 0
        /\ dest[c] = "moolre" => RefundAnswer(result[c]) \in {0, 501, 502}

\* A payout's answer can be trusted while nothing is lost or garbled, with two
\* exceptions: Paystack's transfer may be refused in a body nobody reads, and Hubtel's
\* code 01 counts as a refusal.
PayoutAnswersTrue ==
    \A c \in Others : op[c] = "payout" /\ glitches = 0 =>
        /\ result[c] = "ok" => c \in paid \/ dest[c] = "paystack"
        /\ result[c] = "declined" => c \notin paid \/ dest[c] = "hubtel"

\* Status and refund calls for the charge's reference reach the gateway that was
\* asked to collect it, whatever dashes or gateway names its product contains.
RoutedHome ==
    LET p == ParseReference(ChargeRef) IN
    p.ok /\ p.gateway = home /\ p.product = product
=============================================================================
