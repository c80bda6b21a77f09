------------------------------- MODULE Startup -------------------------------
(***************************************************************************)
(* The life of one process: configuration from the environment, the        *)
(* connections that Build opens or does without, the work of the API       *)
(* server or of the worker's loop, and the order of the shutdown.  While   *)
(* the API serves, notifications of the gateways come through the          *)
(* signature gate into the inbox of whichever store Build chose.           *)
(***************************************************************************)
EXTENDS Integers, FiniteSets

CONSTANTS
    Environs,    \* the settings the process may be started with
    Deliveries,  \* the webhook requests that may arrive
    MaxBusy,     \* bound on requests in progress
    MaxBoots     \* bound on starts of the process

Senders == {"hubtel", "paystack", "moolre"}

\* The raw values of a numeric setting beside the numbers themselves.
Unset == -1
Junk == -2

\* TimestampTolerance, in units of the skew.
Tolerance == 1

ASSUME StartupAssumption ==
    /\ MaxBusy \in Nat /\ MaxBoots \in Nat
    /\ \A d \in Deliveries : d.gw \in Senders /\ d.skew \in Int
    /\ \A e \in Environs : e.rps \in Int /\ e.ipPerMinute \in Int

VARIABLES
    role,     \* "api" or "worker"
    stage,    \* load, pool, valkey, up, draining, closing, stopped or refused
    cfg,      \* the configuration in force
    pool,     \* the connections: none, open or closed
    valkey,
    busy,     \* requests, or the job, in progress
    cut,      \* did the server stop without waiting for the requests?
    inbox,    \* the ids with a row: in webhook_inbox, and in the process's memory
    seen,     \* the notifications that ever got a row
    acked,    \* the last notification answered as a duplicate
    unsigned, \* gateways an unsigned notification was accepted from
    boots

connVars == <<pool, valkey>>
hookVars == <<inbox, seen, acked, unsigned>>
startupVars == <<role, stage, cfg, connVars, busy, cut, hookVars, boots>>

----------------------------------------------------------------------------
(* Load and Validate.                                                      *)

StringVar(raw, fallback) == IF raw = "" THEN fallback ELSE raw
IntVar(raw, fallback) == IF raw = Unset THEN fallback ELSE raw
AtLeastOne(n, fallback) == IF n < 1 THEN fallback ELSE n

\* RATE_LIMIT_RPS, once set, is the limit by address whatever the other setting says.
IpPerMinute(e) ==
    LET rps == IntVar(e.rps, 60)
        ip  == IF e.rps # Unset THEN rps ELSE IntVar(e.ipPerMinute, rps)
    IN  AtLeastOne(ip, 60)

ConfigOf(e) ==
    [env     |-> StringVar(e.env, "development"),
     level   |-> StringVar(e.level, "info"),
     apiKey  |-> e.apiKey \/ e.authKey,
     secrets |-> e.secrets \cup (IF e.paystackKey THEN {"paystack"} ELSE {}),
     ip      |-> IpPerMinute(e)]

\* What every environment asks for.  VALKEY_ADDR has a default; inRange stands for the
\* pool size, the sample ratio and the pending timeout, which nothing else here reads.
Sound(e) ==
    LET c == ConfigOf(e) IN
    /\ c.env \in {"development", "staging", "production"}
    /\ e.databaseUrl
    /\ e.port # Junk /\ e.rps # Junk /\ e.ipPerMinute # Junk
    /\ IntVar(e.port, 8080) \in 1..65535
    /\ c.level \in {"debug", "info", "warn", "error"}
    /\ e.primary \in {"", "hubtel", "paystack", "moolre"}
    /\ e.inRange

\* Mutant: the API key is asked for in the wrong environment.
ValidateKeyInStaging(e) ==
    Sound(e) /\ LET c == ConfigOf(e) IN
        /\ c.env = "production" => c.level # "debug"
        /\ c.env = "staging" => c.apiKey

Validate(e) ==
    Sound(e) /\ LET c == ConfigOf(e) IN
        c.env = "production" => c.level # "debug" /\ c.apiKey

NoConfig == [env |-> "", level |-> "", apiKey |-> FALSE, secrets |-> {}, ip |-> 0]

\* What a webhook request is about.
Notice(d) == [gw |-> d.gw, event |-> d.event, tx |-> d.tx]
NoNotice == [gw |-> "", event |-> "", tx |-> ""]

StartupInit ==
    /\ role \in {"api", "worker"} /\ stage = "load" /\ cfg = NoConfig
    /\ pool = "none" /\ valkey = "none"
    /\ busy = 0 /\ cut = FALSE
    /\ inbox = [postgres |-> {}, memory |-> {}] /\ seen = {} /\ acked = NoNotice /\ unsigned = {}
    /\ boots = 1

Load ==
    /\ stage = "load"
    /\ \E e \in Environs :
          IF Validate(e)
          THEN stage' = "pool" /\ cfg' = ConfigOf(e)
          ELSE stage' = "refused" /\ UNCHANGED cfg
    /\ UNCHANGED <<role, connVars, busy, cut, hookVars, boots>>

----------------------------------------------------------------------------
(* Build.  A connection that cannot be made is replaced by memory, except  *)
(* in production.                                                          *)

Production == cfg.env = "production"

\* A connection that answers the first ping, one that does not and is closed, and
\* one that could not be created.
OpenPool ==
    /\ stage = "pool"
    /\ \/ pool' = "open" /\ stage' = "valkey"
       \/ pool' = (IF Production THEN "closed" ELSE "none")
          /\ stage' = (IF Production THEN "refused" ELSE "valkey")
       \/ pool' = "none"
          /\ stage' = (IF Production THEN "refused" ELSE "valkey")
    /\ UNCHANGED <<role, cfg, valkey, busy, cut, hookVars, boots>>

Closed(c) == IF c = "open" THEN "closed" ELSE c

OpenValkey ==
    /\ stage = "valkey"
    /\ \/ valkey' = "open" /\ stage' = "up" /\ UNCHANGED pool
       \/ /\ valkey' \in (IF Production THEN {"closed", "none"} ELSE {"none"})
          /\ stage' = (IF Production THEN "refused" ELSE "up")
          /\ pool' = (IF Production THEN Closed(pool) ELSE pool)
    /\ UNCHANGED <<role, cfg, busy, cut, hookVars, boots>>

----------------------------------------------------------------------------
(* The server and the worker's loop, and how they end.                     *)

\* A request comes in, also in the 100 ms after the signal; a tick starts the job, also
\* when the signal is there already and select takes the other ready channel.
Begin ==
    /\ stage \in {"up", "draining"}
    /\ busy < IF role = "api" THEN MaxBusy ELSE 1
    /\ busy' = busy + 1
    /\ UNCHANGED <<role, stage, cfg, connVars, cut, hookVars, boots>>

End ==
    /\ stage \in {"up", "draining", "closing", "stopped"} /\ busy > 0
    /\ busy' = busy - 1
    /\ UNCHANGED <<role, stage, cfg, connVars, cut, hookVars, boots>>

Signal ==
    /\ stage = "up"
    /\ stage' = "draining"
    /\ UNCHANGED <<role, cfg, connVars, busy, cut, hookVars, boots>>

\* srv.Shutdown closes the listeners.
StopListening ==
    /\ role = "api" /\ stage = "draining"
    /\ stage' = "closing"
    /\ UNCHANGED <<role, cfg, connVars, busy, cut, hookVars, boots>>

\* The deferred App.Close.
Close ==
    /\ stage' = "stopped"
    /\ pool' = Closed(pool) /\ valkey' = Closed(valkey)
    /\ UNCHANGED <<role, cfg, busy, hookVars, boots>>

\* Mutant: the server does not wait for requests in progress.
ShutdownAtOnce ==
    /\ stage = IF role = "api" THEN "closing" ELSE "draining"
    /\ Close
    /\ UNCHANGED cut

\* srv.Shutdown returns when no request is left; the loop returns between two jobs.
Shutdown ==
    /\ stage = IF role = "api" THEN "closing" ELSE "draining"
    /\ busy = 0
    /\ Close
    /\ UNCHANGED cut

\* HTTP_SHUTDOWN_TIMEOUT passes before the last request ends.  No handler has a
\* deadline of its own: HTTP_HANDLER_TIMEOUT is read and never used.
ShutdownTimesOut ==
    /\ role = "api" /\ stage = "closing" /\ busy > 0
    /\ Close
    /\ cut' = TRUE

\* ListenAndServe returns an error: the port is taken, or accepting fails later.
ServeFails ==
    /\ role = "api" /\ stage = "up"
    /\ Close
    /\ cut' = TRUE

\* The process exits, with whatever still runs, and is started again.
Restart ==
    /\ stage \in {"stopped", "refused"} /\ boots < MaxBoots
    /\ stage' = "load" /\ cfg' = NoConfig /\ boots' = boots + 1
    /\ pool' = "none" /\ valkey' = "none"
    /\ busy' = 0 /\ cut' = FALSE /\ unsigned' = {}
    /\ inbox' = [inbox EXCEPT !.memory = {}]
    /\ UNCHANGED <<role, seen, acked>>

----------------------------------------------------------------------------
(* The webhook gate, for one of the requests in progress.                  *)

\* VerifyStandardWebhook: any of the signatures fits, and the stamp is close enough
\* to the clock on either side.
Standard(d) ==
    /\ d.std = "signed"
    /\ -Tolerance <= d.skew /\ d.skew <= Tolerance

\* The gateways' own headers.  Hubtel's may carry the name of the hash in front.
Legacy(d) ==
    d.legacy \in (IF d.gw = "paystack" THEN {"hex"} ELSE {"hex", "sha256=hex"})

VerifyWebhook(d) ==
    /\ d.gw \in cfg.secrets
    /\ IF d.gw = "moolre" \/ d.std # "absent" THEN Standard(d) ELSE Legacy(d)

Accepts(d) ==
    IF d.gw = "moolre" /\ d.gw \notin cfg.secrets THEN ~Production
    ELSE VerifyWebhook(d)

\* What the gateway itself vouches for.
Vouched(d) == Standard(d) \/ d.legacy \in {"hex", "sha256=hex"}

\* Mutant: the event type is not part of the id.
EventIdTxOnly(d) == <<"", d.tx>>

\* parsePayload: Paystack's event type is part of the id; nothing tells the ids of
\* Hubtel from those of Moolre.
EventId(d) == <<IF d.gw = "paystack" THEN d.event ELSE "", d.tx>>

\* The store Build wired in.
Store == IF pool = "open" THEN "postgres" ELSE "memory"

\* Process as the gate sees it: no row without id and reference, no second row, and
\* the row goes again when the reference is unknown or the gateway does not answer.
\* Settlement has its steps one by one.
HandleWebhook(d) ==
    /\ role = "api" /\ stage \in {"up", "draining", "closing"} /\ busy > 0
    /\ Accepts(d)
    /\ unsigned' = IF Vouched(d) THEN unsigned ELSE unsigned \cup {d.gw}
    /\ IF ~d.complete THEN UNCHANGED <<inbox, seen, acked>>
       ELSE IF EventId(d) \in inbox[Store]
            THEN acked' = Notice(d) /\ UNCHANGED <<inbox, seen>>
            ELSE /\ seen' = seen \cup {Notice(d)}
                 /\ inbox' \in {inbox, [inbox EXCEPT ![Store] = @ \cup {EventId(d)}]}
                 /\ UNCHANGED acked
    /\ UNCHANGED <<role, stage, cfg, connVars, busy, cut, boots>>

StartupNext ==
    \/ Load \/ OpenPool \/ OpenValkey
    \/ Begin \/ End \/ Signal \/ StopListening
    \/ Shutdown \/ ShutdownTimesOut \/ ServeFails
    \/ Restart
    \/ \E d \in Deliveries : HandleWebhook(d)

StartupSpec == StartupInit /\ [][StartupNext]_startupVars

----------------------------------------------------------------------------
(* A process that works in production has both its connections, an API     *)
(* key, a limit that lets requests through and no debug log, and took no   *)
(* notification without a signature: config.Validate, Build and            *)
(* handleWebhook each keep a part of it and hand the rest on.              *)
ProductionIsGuarded ==
    stage \in {"up", "draining", "closing"} /\ Production =>
        /\ pool = "open" /\ valkey = "open"
        /\ cfg.apiKey /\ cfg.level # "debug" /\ cfg.ip > 0
        /\ unsigned = {}

(* Connections are closed last and closed for certain: a process that gave *)
(* up or stopped holds none, on every error path of Build and of run, and  *)
(* nothing still works on a closed pool unless the server was cut off.     *)
CloseIsLast ==
    /\ stage \in {"stopped", "refused"} => pool # "open" /\ valkey # "open"
    /\ busy > 0 /\ "closed" \in {pool, valkey} => cut

(* A notification is turned away as a duplicate only if its transaction    *)
(* was recorded before, and if it is Paystack's and names its event, only  *)
(* if Paystack had notified of that very event: across restarts, and       *)
(* whatever rows were taken back.                                          *)
DuplicateWasSeen ==
    acked # NoNotice => \E n \in seen :
        /\ n.tx = acked.tx
        /\ acked.gw = "paystack" /\ acked.event # "" => n = acked
=============================================================================
