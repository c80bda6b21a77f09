---------------------------- MODULE MCDeployment ----------------------------
(* What every deployment rests on, for TLC.  Startup, Stores, Money and    *)
(* Apps share no state: a behaviour is one of any of them, and the others  *)
(* keep their initial states.                                              *)
EXTENDS Startup, Stores, Money, Apps

CONSTANTS k1, k2, k3

VARIABLE part

MCInit ==
    /\ part \in {"startup", "stores", "money", "apps"}
    /\ StartupInit /\ StoresInit /\ MoneyInit /\ AppsInit
    /\ part # "startup" => role = "api"
    /\ part # "apps" => backend = "memory"

MCNext ==
    /\ UNCHANGED part
    /\ \/ part = "startup" /\ StartupNext /\ UNCHANGED <<storesVars, batches, appsVars>>
       \/ part = "stores" /\ StoresNext /\ UNCHANGED <<startupVars, batches, appsVars>>
       \/ part = "money" /\ MoneyNext /\ UNCHANGED <<startupVars, storesVars, appsVars>>
       \/ part = "apps" /\ AppsNext /\ UNCHANGED <<startupVars, storesVars, batches>>

MCSpec == MCInit /\ [][MCNext]_<<part, startupVars, storesVars, batches, appsVars>>

\* Every mixture of the settings Validate looks at, without webhook secrets, and
\* every mixture of secrets with the defaults of the others.
Settings ==
    [env : {"", "staging", "production", "prod"}, level : {"", "debug", "loud"},
     port : {Unset, Junk, 0}, rps : {Unset, 0}, ipPerMinute : {Unset, 0, 7},
     primary : {"", "stripe"}, databaseUrl : BOOLEAN, apiKey : BOOLEAN,
     authKey : BOOLEAN, paystackKey : {FALSE}, secrets : {{}}, inRange : BOOLEAN]
Secrets ==
    [env : {"", "production"}, level : {""}, port : {Unset}, rps : {Unset},
     ipPerMinute : {Unset}, primary : {""}, databaseUrl : {TRUE}, apiKey : {TRUE},
     authKey : {FALSE}, paystackKey : BOOLEAN,
     secrets : {{"hubtel"}, {"moolre"}, {"hubtel", "paystack", "moolre"}}, inRange : {TRUE}]
SomeEnvirons == Settings \cup Secrets

\* Complete notifications under every header, and incomplete ones.
SomeDeliveries ==
    {d \in [gw : Senders, std : {"absent", "signed", "forged"}, skew : {-2, 0, 1, 2},
            legacy : {"absent", "hex", "sha256=hex", "forged"},
            event : {"", "success"}, tx : {"t"}, complete : BOOLEAN] :
        /\ d.std = "signed" \/ d.skew = 0
        /\ d.gw = "paystack" \/ d.event = ""
        /\ d.complete \/ d.event = ""}

\* Two pairs of product and key that read the same once joined, and one that does not.
SomeJoined == [k \in Keys |-> IF k = k3 THEN "shop:c" ELSE "shop:a:b"]

\* Every pair of amounts of four bits, amounts with and without a currency, two
\* currencies, an amount that is none, and three amounts that wrap to a positive one.
SomeRequests ==
    LET ghs == {New(n, "GHS") : n \in 1..7} IN
    {<<m>> : m \in ghs} \cup {<<m, o>> : m, o \in ghs}
    \cup {<<New(3, ""), New(3, "GHS")>>, <<New(3, "GHS"), New(3, "USD")>>,
          <<New(0, "GHS")>>, <<>>, <<New(7, "GHS"), New(7, "GHS"), New(4, "GHS")>>}
=============================================================================
