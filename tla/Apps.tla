-------------------------------- MODULE Apps ---------------------------------
(***************************************************************************)
(* Apps and their API keys under concurrent calls.  RotateKey reads the    *)
(* app, then replaces the hash in a later statement; the caller is told    *)
(* the key only in the answer, and the stores keep nothing but its hash.   *)
(*                                                                         *)
(* Each call generates its own key, so a call names its key.  Nothing in   *)
(* the repository asks GetAppByHash: bearerAuth knows only the one key of  *)
(* the configuration.                                                      *)
(***************************************************************************)
EXTENDS FiniteSets, Naturals

CONSTANTS
    AppIds, Names,
    AppCalls,   \* requests, each with the key it may generate
    Lost,       \* bound on answers that do not reach the caller
    NoApp, NoName, NoHash

ASSUME AppsAssumption ==
    /\ IsFiniteSet(AppCalls) /\ Lost \in Nat
    /\ NoApp \notin AppIds /\ NoName \notin Names /\ NoHash \notin AppCalls

VARIABLES
    backend,   \* "postgres" or "memory"
    name,      \* the app's name, or NoName when there is no such app
    hash,      \* whose key's hash is stored with it
    revoked,
    pcs,       \* each call: new, update, exists, answer or over
    target,    \* the app it is about
    answer,    \* what it is about to answer
    told,      \* calls whose caller holds the key
    late,      \* calls that began when their app was revoked
    lost

appVars == <<name, hash, revoked>>
appsVars == <<backend, appVars, pcs, target, answer, told, late, lost>>

AppsTypeOK ==
    /\ backend \in {"postgres", "memory"}
    /\ name \in [AppIds -> Names \cup {NoName}]
    /\ hash \in [AppIds -> AppCalls \cup {NoHash}]
    /\ revoked \subseteq AppIds
    /\ pcs \in [AppCalls -> {"new", "update", "exists", "answer", "over"}]
    /\ target \in [AppCalls -> AppIds \cup {NoApp}]
    /\ answer \in [AppCalls -> {"none", "key", "done", "not_found", "invalid", "conflict", "internal"}]
    /\ told \subseteq AppCalls /\ late \subseteq AppCalls
    /\ lost \in 0..Lost

AppsInit ==
    /\ backend \in {"postgres", "memory"}
    /\ name = [a \in AppIds |-> NoName]
    /\ hash = [a \in AppIds |-> NoHash]
    /\ revoked = {}
    /\ pcs = [c \in AppCalls |-> "new"]
    /\ target = [c \in AppCalls |-> NoApp]
    /\ answer = [c \in AppCalls |-> "none"]
    /\ told = {} /\ late = {} /\ lost = 0

Exists(a) == name[a] # NoName

Says(c, what) ==
    /\ pcs' = [pcs EXCEPT ![c] = "answer"]
    /\ answer' = [answer EXCEPT ![c] = what]

\* A statement whose reply the service does not get: it may have been executed, and
\* the caller hears of an internal error.
Fails(c) ==
    /\ backend = "postgres" /\ lost < Lost
    /\ lost' = lost + 1
    /\ pcs' = [pcs EXCEPT ![c] = "answer"]
    /\ answer' = [answer EXCEPT ![c] = "internal"]

----------------------------------------------------------------------------
\* The UNIQUE violation of PostgreSQL is not recognized as a conflict.
CreateApp(c, a, n) ==
    /\ pcs[c] = "new" /\ ~Exists(a)
    /\ target' = [target EXCEPT ![c] = a]
    /\ IF \E b \in AppIds : name[b] = n
       THEN /\ Says(c, IF backend = "memory" THEN "conflict" ELSE "internal")
            /\ UNCHANGED <<appVars, lost>>
       ELSE \/ /\ name' = [name EXCEPT ![a] = n]
               /\ hash' = [hash EXCEPT ![a] = c]
               /\ (Says(c, "key") /\ UNCHANGED lost) \/ Fails(c)
               /\ UNCHANGED revoked
            \/ Fails(c) /\ UNCHANGED appVars
    /\ UNCHANGED <<backend, told, late>>

\* Mutant: the revocation is not looked at.
RotateUnchecked(c, a) ==
    /\ pcs[c] = "new"
    /\ target' = [target EXCEPT ![c] = a]
    /\ late' = IF a \in revoked THEN late \cup {c} ELSE late
    /\ IF ~Exists(a) THEN Says(c, "not_found") /\ UNCHANGED lost
       ELSE pcs' = [pcs EXCEPT ![c] = "update"] /\ UNCHANGED <<answer, lost>>
    /\ UNCHANGED <<backend, appVars, told>>

\* RotateKey up to the check.  GetApp takes every error for a missing app.
Rotate(c, a) ==
    /\ pcs[c] = "new"
    /\ target' = [target EXCEPT ![c] = a]
    /\ late' = IF a \in revoked THEN late \cup {c} ELSE late
    /\ \/ ~Exists(a) /\ Says(c, "not_found") /\ UNCHANGED lost
       \/ Exists(a) /\ a \in revoked /\ Says(c, "invalid") /\ UNCHANGED lost
       \/ Exists(a) /\ a \notin revoked /\ pcs' = [pcs EXCEPT ![c] = "update"]
          /\ UNCHANGED <<answer, lost>>
       \/ /\ backend = "postgres" /\ lost < Lost /\ lost' = lost + 1
          /\ Says(c, "not_found")
    /\ UNCHANGED <<backend, appVars, told>>

\* The rest of RotateKey: the statement asks nothing of the app.
UpdateAppKeyHash(c) ==
    /\ pcs[c] = "update"
    /\ \/ /\ hash' = [hash EXCEPT ![target[c]] = c]
          /\ (Says(c, "key") /\ UNCHANGED lost) \/ Fails(c)
       \/ Fails(c) /\ UNCHANGED hash
    /\ UNCHANGED <<backend, name, revoked, target, told, late>>

\* Revoking twice is no error.  PostgreSQL tells a missing app from a revoked one in
\* a second statement.
RevokeApp(c, a) ==
    /\ pcs[c] = "new"
    /\ target' = [target EXCEPT ![c] = a]
    /\ \/ /\ Exists(a) /\ a \notin revoked
          /\ revoked' = revoked \cup {a}
          /\ (Says(c, "done") /\ UNCHANGED lost) \/ Fails(c)
       \/ /\ ~(Exists(a) /\ a \notin revoked) /\ backend = "postgres"
          /\ pcs' = [pcs EXCEPT ![c] = "exists"]
          /\ UNCHANGED <<revoked, answer, lost>>
       \/ /\ ~(Exists(a) /\ a \notin revoked) /\ backend = "memory"
          /\ Says(c, IF Exists(a) THEN "done" ELSE "not_found")
          /\ UNCHANGED <<revoked, lost>>
       \/ Fails(c) /\ UNCHANGED revoked
    /\ UNCHANGED <<backend, name, hash, told, late>>

\* The second statement.  Its error is dropped, and the app is taken for missing.
RevokeChecks(c) ==
    /\ pcs[c] = "exists"
    /\ \/ Says(c, IF Exists(target[c]) THEN "done" ELSE "not_found") /\ UNCHANGED lost
       \/ lost < Lost /\ lost' = lost + 1 /\ Says(c, "not_found")
    /\ UNCHANGED <<backend, appVars, target, told, late>>

\* The handler writes the answer, which may not arrive.
Respond(c) ==
    /\ pcs[c] = "answer"
    /\ pcs' = [pcs EXCEPT ![c] = "over"]
    /\ \/ told' = (IF answer[c] = "key" THEN told \cup {c} ELSE told) /\ UNCHANGED lost
       \/ lost < Lost /\ lost' = lost + 1 /\ UNCHANGED told
    /\ UNCHANGED <<backend, appVars, target, answer, late>>

AppsNext ==
    \E c \in AppCalls :
        \/ \E a \in AppIds :
              (\E n \in Names : CreateApp(c, a, n)) \/ Rotate(c, a) \/ RevokeApp(c, a)
        \/ UpdateAppKeyHash(c) \/ RevokeChecks(c)
        \/ Respond(c)

AppsSpec == AppsInit /\ [][AppsNext]_appsVars

----------------------------------------------------------------------------
(* Once the calls about an app are over and no answer was lost, somebody   *)
(* holds the key whose hash is stored, however creation, rotations and     *)
(* revocation interleave; and it comes from a call that began before the   *)
(* app was revoked, although a rotation may end after the revocation.      *)
StoredKeyIsHeld ==
    lost = 0 =>
        \A a \in AppIds :
            Exists(a) /\ (\A c \in AppCalls : target[c] = a => pcs[c] = "over") =>
                hash[a] \in told \ late
=============================================================================
