--------------------------- MODULE KaggleSession ---------------------------
(***************************************************************************)
(* What the threads that call Kaggle share: the authenticated API client,  *)
(* and the session for the internal ListModels endpoint, which a call      *)
(* drops and builds anew when it is refused.  The session's lock is held   *)
(* while it is built, and not while a request is posted with it.           *)
(***************************************************************************)
EXTENDS Naturals, AppTasks

CONSTANTS
    NoThread,     \* nobody holds a lock
    MaxFailures   \* bound on refused and failed requests

ASSUME SessionAssumption == NoThread \notin Requests /\ MaxFailures \in Nat

\* A request to a market has one thread here, named after it.
VARIABLES
    session,      \* _session: a number, 0 for None
    built,        \* sessions built so far, numbered from 1
    expired,      \* sessions that Kaggle refuses
    sessionLock,  \* _session_lock
    post,         \* the call of _post_list_models that each thread is in
    client,       \* _kaggle_api_singleton: 0 for None
    clientLock,   \* _client_lock
    get,          \* the call of get_kaggle_client that each thread is in
    logins,       \* API clients authenticated so far, numbered from 1
    failures      \* first attempts that failed so far, and all that failed

postVars    == <<session, built, expired, sessionLock, post>>
getVars     == <<client, clientLock, get, logins>>
sessionVars == <<postVars, getVars, failures>>

-----------------------------------------------------------------------------

NoPost == [at |-> "idle", attempt |-> 1, session |-> 0]

NoGet == [at |-> "idle", got |-> 0]

SessionInit ==
    /\ session = 0 /\ built = 0 /\ expired = {}
    /\ sessionLock = NoThread /\ clientLock = NoThread
    /\ post = [t \in Requests |-> NoPost]
    /\ client = 0 /\ logins = 0
    /\ get = [t \in Requests |-> NoGet]
    /\ failures = [first |-> 0, all |-> 0]

Posts(t, p) == post' = [post EXCEPT ![t] = p]

-----------------------------------------------------------------------------
(* _post_list_models.                                                      *)

PostBegins(t) ==
    /\ post[t].at = "idle"
    /\ Posts(t, [NoPost EXCEPT !.at = "getting"])
    /\ UNCHANGED <<session, built, expired, sessionLock, getVars, failures>>

\* _get_session: the second attempt builds one whatever is there.
TakesSession(t) ==
    /\ post[t].at = "getting" /\ sessionLock = NoThread
    /\ IF post[t].attempt = 2 \/ session = 0
       THEN Posts(t, [post[t] EXCEPT !.at = "building"]) /\ sessionLock' = t
       ELSE Posts(t, [post[t] EXCEPT !.at = "posting", !.session = session])
            /\ UNCHANGED sessionLock
    /\ UNCHANGED <<session, built, expired, getVars, failures>>

\* _build_session answers.
Built(t) ==
    /\ post[t].at = "building"
    /\ built' = built + 1 /\ session' = built + 1
    /\ sessionLock' = NoThread
    /\ Posts(t, [post[t] EXCEPT !.at = "posting", !.session = built + 1])
    /\ UNCHANGED <<expired, getVars, failures>>

\* The attempt fails: after the first one the session is dropped.
Again(t) == [post[t] EXCEPT !.at = IF post[t].attempt = 1 THEN "dropping" ELSE "none"]

Failed(t) ==
    /\ failures.all < MaxFailures
    /\ failures' = [all   |-> failures.all + 1,
                    first |-> failures.first + IF post[t].attempt = 1 THEN 1 ELSE 0]
    /\ Posts(t, Again(t))

BuildFails(t) ==
    /\ post[t].at = "building"
    /\ Failed(t)
    /\ sessionLock' = NoThread
    /\ UNCHANGED <<session, built, expired, getVars>>

\* 400, 401 or 403, another error, or no answer in time.
Refused(t) ==
    /\ post[t].at = "posting"
    /\ Failed(t)
    /\ UNCHANGED <<session, built, expired, sessionLock, getVars>>

Accepted(t) ==
    /\ post[t].at = "posting" /\ post[t].session \notin expired
    /\ Posts(t, [post[t] EXCEPT !.at = "answered"])
    /\ UNCHANGED <<session, built, expired, sessionLock, getVars, failures>>

\* reset_internal_session: of whatever session is there by now.
Drops(t) ==
    /\ post[t].at = "dropping" /\ sessionLock = NoThread
    /\ session' = 0
    /\ Posts(t, [post[t] EXCEPT !.at = "getting", !.attempt = 2])
    /\ UNCHANGED <<built, expired, sessionLock, getVars, failures>>

\* Kaggle no longer takes the sessions there are.
Expire ==
    /\ 1..built # expired /\ failures.all < MaxFailures
    /\ expired' = 1..built
    /\ UNCHANGED <<session, built, sessionLock, post, getVars, failures>>

-----------------------------------------------------------------------------
(* get_kaggle_client.                                                      *)

Gets(t, g) == get' = [get EXCEPT ![t] = g]

Got(t) == Gets(t, [at |-> "got", got |-> client])

GetBegins(t) ==
    /\ get[t].at = "idle"
    /\ IF client # 0 THEN Got(t) ELSE Gets(t, [NoGet EXCEPT !.at = "waiting"])
    /\ UNCHANGED <<client, clientLock, logins, postVars, failures>>

\* Mutant of Enters: it does not look again once it has the lock.
EntersBlind(t) ==
    /\ get[t].at = "waiting" /\ clientLock = NoThread
    /\ Gets(t, [NoGet EXCEPT !.at = "authenticating"]) /\ clientLock' = t
    /\ UNCHANGED <<client, logins, postVars, failures>>

Enters(t) ==
    /\ get[t].at = "waiting" /\ clientLock = NoThread
    /\ IF client # 0
       THEN Got(t) /\ UNCHANGED clientLock
       ELSE Gets(t, [NoGet EXCEPT !.at = "authenticating"]) /\ clientLock' = t
    /\ UNCHANGED <<client, logins, postVars, failures>>

Authenticated(t) ==
    /\ get[t].at = "authenticating"
    /\ client' = logins + 1 /\ logins' = logins + 1
    /\ Gets(t, [at |-> "got", got |-> logins + 1])
    /\ clientLock' = NoThread
    /\ UNCHANGED <<postVars, failures>>

\* The import or authenticate fails: 503, and the next caller tries again.
AuthenticationFails(t) ==
    /\ get[t].at = "authenticating"
    /\ Gets(t, [NoGet EXCEPT !.at = "failed"])
    /\ clientLock' = NoThread
    /\ UNCHANGED <<client, logins, postVars, failures>>

-----------------------------------------------------------------------------

PostStep(t) ==
    \/ TakesSession(t) \/ Built(t) \/ BuildFails(t) \/ Refused(t) \/ Accepted(t) \/ Drops(t)

GetStep(t) == Enters(t) \/ Authenticated(t) \/ AuthenticationFails(t)

SessionNext ==
    \/ Expire
    \/ \E t \in Requests : PostBegins(t) \/ PostStep(t) \/ GetBegins(t) \/ GetStep(t)

SessionSpec == SessionInit /\ [][SessionNext]_sessionVars

-----------------------------------------------------------------------------

\* Every variable has its type, and a lock is held by the thread that builds.
SessionTypeOK ==
    /\ session \in 0..built /\ built \in Nat /\ expired \subseteq 1..built
    /\ sessionLock \in Requests \cup {NoThread}
    /\ post \in [Requests -> [
           at : {"idle", "getting", "building", "posting", "dropping", "answered", "none"},
           attempt : 1..2, session : 0..built]]
    /\ client \in 0..logins /\ logins \in Nat
    /\ clientLock \in Requests \cup {NoThread}
    /\ get \in [Requests -> [
           at : {"idle", "waiting", "authenticating", "got", "failed"}, got : 0..logins]]
    /\ failures \in [first : 0..MaxFailures, all : 0..MaxFailures]

\* What is shared is built once: there is one API client, and every thread has
\* it; there is one session until a call fails, and a failed call costs two at
\* most, its own and that of another it dropped the session of.
BuiltOnce ==
    /\ logins <= 1
    /\ \A t \in Requests : get[t].at = "got" => get[t].got = client /\ client # 0
    /\ built <= 1 + 2 * failures.first
=============================================================================
