------------------------------ MODULE RateLimit ------------------------------
(***************************************************************************)
(* RateLimitMiddleware: a window of a fixed length for each client, which   *)
(* its first request opens, and in which so many requests are let through.  *)
(* Now and then the windows that are over are forgotten.                    *)
(***************************************************************************)
EXTENDS Integers, Sequences, FiniteSets

CONSTANTS
    Clients,      \* client addresses
    Calls,        \* calls
    Period,       \* period
    Every,        \* requests from one cleanup to the next (100)
    MaxClients,   \* windows above which every request cleans up (10000)
    Horizon,      \* bound on the time
    MaxPassed     \* bound on the requests of a client that are let through

ASSUME LimitAssumption ==
    /\ Calls \in Nat \ {0} /\ Every \in Nat \ {0}
    /\ Period \in Nat /\ MaxClients \in Nat /\ Horizon \in Nat
    /\ MaxPassed \in Nat

VARIABLES
    now,       \* time.time()
    clients,   \* the clients that have a window, with its count and its start
    counter,   \* _request_count, modulo Every
    passed,    \* history: when requests of each client were let through
    refused    \* history: when the last request was refused, and whose it was

limitVars == <<now, clients, counter, passed, refused>>

-----------------------------------------------------------------------------

Nobody == [client |-> "none", at |-> 0]

LimitInit ==
    /\ now = 0 /\ counter = 0
    /\ clients = << >>
    /\ passed = [c \in Clients |-> << >>]
    /\ refused = Nobody

Elapses ==
    /\ now < Horizon /\ now' = now + 1
    /\ UNCHANGED <<clients, counter, passed, refused>>

Expired(w) == now - w.since > Period

\* Mutant of Kept: the windows that are full are forgotten too.
KeptOpen(w) == ~Expired(w) /\ w.count < Calls

Kept(w) == ~Expired(w)

\* _cleanup_expired, if it is due: the windows that are left.
Cleaned ==
    IF (counter + 1) % Every = 0 \/ Cardinality(DOMAIN clients) > MaxClients
    THEN [c \in {d \in DOMAIN clients : Kept(clients[d])} |-> clients[c]]
    ELSE clients

Opened == [count |-> 1, since |-> now]

\* Mutant of Counts: a refused request counts, and opens the window anew.
CountsRefused(w) == [count |-> w.count + 1, since |-> IF w.count < Calls THEN w.since ELSE now]

Counts(w) == IF w.count < Calls THEN [w EXCEPT !.count = @ + 1] ELSE w

\* dispatch and _is_rate_limited.
dispatch(c) ==
    LET windows == Cleaned
        known   == c \in DOMAIN windows /\ ~Expired(windows[c])
        limited == known /\ windows[c].count >= Calls
        window  == IF known THEN Counts(windows[c]) ELSE Opened
    IN  /\ counter' = (counter + 1) % Every
        /\ clients' = [d \in (DOMAIN windows) \cup {c} |-> IF d = c THEN window ELSE windows[d]]
        /\ IF limited
           THEN refused' = [client |-> c, at |-> now] /\ UNCHANGED passed
           ELSE passed' = [passed EXCEPT ![c] = Append(@, now)] /\ UNCHANGED refused
        /\ UNCHANGED now

LimitNext == Elapses \/ \E c \in Clients : Len(passed[c]) < MaxPassed /\ dispatch(c)

LimitSpec == LimitInit /\ [][LimitNext]_limitVars

-----------------------------------------------------------------------------

\* Every variable has its type.
LimitTypeOK ==
    /\ now \in 0..Horizon /\ counter \in 0..Every - 1
    /\ DOMAIN clients \subseteq Clients
    /\ \A c \in DOMAIN clients : clients[c].count \in 1..Calls /\ clients[c].since \in 0..now
    /\ \A c \in Clients : passed[c] \in Seq(0..now)

Since(c, from) == Cardinality({i \in DOMAIN passed[c] : passed[c][i] >= from})

\* Fewer than twice the limit pass in any period, the edge of two windows and
\* cleanups included; and a request is refused only if as many as the limit
\* have passed in the last period.
Throttled ==
    /\ \A c \in Clients : \A i \in DOMAIN passed[c] :
         LET j == i + 2 * Calls - 1 IN j \in DOMAIN passed[c] => passed[c][j] - passed[c][i] > Period
    /\ refused # Nobody /\ refused.at = now => Since(refused.client, now - Period) >= Calls
=============================================================================
