--------------------------- MODULE RedisService ---------------------------
(***************************************************************************)
(* RedisService: the connection pool that the lifespan opens and that      *)
(* get_client hands out, reconnecting when a call on it fails.  A task     *)
(* that pings, sleeps before another attempt or calls Redis is suspended,  *)
(* and other tasks use the service in the meantime.                        *)
(*                                                                         *)
(* An attempt to connect puts a new pool in the place of the last one,     *)
(* which nobody disconnects, and pings its own: by the time the ping       *)
(* answers, the attempt of another task may have replaced the pool.        *)
(*                                                                         *)
(* Every ping and every call may fail: the server, or the network, comes   *)
(* and goes as it likes.                                                   *)
(***************************************************************************)
EXTENDS Naturals, AppTasks

CONSTANT MaxRetries   \* _max_retries

ASSUME RedisAssumption == MaxRetries \in Nat \ {0}

VARIABLES
    configured,  \* REDIS_HOST and REDIS_PORT are set
    pool,        \* the connection pool that is in place
    connected,   \* is_connected
    available,   \* is_available
    gaveUp,      \* _initialization_failed
    redis,       \* where each task is in the service
    stray,       \* history: a pool that answered was replaced, or never in place
    lost         \* history: a call lost its connection

flags     == <<pool, connected, available, gaveUp, stray>>
redisVars == <<configured, flags, redis, lost>>

-----------------------------------------------------------------------------
(* A task in the service: what it does, the attempt it is at, and what it  *)
(* called initialize for: to open the pool at the start, to connect before *)
(* its call, or to reconnect after its call failed.                        *)

Out == [at |-> "out", attempt |-> 0, for |-> "nothing"]

Steps == [at : {"pinging", "sleeping"}, attempt : 1..MaxRetries,
          for : {"startup", "connect", "reconnect"}]

Calling == [at |-> "calling", attempt |-> 0, for |-> "nothing"]

\* A pool: whether its ping answered, whose attempt made it, and whether another
\* task was pinging a former pool at that moment.
Pools == [state : {"untried", "answered", "failed"}, by : Tasks, contested : BOOLEAN]

NoPool == [state |-> "none", by |-> Lifespan, contested |-> FALSE]

RedisInit ==
    /\ configured \in BOOLEAN
    /\ pool = NoPool /\ connected = FALSE /\ available = FALSE /\ gaveUp = FALSE
    /\ redis = [t \in Tasks |-> Out]
    /\ stray = FALSE /\ lost = FALSE

Enter(t, s) == redis' = [redis EXCEPT ![t] = s]

Initialising(t) == redis[t].at \in {"pinging", "sleeping"}

\* is_connected and is_available, which the code changes together.
Mark(b) == connected' = b /\ available' = b

Pinging(t) == redis[t].at = "pinging"

\* What t pings is the pool in place, and not one that it replaced.
PingsPool(t) == Pinging(t) /\ pool # NoPool /\ pool.by = t

Attempt(t, n, why) ==
    /\ pool' = [state |-> "untried", by |-> t, contested |-> \E o \in Tasks \ {t} : Pinging(o)]
    /\ stray' = (stray \/ pool.state = "answered")
    /\ Enter(t, [at |-> "pinging", attempt |-> n, for |-> why])

\* initialize.  The guards read the flags the caller leaves, conn and avail.
initialize(t, why, conn, avail) ==
    IF pool # NoPool /\ conn /\ avail
    THEN connected' = conn /\ available' = avail /\ UNCHANGED <<pool, gaveUp, stray>> /\ Enter(t, Out)
    ELSE IF ~configured
    THEN Mark(FALSE) /\ gaveUp' = TRUE /\ UNCHANGED <<pool, stray>> /\ Enter(t, Out)
    ELSE /\ connected' = conn /\ available' = avail
         /\ gaveUp' = FALSE
         /\ Attempt(t, 1, why)

\* The ping answers, whichever pool is in place by now.  A caller that
\* reconnected is given a second client, and the context manager raises: it may
\* yield one only.
Connect(t) ==
    /\ Pinging(t)
    /\ Mark(TRUE)
    /\ IF PingsPool(t) THEN pool' = [pool EXCEPT !.state = "answered"] /\ UNCHANGED stray
                       ELSE stray' = TRUE /\ UNCHANGED pool
    /\ Enter(t, IF redis[t].for = "connect" THEN Calling ELSE Out)
    /\ UNCHANGED <<configured, gaveUp, lost>>

\* Mutant of IsLast: the loop makes one attempt too many.
IsBeyond(t) == redis[t].attempt > MaxRetries

IsLast(t) == redis[t].attempt = MaxRetries

\* Mutant of GivesUp: that initialisation failed is not kept.
GivesUpUntold(t) == gaveUp' = FALSE /\ Enter(t, Out)

GivesUp(t) == gaveUp' = TRUE /\ Enter(t, Out)

\* The ping fails.  After the last attempt the caller gives up, which at the
\* start is silent and later raises.
PingFails(t) ==
    /\ Pinging(t)
    /\ Mark(FALSE)
    /\ pool' = IF PingsPool(t) THEN [pool EXCEPT !.state = "failed"] ELSE pool
    /\ IF IsLast(t)
       THEN GivesUp(t)
       ELSE Enter(t, [redis[t] EXCEPT !.at = "sleeping"]) /\ UNCHANGED gaveUp
    /\ UNCHANGED <<configured, stray, lost>>

\* Mutant of SleepEnds: the attempt is not counted.
SleepUncounted(t) ==
    /\ redis[t].at = "sleeping"
    /\ Attempt(t, redis[t].attempt, redis[t].for)
    /\ UNCHANGED <<configured, connected, available, gaveUp, lost>>

SleepEnds(t) ==
    /\ redis[t].at = "sleeping"
    /\ Attempt(t, redis[t].attempt + 1, redis[t].for)
    /\ UNCHANGED <<configured, connected, available, gaveUp, lost>>

\* get_client, up to its yield, and the call that its body makes.
get_client(t) ==
    /\ redis[t] = Out
    /\ CASE ~available -> UNCHANGED <<flags, redis>>
         [] available /\ pool # NoPool /\ connected -> Enter(t, Calling) /\ UNCHANGED flags
         [] OTHER -> initialize(t, "connect", connected, available)
    /\ UNCHANGED <<configured, lost>>

\* The call answers, or fails with an error that is not about the connection.
CallEnds(t) ==
    /\ redis[t].at = "calling"
    /\ Enter(t, Out)
    /\ UNCHANGED <<configured, flags, lost>>

ConnectionLost(t) ==
    /\ redis[t].at = "calling"
    /\ initialize(t, "reconnect", FALSE, FALSE)
    /\ lost' = TRUE
    /\ UNCHANGED configured

\* close: the pool in place is disconnected.
close ==
    /\ pool' = NoPool
    /\ connected' = IF pool # NoPool THEN FALSE ELSE connected
    /\ UNCHANGED <<configured, available, gaveUp, redis, stray, lost>>

\* A task is cancelled: no except clause of the service catches it.
RedisCancel(T) ==
    /\ redis' = [t \in Tasks |-> IF t \in T THEN Out ELSE redis[t]]
    /\ UNCHANGED <<configured, flags, lost>>

RedisStep(t) ==
    Connect(t) \/ PingFails(t) \/ SleepEnds(t) \/ CallEnds(t) \/ ConnectionLost(t)

RedisTypeOK ==
    /\ configured \in BOOLEAN
    /\ pool \in Pools \cup {NoPool} /\ stray \in BOOLEAN /\ lost \in BOOLEAN
    /\ connected \in BOOLEAN /\ available \in BOOLEAN /\ gaveUp \in BOOLEAN
    /\ redis \in [Tasks -> {Out, Calling} \cup Steps]
=============================================================================
