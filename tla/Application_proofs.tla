------------------------- MODULE Application_proofs -------------------------
(***************************************************************************)
(* Proofs about Application, with the Redis service and the service        *)
(* manager, for any requests, any number of attempts and any failures.     *)
(***************************************************************************)
EXTENDS Application, TLAPS

-----------------------------------------------------------------------------
(* The inductive invariant.                                                *)

\* Who sleeps has an attempt left: the number of an attempt stays in its bounds.
Retries == \A t \in Tasks : redis[t].at = "sleeping" => redis[t].attempt < MaxRetries

\* Redis, from the start until it is closed: who initialises it has made a pool,
\* the two flags agree, and a Redis that is down has been given up, or somebody
\* is at it.
Connections ==
    /\ phase # "stopped" =>
         /\ connected <=> available
         /\ connected => pool # NoPool
         /\ \A t \in Tasks : Initialising(t) => pool # NoPool
    /\ phase \in {"redis", "serving"} /\ ~available =>
         gaveUp \/ \E t \in Tasks : Initialising(t)

\* Which pool is in place.  Who pings another one was pinging it when the pool in
\* place was made.
Contested ==
    /\ \A t \in Tasks : Pinging(t) /\ pool.by # t => pool.contested
    /\ available /\ phase \notin {"closing", "stopped"} =>
         pool.state = "answered" \/ PingsPool(pool.by) \/ pool.contested

\* As long as no call has lost its connection, the lifespan alone has made pools:
\* it replaces those that failed, and one that answered is available.
Unreplaced ==
    ~lost =>
      /\ ~stray
      /\ \A t \in Tasks : Initialising(t) =>
           t = Lifespan /\ pool.by = t /\ pool.state # "answered"
      /\ pool.state = "answered" => available /\ phase # "stopped"

\* Who uses Redis: the lifespan as it starts, and requests as they are served.
Users ==
    /\ phase # "redis" => redis[Lifespan] = Out
    /\ phase \in {"closing", "stopped"} => \A t \in Tasks : redis[t] = Out
    /\ ~hosted => phase = "off"

\* Nothing but the service in place has a client.
Alone == \A s \in Services \ {storage} : client[s] \in {"unmade", "closed"}

InPlace == storage # NoService /\ holds[Lifespan] = storage

\* The service manager, with a server: the lifespan alone initialises it and
\* cleans it up, and there are requests only in between.
Managed ==
    hosted =>
      /\ \A r \in Requests : manager[r] = "out" /\ request[r].at # "getting"
      /\ phase # "serving" => \A r \in Requests : request[r] = NoRequest
      /\ phase # "failed" => Alone
      /\ phase = "off" => manager[Lifespan] = "out" /\ storage = NoService
      /\ phase = "manager" =>
           /\ manager[Lifespan] \in {"opening", "out", "closed"}
           /\ manager[Lifespan] = "opening" => InPlace /\ ~initialized
           /\ manager[Lifespan] = "out" =>
                initialized /\ hf /\ storage # NoService /\ client[storage] = "open"
      /\ phase \in {"redis", "serving"} =>
           /\ manager[Lifespan] = "out"
           /\ initialized /\ hf /\ storage # NoService /\ client[storage] = "open"
           /\ \A r \in Requests : request[r].at = "calling" => holds[r] = storage
      /\ phase \in {"closing", "stopped"} =>
           /\ manager[Lifespan] \in {"closing", "closing_hf", "closed"}
           /\ manager[Lifespan] = "closing" => InPlace /\ initialized
           /\ manager[Lifespan] = "closing_hf" => storage = NoService /\ initialized
           /\ ~initialized => storage = NoService /\ ~hf
      /\ phase = "stopped" => manager[Lifespan] = "closed"

IInv ==
    /\ TypeOK /\ Retries /\ Connections /\ Users /\ Managed
    /\ Contested /\ Unreplaced

-----------------------------------------------------------------------------
(* The types.                                                              *)

RedisState == {Out, Calling} \cup Steps

LEMMA States == Out \in RedisState /\ Calling \in RedisState /\ Steps \subseteq RedisState
  BY DEF RedisState

\* An attempt puts in place the pool that it pings.
LEMMA Attempts ==
    ASSUME RedisTypeOK, NEW t \in Tasks, NEW n \in 1..MaxRetries,
           NEW why \in {"startup", "connect", "reconnect"}, Attempt(t, n, why)
    PROVE  /\ pool' \in Pools /\ pool'.by = t /\ pool'.state = "untried" /\ pool' # NoPool
           /\ \A o \in Tasks \ {t} : Pinging(o) => pool'.contested
           /\ stray' \in BOOLEAN /\ (stray' => stray \/ pool.state = "answered")
           /\ redis' \in [Tasks -> RedisState] /\ redis'[t].at = "pinging"
           /\ \A u \in Tasks \ {t} : redis'[u] = redis[u]
<1> DEFINE s == [at |-> "pinging", attempt |-> n, for |-> why]
           others == \E o \in Tasks \ {t} : Pinging(o)
           p == [state |-> "untried", by |-> t, contested |-> others]
<1>1. pool' = p /\ stray' = (stray \/ pool.state = "answered") /\ redis' = [redis EXCEPT ![t] = s]
  BY DEF Attempt, Enter
<1>2. s \in Steps /\ s.at = "pinging"
  BY DEF Steps
<1>3. others \in BOOLEAN /\ \A o \in Tasks \ {t} : Pinging(o) => others
  OBVIOUS
<1> HIDE DEF others
<1>4. p \in Pools /\ p.by = t /\ p.state = "untried" /\ p.contested = others
  BY <1>3 DEF Pools
<1> HIDE DEF s, p
<1>5. redis' \in [Tasks -> RedisState] /\ redis'[t] = s
      /\ \A u \in Tasks \ {t} : redis'[u] = redis[u]
  BY <1>1, <1>2, States DEF RedisTypeOK, RedisState
<1>6. pool' # NoPool
  BY <1>1, <1>4 DEF NoPool
<1>7. stray' \in BOOLEAN /\ (stray' => stray \/ pool.state = "answered")
  BY <1>1 DEF RedisTypeOK
<1> QED
  BY <1>1, <1>2, <1>3, <1>4, <1>5, <1>6, <1>7

\* What initialize does: nothing to a service that is up, it gives up for want of
\* a configuration, or its first attempt begins.
LEMMA Initialises ==
    ASSUME RedisTypeOK, NEW t \in Tasks, NEW why \in {"startup", "connect", "reconnect"},
           NEW conn \in BOOLEAN, NEW avail \in BOOLEAN, initialize(t, why, conn, avail)
    PROVE  /\ pool' \in Pools \cup {NoPool} /\ stray' \in BOOLEAN
           /\ connected' \in BOOLEAN /\ available' \in BOOLEAN
           /\ gaveUp' \in BOOLEAN /\ redis' \in [Tasks -> RedisState]
           /\ \A u \in Tasks \ {t} : redis'[u] = redis[u]
           /\ redis'[t] = Out \/ redis'[t].at = "pinging"
           /\ pool # NoPool => pool' # NoPool
           /\ \/ redis'[t] = Out /\ pool # NoPool /\ connected' /\ available' /\ conn /\ avail
              \/ redis'[t] = Out /\ ~connected' /\ ~available' /\ gaveUp'
              \/ /\ Initialising(t)' /\ pool' # NoPool
                 /\ (connected' <=> conn) /\ (available' <=> avail)
           /\ \/ redis'[t] = Out /\ UNCHANGED <<pool, stray>>
                 /\ (conn /\ avail /\ pool # NoPool => available')
              \/ /\ redis'[t].at = "pinging" /\ pool'.by = t /\ pool'.state = "untried"
                 /\ ~(pool # NoPool /\ conn /\ avail)
                 /\ \A o \in Tasks \ {t} : Pinging(o) => pool'.contested
                 /\ stray' => stray \/ pool.state = "answered"
<1> USE DEF RedisTypeOK
<1>1. CASE pool # NoPool /\ conn /\ avail
  BY <1>1, States DEF initialize, RedisState, Enter, Out
<1>2. CASE ~(pool # NoPool /\ conn /\ avail) /\ ~configured
  BY <1>2, States DEF initialize, Mark, RedisState, Enter, Out
<1>3. CASE ~(pool # NoPool /\ conn /\ avail) /\ configured
  <2>1. /\ connected' = conn /\ available' = avail /\ gaveUp' = FALSE
        /\ Attempt(t, 1, why) /\ 1 \in 1..MaxRetries
    BY <1>3, RedisAssumption DEF initialize
  <2>2. /\ pool' \in Pools /\ pool'.by = t /\ pool'.state = "untried" /\ pool' # NoPool
        /\ \A o \in Tasks \ {t} : Pinging(o) => pool'.contested
        /\ stray' \in BOOLEAN /\ (stray' => stray \/ pool.state = "answered")
        /\ redis' \in [Tasks -> RedisState] /\ redis'[t].at = "pinging"
        /\ \A u \in Tasks \ {t} : redis'[u] = redis[u]
    BY <2>1, Attempts
  <2> QED
    BY <1>3, <2>1, <2>2 DEF Initialising
<1> QED
  BY <1>1, <1>2, <1>3

\* And so does the attempt of a task that slept.
LEMMA Waking ==
    ASSUME RedisTypeOK, Retries, NEW t \in Tasks, SleepEnds(t)
    PROVE  /\ pool' \in Pools /\ pool'.by = t /\ pool'.state = "untried" /\ pool' # NoPool
           /\ \A o \in Tasks \ {t} : Pinging(o) => pool'.contested
           /\ stray' \in BOOLEAN /\ (stray' => stray \/ pool.state = "answered")
           /\ redis' \in [Tasks -> RedisState] /\ redis'[t].at = "pinging"
           /\ \A u \in Tasks \ {t} : redis'[u] = redis[u]
<1>1. redis[t] \in Steps /\ redis[t].attempt < MaxRetries
  BY DEF SleepEnds, RedisTypeOK, Retries, Out, Calling
<1>2. /\ redis[t].attempt + 1 \in 1..MaxRetries
      /\ redis[t].for \in {"startup", "connect", "reconnect"}
      /\ Attempt(t, redis[t].attempt + 1, redis[t].for)
  BY <1>1, RedisAssumption DEF Steps, SleepEnds
<1> QED
  BY <1>2, Attempts

LEMMA RedisStepType ==
    ASSUME RedisTypeOK, Retries, NEW t \in Tasks, RedisStep(t)
    PROVE  RedisTypeOK' /\ Retries'
<1> USE DEF Retries
<1>1. CASE Connect(t)
  <2>1. pool' \in Pools \cup {NoPool} /\ stray' \in BOOLEAN
    <3>1. CASE PingsPool(t)
      BY <1>1, <3>1, TasksAssumption DEF Connect, PingsPool, RedisTypeOK, Pools, NoPool
    <3>2. CASE ~PingsPool(t)
      BY <1>1, <3>2 DEF Connect, RedisTypeOK
    <3> QED
      BY <3>1, <3>2
  <2>2. redis' \in [Tasks -> {Out, Calling} \cup Steps]
        /\ \A u \in Tasks : redis'[u] = redis[u] \/ redis'[u] \in {Out, Calling}
    BY <1>1 DEF Connect, RedisTypeOK, Enter
  <2>3. Retries'
    BY <2>2 DEF Out, Calling
  <2> QED
    BY <1>1, <2>1, <2>2, <2>3 DEF Connect, RedisTypeOK, Mark
<1>2. CASE PingFails(t)
  <2>1. redis[t] \in Steps
    BY <1>2 DEF PingFails, Pinging, RedisTypeOK, Out, Calling
  <2>0. pool' \in Pools \cup {NoPool}
    <3>1. CASE PingsPool(t)
      BY <1>2, <3>1 DEF PingFails, PingsPool, RedisTypeOK, Pools, NoPool
    <3>2. CASE ~PingsPool(t)
      BY <1>2, <3>2 DEF PingFails, RedisTypeOK
    <3> QED
      BY <3>1, <3>2
  <2>2. CASE IsLast(t)
    <3>1. /\ redis' = [redis EXCEPT ![t] = Out]
          /\ connected' = FALSE /\ available' = FALSE /\ gaveUp' = TRUE
          /\ UNCHANGED <<configured, stray, lost>>
      BY <1>2, <2>2 DEF PingFails, GivesUp, Mark, Enter
    <3>2. RedisTypeOK'
      BY <2>0, <3>1 DEF RedisTypeOK
    <3> QED
      BY <3>1, <3>2 DEF RedisTypeOK, Out
  <2>3. CASE ~IsLast(t)
    <3> DEFINE s == [redis[t] EXCEPT !.at = "sleeping"]
    <3>1. s \in Steps /\ s.attempt < MaxRetries
      BY <2>1, <2>3, RedisAssumption DEF Steps, IsLast
    <3>2. redis' = [redis EXCEPT ![t] = s]
      BY <1>2, <2>3 DEF PingFails, Enter
    <3> HIDE DEF s
    <3> QED
      BY <1>2, <2>0, <2>3, <3>1, <3>2 DEF PingFails, RedisTypeOK, Mark
  <2> QED
    BY <2>2, <2>3
<1>3. CASE SleepEnds(t)
  <2>1. /\ pool' \in Pools /\ stray' \in BOOLEAN
        /\ redis' \in [Tasks -> RedisState] /\ redis'[t].at = "pinging"
        /\ \A u \in Tasks \ {t} : redis'[u] = redis[u]
    BY <1>3, Waking
  <2> QED
    BY <1>3, <2>1 DEF SleepEnds, RedisTypeOK, RedisState
<1>4. CASE CallEnds(t)
  BY <1>4 DEF CallEnds, RedisTypeOK, Enter, flags, Out
<1>5. CASE ConnectionLost(t)
  <2>1. initialize(t, "reconnect", FALSE, FALSE) /\ configured' = configured /\ lost' = TRUE
    BY <1>5 DEF ConnectionLost
  <2>2. RedisTypeOK'
    BY <2>1, Initialises DEF RedisTypeOK, RedisState
  <2>3. /\ redis'[t] = Out \/ redis'[t].at = "pinging"
        /\ \A u \in Tasks \ {t} : redis'[u] = redis[u]
    BY <2>1, Initialises
  <2> QED
    BY <2>2, <2>3 DEF Out
<1> QED
  BY <1>1, <1>2, <1>3, <1>4, <1>5 DEF RedisStep

LEMMA GetClientType ==
    ASSUME RedisTypeOK, Retries, NEW t \in Tasks, get_client(t)
    PROVE  /\ RedisTypeOK' /\ Retries'
           /\ \A u \in Tasks \ {t} : redis'[u] = redis[u]
<1>1. CASE ~available \/ (available /\ pool # NoPool /\ connected)
  BY <1>1 DEF get_client, RedisTypeOK, Retries, Enter, flags, Calling
<1>2. CASE available /\ ~(pool # NoPool /\ connected)
  <2>1. initialize(t, "connect", connected, available) /\ UNCHANGED <<configured, lost>>
        /\ connected \in BOOLEAN /\ available \in BOOLEAN
    BY <1>2 DEF get_client, RedisTypeOK
  <2>2. RedisTypeOK'
    BY <2>1, Initialises DEF RedisTypeOK, RedisState
  <2>3. redis'[t].at # "sleeping" /\ \A u \in Tasks \ {t} : redis'[u] = redis[u]
    BY <2>1, Initialises DEF Out
  <2> QED
    BY <2>2, <2>3 DEF Retries
<1> QED
  BY <1>1, <1>2

-----------------------------------------------------------------------------
(* The service manager.                                                    *)

LEMMA ManagerStepType ==
    ASSUME ManagerTypeOK, NEW t \in Tasks, ManagerStep(t)
    PROVE  ManagerTypeOK'
<1> USE DEF ManagerTypeOK, Go, Hand
<1>1. CASE Opened(t)
  BY <1>1 DEF Opened
<1>2. CASE OpenFails(t)
  BY <1>2 DEF OpenFails, cleanup
<1>3. CASE StorageClosed(t)
  BY <1>3 DEF StorageClosed
<1>4. CASE HfClosed(t)
  BY <1>4 DEF HfClosed
<1>5. CASE CloseFails(t)
  BY <1>5 DEF CloseFails
<1> QED
  BY <1>1, <1>2, <1>3, <1>4, <1>5 DEF ManagerStep

LEMMA InitialisesServices ==
    ASSUME ManagerTypeOK, NEW t \in Tasks, initialize_services(t)
    PROVE  ManagerTypeOK'
  BY DEF initialize_services, ManagerTypeOK, Go, Hand

LEMMA CleanupType ==
    ASSUME ManagerTypeOK, NEW t \in Tasks, cleanup(t, client)
    PROVE  ManagerTypeOK'
  BY DEF cleanup, ManagerTypeOK, Go, Hand

-----------------------------------------------------------------------------
(* The types of every variable, in every step.                             *)

LEMMA InTasks ==
    /\ \A r \in Requests : r \in Tasks /\ r # Lifespan
    /\ Lifespan \in Tasks /\ \A t \in Tasks : t = Lifespan \/ t \in Requests
  BY TasksAssumption DEF Tasks, Lifespan

RequestType ==
    {NoRequest} \cup [kind : Kinds, at : {"getting", "calling", "redis", "storage"}]

LEMMA RedisFrame ==
    ASSUME RedisTypeOK, Retries, UNCHANGED redisVars
    PROVE  RedisTypeOK' /\ Retries'
  BY DEF RedisTypeOK, Retries, redisVars, flags

LEMMA ManagerFrame ==
    ASSUME ManagerTypeOK, UNCHANGED managerVars
    PROVE  ManagerTypeOK'
  BY DEF ManagerTypeOK, managerVars

LEMMA InitTypes == Init => TypeOK /\ Retries
<1> SUFFICES ASSUME Init PROVE TypeOK /\ Retries
  OBVIOUS
<1>1. ManagerTypeOK
  BY DEF Init, ManagerInit, ManagerTypeOK
<1>2. RedisTypeOK /\ Retries
  BY DEF Init, RedisInit, RedisTypeOK, Retries, Out
<1> QED
  BY <1>1, <1>2 DEF Init, TypeOK, NoUpload

LEMMA LifespanType ==
    ASSUME TypeOK, Retries, Start \/ Shutdown \/ RedisClosed
    PROVE  TypeOK' /\ Retries'
<1> USE InTasks DEF TypeOK
<1>1. CASE Startup
  BY <1>1, InitialisesServices, RedisFrame DEF Startup, Phase
<1>2. CASE ManagerUp
  <2>1. initialize(Lifespan, "startup", connected, available) /\ UNCHANGED <<configured, lost>>
        /\ connected \in BOOLEAN /\ available \in BOOLEAN
    BY <1>2 DEF ManagerUp, RedisTypeOK
  <2>2. RedisTypeOK'
    BY <2>1, Initialises DEF RedisTypeOK, RedisState
  <2>3. /\ redis'[Lifespan] = Out \/ redis'[Lifespan].at = "pinging"
        /\ \A u \in Tasks \ {Lifespan} : redis'[u] = redis[u]
    BY <2>1, Initialises
  <2>4. Retries'
    BY <2>3 DEF Retries, Out
  <2> QED
    BY <1>2, <2>2, <2>4, ManagerFrame DEF ManagerUp, Phase
<1>3. CASE ManagerDown \/ RedisSettled
  BY <1>3, ManagerFrame, RedisFrame DEF ManagerDown, RedisSettled, Phase
<1>4. CASE Shutdown
  <2>1. RedisTypeOK' /\ Retries'
    BY <1>4 DEF Shutdown, RedisCancel, RedisTypeOK, Retries, flags, Out
  <2>2. ManagerTypeOK'
    BY <1>4, CleanupType DEF Shutdown
  <2> QED
    BY <1>4, <2>1, <2>2 DEF Shutdown
<1>5. CASE RedisClosed
  <2>1. RedisTypeOK' /\ Retries'
    <3>1. CASE available
      BY <1>5, <3>1 DEF RedisClosed, close, RedisTypeOK, Retries
    <3>2. CASE ~available
      BY <1>5, <3>2, RedisFrame DEF RedisClosed
    <3> QED
      BY <3>1, <3>2
  <2> QED
    BY <1>5, <2>1, ManagerFrame DEF RedisClosed, Phase
<1> QED
  BY <1>1, <1>2, <1>3, <1>4, <1>5 DEF Start

LEMMA TaskType ==
    ASSUME TypeOK, Retries, NEW t \in Tasks, Step(t)
    PROVE  TypeOK' /\ Retries'
<1>1. CASE ManagerStep(t) /\ UNCHANGED <<redisVars, appVars>>
  BY <1>1, ManagerStepType, RedisFrame DEF TypeOK, appVars
<1>2. CASE RedisStep(t) /\ UNCHANGED <<managerVars, appVars>>
  BY <1>2, RedisStepType, ManagerFrame DEF TypeOK, appVars
<1> QED
  BY <1>1, <1>2 DEF Step

\* A request that goes on keeps its type.
LEMMA BecomeType ==
    ASSUME TypeOK, NEW r \in Requests, NEW q \in RequestType, Become(r, q)
    PROVE  /\ request' \in [Requests -> RequestType]
           /\ request'[r] = q /\ \A u \in Requests \ {r} : request'[u] = request[u]
  BY DEF TypeOK, Become, RequestType

LEMMA ArriveType ==
    ASSUME TypeOK, Retries, NEW r \in Requests, Arrive(r)
    PROVE  TypeOK' /\ Retries'
<1>1. PICK kind \in {"storage", "tus"} :
        /\ Become(r, [kind |-> kind, at |-> IF initialized THEN "calling" ELSE "getting"])
        /\ upload' = [upload EXCEPT ![r].file = @ \/ kind = "tus"]
  BY DEF Arrive
<1> DEFINE q == [kind |-> kind, at |-> IF initialized THEN "calling" ELSE "getting"]
<1>2. q \in RequestType
  BY DEF RequestType, Kinds
<1> HIDE DEF q
<1>3. request' \in [Requests -> RequestType]
  BY <1>1, <1>2, BecomeType DEF q
<1>4. upload' \in [Requests -> [file : BOOLEAN, object : BOOLEAN]]
  BY <1>1 DEF TypeOK
<1>5. ManagerTypeOK'
  <2>1. CASE initialized
    BY <2>1, InTasks DEF Arrive, get_storage_service, TypeOK, ManagerTypeOK, Hand
  <2>2. CASE ~initialized
    BY <2>2, InTasks, InitialisesServices DEF Arrive, get_storage_service, TypeOK
  <2> QED
    BY <2>1, <2>2
<1> QED
  BY <1>3, <1>4, <1>5, RedisFrame DEF Arrive, TypeOK, RequestType

LEMMA CheckHealthType ==
    ASSUME TypeOK, Retries, NEW r \in Requests, CheckHealth(r)
    PROVE  TypeOK' /\ Retries'
<1>1. Become(r, [kind |-> "health", at |-> "redis"])
      /\ [kind |-> "health", at |-> "redis"] \in RequestType
  BY DEF CheckHealth, RequestType, Kinds
<1>2. request' \in [Requests -> RequestType]
  BY <1>1, BecomeType
<1>3. RedisTypeOK' /\ Retries'
  BY InTasks, GetClientType DEF CheckHealth, TypeOK
<1> QED
  BY <1>2, <1>3, ManagerFrame DEF CheckHealth, TypeOK, RequestType

LEMMA ReplyType ==
    ASSUME TypeOK, Retries, NEW r \in Requests, Reply(r)
    PROVE  TypeOK' /\ Retries'
<1>1. /\ NoRequest \in RequestType
      /\ request[r].at = "getting" => [request[r] EXCEPT !.at = "calling"] \in RequestType
      /\ [kind |-> "health", at |-> "storage"] \in RequestType
  BY DEF TypeOK, RequestType, NoRequest, Kinds
<1>2. /\ UNCHANGED <<redisVars, hosted, phase, ready>>
      /\ upload' = upload \/ upload' = [upload EXCEPT ![r].object = TRUE]
  BY DEF Reply, Got, StorageAnswers, UploadFails, UploadUnfound, UploadStored, RedisTold,
         StorageTold, Leave
<1>3. upload' \in [Requests -> [file : BOOLEAN, object : BOOLEAN]]
  BY <1>2 DEF TypeOK
<1>4. \E q \in RequestType : Become(r, q)
  BY <1>1
  DEF Reply, Got, StorageAnswers, UploadFails, UploadUnfound, UploadStored, RedisTold,
      StorageTold, Leave
<1>5. request' \in [Requests -> RequestType]
  BY <1>4, BecomeType
<1>6. ManagerTypeOK'
  BY InTasks
  DEF Reply, Got, StorageAnswers, UploadFails, UploadUnfound, UploadStored, RedisTold,
      StorageTold, Leave,
      TypeOK, ManagerTypeOK, managerVars, Go, Hand
<1> QED
  BY <1>2, <1>3, <1>5, <1>6, RedisFrame DEF TypeOK, RequestType

LEMMA NextTypes ==
    ASSUME TypeOK, Retries, Next
    PROVE  TypeOK' /\ Retries'
  BY LifespanType, TaskType, ArriveType, CheckHealthType, ReplyType DEF Next

-----------------------------------------------------------------------------
(* Redis.                                                                  *)

\* What a task does in the service: others stay where they are, and who is in
\* initialize has a pool, and leaves it connected or having given up.
LEMMA StepConnections ==
    ASSUME TypeOK, Retries, Connections, UNCHANGED phase, phase # "stopped",
           NEW t \in Tasks, RedisStep(t) \/ get_client(t)
    PROVE  Connections'
<1>1. RedisTypeOK /\ redis[t] \in RedisState
  BY DEF TypeOK, RedisTypeOK, RedisState
<1>2. CASE Connect(t)
  <2>1. connected' /\ available' /\ (pool # NoPool => pool' # NoPool)
    BY <1>1, <1>2 DEF Connect, Mark, RedisTypeOK, Pools, NoPool
  <2>2. \A u \in Tasks : Initialising(u)' => Initialising(u)
    BY <1>1, <1>2 DEF Connect, Enter, Initialising, Out, Calling, RedisTypeOK
  <2>3. Initialising(t)
    BY <1>2 DEF Connect, Pinging, Initialising
  <2> QED
    BY <2>1, <2>2, <2>3 DEF Connections
<1>3. CASE PingFails(t)
  <2>1. ~connected' /\ ~available' /\ (pool # NoPool => pool' # NoPool)
    BY <1>1, <1>3 DEF PingFails, Mark, RedisTypeOK, Pools, NoPool
  <2>2. \A u \in Tasks : Initialising(u)' => Initialising(u)
    BY <1>1, <1>3 DEF PingFails, Pinging, GivesUp, Enter, Initialising, Out, RedisTypeOK
  <2>3. gaveUp' \/ Initialising(t)'
    <3>1. CASE IsLast(t)
      BY <1>3, <3>1 DEF PingFails, GivesUp
    <3>2. CASE ~IsLast(t)
      <4>1. redis[t] \in Steps
        BY <1>1, <1>3 DEF PingFails, Pinging, RedisState, Out, Calling
      <4>2. redis'[t] = [redis[t] EXCEPT !.at = "sleeping"]
        BY <1>1, <1>3, <3>2 DEF PingFails, Enter, RedisTypeOK
      <4> QED
        BY <4>1, <4>2 DEF Initialising, Steps
    <3> QED
      BY <3>1, <3>2
  <2> QED
    BY <2>1, <2>2, <2>3 DEF Connections
<1>4. CASE SleepEnds(t)
  <2>1. pool' # NoPool /\ UNCHANGED <<connected, available, gaveUp>>
    BY <1>1, <1>4, Waking DEF SleepEnds
  <2>2. Initialising(t)' /\ \A u \in Tasks \ {t} : redis'[u] = redis[u]
    BY <1>1, <1>4, Waking DEF Initialising
  <2> QED
    BY <2>1, <2>2 DEF Connections, Initialising
<1>5. ASSUME UNCHANGED flags, redis' = [redis EXCEPT ![t] = redis'[t]], ~Initialising(t),
             redis'[t] \in {Out, Calling}
      PROVE  Connections'
  <2>1. \A u \in Tasks : Initialising(u)' <=> Initialising(u)
    BY <1>1, <1>5 DEF Initialising, Out, Calling, RedisTypeOK
  <2> QED
    BY <1>5, <2>1 DEF Connections, flags
<1>6. CASE CallEnds(t)
  BY <1>1, <1>5, <1>6 DEF CallEnds, Enter, Initialising, RedisTypeOK
<1>7. ASSUME NEW why \in {"connect", "reconnect"}, NEW up \in BOOLEAN,
             initialize(t, why, up, up), up => connected /\ available, ~Initialising(t)
      PROVE  Connections'
  <2>1. pool # NoPool => pool' # NoPool
    BY <1>1, <1>7, Initialises
  <2>2. \A u \in Tasks \ {t} : redis'[u] = redis[u]
    BY <1>1, <1>7, Initialises
  <2>3. \/ redis'[t] = Out /\ pool # NoPool /\ connected' /\ available'
        \/ redis'[t] = Out /\ ~connected' /\ ~available' /\ gaveUp'
        \/ /\ Initialising(t)' /\ pool' # NoPool
           /\ (connected' <=> up) /\ (available' <=> up)
    BY <1>1, <1>7, Initialises
  <2>4. redis'[t] = Out => ~Initialising(t)'
    BY DEF Initialising, Out
  <2> QED
    BY <1>7, <2>1, <2>2, <2>3, <2>4 DEF Connections, Initialising
<1>8. CASE ConnectionLost(t)
  BY <1>7, <1>8 DEF ConnectionLost, Initialising
<1>9. CASE get_client(t)
  <2>1. ~Initialising(t) /\ redis[t] = Out
    BY <1>9 DEF get_client, Initialising, Out
  <2>2. CASE ~available \/ (available /\ pool # NoPool /\ connected)
    BY <1>1, <1>5, <1>9, <2>1, <2>2 DEF get_client, Enter, RedisTypeOK
  <2>3. CASE available /\ ~(pool # NoPool /\ connected)
    BY <2>3 DEF Connections
  <2> QED
    BY <2>2, <2>3
<1> QED
  BY <1>2, <1>3, <1>4, <1>6, <1>8, <1>9 DEF RedisStep

\* Nobody replaces the pool of another task and leaves it untold.
LEMMA StepContested ==
    ASSUME TypeOK, Retries, Connections, Contested, UNCHANGED phase, phase # "stopped",
           NEW t \in Tasks, RedisStep(t) \/ get_client(t)
    PROVE  Contested'
<1>1. RedisTypeOK
  BY DEF TypeOK
<1>2. ASSUME UNCHANGED pool, available' => available, ~Pinging(t), redis'[t] \in {Out, Calling},
             \A u \in Tasks \ {t} : redis'[u] = redis[u]
      PROVE  Contested'
  <2>1. \A u \in Tasks : Pinging(u)' <=> Pinging(u)
    BY <1>2 DEF Pinging, Out, Calling
  <2>2. available' => available /\ pool # NoPool
    BY <1>2 DEF Connections
  <2>3. pool # NoPool => pool.by \in Tasks
    BY <1>1 DEF RedisTypeOK, Pools
  <2> QED
    BY <1>2, <2>1, <2>2, <2>3 DEF Contested, PingsPool
<1>3. ASSUME pool'.by = t, pool' # NoPool, redis'[t].at = "pinging",
             \A o \in Tasks \ {t} : Pinging(o) => pool'.contested,
             \A u \in Tasks \ {t} : redis'[u] = redis[u]
      PROVE  Contested'
  <2>1. Pinging(t)' /\ \A u \in Tasks \ {t} : Pinging(u)' <=> Pinging(u)
    BY <1>3 DEF Pinging
  <2> QED
    BY <1>3, <2>1 DEF Contested, PingsPool
<1>4. CASE Connect(t)
  <2>1. Pinging(t) /\ redis'[t] \in {Out, Calling} /\ \A u \in Tasks \ {t} : redis'[u] = redis[u]
    BY <1>1, <1>4 DEF Connect, Enter, RedisTypeOK
  <2>2. ~Pinging(t)' /\ \A u \in Tasks \ {t} : Pinging(u)' <=> Pinging(u)
    BY <2>1 DEF Pinging, Out, Calling
  <2>3. pool'.by = pool.by /\ pool'.contested = pool.contested
        /\ (PingsPool(t) => pool'.state = "answered")
    BY <1>1, <1>4 DEF Connect, RedisTypeOK, Pools, NoPool
  <2>4. pool'.state = "answered" \/ pool'.contested
    BY <2>1, <2>3 DEF Contested, PingsPool, Connections, Initialising, Pinging
  <2> QED
    BY <2>2, <2>3, <2>4 DEF Contested
<1>5. CASE PingFails(t)
  <2>1. ~available' /\ pool'.by = pool.by /\ pool'.contested = pool.contested
    BY <1>1, <1>5 DEF PingFails, Mark, RedisTypeOK, Pools, NoPool
  <2>2. \A u \in Tasks : Pinging(u)' => Pinging(u)
    BY <1>1, <1>5 DEF PingFails, GivesUp, Enter, Pinging, Out, RedisTypeOK
  <2> QED
    BY <2>1, <2>2 DEF Contested
<1>6. CASE SleepEnds(t)
  BY <1>1, <1>3, <1>6, Waking
<1>7. CASE CallEnds(t)
  BY <1>1, <1>2, <1>7 DEF CallEnds, Enter, Pinging, RedisTypeOK, flags
<1>8. CASE ConnectionLost(t)
  <2>1. initialize(t, "reconnect", FALSE, FALSE) /\ ~Pinging(t)
    BY <1>8 DEF ConnectionLost, Pinging
  <2>2. CASE redis'[t] = Out
    <3>1. UNCHANGED pool /\ ~available' /\ \A u \in Tasks \ {t} : redis'[u] = redis[u]
      <4>1. redis'[t].at # "pinging"
        BY <2>2 DEF Out
      <4>2. UNCHANGED pool
        BY <1>1, <2>1, <4>1, Initialises
      <4>3. \A u \in Tasks \ {t} : redis'[u] = redis[u]
        BY <1>1, <2>1, Initialises
      <4>4. ~available'
        BY <1>1, <2>1, <2>2, Initialises DEF Out, Initialising
      <4> QED
        BY <4>2, <4>3, <4>4
    <3> QED
      BY <1>2, <2>1, <2>2, <3>1
  <2>3. CASE redis'[t] # Out
    <3>1. redis'[t].at = "pinging" /\ pool'.by = t /\ pool'.state = "untried"
          /\ \A o \in Tasks \ {t} : Pinging(o) => pool'.contested
      BY <1>1, <2>1, <2>3, Initialises
    <3>2. \A u \in Tasks \ {t} : redis'[u] = redis[u]
      BY <1>1, <2>1, Initialises
    <3> QED
      BY <1>3, <3>1, <3>2 DEF NoPool
  <2> QED
    BY <2>2, <2>3
<1>9. CASE get_client(t)
  <2>1. ~available \/ (available /\ pool # NoPool /\ connected)
    BY DEF Connections
  <2>2. ~Pinging(t) /\ UNCHANGED flags /\ redis'[t] \in {Out, Calling}
        /\ \A u \in Tasks \ {t} : redis'[u] = redis[u]
    BY <1>1, <1>9, <2>1 DEF get_client, Pinging, Enter, Out, RedisTypeOK
  <2> QED
    BY <1>2, <2>2 DEF flags
<1> QED
  BY <1>4, <1>5, <1>6, <1>7, <1>8, <1>9 DEF RedisStep

\* Before a call has lost its connection, only the lifespan makes pools.
LEMMA StepUnreplaced ==
    ASSUME TypeOK, Retries, Connections, Unreplaced, UNCHANGED phase, phase # "stopped",
           NEW t \in Tasks, RedisStep(t) \/ get_client(t)
    PROVE  Unreplaced'
<1> SUFFICES ASSUME ~lost' PROVE Unreplaced'
  BY DEF Unreplaced
<1>1. RedisTypeOK /\ ~ConnectionLost(t)
  BY DEF TypeOK, ConnectionLost
<1>2. lost' = lost
  BY <1>1 DEF RedisStep, Connect, PingFails, SleepEnds, CallEnds, get_client
<1>3. /\ ~stray
      /\ \A u \in Tasks : Initialising(u) =>
           u = Lifespan /\ pool.by = u /\ pool.state # "answered"
      /\ pool.state = "answered" => available
  BY <1>2 DEF Unreplaced
<1>4. CASE Connect(t)
  <2>1. Initialising(t) /\ t = Lifespan /\ PingsPool(t)
    BY <1>3, <1>4 DEF Connect, Initialising, Pinging, PingsPool, Connections
  <2>2. \A u \in Tasks : ~Initialising(u)'
    BY <1>1, <1>3, <1>4, <2>1 DEF Connect, Enter, Initialising, Out, Calling, RedisTypeOK
  <2> QED
    BY <1>3, <1>4, <2>1, <2>2 DEF Connect, Mark, Unreplaced
<1>5. CASE PingFails(t)
  <2>1. Initialising(t) /\ t = Lifespan /\ PingsPool(t)
    BY <1>3, <1>5 DEF PingFails, Initialising, Pinging, PingsPool, Connections
  <2>2. \A u \in Tasks : Initialising(u)' => Initialising(u)
    BY <1>1, <1>5 DEF PingFails, Pinging, GivesUp, Enter, Initialising, Out, RedisTypeOK
  <2>3. pool'.state = "failed" /\ pool'.by = pool.by
    BY <1>1, <1>5, <2>1 DEF PingFails, RedisTypeOK, Pools, NoPool
  <2> QED
    BY <1>3, <1>5, <2>2, <2>3 DEF PingFails, Unreplaced
<1>6. CASE SleepEnds(t)
  <2>1. Initialising(t)
    BY <1>6 DEF SleepEnds, Initialising
  <2>2. /\ pool'.by = t /\ pool'.state = "untried"
        /\ stray' \in BOOLEAN /\ (stray' => stray \/ pool.state = "answered")
        /\ \A u \in Tasks \ {t} : redis'[u] = redis[u]
    BY <1>1, <1>6, Waking
  <2> QED
    BY <1>3, <2>1, <2>2 DEF Unreplaced, Initialising
<1>7. CASE CallEnds(t) \/ get_client(t)
  <2>1. ~available \/ (available /\ pool # NoPool /\ connected)
    BY DEF Connections
  <2>2. UNCHANGED flags /\ redis'[t] \in {Out, Calling}
        /\ \A u \in Tasks \ {t} : redis'[u] = redis[u]
    BY <1>1, <1>7, <2>1 DEF CallEnds, get_client, Enter, RedisTypeOK
  <2>3. \A u \in Tasks : Initialising(u)' => Initialising(u)
    BY <2>2 DEF Initialising, Out, Calling
  <2> QED
    BY <1>3, <2>2, <2>3 DEF Unreplaced, flags
<1> QED
  BY <1>1, <1>4, <1>5, <1>6, <1>7 DEF RedisStep

LEMMA InRedis ==
    ASSUME NEW t \in Tasks, RedisStep(t)
    PROVE  redis[t] # Out
<1>1. redis[t].at \in {"pinging", "sleeping", "calling"}
  BY DEF RedisStep, Connect, PingFails, Pinging, SleepEnds, CallEnds, ConnectionLost
<1> QED
  BY <1>1 DEF Out

LEMMA UserSteps ==
    ASSUME TypeOK, Retries, Users, Next
    PROVE  Users'
<1>1. CASE Start \/ RedisClosed
  <2>1. CASE Startup \/ ManagerDown \/ RedisSettled
    BY <1>1, <2>1 DEF Users, Startup, ManagerDown, RedisSettled, Phase, redisVars
  <2>2. CASE ManagerUp
    BY <2>2 DEF Users, ManagerUp, Phase
  <2>3. CASE RedisClosed
    BY <2>3 DEF Users, RedisClosed, close, Phase, redisVars
  <2> QED
    BY <1>1, <2>1, <2>2, <2>3 DEF Start
<1>2. CASE Shutdown
  BY <1>2, InTasks DEF Users, Shutdown, RedisCancel
<1>3. ASSUME NEW t \in Tasks, Step(t)
      PROVE  Users'
  <2>1. CASE UNCHANGED <<redisVars, appVars>>
    BY <2>1 DEF Users, redisVars, appVars
  <2>2. CASE RedisStep(t) /\ UNCHANGED appVars
    <3>1. redis[t] # Out
      BY <2>2, InRedis
    <3>2. \A u \in Tasks \ {t} : redis'[u] = redis[u]
      <4>1. CASE ConnectionLost(t)
        BY <4>1, Initialises DEF ConnectionLost, TypeOK
      <4>2. CASE ~ConnectionLost(t)
        BY <2>2, <4>2
        DEF RedisStep, Connect, PingFails, GivesUp, SleepEnds, Attempt, CallEnds, Enter,
            TypeOK, RedisTypeOK
      <4> QED
        BY <4>1, <4>2
    <3> QED
      BY <2>2, <3>1, <3>2, InTasks DEF Users, appVars
  <2> QED
    BY <1>3, <2>1, <2>2 DEF Step
<1>4. ASSUME NEW r \in Requests, Arrive(r) \/ Reply(r)
      PROVE  Users'
  <2>1. UNCHANGED <<redisVars, hosted, phase>>
    BY <1>4
    DEF Arrive, Reply, Got, StorageAnswers, UploadFails, UploadUnfound, UploadStored,
        RedisTold, StorageTold, Leave
  <2> QED
    BY <2>1 DEF Users, redisVars
<1>5. ASSUME NEW r \in Requests, CheckHealth(r)
      PROVE  Users'
  <2>1. /\ UNCHANGED <<hosted, phase>> /\ Serving
        /\ \A u \in Tasks \ {r} : redis'[u] = redis[u]
    BY <1>5, GetClientType, InTasks DEF CheckHealth, TypeOK
  <2> QED
    BY <2>1, InTasks DEF Users, Serving
<1> QED
  BY <1>1, <1>2, <1>3, <1>4, <1>5 DEF Next

LEMMA ConnectionSteps ==
    ASSUME TypeOK, Retries, Connections, Users, Next
    PROVE  Connections'
<1>1. CASE Startup \/ ManagerDown \/ RedisSettled \/ Shutdown \/ RedisClosed
  <2>1. CASE Startup \/ ManagerDown \/ RedisSettled
    BY <2>1
    DEF Startup, ManagerDown, RedisSettled, Phase, Connections, Initialising, redisVars, flags
  <2>2. CASE Shutdown
    BY <2>2 DEF Shutdown, RedisCancel, Connections, Initialising, Out, flags
  <2>3. CASE RedisClosed
    BY <2>3 DEF RedisClosed, Phase, Connections
  <2> QED
    BY <1>1, <2>1, <2>2, <2>3
<1>2. CASE ManagerUp
  <2>1. phase = "manager" /\ phase' = "redis" /\ RedisTypeOK
        /\ connected \in BOOLEAN /\ available \in BOOLEAN
        /\ initialize(Lifespan, "startup", connected, available)
    BY <1>2 DEF ManagerUp, Phase, TypeOK, RedisTypeOK
  <2>2. (pool # NoPool => pool' # NoPool) /\ \A u \in Tasks \ {Lifespan} : redis'[u] = redis[u]
    BY <2>1, Initialises, InTasks
  <2>3. \/ redis'[Lifespan] = Out /\ pool # NoPool /\ connected' /\ available'
        \/ redis'[Lifespan] = Out /\ ~connected' /\ ~available' /\ gaveUp'
        \/ /\ Initialising(Lifespan)' /\ pool' # NoPool
           /\ (connected' <=> connected) /\ (available' <=> available)
    BY <2>1, Initialises, InTasks
  <2>4. redis'[Lifespan] = Out => ~Initialising(Lifespan)'
    BY DEF Initialising, Out
  <2> QED
    BY <2>1, <2>2, <2>3, <2>4, InTasks DEF Connections, Initialising
<1>3. ASSUME NEW t \in Tasks, Step(t)
      PROVE  Connections'
  <2>1. CASE UNCHANGED <<redisVars, appVars>>
    BY <2>1 DEF Connections, Initialising, redisVars, flags, appVars
  <2>2. CASE RedisStep(t) /\ UNCHANGED appVars
    <3>1. redis[t] # Out
      BY <2>2, InRedis
    <3>2. phase # "stopped" /\ phase' = phase
      BY <2>2, <3>1 DEF Users, appVars
    <3> QED
      BY <2>2, <3>2, StepConnections
  <2> QED
    BY <1>3, <2>1, <2>2 DEF Step
<1>4. ASSUME NEW r \in Requests, Arrive(r) \/ Reply(r)
      PROVE  Connections'
  <2>1. UNCHANGED <<redisVars, hosted, phase>>
    BY <1>4
    DEF Arrive, Reply, Got, StorageAnswers, UploadFails, UploadUnfound, UploadStored,
        RedisTold, StorageTold, Leave
  <2> QED
    BY <2>1 DEF Connections, Initialising, redisVars, flags
<1>5. ASSUME NEW r \in Requests, CheckHealth(r)
      PROVE  Connections'
  <2>1. get_client(r) /\ phase' = phase /\ phase # "stopped" /\ r \in Tasks
    BY <1>5, InTasks DEF CheckHealth, Serving, Users
  <2> QED
    BY <2>1, StepConnections
<1> QED
  BY <1>1, <1>2, <1>3, <1>4, <1>5 DEF Next, Start

LEMMA PoolSteps ==
    ASSUME TypeOK, Retries, Connections, Users, Contested, Unreplaced, Next
    PROVE  Contested' /\ Unreplaced'
<1>1. ASSUME UNCHANGED <<redisVars, phase>>
      PROVE  Contested' /\ Unreplaced'
  BY <1>1 DEF Contested, Unreplaced, Pinging, PingsPool, Initialising, redisVars, flags
<1>2. CASE Startup \/ ManagerDown \/ RedisSettled
  BY <1>2
  DEF Startup, ManagerDown, RedisSettled, Phase, Contested, Unreplaced, Pinging, PingsPool,
      Initialising, redisVars, flags
<1>3. CASE Shutdown
  BY <1>3
  DEF Shutdown, RedisCancel, Contested, Unreplaced, Pinging, PingsPool, Initialising, Out, flags
<1>4. CASE RedisClosed
  <2>1. \A t \in Tasks : redis'[t] = Out
    BY <1>4 DEF RedisClosed, Users, close, redisVars
  <2>2. Contested'
    BY <1>4, <2>1 DEF RedisClosed, Phase, Contested, Pinging, Out
  <2>3. /\ stray' = stray /\ lost' = lost
        /\ pool' = NoPool \/ (pool' = pool /\ ~available)
    BY <1>4 DEF RedisClosed, close, redisVars, flags
  <2>4. ~lost => ~stray /\ pool'.state # "answered"
    BY <2>3 DEF Unreplaced, NoPool
  <2> QED
    BY <2>1, <2>2, <2>3, <2>4 DEF Unreplaced, Initialising, Out
<1>5. CASE ManagerUp
  <2>1. /\ phase = "manager" /\ phase' = "redis" /\ RedisTypeOK /\ lost' = lost
        /\ connected \in BOOLEAN /\ available \in BOOLEAN
        /\ initialize(Lifespan, "startup", connected, available)
        /\ redis[Lifespan] = Out
    BY <1>5 DEF ManagerUp, Phase, TypeOK, RedisTypeOK, Users
  <2>2. \A u \in Tasks \ {Lifespan} : redis'[u] = redis[u]
    BY <2>1, Initialises, InTasks
  <2>3. ~Pinging(Lifespan) /\ ~Initialising(Lifespan)
    BY <2>1 DEF Pinging, Initialising, Out
  <2>4. available => connected /\ pool # NoPool
    BY <2>1 DEF Connections
  <2>5. CASE redis'[Lifespan] = Out
    <3>1. UNCHANGED <<pool, stray>> /\ (available => available')
          /\ (available' => available) /\ redis' = redis
      <4>1. UNCHANGED <<pool, stray>>
            /\ (connected /\ available /\ pool # NoPool => available')
        BY <2>1, <2>5, Initialises, InTasks DEF Out
      <4>2. available' => available
        BY <2>1, <2>5, Initialises, InTasks DEF Initialising, Out
      <4>3. redis' = redis
        BY <2>1, <2>2, <2>5, Initialises, InTasks DEF RedisTypeOK
      <4> QED
        BY <2>4, <4>1, <4>2, <4>3
    <3> QED
      BY <2>1, <3>1 DEF Contested, Unreplaced, Pinging, PingsPool, Initialising
  <2>6. CASE redis'[Lifespan] # Out
    <3>1. /\ redis'[Lifespan].at = "pinging" /\ pool'.by = Lifespan /\ pool'.state = "untried"
          /\ ~(pool # NoPool /\ connected /\ available)
          /\ \A o \in Tasks \ {Lifespan} : Pinging(o) => pool'.contested
          /\ stray' => stray \/ pool.state = "answered"
      BY <2>1, <2>6, Initialises, InTasks
    <3>2. Contested'
      BY <2>2, <3>1, InTasks DEF Contested, Pinging, PingsPool, NoPool
    <3>3. Unreplaced'
      BY <2>1, <2>2, <2>4, <3>1 DEF Unreplaced, Initialising
    <3> QED
      BY <3>2, <3>3
  <2> QED
    BY <2>5, <2>6
<1>6. ASSUME NEW t \in Tasks, Step(t)
      PROVE  Contested' /\ Unreplaced'
  <2>1. CASE UNCHANGED <<redisVars, appVars>>
    BY <1>1, <2>1 DEF appVars
  <2>2. CASE RedisStep(t) /\ UNCHANGED appVars
    <3>1. redis[t] # Out
      BY <2>2, InRedis
    <3>2. phase # "stopped" /\ phase' = phase
      BY <2>2, <3>1 DEF Users, appVars
    <3> QED
      BY <2>2, <3>2, StepContested, StepUnreplaced
  <2> QED
    BY <1>6, <2>1, <2>2 DEF Step
<1>7. ASSUME NEW r \in Requests, Arrive(r) \/ Reply(r)
      PROVE  Contested' /\ Unreplaced'
  <2>1. UNCHANGED <<redisVars, phase>>
    BY <1>7
    DEF Arrive, Reply, Got, StorageAnswers, UploadFails, UploadUnfound, UploadStored,
        RedisTold, StorageTold, Leave
  <2> QED
    BY <1>1, <2>1
<1>8. ASSUME NEW r \in Requests, CheckHealth(r)
      PROVE  Contested' /\ Unreplaced'
  <2>1. get_client(r) /\ phase' = phase /\ phase # "stopped" /\ r \in Tasks
    BY <1>8, InTasks DEF CheckHealth, Serving, Users
  <2> QED
    BY <2>1, StepContested, StepUnreplaced
<1> QED
  BY <1>2, <1>3, <1>4, <1>5, <1>6, <1>7, <1>8 DEF Next, Start

-----------------------------------------------------------------------------
(* The service manager, with a server.                                     *)

LEMMA ManagedInit == Init => Managed
  BY InTasks DEF Init, ManagerInit, Managed, Alone, NoRequest

LEMMA ManagedLifespan ==
    ASSUME TypeOK, Users, Managed, Start \/ Shutdown \/ RedisClosed
    PROVE  Managed'
<1> USE InTasks DEF Managed
<1>1. CASE Startup
  <2>1. PICK s \in Services :
          client' = [client EXCEPT ![s] = "opening"] /\ storage' = s /\ Hand(Lifespan, s)
    BY <1>1 DEF Startup, initialize_services
  <2>2. /\ hosted /\ phase = "off" /\ phase' = "manager" /\ ~initialized
        /\ Go(Lifespan, "opening") /\ UNCHANGED <<initialized, hf, hosted, request>>
    BY <1>1 DEF Startup, initialize_services, Phase
  <2>3. /\ manager'[Lifespan] = "opening" /\ holds'[Lifespan] = s
        /\ \A r \in Requests : manager'[r] = manager[r]
    BY <2>1, <2>2 DEF Go, Hand, TypeOK, ManagerTypeOK
  <2>4. Alone' /\ InPlace'
    BY <2>1, <2>2, <2>3, ManagerAssumption DEF Alone, InPlace, TypeOK, ManagerTypeOK
  <2> QED
    BY <2>2, <2>3, <2>4
<1>2. CASE ManagerUp
  <2>1. /\ phase = "manager" /\ phase' = "redis" /\ manager[Lifespan] = "out"
        /\ UNCHANGED <<managerVars, hosted, request>>
    BY <1>2 DEF ManagerUp, Phase
  <2>2. NoRequest.at # "calling"
    BY DEF NoRequest
  <2> QED
    BY <2>1, <2>2 DEF managerVars, Alone
<1>3. CASE ManagerDown
  <2>1. phase = "manager" /\ phase' = "failed" /\ UNCHANGED <<managerVars, hosted, request>>
    BY <1>3 DEF ManagerDown, Phase
  <2> QED
    BY <2>1 DEF managerVars
<1>4. CASE RedisSettled
  BY <1>4 DEF RedisSettled, Phase, managerVars, Alone
<1>5. CASE Shutdown
  BY <1>5
  DEF Shutdown, cleanup, Go, Hand, Alone, InPlace, NoRequest, TypeOK, ManagerTypeOK
<1>6. CASE RedisClosed
  BY <1>6 DEF RedisClosed, Phase, managerVars, Alone, InPlace
<1> QED
  BY <1>1, <1>2, <1>3, <1>4, <1>5, <1>6 DEF Start

LEMMA ManagedStep ==
    ASSUME TypeOK, Users, Managed, NEW t \in Tasks, Step(t)
    PROVE  Managed'
<1> USE InTasks DEF Managed
<1>1. CASE RedisStep(t) /\ UNCHANGED <<managerVars, appVars>>
  <2>1. redis[t] # Out
    BY <1>1, InRedis
  <2>2. phase # "stopped"
    BY <2>1 DEF Users
  <2> QED
    BY <1>1, <2>2 DEF managerVars, appVars, Alone, InPlace
<1>2. CASE ManagerStep(t) /\ UNCHANGED <<redisVars, appVars>>
  <2> USE <1>2 DEF TypeOK, ManagerTypeOK, appVars, redisVars, flags, Go, Hand
  <2>1. CASE ~hosted
    BY <2>1
  <2>2. CASE hosted /\ t # Lifespan
    BY <2>2
    DEF ManagerStep, Opened, OpenFails, StorageClosed, HfClosed, CloseFails
  <2>3. CASE hosted /\ t = Lifespan
    <3>1. CASE phase = "failed"
      BY <2>3, <3>1
      DEF ManagerStep, Opened, OpenFails, cleanup, StorageClosed, HfClosed, CloseFails
    <3>2. CASE Opened(t)
      BY <2>3, <3>2 DEF Opened, Alone, InPlace
    <3>3. CASE OpenFails(t)
      BY <2>3, <3>3 DEF OpenFails, cleanup, Alone, InPlace
    <3>4. CASE StorageClosed(t)
      BY <2>3, <3>1, <3>4, ManagerAssumption DEF StorageClosed, Alone, InPlace
    <3>5. CASE HfClosed(t)
      BY <2>3, <3>1, <3>5, ManagerAssumption DEF HfClosed, Alone, InPlace
    <3>6. CASE CloseFails(t)
      BY <2>3, <3>1, <3>6 DEF CloseFails, Alone, InPlace
    <3> QED
      BY <3>2, <3>3, <3>4, <3>5, <3>6 DEF ManagerStep
  <2> QED
    BY <2>1, <2>2, <2>3
<1> QED
  BY <1>1, <1>2 DEF Step

\* A reply of a request that is not about to initialise the manager.
LEMMA Replies ==
    ASSUME TypeOK, NEW r \in Requests, Reply(r)
    PROVE  /\ request[r].at # "idle"
           /\ request[r].at # "getting" =>
                /\ UNCHANGED <<hosted, phase, initialized, storage, client, hf, manager, available>>
                /\ \A u \in Requests \ {r} : request'[u] = request[u] /\ holds'[u] = holds[u]
                /\ request'[r].at \in {"idle", "storage"}
                /\ holds'[Lifespan] = holds[Lifespan]
<1>1. CASE Got(r)
  BY <1>1 DEF Got
<1>2. CASE StorageAnswers(r) \/ UploadFails(r) \/ UploadUnfound(r) \/ UploadStored(r)
  <2>1. /\ request[r].at = "calling"
        /\ Leave(r) /\ UNCHANGED redisVars
    BY <1>2 DEF StorageAnswers, UploadFails, UploadUnfound, UploadStored, At
  <2> QED
    BY <2>1, InTasks
    DEF Leave, Become, Hand, NoRequest, TypeOK, ManagerTypeOK, redisVars, flags
<1>3. CASE RedisTold(r) \/ StorageTold(r)
  <2>1. /\ request[r].at \in {"redis", "storage"}
        /\ UNCHANGED <<managerVars, redisVars, hosted, phase>>
    BY <1>3 DEF RedisTold, StorageTold, At
  <2>2. \E q \in {NoRequest, [kind |-> "health", at |-> "storage"]} : Become(r, q)
    BY <1>3 DEF RedisTold, StorageTold
  <2> QED
    BY <2>1, <2>2 DEF Become, NoRequest, TypeOK, managerVars, redisVars, flags
<1> QED
  BY <1>1, <1>2, <1>3 DEF Reply

LEMMA ManagedRequest ==
    ASSUME TypeOK, Users, Managed, NEW r \in Requests, Arrive(r) \/ CheckHealth(r) \/ Reply(r)
    PROVE  Managed'
<1> USE InTasks DEF Managed
<1>1. CASE ~hosted
  <2>1. hosted' = hosted
    BY DEF Arrive, CheckHealth, Reply, Got, StorageAnswers, UploadFails, UploadUnfound,
           UploadStored, RedisTold, StorageTold, Leave
  <2> QED
    BY <1>1, <2>1
<1>2. CASE hosted /\ Arrive(r)
  BY <1>2
  DEF Arrive, Serving, get_storage_service, Become, Hand, Alone, InPlace, redisVars, flags,
      TypeOK, ManagerTypeOK
<1>3. CASE hosted /\ CheckHealth(r)
  BY <1>3 DEF CheckHealth, Serving, Become, Alone, InPlace, managerVars, TypeOK
<1>4. CASE hosted /\ Reply(r)
  <2>1. request[r].at \notin {"idle", "getting"}
    BY <1>4, Replies
  <2>2. phase = "serving"
    BY <1>4, <2>1 DEF NoRequest
  <2>3. /\ UNCHANGED <<hosted, phase, initialized, storage, client, hf, manager, available>>
        /\ \A u \in Requests \ {r} : request'[u] = request[u] /\ holds'[u] = holds[u]
        /\ request'[r].at \in {"idle", "storage"}
        /\ holds'[Lifespan] = holds[Lifespan]
    BY <1>4, <2>1, Replies
  <2> QED
    BY <1>4, <2>2, <2>3 DEF Alone, InPlace
<1> QED
  BY <1>1, <1>2, <1>3, <1>4

-----------------------------------------------------------------------------
LEMMA InitIInv == Init => IInv
<1> SUFFICES ASSUME Init PROVE IInv
  OBVIOUS
<1>1. Connections /\ Users
  BY InTasks DEF Init, RedisInit, Connections, Users, Initialising, Out
<1>2. Contested /\ Unreplaced
  BY DEF Init, RedisInit, Contested, Unreplaced, Pinging, Initialising, NoPool, Out
<1> QED
  BY <1>1, <1>2, InitTypes, ManagedInit DEF IInv

LEMMA NextIInv == IInv /\ [Next]_vars => IInv'
<1> SUFFICES ASSUME IInv, [Next]_vars PROVE IInv'
  OBVIOUS
<1>1. CASE Next
  <2>1. Managed'
    BY <1>1, ManagedLifespan, ManagedStep, ManagedRequest DEF IInv, Next
  <2> QED
    BY <1>1, <2>1, NextTypes, UserSteps, ConnectionSteps, PoolSteps DEF IInv
<1>2. CASE UNCHANGED vars
  <2>1. TypeOK' /\ Retries'
    BY <1>2, RedisFrame, ManagerFrame DEF IInv, TypeOK, vars, appVars
  <2> QED
    BY <1>2, <2>1
    DEF IInv, vars, appVars, redisVars, flags, managerVars, Connections, Initialising, Users,
        Managed, Alone, InPlace, Contested, Unreplaced, Pinging, PingsPool
<1> QED
  BY <1>1, <1>2

LEMMA Invariant == Spec => []IInv
  BY InitIInv, NextIInv, PTL DEF Spec

-----------------------------------------------------------------------------

\* Every variable keeps its type: no initialisation of Redis makes an attempt
\* more than _max_retries.
THEOREM TypeCorrect == Spec => []TypeOK
<1>1. IInv => TypeOK
  BY DEF IInv
<1> QED
  BY <1>1, Invariant, PTL

\* As long as a server serves requests there is one S3 client, it is open, and it
\* is the one that every request was handed.
THEOREM OneClientServes == Spec => []ServingClient
<1>1. IInv => ServingClient
  BY DEF IInv, Managed, Alone, Leaked, ServingClient
<1> QED
  BY <1>1, Invariant, PTL

\* A shutdown leaves no S3 client behind, unless closing one failed; and none of
\* the pools that Redis answered, as long as no call has lost its connection.
\* (Who reconnects replaces a pool that nobody disconnects.)
THEOREM AllReleased == Spec => []Released
<1>1. IInv => Released
  <2> SUFFICES ASSUME IInv, phase = "stopped" PROVE Released
    BY DEF Released
  <2>1. hosted
    BY DEF IInv, Users
  <2>2. RedisHeld => lost
    BY DEF IInv, Unreplaced, RedisHeld
  <2> QED
    BY <2>1, <2>2 DEF IInv, Managed, Alone, Leaked, Released
<1> QED
  BY <1>1, Invariant, PTL

\* The flags of Redis tell the truth about the pool in place, whoever reconnects
\* at the same time: it answered, or its task is pinging it, or it replaced one
\* that another task was pinging; and a Redis that is down while requests are
\* served has been given up or is being connected.
THEOREM AvailabilityTrue == Spec => []AvailabilityTold
<1>1. IInv => AvailabilityTold
  <2> SUFFICES ASSUME IInv PROVE AvailabilityTold
    OBVIOUS
  <2>1. AvailableIsConnected
    BY DEF IInv, Connections, Contested, AvailableIsConnected
  <2>2. Serving /\ phase # "off" => phase = "serving"
    BY DEF IInv, Users, Serving
  <2> QED
    BY <2>1, <2>2 DEF IInv, Connections, AvailabilityTold
<1> QED
  BY <1>1, Invariant, PTL
=============================================================================
