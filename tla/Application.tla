---------------------------- MODULE Application ----------------------------
(***************************************************************************)
(* A worker process of the application: its lifespan, which opens the      *)
(* storage service and Redis before the first request and closes them      *)
(* after the last one, and the requests that use them: calls on the        *)
(* storage, completions of resumable uploads, and health checks.           *)
(*                                                                         *)
(* The lifespan does not run when the app is called without a server, as   *)
(* the tests do (ASGITransport, TestClient): the first request that needs  *)
(* the storage service then initialises the manager.                       *)
(***************************************************************************)
EXTENDS ServiceManager, RedisService

VARIABLES
    hosted,   \* a server runs the lifespan
    phase,    \* where the lifespan is
    ready,    \* STORAGE_TYPE and its credentials are set
    request,  \* what each request does: its kind, and where it is
    upload    \* the resumable upload of each request: its file, and its object

appVars == <<hosted, phase, ready, request, upload>>
vars    == <<managerVars, redisVars, appVars>>

-----------------------------------------------------------------------------

NoRequest == [kind |-> "none", at |-> "idle"]

Kinds == {"storage", "tus", "health"}

\* A file that tuspyserver has received in full, and its object in S3.
NoUpload == [file |-> FALSE, object |-> FALSE]

Init ==
    /\ ManagerInit /\ RedisInit
    /\ hosted \in BOOLEAN /\ ready \in BOOLEAN
    /\ phase = "off"
    /\ request = [r \in Requests |-> NoRequest]
    /\ upload = [r \in Requests |-> NoUpload]

Phase(p) == phase' = p /\ UNCHANGED <<hosted, ready, request, upload>>

-----------------------------------------------------------------------------
(* lifespan.                                                               *)

Startup ==
    /\ hosted /\ phase = "off"
    /\ initialize_services(Lifespan)
    /\ Phase("manager")
    /\ UNCHANGED redisVars

\* Mutant of ManagerUp: the lifespan does not wait for the manager.
ManagerNotAwaited ==
    /\ phase = "manager"
    /\ initialize(Lifespan, "startup", connected, available)
    /\ Phase("redis")
    /\ UNCHANGED <<managerVars, configured, lost>>

ManagerUp ==
    /\ phase = "manager" /\ manager[Lifespan] = "out"
    /\ initialize(Lifespan, "startup", connected, available)
    /\ Phase("redis")
    /\ UNCHANGED <<managerVars, configured, lost>>

\* The server does not start.
ManagerDown ==
    /\ phase = "manager" /\ manager[Lifespan] = "closed"
    /\ Phase("failed")
    /\ UNCHANGED <<managerVars, redisVars>>

\* Redis is there or not; the tag cache starts, and the server accepts requests.
RedisSettled ==
    /\ phase = "redis" /\ redis[Lifespan] = Out
    /\ Phase("serving")
    /\ UNCHANGED <<managerVars, redisVars>>

\* The server stops accepting requests, and cancels those that are not over
\* when timeout_graceful_shutdown has passed; the lifespan then goes on.
Shutdown ==
    /\ phase = "serving"
    /\ request' = [r \in Requests |-> NoRequest]
    /\ RedisCancel(Requests)
    /\ cleanup(Lifespan, client)
    /\ phase' = "closing"
    /\ UNCHANGED <<hosted, ready, upload>>

RedisClosed ==
    /\ phase = "closing" /\ manager[Lifespan] = "closed"
    /\ IF available THEN close ELSE UNCHANGED redisVars
    /\ Phase("stopped")
    /\ UNCHANGED managerVars

-----------------------------------------------------------------------------
(* Requests.                                                               *)

Serving == hosted => phase = "serving"

Become(r, q) == request' = [request EXCEPT ![r] = q]

At(r, kind, at) == request[r] = [kind |-> kind, at |-> at]

\* get_storage_service finds a configured storage, and initialises the manager
\* if nobody has.  The completion handler of an upload calls it too.
get_storage_service(r) ==
    IF initialized
    THEN Hand(r, storage) /\ UNCHANGED <<initialized, storage, client, hf, manager>>
    ELSE initialize_services(r)

\* Resumable uploads are served only where Redis is configured.
Arrive(r) ==
    /\ Serving /\ request[r] = NoRequest /\ ready
    /\ \E kind \in {"storage", "tus"} :
         /\ Become(r, [kind |-> kind, at |-> IF initialized THEN "calling" ELSE "getting"])
         /\ kind = "tus" => configured /\ ~upload[r].file
         /\ upload' = [upload EXCEPT ![r].file = @ \/ kind = "tus"]
    /\ get_storage_service(r)
    /\ UNCHANGED <<redisVars, hosted, phase, ready>>

\* The manager is initialised, or initialising it failed and the request fails.
Got(r) ==
    /\ request[r].at = "getting"
    /\ \/ manager[r] = "out"
          /\ Become(r, [request[r] EXCEPT !.at = "calling"])
          /\ UNCHANGED <<manager, holds>>
       \/ manager[r] = "closed"
          /\ Become(r, NoRequest) /\ Go(r, "out") /\ Hand(r, NoService)
    /\ UNCHANGED <<initialized, storage, client, hf, redisVars, hosted, phase, ready, upload>>

Leave(r) ==
    /\ Become(r, NoRequest) /\ Hand(r, NoService)
    /\ UNCHANGED <<initialized, storage, client, hf, manager, hosted, phase, ready>>

\* A call on the storage answers, or fails: without an open client it does.
StorageAnswers(r) ==
    /\ At(r, "storage", "calling")
    /\ Leave(r)
    /\ UNCHANGED <<redisVars, upload>>

UploadFails(r) ==
    /\ At(r, "tus", "calling")
    /\ Leave(r)
    /\ UNCHANGED <<redisVars, upload>>

\* handle_upload_complete was told of no local file, or of one that is not there:
\* it returns before it uploads anything.
UploadUnfound(r) ==
    /\ At(r, "tus", "calling")
    /\ Leave(r)
    /\ UNCHANGED <<redisVars, upload>>

\* handle_upload_complete has put the object in S3.  It then reads is_available
\* of what it was given for a RedisService, a coroutine nobody awaited, which has
\* no such attribute: it raises, before the record and before the file.
UploadStored(r) ==
    /\ At(r, "tus", "calling") /\ holds[r] # NoService /\ client[holds[r]] = "open"
    /\ upload' = [upload EXCEPT ![r].object = TRUE]
    /\ Leave(r)
    /\ UNCHANGED redisVars

\* health_check, and get_connection_info, which it calls first.
CheckHealth(r) ==
    /\ Serving /\ request[r] = NoRequest
    /\ Become(r, [kind |-> "health", at |-> "redis"])
    /\ get_client(r)
    /\ UNCHANGED <<managerVars, hosted, phase, ready, upload>>

\* get_health_status, which lists the buckets if there is a storage service.
RedisTold(r) ==
    /\ At(r, "health", "redis") /\ redis[r] = Out
    /\ Become(r, IF initialized /\ storage # NoService
                 THEN [kind |-> "health", at |-> "storage"] ELSE NoRequest)
    /\ UNCHANGED <<managerVars, redisVars, hosted, phase, ready, upload>>

\* The buckets are listed, or not: the answer does not tell.
StorageTold(r) ==
    /\ At(r, "health", "storage")
    /\ Become(r, NoRequest)
    /\ UNCHANGED <<managerVars, redisVars, hosted, phase, ready, upload>>

-----------------------------------------------------------------------------

Step(t) ==
    \/ ManagerStep(t) /\ UNCHANGED <<redisVars, appVars>>
    \/ RedisStep(t)   /\ UNCHANGED <<managerVars, appVars>>

Reply(r) ==
    Got(r) \/ StorageAnswers(r) \/ UploadFails(r) \/ UploadUnfound(r) \/ UploadStored(r)
    \/ RedisTold(r) \/ StorageTold(r)

Start == Startup \/ ManagerUp \/ ManagerDown \/ RedisSettled

Next ==
    \/ Start \/ Shutdown \/ RedisClosed
    \/ \E t \in Tasks : Step(t)
    \/ \E r \in Requests : Arrive(r) \/ CheckHealth(r) \/ Reply(r)

\* What the lifespan does to start, and what a request does once it has arrived.
Starts     == Start \/ Step(Lifespan)
Handles(r) == Step(r) \/ Reply(r)

\* The event loop resumes every task that is ready: an attempt to connect, a
\* sleep or a call ends, one way or another, and its task goes on.
Fairness == WF_vars(Starts) /\ \A r \in Requests : WF_vars(Handles(r))

Spec == Init /\ [][Next]_vars /\ Fairness

-----------------------------------------------------------------------------

\* Every variable has its type.
TypeOK ==
    /\ ManagerTypeOK /\ RedisTypeOK
    /\ hosted \in BOOLEAN /\ ready \in BOOLEAN
    /\ phase \in {"off", "manager", "redis", "serving", "closing", "stopped", "failed"}
    /\ request \in [Requests ->
          {NoRequest} \cup [kind : Kinds, at : {"getting", "calling", "redis", "storage"}]]
    /\ upload \in [Requests -> [file : BOOLEAN, object : BOOLEAN]]

\* Once a server has opened the storage service and until it shuts down, there is
\* that one S3 client and no other, it is open, and so is the client of any
\* service that a request was handed.
ServingClient ==
    hosted /\ phase \in {"redis", "serving"} =>
      /\ initialized /\ hf /\ Leaked = {}
      /\ storage # NoService /\ client[storage] = "open"
      /\ \A r \in Requests : request[r].at = "calling" => holds[r] = storage

\* A pool that answered is in place, or was dropped undisconnected.
RedisHeld == pool.state = "answered" \/ stray

\* After a shutdown in which nothing failed to close, no S3 client is left open;
\* and as long as no call on Redis has lost its connection, the lifespan leaves
\* no pool that answered.  (Once a call has, the pool it replaced is left, and so
\* is one that answered while another attempt made Redis unavailable.)
Released ==
    phase = "stopped" =>
      /\ Leaked = {} /\ (~initialized => storage = NoService /\ ~hf)
      /\ RedisHeld => lost

\* Until the server shuts down, a Redis that is called available has a pool in
\* place that answered, or that its task is pinging; the one exception is a pool
\* made while another task was pinging a former one, whose answer then counts.
AvailableIsConnected ==
    available /\ phase \notin {"closing", "stopped"} =>
      /\ pool # NoPool /\ connected
      /\ pool.state = "answered" \/ PingsPool(pool.by) \/ pool.contested

\* And while requests are served, a Redis is called unavailable only if somebody
\* is about to connect it, or the last to try has given up.
AvailabilityTold ==
    /\ AvailableIsConnected
    /\ Serving /\ phase # "off" /\ ~available => gaveUp \/ \E t \in Tasks : Initialising(t)

\* "Get a Redis client from the pool with automatic reconnection": whoever asks a
\* configured Redis for a client, while nobody else is using or reconnecting it,
\* gets one or is about to reconnect.
Reconnects ==
    [][\A r \in Requests :
         /\ hosted /\ configured /\ \A t \in Tasks : redis[t] = Out
         /\ request[r] = NoRequest /\ request'[r].kind = "health"
         => redis'[r] # Out]_vars

\* A completed upload that was moved to S3 is cleaned up: its local file is gone.
CleanedUp ==
    \A r \in Requests : request[r] = NoRequest /\ upload[r].object => ~upload[r].file

\* The start comes to an end, however long Redis delays it, and so does every request,
\* those that reconnect Redis or initialise the manager too: time and again no start
\* is under way, and time and again no request of r.
StartsAndAnswers ==
    /\ []<>(phase \notin {"manager", "redis"})
    /\ \A r \in Requests : []<>(request[r] = NoRequest)
=============================================================================
