-------------------------- MODULE ServiceManager --------------------------
(***************************************************************************)
(* AsyncServiceManager: the one storage service, which owns an S3 client,  *)
(* and the HuggingFace services, opened together and closed together.      *)
(* Opening and closing a client suspends the task that does it, and other  *)
(* tasks may call the manager in the meantime.                             *)
(***************************************************************************)
EXTENDS AppTasks

CONSTANTS
    Services,   \* AsyncStorageService objects, as many as may be made
    NoService   \* None

ASSUME ManagerAssumption == NoService \notin Services

VARIABLES
    initialized,  \* _initialized
    storage,      \* storage_service
    client,       \* the S3 client of each service
    hf,           \* the HuggingFace services are there
    manager,      \* where each task is in the manager
    holds         \* the service that a task opens or closes, or was handed

managerVars == <<initialized, storage, client, hf, manager, holds>>

-----------------------------------------------------------------------------

Leaked == {s \in Services \ {storage} : client[s] \in {"open", "closing"}}

ManagerInit ==
    /\ initialized = FALSE /\ hf = FALSE
    /\ storage = NoService
    /\ client = [s \in Services |-> "unmade"]
    /\ manager = [t \in Tasks |-> "out"]
    /\ holds = [t \in Tasks |-> NoService]

Go(t, where) == manager' = [manager EXCEPT ![t] = where]

Hand(t, s) == holds' = [holds EXCEPT ![t] = s]

\* initialize, up to its await: the service is in place before it is open.
initialize_services(t) ==
    /\ ~initialized
    /\ \E s \in Services :
         /\ client[s] = "unmade"
         /\ client' = [client EXCEPT ![s] = "opening"]
         /\ storage' = s
         /\ Hand(t, s)
    /\ Go(t, "opening")
    /\ UNCHANGED <<initialized, hf>>

\* AsyncStorageService.__aenter__ returns, and the rest of initialize.  What a
\* handler gets is the service that is in place by now.
Opened(t) ==
    /\ manager[t] = "opening"
    /\ client' = [client EXCEPT ![holds[t]] = "open"]
    /\ initialized' = TRUE /\ hf' = TRUE
    /\ Hand(t, storage)
    /\ Go(t, "out")
    /\ UNCHANGED storage

\* cleanup, up to its first await.  A client that was never opened cannot be
\* closed: that raises, and cleanup gives up and logs it.
cleanup(t, clients) ==
    LET closable == storage # NoService /\ clients[storage] \in {"open", "closing"}
    IN  /\ client' = IF initialized /\ closable
                     THEN [clients EXCEPT ![storage] = "closing"] ELSE clients
        /\ Go(t, CASE initialized /\ closable -> "closing"
                   [] initialized /\ storage = NoService -> "closing_hf"
                   [] OTHER -> "closed")
        /\ Hand(t, storage)
        /\ UNCHANGED <<initialized, storage, hf>>

\* __aenter__ raises: initialize cleans up, and raises when that is over.
OpenFails(t) ==
    /\ manager[t] = "opening"
    /\ cleanup(t, [client EXCEPT ![holds[t]] = "closed"])

\* Mutant of StorageClosed: the client is left open.
StorageDropped(t) ==
    /\ manager[t] = "closing"
    /\ storage' = NoService
    /\ Go(t, "closing_hf")
    /\ UNCHANGED <<initialized, client, hf, holds>>

\* AsyncStorageService.__aexit__ returns.
StorageClosed(t) ==
    /\ manager[t] = "closing"
    /\ client' = [client EXCEPT ![holds[t]] = "closed"]
    /\ storage' = NoService
    /\ Go(t, "closing_hf")
    /\ UNCHANGED <<initialized, hf, holds>>

\* The HuggingFace clients are closed, which ends cleanup.
HfClosed(t) ==
    /\ manager[t] = "closing_hf"
    /\ hf' = FALSE /\ initialized' = FALSE
    /\ Go(t, "closed")
    /\ UNCHANGED <<storage, client, holds>>

\* Closing raises: cleanup logs it and leaves the manager initialised.
CloseFails(t) ==
    /\ manager[t] \in {"closing", "closing_hf"}
    /\ Go(t, "closed")
    /\ UNCHANGED <<initialized, storage, client, hf, holds>>

ManagerStep(t) ==
    Opened(t) \/ OpenFails(t) \/ StorageClosed(t) \/ HfClosed(t) \/ CloseFails(t)

ManagerTypeOK ==
    /\ initialized \in BOOLEAN /\ hf \in BOOLEAN
    /\ storage \in Services \cup {NoService}
    /\ client \in [Services -> {"unmade", "opening", "open", "closing", "closed"}]
    /\ manager \in [Tasks -> {"out", "opening", "closing", "closing_hf", "closed"}]
    /\ holds \in [Tasks -> Services \cup {NoService}]
=============================================================================
