------------------------------ MODULE AppTasks ------------------------------
(***************************************************************************)
(* The asyncio tasks of one worker process of the application: the         *)
(* lifespan and the requests.                                              *)
(***************************************************************************)

CONSTANT Requests

ASSUME TasksAssumption == "lifespan" \notin Requests

Lifespan == "lifespan"

Tasks == Requests \cup {Lifespan}
=============================================================================
