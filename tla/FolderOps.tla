----------------------------- MODULE FolderOps ------------------------------
(***************************************************************************)
(* The operations of AsyncStorageService that move, copy and delete what   *)
(* is in a bucket: rename_folder, copy_folder, delete_folder, rename_file, *)
(* copy_file, delete_file, and the puts of create_folder and of uploads.   *)
(* S3 has no folders and no renames: each of them is a listing, a set of   *)
(* concurrent copies and a series of deletions, with the requests of other *)
(* users, S3 errors, the request timeout and the end of the process in     *)
(* between.                                                                *)
(*                                                                         *)
(* A key is the sequence of names between its slashes; a folder is the     *)
(* sequence of names of its path.  The marker object "a/" of folder <<a>>  *)
(* is the key <<a, "">>, which is under <<a>> like every file in it.       *)
(***************************************************************************)
EXTENDS Integers, FiniteSets, Sequences

CONSTANTS
    Requests,     \* requests, one coroutine each
    Workloads,    \* what each request asks for: a set of functions to Job
    Keys,         \* the keys that the requests can reach
    Position,     \* the lexicographic order of keys, in which S3 lists them
    Contents,     \* what an object can contain
    Absent,       \* no object
    Initial,      \* the bucket when the requests arrive
    PageSize,     \* keys on one page of list_objects_v2
    BatchSize,    \* keys in one delete_objects call
    MaxParallel,  \* the semaphore of the copies
    MaxFaults     \* bound: S3 errors and process ends in one behaviour

FolderOp == {"rename_folder", "copy_folder", "delete_folder"}
FileOp   == {"rename_file", "copy_file", "delete_file"}
Rename   == {"rename_folder", "rename_file"}

Job == [op : FolderOp \cup FileOp \cup {"put"}, source : Seq(STRING),
        target : Seq(STRING), content : Contents \cup {Absent}]

ASSUME FolderAssumption ==
    /\ Keys \subseteq Seq(STRING) /\ IsFiniteSet(Keys)
    /\ \A w \in Workloads :
          /\ w \in [Requests -> Job]
          /\ \A r \in Requests : /\ w[r].op = "put" => w[r].content \in Contents
                                 /\ w[r].op \in FileOp => w[r].source \in Keys
    /\ Position \in [Keys -> Nat]
    /\ \A j, k \in Keys : Position[j] = Position[k] => j = k
    /\ Absent \notin Contents
    /\ Initial \in [Keys -> Contents \cup {Absent}]
    /\ PageSize \in Nat \ {0} /\ BatchSize \in Nat \ {0} /\ MaxParallel \in Nat \ {0}
    /\ MaxFaults \in Nat

VARIABLES
    job,     \* what each request asks for
    pc,      \* where its coroutine is
    plan,    \* objects_to_copy or objects_to_delete: the keys listed so far
    todo,    \* keys whose copy task is not over, in flight or at the semaphore
    left,    \* keys that are still to be deleted
    reply,   \* what its caller was told
    bucket,  \* S3: the content under each key
    copied,  \* history: the keys whose copy S3 has answered
    removed, \* history: the keys that the request has deleted
    faults   \* failures so far, bounded by MaxFaults

work == <<plan, todo, left>>
vars == <<job, pc, work, reply, bucket, copied, removed, faults>>

Active   == {"listing", "copying", "deleting", "putting"}
Final    == {"done", "failed", "killed"}

-----------------------------------------------------------------------------
(* Paths.                                                                  *)

\* The key starts with the path and a slash.
Under(k, path) == Len(k) > Len(path) /\ SubSeq(k, 1, Len(path)) = path

\* Where the object of a key goes: new_path + old_key[len(old_path):].
Destination(j, k) ==
    IF j.op \in FolderOp THEN j.target \o SubSeq(k, Len(j.source) + 1, Len(k)) ELSE j.target

\* The keys that a copy, a renaming or a deletion is about.
Source(j, k) == IF j.op \in FolderOp THEN Under(k, j.source) ELSE k = j.source

\* The first n keys of S in listing order.
FirstOf(n, S) == {k \in S : Cardinality({j \in S : Position[j] < Position[k]}) < n}

-----------------------------------------------------------------------------
(* Moving on.                                                              *)

Go(r, where) == pc' = [pc EXCEPT ![r] = where]

\* The caller hears the first answer only: 504 if the timeout came first.
Answer(r, a) == reply' = [reply EXCEPT ![r] = IF reply[r] = "none" THEN a ELSE reply[r]]

Succeed(r) == Go(r, "done") /\ Answer(r, "ok")
Fail(r)    == Go(r, "failed") /\ Answer(r, "error")

Fault == faults < MaxFaults /\ faults' = faults + 1

\* The objects under the keys of D are gone; removed names the request.
Delete(r, D) ==
    /\ bucket' = [k \in Keys |-> IF k \in D THEN Absent ELSE bucket[k]]
    /\ removed' = [removed EXCEPT ![r] = removed[r] \cup D]

-----------------------------------------------------------------------------
(* Steps of a request.                                                     *)

Start(r) ==
    /\ pc[r] = "idle"
    /\ \/ /\ job[r].op \in FolderOp
          /\ Go(r, "listing") /\ UNCHANGED work
       \/ /\ job[r].op \in {"rename_file", "copy_file"}
          /\ Go(r, "copying")
          /\ plan' = [plan EXCEPT ![r] = {job[r].source}]
          /\ todo' = [todo EXCEPT ![r] = {job[r].source}]
          /\ UNCHANGED left
       \/ /\ job[r].op = "delete_file"
          /\ Go(r, "deleting")
          /\ left' = [left EXCEPT ![r] = {job[r].source}]
          /\ UNCHANGED <<plan, todo>>
       \/ /\ job[r].op = "put"
          /\ Go(r, "putting") /\ UNCHANGED work
    /\ UNCHANGED <<job, reply, bucket, copied, removed, faults>>

\* Mutant of Unlisted: the last name of the path is not part of the prefix.
UnlistedInParent(r) ==
    LET parent == SubSeq(job[r].source, 1, Len(job[r].source) - 1) IN
    {k \in Keys : /\ Under(k, parent) /\ Len(k) > Len(job[r].source) /\ bucket[k] # Absent
                  /\ \A l \in plan[r] : Position[l] < Position[k]}

\* What is left to list after the continuation token, the last key listed.
Unlisted(r) ==
    {k \in Keys : /\ Under(k, job[r].source) /\ bucket[k] # Absent
                  /\ \A l \in plan[r] : Position[l] < Position[k]}

\* Mutant of LastPage: only the first page is fetched.
FirstPage(r) == TRUE

LastPage(r) == Cardinality(Unlisted(r)) <= PageSize

\* One page of the listing.  After the last one, copies or deletions begin.
ListPage(r) ==
    /\ pc[r] = "listing"
    /\ LET listed == plan[r] \cup FirstOf(PageSize, Unlisted(r)) IN
       /\ plan' = [plan EXCEPT ![r] = listed]
       /\ \/ ~LastPage(r) /\ UNCHANGED <<pc, todo, left>>
          \/ /\ LastPage(r) /\ job[r].op = "delete_folder"
             /\ left' = [left EXCEPT ![r] = listed]
             /\ Go(r, "deleting") /\ UNCHANGED todo
          \/ /\ LastPage(r) /\ job[r].op # "delete_folder"
             /\ todo' = [todo EXCEPT ![r] = listed]
             /\ Go(r, "copying") /\ UNCHANGED left
    /\ UNCHANGED <<job, reply, bucket, copied, removed, faults>>

ListFails(r) ==
    /\ pc[r] = "listing"
    /\ Fault /\ Fail(r)
    /\ UNCHANGED <<job, work, bucket, copied, removed>>

\* Mutant of InFlight: a finished task does not release the semaphore.
InFlightKept(r) == FirstOf(MaxParallel - Cardinality(copied[r]), todo[r])

\* The copies that hold the semaphore: it is granted in the order of the tasks.
InFlight(r) == FirstOf(MaxParallel, todo[r])

\* S3 refuses to copy what is not there, or an object onto itself.
Copyable(r, k) == bucket[k] # Absent /\ Destination(job[r], k) # k

\* Mutant of CopyObject: the name of the file is put, not its content.
CopyName(r, k) == bucket' = [bucket EXCEPT ![Destination(job[r], k)] = k[Len(k)]]

CopyObject(r, k) ==
    bucket' = [bucket EXCEPT ![Destination(job[r], k)] = bucket[k]]

\* A copy task returns.  The tasks of a request that has failed go on.
Copied(r, k) ==
    /\ k \in InFlight(r) /\ Copyable(r, k)
    /\ CopyObject(r, k)
    /\ todo' = [todo EXCEPT ![r] = todo[r] \ {k}]
    /\ copied' = [copied EXCEPT ![r] = copied[r] \cup {k}]
    /\ UNCHANGED <<job, pc, plan, left, reply, removed, faults>>

\* A copy task raises, whether or not S3 has made the copy.  gather raises at
\* once and cancels no other task.
CopyFails(r, k) ==
    /\ k \in InFlight(r)
    /\ \/ ~Copyable(r, k) /\ UNCHANGED <<bucket, faults>>
       \/ Copyable(r, k) /\ Fault /\ (CopyObject(r, k) \/ UNCHANGED bucket)
    /\ todo' = [todo EXCEPT ![r] = todo[r] \ {k}]
    /\ IF pc[r] = "copying" THEN Fail(r) ELSE UNCHANGED <<pc, reply>>
    /\ UNCHANGED <<job, plan, left, copied, removed>>

\* Mutant of AllCopied: gather is not awaited.
SomeCopied(r) == TRUE

AllCopied(r) == todo[r] = {}

\* Mutant of ToDelete: the old folder is listed again.
ToDeleteNow(r) == {k \in Keys : Under(k, job[r].source) /\ bucket[k] # Absent}

ToDelete(r) == plan[r]

\* gather returns.
CopiesDone(r) ==
    /\ pc[r] = "copying" /\ AllCopied(r)
    /\ IF job[r].op \in Rename
       THEN Go(r, "deleting") /\ left' = [left EXCEPT ![r] = ToDelete(r)] /\ UNCHANGED reply
       ELSE Succeed(r) /\ UNCHANGED left
    /\ UNCHANGED <<job, plan, todo, bucket, copied, removed, faults>>

\* One delete_objects call is answered, or the delete_object call of a file.
\* The answer of delete_objects lists the keys that S3 failed to delete, and
\* nobody reads the list.
DeleteBatch(r) ==
    /\ pc[r] = "deleting" /\ left[r] # {}
    /\ LET batch == FirstOf(BatchSize, left[r]) IN
       /\ \/ Delete(r, batch) /\ UNCHANGED faults
          \/ /\ job[r].op \in FolderOp /\ Fault
             /\ \E D \in SUBSET batch : D # batch /\ Delete(r, D)
       /\ left' = [left EXCEPT ![r] = left[r] \ batch]
    /\ UNCHANGED <<job, pc, plan, todo, reply, copied>>

\* The call raises, whatever S3 has deleted.
DeleteFails(r) ==
    /\ pc[r] = "deleting" /\ left[r] # {}
    /\ Fault /\ Fail(r)
    /\ \E D \in SUBSET FirstOf(BatchSize, left[r]) : Delete(r, D)
    /\ UNCHANGED <<job, work, copied>>

DeletesDone(r) ==
    /\ pc[r] = "deleting" /\ left[r] = {}
    /\ Succeed(r)
    /\ UNCHANGED <<job, work, bucket, copied, removed, faults>>

PutObject(r) == bucket' = [bucket EXCEPT ![job[r].target] = job[r].content]

Put(r) ==
    /\ pc[r] = "putting"
    /\ PutObject(r) /\ Succeed(r)
    /\ UNCHANGED <<job, work, copied, removed, faults>>

PutFails(r) ==
    /\ pc[r] = "putting"
    /\ Fault /\ Fail(r)
    /\ PutObject(r) \/ UNCHANGED bucket
    /\ UNCHANGED <<job, work, copied, removed>>

\* RequestTimeoutMiddleware answers 504 for a folder route.  The application's
\* task goes on without its caller.
TimesOut(r) ==
    /\ pc[r] \in Active /\ job[r].op \in FolderOp /\ reply[r] = "none"
    /\ Answer(r, "timeout")
    /\ UNCHANGED <<job, pc, work, bucket, copied, removed, faults>>

\* The process ends, and with it every coroutine and copy task.
ProcessExit ==
    /\ Fault
    /\ pc' = [r \in Requests |-> IF pc[r] \in Active THEN "killed" ELSE pc[r]]
    /\ todo' = [r \in Requests |-> {}]
    /\ UNCHANGED <<job, plan, left, reply, bucket, copied, removed>>

\* Every request has been served.
AllServed ==
    /\ \A r \in Requests : pc[r] \in Final /\ todo[r] = {}
    /\ UNCHANGED vars

-----------------------------------------------------------------------------
Init ==
    /\ job \in Workloads
    /\ pc = [r \in Requests |-> "idle"]
    /\ plan = [r \in Requests |-> {}]
    /\ todo = [r \in Requests |-> {}]
    /\ left = [r \in Requests |-> {}]
    /\ reply = [r \in Requests |-> "none"]
    /\ bucket = Initial
    /\ copied = [r \in Requests |-> {}]
    /\ removed = [r \in Requests |-> {}]
    /\ faults = 0

RequestStep(r) ==
    \/ Start(r) \/ ListPage(r) \/ ListFails(r)
    \/ \E k \in todo[r] : Copied(r, k) \/ CopyFails(r, k)
    \/ CopiesDone(r) \/ DeleteBatch(r) \/ DeleteFails(r) \/ DeletesDone(r)
    \/ Put(r) \/ PutFails(r)

Next ==
    \/ \E r \in Requests : RequestStep(r) \/ TimesOut(r)
    \/ ProcessExit
    \/ AllServed

Spec == Init /\ [][Next]_vars

\* The loop runs whatever is ready, and read_timeout ends every S3 call.
FairSpec == Spec /\ \A r \in Requests : WF_vars(RequestStep(r))

-----------------------------------------------------------------------------
TypeOK ==
    /\ job \in Workloads
    /\ pc \in [Requests -> Active \cup Final \cup {"idle"}]
    /\ plan \in [Requests -> SUBSET Keys]
    /\ todo \in [Requests -> SUBSET Keys]
    /\ left \in [Requests -> SUBSET Keys]
    /\ reply \in [Requests -> {"none", "ok", "error", "timeout"}]
    /\ bucket \in [Keys -> Contents \cup {Absent}]
    /\ copied \in [Requests -> SUBSET Keys]
    /\ removed \in [Requests -> SUBSET Keys]
    /\ faults \in 0..MaxFaults

-----------------------------------------------------------------------------
(* Safety.                                                                 *)

\* What must not get lost: what was in the bucket, unless an upload to its key
\* replaces it, and what was uploaded, unless a renaming had listed its key.
Valuable(c) ==
    \/ \E k \in Keys :
          /\ Initial[k] = c
          /\ ~\E r \in Requests : job[r].op = "put" /\ job[r].target = k
    \/ \E r \in Requests :
          /\ job[r].op = "put" /\ job[r].content = c /\ reply[r] = "ok"
          /\ \A s \in Requests : job[s].op \in Rename => job[r].target \notin plan[s]

NoDeletes(w) == \A r \in Requests : w[r].op \notin {"delete_folder", "delete_file"}

\* As long as nobody asks for a deletion, no content that was in the bucket, or
\* whose upload was acknowledged, is ever gone: not while a folder is renamed,
\* not when the renaming fails half-way, is cut off by the end of the process, or
\* is tried again by a caller who was told of a timeout while it goes on.  The
\* exception is an upload to a key that a renaming has listed: the new content
\* may come after the copy and is then deleted with the old folder.
NothingLost ==
    NoDeletes(job) =>
        \A c \in Contents : Valuable(c) => \E k \in Keys : bucket[k] = c

\* What NothingLost takes for granted of the requests w, F being the keys that an
\* object ever comes to lie under: copies go where there was nothing and nobody
\* uploads to; what they make of an object of the bucket no renaming takes on and
\* no other copy overwrites; and two uploads to one key are of the same content.
SpreadsIn(w, F) ==
    LET copies(r, k) == /\ w[r].op \in Rename \cup {"copy_folder", "copy_file"}
                        /\ Source(w[r], k)
    IN  /\ \A k \in Keys : Initial[k] # Absent => k \in F
        /\ \A r, s \in Requests : w[r].op = "put" =>
              /\ w[r].target \in F
              /\ w[s].op = "put" /\ w[s].target = w[r].target => w[s].content = w[r].content
        /\ \A r \in Requests, k \in F : copies(r, k) =>
              LET d == Destination(w[r], k) IN
              /\ d \in F /\ Initial[d] = Absent
              /\ \A s \in Requests : w[s].op = "put" => w[s].target # d
              /\ Initial[k] # Absent => \A s \in Requests :
                    /\ w[s].op \in Rename => ~Source(w[s], d)
                    /\ \A l \in F : copies(s, l) /\ Destination(w[s], l) = d => l = k

Apart(w) == NoDeletes(w) => \E F \in SUBSET Keys : SpreadsIn(w, F)

\* A renaming deletes nothing before S3 has answered the copy of every object
\* that the listing found: a copy that fails leaves the folder as it was.
CopiesBeforeDeletes ==
    \A r \in Requests : job[r].op \in Rename /\ removed[r] # {} => plan[r] \subseteq copied[r]

\* A folder operation that is answered with success has listed everything that
\* was in the folder when it began and that nobody else has removed since.
NothingOverlooked ==
    \A r \in Requests : job[r].op \in FolderOp /\ reply[r] = "ok" =>
        \A k \in Keys : Initial[k] # Absent /\ Under(k, job[r].source) =>
            k \in plan[r] \/ \E s \in Requests \ {r} : k \in removed[s]

\* Component by component, so as not to depend on Under.
In(k, path) == Len(k) > Len(path) /\ \A i \in 1..Len(path) : k[i] = path[i]

MayRemove(j, k) ==
    \/ j.op \in {"rename_folder", "delete_folder"} /\ In(k, j.source)
    \/ j.op \in {"rename_file", "delete_file"} /\ k = j.source

MayWrite(j, k) ==
    \/ j.op \in {"rename_folder", "copy_folder"} /\ In(k, j.target)
    \/ j.op \in {"rename_file", "copy_file", "put"} /\ k = j.target

\* No step changes an object outside the folders and keys that a request names,
\* and only a renaming or a deletion that was asked for removes one.
StaysInScope ==
    [][\A k \in Keys : bucket'[k] # bucket[k] =>
          \E r \in Requests :
             /\ pc[r] # "idle"
             /\ IF bucket'[k] = Absent THEN MayRemove(job[r], k) ELSE MayWrite(job[r], k)]_vars

\* Every request that arrives is answered or dies with the process, and no copy
\* task of a request that failed runs, or waits for the semaphore, for ever.
Settles == <>(\A r \in Requests : pc[r] \in Final /\ todo[r] = {})

-----------------------------------------------------------------------------
(* What the API says and the code does not do.                             *)

\* "폴더 경로를 변경하거나 다른 위치로 이동합니다": after a renaming that nobody
\* interfered with, every object of the folder is under the new path.
RenameMoves ==
    \A r \in Requests : job[r].op = "rename_folder" /\ reply[r] = "ok" =>
        \A k \in Keys : Initial[k] # Absent /\ Under(k, job[r].source) =>
            bucket[Destination(job[r], k)] = Initial[k]

\* "... and all its contents deleted successfully".
DeleteEmpties ==
    \A r \in Requests : job[r].op = "delete_folder" /\ reply[r] = "ok" =>
        \A k \in Keys : Under(k, job[r].source) => bucket[k] = Absent
=============================================================================
