---------------------------- MODULE ObjectUpload ----------------------------
(***************************************************************************)
(* The upload pipeline of the service: AsyncStorageService.upload_file     *)
(* (an API upload, followed by the UploadTracker) and                      *)
(* upload_file_from_path (an upload of a local file, not tracked), the     *)
(* part tasks they spawn, the upload-cancel handler, and the S3 server     *)
(* that they talk to (external; modelled from the calls made to it).       *)
(*                                                                         *)
(* One action is one stretch of code between two suspensions of the        *)
(* asyncio loop.  A tracker call is part of the stretch that makes it: its *)
(* lock is never held across a suspension, so taking it never suspends.    *)
(***************************************************************************)
EXTENDS Integers, FiniteSets

CONSTANTS
    Uploads,        \* upload requests, one coroutine each
    NoUpload,       \* "no writer yet"
    Keys,           \* object keys of one bucket
    KeyOf,          \* the key each upload writes
    Size,           \* the file size of each upload, in the unit of ChunkSize
    Tracked,        \* uploads made by upload_file; the others by upload_file_from_path
    Threshold,      \* MULTIPART_THRESHOLD
    ChunkSize,      \* MULTIPART_CHUNK_SIZE
    MaxConcurrent,  \* MAX_CONCURRENT_PARTS
    MaxFaults       \* bound: failures (and so repeated calls) in one behaviour

ASSUME UploadAssumption ==
    /\ NoUpload \notin Uploads
    /\ KeyOf \in [Uploads -> Keys]
    /\ Size \in [Uploads -> Nat]
    /\ Tracked \subseteq Uploads
    /\ Threshold \in Nat \ {0}
    /\ ChunkSize \in Nat \ {0}
    /\ MaxConcurrent \in Nat \ {0}
    /\ MaxFaults \in Nat

VARIABLES
    pc,          \* where the coroutine of each upload is suspended
    applied,     \* uploads whose current S3 call has already taken effect
    pos,         \* bytes read from the file
    partNumber,  \* part_number
    active,      \* pending_tasks whose upload_part call is in flight
    good,        \* pending_tasks that returned and are not collected yet
    bad,         \* pending_tasks that raised and are not collected yet
    results,     \* parts_results: the parts collected so far
    uploaded,    \* uploaded_size, the local counter
    known,       \* uploads whose s3_upload_id is set
    reply,       \* what the caller of the upload was told
    tracker,     \* UploadTracker._uploads
    cancelAcked, \* uploads whose cancel request was answered with success
    object,      \* S3: the object under each key
    mpu,         \* S3: the multipart upload of each request
    stored,      \* S3: the parts received for it
    late,        \* requests given up by their sender that S3 may still execute
    orphans,     \* S3: uploads with a further open multipart upload, named by nobody
    landed,      \* history: uploads whose object was ever visible
    abortFailed, \* history: uploads whose abort call raised
    faults       \* failures so far, bounded by MaxFaults

tasks == <<active, good, bad>>
local == <<pos, partNumber, results, uploaded>>
s3    == <<object, mpu, stored, landed, orphans>>
vars  == <<pc, applied, tasks, local, known, reply, tracker, cancelAcked, s3,
           late, abortFailed, faults>>

-----------------------------------------------------------------------------
(* Data.  A part is its number and the range of the file it carries.       *)

Part == [pn : Nat, from : Nat, to : Nat]

Record == [status : {"none", "uploading", "completed", "failed"},
           uploaded_size : Nat, parts_completed : Nat, total_parts : Nat,
           error : {"none", "cause", "unbound", "user"}]

NoRecord == [status |-> "none", uploaded_size |-> 0, parts_completed |-> 0,
             total_parts |-> 0, error |-> "none"]

Final   == {"done", "failed", "killed"}
Calling == {"creating", "completing", "putting", "aborting"}

\* upload_file compares with > and upload_file_from_path with <.
IsMultipart(u) ==
    IF u \in Tracked THEN Size[u] > Threshold ELSE Size[u] >= Threshold

\* The total_parts that start_upload is given.
TotalParts(u) ==
    IF IsMultipart(u) THEN (Size[u] \div ChunkSize) + 1 ELSE 1

Pending(u) == active[u] \cup good[u] \cup bad[u]

\* A dictionary keyed by part number, updated with the parts of S.
Put(D, S) == {r \in D : \A s \in S : s.pn # r.pn} \cup S

\* The parts of D, concatenated in the order of their numbers, are the whole
\* file: the lowest starts at 0, each starts where its predecessor ended, the
\* highest ends at the end of the file.
Precedes(D, a, b) == a.pn < b.pn /\ \A c \in D : ~(a.pn < c.pn /\ c.pn < b.pn)

Whole(D, size) ==
    /\ D # {}
    /\ \A a, b \in D : a.pn = b.pn => a = b
    /\ \A a \in D : (\A b \in D : a.pn <= b.pn) => a.from = 0
    /\ \A a \in D : (\A b \in D : b.pn <= a.pn) => a.to = size
    /\ \A a, b \in D : Precedes(D, a, b) => a.to = b.from

\* The bytes that a set of disjoint parts carries.
Bytes(C) == Cardinality(UNION {(r.from + 1)..r.to : r \in C})

WholeFile(u) == {[pn |-> 1, from |-> 0, to |-> Size[u]]}

-----------------------------------------------------------------------------
(* The S3 server (external).  Each operator is the effect of one call.     *)

Publish(u, D) ==
    /\ object' = [object EXCEPT ![KeyOf[u]] = [by |-> u, data |-> D]]
    /\ landed' = landed \cup {u}

\* A request executed twice opens two multipart uploads.  The one whose id is
\* answered is mpu[u]; nothing will ever name the other.
S3Create(u) ==
    /\ mpu' = IF mpu[u] = "none" THEN [mpu EXCEPT ![u] = "open"] ELSE mpu
    /\ orphans' = IF mpu[u] = "none" THEN orphans ELSE orphans \cup {u}
    /\ UNCHANGED <<object, stored, landed>>

S3Complete(u) ==
    \/ /\ mpu[u] = "open" /\ results[u] \subseteq stored[u]
       /\ mpu' = [mpu EXCEPT ![u] = "completed"]
       /\ Publish(u, results[u])
       /\ UNCHANGED <<stored, orphans>>
    \/ /\ ~(mpu[u] = "open" /\ results[u] \subseteq stored[u])
       /\ UNCHANGED s3

S3Put(u) == Publish(u, WholeFile(u)) /\ UNCHANGED <<mpu, stored, orphans>>

\* Aborting an upload that is not open is refused with NoSuchUpload.
S3Abort(u) ==
    /\ mpu' = IF mpu[u] = "open" THEN [mpu EXCEPT ![u] = "aborted"] ELSE mpu
    /\ UNCHANGED <<object, stored, landed, orphans>>

Effect(call, u) ==
    \/ call = "creating"   /\ S3Create(u)
    \/ call = "completing" /\ S3Complete(u)
    \/ call = "putting"    /\ S3Put(u)
    \/ call = "aborting"   /\ S3Abort(u)

\* The call that a coroutine is waiting for takes effect; its answer is later.
S3Apply(u) ==
    /\ pc[u] \in Calling /\ u \notin applied
    /\ Effect(pc[u], u)
    /\ applied' = applied \cup {u}
    /\ UNCHANGED <<pc, tasks, local, known, reply, tracker, cancelAcked, late,
                   abortFailed, faults>>

\* A request whose sender gave it up or died takes effect after all.
S3Late ==
    \E c \in late :
        /\ Effect(c.call, c.u)
        /\ late' = late \ {c}
        /\ UNCHANGED <<pc, applied, tasks, local, known, reply, tracker,
                       cancelAcked, abortFailed, faults>>

S3StorePart(u, r) ==
    /\ mpu[u] = "open" /\ r \notin stored[u]
    /\ stored' = [stored EXCEPT ![u] = Put(stored[u], {r})]
    /\ UNCHANGED <<pc, applied, tasks, local, known, reply, tracker,
                   cancelAcked, object, mpu, landed, orphans, late, abortFailed,
                   faults>>

-----------------------------------------------------------------------------
(* UploadTracker.  Every call is ignored for an upload with no record.     *)

Track(u, status, size, parts, error) ==
    tracker' = IF tracker[u].status = "none" THEN tracker
               ELSE [tracker EXCEPT ![u] =
                       [status |-> status, uploaded_size |-> size,
                        parts_completed |-> parts,
                        total_parts |-> tracker[u].total_parts, error |-> error]]

start_upload(u) ==
    tracker' = [tracker EXCEPT ![u] =
        [status |-> "uploading", uploaded_size |-> 0, parts_completed |-> 0,
         total_parts |-> TotalParts(u), error |-> "none"]]

update_progress(u, size, parts) ==
    Track(u, tracker[u].status, size, parts, tracker[u].error)

complete_upload(u) ==
    Track(u, "completed", Size[u], tracker[u].parts_completed, tracker[u].error)

\* Mutant of fail_upload: records the status that UploadTracker.cancel_upload sets.
FailAsCancelled(u, message) ==
    Track(u, "cancelled", tracker[u].uploaded_size, tracker[u].parts_completed, message)

fail_upload(u, message) ==
    Track(u, "failed", tracker[u].uploaded_size, tracker[u].parts_completed, message)

-----------------------------------------------------------------------------
(* How a coroutine moves on.                                               *)

\* Send an S3 call and wait for its answer.
Call(u, call) ==
    /\ pc' = [pc EXCEPT ![u] = call]
    /\ applied' = applied \ {u}

Go(u, where) == pc' = [pc EXCEPT ![u] = where] /\ UNCHANGED applied

\* Mutant of Fail: the tracker is not told.
FailUntold(u, message) ==
    Go(u, "failed") /\ reply' = [reply EXCEPT ![u] = "error"] /\ UNCHANGED tracker

\* The exception leaves upload_file or upload_file_from_path.
Fail(u, message) ==
    /\ Go(u, "failed")
    /\ reply' = [reply EXCEPT ![u] = "error"]
    /\ fail_upload(u, message)

Succeed(u) ==
    /\ Go(u, "done")
    /\ reply' = [reply EXCEPT ![u] = "ok"]
    /\ complete_upload(u)

\* Mutants of Unwind: no task is cancelled and waited for; nothing is aborted.
UnwindAtOnce(u, pending) == Call(u, "aborting")
UnwindWithoutAbort(u, pending) == Go(u, IF pending = {} THEN "failed" ELSE "unwinding")

\* The except clause of a multipart upload whose id is known: cancel what is
\* pending and wait for it, or abort at once when nothing is pending.
Unwind(u, pending) ==
    IF pending = {} THEN Call(u, "aborting") ELSE Go(u, "unwinding")

Fault == faults < MaxFaults /\ faults' = faults + 1

\* The request that a coroutine is waiting for, and the number of failures before
\* it is given up, which tells one request for a call from the next.
Request(u) == [call |-> pc[u], u |-> u, at |-> faults]

\* A request that its sender gives up on may still be executed later.
GiveUp(u) ==
    late' = IF u \in applied THEN late ELSE late \cup {Request(u)}

\* botocore gives a request up, executed or not, and sends the call again:
\* the client is configured for three retries.  (A part is sent again without effect:
\* S3 keeps one part of each number.)
Retry(u) ==
    /\ pc[u] \in Calling
    /\ Fault
    /\ GiveUp(u)
    /\ applied' = applied \ {u}
    /\ UNCHANGED <<pc, tasks, local, known, reply, tracker, cancelAcked, s3,
                   abortFailed>>

-----------------------------------------------------------------------------
(* Steps of an upload coroutine.                                           *)

Start(u) ==
    /\ pc[u] = "idle"
    /\ IF IsMultipart(u) THEN Call(u, "creating") ELSE Go(u, "reading")
    /\ IF u \in Tracked THEN start_upload(u) ELSE UNCHANGED tracker
    /\ UNCHANGED <<tasks, local, known, reply, cancelAcked, s3, late,
                   abortFailed, faults>>

\* create_multipart_upload answered.
Created(u) ==
    /\ pc[u] = "creating" /\ u \in applied
    /\ Go(u, "reading")
    /\ known' = known \cup {u}
    /\ UNCHANGED <<tasks, local, reply, tracker, cancelAcked, s3, late,
                   abortFailed, faults>>

\* create_multipart_upload raised.  In upload_file the except clause reads
\* pending_tasks before it is assigned; upload_file_from_path assigns it first.
CreateFails(u) ==
    /\ pc[u] = "creating"
    /\ Fault
    /\ Fail(u, IF u \in Tracked THEN "unbound" ELSE "cause")
    /\ GiveUp(u)
    /\ UNCHANGED <<tasks, local, known, cancelAcked, s3, abortFailed>>

\* Mutant of Full: one more than MAX_CONCURRENT_PARTS.
FullLate(u, r) == Cardinality(Pending(u) \cup {r}) > MaxConcurrent

\* MAX_CONCURRENT_PARTS tasks are pending, with the one just spawned.
Full(u, r) == Cardinality(Pending(u) \cup {r}) >= MaxConcurrent

\* One turn of the read loop: read a chunk, spawn its task, and wait for a
\* task if MAX_CONCURRENT_PARTS are pending.
ReadChunk(u) ==
    /\ pc[u] = "reading" /\ IsMultipart(u) /\ pos[u] < Size[u]
    /\ LET end == IF pos[u] + ChunkSize < Size[u] THEN pos[u] + ChunkSize ELSE Size[u]
           r   == [pn |-> partNumber[u], from |-> pos[u], to |-> end]
       IN  /\ active' = [active EXCEPT ![u] = active[u] \cup {r}]
           /\ pos' = [pos EXCEPT ![u] = end]
           /\ IF Full(u, r)
              THEN Go(u, "waiting") /\ UNCHANGED partNumber
              ELSE /\ Go(u, "reading")
                   /\ partNumber' = [partNumber EXCEPT ![u] = partNumber[u] + 1]
    /\ UNCHANGED <<good, bad, results, uploaded, known, reply, tracker,
                   cancelAcked, s3, late, abortFailed, faults>>

\* Mutant of AtEnd: the empty chunk is not recognised.
NeverAtEnd(u) == pos[u] > Size[u]

AtEnd(u) == pos[u] = Size[u]

\* The read loop meets the end of the file.
ReadEnd(u) ==
    /\ pc[u] = "reading" /\ IsMultipart(u) /\ AtEnd(u)
    /\ IF Pending(u) = {} THEN Call(u, "completing") ELSE Go(u, "draining")
    /\ UNCHANGED <<tasks, local, known, reply, tracker, cancelAcked, s3, late,
                   abortFailed, faults>>

\* A small file is read whole; the tracker is told before the object is put.
ReadSmall(u) ==
    /\ pc[u] = "reading" /\ ~IsMultipart(u)
    /\ Call(u, "putting")
    /\ update_progress(u, Size[u], 1)
    /\ UNCHANGED <<tasks, local, known, reply, cancelAcked, s3, late,
                   abortFailed, faults>>

ReadFails(u) ==
    /\ pc[u] = "reading"
    /\ Fault
    /\ IF IsMultipart(u) THEN Unwind(u, Pending(u)) /\ UNCHANGED <<reply, tracker>>
                         ELSE Fail(u, "cause")
    /\ UNCHANGED <<tasks, local, known, cancelAcked, s3, late, abortFailed>>

\* Mutant of Collect: the set of pending tasks is not replaced by what is left.
CollectAgain(u, C) ==
    /\ results' = [results EXCEPT ![u] = Put(results[u], C)]
    /\ uploaded' = [uploaded EXCEPT ![u] = uploaded[u] + Bytes(C)]
    /\ UNCHANGED <<good, bad>>

\* asyncio.wait returns every finished task, in no particular order, and the
\* loop over them takes one after the other.  C are the parts it takes before
\* it is through or meets a task that raised.
Collect(u, C) ==
    /\ results' = [results EXCEPT ![u] = Put(results[u], C)]
    /\ uploaded' = [uploaded EXCEPT ![u] = uploaded[u] + Bytes(C)]
    /\ good' = [good EXCEPT ![u] = {}]
    /\ bad' = [bad EXCEPT ![u] = {}]

\* What the tracker shows after the loop: the part number taken last.
Report(u, C) ==
    IF u \in Tracked /\ C # {}
    THEN \E r \in C : update_progress(u, uploaded'[u], r.pn)
    ELSE UNCHANGED tracker

Finished(u) == good[u] \cup bad[u]

\* The wait inside the read loop is over and no task raised.
CollectReading(u) ==
    /\ pc[u] = "waiting" /\ Finished(u) # {} /\ bad[u] = {}
    /\ Collect(u, good[u])
    /\ Report(u, good[u])
    /\ partNumber' = [partNumber EXCEPT ![u] = partNumber[u] + 1]
    /\ Go(u, "reading")
    /\ UNCHANGED <<active, pos, known, reply, cancelAcked, s3, late,
                   abortFailed, faults>>

\* Mutant of Drained: the drain loop runs once.
DrainedOnce(u) == good[u] # {}

Drained(u) == active[u] = {}

\* The wait of the drain loop is over and no task raised.
CollectDraining(u) ==
    /\ pc[u] = "draining" /\ Finished(u) # {} /\ bad[u] = {}
    /\ Collect(u, good[u])
    /\ Report(u, good[u])
    /\ IF Drained(u) THEN Call(u, "completing") ELSE Go(u, "draining")
    /\ UNCHANGED <<active, pos, partNumber, known, reply, cancelAcked, s3, late,
                   abortFailed, faults>>

\* A finished task raised: what asyncio.wait left pending is cancelled.
CollectRaises(u) ==
    /\ pc[u] \in {"waiting", "draining"} /\ bad[u] # {}
    /\ \E C \in SUBSET good[u] : Collect(u, C) /\ Report(u, C)
    /\ Unwind(u, active[u])
    /\ UNCHANGED <<active, pos, partNumber, known, reply, cancelAcked, s3, late,
                   abortFailed, faults>>

\* gather: every pending task is over.
Unwound(u) ==
    /\ pc[u] = "unwinding" /\ active[u] = {}
    /\ good' = [good EXCEPT ![u] = {}]
    /\ bad' = [bad EXCEPT ![u] = {}]
    /\ Call(u, "aborting")
    /\ UNCHANGED <<active, local, known, reply, tracker, cancelAcked, s3, late,
                   abortFailed, faults>>

\* Mutant of Answered: the S3 call is not awaited.
Unawaited(u) == pc[u] \in {"completing", "putting"}

\* The write took effect and S3 said so.
Answered(u) == u \in applied /\ u \in landed

\* complete_multipart_upload or put_object answered.  upload_file goes on to
\* presign a URL; upload_file_from_path returns.
Written(u) ==
    /\ pc[u] \in {"completing", "putting"} /\ Answered(u)
    /\ IF u \in Tracked THEN Go(u, "presigning") /\ UNCHANGED <<reply, tracker>>
                        ELSE Succeed(u)
    /\ UNCHANGED <<tasks, local, known, cancelAcked, s3, late, abortFailed, faults>>

\* complete_multipart_upload or put_object raised, before or after its effect.
WriteFails(u) ==
    /\ pc[u] \in {"completing", "putting"}
    /\ Fault
    /\ GiveUp(u)
    /\ IF IsMultipart(u) THEN Unwind(u, {}) /\ UNCHANGED <<reply, tracker>>
                         ELSE Fail(u, "cause")
    /\ UNCHANGED <<tasks, local, known, cancelAcked, s3, abortFailed>>

Presigned(u) ==
    /\ pc[u] = "presigning"
    /\ Succeed(u)
    /\ UNCHANGED <<tasks, local, known, cancelAcked, s3, late, abortFailed, faults>>

PresignFails(u) ==
    /\ pc[u] = "presigning"
    /\ Fault
    /\ IF IsMultipart(u) THEN Unwind(u, {}) /\ UNCHANGED <<reply, tracker>>
                         ELSE Fail(u, "cause")
    /\ UNCHANGED <<tasks, local, known, cancelAcked, s3, late, abortFailed>>

\* abort_multipart_upload answered, if only to refuse: the exception that
\* brought the coroutine here is raised again.
Aborted(u) ==
    /\ pc[u] = "aborting" /\ u \in applied
    /\ Fail(u, "cause")
    /\ UNCHANGED <<tasks, local, known, cancelAcked, s3, late, abortFailed, faults>>

\* abort_multipart_upload raised: logged and swallowed.
AbortFails(u) ==
    /\ pc[u] = "aborting"
    /\ Fault
    /\ GiveUp(u)
    /\ abortFailed' = abortFailed \cup {u}
    /\ Fail(u, "cause")
    /\ UNCHANGED <<tasks, local, known, cancelAcked, s3>>

Coroutine(u) ==
    \/ Start(u) \/ Created(u) \/ CreateFails(u)
    \/ ReadChunk(u) \/ ReadEnd(u) \/ ReadSmall(u) \/ ReadFails(u)
    \/ CollectReading(u) \/ CollectDraining(u) \/ CollectRaises(u) \/ Unwound(u)
    \/ Written(u) \/ WriteFails(u) \/ Presigned(u) \/ PresignFails(u)
    \/ Aborted(u) \/ AbortFails(u)

-----------------------------------------------------------------------------
(* Steps of the task that runs _upload_part for the part r.                *)

\* Mutant of Received: the answer of upload_part is not awaited.
Sent(u, r) == r \in active[u]

\* S3 has the part, and answered with its ETag.
Received(u, r) == r \in stored[u]

PartReturns(u, r) ==
    /\ pc[u] # "unwinding" /\ Received(u, r)
    /\ active' = [active EXCEPT ![u] = active[u] \ {r}]
    /\ good' = [good EXCEPT ![u] = good[u] \cup {r}]
    /\ UNCHANGED <<pc, applied, bad, local, known, reply, tracker, cancelAcked,
                   s3, late, abortFailed, faults>>

PartRaises(u, r) ==
    /\ pc[u] # "unwinding"
    /\ Fault
    /\ active' = [active EXCEPT ![u] = active[u] \ {r}]
    /\ bad' = [bad EXCEPT ![u] = bad[u] \cup {r}]
    /\ UNCHANGED <<pc, applied, good, local, known, reply, tracker, cancelAcked,
                   s3, late, abortFailed>>

\* The task was cancelled by the except clause.
PartCancelled(u, r) ==
    /\ pc[u] = "unwinding"
    /\ active' = [active EXCEPT ![u] = active[u] \ {r}]
    /\ UNCHANGED <<pc, applied, good, bad, local, known, reply, tracker,
                   cancelAcked, s3, late, abortFailed, faults>>

PartTask(u) ==
    \E r \in active[u] : \/ S3StorePart(u, r) \/ PartReturns(u, r)
                         \/ PartRaises(u, r) \/ PartCancelled(u, r)

-----------------------------------------------------------------------------
(* The handler of DELETE /uploads/{upload_id}.                             *)

cancel_upload(u) ==
    /\ tracker[u].status = "uploading"
    /\ fail_upload(u, "user")
    /\ cancelAcked' = cancelAcked \cup {u}
    /\ UNCHANGED <<pc, applied, tasks, local, known, reply, s3, late,
                   abortFailed, faults>>

\* The process ends and starts again.  A crash and the forced end of a graceful
\* shutdown look alike: CancelledError is no Exception, so neither except clause
\* runs.  Coroutines, tasks and the tracker are gone; S3 is not.
ProcessExit ==
    /\ Fault
    /\ pc' = [u \in Uploads |-> IF pc[u] \in Final \cup {"idle"} THEN pc[u] ELSE "killed"]
    /\ late' = late \cup {Request(u) : u \in {v \in Uploads \ applied : pc[v] \in Calling}}
    /\ active' = [u \in Uploads |-> {}]
    /\ good' = [u \in Uploads |-> {}]
    /\ bad' = [u \in Uploads |-> {}]
    /\ tracker' = [u \in Uploads |-> NoRecord]
    /\ UNCHANGED <<applied, local, known, reply, cancelAcked, s3, abortFailed>>

\* No upload is under way.
NothingToDo == (\A u \in Uploads : pc[u] \in Final \cup {"idle"}) /\ UNCHANGED vars

-----------------------------------------------------------------------------
Init ==
    /\ pc = [u \in Uploads |-> "idle"]
    /\ applied = {}
    /\ pos = [u \in Uploads |-> 0]
    /\ partNumber = [u \in Uploads |-> 1]
    /\ active = [u \in Uploads |-> {}]
    /\ good = [u \in Uploads |-> {}]
    /\ bad = [u \in Uploads |-> {}]
    /\ results = [u \in Uploads |-> {}]
    /\ uploaded = [u \in Uploads |-> 0]
    /\ known = {}
    /\ reply = [u \in Uploads |-> "none"]
    /\ tracker = [u \in Uploads |-> NoRecord]
    /\ cancelAcked = {}
    /\ object = [k \in Keys |-> [by |-> NoUpload, data |-> {}]]
    /\ mpu = [u \in Uploads |-> "none"]
    /\ stored = [u \in Uploads |-> {}]
    /\ late = {}
    /\ orphans = {}
    /\ landed = {}
    /\ abortFailed = {}
    /\ faults = 0

UploadStep(u) == Coroutine(u) \/ S3Apply(u) \/ Retry(u) \/ PartTask(u)

Next ==
    \/ \E u \in Uploads : UploadStep(u) \/ cancel_upload(u)
    \/ S3Late
    \/ ProcessExit
    \/ NothingToDo

Spec == Init /\ [][Next]_vars

\* While some upload can take a step, one does: the loop runs whatever is ready,
\* and read_timeout ends every S3 call.
FairSpec == Spec /\ WF_vars(\E u \in Uploads : UploadStep(u))

-----------------------------------------------------------------------------
TypeOK ==
    /\ pc \in [Uploads -> Final \cup Calling \cup
                 {"idle", "reading", "waiting", "draining", "unwinding", "presigning"}]
    /\ applied \subseteq Uploads
    /\ pos \in [Uploads -> Nat]
    /\ partNumber \in [Uploads -> Nat]
    /\ active \in [Uploads -> SUBSET Part]
    /\ good \in [Uploads -> SUBSET Part]
    /\ bad \in [Uploads -> SUBSET Part]
    /\ results \in [Uploads -> SUBSET Part]
    /\ uploaded \in [Uploads -> Nat]
    /\ known \subseteq Uploads
    /\ reply \in [Uploads -> {"none", "ok", "error"}]
    /\ tracker \in [Uploads -> Record]
    /\ cancelAcked \subseteq Uploads
    /\ object \in [Keys -> [by : Uploads \cup {NoUpload}, data : SUBSET Part]]
    /\ mpu \in [Uploads -> {"none", "open", "completed", "aborted"}]
    /\ stored \in [Uploads -> SUBSET Part]
    /\ late \subseteq [call : Calling, u : Uploads, at : Nat]
    /\ landed \subseteq Uploads
    /\ orphans \subseteq Uploads
    /\ abortFailed \subseteq Uploads
    /\ faults \in 0..MaxFaults

-----------------------------------------------------------------------------
(* Safety.                                                                 *)

\* Every object in the bucket is the whole file of one upload of its key, every
\* chunk once and in order, whatever the order in which part tasks finish and
\* whichever other uploads write the same key.
ObjectsWhole ==
    \A k \in Keys : object[k].by # NoUpload =>
        KeyOf[object[k].by] = k /\ Whole(object[k].data, Size[object[k].by])

\* complete_multipart_upload never lists a part that S3 has not received.
PartsReceived == \A u \in Uploads : pc[u] = "completing" => results[u] \subseteq stored[u]

\* An upload never has more than MAX_CONCURRENT_PARTS part tasks pending.
BoundedConcurrency == \A u \in Uploads : Cardinality(Pending(u)) <= MaxConcurrent

\* No part task is pending once the upload is being completed or aborted, nor
\* after its request was answered: S3 would keep the parts that arrive later.
NoStrayTasks ==
    \A u \in Uploads :
        pc[u] \in Final \cup Calling \cup {"presigning"} => Pending(u) = {}

\* A multipart upload that is open in S3 has a coroutine that will close it,
\* unless the reply that would have named it was lost, the abort call raised
\* or the process ended: there is no other way to leave parts behind.  A second
\* one exists only where a request was given up and sent again.
OpenHasOwner ==
    \A u \in Uploads :
        /\ mpu[u] = "open" =>
             \/ pc[u] \notin Final
             \/ pc[u] = "failed" /\ (u \notin known \/ u \in abortFailed)
             \/ pc[u] = "killed"
        /\ u \in orphans => faults > 0

\* While a record exists its status is the truth of the request: completed just
\* when the caller was told so, and uploading only while the coroutine runs.
TrackerTruth ==
    \A u \in Uploads :
        /\ tracker[u].status = "completed" => reply[u] = "ok" /\ u \in landed
        /\ tracker[u].status = "uploading" => reply[u] = "none" /\ pc[u] \notin Final
        /\ tracker[u].status = "failed" => reply[u] = "error" \/ u \in cancelAcked

\* The progress shown by a record never exceeds 100 percent.
ProgressWithinTotal == \A u \in Uploads : tracker[u].uploaded_size <= Size[u]

-----------------------------------------------------------------------------
(* Refinement and liveness.                                                *)

\* To its callers an upload is atomic: see AtomicUpload.
Abstract == INSTANCE AtomicUpload WITH
    current   <- [k \in Keys |-> object[k].by],
    withdrawn <- {u \in Uploads : mpu[u] = "aborted"},
    again     <- {u \in Uploads : \E c \in late : c.call = "putting" /\ c.u = u}

ImplementsAtomicUpload == Abstract!Spec

\* Every upload that starts is answered or dies with the process: no fault of
\* S3 or of a part task leaves its coroutine waiting for ever, for room, in the
\* drain loop or on the tasks it has cancelled.  (pc[u] is never idle again.)
Terminates == <>[](\A u \in Uploads : pc[u] \in Final \cup {"idle"})

-----------------------------------------------------------------------------
(* What the API's documentation says and the code does not do.             *)

\* "진행 중인 업로드 작업을 취소합니다": a cancelled upload does not complete.
CancelStops == \A u \in cancelAcked : tracker[u].status # "completed"

\* parts_completed is "완료된 파트 수", the number of completed parts.
PartsCompletedIsCount ==
    \A u \in Uploads : IsMultipart(u) /\ tracker[u].status = "uploading" =>
        tracker[u].parts_completed = Cardinality(results[u])
=============================================================================
