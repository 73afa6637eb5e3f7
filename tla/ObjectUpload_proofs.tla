------------------------ MODULE ObjectUpload_proofs -------------------------
(***************************************************************************)
(* Proofs about ObjectUpload for every set of uploads, keys and sizes.     *)
(* The inductive invariant has a part for the control state of an upload   *)
(* and of S3 (Control), one for the part tasks (Tasks) and one for the     *)
(* file ranges that the parts carry (Ranges).                              *)
(***************************************************************************)
EXTENDS ObjectUpload, FiniteSetTheorems, TLAPS

-----------------------------------------------------------------------------
(* The inductive invariant.                                                *)

\* Where the coroutine of u is says what S3, the tracker and the caller know.
ControlOf(u) ==
    /\ IsMultipart(u) => pc[u] # "putting"
    /\ ~IsMultipart(u) =>
          /\ pc[u] \in {"idle", "reading", "putting", "presigning"} \cup Final
          /\ mpu[u] = "none"
    /\ pc[u] \in {"idle", "creating"} => u \notin known
    /\ pc[u] = "idle" => mpu[u] = "none"
    /\ pc[u] = "creating" => mpu[u] = "open" \/ (mpu[u] = "none" /\ u \notin applied)
    /\ u \in known => mpu[u] # "none"
    /\ IsMultipart(u) /\ pc[u] \in {"reading", "waiting", "draining", "unwinding"} =>
          mpu[u] = "open" /\ u \in known
    /\ pc[u] \in {"completing", "aborting"} => mpu[u] # "none" /\ u \in known
    /\ pc[u] = "aborting" /\ u \in applied => mpu[u] # "open"
    /\ IsMultipart(u) /\ u \in landed => mpu[u] = "completed" /\ u \in known
    /\ pc[u] \in {"presigning", "done"} => u \in landed
    /\ pc[u] = "failed" /\ u \in known /\ mpu[u] = "open" => u \in abortFailed
    /\ reply[u] = (IF pc[u] = "done" THEN "ok" ELSE IF pc[u] = "failed" THEN "error" ELSE "none")
    /\ pc[u] = "idle" => tracker[u].status = "none"
    /\ tracker[u].status = "uploading" => pc[u] \notin Final
    /\ tracker[u].status = "completed" => pc[u] = "done"
    /\ tracker[u].status = "failed" => pc[u] = "failed" \/ u \in cancelAcked

\* The uploads that may have sent a completion or an abort.
Closing(u) == pc[u] \in {"completing", "presigning", "aborting"} \cup Final

\* A request that was given up belongs to an upload that got as far as the call.
LateOf(c) ==
    /\ pc[c.u] # "idle"
    /\ IF c.call = "putting" THEN ~IsMultipart(c.u) ELSE IsMultipart(c.u)
    /\ c.call \in {"completing", "aborting"} =>
          Closing(c.u) /\ mpu[c.u] # "none" /\ c.u \in known

Control ==
    /\ \A u \in Uploads : ControlOf(u)
    /\ \A c \in late : LateOf(c)

\* The task sets of every upload are finite.
FiniteTasks ==
    \A u \in Uploads : IsFiniteSet(active[u]) /\ IsFiniteSet(good[u]) /\ IsFiniteSet(bad[u])

\* The parts of S are numbered 1 to n without gap or repetition, and the range
\* of each starts where that of its predecessor ended, from 0 up to end.
Chain(S, n, end) ==
    /\ \A a \in S : a.pn \in 1..n
    /\ \A a, b \in S : a.pn = b.pn => a = b
    /\ \A i \in 1..n : \E a \in S : a.pn = i
    /\ \A a \in S : (a.pn = 1 => a.from = 0) /\ (a.pn = n => a.to = end)
    /\ \A a, b \in S : b.pn = a.pn + 1 => a.to = b.from
    /\ n = 0 => end = 0

\* The parts of the file read so far, and how many they are: while the read loop
\* waits, part_number is still that of the last one.
Spawned(u) == Pending(u) \cup results[u]
Count(u)   == IF pc[u] = "waiting" THEN partNumber[u] ELSE partNumber[u] - 1

InLoop(u) == IsMultipart(u) /\ pc[u] \in {"reading", "waiting", "draining"}

TasksOf(u) ==
    /\ Pending(u) # {} =>
          IsMultipart(u) /\ pc[u] \in {"reading", "waiting", "draining", "unwinding"}
    /\ active[u] \cap good[u] = {}
    /\ Cardinality(Pending(u)) <= MaxConcurrent
    /\ pc[u] = "reading" /\ IsMultipart(u) => Cardinality(Pending(u)) < MaxConcurrent

LateComplete(u) == \E c \in late : c.call = "completing" /\ c.u = u

RangesOf(u) ==
    /\ pc[u] \in {"idle", "creating"} => pos[u] = 0 /\ partNumber[u] = 1 /\ results[u] = {}
    /\ InLoop(u) =>
          /\ partNumber[u] >= 1
          /\ Chain(Spawned(u), Count(u), pos[u])
          /\ pos[u] <= Size[u]
          /\ good[u] \cup results[u] \subseteq stored[u]
    /\ pc[u] = "draining" => pos[u] = Size[u]
    /\ pc[u] = "completing" => results[u] \subseteq stored[u]
    /\ pc[u] = "completing" \/ LateComplete(u) => Whole(results[u], Size[u])

\* Without a failure nothing is sent twice.
Repeated == \E u \in Uploads : pc[u] = "creating" /\ u \notin applied /\ mpu[u] = "open"
Faulty   == late # {} \/ orphans # {} \/ Repeated => faults > 0

Data == \A u \in Uploads : TasksOf(u) /\ RangesOf(u)

IInv == TypeOK /\ FiniteTasks /\ Control /\ Data /\ Faulty /\ ObjectsWhole

-----------------------------------------------------------------------------
(* Types.                                                                  *)

\* The bytes of a finite set of parts are a number.
LEMMA BytesNat ==
    ASSUME NEW C \in SUBSET Part, IsFiniteSet(C)
    PROVE  Bytes(C) \in Nat
<1> DEFINE range(r) == (r.from + 1)..r.to
           ranges   == {range(r) : r \in C}
           f        == [r \in C |-> range(r)]
<1>1. IsFiniteSet(ranges)
  <2>1. f \in Surjection(C, ranges)
    BY DEF Surjection
  <2> QED
    BY <2>1, FS_Surjection
<1>2. \A T \in ranges : IsFiniteSet(T)
  BY FS_Interval DEF Part
<1>3. IsFiniteSet(UNION ranges)
  BY <1>1, <1>2, FS_UNION
<1> QED
  BY <1>3, FS_CardinalityType DEF Bytes

\* start_upload is given a number of parts.
LEMMA TotalPartsNat == ASSUME NEW u \in Uploads PROVE TotalParts(u) \in Nat
  BY UploadAssumption DEF TotalParts

\* The tracker's records keep their type.
LEMMA TrackTypes ==
    ASSUME tracker \in [Uploads -> Record], NEW u \in Uploads,
           NEW st \in {"none", "uploading", "completed", "failed"},
           NEW n \in Nat, NEW m \in Nat, NEW e \in {"none", "cause", "unbound", "user"},
           Track(u, st, n, m, e)
    PROVE  tracker' \in [Uploads -> Record]
<1>1. tracker[u].total_parts \in Nat
  BY DEF Record
<1> DEFINE r == [status |-> st, uploaded_size |-> n, parts_completed |-> m,
                 total_parts |-> tracker[u].total_parts, error |-> e]
<1>2. r \in Record
  BY <1>1 DEF Record
<1>3. tracker' = tracker \/ tracker' = [tracker EXCEPT ![u] = r]
  BY DEF Track
<1> HIDE DEF r
<1> QED
  BY <1>2, <1>3

LEMMA TrackerTypes ==
    ASSUME tracker \in [Uploads -> Record], NEW u \in Uploads,
           NEW n \in Nat, NEW m \in Nat, NEW e \in {"cause", "unbound", "user"},
           \/ start_upload(u) \/ update_progress(u, n, m)
           \/ complete_upload(u) \/ fail_upload(u, e)
    PROVE  tracker' \in [Uploads -> Record]
<1>1. CASE start_upload(u)
  <2>1. [status |-> "uploading", uploaded_size |-> 0, parts_completed |-> 0,
         total_parts |-> TotalParts(u), error |-> "none"] \in Record
    BY TotalPartsNat DEF Record
  <2> QED
    BY <1>1, <2>1 DEF start_upload
<1>2. /\ tracker[u].status \in {"none", "uploading", "completed", "failed"}
      /\ tracker[u].uploaded_size \in Nat
      /\ tracker[u].parts_completed \in Nat
      /\ tracker[u].error \in {"none", "cause", "unbound", "user"}
      /\ Size[u] \in Nat
  BY UploadAssumption DEF Record
<1>3. CASE update_progress(u, n, m)
  BY <1>2, <1>3, TrackTypes DEF update_progress
<1>4. CASE complete_upload(u)
  BY <1>2, <1>4, TrackTypes DEF complete_upload
<1>5. CASE fail_upload(u, e)
  BY <1>2, <1>5, TrackTypes DEF fail_upload
<1> QED
  BY <1>1, <1>3, <1>4, <1>5

LEMMA InitTypeOK == Init => TypeOK
  BY UploadAssumption DEF Init, TypeOK, Record, NoRecord, Final

\* Next, one action at a time.
LEMMA NextCases ==
    ASSUME Next
    PROVE  \/ \E u \in Uploads :
                \/ Start(u) \/ Created(u) \/ CreateFails(u)
                \/ ReadChunk(u) \/ ReadEnd(u) \/ ReadSmall(u) \/ ReadFails(u)
                \/ CollectReading(u) \/ CollectDraining(u) \/ CollectRaises(u)
                \/ Unwound(u) \/ Written(u) \/ WriteFails(u) \/ Presigned(u)
                \/ PresignFails(u) \/ Aborted(u) \/ AbortFails(u)
                \/ S3Apply(u) \/ Retry(u) \/ cancel_upload(u)
                \/ \E r \in active[u] : \/ S3StorePart(u, r) \/ PartReturns(u, r)
                                        \/ PartRaises(u, r) \/ PartCancelled(u, r)
           \/ S3Late \/ ProcessExit \/ UNCHANGED vars
  BY DEF Next, UploadStep, Coroutine, PartTask, NothingToDo

\* Effects of S3 calls keep the types of the server's state.
LEMMA EffectTypes ==
    ASSUME TypeOK, NEW u \in Uploads, NEW call, Effect(call, u)
    PROVE  /\ object' \in [Keys -> [by : Uploads \cup {NoUpload}, data : SUBSET Part]]
           /\ mpu' \in [Uploads -> {"none", "open", "completed", "aborted"}]
           /\ stored' \in [Uploads -> SUBSET Part]
           /\ landed' \subseteq Uploads
           /\ orphans' \subseteq Uploads
<1>1. WholeFile(u) \in SUBSET Part /\ results[u] \in SUBSET Part
  BY UploadAssumption DEF TypeOK, WholeFile, Part
<1>2. ASSUME NEW D \in SUBSET Part, Publish(u, D)
      PROVE  /\ object' \in [Keys -> [by : Uploads \cup {NoUpload}, data : SUBSET Part]]
             /\ landed' \subseteq Uploads
  <2>1. [by |-> u, data |-> D] \in [by : Uploads \cup {NoUpload}, data : SUBSET Part]
    OBVIOUS
  <2> QED
    BY <1>2, <2>1 DEF TypeOK, Publish
<1>3. CASE S3Put(u)
  BY <1>1, <1>2, <1>3 DEF TypeOK, S3Put
<1>4. CASE S3Complete(u)
  BY <1>1, <1>2, <1>4 DEF TypeOK, S3Complete, s3
<1>5. CASE S3Create(u) \/ S3Abort(u)
  BY <1>5 DEF TypeOK, S3Create, S3Abort
<1> QED
  BY <1>3, <1>4, <1>5 DEF Effect

LEMMA CollectTypes ==
    ASSUME TypeOK, FiniteTasks, NEW u \in Uploads, NEW C \in SUBSET good[u],
           Collect(u, C), Report(u, C)
    PROVE  /\ results' \in [Uploads -> SUBSET Part]
           /\ uploaded' \in [Uploads -> Nat]
           /\ good' \in [Uploads -> SUBSET Part]
           /\ bad' \in [Uploads -> SUBSET Part]
           /\ tracker' \in [Uploads -> Record]
<1>1. C \in SUBSET Part /\ IsFiniteSet(C)
  BY FS_Subset DEF TypeOK, FiniteTasks
<1>2. Bytes(C) \in Nat
  BY <1>1, BytesNat
<1>3. Put(results[u], C) \in SUBSET Part
  BY <1>1 DEF TypeOK, Put
<1>4. uploaded' \in [Uploads -> Nat] /\ uploaded'[u] \in Nat
  BY <1>2 DEF TypeOK, Collect
<1>5. tracker' \in [Uploads -> Record]
  <2>1. CASE UNCHANGED tracker
    BY <2>1 DEF TypeOK
  <2>2. ASSUME NEW r \in C, update_progress(u, uploaded'[u], r.pn)
        PROVE  tracker' \in [Uploads -> Record]
    <3>1. r.pn \in Nat
      BY <1>1 DEF Part
    <3> QED
      BY <1>4, <2>2, <3>1, TrackerTypes DEF TypeOK
  <2> QED
    BY <2>1, <2>2 DEF Report
<1> QED
  BY <1>3, <1>4, <1>5 DEF TypeOK, Collect

\* Fail and Succeed keep the tracker's records.
LEMMA EndTypes ==
    ASSUME tracker \in [Uploads -> Record], NEW u \in Uploads,
           NEW e \in {"cause", "unbound", "user"}, Fail(u, e) \/ Succeed(u)
    PROVE  tracker' \in [Uploads -> Record]
  BY TrackerTypes DEF Fail, Succeed

LEMMA GiveUpTypes ==
    ASSUME TypeOK, NEW u \in Uploads, pc[u] \in Calling, GiveUp(u)
    PROVE  late' \subseteq [call : Calling, u : Uploads, at : Nat]
<1>1. Request(u) \in [call : Calling, u : Uploads, at : Nat]
  BY UploadAssumption DEF TypeOK, Request
<1> QED
  BY <1>1 DEF TypeOK, GiveUp

LEMMA NextTypeOK == ASSUME TypeOK, FiniteTasks, [Next]_vars PROVE TypeOK'
<1> USE DEF Final, Calling
<1>1. ASSUME NEW u \in Uploads, Start(u) PROVE TypeOK'
  <2>1. tracker' \in [Uploads -> Record]
    BY <1>1, TrackerTypes DEF Start, TypeOK
  <2> QED
    BY <1>1, <2>1 DEF TypeOK, Start, Call, Go, tasks, local, s3
<1>2. ASSUME NEW u \in Uploads, Created(u) PROVE TypeOK'
  BY <1>2 DEF TypeOK, Created, Go, tasks, local, s3
<1>3. ASSUME NEW u \in Uploads,
             CreateFails(u) \/ ReadFails(u) \/ WriteFails(u) \/ Written(u) \/ Presigned(u)
               \/ PresignFails(u) \/ Aborted(u) \/ AbortFails(u)
      PROVE  TypeOK'
  <2>1. tracker' \in [Uploads -> Record]
    BY <1>3, EndTypes
    DEF TypeOK, CreateFails, ReadFails, WriteFails, Written, Presigned,
        PresignFails, Aborted, AbortFails
  <2>6. ASSUME Fault PROVE faults' \in 0..MaxFaults
    BY <2>6, UploadAssumption DEF TypeOK, Fault
  <2>7. ASSUME GiveUp(u), pc[u] \in Calling
        PROVE  late' \subseteq [call : Calling, u : Uploads, at : Nat]
    BY <2>7, GiveUpTypes
  <2>2. CASE CreateFails(u)
    BY <2>1, <2>2, <2>6, <2>7 DEF TypeOK, CreateFails, Fail, Go, tasks, local, s3
  <2>3. CASE ReadFails(u) \/ PresignFails(u)
    BY <2>1, <2>3, <2>6
    DEF TypeOK, ReadFails, PresignFails, Fail, Unwind, Call, Go, tasks, local, s3
  <2>8. CASE WriteFails(u)
    BY <2>1, <2>8, <2>6, <2>7
    DEF TypeOK, WriteFails, Fail, Unwind, Call, Go, tasks, local, s3
  <2>4. CASE Written(u) \/ Presigned(u)
    BY <2>1, <2>4 DEF TypeOK, Written, Presigned, Succeed, Go, tasks, local, s3
  <2>5. CASE Aborted(u) \/ AbortFails(u)
    BY <2>1, <2>5, <2>6, <2>7
    DEF TypeOK, Aborted, AbortFails, Fail, Go, tasks, local, s3
  <2> QED
    BY <1>3, <2>2, <2>3, <2>4, <2>5, <2>8
<1>4. ASSUME NEW u \in Uploads, ReadChunk(u) PROVE TypeOK'
  <2> DEFINE end == IF pos[u] + ChunkSize < Size[u] THEN pos[u] + ChunkSize ELSE Size[u]
             r   == [pn |-> partNumber[u], from |-> pos[u], to |-> end]
  <2>1. end \in Nat /\ r \in Part
    BY UploadAssumption DEF TypeOK, Part
  <2>2. /\ active' = [active EXCEPT ![u] = active[u] \cup {r}]
        /\ pos' = [pos EXCEPT ![u] = end]
        /\ \/ Go(u, "waiting") /\ UNCHANGED partNumber
           \/ Go(u, "reading") /\ partNumber' = [partNumber EXCEPT ![u] = partNumber[u] + 1]
        /\ UNCHANGED <<good, bad, results, uploaded, known, reply, tracker,
                       cancelAcked, s3, late, abortFailed, faults>>
    BY <1>4 DEF ReadChunk
  <2> HIDE DEF end, r
  <2> QED
    BY <2>1, <2>2 DEF TypeOK, Go, s3
<1>5. ASSUME NEW u \in Uploads, ReadEnd(u) PROVE TypeOK'
  BY <1>5 DEF TypeOK, ReadEnd, Call, Go, tasks, local, s3
<1>6. ASSUME NEW u \in Uploads, ReadSmall(u) PROVE TypeOK'
  <2>1. tracker' \in [Uploads -> Record]
    BY <1>6, TrackerTypes, UploadAssumption DEF TypeOK, ReadSmall
  <2> QED
    BY <1>6, <2>1 DEF TypeOK, ReadSmall, Call, tasks, local, s3
<1>7. ASSUME NEW u \in Uploads,
             CollectReading(u) \/ CollectDraining(u) \/ CollectRaises(u)
      PROVE  TypeOK'
  <2>1. PICK C \in SUBSET good[u] : Collect(u, C) /\ Report(u, C)
    BY <1>7 DEF CollectReading, CollectDraining, CollectRaises
  <2>2. /\ results' \in [Uploads -> SUBSET Part]
        /\ uploaded' \in [Uploads -> Nat]
        /\ good' \in [Uploads -> SUBSET Part]
        /\ bad' \in [Uploads -> SUBSET Part]
        /\ tracker' \in [Uploads -> Record]
    BY <2>1, CollectTypes
  <2>3. CASE CollectReading(u)
    BY <2>2, <2>3 DEF TypeOK, CollectReading, Go, s3
  <2>4. CASE CollectDraining(u)
    BY <2>2, <2>4 DEF TypeOK, CollectDraining, Call, Go, s3
  <2>5. CASE CollectRaises(u)
    BY <2>2, <2>5 DEF TypeOK, CollectRaises, Unwind, Call, Go, s3
  <2> QED
    BY <1>7, <2>3, <2>4, <2>5
<1>8. ASSUME NEW u \in Uploads, Unwound(u) PROVE TypeOK'
  BY <1>8 DEF TypeOK, Unwound, Call, local, s3
<1>9. ASSUME NEW u \in Uploads, S3Apply(u) PROVE TypeOK'
  BY <1>9, EffectTypes DEF TypeOK, S3Apply, tasks, local
<1>10. ASSUME S3Late PROVE TypeOK'
  <2>1. PICK c \in late : Effect(c.call, c.u) /\ late' = late \ {c}
    BY <1>10 DEF S3Late
  <2>2. c.u \in Uploads
    BY DEF TypeOK
  <2> QED
    BY <1>10, <2>1, <2>2, EffectTypes DEF TypeOK, S3Late, tasks, local
<1>11. ASSUME NEW u \in Uploads, NEW r \in active[u],
              \/ S3StorePart(u, r) \/ PartReturns(u, r)
              \/ PartRaises(u, r) \/ PartCancelled(u, r)
       PROVE  TypeOK'
  <2>1. r \in Part
    BY DEF TypeOK
  <2>2. Put(stored[u], {r}) \in SUBSET Part
    BY <2>1 DEF TypeOK, Put
  <2>3. CASE S3StorePart(u, r)
    BY <2>2, <2>3 DEF TypeOK, S3StorePart, tasks, local
  <2>4. CASE PartReturns(u, r)
    BY <2>1, <2>4 DEF TypeOK, PartReturns, local, s3
  <2>5. CASE PartRaises(u, r)
    BY <2>1, <2>5, UploadAssumption DEF TypeOK, PartRaises, Fault, local, s3
  <2>6. CASE PartCancelled(u, r)
    BY <2>6 DEF TypeOK, PartCancelled, local, s3
  <2> QED
    BY <1>11, <2>3, <2>4, <2>5, <2>6
<1>12. ASSUME NEW u \in Uploads, cancel_upload(u) PROVE TypeOK'
  <2>1. tracker' \in [Uploads -> Record]
    BY <1>12, TrackerTypes DEF TypeOK, cancel_upload
  <2> QED
    BY <1>12, <2>1 DEF TypeOK, cancel_upload, tasks, local, s3
<1>13. ASSUME ProcessExit PROVE TypeOK'
  <2>1. NoRecord \in Record
    BY DEF Record, NoRecord
  <2>2. ASSUME NEW v \in Uploads, pc[v] \in Calling
        PROVE  Request(v) \in [call : Calling, u : Uploads, at : Nat]
    BY <2>2, UploadAssumption DEF TypeOK, Request
  <2>3. late' \subseteq [call : Calling, u : Uploads, at : Nat]
    BY <1>13, <2>2 DEF TypeOK, ProcessExit
  <2>4. faults' \in 0..MaxFaults
    BY <1>13, UploadAssumption DEF TypeOK, ProcessExit, Fault
  <2> QED
    BY <1>13, <2>1, <2>3, <2>4 DEF TypeOK, ProcessExit, local, s3
<1>14. ASSUME UNCHANGED vars PROVE TypeOK'
  BY <1>14 DEF TypeOK, vars, tasks, local, s3
<1>15. ASSUME NEW u \in Uploads, Retry(u) PROVE TypeOK'
  <2>1. late' \subseteq [call : Calling, u : Uploads, at : Nat]
    BY <1>15, GiveUpTypes DEF Retry
  <2>2. faults' \in 0..MaxFaults
    BY <1>15, UploadAssumption DEF TypeOK, Retry, Fault
  <2>3. applied' \subseteq Uploads
    BY <1>15 DEF TypeOK, Retry
  <2> QED
    BY <1>15, <2>1, <2>2, <2>3 DEF TypeOK, Retry, tasks, local, s3
<1> QED
  BY <1>1, <1>2, <1>3, <1>4, <1>5, <1>6, <1>7, <1>8, <1>9, <1>10, <1>11, <1>12,
     <1>13, <1>14, <1>15, NextCases

LEMMA InitFiniteTasks == Init => FiniteTasks
  BY FS_EmptySet DEF Init, FiniteTasks

\* Task sets grow by one part at a time.
LEMMA NextFiniteTasks == ASSUME TypeOK, FiniteTasks, [Next]_vars PROVE FiniteTasks'
<1> SUFFICES ASSUME NEW v \in Uploads
             PROVE  IsFiniteSet(active'[v]) /\ IsFiniteSet(good'[v]) /\ IsFiniteSet(bad'[v])
  BY DEF FiniteTasks
<1> DEFINE Grows(S, T) == T \subseteq S \/ \E r : T = S \cup {r}
<1>1. ASSUME NEW S, IsFiniteSet(S), NEW T, Grows(S, T) PROVE IsFiniteSet(T)
  BY <1>1, FS_Subset, FS_AddElement
<1>2. Grows(active[v], active'[v]) /\ Grows(good[v], good'[v]) /\ Grows(bad[v], bad'[v])
  <2>1. ASSUME NEW u \in Uploads, ReadChunk(u)
        PROVE  Grows(active[v], active'[v]) /\ Grows(good[v], good'[v]) /\ Grows(bad[v], bad'[v])
    BY <2>1 DEF TypeOK, ReadChunk
  <2>2. ASSUME NEW u \in Uploads, NEW r \in active[u],
              \/ S3StorePart(u, r) \/ PartReturns(u, r)
              \/ PartRaises(u, r) \/ PartCancelled(u, r)
        PROVE  Grows(active[v], active'[v]) /\ Grows(good[v], good'[v]) /\ Grows(bad[v], bad'[v])
    <3>1. CASE S3StorePart(u, r)
      BY <3>1 DEF S3StorePart, tasks
    <3>2. CASE PartReturns(u, r)
      BY <3>2 DEF TypeOK, PartReturns
    <3>3. CASE PartRaises(u, r)
      BY <3>3 DEF TypeOK, PartRaises
    <3>4. CASE PartCancelled(u, r)
      BY <3>4 DEF TypeOK, PartCancelled
    <3> QED
      BY <2>2, <3>1, <3>2, <3>3, <3>4
  <2>3. ASSUME NEW u \in Uploads,
               \/ CollectReading(u) \/ CollectDraining(u) \/ CollectRaises(u) \/ Unwound(u)
        PROVE  Grows(active[v], active'[v]) /\ Grows(good[v], good'[v]) /\ Grows(bad[v], bad'[v])
    <3>1. /\ UNCHANGED active
          /\ good' = [good EXCEPT ![u] = {}]
          /\ bad' = [bad EXCEPT ![u] = {}]
      <4>1. CASE CollectReading(u) \/ CollectDraining(u)
        BY <4>1 DEF CollectReading, CollectDraining, Collect
      <4>2. CASE CollectRaises(u)
        BY <4>2 DEF CollectRaises, Collect
      <4>3. CASE Unwound(u)
        BY <4>3 DEF Unwound
      <4> QED
        BY <2>3, <4>1, <4>2, <4>3
    <3>2. active \in [Uploads -> SUBSET Part] /\ good \in [Uploads -> SUBSET Part]
            /\ bad \in [Uploads -> SUBSET Part]
      BY DEF TypeOK
    <3>3. /\ active'[v] = active[v]
          /\ good'[v] \subseteq good[v]
          /\ bad'[v] \subseteq bad[v]
      BY <3>1, <3>2
    <3> QED
      BY <3>3
  <2>4. ASSUME ProcessExit
        PROVE  Grows(active[v], active'[v]) /\ Grows(good[v], good'[v]) /\ Grows(bad[v], bad'[v])
    BY <2>4 DEF ProcessExit
  <2>5. ASSUME UNCHANGED tasks
        PROVE  Grows(active[v], active'[v]) /\ Grows(good[v], good'[v]) /\ Grows(bad[v], bad'[v])
    BY <2>5 DEF tasks
  <2>6. ASSUME NEW u \in Uploads,
               \/ Start(u) \/ Created(u) \/ CreateFails(u) \/ ReadEnd(u) \/ ReadSmall(u)
               \/ ReadFails(u) \/ Written(u) \/ WriteFails(u) \/ Presigned(u)
               \/ PresignFails(u) \/ Aborted(u) \/ AbortFails(u) \/ S3Apply(u)
               \/ Retry(u) \/ cancel_upload(u)
        PROVE  UNCHANGED tasks
    BY <2>6
    DEF tasks, Start, Created, CreateFails, ReadEnd, ReadSmall, ReadFails, Written,
        WriteFails, Presigned, PresignFails, Aborted, AbortFails, S3Apply, Retry,
        cancel_upload
  <2>7. S3Late \/ UNCHANGED vars => UNCHANGED tasks
    BY DEF S3Late, vars, tasks
  <2> QED
    BY <2>1, <2>2, <2>3, <2>4, <2>5, <2>6, <2>7, NextCases
<1> QED
  BY <1>1, <1>2 DEF FiniteTasks

-----------------------------------------------------------------------------
(* Control.                                                                *)

LEMMA InitControl == Init => Control
  BY DEF Init, Control, ControlOf, NoRecord, Final

LEMMA NextControl == ASSUME TypeOK, Control, [Next]_vars PROVE Control'
<1> USE DEF Final, Calling, Control, ControlOf, LateOf, Closing, IsMultipart, Request, Call, Go,
            tasks, local, s3
<1>1. ASSUME NEW u \in Uploads, Start(u) PROVE Control'
  BY <1>1 DEF TypeOK, Start, start_upload
<1>2. ASSUME NEW u \in Uploads, Created(u) PROVE Control'
  BY <1>2 DEF TypeOK, Created
<1>3. ASSUME NEW u \in Uploads, CreateFails(u) PROVE Control'
  BY <1>3 DEF TypeOK, CreateFails, Fail, fail_upload, Track, Fault, GiveUp
<1>4. ASSUME NEW u \in Uploads, ReadChunk(u) PROVE Control'
  <2>1. /\ pc[u] = "reading" /\ IsMultipart(u)
        /\ Go(u, "waiting") \/ Go(u, "reading")
        /\ UNCHANGED <<known, reply, tracker, cancelAcked, s3, late, abortFailed>>
    BY <1>4 DEF ReadChunk
  <2> QED
    BY <2>1 DEF TypeOK
<1>5. ASSUME NEW u \in Uploads, ReadEnd(u) PROVE Control'
  BY <1>5 DEF TypeOK, ReadEnd
<1>6. ASSUME NEW u \in Uploads, ReadSmall(u) PROVE Control'
  BY <1>6 DEF TypeOK, ReadSmall, update_progress, Track
<1>7. ASSUME NEW u \in Uploads, ReadFails(u) PROVE Control'
  BY <1>7 DEF TypeOK, ReadFails, Unwind, Fail, fail_upload, Track
<1>8. ASSUME NEW u \in Uploads,
             CollectReading(u) \/ CollectDraining(u) \/ CollectRaises(u)
      PROVE  Control'
  <2>1. /\ pc[u] \in {"waiting", "draining"}
        /\ \/ Go(u, "reading") \/ Go(u, "draining") \/ Go(u, "unwinding")
           \/ Call(u, "completing") \/ Call(u, "aborting")
        /\ UNCHANGED <<known, reply, cancelAcked, s3, late, abortFailed>>
    BY <1>8 DEF CollectReading, CollectDraining, CollectRaises, Unwind
  <2>2. \A v \in Uploads : tracker'[v].status = tracker[v].status
    BY <1>8 DEF TypeOK, CollectReading, CollectDraining, CollectRaises, Report, update_progress, Track
  <2>3. IsMultipart(u) /\ mpu[u] = "open" /\ u \in known
    BY <2>1
  <2>4. \A c \in late' : LateOf(c)'
    BY <2>1 DEF TypeOK
  <2>5. ASSUME NEW v \in Uploads, v # u PROVE ControlOf(v)'
    BY <2>1, <2>2, <2>5 DEF TypeOK
  <2>6. ControlOf(u)'
    BY <2>1, <2>2, <2>3 DEF TypeOK
  <2> QED
    BY <2>4, <2>5, <2>6
<1>9. ASSUME NEW u \in Uploads, Unwound(u) PROVE Control'
  BY <1>9 DEF TypeOK, Unwound
<1>10. ASSUME NEW u \in Uploads, Written(u) PROVE Control'
  BY <1>10 DEF TypeOK, Written, Answered, Succeed, complete_upload, Track
<1>11. ASSUME NEW u \in Uploads, WriteFails(u) PROVE Control'
  BY <1>11 DEF TypeOK, WriteFails, GiveUp, Unwind, Fail, fail_upload, Track
<1>12. ASSUME NEW u \in Uploads, Presigned(u) PROVE Control'
  BY <1>12 DEF TypeOK, Presigned, Succeed, complete_upload, Track
<1>13. ASSUME NEW u \in Uploads, PresignFails(u) PROVE Control'
  BY <1>13 DEF TypeOK, PresignFails, Unwind, Fail, fail_upload, Track
<1>14. ASSUME NEW u \in Uploads, Aborted(u) PROVE Control'
  BY <1>14 DEF TypeOK, Aborted, Fail, fail_upload, Track
<1>15. ASSUME NEW u \in Uploads, AbortFails(u) PROVE Control'
  BY <1>15 DEF TypeOK, AbortFails, GiveUp, Fail, fail_upload, Track
<1>16. ASSUME NEW u \in Uploads, S3Apply(u) PROVE Control'
  BY <1>16 DEF TypeOK, S3Apply, Effect, S3Create, S3Complete, S3Put, S3Abort, Publish
<1>17. ASSUME S3Late PROVE Control'
  <2>1. PICK c \in late : Effect(c.call, c.u) /\ late' = late \ {c}
    BY <1>17 DEF S3Late
  <2>2. c.u \in Uploads /\ LateOf(c)
    BY DEF TypeOK
  <2>3. UNCHANGED <<pc, applied, known, reply, tracker, cancelAcked, abortFailed>>
    BY <1>17 DEF S3Late
  <2>4. CASE c.call = "creating" /\ S3Create(c.u)
    <3>1. \A v \in Uploads : mpu[v] # "none" => mpu'[v] = mpu[v]
      BY <2>2, <2>4 DEF TypeOK, S3Create
    <3>2. ASSUME NEW d \in late' PROVE LateOf(d)'
      BY <2>1, <2>3, <3>1, <3>2 DEF TypeOK
    <3>3. ASSUME NEW v \in Uploads PROVE ControlOf(v)'
      BY <2>2, <2>3, <2>4, <3>1 DEF TypeOK, S3Create
    <3> QED
      BY <3>2, <3>3
  <2>5. CASE c.call = "completing" /\ S3Complete(c.u)
    BY <2>1, <2>2, <2>3, <2>5 DEF TypeOK, S3Complete, Publish
  <2>6. CASE c.call = "putting" /\ S3Put(c.u)
    BY <2>1, <2>2, <2>3, <2>6 DEF TypeOK, S3Put, Publish
  <2>7. CASE c.call = "aborting" /\ S3Abort(c.u)
    BY <2>1, <2>2, <2>3, <2>7 DEF TypeOK, S3Abort
  <2> QED
    BY <2>1, <2>4, <2>5, <2>6, <2>7 DEF Effect
<1>18. ASSUME NEW u \in Uploads, NEW r \in active[u],
              \/ S3StorePart(u, r) \/ PartReturns(u, r)
              \/ PartRaises(u, r) \/ PartCancelled(u, r)
       PROVE  Control'
  BY <1>18 DEF S3StorePart, PartReturns, PartRaises, PartCancelled
<1>19. ASSUME NEW u \in Uploads, cancel_upload(u) PROVE Control'
  BY <1>19 DEF TypeOK, cancel_upload, fail_upload, Track
<1>20. ASSUME ProcessExit PROVE Control'
  <2>1. \A u \in Uploads :
           /\ tracker'[u].status = "none"
           /\ pc'[u] = IF pc[u] \in {"idle", "done", "failed", "killed"} THEN pc[u] ELSE "killed"
    BY <1>20 DEF TypeOK, ProcessExit, NoRecord
  <2>2. UNCHANGED <<applied, mpu, known, reply, cancelAcked, landed, abortFailed>>
    BY <1>20 DEF ProcessExit
  <2>3. ASSUME NEW v \in Uploads PROVE ControlOf(v)'
    BY <2>1, <2>2 DEF TypeOK
  <2>4. ASSUME NEW d \in late' PROVE LateOf(d)'
    <3>1. CASE d \in late
      BY <2>1, <2>2, <3>1 DEF TypeOK
    <3>2. ASSUME NEW v \in Uploads \ applied, pc[v] \in Calling, d = Request(v)
          PROVE  LateOf(d)'
      BY <2>1, <2>2, <3>2 DEF TypeOK
    <3> QED
      BY <1>20, <3>1, <3>2 DEF ProcessExit
  <2> QED
    BY <2>3, <2>4
<1>21. ASSUME UNCHANGED vars PROVE Control'
  BY <1>21 DEF vars
<1>22. ASSUME NEW u \in Uploads, Retry(u) PROVE Control'
  BY <1>22 DEF TypeOK, Retry, GiveUp
<1> QED
  BY <1>1, <1>2, <1>3, <1>4, <1>5, <1>6, <1>7, <1>8, <1>9, <1>10, <1>11, <1>12, <1>13,
     <1>14, <1>15, <1>16, <1>17, <1>18, <1>19, <1>20, <1>21, <1>22, NextCases

-----------------------------------------------------------------------------
(* Ranges and tasks.                                                       *)

LEMMA ChainExtend ==
    ASSUME NEW S \in SUBSET Part, NEW n \in Nat, NEW end \in Nat, NEW e \in Nat,
           Chain(S, n, end)
    PROVE  Chain(S \cup {[pn |-> n + 1, from |-> end, to |-> e]}, n + 1, e)
<1> DEFINE r == [pn |-> n + 1, from |-> end, to |-> e]
           T == S \cup {r}
<1>1. r.pn = n + 1 /\ r.from = end /\ r.to = e
  OBVIOUS
<1>2. \A a \in S : a.pn \in 1..n
  BY DEF Chain
<1> HIDE DEF r
<1>3. \A a \in T : a.pn \in 1..(n + 1)
  BY <1>1, <1>2
<1>4. \A a, b \in T : a.pn = b.pn => a = b
  BY <1>1, <1>2 DEF Chain
<1>5. \A i \in 1..(n + 1) : \E a \in T : a.pn = i
  BY <1>1 DEF Chain
<1>6. \A a \in T : (a.pn = 1 => a.from = 0) /\ (a.pn = n + 1 => a.to = e)
  BY <1>1, <1>2 DEF Chain
<1>7. \A a, b \in T : b.pn = a.pn + 1 => a.to = b.from
  BY <1>1, <1>2 DEF Chain
<1> QED
  BY <1>3, <1>4, <1>5, <1>6, <1>7 DEF Chain, r

\* A new part is none of the chain.
LEMMA ChainNew ==
    ASSUME NEW S \in SUBSET Part, NEW n \in Nat, NEW end, Chain(S, n, end),
           NEW r \in S
    PROVE  r.pn # n + 1
  BY DEF Chain, Part

LEMMA ChainWhole ==
    ASSUME NEW S \in SUBSET Part, NEW n \in Nat, NEW size \in Nat \ {0},
           Chain(S, n, size)
    PROVE  Whole(S, size)
<1>1. n # 0 /\ S # {}
  BY DEF Chain
<1>2. \A a, b \in S : a.pn = b.pn => a = b
  BY DEF Chain
<1>3. ASSUME NEW a \in S, \A b \in S : a.pn <= b.pn PROVE a.from = 0
  BY <1>1, <1>3 DEF Chain, Part
<1>4. ASSUME NEW a \in S, \A b \in S : b.pn <= a.pn PROVE a.to = size
  BY <1>1, <1>4 DEF Chain, Part
<1>5. ASSUME NEW a \in S, NEW b \in S, Precedes(S, a, b) PROVE a.to = b.from
  <2>1. a.pn \in 1..n /\ b.pn \in 1..n /\ a.pn < b.pn
    BY <1>5 DEF Chain, Precedes
  <2>2. CASE b.pn # a.pn + 1
    <3>1. PICK c \in S : c.pn = a.pn + 1
      BY <2>1, <2>2 DEF Chain
    <3> QED
      BY <1>5, <2>1, <2>2, <3>1 DEF Precedes
  <2> QED
    BY <2>2 DEF Chain
<1> QED
  BY <1>1, <1>2, <1>3, <1>4, <1>5 DEF Whole

\* Adding parts of a set without repeated numbers replaces nothing else.
LEMMA PutUnion ==
    ASSUME NEW S, \A a, b \in S : a.pn = b.pn => a = b,
           NEW C \in SUBSET S, NEW D \in SUBSET S
    PROVE  Put(D, C) = D \cup C
  BY DEF Put

LEMMA WholeFileWhole == ASSUME NEW u \in Uploads PROVE Whole(WholeFile(u), Size[u])
  BY UploadAssumption DEF Whole, WholeFile, Precedes

LEMMA MultipartSize == ASSUME NEW u \in Uploads, IsMultipart(u) PROVE Size[u] \in Nat \ {0}
  BY UploadAssumption DEF IsMultipart

LEMMA InitData == Init => Data
<1> SUFFICES ASSUME Init, NEW u \in Uploads PROVE TasksOf(u) /\ RangesOf(u)
  BY DEF Data
<1>1. Pending(u) = {}
  BY DEF Init, Pending
<1> QED
  BY <1>1, FS_EmptySet, UploadAssumption DEF Init, TasksOf, RangesOf, InLoop, LateComplete

\* Counting pending tasks.
LEMMA PendingFinite ==
    ASSUME FiniteTasks, NEW u \in Uploads
    PROVE  IsFiniteSet(Pending(u)) /\ Cardinality(Pending(u)) \in Nat
  BY FS_Union, FS_CardinalityType DEF FiniteTasks, Pending

LEMMA PendingShrinks ==
    ASSUME FiniteTasks, NEW u \in Uploads, NEW T \in SUBSET Pending(u),
           Cardinality(Pending(u)) <= MaxConcurrent
    PROVE  /\ Cardinality(T) <= MaxConcurrent
           /\ T # Pending(u) => Cardinality(T) < MaxConcurrent
<1>1. /\ Cardinality(T) \in Nat /\ Cardinality(Pending(u)) \in Nat
      /\ Cardinality(T) <= Cardinality(Pending(u))
      /\ Cardinality(Pending(u)) = Cardinality(T) => Pending(u) = T
  BY PendingFinite, FS_Subset, FS_CardinalityType
<1> QED
  BY <1>1, UploadAssumption

\* What Data says of v does not change with the rest of the state.
Unmoved(v) ==
    /\ active'[v] = active[v] /\ good'[v] = good[v] /\ bad'[v] = bad[v]
    /\ pos'[v] = pos[v] /\ partNumber'[v] = partNumber[v] /\ results'[v] = results[v]
    /\ stored'[v] = stored[v]

LEMMA DataFrame ==
    ASSUME NEW v \in Uploads, TasksOf(v), RangesOf(v), Unmoved(v), pc'[v] = pc[v],
           LateComplete(v)' => LateComplete(v) \/ pc[v] = "completing"
    PROVE  TasksOf(v)' /\ RangesOf(v)'
<1>1. Pending(v)' = Pending(v) /\ Spawned(v)' = Spawned(v) /\ Count(v)' = Count(v)
        /\ InLoop(v)' = InLoop(v)
  BY DEF Pending, Spawned, Count, InLoop, Unmoved, IsMultipart
<1> QED
  BY <1>1 DEF TasksOf, RangesOf, Unmoved, LateComplete, IsMultipart, Chain

\* A step of one upload moves no other.
LEMMA OthersUnmoved ==
    ASSUME TypeOK, NEW u \in Uploads, UploadStep(u) \/ cancel_upload(u),
           NEW v \in Uploads \ {u}
    PROVE  /\ Unmoved(v) /\ pc'[v] = pc[v]
           /\ LateComplete(v)' => LateComplete(v)
<1> USE DEF Unmoved, LateComplete, Request, Call, Go, tasks, local, s3
<1>1. CASE Start(u) \/ Created(u) \/ ReadEnd(u) \/ ReadSmall(u) \/ Unwound(u)
  BY <1>1 DEF TypeOK, Start, Created, ReadEnd, ReadSmall, Unwound
<1>2. CASE CreateFails(u) \/ ReadFails(u) \/ WriteFails(u)
  BY <1>2 DEF TypeOK, CreateFails, ReadFails, WriteFails, Fail, Unwind, GiveUp
<1>3. CASE Written(u) \/ Presigned(u) \/ PresignFails(u) \/ Aborted(u) \/ AbortFails(u)
  BY <1>3
  DEF TypeOK, Written, Presigned, PresignFails, Aborted, AbortFails, Fail, Succeed, Unwind, GiveUp
<1>4. CASE ReadChunk(u)
  BY <1>4 DEF TypeOK, ReadChunk
<1>5. CASE CollectReading(u)
  BY <1>5 DEF TypeOK, CollectReading, Collect
<1>6. CASE CollectDraining(u)
  BY <1>6 DEF TypeOK, CollectDraining, Collect
<1>7. CASE CollectRaises(u)
  BY <1>7 DEF TypeOK, CollectRaises, Collect, Unwind
<1>8. CASE S3Apply(u)
  BY <1>8 DEF TypeOK, S3Apply, Effect, S3Create, S3Complete, S3Put, S3Abort
<1>9. CASE PartTask(u)
  BY <1>9 DEF TypeOK, PartTask, S3StorePart, PartReturns, PartRaises, PartCancelled
<1>10. CASE cancel_upload(u)
  BY <1>10 DEF cancel_upload
<1>11. CASE Retry(u)
  BY <1>11 DEF TypeOK, Retry, GiveUp
<1> QED
  BY <1>1, <1>2, <1>3, <1>4, <1>5, <1>6, <1>7, <1>8, <1>9, <1>10, <1>11
  DEF UploadStep, Coroutine

\* What Data says of u when no part is pending and the loop is left.
LEMMA DataOutside ==
    ASSUME NEW u \in Uploads, Pending(u)' = {}, ~InLoop(u)',
           pc'[u] \notin {"idle", "creating", "draining", "completing"},
           LateComplete(u)' => Whole(results[u], Size[u]) /\ results'[u] = results[u]
    PROVE  TasksOf(u)' /\ RangesOf(u)'
<1>1. active'[u] = {} /\ Cardinality({}) <= MaxConcurrent
  BY FS_EmptySet, UploadAssumption DEF Pending
<1> QED
  BY <1>1 DEF TasksOf, RangesOf, InLoop, LateComplete, IsMultipart

\* A late completion carries the whole file, and its upload is past the loops.
LEMMA LateCompleteWhole ==
    ASSUME Control, Data, NEW u \in Uploads, LateComplete(u)
    PROVE  /\ Whole(results[u], Size[u])
           /\ pc[u] \in {"completing", "presigning", "aborting", "done", "failed", "killed"}
<1>1. PICK c \in late : c.call = "completing" /\ c.u = u
  BY DEF LateComplete
<1>2. LateOf(c)
  BY DEF Control
<1> QED
  BY <1>1, <1>2 DEF Data, RangesOf, LateOf, Closing, Final

\* Steps of the coroutine that leave every part task and chunk alone.
LEMMA OutsideData ==
    ASSUME TypeOK, Control, Data, NEW u \in Uploads,
           \/ Start(u) \/ Created(u) \/ CreateFails(u) \/ ReadSmall(u)
           \/ Written(u) \/ WriteFails(u) \/ Presigned(u)
           \/ PresignFails(u) \/ Aborted(u) \/ AbortFails(u)
    PROVE  TasksOf(u)' /\ RangesOf(u)'
<1> USE DEF Final, Calling, Request, Call, Go, Fail, Succeed
<1>1. TasksOf(u) /\ RangesOf(u) /\ ControlOf(u)
  BY DEF Data, Control
<1>2. UNCHANGED <<active, good, bad, pos, partNumber, results>>
  BY DEF Start, Created, CreateFails, ReadSmall, Written, WriteFails, Presigned,
         PresignFails, Aborted, AbortFails, tasks, local
<1>3. Pending(u) = {} /\ Pending(u)' = {}
  <2>1. \/ ~IsMultipart(u)
        \/ pc[u] \in {"idle", "creating", "putting", "completing", "presigning", "aborting"}
    BY DEF Start, Created, CreateFails, ReadSmall, Written, WriteFails, Presigned,
           PresignFails, Aborted, AbortFails
  <2>2. Pending(u) = {}
    BY <1>1, <2>1 DEF TasksOf
  <2>3. Pending(u)' = Pending(u)
    BY <1>2 DEF Pending
  <2> QED
    BY <2>2, <2>3
<1>4. LateComplete(u) =>
        /\ Whole(results[u], Size[u])
        /\ pc[u] \in {"completing", "presigning", "aborting", "done", "failed", "killed"}
  BY LateCompleteWhole
<1>5. CASE Start(u)
  <2>1. pc'[u] \in {"creating", "reading"} /\ (pc'[u] = "creating" <=> IsMultipart(u))
    BY <1>5 DEF TypeOK, Start
  <2>2. ~LateComplete(u)'
    BY <1>4, <1>5 DEF Start, LateComplete
  <2>3. pos'[u] = 0 /\ partNumber'[u] = 1 /\ results'[u] = {}
    BY <1>1, <1>2, <1>5 DEF RangesOf, Start
  <2>4. Cardinality(Pending(u)') = 0
    BY <1>3, FS_EmptySet
  <2> QED
    BY <1>3, <2>1, <2>2, <2>3, <2>4, UploadAssumption
    DEF TasksOf, RangesOf, InLoop, LateComplete, IsMultipart, Pending
<1>6. CASE Created(u)
  <2>1. pc'[u] = "reading" /\ IsMultipart(u) /\ ~LateComplete(u)'
    BY <1>1, <1>4, <1>6 DEF TypeOK, Created, ControlOf, LateComplete
  <2>2. pos'[u] = 0 /\ partNumber'[u] = 1 /\ results'[u] = {} /\ good'[u] = {}
    BY <1>1, <1>2, <1>3, <1>6 DEF RangesOf, Created, Pending
  <2>3. Spawned(u)' = {} /\ Count(u)' = 0
    BY <1>3, <2>1, <2>2 DEF Spawned, Count
  <2>4. Chain({}, 0, 0)
    BY DEF Chain
  <2>5. Cardinality(Pending(u)') = 0
    BY <1>3, FS_EmptySet
  <2> QED
    BY <1>3, <2>1, <2>2, <2>3, <2>4, <2>5, UploadAssumption
    DEF TasksOf, RangesOf, InLoop, LateComplete, IsMultipart, Pending
<1>7. CASE CreateFails(u) \/ ReadSmall(u) \/ WriteFails(u)
  <2>1. pc'[u] \in {"putting", "failed", "aborting"} /\ ~InLoop(u)'
    BY <1>7 DEF TypeOK, CreateFails, ReadSmall, WriteFails, Unwind, InLoop
  <2>2. LateComplete(u)' => Whole(results[u], Size[u])
    BY <1>1, <1>4, <1>7
    DEF CreateFails, ReadSmall, WriteFails, GiveUp, LateComplete, RangesOf
  <2> QED
    BY <1>2, <1>3, <2>1, <2>2, DataOutside
<1>8. CASE Written(u) \/ Presigned(u) \/ PresignFails(u) \/ Aborted(u) \/ AbortFails(u)
  <2>1. pc'[u] \in {"presigning", "done", "failed", "aborting"} /\ ~InLoop(u)'
    BY <1>8 DEF TypeOK, Written, Presigned, PresignFails, Aborted, AbortFails, Unwind, InLoop
  <2>2. LateComplete(u)' => Whole(results[u], Size[u])
    BY <1>4, <1>8
    DEF Written, Presigned, PresignFails, Aborted, AbortFails, GiveUp, LateComplete
  <2> QED
    BY <1>2, <1>3, <2>1, <2>2, DataOutside
<1> QED
  BY <1>5, <1>6, <1>7, <1>8

\* Reading a chunk extends the chain by one part.
LEMMA ReadChunkData ==
    ASSUME TypeOK, FiniteTasks, Control, Data, NEW u \in Uploads, ReadChunk(u)
    PROVE  TasksOf(u)' /\ RangesOf(u)'
<1> DEFINE end == IF pos[u] + ChunkSize < Size[u] THEN pos[u] + ChunkSize ELSE Size[u]
           r   == [pn |-> partNumber[u], from |-> pos[u], to |-> end]
<1>1. /\ pc[u] = "reading" /\ IsMultipart(u)
      /\ active' = [active EXCEPT ![u] = active[u] \cup {r}]
      /\ pos' = [pos EXCEPT ![u] = end]
      /\ IF Full(u, r)
         THEN Go(u, "waiting") /\ UNCHANGED partNumber
         ELSE Go(u, "reading") /\ partNumber' = [partNumber EXCEPT ![u] = partNumber[u] + 1]
      /\ UNCHANGED <<good, bad, results, stored, late>>
  BY DEF ReadChunk, s3
<1>2. TasksOf(u) /\ RangesOf(u) /\ InLoop(u) /\ ~LateComplete(u)
  BY <1>1, LateCompleteWhole DEF Data, InLoop
<1>3. /\ partNumber[u] \in Nat \ {0} /\ pos[u] \in Nat /\ end \in Nat /\ end <= Size[u]
      /\ Spawned(u) \in SUBSET Part
      /\ Chain(Spawned(u), partNumber[u] - 1, pos[u])
  <2>1. /\ partNumber[u] \in Nat /\ pos[u] \in Nat
        /\ Size[u] \in Nat /\ ChunkSize \in Nat
        /\ Spawned(u) \in SUBSET Part
    BY UploadAssumption DEF TypeOK, Spawned, Pending
  <2>2. /\ partNumber[u] >= 1 /\ pos[u] <= Size[u]
        /\ Chain(Spawned(u), Count(u), pos[u]) /\ Count(u) = partNumber[u] - 1
    BY <1>1, <1>2 DEF RangesOf, Count
  <2> QED
    BY <2>1, <2>2
<1> HIDE DEF end
<1>4. Chain(Spawned(u) \cup {r}, partNumber[u], end)
  <2> DEFINE n == partNumber[u] - 1
  <2>1. n \in Nat /\ partNumber[u] = n + 1
    BY <1>3
  <2> HIDE DEF n
  <2> QED
    BY <1>3, <2>1, ChainExtend DEF n
<1>5. r \notin Spawned(u)
  BY <1>3 DEF Chain
<1> HIDE DEF r
<1>6. /\ active'[u] = active[u] \cup {r} /\ good'[u] = good[u] /\ bad'[u] = bad[u]
      /\ results'[u] = results[u] /\ stored'[u] = stored[u] /\ pos'[u] = end
  BY <1>1 DEF TypeOK
<1>7. Pending(u)' = Pending(u) \cup {r} /\ Spawned(u)' = Spawned(u) \cup {r}
  BY <1>6 DEF Pending, Spawned
<1>8. /\ Cardinality(Pending(u)') \in Nat
      /\ Cardinality(Pending(u)') <= MaxConcurrent
      /\ ~Full(u, r) => Cardinality(Pending(u)') < MaxConcurrent
  <2>1. Cardinality(Pending(u)) \in Nat /\ Cardinality(Pending(u)) < MaxConcurrent
    BY <1>1, <1>2, PendingFinite DEF TasksOf
  <2>2. Cardinality(Pending(u) \cup {r}) = Cardinality(Pending(u)) + 1
    BY <1>5, PendingFinite, FS_AddElement DEF Spawned
  <2> QED
    BY <1>7, <2>1, <2>2, UploadAssumption DEF Full
<1>9. /\ pc'[u] = IF Full(u, r) THEN "waiting" ELSE "reading"
      /\ partNumber'[u] = IF Full(u, r) THEN partNumber[u] ELSE partNumber[u] + 1
  BY <1>1 DEF TypeOK, Go
<1>10. Count(u)' = partNumber[u] /\ partNumber'[u] >= 1
  BY <1>3, <1>9 DEF Count
<1>11. TasksOf(u)'
  <2>1. active'[u] \cap good'[u] = {}
    BY <1>2, <1>5, <1>6 DEF TasksOf, Spawned, Pending
  <2> QED
    BY <1>1, <1>8, <1>9, <2>1 DEF TasksOf, IsMultipart
<1>12. RangesOf(u)'
  <2>1. Chain(Spawned(u)', Count(u)', pos'[u])
    BY <1>4, <1>6, <1>7, <1>10
  <2>2. good'[u] \cup results'[u] \subseteq stored'[u]
    BY <1>2, <1>6 DEF RangesOf
  <2>3. ~LateComplete(u)'
    BY <1>1, <1>2 DEF LateComplete
  <2> QED
    BY <1>3, <1>6, <1>9, <1>10, <2>1, <2>2, <2>3 DEF RangesOf, LateComplete, Chain, InLoop
<1> QED
  BY <1>11, <1>12

\* The end of the file: the chain is complete.
LEMMA ReadEndData ==
    ASSUME TypeOK, FiniteTasks, Control, Data, NEW u \in Uploads, ReadEnd(u)
    PROVE  TasksOf(u)' /\ RangesOf(u)'
<1>1. TasksOf(u) /\ RangesOf(u) /\ InLoop(u) /\ ~LateComplete(u) /\ ~LateComplete(u)'
  BY LateCompleteWhole DEF Data, InLoop, ReadEnd, LateComplete
<1>2. /\ Chain(Spawned(u), partNumber[u] - 1, Size[u]) /\ partNumber[u] - 1 \in Nat
      /\ Spawned(u) \in SUBSET Part
  BY <1>1 DEF ReadEnd, AtEnd, RangesOf, Count, TypeOK, Spawned, Pending
<1>3. UNCHANGED <<active, good, bad, results, stored, pos, partNumber>>
  BY DEF ReadEnd, tasks, local, s3
<1>4. Pending(u)' = Pending(u) /\ Spawned(u)' = Spawned(u)
  BY <1>3 DEF Pending, Spawned
<1>5. CASE Pending(u) = {}
  <2>1. pc'[u] = "completing"
    BY <1>5 DEF ReadEnd, Call, TypeOK
  <2>2. Whole(results[u], Size[u])
    BY <1>1, <1>2, <1>5, ChainWhole, MultipartSize DEF Spawned, InLoop
  <2>3. results[u] \subseteq stored[u]
    BY <1>1 DEF RangesOf
  <2> QED
    BY <1>1, <1>3, <1>4, <1>5, <2>1, <2>2, <2>3
    DEF TasksOf, RangesOf, InLoop, LateComplete
<1>6. CASE Pending(u) # {}
  <2>1. pc'[u] = "draining" /\ pos[u] = Size[u]
    BY <1>6 DEF ReadEnd, AtEnd, Go, TypeOK
  <2>2. Count(u)' = partNumber[u] - 1 /\ Count(u) = partNumber[u] - 1
    BY <1>3, <2>1 DEF Count, ReadEnd
  <2>3. TasksOf(u)'
    BY <1>1, <1>3, <1>4, <2>1 DEF TasksOf, InLoop, IsMultipart
  <2> QED
    BY <1>1, <1>3, <1>4, <2>1, <2>2, <2>3 DEF RangesOf, InLoop, LateComplete, IsMultipart, Chain
<1> QED
  BY <1>5, <1>6

\* Collecting finished tasks moves their parts from the pending set to the
\* results, so that the parts spawned so far stay the same.
LEMMA CollectData ==
    ASSUME TypeOK, FiniteTasks, Control, Data, NEW u \in Uploads,
           Collect(u, good[u]), bad[u] = {}, good[u] # {}, UNCHANGED <<active, stored>>,
           pc[u] \in {"waiting", "draining"}
    PROVE  /\ InLoop(u) /\ TasksOf(u) /\ RangesOf(u) /\ ~LateComplete(u)
           /\ good'[u] = {} /\ bad'[u] = {} /\ active'[u] = active[u]
           /\ Pending(u)' = active[u] /\ Spawned(u)' = Spawned(u)
           /\ Cardinality(Pending(u)') < MaxConcurrent
           /\ good'[u] \cup results'[u] \subseteq stored'[u]
<1>1. TasksOf(u) /\ RangesOf(u) /\ InLoop(u) /\ ~LateComplete(u)
  BY LateCompleteWhole DEF Data, InLoop, Control, ControlOf, Final
<1>2. \A a, b \in Spawned(u) : a.pn = b.pn => a = b
  BY <1>1 DEF RangesOf, Chain
<1>3. Put(results[u], good[u]) = results[u] \cup good[u]
  <2>1. good[u] \in SUBSET Spawned(u) /\ results[u] \in SUBSET Spawned(u)
    BY DEF Spawned, Pending
  <2> QED
    BY <1>2, <2>1, PutUnion
<1>4. /\ results'[u] = results[u] \cup good[u] /\ good'[u] = {} /\ bad'[u] = {}
      /\ active'[u] = active[u] /\ stored'[u] = stored[u]
  BY <1>3 DEF Collect, TypeOK
<1>5. Pending(u)' = active[u] /\ Spawned(u)' = Spawned(u)
  BY <1>4 DEF Pending, Spawned
<1>6. active[u] # Pending(u) /\ active[u] \in SUBSET Pending(u)
  BY <1>1 DEF TasksOf, Pending
<1>7. Cardinality(active[u]) < MaxConcurrent
  BY <1>1, <1>6, PendingShrinks DEF TasksOf
<1>8. good'[u] \cup results'[u] \subseteq stored'[u]
  BY <1>1, <1>4 DEF RangesOf
<1> QED
  BY <1>1, <1>4, <1>5, <1>7, <1>8

LEMMA CollectReadingData ==
    ASSUME TypeOK, FiniteTasks, Control, Data, NEW u \in Uploads, CollectReading(u)
    PROVE  TasksOf(u)' /\ RangesOf(u)'
<1>1. /\ pc[u] = "waiting" /\ bad[u] = {} /\ good[u] # {}
      /\ Collect(u, good[u]) /\ UNCHANGED <<active, stored, pos, late>>
      /\ partNumber' = [partNumber EXCEPT ![u] = partNumber[u] + 1]
      /\ Go(u, "reading")
  BY DEF CollectReading, Finished, s3
<1>2. /\ InLoop(u) /\ TasksOf(u) /\ RangesOf(u) /\ ~LateComplete(u)
      /\ good'[u] = {} /\ bad'[u] = {} /\ active'[u] = active[u]
      /\ Pending(u)' = active[u] /\ Spawned(u)' = Spawned(u)
      /\ Cardinality(Pending(u)') < MaxConcurrent
      /\ good'[u] \cup results'[u] \subseteq stored'[u]
  BY <1>1, CollectData
<1>3. /\ pc'[u] = "reading" /\ partNumber'[u] = partNumber[u] + 1 /\ partNumber[u] \in Nat
      /\ pos'[u] = pos[u]
  BY <1>1 DEF TypeOK, Go
<1>4. Count(u)' = Count(u)
  BY <1>1, <1>3 DEF Count
<1>5. Cardinality(Pending(u)') \in Nat
  BY <1>2, FS_CardinalityType DEF FiniteTasks
<1>6. TasksOf(u)'
  BY <1>2, <1>3, <1>5, UploadAssumption DEF TasksOf, InLoop, IsMultipart
<1>7. RangesOf(u)'
  <2>1. ~LateComplete(u)'
    BY <1>1, <1>2 DEF LateComplete
  <2>2. Chain(Spawned(u)', Count(u)', pos'[u]) /\ partNumber'[u] >= 1 /\ pos'[u] <= Size[u]
    BY <1>1, <1>2, <1>3, <1>4 DEF RangesOf
  <2> QED
    BY <1>2, <1>3, <2>1, <2>2 DEF RangesOf, LateComplete, Chain
<1> QED
  BY <1>6, <1>7

LEMMA CollectDrainingData ==
    ASSUME TypeOK, FiniteTasks, Control, Data, NEW u \in Uploads, CollectDraining(u)
    PROVE  TasksOf(u)' /\ RangesOf(u)'
<1>1. /\ pc[u] = "draining" /\ bad[u] = {} /\ good[u] # {}
      /\ Collect(u, good[u]) /\ UNCHANGED <<active, stored, pos, partNumber, late>>
      /\ IF active[u] = {} THEN Call(u, "completing") ELSE Go(u, "draining")
  BY DEF CollectDraining, Finished, Drained, s3
<1>2. /\ InLoop(u) /\ TasksOf(u) /\ RangesOf(u) /\ ~LateComplete(u)
      /\ good'[u] = {} /\ bad'[u] = {} /\ active'[u] = active[u]
      /\ Pending(u)' = active[u] /\ Spawned(u)' = Spawned(u)
      /\ Cardinality(Pending(u)') < MaxConcurrent
      /\ good'[u] \cup results'[u] \subseteq stored'[u]
  BY <1>1, CollectData
<1>3. /\ pc'[u] = IF active[u] = {} THEN "completing" ELSE "draining"
      /\ ~LateComplete(u)'
  BY <1>1, <1>2 DEF TypeOK, Go, Call, LateComplete
<1>4. Cardinality(Pending(u)') \in Nat
  BY <1>2, FS_CardinalityType DEF FiniteTasks
<1>5. TasksOf(u)'
  BY <1>2, <1>3, <1>4, UploadAssumption DEF TasksOf, InLoop, IsMultipart
<1>6. /\ Chain(Spawned(u), Count(u), Size[u]) /\ Count(u) \in Nat /\ Spawned(u) \in SUBSET Part
      /\ pos[u] = Size[u] /\ Count(u) = partNumber[u] - 1
  BY <1>1, <1>2 DEF RangesOf, Count, TypeOK, Spawned, Pending
<1>7. CASE active[u] = {}
  <2>1. results'[u] = Spawned(u)
    BY <1>2, <1>7 DEF Spawned
  <2>2. Whole(results'[u], Size[u])
    BY <1>2, <1>6, <2>1, ChainWhole, MultipartSize DEF InLoop
  <2> QED
    BY <1>2, <1>3, <1>5, <1>7, <2>2 DEF RangesOf, InLoop, LateComplete
<1>8. CASE active[u] # {}
  <2>1. Count(u)' = Count(u) /\ pos'[u] = Size[u] /\ partNumber'[u] = partNumber[u]
    BY <1>1, <1>3, <1>6, <1>8 DEF Count
  <2>2. Chain(Spawned(u)', Count(u)', pos'[u]) /\ partNumber'[u] >= 1
    BY <1>2, <1>6, <2>1 DEF RangesOf
  <2>3. pos'[u] <= Size[u]
    BY <2>1, UploadAssumption
  <2> QED
    BY <1>2, <1>3, <1>5, <1>8, <2>1, <2>2, <2>3 DEF RangesOf, LateComplete, Chain
<1> QED
  BY <1>7, <1>8

\* The ways out of the loop: a read, a wait or a task that raised.
LEMMA RaiseData ==
    ASSUME TypeOK, FiniteTasks, Control, Data, NEW u \in Uploads,
           ReadFails(u) \/ CollectRaises(u) \/ Unwound(u)
    PROVE  TasksOf(u)' /\ RangesOf(u)'
<1>1. TasksOf(u) /\ RangesOf(u) /\ ~LateComplete(u)
  BY LateCompleteWhole DEF Data, ReadFails, CollectRaises, Unwound
<1>2. ~LateComplete(u)'
  BY <1>1 DEF ReadFails, CollectRaises, Unwound, LateComplete
<1>3. CASE pc'[u] \in {"failed", "aborting"} /\ Pending(u)' = {}
  BY <1>2, <1>3, DataOutside DEF InLoop
<1>4. CASE /\ pc'[u] = "unwinding" /\ IsMultipart(u) /\ Pending(u)' \subseteq Pending(u)
           /\ active'[u] \cap good'[u] = {}
  <2>1. Cardinality(Pending(u)') <= MaxConcurrent
    BY <1>1, <1>4, PendingShrinks DEF TasksOf
  <2> QED
    BY <1>2, <1>4, <2>1 DEF TasksOf, RangesOf, InLoop, LateComplete, IsMultipart
<1>5. CASE ReadFails(u)
  <2>1. UNCHANGED tasks /\ Pending(u)' = Pending(u)
    BY <1>5 DEF ReadFails, tasks, Pending
  <2>2. CASE ~IsMultipart(u)
    <3>1. pc'[u] = "failed" /\ Pending(u) = {}
      BY <1>1, <1>5, <2>2 DEF TypeOK, ReadFails, Fail, Go, TasksOf
    <3> QED
      BY <1>3, <2>1, <3>1
  <2>3. CASE IsMultipart(u) /\ Pending(u) = {}
    <3>1. pc'[u] = "aborting"
      BY <1>5, <2>3 DEF TypeOK, ReadFails, Unwind, Call
    <3> QED
      BY <1>3, <2>1, <2>3, <3>1
  <2>4. CASE IsMultipart(u) /\ Pending(u) # {}
    <3>1. pc'[u] = "unwinding"
      BY <1>5, <2>4 DEF TypeOK, ReadFails, Unwind, Go
    <3> QED
      BY <1>1, <1>4, <2>1, <2>4, <3>1 DEF TasksOf, tasks
  <2> QED
    BY <2>2, <2>3, <2>4
<1>6. CASE CollectRaises(u)
  <2>1. /\ pc[u] \in {"waiting", "draining"} /\ UNCHANGED active
        /\ Unwind(u, active[u])
    BY <1>6 DEF CollectRaises
  <2>2. good' = [good EXCEPT ![u] = {}] /\ bad' = [bad EXCEPT ![u] = {}]
    BY <1>6 DEF CollectRaises, Collect
  <2>3. IsMultipart(u)
    BY <2>1 DEF Control, ControlOf, Final
  <2>4. good'[u] = {} /\ bad'[u] = {} /\ Pending(u)' = active[u]
    BY <2>1, <2>2 DEF TypeOK, Pending
  <2>5. pc'[u] = IF active[u] = {} THEN "aborting" ELSE "unwinding"
    BY <2>1 DEF TypeOK, Unwind, Call, Go
  <2> QED
    BY <1>3, <1>4, <2>3, <2>4, <2>5 DEF Pending
<1>7. CASE Unwound(u)
  <2>1. pc'[u] = "aborting" /\ Pending(u)' = {}
    BY <1>7 DEF TypeOK, Unwound, Call, Pending
  <2> QED
    BY <1>3, <2>1
<1> QED
  BY <1>5, <1>6, <1>7

\* Steps of the part tasks.
LEMMA PartData ==
    ASSUME TypeOK, FiniteTasks, Control, Data, NEW u \in Uploads, NEW r \in active[u],
           \/ S3StorePart(u, r) \/ PartReturns(u, r)
           \/ PartRaises(u, r) \/ PartCancelled(u, r)
    PROVE  TasksOf(u)' /\ RangesOf(u)'
<1>1. /\ TasksOf(u) /\ RangesOf(u) /\ IsMultipart(u) /\ ~LateComplete(u)
      /\ pc[u] \in {"reading", "waiting", "draining", "unwinding"}
  <2>1. Pending(u) # {} /\ TasksOf(u) /\ RangesOf(u)
    BY DEF Pending, Data
  <2> QED
    BY <2>1, LateCompleteWhole DEF TasksOf
<1>2. /\ UNCHANGED <<pc, pos, partNumber, results>> /\ ~LateComplete(u)'
  BY <1>1 DEF S3StorePart, PartReturns, PartRaises, PartCancelled, local, LateComplete
<1>3. Count(u)' = Count(u) /\ InLoop(u)' = InLoop(u)
  BY <1>2 DEF Count, InLoop, IsMultipart
<1>4. CASE S3StorePart(u, r)
  <2>1. UNCHANGED tasks /\ stored'[u] = Put(stored[u], {r})
    BY <1>4 DEF S3StorePart, TypeOK
  <2>2. Pending(u)' = Pending(u) /\ Spawned(u)' = Spawned(u)
    BY <1>2, <2>1 DEF tasks, Pending, Spawned
  <2>3. ASSUME InLoop(u) PROVE good[u] \cup results[u] \subseteq stored'[u]
    <3>1. \A a, b \in Spawned(u) : a.pn = b.pn => a = b
      BY <1>1, <2>3 DEF RangesOf, Chain
    <3>2. \A a \in good[u] \cup results[u] : a \in stored[u] /\ (a.pn = r.pn => a = r)
      BY <1>1, <2>3, <3>1 DEF RangesOf, Spawned, Pending
    <3> QED
      BY <2>1, <3>2 DEF Put
  <2>4. TasksOf(u)'
    BY <1>1, <1>2, <2>1, <2>2 DEF TasksOf, tasks, IsMultipart
  <2>5. InLoop(u) => good'[u] \cup results'[u] \subseteq stored'[u]
    BY <1>2, <2>1, <2>3 DEF tasks
  <2> QED
    BY <1>1, <1>2, <1>3, <2>2, <2>4, <2>5 DEF RangesOf, LateComplete, Chain
<1>5. CASE PartReturns(u, r) \/ PartRaises(u, r)
  <2>1. /\ active'[u] = active[u] \ {r} /\ stored'[u] = stored[u]
        /\ \/ good'[u] = good[u] \cup {r} /\ bad'[u] = bad[u] /\ r \in stored[u]
           \/ good'[u] = good[u] /\ bad'[u] = bad[u] \cup {r}
    BY <1>5 DEF PartReturns, PartRaises, Received, TypeOK, s3
  <2>2. Pending(u)' = Pending(u)
    BY <2>1 DEF Pending
  <2>3. Spawned(u)' = Spawned(u)
    BY <1>2, <2>2 DEF Spawned
  <2>4. active'[u] \cap good'[u] = {}
    BY <1>1, <2>1 DEF TasksOf
  <2>5. TasksOf(u)'
    BY <1>1, <1>2, <2>2, <2>4 DEF TasksOf, IsMultipart
  <2>6. InLoop(u) => good'[u] \cup results'[u] \subseteq stored'[u]
    BY <1>1, <1>2, <2>1 DEF RangesOf
  <2> QED
    BY <1>1, <1>2, <1>3, <2>3, <2>5, <2>6 DEF RangesOf, LateComplete, Chain
<1>6. CASE PartCancelled(u, r)
  <2>1. /\ pc[u] = "unwinding" /\ active'[u] = active[u] \ {r}
        /\ good'[u] = good[u] /\ bad'[u] = bad[u]
    BY <1>6 DEF PartCancelled, TypeOK
  <2>2. Pending(u)' \subseteq Pending(u) /\ active'[u] \cap good'[u] = {}
    BY <1>1, <2>1 DEF Pending, TasksOf
  <2>3. Cardinality(Pending(u)') <= MaxConcurrent
    BY <1>1, <2>2, PendingShrinks DEF TasksOf
  <2> QED
    BY <1>1, <1>2, <2>1, <2>2, <2>3 DEF TasksOf, RangesOf, InLoop, LateComplete, IsMultipart
<1> QED
  BY <1>4, <1>5, <1>6

\* The process ends: nothing is pending, and only a whole file is left to be
\* completed by S3.
LEMMA ExitData ==
    ASSUME TypeOK, Control, Data, NEW u \in Uploads, ProcessExit
    PROVE  TasksOf(u)' /\ RangesOf(u)'
<1>1. TasksOf(u) /\ RangesOf(u)
  BY DEF Data
<1>2. Pending(u)' = {} /\ UNCHANGED <<pos, partNumber, results, stored>>
  BY DEF ProcessExit, Pending, local, s3
<1>3. LateComplete(u)' => Whole(results[u], Size[u]) /\ results'[u] = results[u]
  <2>1. LateComplete(u)' => LateComplete(u) \/ pc[u] = "completing"
    BY DEF ProcessExit, LateComplete, Request
  <2> QED
    BY <1>1, <1>2, <2>1, LateCompleteWhole DEF RangesOf
<1>4. CASE pc'[u] = "killed" \/ pc[u] \in Final
  <2>1. pc'[u] \in Final /\ ~InLoop(u)'
    BY <1>4 DEF ProcessExit, Final, InLoop
  <2> QED
    BY <1>2, <1>3, <2>1, DataOutside DEF Final
<1>5. CASE pc'[u] = "idle" /\ pc[u] = "idle"
  <2>1. Unmoved(u)
    BY <1>1, <1>2, <1>5 DEF Unmoved, ProcessExit, TasksOf, Pending
  <2>2. LateComplete(u)' => LateComplete(u)
    BY <1>5 DEF ProcessExit, LateComplete, Request, Calling
  <2> QED
    BY <1>1, <1>5, <2>1, <2>2, DataFrame
<1> QED
  BY <1>4, <1>5 DEF ProcessExit, Final

LEMMA NextData == ASSUME TypeOK, FiniteTasks, Control, Data, [Next]_vars PROVE Data'
<1> SUFFICES ASSUME NEW v \in Uploads
             PROVE  TasksOf(v)' /\ RangesOf(v)'
  BY DEF Data
<1>1. TasksOf(v) /\ RangesOf(v)
  BY DEF Data
<1>2. ASSUME NEW u \in Uploads, UploadStep(u) \/ cancel_upload(u)
      PROVE  TasksOf(v)' /\ RangesOf(v)'
  <2>1. CASE u # v
    BY <1>1, <1>2, <2>1, OthersUnmoved, DataFrame
  <2>2. CASE u = v /\ Coroutine(v)
    BY <2>2, OutsideData, ReadChunkData, ReadEndData, CollectReadingData,
       CollectDrainingData, RaiseData DEF Coroutine
  <2>3. CASE u = v /\ PartTask(v)
    BY <2>3, PartData DEF PartTask
  <2>4. CASE u = v /\ (S3Apply(v) \/ Retry(v) \/ cancel_upload(v))
    <3>1. /\ Unmoved(v) /\ pc'[v] = pc[v]
          /\ LateComplete(v)' => LateComplete(v) \/ pc[v] = "completing"
      BY <2>4
      DEF Unmoved, LateComplete, S3Apply, Retry, GiveUp, Request, cancel_upload, Effect,
          S3Create, S3Complete, S3Put, S3Abort, tasks, local, s3
    <3> QED
      BY <1>1, <3>1, DataFrame
  <2> QED
    BY <1>2, <2>1, <2>2, <2>3, <2>4 DEF UploadStep
<1>3. CASE S3Late
  <2>1. Unmoved(v) /\ pc'[v] = pc[v] /\ (LateComplete(v)' => LateComplete(v))
    BY <1>3
    DEF Unmoved, LateComplete, S3Late, Effect, S3Create, S3Complete, S3Put, S3Abort,
        tasks, local, s3
  <2> QED
    BY <1>1, <2>1, DataFrame
<1>4. CASE ProcessExit
  BY <1>4, ExitData
<1>5. CASE UNCHANGED vars
  <2>1. Unmoved(v) /\ pc'[v] = pc[v] /\ (LateComplete(v)' => LateComplete(v))
    BY <1>5 DEF Unmoved, LateComplete, vars, tasks, local, s3
  <2> QED
    BY <1>1, <2>1, DataFrame
<1> QED
  BY <1>2, <1>3, <1>4, <1>5 DEF Next, NothingToDo

-----------------------------------------------------------------------------
(* Objects.                                                                *)

\* What one S3 call does to the bucket.
LEMMA EffectWhole ==
    ASSUME TypeOK, ObjectsWhole, NEW u \in Uploads, NEW call, Effect(call, u),
           call = "completing" => Whole(results[u], Size[u])
    PROVE  ObjectsWhole'
<1>1. ASSUME NEW D, Publish(u, D), Whole(D, Size[u])
      PROVE  ObjectsWhole'
  BY <1>1, UploadAssumption DEF ObjectsWhole, Publish, TypeOK
<1>2. CASE call = "completing"
  <2>1. Publish(u, results[u]) \/ UNCHANGED object
    BY <1>2 DEF Effect, S3Complete, s3
  <2> QED
    BY <1>1, <1>2, <2>1 DEF ObjectsWhole
<1>3. CASE call = "putting"
  BY <1>1, <1>3, WholeFileWhole DEF Effect, S3Put
<1>4. CASE call \in {"creating", "aborting"}
  BY <1>4 DEF Effect, S3Create, S3Abort, ObjectsWhole
<1> QED
  BY <1>2, <1>3, <1>4 DEF Effect

\* A step that is no effect of an S3 call leaves the bucket alone.
LEMMA BucketUnmoved ==
    ASSUME [Next]_vars, ~S3Late, ~ \E u \in Uploads : S3Apply(u)
    PROVE  UNCHANGED <<object, landed>>
<1>1. CASE \E u \in Uploads : Coroutine(u)
  BY <1>1
  DEF Coroutine, Start, Created, CreateFails, ReadChunk, ReadEnd, ReadSmall, ReadFails,
      CollectReading, CollectDraining, CollectRaises, Unwound, Written, WriteFails,
      Presigned, PresignFails, Aborted, AbortFails, s3
<1>2. CASE \E u \in Uploads : PartTask(u) \/ Retry(u) \/ cancel_upload(u)
  BY <1>2
  DEF PartTask, S3StorePart, PartReturns, PartRaises, PartCancelled, Retry, cancel_upload, s3
<1>3. CASE ProcessExit \/ UNCHANGED vars
  BY <1>3 DEF ProcessExit, vars, s3
<1> QED
  BY <1>1, <1>2, <1>3 DEF Next, UploadStep, NothingToDo

LEMMA NextObjectsWhole ==
    ASSUME TypeOK, Data, ObjectsWhole, [Next]_vars PROVE ObjectsWhole'
<1>1. CASE \E u \in Uploads : S3Apply(u)
  <2>1. PICK u \in Uploads : S3Apply(u)
    BY <1>1
  <2>2. pc[u] = "completing" => Whole(results[u], Size[u])
    BY DEF Data, RangesOf
  <2> QED
    BY <2>1, <2>2, EffectWhole DEF S3Apply
<1>2. CASE S3Late
  <2>1. PICK c \in late : Effect(c.call, c.u)
    BY <1>2 DEF S3Late
  <2>2. c.u \in Uploads
    BY DEF TypeOK
  <2>3. c.call = "completing" => Whole(results[c.u], Size[c.u])
    BY <2>2 DEF Data, RangesOf, LateComplete
  <2> QED
    BY <2>1, <2>2, <2>3, EffectWhole
<1>3. CASE ~S3Late /\ ~ \E u \in Uploads : S3Apply(u)
  BY <1>3, BucketUnmoved DEF ObjectsWhole
<1> QED
  BY <1>1, <1>2, <1>3

-----------------------------------------------------------------------------
(* Failures.                                                               *)

\* Failures are counted one by one.
LEMMA FaultsGrow == ASSUME [Next]_vars PROVE faults' = faults \/ faults' = faults + 1
<1>1. Fault => faults' = faults + 1
  BY DEF Fault
<1>2. ASSUME NEW u \in Uploads,
             \/ Start(u) \/ Created(u) \/ ReadChunk(u) \/ ReadEnd(u) \/ ReadSmall(u)
             \/ CollectReading(u) \/ CollectDraining(u) \/ CollectRaises(u) \/ Unwound(u)
             \/ Written(u) \/ Presigned(u) \/ Aborted(u) \/ S3Apply(u) \/ cancel_upload(u)
      PROVE  faults' = faults
  BY <1>2
  DEF Start, Created, ReadChunk, ReadEnd, ReadSmall, CollectReading, CollectDraining,
      CollectRaises, Unwound, Written, Presigned, Aborted, S3Apply, cancel_upload
<1>3. ASSUME NEW u \in Uploads, NEW r \in active[u],
             S3StorePart(u, r) \/ PartReturns(u, r) \/ PartCancelled(u, r)
      PROVE  faults' = faults
  BY <1>3 DEF S3StorePart, PartReturns, PartCancelled
<1>4. S3Late \/ UNCHANGED vars => faults' = faults
  BY DEF S3Late, vars
<1> QED
  BY <1>1, <1>2, <1>3, <1>4, NextCases
  DEF CreateFails, ReadFails, WriteFails, PresignFails, AbortFails, Retry, PartRaises, ProcessExit

\* What S3 has open changes only by its own steps.
LEMMA FaultlessStep ==
    ASSUME TypeOK, Control, [Next]_vars, faults' = 0, faults = 0, late = {}, orphans = {},
           ~Repeated
    PROVE  late' = {} /\ orphans' = {} /\ ~Repeated'
<1>1. ~Fault
  BY DEF Fault
<1>2. ~S3Late
  BY DEF S3Late
<1>3. ASSUME NEW u \in Uploads, S3Apply(u)
      PROVE  late' = {} /\ orphans' = {} /\ ~Repeated'
  <2>1. UNCHANGED <<pc, late>> /\ applied' = applied \cup {u} /\ Effect(pc[u], u)
    BY <1>3 DEF S3Apply
  <2>2. ControlOf(u)
    BY DEF Control
  <2>3. orphans' = {}
    BY <1>3, <2>2 DEF S3Apply, Effect, S3Create, S3Complete, S3Put, S3Abort, s3, Repeated, ControlOf
  <2>4. ASSUME NEW v \in Uploads, v # u PROVE mpu'[v] = mpu[v]
    BY <1>3, <2>4 DEF S3Apply, Effect, S3Create, S3Complete, S3Put, S3Abort, s3, TypeOK
  <2> QED
    BY <2>1, <2>3, <2>4 DEF Repeated
<1>4. ASSUME NEW u \in Uploads,
             \/ Start(u) \/ Created(u) \/ ReadEnd(u) \/ ReadSmall(u) \/ Unwound(u)
             \/ Written(u) \/ Presigned(u) \/ Aborted(u) \/ cancel_upload(u)
             \/ ReadChunk(u) \/ CollectReading(u) \/ CollectDraining(u) \/ CollectRaises(u)
      PROVE  late' = {} /\ orphans' = {} /\ ~Repeated'
  <2>1. UNCHANGED <<late, orphans, mpu>>
    BY <1>4
    DEF Start, Created, ReadEnd, ReadSmall, Unwound, Written, Presigned, Aborted, cancel_upload,
        ReadChunk, CollectReading, CollectDraining, CollectRaises, s3
  <2>2. ASSUME NEW v \in Uploads, pc'[v] = "creating", v \notin applied'
        PROVE  mpu[v] # "open"
    <3>1. pc[v] = "idle" \/ (pc[v] = "creating" /\ v \notin applied)
      BY <1>4, <2>2
      DEF Start, Created, ReadEnd, ReadSmall, Unwound, Written, Presigned, Aborted, cancel_upload,
          ReadChunk, CollectReading, CollectDraining, CollectRaises, Unwind, Fail, Succeed, Call,
          Go, TypeOK
    <3> QED
      BY <3>1 DEF Control, ControlOf, Repeated
  <2> QED
    BY <2>1, <2>2 DEF Repeated
<1>5. ASSUME NEW u \in Uploads, NEW r \in active[u],
             S3StorePart(u, r) \/ PartReturns(u, r) \/ PartCancelled(u, r)
      PROVE  late' = {} /\ orphans' = {} /\ ~Repeated'
  BY <1>5 DEF S3StorePart, PartReturns, PartCancelled, Repeated, s3
<1>6. CASE UNCHANGED vars
  BY <1>6 DEF vars, s3, Repeated
<1> QED
  BY <1>1, <1>2, <1>3, <1>4, <1>5, <1>6, NextCases
  DEF CreateFails, ReadFails, WriteFails, PresignFails, AbortFails, Retry, PartRaises, ProcessExit

LEMMA InitFaulty == Init => Faulty
  BY DEF Init, Faulty, Repeated

\* A step without a failure gives no request up and sends no create again.
LEMMA NextFaulty ==
    ASSUME TypeOK, FiniteTasks, Control, Faulty, [Next]_vars PROVE Faulty'
<1>1. faults \in Nat /\ faults' \in Nat
  BY NextTypeOK, UploadAssumption DEF TypeOK
<1>2. faults' = faults \/ faults' = faults + 1
  BY FaultsGrow
<1>3. CASE faults' = 0
  <2>1. faults = 0
    BY <1>1, <1>2, <1>3
  <2>2. late = {} /\ orphans = {} /\ ~Repeated
    BY <2>1 DEF Faulty
  <2> QED
    BY <1>3, <2>1, <2>2, FaultlessStep DEF Faulty
<1>4. CASE faults' # 0
  <2>1. faults' > 0
    BY <1>1, <1>4
  <2> QED
    BY <2>1 DEF Faulty
<1> QED
  BY <1>3, <1>4

-----------------------------------------------------------------------------
(* The theorems.                                                           *)

\* The invariant holds in every reachable state, whatever the uploads, the sizes
\* of their files and the limits of the service.
THEOREM Inductive == Spec => []IInv
<1>1. Init => IInv
  <2>1. Init => ObjectsWhole
    BY DEF Init, ObjectsWhole
  <2> QED
    BY <2>1, InitTypeOK, InitFiniteTasks, InitControl, InitData, InitFaulty DEF IInv
<1>2. IInv /\ [Next]_vars => IInv'
  BY NextTypeOK, NextFiniteTasks, NextControl, NextData, NextFaulty, NextObjectsWhole DEF IInv
<1> QED
  BY <1>1, <1>2, PTL DEF Spec

\* Every variable keeps its type: part numbers and byte counts stay numbers, a
\* task set holds only parts, the tracker only records.
THEOREM TypeCorrect == Spec => []TypeOK
<1>1. IInv => TypeOK
  BY DEF IInv
<1> QED
  BY <1>1, Inductive, PTL

\* No interleaving of part tasks, uploads, failures and late S3 calls leaves an
\* object that is not the whole file of one upload of its key.
THEOREM WholeObjects == Spec => []ObjectsWhole
<1>1. IInv => ObjectsWhole
  BY DEF IInv
<1> QED
  BY <1>1, Inductive, PTL

\* MAX_CONCURRENT_PARTS bounds the tasks of every upload at all times.
THEOREM ConcurrencyBounded == Spec => []BoundedConcurrency
<1>1. IInv => BoundedConcurrency
  BY DEF IInv, Data, TasksOf, BoundedConcurrency
<1> QED
  BY <1>1, Inductive, PTL

\* Completion, abort and answer find no task pending.
THEOREM NoTaskStrays == Spec => []NoStrayTasks
<1>1. IInv => NoStrayTasks
  BY DEF IInv, Data, TasksOf, NoStrayTasks, Final, Calling
<1> QED
  BY <1>1, Inductive, PTL

\* S3 has every part that complete_multipart_upload lists.
THEOREM ListedPartsReceived == Spec => []PartsReceived
<1>1. IInv => PartsReceived
  BY DEF IInv, Data, RangesOf, PartsReceived
<1> QED
  BY <1>1, Inductive, PTL

\* A multipart upload is left open only for the reasons named.
THEOREM OpenUploadsOwned == Spec => []OpenHasOwner
<1>1. IInv => OpenHasOwner
  <2> SUFFICES ASSUME IInv, NEW u \in Uploads, mpu[u] = "open", pc[u] \in Final
               PROVE  \/ pc[u] = "failed" /\ (u \notin known \/ u \in abortFailed)
                      \/ pc[u] = "killed"
    BY DEF OpenHasOwner, IInv, Faulty
  <2>1. ControlOf(u)
    BY DEF IInv, Control
  <2>2. pc[u] # "done"
    BY <2>1 DEF ControlOf
  <2> QED
    BY <2>1, <2>2 DEF ControlOf, Final
<1> QED
  BY <1>1, Inductive, PTL

\* The status that the API shows is the truth of the request.
THEOREM TrackerTruthful == Spec => []TrackerTruth
<1>1. IInv => TrackerTruth
  BY DEF IInv, Control, ControlOf, TrackerTruth, Final
<1> QED
  BY <1>1, Inductive, PTL

-----------------------------------------------------------------------------
(* Progress.                                                               *)

\* The parts read so far carry disjoint ranges of what is read, in the order of
\* their numbers, and none is collected twice: so the local counter is the number
\* of bytes collected.
Counted(u) ==
    /\ pos[u] <= Size[u]
    /\ \A r \in Spawned(u) : r.from <= r.to /\ r.to <= pos[u]
    /\ \A a, b \in Spawned(u) : a.pn = b.pn => a = b
    /\ \A a, b \in Spawned(u) : a.pn < b.pn => a.to <= b.from
    /\ (active[u] \cup good[u]) \cap results[u] = {}
    /\ uploaded[u] = Bytes(results[u])

Shown(u) == tracker[u].uploaded_size <= Size[u]

Progress == \A u \in Uploads : Counted(u) /\ Shown(u)

\* Parts of the first n bytes carry no more than n bytes.
LEMMA BytesWithin ==
    ASSUME NEW C \in SUBSET Part, NEW n \in Nat, \A r \in C : r.to <= n
    PROVE  /\ IsFiniteSet(UNION {(r.from + 1)..r.to : r \in C})
           /\ Bytes(C) \in Nat /\ Bytes(C) <= n
<1> DEFINE covered == UNION {(r.from + 1)..r.to : r \in C}
<1>1. covered \subseteq 1..n
  <2> SUFFICES ASSUME NEW r \in C, NEW i \in (r.from + 1)..r.to PROVE i \in 1..n
    OBVIOUS
  <2> QED
    BY DEF Part
<1>2. IsFiniteSet(1..n) /\ Cardinality(1..n) = n
  BY FS_Interval
<1>3. Bytes(C) = Cardinality(covered)
  BY DEF Bytes
<1> HIDE DEF covered
<1>4. IsFiniteSet(covered) /\ Cardinality(covered) \in Nat /\ Cardinality(covered) <= n
  BY <1>1, <1>2, FS_Subset, FS_CardinalityType
<1> QED
  BY <1>3, <1>4 DEF covered

\* The bytes of disjoint parts add up.
LEMMA BytesAdd ==
    ASSUME NEW C \in SUBSET Part, NEW D \in SUBSET Part, NEW n \in Nat,
           \A r \in C \cup D : r.to <= n,
           \A a \in C, b \in D : a.to <= b.from \/ b.to <= a.from
    PROVE  Bytes(C \cup D) = Bytes(C) + Bytes(D)
<1> DEFINE covered(S) == UNION {(r.from + 1)..r.to : r \in S}
<1>1. \A S : Bytes(S) = Cardinality(covered(S))
  BY DEF Bytes
<1>2. covered(C \cup D) = covered(C) \cup covered(D)
  OBVIOUS
<1>3. covered(C) \cap covered(D) = {}
  <2> SUFFICES ASSUME NEW a \in C, NEW b \in D, NEW i \in (a.from + 1)..a.to,
                      i \in (b.from + 1)..b.to
               PROVE  FALSE
    OBVIOUS
  <2> QED
    BY DEF Part
<1>4. IsFiniteSet(covered(C)) /\ IsFiniteSet(covered(D))
  BY BytesWithin
<1>5. /\ Cardinality(covered(C)) \in Nat /\ Cardinality(covered(D)) \in Nat
      /\ Cardinality(covered(C) \cap covered(D)) = 0
  BY <1>3, <1>4, FS_CardinalityType, FS_EmptySet
<1>6. Cardinality(covered(C) \cup covered(D))
        = Cardinality(covered(C)) + Cardinality(covered(D)) - Cardinality(covered(C) \cap covered(D))
  BY <1>4, FS_Union
<1>7. /\ Bytes(C) = Cardinality(covered(C)) /\ Bytes(D) = Cardinality(covered(D))
      /\ Bytes(C \cup D) = Cardinality(covered(C) \cup covered(D))
  <2>1. Bytes(C \cup D) = Cardinality(covered(C \cup D))
    BY <1>1
  <2> HIDE DEF covered
  <2> QED
    BY <1>1, <1>2, <2>1
<1> HIDE DEF covered
<1> QED
  BY <1>5, <1>6, <1>7

\* What was collected is counted once, and is part of what was read.
LEMMA CollectCounts ==
    ASSUME TypeOK, Data, NEW u \in Uploads, Counted(u), NEW C \in SUBSET good[u],
           Collect(u, C), UNCHANGED <<active, pos>>
    PROVE  Counted(u)' /\ uploaded'[u] \in Nat /\ uploaded'[u] <= Size[u]
<1>1. /\ good[u] \in SUBSET Part /\ results[u] \in SUBSET Part /\ pos[u] \in Nat
      /\ Size[u] \in Nat /\ uploaded[u] \in Nat
  BY UploadAssumption DEF TypeOK
<1>2. C \in SUBSET Spawned(u) /\ results[u] \in SUBSET Spawned(u)
  BY DEF Spawned, Pending
<1>3. Put(results[u], C) = results[u] \cup C
  BY <1>2, PutUnion DEF Counted
<1>4. /\ results'[u] = results[u] \cup C /\ uploaded'[u] = uploaded[u] + Bytes(C)
      /\ good'[u] = {} /\ bad'[u] = {} /\ active'[u] = active[u] /\ pos'[u] = pos[u]
  BY <1>3 DEF Collect, TypeOK
<1>5. ASSUME NEW a \in results[u], NEW b \in C PROVE a.to <= b.from \/ b.to <= a.from
  <2>1. a.pn \in Nat /\ b.pn \in Nat /\ a # b
    BY <1>1 DEF Counted, Part
  <2> QED
    BY <1>2, <2>1 DEF Counted
<1>6. \A r \in results[u] \cup C : r.to <= pos[u]
  BY <1>2 DEF Counted
<1>7. results[u] \cup C \in SUBSET Part /\ C \in SUBSET Part
  BY <1>1
<1>8. Bytes(results[u] \cup C) = Bytes(results[u]) + Bytes(C)
  BY <1>1, <1>5, <1>6, <1>7, BytesAdd
<1>9. Bytes(results[u] \cup C) \in Nat /\ Bytes(results[u] \cup C) <= pos[u]
  BY <1>1, <1>6, <1>7, BytesWithin
<1>10. uploaded'[u] = Bytes(results[u] \cup C) /\ pos[u] <= Size[u]
  BY <1>4, <1>8 DEF Counted
<1>11. Spawned(u)' \subseteq Spawned(u)
  BY <1>4 DEF Spawned, Pending
<1>12. (active'[u] \cup good'[u]) \cap results'[u] = {}
  BY <1>4 DEF Counted, Data, TasksOf
<1>13. Counted(u)'
  BY <1>4, <1>10, <1>11, <1>12 DEF Counted
<1> QED
  BY <1>1, <1>9, <1>10, <1>13

\* A chunk that is read comes after all the others.
LEMMA ReadChunkCounts ==
    ASSUME TypeOK, Control, Data, NEW u \in Uploads, Counted(u), ReadChunk(u)
    PROVE  Counted(u)'
<1> DEFINE end == IF pos[u] + ChunkSize < Size[u] THEN pos[u] + ChunkSize ELSE Size[u]
           r   == [pn |-> partNumber[u], from |-> pos[u], to |-> end]
<1>1. /\ pc[u] = "reading" /\ IsMultipart(u)
      /\ active' = [active EXCEPT ![u] = active[u] \cup {r}]
      /\ pos' = [pos EXCEPT ![u] = end]
      /\ UNCHANGED <<good, bad, results, uploaded>>
  BY DEF ReadChunk
<1>2. /\ partNumber[u] \in Nat /\ pos[u] \in Nat /\ end \in Nat /\ pos[u] <= end
      /\ end <= Size[u] /\ Size[u] \in Nat /\ Spawned(u) \in SUBSET Part
  BY UploadAssumption DEF TypeOK, Counted, Spawned, Pending
<1>3. /\ active'[u] = active[u] \cup {r} /\ good'[u] = good[u] /\ bad'[u] = bad[u]
      /\ results'[u] = results[u] /\ uploaded'[u] = uploaded[u] /\ pos'[u] = end
  BY <1>1 DEF TypeOK
<1>4. r.pn = partNumber[u] /\ r.from = pos[u] /\ r.to = end
  OBVIOUS
<1> HIDE DEF r, end
<1>5. \A a \in Spawned(u) : a.pn < r.pn /\ a.pn \in Nat /\ a.from \in Nat /\ a.to \in Nat
  <2>1. \A a \in Spawned(u) : a.pn \in 1..(partNumber[u] - 1)
    BY <1>1, <1>2 DEF Data, RangesOf, InLoop, Count, Chain
  <2> QED
    BY <1>2, <1>4, <2>1 DEF Part
<1>6. Spawned(u)' = Spawned(u) \cup {r} /\ r \notin Spawned(u)
  BY <1>2, <1>3, <1>4, <1>5 DEF Spawned, Pending
<1>7. \A a \in Spawned(u) : a.from <= a.to /\ a.to <= pos[u]
  BY DEF Counted
<1>8. \A a \in Spawned(u)' : a.from <= a.to /\ a.to <= pos'[u]
  BY <1>2, <1>3, <1>4, <1>5, <1>6, <1>7
<1>9. \A a, b \in Spawned(u)' : a.pn = b.pn => a = b
  BY <1>2, <1>4, <1>5, <1>6 DEF Counted
<1>10. \A a, b \in Spawned(u)' : a.pn < b.pn => a.to <= b.from
  BY <1>2, <1>4, <1>5, <1>6, <1>7 DEF Counted
<1>11. (active'[u] \cup good'[u]) \cap results'[u] = {}
  BY <1>3, <1>6 DEF Counted, Spawned
<1> QED
  BY <1>2, <1>3, <1>8, <1>9, <1>10, <1>11 DEF Counted

\* Every other step collects nothing and reads nothing.
Shrinks(v) ==
    /\ results'[v] = results[v] /\ pos'[v] = pos[v] /\ uploaded'[v] = uploaded[v]
    /\ Pending(v)' \subseteq Pending(v)
    /\ active'[v] \cup good'[v] \subseteq active[v] \cup good[v]

LEMMA CountingSteps ==
    ASSUME TypeOK, NEW v \in Uploads, [Next]_vars
    PROVE  \/ Shrinks(v) \/ ReadChunk(v)
           \/ \E C \in SUBSET good[v] : Collect(v, C) /\ Report(v, C) /\ UNCHANGED <<active, pos>>
<1> USE DEF Shrinks
<1>1. ASSUME NEW u \in Uploads \ {v}, UploadStep(u) \/ cancel_upload(u)
      PROVE  Shrinks(v)
  <2>1. Unmoved(v)
    BY <1>1, OthersUnmoved
  <2>2. uploaded'[v] = uploaded[v]
    BY <1>1
    DEF TypeOK, UploadStep, Coroutine, Start, Created, CreateFails, ReadChunk, ReadEnd, ReadSmall,
        ReadFails, CollectReading, CollectDraining, CollectRaises, Unwound, Written, WriteFails,
        Presigned, PresignFails, Aborted, AbortFails, S3Apply, Retry, PartTask, S3StorePart,
        PartReturns, PartRaises, PartCancelled, cancel_upload, Collect, local
  <2> QED
    BY <2>1, <2>2 DEF Unmoved, Pending
<1>2. CASE \/ Start(v) \/ Created(v) \/ CreateFails(v) \/ ReadEnd(v) \/ ReadSmall(v)
           \/ ReadFails(v) \/ Written(v) \/ WriteFails(v) \/ Presigned(v) \/ PresignFails(v)
           \/ Aborted(v) \/ AbortFails(v) \/ S3Apply(v) \/ Retry(v) \/ cancel_upload(v)
  BY <1>2
  DEF Start, Created, CreateFails, ReadEnd, ReadSmall, ReadFails, Written, WriteFails,
      Presigned, PresignFails, Aborted, AbortFails, S3Apply, Retry, cancel_upload, tasks, local,
      Pending
<1>3. CASE Unwound(v)
  BY <1>3 DEF Unwound, local, Pending, TypeOK
<1>4. CASE PartTask(v)
  BY <1>4
  DEF PartTask, S3StorePart, PartReturns, PartRaises, PartCancelled, tasks, local, Pending, TypeOK
<1>5. CASE CollectReading(v) \/ CollectDraining(v) \/ CollectRaises(v)
  BY <1>5 DEF CollectReading, CollectDraining, CollectRaises
<1>6. CASE S3Late \/ ProcessExit \/ UNCHANGED vars
  BY <1>6 DEF S3Late, ProcessExit, vars, tasks, local, Pending
<1> QED
  BY <1>1, <1>2, <1>3, <1>4, <1>5, <1>6 DEF Next, UploadStep, Coroutine, NothingToDo

LEMMA NextCounted ==
    ASSUME TypeOK, Control, Data, NEW v \in Uploads, Counted(v), [Next]_vars PROVE Counted(v)'
<1>1. CASE Shrinks(v)
  <2>1. Spawned(v)' \subseteq Spawned(v)
    BY <1>1 DEF Shrinks, Spawned
  <2> QED
    BY <1>1, <2>1 DEF Shrinks, Counted
<1> QED
  BY <1>1, CountingSteps, ReadChunkCounts, CollectCounts

\* What a call of the tracker shows.
LEMMA TrackShows ==
    ASSUME TypeOK, NEW u \in Uploads, NEW v \in Uploads, Shown(v), NEW n \in Nat, n <= Size[u],
           NEW m, NEW e,
           \/ start_upload(u) \/ update_progress(u, n, m) \/ complete_upload(u)
           \/ fail_upload(u, e)
    PROVE  Shown(v)'
<1>1. Size[u] \in Nat
  BY UploadAssumption
<1>2. \A st, k, p, t, er :
         [status |-> st, uploaded_size |-> k, parts_completed |-> p, total_parts |-> t,
          error |-> er].uploaded_size = k
  OBVIOUS
<1>3. /\ tracker'[v] = tracker[v] \/ u = v
      /\ \/ tracker'[u] = tracker[u] \/ tracker'[u].uploaded_size \in {0, n, Size[u]}
         \/ tracker'[u].uploaded_size = tracker[u].uploaded_size
  BY <1>2
  DEF TypeOK, start_upload, update_progress, complete_upload, fail_upload, Track
<1> QED
  BY <1>1, <1>3 DEF Shown

LEMMA NextShown ==
    ASSUME TypeOK, Control, Data, Progress, NEW v \in Uploads, [Next]_vars PROVE Shown(v)'
<1>1. Shown(v) /\ \A u \in Uploads : Size[u] \in Nat
  BY UploadAssumption DEF Progress
<1>2. ASSUME NEW u \in Uploads, NEW C \in SUBSET good[u], Collect(u, C), Report(u, C),
             UNCHANGED <<active, pos>>
      PROVE  Shown(v)'
  <2>1. uploaded'[u] \in Nat /\ uploaded'[u] <= Size[u]
    BY <1>2, CollectCounts DEF Progress
  <2>2. CASE UNCHANGED tracker
    BY <1>1, <2>2 DEF Shown
  <2>3. ASSUME NEW r \in C, update_progress(u, uploaded'[u], r.pn) PROVE Shown(v)'
    BY <1>1, <2>1, <2>3, TrackShows
  <2> QED
    BY <1>2, <2>2, <2>3 DEF Report
<1>3. ASSUME NEW u \in Uploads,
             \/ start_upload(u) \/ update_progress(u, Size[u], 1) \/ complete_upload(u)
             \/ \E e : fail_upload(u, e)
      PROVE  Shown(v)'
  BY <1>1, <1>3, TrackShows
<1>4. CASE UNCHANGED tracker
  BY <1>1, <1>4 DEF Shown
<1>5. ASSUME NEW u \in Uploads,
             \/ Start(u) \/ CreateFails(u) \/ ReadSmall(u) \/ ReadFails(u) \/ Written(u)
             \/ WriteFails(u) \/ Presigned(u) \/ PresignFails(u) \/ Aborted(u) \/ AbortFails(u)
             \/ cancel_upload(u)
      PROVE  Shown(v)'
  BY <1>3, <1>4, <1>5
  DEF Start, CreateFails, ReadSmall, ReadFails, Written, WriteFails, Presigned, PresignFails,
      Aborted, AbortFails, cancel_upload, Fail, Succeed
<1>6. ASSUME NEW u \in Uploads,
             \/ Created(u) \/ ReadChunk(u) \/ ReadEnd(u) \/ Unwound(u) \/ S3Apply(u) \/ Retry(u)
             \/ PartTask(u)
      PROVE  Shown(v)'
  BY <1>4, <1>6
  DEF Created, ReadChunk, ReadEnd, Unwound, S3Apply, Retry, PartTask, S3StorePart, PartReturns,
      PartRaises, PartCancelled
<1>7. ASSUME NEW u \in Uploads, CollectReading(u) \/ CollectDraining(u) \/ CollectRaises(u)
      PROVE  Shown(v)'
  BY <1>2, <1>7 DEF CollectReading, CollectDraining, CollectRaises
<1>8. CASE ProcessExit
  BY <1>1, <1>8 DEF ProcessExit, NoRecord, Shown
<1>9. CASE S3Late \/ UNCHANGED vars
  BY <1>4, <1>9 DEF S3Late, vars
<1> QED
  BY <1>5, <1>6, <1>7, <1>8, <1>9 DEF Next, UploadStep, Coroutine, NothingToDo

LEMMA InitProgress == Init => Progress
<1> SUFFICES ASSUME Init, NEW u \in Uploads PROVE Counted(u) /\ Shown(u)
  BY DEF Progress
<1>1. Spawned(u) = {} /\ results[u] = {} /\ active[u] = {} /\ good[u] = {}
  BY DEF Init, Spawned, Pending
<1>2. Bytes({}) = 0
  <2>1. UNION {(r.from + 1)..r.to : r \in {}} = {}
    OBVIOUS
  <2> QED
    BY <2>1, FS_EmptySet DEF Bytes
<1> QED
  BY <1>1, <1>2, UploadAssumption DEF Init, NoRecord, Counted, Shown

\* The progress that the API shows never exceeds the size of the file, in whatever
\* order the parts finish and whichever of them are collected before one that raised.
THEOREM ProgressWithin == Spec => []ProgressWithinTotal
<1>1. IInv /\ Progress /\ [Next]_vars => Progress'
  BY NextCounted, NextShown DEF IInv, Progress
<1>2. Progress => ProgressWithinTotal
  BY DEF Progress, Shown, ProgressWithinTotal
<1> QED
  BY <1>1, <1>2, InitProgress, Inductive, PTL DEF Spec

-----------------------------------------------------------------------------
(* The refinement of AtomicUpload.                                         *)

Current   == [k \in Keys |-> object[k].by]
Withdrawn == {u \in Uploads : mpu[u] = "aborted"}
Again     == {u \in Uploads : \E c \in late : c.call = "putting" /\ c.u = u}

\* A step of the abstract specification, but for the writes that may come late.
AbstractMove ==
    \/ \E u \in Uploads : \/ Abstract!Land(u) \/ Abstract!Withdraw(u)
                          \/ Abstract!Acknowledge(u) \/ Abstract!Refuse(u)
    \/ UNCHANGED <<Current, landed, Withdrawn, reply>>

\* A request is given up while its coroutine waits for the call.
LEMMA LateGrows ==
    ASSUME [Next]_vars, NEW c \in late' \ late
    PROVE  \E u \in Uploads : c = Request(u) /\ pc[u] \in Calling
<1>1. ASSUME NEW u \in Uploads, GiveUp(u), pc[u] \in Calling
      PROVE  c = Request(u)
  BY <1>1 DEF GiveUp
<1>2. ASSUME NEW u \in Uploads,
             CreateFails(u) \/ WriteFails(u) \/ AbortFails(u) \/ Retry(u)
      PROVE  GiveUp(u) /\ pc[u] \in Calling
  BY <1>2 DEF CreateFails, WriteFails, AbortFails, Retry, Calling
<1>3. ASSUME ProcessExit PROVE \E u \in Uploads : c = Request(u) /\ pc[u] \in Calling
  BY <1>3 DEF ProcessExit
<1>4. ASSUME NEW u \in Uploads,
             \/ Start(u) \/ Created(u) \/ ReadChunk(u) \/ ReadEnd(u) \/ ReadSmall(u)
             \/ ReadFails(u) \/ CollectReading(u) \/ CollectDraining(u) \/ CollectRaises(u)
             \/ Unwound(u) \/ Written(u) \/ Presigned(u) \/ PresignFails(u) \/ Aborted(u)
             \/ S3Apply(u) \/ cancel_upload(u)
             \/ \E r \in active[u] : \/ S3StorePart(u, r) \/ PartReturns(u, r)
                                     \/ PartRaises(u, r) \/ PartCancelled(u, r)
      PROVE  late' = late
  BY <1>4
  DEF Start, Created, ReadChunk, ReadEnd, ReadSmall, ReadFails, CollectReading,
      CollectDraining, CollectRaises, Unwound, Written, Presigned, PresignFails, Aborted,
      S3Apply, cancel_upload, S3StorePart, PartReturns, PartRaises, PartCancelled
<1>5. S3Late \/ UNCHANGED vars => late' \subseteq late
  BY DEF S3Late, vars
<1> QED
  BY <1>1, <1>2, <1>3, <1>4, <1>5, NextCases

\* No write is given up once its upload was acknowledged.
LEMMA AgainInTime ==
    ASSUME Control, [Next]_vars
    PROVE  Again' \subseteq Uploads /\ \A u \in Again' \ Again : reply[u] # "ok"
<1> SUFFICES ASSUME NEW u \in Again' \ Again PROVE reply[u] # "ok"
  BY DEF Again
<1>1. PICK c \in late' : c.call = "putting" /\ c.u = u
  BY DEF Again
<1>2. c \notin late /\ u \in Uploads
  BY <1>1 DEF Again
<1>3. pc[u] = "putting"
  BY <1>1, <1>2, LateGrows DEF Request
<1> QED
  BY <1>2, <1>3 DEF Control, ControlOf

LEMMA MoveIsStep ==
    ASSUME Control, [Next]_vars, AbstractMove
    PROVE  [Abstract!Next]_(Abstract!vars)
  BY AgainInTime DEF AbstractMove, Abstract!Next, Abstract!GivenUpInTime, Again, Current, Withdrawn

\* Only an upload whose write is due and that was neither acknowledged nor
\* withdrawn can land; only one that never landed can be withdrawn.
LEMMA EffectMaps ==
    ASSUME TypeOK, NEW u \in Uploads, NEW call, Effect(call, u), reply' = reply,
           call = "putting" => reply[u] # "ok" \/ u \in Again,
           call = "putting" => mpu[u] # "aborted",
           mpu[u] = "open" => u \notin landed /\ reply[u] # "ok"
    PROVE  AbstractMove
<1>1. ASSUME NEW D, Publish(u, D), Withdrawn' = Withdrawn, mpu[u] # "aborted",
             reply[u] # "ok" \/ u \in Again
      PROVE  Abstract!Land(u)
  <2>1. Current' = [Current EXCEPT ![KeyOf[u]] = u]
    BY <1>1, UploadAssumption DEF Publish, TypeOK, Current
  <2> QED
    BY <1>1, <2>1 DEF Abstract!Land, Publish, Current, Withdrawn, Again
<1>2. CASE call = "creating"
  <2>1. Withdrawn' = Withdrawn /\ Current' = Current /\ landed' = landed
    BY <1>2 DEF Effect, S3Create, TypeOK, Current, Withdrawn
  <2> QED
    BY <2>1 DEF AbstractMove
<1>3. CASE call = "completing"
  <2>1. CASE mpu[u] = "open" /\ results[u] \subseteq stored[u]
    <3>1. Publish(u, results[u]) /\ Withdrawn' = Withdrawn /\ mpu[u] # "aborted"
      BY <1>3, <2>1 DEF Effect, S3Complete, TypeOK, Withdrawn
    <3> QED
      BY <1>1, <2>1, <3>1 DEF AbstractMove
  <2>2. CASE ~(mpu[u] = "open" /\ results[u] \subseteq stored[u])
    <3>1. Withdrawn' = Withdrawn /\ Current' = Current /\ landed' = landed
      BY <1>3, <2>2 DEF Effect, S3Complete, s3, Current, Withdrawn
    <3> QED
      BY <3>1 DEF AbstractMove
  <2> QED
    BY <2>1, <2>2
<1>4. CASE call = "putting"
  <2>1. Publish(u, WholeFile(u)) /\ Withdrawn' = Withdrawn
    BY <1>4 DEF Effect, S3Put, Withdrawn
  <2> QED
    BY <1>1, <1>4, <2>1 DEF AbstractMove
<1>5. CASE call = "aborting"
  <2>1. Current' = Current /\ landed' = landed
    BY <1>5 DEF Effect, S3Abort, Current
  <2>2. CASE mpu[u] = "open"
    <3>1. Withdrawn' = Withdrawn \cup {u} /\ u \notin landed
      BY <1>5, <2>2 DEF Effect, S3Abort, TypeOK, Withdrawn
    <3> QED
      BY <2>1, <3>1 DEF AbstractMove, Abstract!Withdraw, Current, Withdrawn
  <2>3. CASE mpu[u] # "open"
    <3>1. Withdrawn' = Withdrawn
      BY <1>5, <2>3 DEF Effect, S3Abort, Withdrawn
    <3> QED
      BY <2>1, <3>1 DEF AbstractMove
  <2> QED
    BY <2>2, <2>3
<1> QED
  BY <1>2, <1>3, <1>4, <1>5 DEF Effect

\* A step of S3 under Control: its effect is one the abstract upload allows.
LEMMA EffectAllowed ==
    ASSUME TypeOK, Control, NEW u \in Uploads, NEW call,
           (pc[u] = call /\ u \notin applied) \/ \E c \in late : c.call = call /\ c.u = u
    PROVE  /\ call = "putting" => reply[u] # "ok" \/ u \in Again
           /\ call = "putting" => mpu[u] # "aborted"
           /\ mpu[u] = "open" => u \notin landed /\ reply[u] # "ok"
<1>1. ControlOf(u)
  BY DEF Control
<1>2. mpu[u] = "open" => u \notin landed /\ reply[u] # "ok"
  BY <1>1 DEF ControlOf
<1>3. CASE pc[u] = call /\ u \notin applied
  BY <1>1, <1>2, <1>3 DEF ControlOf
<1>4. CASE \E c \in late : c.call = call /\ c.u = u
  <2>1. PICK c \in late : c.call = call /\ c.u = u
    BY <1>4
  <2>2. LateOf(c)
    BY DEF Control
  <2> QED
    BY <1>1, <1>2, <2>1, <2>2 DEF ControlOf, LateOf, Again
<1> QED
  BY <1>3, <1>4

\* Every other step answers one caller or none, and leaves the rest alone.
LEMMA OtherMaps ==
    ASSUME TypeOK, Control, [Next]_vars, ~S3Late, ~ \E u \in Uploads : S3Apply(u)
    PROVE  AbstractMove
<1>1. Current' = Current /\ landed' = landed
  BY BucketUnmoved DEF Current
<1>2. ASSUME NEW u \in Uploads, Coroutine(u)
      PROVE  /\ mpu' = mpu
             /\ \/ reply' = reply
                \/ reply[u] = "none" /\ reply' = [reply EXCEPT ![u] = "error"]
                \/ /\ reply[u] = "none" /\ u \in landed
                   /\ reply' = [reply EXCEPT ![u] = "ok"]
  <2>1. ControlOf(u)
    BY DEF Control
  <2>2. CASE \/ Start(u) \/ Created(u) \/ ReadChunk(u) \/ ReadEnd(u) \/ ReadSmall(u)
             \/ CollectReading(u) \/ CollectDraining(u) \/ CollectRaises(u) \/ Unwound(u)
    BY <2>2
    DEF Start, Created, ReadChunk, ReadEnd, ReadSmall, CollectReading, CollectDraining,
        CollectRaises, Unwound, s3
  <2>3. CASE CreateFails(u) \/ ReadFails(u) \/ WriteFails(u) \/ PresignFails(u)
             \/ Aborted(u) \/ AbortFails(u)
    BY <2>1, <2>3
    DEF ControlOf, CreateFails, ReadFails, WriteFails, PresignFails, Aborted, AbortFails,
        Fail, s3
  <2>4. CASE Written(u) \/ Presigned(u)
    BY <2>1, <2>4 DEF ControlOf, Written, Presigned, Answered, Succeed, s3
  <2> QED
    BY <1>2, <2>2, <2>3, <2>4 DEF Coroutine
<1>3. CASE \E u \in Uploads : Coroutine(u)
  <2>1. PICK u \in Uploads : Coroutine(u)
    BY <1>3
  <2>2. Withdrawn' = Withdrawn
    BY <1>2, <2>1 DEF Withdrawn
  <2> QED
    BY <1>1, <1>2, <2>1, <2>2
    DEF AbstractMove, Abstract!Acknowledge, Abstract!Refuse, Current, Withdrawn
<1>4. CASE ~ \E u \in Uploads : Coroutine(u)
  <2>1. mpu' = mpu /\ reply' = reply
    BY <1>4
    DEF Next, UploadStep, PartTask, S3StorePart, PartReturns, PartRaises, PartCancelled,
        Retry, cancel_upload, ProcessExit, NothingToDo, vars, s3
  <2> QED
    BY <1>1, <2>1 DEF AbstractMove, Withdrawn
<1> QED
  BY <1>3, <1>4

\* To its callers an upload is atomic, for any number of uploads of any size:
\* ObjectUpload implements AtomicUpload.
THEOREM UploadsAreAtomic == Spec => ImplementsAtomicUpload
<1>1. Init => Abstract!Init
  BY UploadAssumption DEF Init, Abstract!Init
<1>2. IInv /\ [Next]_vars => [Abstract!Next]_(Abstract!vars)
  <2> SUFFICES ASSUME TypeOK, Control, [Next]_vars
               PROVE  AbstractMove
    BY MoveIsStep DEF IInv
  <2>1. CASE \E u \in Uploads : S3Apply(u)
    <3>1. PICK u \in Uploads : S3Apply(u)
      BY <2>1
    <3>2. Effect(pc[u], u) /\ pc[u] \in Calling /\ u \notin applied /\ reply' = reply
      BY <3>1 DEF S3Apply
    <3> QED
      BY <3>2, EffectAllowed, EffectMaps
  <2>2. CASE S3Late
    <3>1. PICK c \in late : Effect(c.call, c.u) /\ reply' = reply
      BY <2>2 DEF S3Late
    <3>2. c.u \in Uploads
      BY DEF TypeOK
    <3> QED
      BY <3>1, <3>2, EffectAllowed, EffectMaps
  <2>3. CASE ~S3Late /\ ~ \E u \in Uploads : S3Apply(u)
    BY <2>3, OtherMaps
  <2> QED
    BY <2>1, <2>2, <2>3
<1> QED
  BY <1>1, <1>2, Inductive, PTL DEF Spec, ImplementsAtomicUpload, Abstract!Spec
=============================================================================
