-------------------------- MODULE FolderOps_proofs --------------------------
(***************************************************************************)
(* Proofs about FolderOps for every bucket and every set of requests.      *)
(***************************************************************************)
EXTENDS FolderOps, SequenceTheorems, FiniteSetTheorems, TLAPS

-----------------------------------------------------------------------------
(* The inductive invariant.                                                *)

\* The keys that a request works on are those it listed or names.
Planned(r, k) == Source(job[r], k)

\* How far the request has come says which sets are filled and with what.
ProgressOf(r) ==
    /\ pc[r] \in {"idle", "listing"} => todo[r] = {} /\ removed[r] = {}
    /\ pc[r] \in {"listing", "copying"} => removed[r] = {} \/ job[r].op \notin Rename
    /\ pc[r] = "listing" => job[r].op \in FolderOp
    /\ pc[r] = "putting" => job[r].op = "put"
    /\ \A k \in plan[r] \cup todo[r] \cup left[r] : Planned(r, k)
    /\ todo[r] # {} => job[r].op \in Rename \cup {"copy_folder", "copy_file"}
    /\ left[r] # {} => job[r].op \in Rename \cup {"delete_folder", "delete_file"}
    /\ pc[r] = "copying" => plan[r] \ todo[r] \subseteq copied[r]
    /\ pc[r] = "deleting" /\ job[r].op \in Rename => plan[r] \subseteq copied[r]
    /\ pc[r] # "deleting" /\ job[r].op \in Rename /\ removed[r] # {} =>
          pc[r] \in Final /\ plan[r] \subseteq copied[r]

Progress == \A r \in Requests : ProgressOf(r)

IInv == TypeOK /\ Progress

-----------------------------------------------------------------------------
LEMMA InitIInv == Init => IInv
  BY FolderAssumption
  DEF Init, IInv, TypeOK, Progress, ProgressOf, Active, Final, Planned, Source, Rename, FolderOp

\* Next, one action at a time.
LEMMA NextCases ==
    ASSUME Next
    PROVE  \/ \E r \in Requests :
                \/ Start(r) \/ ListPage(r) \/ ListFails(r)
                \/ \E k \in todo[r] : Copied(r, k) \/ CopyFails(r, k)
                \/ CopiesDone(r) \/ DeleteBatch(r) \/ DeleteFails(r) \/ DeletesDone(r)
                \/ Put(r) \/ PutFails(r) \/ TimesOut(r)
           \/ ProcessExit \/ UNCHANGED vars
  BY DEF Next, RequestStep, AllServed

\* The bucket holds contents, whatever is copied or deleted.
LEMMA BucketTypes ==
    ASSUME TypeOK, NEW r \in Requests
    PROVE  /\ \A k \in Keys : Copyable(r, k) /\ CopyObject(r, k) =>
                 bucket' \in [Keys -> Contents \cup {Absent}]
           /\ \A D \in SUBSET Keys : Delete(r, D) =>
                 /\ bucket' \in [Keys -> Contents \cup {Absent}]
                 /\ removed' \in [Requests -> SUBSET Keys]
<1>1. ASSUME NEW k \in Keys, Copyable(r, k), CopyObject(r, k)
      PROVE  bucket' \in [Keys -> Contents \cup {Absent}]
  BY <1>1 DEF TypeOK, CopyObject
<1>2. ASSUME NEW D \in SUBSET Keys, Delete(r, D)
      PROVE  /\ bucket' \in [Keys -> Contents \cup {Absent}]
             /\ removed' \in [Requests -> SUBSET Keys]
  BY <1>2 DEF TypeOK, Delete
<1> QED
  BY <1>1, <1>2

\* Answers and positions of the coroutine.
LEMMA AnswerTypes ==
    ASSUME TypeOK, NEW r \in Requests
    PROVE  /\ \A a \in {"ok", "error", "timeout"} :
                 Answer(r, a) => reply' \in [Requests -> {"none", "ok", "error", "timeout"}]
           /\ \A where \in Active \cup Final :
                 Go(r, where) => pc' \in [Requests -> Active \cup Final \cup {"idle"}]
           /\ Fault => faults' \in 0..MaxFaults
<1>1. \A a \in {"ok", "error", "timeout"} :
         Answer(r, a) => reply' \in [Requests -> {"none", "ok", "error", "timeout"}]
  BY DEF TypeOK, Answer
<1>2. \A where \in Active \cup Final :
         Go(r, where) => pc' \in [Requests -> Active \cup Final \cup {"idle"}]
  BY DEF TypeOK, Go
<1>3. Fault => faults' \in 0..MaxFaults
  BY FolderAssumption DEF TypeOK, Fault
<1> QED
  BY <1>1, <1>2, <1>3

LEMMA NextTypeOK == ASSUME TypeOK, Progress, [Next]_vars PROVE TypeOK'
<1> USE DEF Active, Final
<1>1. ASSUME NEW r \in Requests, Start(r)
      PROVE  TypeOK'
  <2>1. job[r].op \in FileOp => job[r].source \in Keys
    BY FolderAssumption DEF TypeOK
  <2> QED
    BY <1>1, <2>1, AnswerTypes DEF TypeOK, Start, FileOp, work
<1>2. ASSUME NEW r \in Requests, ListPage(r)
      PROVE  TypeOK'
  <2> DEFINE listed == plan[r] \cup FirstOf(PageSize, Unlisted(r))
  <2>1. listed \in SUBSET Keys
    BY DEF TypeOK, FirstOf, Unlisted
  <2>2. plan' = [plan EXCEPT ![r] = listed]
    BY <1>2 DEF ListPage
  <2>3. UNCHANGED <<job, reply, bucket, copied, removed, faults>>
    BY <1>2 DEF ListPage
  <2>4. \/ UNCHANGED <<pc, todo, left>>
        \/ left' = [left EXCEPT ![r] = listed] /\ Go(r, "deleting") /\ UNCHANGED todo
        \/ todo' = [todo EXCEPT ![r] = listed] /\ Go(r, "copying") /\ UNCHANGED left
    BY <1>2 DEF ListPage
  <2> HIDE DEF listed
  <2> QED
    BY <2>1, <2>2, <2>3, <2>4, AnswerTypes DEF TypeOK
<1>3. ASSUME NEW r \in Requests, ListFails(r) \/ DeletesDone(r) \/ TimesOut(r)
      PROVE  TypeOK'
  BY <1>3, AnswerTypes DEF TypeOK, ListFails, DeletesDone, TimesOut, Fail, Succeed, work
<1>4. ASSUME NEW r \in Requests, NEW k \in todo[r], Copied(r, k) \/ CopyFails(r, k)
      PROVE  TypeOK'
  <2>1. k \in Keys
    BY DEF TypeOK
  <2>2. bucket' \in [Keys -> Contents \cup {Absent}]
    BY <1>4, <2>1, BucketTypes DEF TypeOK, Copied, CopyFails
  <2>3. faults' \in 0..MaxFaults
    BY <1>4, AnswerTypes DEF TypeOK, Copied, CopyFails
  <2> QED
    BY <1>4, <2>1, <2>2, <2>3, AnswerTypes DEF TypeOK, Copied, CopyFails, Fail
<1>5. ASSUME NEW r \in Requests, CopiesDone(r)
      PROVE  TypeOK'
  BY <1>5, AnswerTypes DEF TypeOK, CopiesDone, ToDelete, Succeed
<1>6. ASSUME NEW r \in Requests, DeleteBatch(r) \/ DeleteFails(r)
      PROVE  TypeOK'
  <2>1. PICK D \in SUBSET Keys : Delete(r, D)
    BY <1>6 DEF TypeOK, DeleteBatch, DeleteFails, FirstOf
  <2>2. faults' \in 0..MaxFaults
    BY <1>6, AnswerTypes DEF TypeOK, DeleteBatch, DeleteFails
  <2> QED
    BY <1>6, <2>1, <2>2, BucketTypes, AnswerTypes
    DEF TypeOK, DeleteBatch, DeleteFails, Fail, work
<1>7. ASSUME NEW r \in Requests, Put(r) \/ PutFails(r)
      PROVE  TypeOK'
  <2>1. job[r].content \in Contents
    BY <1>7, FolderAssumption DEF TypeOK, Progress, ProgressOf, Put, PutFails
  <2>2. bucket' \in [Keys -> Contents \cup {Absent}]
    BY <1>7, <2>1 DEF TypeOK, Put, PutFails, PutObject
  <2>3. faults' \in 0..MaxFaults
    BY <1>7, AnswerTypes DEF TypeOK, Put, PutFails
  <2> QED
    BY <1>7, <2>2, <2>3, AnswerTypes DEF TypeOK, Put, PutFails, Fail, Succeed, work
<1>8. CASE ProcessExit
  <2>1. faults' \in 0..MaxFaults
    BY <1>8, FolderAssumption DEF TypeOK, ProcessExit, Fault
  <2> QED
    BY <1>8, <2>1 DEF TypeOK, ProcessExit
<1>9. CASE UNCHANGED vars
  BY <1>9 DEF TypeOK, vars, work
<1> QED
  BY <1>1, <1>2, <1>3, <1>4, <1>5, <1>6, <1>7, <1>8, <1>9, NextCases

-----------------------------------------------------------------------------
(* Progress.                                                               *)

\* A step of one request moves no other.
LEMMA OthersUnmoved ==
    ASSUME TypeOK, NEW r \in Requests, RequestStep(r) \/ TimesOut(r),
           NEW s \in Requests \ {r}, ProgressOf(s)
    PROVE  ProgressOf(s)'
<1>1. /\ pc'[s] = pc[s] /\ plan'[s] = plan[s] /\ todo'[s] = todo[s] /\ left'[s] = left[s]
      /\ copied'[s] = copied[s] /\ removed'[s] = removed[s] /\ job' = job
  <2>1. CASE Start(r) \/ ListPage(r) \/ ListFails(r) \/ CopiesDone(r) \/ DeletesDone(r)
             \/ Put(r) \/ PutFails(r) \/ TimesOut(r)
    BY <2>1
    DEF TypeOK, Start, ListPage, ListFails, CopiesDone, DeletesDone, Put, PutFails, TimesOut,
        Go, Succeed, Fail, work
  <2>2. CASE \E k \in todo[r] : Copied(r, k) \/ CopyFails(r, k)
    BY <2>2 DEF TypeOK, Copied, CopyFails, Go, Fail
  <2>3. CASE DeleteBatch(r) \/ DeleteFails(r)
    <3>1. PICK D : Delete(r, D)
      BY <2>3 DEF DeleteBatch, DeleteFails
    <3> QED
      BY <2>3, <3>1 DEF TypeOK, DeleteBatch, DeleteFails, Delete, Go, Fail, work
  <2> QED
    BY <2>1, <2>2, <2>3 DEF RequestStep
<1> QED
  BY <1>1 DEF ProgressOf, Planned

LEMMA StepProgress ==
    ASSUME TypeOK, NEW r \in Requests, ProgressOf(r), RequestStep(r) \/ TimesOut(r)
    PROVE  ProgressOf(r)'
<1> USE DEF Active, Final
<1>1. job' = job /\ job[r].op \in FolderOp \cup FileOp \cup {"put"}
  <2>1. job[r] \in Job
    BY FolderAssumption DEF TypeOK
  <2> QED
    BY <2>1
    DEF Job, RequestStep, Start, ListPage, ListFails, Copied, CopyFails, CopiesDone,
        DeleteBatch, DeleteFails, DeletesDone, Put, PutFails, TimesOut
<1>2. \A k : Planned(r, k)' = Planned(r, k)
  BY <1>1 DEF Planned
<1>3. CASE Start(r)
  BY <1>1, <1>2, <1>3 DEF TypeOK, ProgressOf, Start, Go, work, FolderOp, FileOp, Rename, Planned, Source
<1>4. CASE ListPage(r)
  <2> DEFINE listed == plan[r] \cup FirstOf(PageSize, Unlisted(r))
  <2>1. \A k \in listed : Planned(r, k)
    BY <1>4 DEF ProgressOf, ListPage, FirstOf, Unlisted, Planned, Source
  <2>2. /\ pc[r] = "listing" /\ plan' = [plan EXCEPT ![r] = listed]
        /\ UNCHANGED <<removed, copied>>
        /\ \/ UNCHANGED <<pc, todo, left>>
           \/ /\ left' = [left EXCEPT ![r] = listed] /\ Go(r, "deleting") /\ UNCHANGED todo
              /\ job[r].op = "delete_folder"
           \/ /\ todo' = [todo EXCEPT ![r] = listed] /\ Go(r, "copying") /\ UNCHANGED left
              /\ job[r].op # "delete_folder"
    BY <1>4 DEF ListPage
  <2> HIDE DEF listed
  <2> QED
    BY <1>1, <1>2, <2>1, <2>2 DEF TypeOK, ProgressOf, Go, FolderOp, Rename
<1>5. CASE ListFails(r) \/ DeletesDone(r) \/ TimesOut(r)
  BY <1>1, <1>2, <1>5
  DEF TypeOK, ProgressOf, ListFails, DeletesDone, TimesOut, Go, Fail, Succeed, work
<1>6. ASSUME NEW k \in todo[r], Copied(r, k) \/ CopyFails(r, k)
      PROVE  ProgressOf(r)'
  BY <1>1, <1>2, <1>6 DEF TypeOK, ProgressOf, Copied, CopyFails, Go, Fail
<1>7. CASE CopiesDone(r)
  BY <1>1, <1>2, <1>7
  DEF TypeOK, ProgressOf, CopiesDone, AllCopied, ToDelete, Go, Succeed, Rename
<1>8. CASE DeleteBatch(r) \/ DeleteFails(r)
  <2>1. PICK D : Delete(r, D)
    BY <1>8 DEF DeleteBatch, DeleteFails
  <2> QED
    BY <1>1, <1>2, <1>8, <2>1
    DEF TypeOK, ProgressOf, DeleteBatch, DeleteFails, Delete, Go, Fail, work
<1>9. CASE Put(r) \/ PutFails(r)
  BY <1>1, <1>2, <1>9 DEF TypeOK, ProgressOf, Put, PutFails, Go, Fail, Succeed, work, Rename
<1> QED
  BY <1>3, <1>4, <1>5, <1>6, <1>7, <1>8, <1>9 DEF RequestStep

LEMMA NextProgress == ASSUME TypeOK, Progress, [Next]_vars PROVE Progress'
<1> SUFFICES ASSUME NEW s \in Requests
             PROVE  ProgressOf(s)'
  BY DEF Progress
<1>1. ProgressOf(s)
  BY DEF Progress
<1>2. ASSUME NEW r \in Requests, RequestStep(r) \/ TimesOut(r)
      PROVE  ProgressOf(s)'
  BY <1>1, <1>2, OthersUnmoved, StepProgress
<1>3. CASE ProcessExit
  BY <1>1, <1>3 DEF ProgressOf, ProcessExit, Planned, Active, Final
<1>4. CASE UNCHANGED vars
  BY <1>1, <1>4 DEF ProgressOf, vars, work, Planned
<1> QED
  BY <1>2, <1>3, <1>4 DEF Next, AllServed

\* The types and the progress of every request hold from the start and after
\* every step: of a request, of the timeout middleware and of the process.
THEOREM Inductive == Spec => []IInv
<1>1. IInv /\ [Next]_vars => IInv'
  BY NextTypeOK, NextProgress DEF IInv
<1> QED
  BY <1>1, InitIInv, PTL DEF Spec

\* Every variable keeps its type.
THEOREM FolderTypes == Spec => []TypeOK
<1>1. IInv => TypeOK
  BY DEF IInv
<1> QED
  BY <1>1, Inductive, PTL

\* Whatever fails, in whatever order the copies return and whoever else is at
\* work: a renaming deletes only when every listed object has been copied.
THEOREM DeletesAfterCopies == Spec => []CopiesBeforeDeletes
<1>1. IInv => CopiesBeforeDeletes
  BY DEF IInv, Progress, ProgressOf, CopiesBeforeDeletes, Active, Final
<1> QED
  BY <1>1, Inductive, PTL

-----------------------------------------------------------------------------
(* No step reaches outside the paths of its request.                       *)

LEMMA JobTypes ==
    ASSUME TypeOK, NEW r \in Requests
    PROVE  job[r] \in Job
  BY FolderAssumption DEF TypeOK

\* A key under a path has the components of the path.
LEMMA UnderIn ==
    ASSUME NEW k \in Seq(STRING), NEW path \in Seq(STRING), Under(k, path)
    PROVE  In(k, path)
<1>1. Len(path) \in Nat /\ Len(k) \in Nat /\ Len(k) > Len(path)
  BY DEF Under
<1>2. \A i \in 1..Len(path) : SubSeq(k, 1, Len(path))[i] = k[i]
  BY <1>1
<1> QED
  BY <1>1, <1>2 DEF Under, In

\* What follows a prefix, put after another prefix.
LEMMA Moved ==
    ASSUME NEW k \in Seq(STRING), NEW n \in Nat, n < Len(k), NEW path \in Seq(STRING)
    PROVE  In(path \o SubSeq(k, n + 1, Len(k)), path)
<1> DEFINE tail == SubSeq(k, n + 1, Len(k))
<1>1. Len(k) \in Nat /\ Len(path) \in Nat
  OBVIOUS
<1>2. tail \in Seq(STRING) /\ Len(tail) = Len(k) - n
  BY <1>1, SubSeqProperties
<1> HIDE DEF tail
<1>3. /\ Len(path \o tail) = Len(path) + Len(tail)
      /\ \A i \in 1..Len(path) + Len(tail) :
            (path \o tail)[i] = IF i <= Len(path) THEN path[i] ELSE tail[i - Len(path)]
  <2>1. path \in Seq(STRING) /\ tail \in Seq(STRING)
    BY <1>2
  <2> QED
    BY <2>1, ConcatProperties, Zenon
<1>4. \A i \in 1..Len(path) : (path \o tail)[i] = path[i]
  BY <1>1, <1>2, <1>3
<1>5. In(path \o tail, path)
  BY <1>1, <1>2, <1>3, <1>4 DEF In
<1> QED
  BY <1>5 DEF tail

\* What is copied from under one path comes to lie under the other.
LEMMA DestinationIn ==
    ASSUME NEW k \in Seq(STRING), NEW j \in Job, j.op \in FolderOp, Under(k, j.source)
    PROVE  In(Destination(j, k), j.target)
<1>1. j.source \in Seq(STRING) /\ j.target \in Seq(STRING)
  BY DEF Job
<1>2. Len(j.source) \in Nat /\ Len(j.source) < Len(k)
  BY <1>1 DEF Under
<1>3. Destination(j, k) = j.target \o SubSeq(k, Len(j.source) + 1, Len(k))
  BY DEF Destination
<1> QED
  BY <1>1, <1>2, <1>3, Moved

\* A copy of a planned key writes where its request may write.
LEMMA CopyScope ==
    ASSUME IInv, NEW r \in Requests, NEW k \in todo[r], Copyable(r, k), CopyObject(r, k),
           NEW l \in Keys, bucket'[l] # bucket[l]
    PROVE  pc[r] # "idle" /\ bucket'[l] # Absent /\ MayWrite(job[r], l)
<1>1. k \in Keys /\ k \in Seq(STRING) /\ Planned(r, k)
  BY FolderAssumption DEF IInv, TypeOK, Progress, ProgressOf
<1>2. pc[r] # "idle" /\ job[r].op \in Rename \cup {"copy_folder", "copy_file"}
  BY DEF IInv, Progress, ProgressOf
<1>3. l = Destination(job[r], k) /\ bucket'[l] # Absent
  BY <1>1 DEF IInv, TypeOK, CopyObject, Copyable
<1>4. CASE job[r].op \in FolderOp
  BY <1>1, <1>2, <1>3, <1>4, JobTypes, DestinationIn
  DEF IInv, Planned, Source, MayWrite, FolderOp, Rename
<1>5. CASE job[r].op \notin FolderOp
  BY <1>2, <1>3, <1>5 DEF Destination, MayWrite, FolderOp, Rename
<1> QED
  BY <1>2, <1>3, <1>4, <1>5

\* A deletion of planned keys removes what its request may remove.
LEMMA DeleteScope ==
    ASSUME IInv, NEW r \in Requests, NEW D \in SUBSET left[r], Delete(r, D),
           NEW l \in Keys, bucket'[l] # bucket[l]
    PROVE  bucket'[l] = Absent /\ MayRemove(job[r], l)
<1>1. l \in D /\ bucket'[l] = Absent
  BY DEF Delete
<1>2. l \in Seq(STRING) /\ Planned(r, l)
  BY <1>1, FolderAssumption DEF IInv, Progress, ProgressOf
<1>3. job[r].op \in Rename \cup {"delete_folder", "delete_file"}
  BY <1>1 DEF IInv, Progress, ProgressOf
<1>4. CASE job[r].op \in FolderOp
  <2>1. job[r].source \in Seq(STRING) /\ Under(l, job[r].source)
    BY <1>2, <1>4, JobTypes DEF IInv, Planned, Source, Job
  <2> QED
    BY <1>1, <1>2, <1>3, <1>4, <2>1, UnderIn DEF MayRemove, FolderOp, Rename
<1>5. CASE job[r].op \notin FolderOp
  BY <1>1, <1>2, <1>3, <1>5 DEF Planned, Source, MayRemove, FolderOp, Rename
<1> QED
  BY <1>1, <1>4, <1>5

LEMMA NextInScope ==
    ASSUME IInv, [Next]_vars, NEW l \in Keys, bucket'[l] # bucket[l]
    PROVE  \E r \in Requests :
              /\ pc[r] # "idle"
              /\ IF bucket'[l] = Absent THEN MayRemove(job[r], l) ELSE MayWrite(job[r], l)
<1>1. ASSUME NEW r \in Requests, NEW k \in todo[r], Copied(r, k) \/ CopyFails(r, k)
      PROVE  pc[r] # "idle" /\ bucket'[l] # Absent /\ MayWrite(job[r], l)
  <2>1. Copyable(r, k) /\ CopyObject(r, k)
    BY <1>1 DEF Copied, CopyFails
  <2> QED
    BY <2>1, CopyScope
<1>2. ASSUME NEW r \in Requests, DeleteBatch(r) \/ DeleteFails(r)
      PROVE  pc[r] # "idle" /\ bucket'[l] = Absent /\ MayRemove(job[r], l)
  <2>1. PICK D \in SUBSET left[r] : Delete(r, D)
    BY <1>2 DEF DeleteBatch, DeleteFails, FirstOf
  <2>2. pc[r] = "deleting"
    BY <1>2 DEF DeleteBatch, DeleteFails
  <2> QED
    BY <2>1, <2>2, DeleteScope
<1>3. ASSUME NEW r \in Requests, Put(r) \/ PutFails(r)
      PROVE  pc[r] # "idle" /\ bucket'[l] # Absent /\ MayWrite(job[r], l)
  <2>1. pc[r] = "putting" /\ PutObject(r)
    BY <1>3 DEF Put, PutFails
  <2>2. job[r].op = "put" /\ job[r].content \in Contents
    BY <2>1, FolderAssumption DEF IInv, TypeOK, Progress, ProgressOf
  <2>3. l = job[r].target /\ bucket'[l] = job[r].content
    BY <2>1 DEF IInv, TypeOK, PutObject
  <2> QED
    BY <2>1, <2>2, <2>3, FolderAssumption DEF MayWrite
<1>4. ASSUME NEW r \in Requests, \/ Start(r) \/ ListPage(r) \/ ListFails(r) \/ CopiesDone(r)
                                \/ DeletesDone(r) \/ TimesOut(r)
      PROVE  FALSE
  BY <1>4 DEF Start, ListPage, ListFails, CopiesDone, DeletesDone, TimesOut
<1>5. CASE ProcessExit \/ UNCHANGED vars
  BY <1>5 DEF ProcessExit, vars
<1> QED
  BY <1>1, <1>2, <1>3, <1>4, <1>5, NextCases

\* Whatever the paths, contents, page and batch sizes, faults and interleavings:
\* an object changes only by a request that names the folder or key it is in.
THEOREM KeepsToItsPaths == Spec => StaysInScope
<1>1. IInv /\ [Next]_vars =>
        [\A k \in Keys : bucket'[k] # bucket[k] =>
            \E r \in Requests :
               /\ pc[r] # "idle"
               /\ IF bucket'[k] = Absent THEN MayRemove(job[r], k)
                                         ELSE MayWrite(job[r], k)]_vars
  BY NextInScope
<1> QED
  BY <1>1, Inductive, PTL DEF Spec, StaysInScope
-----------------------------------------------------------------------------
(* Nothing is overlooked.                                                  *)

\* What was in the folder when request r began is listed, or somebody else has
\* removed it, or it is still there, behind what is listed so far.
NotedBy(r, k) ==
    \/ k \in plan[r]
    \/ \E s \in Requests \ {r} : k \in removed[s]
    \/ /\ pc[r] \in {"idle", "listing"} /\ bucket[k] # Absent
       /\ \A l \in plan[r] : Position[l] < Position[k]

Noted(r) ==
    /\ reply[r] = "ok" => pc[r] = "done"
    /\ job[r].op \in FolderOp /\ pc[r] \notin {"failed", "killed"} =>
          \A k \in Keys : Initial[k] # Absent /\ Under(k, job[r].source) => NotedBy(r, k)
    /\ pc[r] \in {"idle", "listing"} => reply[r] \in {"none", "timeout"}

\* A page holds what comes first, and everything when it is not full.
LEMMA Pages ==
    ASSUME NEW S \in SUBSET Keys, NEW n \in Nat \ {0}, NEW k \in S, k \notin FirstOf(n, S)
    PROVE  /\ \A l \in FirstOf(n, S) : Position[l] < Position[k]
           /\ ~(Cardinality(S) <= n)
<1> DEFINE before(l) == {j \in S : Position[j] < Position[l]}
<1>1. /\ IsFiniteSet(S) /\ Position \in [Keys -> Nat]
      /\ \A i, j \in Keys : Position[i] = Position[j] => i = j
  BY FS_Subset, FolderAssumption
<1>2. \A l \in S : IsFiniteSet(before(l)) /\ Cardinality(before(l)) \in Nat
  BY <1>1, FS_Subset, FS_CardinalityType
<1>3. ~(Cardinality(before(k)) < n)
  BY DEF FirstOf
<1>4. ASSUME NEW l \in FirstOf(n, S) PROVE Position[l] < Position[k]
  <2>1. l \in S /\ Cardinality(before(l)) < n
    BY DEF FirstOf
  <2>2. l # k /\ Position[l] \in Nat /\ Position[k] \in Nat
    BY <1>1, <1>3, <2>1
  <2>3. SUFFICES ASSUME Position[k] < Position[l] PROVE FALSE
    BY <1>1, <2>1, <2>2
  <2>4. before(k) \subseteq before(l)
    <3>1. \A j \in S : Position[j] \in Nat
      BY <1>1
    <3> QED
      BY <2>2, <2>3, <3>1
  <2>5. Cardinality(before(k)) <= Cardinality(before(l))
    BY <1>2, <2>1, <2>4, FS_Subset
  <2> HIDE DEF before
  <2> QED
    BY <1>2, <1>3, <2>1, <2>5
<1>6. Cardinality(S) \in Nat
  BY <1>1, FS_CardinalityType
<1>5. Cardinality(before(k)) < Cardinality(S)
  <2>1. before(k) \subseteq S /\ before(k) # S
    <3>1. k \notin before(k)
      BY <1>1
    <3> QED
      BY <3>1
  <2>2. Cardinality(before(k)) <= Cardinality(S) /\ Cardinality(before(k)) # Cardinality(S)
    BY <1>1, <2>1, FS_Subset
  <2> HIDE DEF before
  <2> QED
    BY <1>2, <1>6, <2>2
<1> HIDE DEF before
<1> QED
  BY <1>2, <1>3, <1>4, <1>5, <1>6

\* What the other requests do: nothing to this one, and whatever they take from
\* the bucket is recorded.
LEMMA OthersRecord ==
    ASSUME TypeOK, Progress, NEW r \in Requests, RequestStep(r) \/ TimesOut(r)
    PROVE  /\ job' = job
           /\ \A s \in Requests \ {r} :
                 /\ pc'[s] = pc[s] /\ plan'[s] = plan[s] /\ reply'[s] = reply[s]
                 /\ removed'[s] = removed[s]
           /\ \A s \in Requests : removed[s] \subseteq removed'[s]
           /\ \A k \in Keys : bucket[k] # Absent /\ bucket'[k] = Absent => k \in removed'[r]
<1>1. CASE Start(r) \/ ListPage(r) \/ ListFails(r) \/ CopiesDone(r) \/ DeletesDone(r)
           \/ TimesOut(r)
  BY <1>1
  DEF TypeOK, Start, ListPage, ListFails, CopiesDone, DeletesDone, TimesOut,
      Go, Succeed, Fail, Answer, work
<1>2. ASSUME NEW k \in todo[r], Copied(r, k) \/ CopyFails(r, k)
      PROVE  /\ job' = job /\ removed' = removed
             /\ \A s \in Requests \ {r} :
                   pc'[s] = pc[s] /\ plan'[s] = plan[s] /\ reply'[s] = reply[s]
             /\ \A l \in Keys : bucket[l] # Absent => bucket'[l] # Absent
  BY <1>2 DEF TypeOK, Copied, CopyFails, CopyObject, Copyable, Go, Fail, Answer
<1>3. CASE DeleteBatch(r) \/ DeleteFails(r)
  <2>1. PICK D : Delete(r, D)
    BY <1>3 DEF DeleteBatch, DeleteFails
  <2> QED
    BY <1>3, <2>1 DEF TypeOK, DeleteBatch, DeleteFails, Delete, Go, Fail, Answer, work
<1>4. CASE Put(r) \/ PutFails(r)
  <2>1. job[r].content # Absent
    BY <1>4, FolderAssumption DEF TypeOK, Progress, ProgressOf, Put, PutFails
  <2> QED
    BY <1>4, <2>1 DEF TypeOK, Put, PutFails, PutObject, Go, Fail, Succeed, Answer, work
<1> QED
  BY <1>1, <1>2, <1>3, <1>4 DEF RequestStep

LEMMA OthersNoted ==
    ASSUME TypeOK, Progress, NEW r \in Requests, RequestStep(r) \/ TimesOut(r),
           NEW s \in Requests \ {r}, Noted(s)
    PROVE  Noted(s)'
  BY OthersRecord DEF Noted, NotedBy

\* A listing that goes on, or ends, with the next page.
LEMMA PageNoted ==
    ASSUME TypeOK, NEW r \in Requests, Noted(r), ListPage(r)
    PROVE  Noted(r)'
<1> DEFINE first == FirstOf(PageSize, Unlisted(r))
<1>1. /\ pc[r] = "listing" /\ plan'[r] = plan[r] \cup first
      /\ UNCHANGED <<job, reply, bucket, removed>>
      /\ pc'[r] = "listing" \/ (LastPage(r) /\ pc'[r] \in {"copying", "deleting"})
  BY DEF TypeOK, ListPage, Go
<1>2. ASSUME NEW k \in Keys, job[r].op \in FolderOp, Initial[k] # Absent,
             Under(k, job[r].source)
      PROVE  NotedBy(r, k)'
  <2>1. NotedBy(r, k)
    BY <1>1, <1>2 DEF Noted
  <2>2. CASE k \in plan[r] \/ \E s \in Requests \ {r} : k \in removed[s]
    BY <1>1, <2>2 DEF NotedBy
  <2>3. CASE bucket[k] # Absent /\ \A l \in plan[r] : Position[l] < Position[k]
    <3>1. k \in Unlisted(r) /\ Unlisted(r) \in SUBSET Keys
      BY <1>2, <2>3 DEF Unlisted
    <3>2. CASE k \in first
      BY <1>1, <3>2 DEF NotedBy
    <3>3. CASE k \notin first
      <4>1. /\ \A l \in first : Position[l] < Position[k]
            /\ ~LastPage(r)
        BY <3>1, <3>3, Pages, FolderAssumption DEF LastPage
      <4> HIDE DEF first
      <4> QED
        BY <1>1, <2>3, <4>1 DEF NotedBy
    <3> QED
      BY <3>2, <3>3
  <2> QED
    BY <2>1, <2>2, <2>3 DEF NotedBy
<1> HIDE DEF first
<1> QED
  BY <1>1, <1>2 DEF Noted

LEMMA StepNoted ==
    ASSUME TypeOK, Progress, NEW r \in Requests, RequestStep(r) \/ TimesOut(r), Noted(r)
    PROVE  Noted(r)'
<1> USE DEF Active, Final
<1>0. /\ \A s \in Requests : removed[s] \subseteq removed'[s]
      /\ \A s \in Requests \ {r} : removed'[s] = removed[s]
      /\ job' = job /\ \A k \in Keys : bucket[k] # Absent /\ bucket'[k] = Absent => k \in removed'[r]
  BY OthersRecord
<1>1. CASE Start(r)
  BY <1>1 DEF TypeOK, Progress, ProgressOf, Noted, NotedBy, Start, Go, work, FolderOp
<1>2. CASE ListPage(r)
  BY <1>2, PageNoted
<1>3. CASE ListFails(r) \/ DeleteFails(r) \/ PutFails(r)
  <2>1. pc'[r] = "failed" /\ reply'[r] # "ok"
    BY <1>3 DEF TypeOK, Noted, ListFails, DeleteFails, PutFails, Fail, Go, Answer
  <2> QED
    BY <2>1 DEF Noted
<1>4. ASSUME NEW k \in todo[r], Copied(r, k) \/ CopyFails(r, k)
      PROVE  Noted(r)'
  <2>1. pc[r] \notin {"idle", "listing"}
    BY DEF Progress, ProgressOf
  <2>2. /\ plan' = plan /\ removed' = removed
        /\ (pc' = pc /\ reply' = reply) \/ (pc'[r] = "failed" /\ reply'[r] # "ok")
    BY <1>4 DEF TypeOK, Noted, Copied, CopyFails, Fail, Go, Answer
  <2> QED
    BY <1>0, <2>1, <2>2 DEF Noted, NotedBy
<1>5. CASE CopiesDone(r) \/ DeletesDone(r)
  BY <1>5 DEF TypeOK, Noted, NotedBy, CopiesDone, DeletesDone, Succeed, Go, Answer, work
<1>6. CASE DeleteBatch(r)
  <2>1. pc[r] = "deleting" /\ UNCHANGED <<pc, plan, reply>>
    BY <1>6 DEF DeleteBatch
  <2> QED
    BY <1>0, <2>1 DEF Noted, NotedBy
<1>7. CASE Put(r)
  BY <1>7 DEF TypeOK, Progress, ProgressOf, Noted, NotedBy, Put, Succeed, Go, Answer, work, FolderOp
<1>8. CASE TimesOut(r)
  BY <1>8 DEF TypeOK, Noted, NotedBy, TimesOut, Answer, work
<1> QED
  BY <1>1, <1>2, <1>3, <1>4, <1>5, <1>6, <1>7, <1>8 DEF RequestStep

LEMMA InitNoted == Init => \A r \in Requests : Noted(r)
  BY DEF Init, Noted, NotedBy

LEMMA NextNoted ==
    ASSUME IInv, [Next]_vars, NEW s \in Requests, Noted(s)
    PROVE  Noted(s)'
<1>1. ASSUME NEW r \in Requests, RequestStep(r) \/ TimesOut(r)
      PROVE  Noted(s)'
  BY <1>1, OthersNoted, StepNoted DEF IInv
<1>2. CASE ProcessExit
  BY <1>2 DEF IInv, TypeOK, Noted, NotedBy, ProcessExit, Active, Final
<1>3. CASE UNCHANGED vars
  BY <1>3 DEF Noted, NotedBy, vars, work
<1> QED
  BY <1>1, <1>2, <1>3 DEF Next, AllServed

\* However many pages the listing takes, whatever the others write, copy and
\* delete between two pages: a folder operation that succeeds has listed every
\* object of the folder that was there when it began, or another has removed it.
THEOREM ListsEverything == Spec => []NothingOverlooked
<1> DEFINE AllNoted == \A r \in Requests : Noted(r)
<1>1. Init => AllNoted
  BY InitNoted
<1>2. IInv /\ AllNoted /\ [Next]_vars => AllNoted'
  BY NextNoted
<1>3. AllNoted => NothingOverlooked
  BY DEF Noted, NotedBy, NothingOverlooked
<1> HIDE DEF AllNoted
<1> QED
  BY <1>1, <1>2, <1>3, Inductive, PTL DEF Spec
-----------------------------------------------------------------------------
(* Nothing is lost.                                                        *)

CopyOp == Rename \cup {"copy_folder", "copy_file"}

\* What was in the bucket, and nobody uploads to.
Original(k) ==
    Initial[k] # Absent /\ \A r \in Requests : ~(job[r].op = "put" /\ job[r].target = k)

\* It stays, or a renaming has copied it first, to where it stays.
KeptOrMoved(k) ==
    /\ bucket[k] \in {Initial[k], Absent}
    /\ \A r \in Requests : job[r].op \in Rename /\ k \in copied[r] =>
          bucket[Destination(job[r], k)] = Initial[k]
    /\ bucket[k] = Absent => \E r \in Requests : job[r].op \in Rename /\ k \in copied[r]

Untouched(r) == \A s \in Requests : job[s].op \in Rename => job[r].target \notin plan[s]

\* A renaming deletes what it has listed.
ListedOf(r) ==
    /\ job[r].op \in Rename => left[r] \subseteq plan[r]
    /\ pc[r] \in {"listing", "copying", "deleting"} => job[r].op # "put"
    /\ pc[r] = "idle" => plan[r] = {} /\ left[r] = {}

Listed == \A r \in Requests : ListedOf(r)

Kept(F) ==
    /\ \A k \in Keys : bucket[k] # Absent => k \in F
    /\ \A r \in Requests : \A k \in copied[r] : k \in F /\ job[r].op \in CopyOp /\ Planned(r, k)
    /\ \A k \in Keys : Original(k) => KeptOrMoved(k)
    /\ \A r \in Requests : job[r].op = "put" /\ reply[r] = "ok" /\ Untouched(r) =>
          bucket[job[r].target] = job[r].content

\* What SpreadsIn says of one copy.
LEMMA Spread ==
    ASSUME NEW F \in SUBSET Keys, SpreadsIn(job, F), NEW r \in Requests, NEW k \in F,
           job[r].op \in CopyOp, Planned(r, k)
    PROVE  /\ Destination(job[r], k) \in F /\ Initial[Destination(job[r], k)] = Absent
           /\ \A s \in Requests : job[s].op = "put" => job[s].target # Destination(job[r], k)
           /\ Initial[k] # Absent => \A s \in Requests :
                 /\ job[s].op \in Rename => ~Planned(s, Destination(job[r], k))
                 /\ \A l \in F : /\ job[s].op \in CopyOp /\ Planned(s, l)
                                 /\ Destination(job[s], l) = Destination(job[r], k)
                                 => l = k
  BY DEF SpreadsIn, CopyOp, Planned

LEMMA NextListed == ASSUME TypeOK, Progress, Listed, [Next]_vars PROVE Listed'
<1> SUFFICES ASSUME NEW s \in Requests
             PROVE  ListedOf(s)'
  BY DEF Listed
<1> USE DEF Listed, ListedOf
<1>1. ASSUME NEW r \in Requests, Start(r) \/ ListPage(r)
      PROVE  ListedOf(s)'
  <2>1. CASE Start(r)
    BY <2>1 DEF TypeOK, Start, Go, work, FolderOp, Rename, Progress, ProgressOf
  <2>2. CASE ListPage(r)
    BY <2>2 DEF TypeOK, ListPage, Go, FolderOp, Rename, Progress, ProgressOf
  <2> QED
    BY <1>1, <2>1, <2>2
<1>2. ASSUME NEW r \in Requests, CopiesDone(r)
      PROVE  ListedOf(s)'
  BY <1>2 DEF TypeOK, CopiesDone, ToDelete, Go, Succeed
<1>3. ASSUME NEW r \in Requests, NEW k \in todo[r], Copied(r, k) \/ CopyFails(r, k)
      PROVE  ListedOf(s)'
  BY <1>3 DEF TypeOK, Copied, CopyFails, Fail, Go
<1>4. ASSUME NEW r \in Requests,
             \/ ListFails(r) \/ DeleteBatch(r) \/ DeleteFails(r) \/ DeletesDone(r)
             \/ Put(r) \/ PutFails(r) \/ TimesOut(r)
      PROVE  ListedOf(s)'
  BY <1>4
  DEF TypeOK, ListFails, DeleteBatch, DeleteFails, DeletesDone, Put, PutFails, TimesOut,
      Fail, Succeed, Go, work
<1>5. CASE ProcessExit \/ UNCHANGED vars
  BY <1>5 DEF TypeOK, ProcessExit, vars, work
<1> QED
  BY <1>1, <1>2, <1>3, <1>4, <1>5, NextCases

\* A copy: of an object of the bucket, its content is where it has been moved to.
LEMMA CopyKeeps ==
    ASSUME IInv, Listed, NEW F \in SUBSET Keys, SpreadsIn(job, F), Kept(F),
           NEW r \in Requests, NEW k \in todo[r], Copyable(r, k), CopyObject(r, k),
           UNCHANGED <<job, plan>>,
           copied' \in {copied, [copied EXCEPT ![r] = copied[r] \cup {k}]},
           \A s \in Requests : reply'[s] = reply[s] \/ reply'[s] # "ok"
    PROVE  Kept(F)'
<1> DEFINE d == Destination(job[r], k)
<1>1. /\ k \in F /\ job[r].op \in CopyOp /\ Planned(r, k)
      /\ bucket \in [Keys -> Contents \cup {Absent}]
  BY DEF IInv, TypeOK, Progress, ProgressOf, Copyable, Kept, CopyOp
<1>2. /\ d \in F /\ Initial[d] = Absent
      /\ \A s \in Requests : job[s].op = "put" => job[s].target # d
  BY <1>1, Spread
<1>3. \A l \in Keys : bucket'[l] = IF l = d THEN bucket[k] ELSE bucket[l]
  BY <1>1, <1>2 DEF CopyObject
<1>4. \A s \in Requests : /\ copied[s] \subseteq copied'[s]
                          /\ \A l \in copied'[s] : l \in copied[s] \/ (s = r /\ l = k)
  BY <1>1 DEF IInv, TypeOK
<1>5. \A s \in Requests, l \in Keys : Planned(s, l)' = Planned(s, l)
  BY DEF Planned
<1>6. \A l \in Keys : bucket'[l] # Absent => l \in F
  BY <1>1, <1>2, <1>3 DEF Kept
<1>7. \A s \in Requests : \A l \in copied'[s] :
         l \in F /\ job'[s].op \in CopyOp /\ Planned(s, l)'
  BY <1>1, <1>4, <1>5 DEF Kept
<1>8. ASSUME NEW l \in Keys, Original(l)
      PROVE  KeptOrMoved(l)'
  <2>1. KeptOrMoved(l) /\ l # d /\ bucket'[l] = bucket[l]
    BY <1>2, <1>3, <1>8 DEF Kept, Original
  <2>2. ASSUME NEW s \in Requests, job[s].op \in Rename, l \in copied'[s]
        PROVE  bucket'[Destination(job[s], l)] = Initial[l]
    <3>1. l \in F /\ job[s].op \in CopyOp /\ Planned(s, l) /\ Initial[l] # Absent
      BY <1>5, <1>7, <1>8, <2>2 DEF Original
    <3>2. Destination(job[s], l) \in F
      BY <3>1, Spread
    <3>3. CASE Destination(job[s], l) = d
      <4>1. k = l
        BY <1>1, <3>1, <3>3, Spread
      <4>2. bucket[k] = Initial[l]
        BY <2>1, <4>1 DEF KeptOrMoved, Copyable
      <4> QED
        BY <1>3, <3>2, <3>3, <4>2
    <3>4. CASE Destination(job[s], l) # d
      <4>1. l \in copied[s]
        BY <1>4, <2>2, <3>4
      <4> QED
        BY <1>3, <2>1, <2>2, <3>2, <3>4, <4>1 DEF KeptOrMoved
    <3> QED
      BY <3>3, <3>4
  <2> QED
    BY <1>4, <2>1, <2>2 DEF KeptOrMoved
<1>9. ASSUME NEW s \in Requests, job[s].op = "put", reply'[s] = "ok", Untouched(s)'
      PROVE  bucket'[job[s].target] = job[s].content
  <2>1. bucket[job[s].target] = job[s].content
    BY <1>9 DEF Kept, Untouched
  <2>2. job[s].target \in Keys
    BY <1>9 DEF SpreadsIn
  <2> QED
    BY <1>2, <1>3, <1>9, <2>1, <2>2
<1>10. \A l \in Keys : Original(l)' = Original(l)
  BY DEF Original
<1> HIDE DEF d
<1> QED
  BY <1>6, <1>7, <1>8, <1>9, <1>10 DEF Kept

\* A deletion: only of what a renaming has copied.
LEMMA DeleteKeeps ==
    ASSUME IInv, Listed, NEW F \in SUBSET Keys, SpreadsIn(job, F), Kept(F), NoDeletes(job),
           NEW r \in Requests, pc[r] = "deleting", NEW D \in SUBSET left[r], Delete(r, D),
           UNCHANGED <<job, plan, copied>>,
           \A s \in Requests : reply'[s] = reply[s] \/ reply'[s] # "ok"
    PROVE  Kept(F)'
<1>1. ASSUME NEW l \in D
      PROVE  job[r].op \in Rename /\ l \in plan[r] /\ l \in copied[r] /\ Planned(r, l)
  BY DEF IInv, Progress, ProgressOf, Listed, ListedOf, NoDeletes, Rename
<1>2. \A l \in Keys : bucket'[l] = IF l \in D THEN Absent ELSE bucket[l]
  BY DEF Delete
<1>3. \A s \in Requests, l \in Keys : Planned(s, l)' = Planned(s, l)
  BY DEF Planned
<1>4. \A s \in Requests : \A l \in copied[s] : l \in Keys
  BY DEF IInv, TypeOK
<1>5. ASSUME NEW l \in Keys, Original(l)
      PROVE  KeptOrMoved(l)'
  <2>1. KeptOrMoved(l)
    BY <1>5 DEF Kept
  <2>2. ASSUME NEW s \in Requests, job[s].op \in Rename, l \in copied[s]
        PROVE  bucket'[Destination(job[s], l)] = Initial[l]
    <3>1. l \in F /\ job[s].op \in CopyOp /\ Planned(s, l) /\ Initial[l] # Absent
      BY <1>5, <2>2 DEF Kept, Original
    <3>2. Destination(job[s], l) \in F /\ Destination(job[s], l) \notin D
      BY <1>1, <3>1, Spread
    <3> QED
      BY <1>2, <2>1, <2>2, <3>2 DEF KeptOrMoved
  <2> QED
    BY <1>1, <1>2, <2>1, <2>2 DEF KeptOrMoved
<1>6. ASSUME NEW s \in Requests, job[s].op = "put", reply'[s] = "ok", Untouched(s)'
      PROVE  bucket'[job[s].target] = job[s].content
  <2>1. bucket[job[s].target] = job[s].content /\ job[s].target \notin D
    BY <1>1, <1>6 DEF Kept, Untouched
  <2>2. job[s].target \in Keys
    BY <1>6 DEF SpreadsIn
  <2> QED
    BY <1>2, <2>1, <2>2
<1>7. \A l \in Keys : Original(l)' = Original(l)
  BY DEF Original
<1>8. \A l \in Keys : bucket'[l] # Absent => l \in F
  BY <1>2 DEF Kept
<1>9. \A s \in Requests : \A l \in copied'[s] :
         l \in F /\ job'[s].op \in CopyOp /\ Planned(s, l)'
  BY <1>3, <1>4 DEF Kept
<1> QED
  BY <1>5, <1>6, <1>7, <1>8, <1>9 DEF Kept

\* An upload: to no key where anything has been moved to.
LEMMA PutKeeps ==
    ASSUME IInv, NEW F \in SUBSET Keys, SpreadsIn(job, F), Kept(F),
           NEW r \in Requests, job[r].op = "put", PutObject(r),
           UNCHANGED <<job, plan, copied>>,
           \A s \in Requests \ {r} : reply'[s] = reply[s]
    PROVE  Kept(F)'
<1>1. job[r].target \in F /\ bucket \in [Keys -> Contents \cup {Absent}]
  BY DEF SpreadsIn, IInv, TypeOK
<1>2. \A l \in Keys : bucket'[l] = IF l = job[r].target THEN job[r].content ELSE bucket[l]
  BY <1>1 DEF PutObject
<1>3. \A s \in Requests, l \in Keys : Planned(s, l)' = Planned(s, l)
  BY DEF Planned
<1>4. \A s \in Requests : \A l \in copied[s] : l \in Keys
  BY DEF IInv, TypeOK
<1>5. ASSUME NEW l \in Keys, Original(l)
      PROVE  KeptOrMoved(l)'
  <2>1. KeptOrMoved(l) /\ l # job[r].target
    BY <1>5 DEF Kept, Original
  <2>2. ASSUME NEW s \in Requests, job[s].op \in Rename, l \in copied[s]
        PROVE  bucket'[Destination(job[s], l)] = Initial[l]
    <3>1. l \in F /\ job[s].op \in CopyOp /\ Planned(s, l)
      BY <2>2 DEF Kept
    <3>2. Destination(job[s], l) \in F /\ Destination(job[s], l) # job[r].target
      BY <3>1, Spread
    <3> QED
      BY <1>2, <2>1, <2>2, <3>2 DEF KeptOrMoved
  <2> QED
    BY <1>2, <2>1, <2>2 DEF KeptOrMoved
<1>6. ASSUME NEW s \in Requests, job[s].op = "put", reply'[s] = "ok", Untouched(s)'
      PROVE  bucket'[job[s].target] = job[s].content
  <2>1. job[s].target \in Keys /\ (job[s].target = job[r].target => job[s].content = job[r].content)
    BY <1>6 DEF SpreadsIn
  <2>2. s # r => bucket[job[s].target] = job[s].content
    BY <1>6 DEF Kept, Untouched
  <2> QED
    BY <1>2, <2>1, <2>2
<1>7. \A l \in Keys : Original(l)' = Original(l)
  BY DEF Original
<1>8. \A l \in Keys : bucket'[l] # Absent => l \in F
  BY <1>1, <1>2 DEF Kept
<1>9. \A s \in Requests : \A l \in copied'[s] :
         l \in F /\ job'[s].op \in CopyOp /\ Planned(s, l)'
  BY <1>3, <1>4 DEF Kept
<1> QED
  BY <1>5, <1>6, <1>7, <1>8, <1>9 DEF Kept

\* Nothing in the bucket changes.
LEMMA QuietKeeps ==
    ASSUME IInv, NEW F \in SUBSET Keys, Kept(F), UNCHANGED <<job, bucket, copied>>,
           \A s \in Requests : plan[s] \subseteq plan'[s],
           \A s \in Requests : job[s].op = "put" => reply'[s] = reply[s] \/ reply'[s] # "ok"
    PROVE  Kept(F)'
<1>1. \A s \in Requests, l \in Keys : Planned(s, l)' = Planned(s, l)
  BY DEF Planned
<1>2. \A s \in Requests : \A l \in copied[s] : l \in Keys
  BY DEF IInv, TypeOK
<1>3. \A l \in Keys : Original(l)' = Original(l) /\ KeptOrMoved(l)' = KeptOrMoved(l)
  BY DEF Original, KeptOrMoved
<1>4. \A s \in Requests : Untouched(s)' => Untouched(s)
  BY DEF Untouched
<1> QED
  BY <1>1, <1>2, <1>3, <1>4 DEF Kept

LEMMA NextKept ==
    ASSUME IInv, Listed, NoDeletes(job), NEW F \in SUBSET Keys, SpreadsIn(job, F), Kept(F),
           [Next]_vars
    PROVE  Kept(F)' /\ job' = job
<1> USE DEF IInv
<1>1. ASSUME NEW r \in Requests, NEW k \in todo[r], Copied(r, k) \/ CopyFails(r, k)
      PROVE  Kept(F)' /\ job' = job
  <2>1. /\ UNCHANGED <<job, plan>>
        /\ copied' \in {copied, [copied EXCEPT ![r] = copied[r] \cup {k}]}
        /\ \A s \in Requests : reply'[s] = reply[s] \/ reply'[s] # "ok"
    BY <1>1 DEF TypeOK, Copied, CopyFails, Fail, Answer
  <2>2. CASE Copyable(r, k) /\ CopyObject(r, k)
    BY <2>1, <2>2, CopyKeeps
  <2>3. CASE CopyFails(r, k) /\ UNCHANGED bucket
    <3>1. UNCHANGED <<job, bucket, copied>> /\ \A s \in Requests : plan[s] \subseteq plan'[s]
      BY <2>1, <2>3 DEF CopyFails
    <3> QED
      BY <2>1, <3>1, QuietKeeps
  <2> QED
    BY <1>1, <2>2, <2>3 DEF Copied, CopyFails
<1>2. ASSUME NEW r \in Requests, DeleteBatch(r) \/ DeleteFails(r)
      PROVE  Kept(F)' /\ job' = job
  <2>1. PICK D \in SUBSET left[r] : Delete(r, D)
    BY <1>2 DEF DeleteBatch, DeleteFails, FirstOf
  <2>2. /\ pc[r] = "deleting" /\ UNCHANGED <<job, plan, copied>>
        /\ \A s \in Requests : reply'[s] = reply[s] \/ reply'[s] # "ok"
    BY <1>2 DEF TypeOK, DeleteBatch, DeleteFails, Fail, Answer, work
  <2> QED
    BY <2>1, <2>2, DeleteKeeps
<1>3. ASSUME NEW r \in Requests, Put(r) \/ PutFails(r)
      PROVE  Kept(F)' /\ job' = job
  <2>1. /\ job[r].op = "put" /\ UNCHANGED <<job, plan, copied>>
        /\ \A s \in Requests \ {r} : reply'[s] = reply[s]
    BY <1>3 DEF TypeOK, Progress, ProgressOf, Put, PutFails, Fail, Succeed, Answer, work
  <2>2. CASE PutObject(r)
    BY <2>1, <2>2, PutKeeps
  <2>3. CASE UNCHANGED bucket /\ PutFails(r)
    <3>1. \A s \in Requests : reply'[s] = reply[s] \/ reply'[s] # "ok"
      BY <2>3 DEF TypeOK, PutFails, Fail, Answer
    <3> QED
      BY <2>1, <2>3, <3>1, QuietKeeps
  <2> QED
    BY <1>3, <2>2, <2>3 DEF Put, PutFails
<1>4. ASSUME NEW r \in Requests, \/ Start(r) \/ ListPage(r) \/ ListFails(r) \/ CopiesDone(r)
                                \/ DeletesDone(r) \/ TimesOut(r)
      PROVE  Kept(F)' /\ job' = job
  <2>1. UNCHANGED <<job, bucket, copied>>
    BY <1>4 DEF Start, ListPage, ListFails, CopiesDone, DeletesDone, TimesOut
  <2>2. \A s \in Requests : plan[s] \subseteq plan'[s]
    <3>1. CASE Start(r)
      BY <3>1 DEF TypeOK, Start, work, Listed, ListedOf
    <3>2. CASE ListPage(r)
      BY <3>2 DEF TypeOK, ListPage
    <3> QED
      BY <1>4, <3>1, <3>2 DEF ListFails, CopiesDone, DeletesDone, TimesOut, work
  <2>3. \A s \in Requests : job[s].op = "put" => reply'[s] = reply[s] \/ reply'[s] # "ok"
    BY <1>4
    DEF TypeOK, Listed, ListedOf, Start, ListPage, ListFails, CopiesDone, DeletesDone, TimesOut,
        Succeed, Fail, Answer
  <2> QED
    BY <2>1, <2>2, <2>3, QuietKeeps
<1>5. CASE ProcessExit \/ UNCHANGED vars
  <2>1. UNCHANGED <<job, bucket, copied, plan, reply>>
    BY <1>5 DEF ProcessExit, vars, work
  <2> QED
    BY <2>1, QuietKeeps
<1> QED
  BY <1>1, <1>2, <1>3, <1>4, <1>5, NextCases

\* What the invariant promises, with the keys that an object ever comes under.
Safe == NoDeletes(job) => \E F \in SUBSET Keys : SpreadsIn(job, F) /\ Kept(F)

LEMMA InitSafe == ASSUME \A w \in Workloads : Apart(w), Init PROVE Listed /\ Safe
<1>1. Listed
  BY DEF Init, Listed, ListedOf
<1>2. ASSUME NoDeletes(job) PROVE Safe
  <2>1. PICK F \in SUBSET Keys : SpreadsIn(job, F)
    BY <1>2 DEF Init, Apart
  <2>2. Kept(F)
    <3>1. \A k \in Keys : bucket[k] # Absent => k \in F
      BY <2>1 DEF Init, SpreadsIn
    <3>2. \A k \in Keys : Original(k) => KeptOrMoved(k)
      BY DEF Init, Original, KeptOrMoved
    <3> QED
      BY <3>1, <3>2 DEF Init, Kept
  <2> QED
    BY <2>1, <2>2 DEF Safe
<1> QED
  BY <1>1, <1>2 DEF Safe

LEMMA NextSafe == ASSUME IInv, Listed, Safe, [Next]_vars PROVE Listed' /\ Safe'
<1>1. Listed'
  BY NextListed DEF IInv
<1>2. job' = job
  <2>1. \A r \in Requests : RequestStep(r) \/ TimesOut(r) => job' = job
    BY OthersRecord DEF IInv
  <2> QED
    BY <2>1 DEF Next, ProcessExit, AllServed, vars
<1>3. ASSUME NoDeletes(job)
      PROVE  Safe'
  <2>1. PICK F \in SUBSET Keys : SpreadsIn(job, F) /\ Kept(F)
    BY <1>3 DEF Safe
  <2>2. Kept(F)'
    BY <1>3, <2>1, NextKept
  <2>3. SpreadsIn(job, F)'
    BY <1>2, <2>1 DEF SpreadsIn, Source, Destination
  <2> QED
    BY <2>2, <2>3 DEF Safe
<1> QED
  BY <1>1, <1>2, <1>3 DEF Safe, NoDeletes

LEMMA SafeIsKept == ASSUME IInv, Safe PROVE NothingLost
<1> SUFFICES ASSUME NoDeletes(job), NEW c \in Contents, Valuable(c)
             PROVE  \E k \in Keys : bucket[k] = c
  BY DEF NothingLost
<1>1. PICK F \in SUBSET Keys : SpreadsIn(job, F) /\ Kept(F)
  BY DEF Safe
<1>2. ASSUME NEW k \in Keys, Initial[k] = c,
             ~\E r \in Requests : job[r].op = "put" /\ job[r].target = k
      PROVE  \E l \in Keys : bucket[l] = c
  <2>1. KeptOrMoved(k)
    BY <1>1, <1>2, FolderAssumption DEF Kept, Original
  <2>2. CASE bucket[k] = Absent
    <3>1. PICK r \in Requests : job[r].op \in Rename /\ k \in copied[r]
      BY <2>1, <2>2 DEF KeptOrMoved
    <3>2. Destination(job[r], k) \in F
      BY <1>1, <3>1, Spread DEF Kept
    <3> QED
      BY <1>2, <2>1, <3>1, <3>2 DEF KeptOrMoved
  <2> QED
    BY <1>2, <2>1, <2>2 DEF KeptOrMoved
<1>3. ASSUME NEW r \in Requests, job[r].op = "put", job[r].content = c, reply[r] = "ok",
             Untouched(r)
      PROVE  \E l \in Keys : bucket[l] = c
  BY <1>1, <1>3 DEF Kept, SpreadsIn
<1> QED
  BY <1>2, <1>3 DEF Valuable, Untouched

\* Any number of renamings, copies and uploads, each in any state when another
\* begins, fails, times out or ends with the process: if their paths are apart, no
\* content that was there, or was put and acknowledged, is ever gone.
THEOREM LosesNothing ==
    ASSUME \A w \in Workloads : Apart(w)
    PROVE  Spec => []NothingLost
<1>1. Init => Listed /\ Safe
  BY InitSafe
<1>2. IInv /\ Listed /\ Safe /\ [Next]_vars => Listed' /\ Safe'
  BY NextSafe
<1>3. IInv /\ Safe => NothingLost
  BY SafeIsKept
<1> QED
  BY <1>1, <1>2, <1>3, Inductive, PTL DEF Spec
=============================================================================
