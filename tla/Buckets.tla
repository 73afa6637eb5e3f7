------------------------------ MODULE Buckets ------------------------------
(***************************************************************************)
(* A bucket, and the requests that create it, delete it, look at what is   *)
(* in it or download from it.  Each is a sequence of S3 calls; the bucket  *)
(* changes in between, through other requests and through other users of   *)
(* the store.  The result of a paged listing is what its pages showed at   *)
(* different moments.                                                      *)
(*                                                                         *)
(* Objects are numbered in the order in which S3 lists them.               *)
(***************************************************************************)
EXTENDS Naturals, FiniteSets, AppTasks

CONSTANTS
    Readers,    \* requests that may list or download, besides creating and deleting
    Objects,    \* keys, in the order S3 lists them
    Folders,    \* the folders at the top, each the set of the keys under its prefix
    PageSize,   \* entries in a page, and files that list_objects_as_tree reads of a level
    MaxWrites   \* bound on what others write and delete, and on the answers that are
                \* lost, in a behaviour

ASSUME BucketsAssumption ==
    /\ Objects \subseteq Nat \ {0} /\ IsFiniteSet(Objects)
    /\ Folders \subseteq (SUBSET Objects) \ {{}}
    /\ \A F \in Folders, k \in Objects :
         (\E i \in F, j \in F : i <= k /\ k <= j) => k \in F
    /\ \A F \in Folders, G \in Folders : F = G \/ F \cap G = {}
    /\ PageSize \in Nat \ {0} /\ MaxWrites \in Nat

VARIABLES
    exists,   \* the bucket is there
    present,  \* the objects in it
    writes,   \* what others wrote and deleted so far, and the answers lost
    call,     \* what each request does
    stayed,   \* history: what was there throughout the call
    seen,     \* history: what was there at some moment of the call
    was       \* history: whether the bucket was there, at the moments of the call

store      == <<exists, present, writes>>
bucketVars == <<store, call, stayed, seen, was>>

-----------------------------------------------------------------------------

Top == Objects \ UNION Folders

\* A call: its operation, the S3 call it is at, how far it has read, what it
\* has found and counted, the folders it has left to list, what it failed to list
\* or to delete, whether there is more than it read or sent, and its answer.
NoCall == [op |-> "none", at |-> "idle", after |-> 0, page |-> {}, found |-> {}, count |-> 0,
         left |-> {}, lost |-> {}, cut |-> FALSE, answer |-> 0]

Ops == {"create", "delete", "details", "stats", "tree", "stream"}

BucketsInit ==
    /\ exists \in BOOLEAN /\ writes = 0
    /\ present \in SUBSET Objects /\ (~exists => present = {})
    /\ call = [c \in Requests |-> NoCall]
    /\ stayed = [c \in Requests |-> {}] /\ seen = [c \in Requests |-> {}]
    /\ was = [c \in Requests |-> {}]

Begins(c) == call[c].at = "idle" /\ call'[c].at # "idle"

Ongoing(c) == call[c].at \notin {"idle", "over"}

\* What the store is like after a step, for the histories of the calls: of the
\* objects for those that list them, of the bucket for the others.
Observe ==
    LET Lists(c) == call'[c].op \in {"details", "stats", "tree", "delete"}
        Asks(c)  == call'[c].op \in {"create", "delete", "details"}
    IN  /\ stayed' = [c \in Requests |-> IF Lists(c) /\ Begins(c) THEN present'
                       ELSE IF Ongoing(c) THEN stayed[c] \cap present' ELSE stayed[c]]
        /\ seen' = [c \in Requests |-> IF Lists(c) /\ (Begins(c) \/ Ongoing(c))
                                      THEN seen[c] \cup present' ELSE seen[c]]
        /\ was' = [c \in Requests |->
              IF Asks(c) /\ (Begins(c) \/ Ongoing(c)) THEN was[c] \cup {exists'} ELSE was[c]]

Becomes(c, r) == call' = [call EXCEPT ![c] = r]

Goes(c, at) == Becomes(c, [call[c] EXCEPT !.at = at])

Over(r, code) == [r EXCEPT !.at = "over", !.answer = code, !.after = 0, !.page = {}]

Answers(c, code) == Becomes(c, Over([NoCall EXCEPT !.op = call[c].op], code))

Unchanged == UNCHANGED store /\ Observe

-----------------------------------------------------------------------------
(* Other requests, and other users of the store.                           *)

Put(k) ==
    /\ exists /\ k \notin present /\ writes < MaxWrites
    /\ present' = present \cup {k} /\ writes' = writes + 1
    /\ UNCHANGED <<exists, call>> /\ Observe

Delete(k) ==
    /\ k \in present /\ writes < MaxWrites
    /\ present' = present \ {k} /\ writes' = writes + 1
    /\ UNCHANGED <<exists, call>> /\ Observe

\* The S3 call that c is at fails, unexecuted: with an error of the store, or of
\* the network.
S3Fails(c) ==
    /\ call[c].at \in {"head", "list", "empty", "create", "remove", "get"}
    /\ Answers(c, 500)
    /\ Unchanged

-----------------------------------------------------------------------------
(* The handlers: what they call the service with, and the first S3 call.   *)

Request(c, op, at) ==
    /\ call[c].at = "idle"
    /\ Becomes(c, [NoCall EXCEPT !.op = op, !.at = at])
    /\ Unchanged

create_bucket(c)    == Request(c, "create", "head")
delete_bucket(c)    == Request(c, "delete", "head")
get_bucket(c)       == Request(c, "details", "head")
list_folder(c)      == Request(c, "tree", "list")
get_folder_stats(c) == Request(c, "stats", "list")
download_object(c)  == Request(c, "stream", "get")

-----------------------------------------------------------------------------
(* create_bucket.                                                          *)

\* Mutant of Absent: the bucket is created whatever head_bucket answers.
AbsentOrNot(c) ==
    call[c].op = "create" /\ call[c].at = "head" /\ Goes(c, "create") /\ Unchanged

Absent(c) ==
    /\ call[c].op = "create" /\ call[c].at = "head"
    /\ IF exists THEN Answers(c, 409) ELSE Goes(c, "create")
    /\ Unchanged

\* Some regions take the creation of a bucket that is there for a success.
Created == exists' = TRUE /\ UNCHANGED present

Create(c) ==
    /\ call[c].at = "create"
    /\ Created /\ Answers(c, 200)
    /\ UNCHANGED writes /\ Observe

-----------------------------------------------------------------------------
(* delete_bucket, get_bucket_details and get_folder_stats.                 *)

Exists(c) ==
    /\ call[c].op \in {"delete", "details"} /\ call[c].at = "head"
    /\ IF exists THEN Goes(c, "list") ELSE Answers(c, 404)
    /\ Unchanged

\* What the listing of c covers: a folder, for the statistics of one.
Listed(c) == IF call[c].op = "stats" THEN UNION Folders ELSE Objects

Ahead(c) == {k \in present \cap Listed(c) : k > call[c].after}

\* The first n of the keys K.
First(n, K) == {k \in K : Cardinality({j \in K : j <= k}) <= n}

Last(K) == CHOOSE k \in K : \A j \in K : j <= k

\* Mutant of Counted: the last page's keys only.
CountedLast(c, K) == Cardinality(K)

Counted(c, K) == call[c].count + Cardinality(K)

Reached(c, K) == IF K = {} THEN call[c].after ELSE Last(K)

\* A page of the listing.  Without a bucket it fails, with NoSuchBucket.
NextPage(c) ==
    /\ call[c].op \in {"delete", "details", "stats"} /\ call[c].at = "list"
    /\ LET page == First(PageSize, Ahead(c))
           more == page # Ahead(c)
           read == [call[c] EXCEPT
                      !.after = Reached(c, page), !.found = @ \cup page,
                      !.count = Counted(c, page), !.page = page, !.cut = more]
       IN CASE ~exists -> Answers(c, IF call[c].op = "delete" THEN 404 ELSE 500)
            [] exists /\ call[c].op = "delete" ->
                 Becomes(c, [read EXCEPT !.at = IF page = {} THEN "remove" ELSE "empty"])
            [] OTHER ->
                 Becomes(c, IF more THEN read ELSE Over(read, 200))
    /\ Unchanged

\* delete_objects on the keys of a page, of which it fails to delete some.
Emptied(c, failed) ==
    /\ exists /\ UNCHANGED exists
    /\ present' = present \ (call[c].page \ failed)

\* Mutant of Empty: the listing starts anew, until it finds nothing.
EmptyAnew(c) ==
    /\ call[c].at = "empty"
    /\ \E failed \in SUBSET call[c].page : Emptied(c, failed)
    /\ Becomes(c, [NoCall EXCEPT !.op = "delete", !.at = "list"])
    /\ UNCHANGED writes /\ Observe

\* Mutant of Empty: the first page only.
EmptyOnce(c) ==
    /\ call[c].at = "empty"
    /\ \E failed \in SUBSET call[c].page :
         /\ Emptied(c, failed)
         /\ Becomes(c, [call[c] EXCEPT !.at = "remove", !.lost = @ \cup failed])
    /\ UNCHANGED writes /\ Observe

\* The answer names the keys that were not deleted; nobody reads it.
Empty(c) ==
    /\ call[c].at = "empty"
    /\ \E failed \in SUBSET call[c].page :
         /\ Emptied(c, failed)
         /\ Becomes(c, [call[c] EXCEPT !.at = IF call[c].cut THEN "list" ELSE "remove",
                                       !.lost = @ \cup failed])
    /\ UNCHANGED writes /\ Observe

EmptiesNothing(c) ==
    /\ call[c].at = "empty" /\ ~exists
    /\ Answers(c, 404)
    /\ Unchanged

\* delete_bucket, which S3 refuses while something is in the bucket.
Removed == exists' = (exists /\ present # {}) /\ UNCHANGED present

Remove(c) ==
    /\ call[c].at = "remove"
    /\ Removed
    /\ Answers(c, CASE ~exists -> 404 [] exists /\ present # {} -> 400 [] OTHER -> 200)
    /\ UNCHANGED writes /\ Observe

\* A call that changes the store is executed and its answer is lost: the client
\* repeats it, or raises.
AnswerLost(c) ==
    /\ writes < MaxWrites
    /\ \/ call[c].at = "create" /\ Created
       \/ call[c].at = "empty" /\ \E failed \in SUBSET call[c].page : Emptied(c, failed)
       \/ call[c].at = "remove" /\ Removed
    /\ UNCHANGED call \/ Answers(c, 500)
    /\ writes' = writes + 1 /\ Observe

-----------------------------------------------------------------------------
(* list_objects_as_tree.  A page of a level has files and folders.  The     *)
(* paginator stops when it has read as many files as it may, and cuts the  *)
(* page it stops in down to them; the folders of a page it gives in full.  *)
(* The folders of the level are then listed, all at once.                  *)

\* The entries of the top level; a folder is one, while something is in it.
Entries == {{k} : k \in present \cap Top} \cup {F \in Folders : F \cap present # {}}

\* A listing that goes on after a folder leaves out what is in it.
EntriesAhead(c) == {e \in Entries : Last(e) > call[c].after}

FirstEntries(n, E) == {e \in E : Last(e) \in First(n, {Last(d) : d \in E})}

\* The level is read.  With a depth of 1 its folders are shown without children.
LevelRead(c, read) ==
    \E deep \in BOOLEAN :
       Becomes(c, IF deep /\ read.left # {} THEN [read EXCEPT !.at = "children"]
                  ELSE Over([read EXCEPT !.cut = @ \/ read.left # {}], 200))

Level(c) ==
    /\ call[c].op = "tree" /\ call[c].at = "list"
    /\ LET page  == FirstEntries(PageSize, EntriesAhead(c))
           more  == page # EntriesAhead(c)
           files == (UNION page) \cap Top
           shown == First(PageSize - call[c].count, files)
           full  == call[c].count + Cardinality(files) >= PageSize
           read  == [call[c] EXCEPT
                       !.after = Reached(c, UNION page), !.found = @ \cup shown,
                       !.count = @ + Cardinality(shown), !.left = @ \cup (page \cap Folders),
                       !.cut = more \/ shown # files]
       IN CASE ~exists -> Answers(c, 500)
            [] exists /\ more /\ ~full -> Becomes(c, read)
            [] OTHER -> LevelRead(c, read)
    /\ Unchanged

\* Mutant of Merged: the children of a folder replace what is there.
MergedOver(c, K) == K

Merged(c, K) == call[c].found \cup K

\* The listing of a folder ends, or fails: the folder is then shown empty.  It has
\* files alone, and ends with its first page.
Children(c) ==
    /\ call[c].at = "children"
    /\ \E F \in call[c].left, ok \in BOOLEAN :
         LET children == First(PageSize, F \cap present)
             told == [call[c] EXCEPT
                        !.found = IF ok /\ exists THEN Merged(c, children) ELSE @,
                        !.lost  = IF ok /\ exists THEN @ ELSE @ \cup F,
                        !.cut   = @ \/ children # F \cap present,
                        !.left  = @ \ {F}]
         IN Becomes(c, IF told.left = {} THEN Over(told, 200) ELSE told)
    /\ Unchanged

-----------------------------------------------------------------------------
(* stream_file.                                                            *)

\* One get_object gives the metadata and the body.  Without a bucket it fails,
\* with NoSuchBucket.
Get(c) ==
    /\ call[c].at = "get"
    /\ \E k \in Objects :
         CASE ~exists -> Answers(c, 500)
           [] exists /\ k \in present -> Goes(c, "body")
           [] OTHER -> Answers(c, 404)
    /\ Unchanged

\* The body is sent whole, or breaks off; the status was sent before it.
Stream(c) ==
    /\ call[c].at = "body"
    /\ \E whole \in BOOLEAN : Becomes(c, Over([call[c] EXCEPT !.cut = ~whole], 200))
    /\ Unchanged

-----------------------------------------------------------------------------

BucketStep(c) ==
    \/ Absent(c) \/ Create(c) \/ Exists(c) \/ NextPage(c) \/ Empty(c) \/ EmptiesNothing(c)
    \/ Remove(c) \/ AnswerLost(c) \/ Level(c) \/ Children(c) \/ Get(c) \/ Stream(c)
    \/ S3Fails(c)

Handle(c) ==
    \/ create_bucket(c) \/ delete_bucket(c)
    \/ c \in Readers /\ get_bucket(c)
    \/ c \in Readers /\ list_folder(c)
    \/ c \in Readers /\ get_folder_stats(c)
    \/ c \in Readers /\ download_object(c)

BucketsNext ==
    \/ \E k \in Objects : Put(k) \/ Delete(k)
    \/ \E c \in Requests : Handle(c) \/ BucketStep(c)

BucketsSpec == BucketsInit /\ [][BucketsNext]_bucketVars

-----------------------------------------------------------------------------

Answered(c, op, code) ==
    call[c].at = "over" /\ call[c].op \in op /\ call[c].answer = code

\* Every variable has its type, and only a bucket has objects.
BucketsTypeOK ==
    /\ exists \in BOOLEAN /\ writes \in 0..MaxWrites
    /\ present \in SUBSET Objects /\ (~exists => present = {})
    /\ \A c \in Requests :
         /\ call[c].op \in Ops \cup {"none"}
         /\ call[c].at \in {"idle", "head", "list", "empty", "create", "remove", "children",
                           "get", "body", "over"}
         /\ call[c].found \cup call[c].page \cup stayed[c] \cup seen[c] \subseteq Objects

\* An answer is true of some moment of its request, whatever other requests do
\* meanwhile: a bucket that was not found was not there, one that was created
\* was not there before, one that already existed or was deleted was there.
AnswersHonest ==
    \A c \in Requests :
      /\ Answered(c, {"create"}, 200) \/ Answered(c, {"delete", "details"}, 404) => FALSE \in was[c]
      /\ Answered(c, {"create"}, 409) \/ Answered(c, {"delete"}, 200) => TRUE \in was[c]

\* When a deletion comes to delete the bucket, nothing is left in it of what was
\* there throughout, however many pages that was, except for what delete_objects
\* failed to delete: what is still there else was put there meanwhile.
EmptiesWhatStayed ==
    \A c \in Requests : call[c].at = "remove" => stayed[c] \subseteq call[c].lost

\* What get_bucket_details and get_folder_stats count, page after page, is every
\* object that was there throughout, once, and nothing that was never there.
CountedOnce ==
    \A c \in Requests : Answered(c, {"details", "stats"}, 200) =>
      /\ call[c].count = Cardinality(call[c].found)
      /\ stayed[c] \cap Listed(c) \subseteq call[c].found
      /\ call[c].found \subseteq seen[c]

\* A tree shows every object that was there throughout, but for the folders
\* whose listing failed, unless a level has more files than are read of it.
TreeComplete ==
    \A c \in Requests : Answered(c, {"tree"}, 200) =>
      /\ call[c].found \subseteq seen[c]
      /\ ~call[c].cut => stayed[c] \ call[c].lost \subseteq call[c].found

\* Every request ends, once others leave the bucket alone; delete_bucket also when
\* S3 never deletes the keys that it finds.
CallsEnd == <>[](\A c \in Requests : ~Ongoing(c))
=============================================================================
