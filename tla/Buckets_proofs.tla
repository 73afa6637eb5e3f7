--------------------------- MODULE Buckets_proofs ---------------------------
(***************************************************************************)
(* Proofs about Buckets for any number of requests, objects and folders,   *)
(* any page size and any writes of others.                                 *)
(***************************************************************************)
EXTENDS Buckets, FiniteSetTheorems, TLAPS

-----------------------------------------------------------------------------
(* Sets of keys.                                                           *)

LEMMA Finite ==
    ASSUME NEW K \in SUBSET Objects
    PROVE  IsFiniteSet(K) /\ Cardinality(K) \in Nat /\ K \subseteq Nat
  BY BucketsAssumption, FS_Subset, FS_CardinalityType

\* A set of keys that is not empty has a last one.
LEMMA LastIsLast ==
    ASSUME NEW K \in SUBSET Objects, K # {}
    PROVE  Last(K) \in K /\ \A j \in K : j <= Last(K)
<1> DEFINE from(k) == {j \in K : k <= j}
           ups     == {from(k) : k \in K}
<1>1. ups \subseteq FiniteSubsetsOf(K) /\ ups # {}
  <2>1. \A k \in K : from(k) \in SUBSET K /\ IsFiniteSet(from(k))
    BY Finite, FS_Subset
  <2> QED
    BY <2>1 DEF FiniteSubsetsOf
<1>2. PICK T \in ups : \A U \in ups : ~(<<U, T>> \in StrictSubsetOrdering(K))
  <2> HIDE DEF ups
  <2> QED
    BY <1>1, FS_StrictSubsetOrderingWellFounded, WFMin
<1>3. PICK k \in K : T = from(k)
  BY <1>2
<1>4. ASSUME NEW j \in K PROVE j <= k
  <2>1. SUFFICES ASSUME k < j PROVE FALSE
    BY Finite
  <2>2. from(j) \subseteq from(k) /\ k \in from(k) /\ k \notin from(j)
    BY <2>1, Finite
  <2>3. <<from(j), T>> \in StrictSubsetOrdering(K)
    BY <1>3, <2>2 DEF StrictSubsetOrdering
  <2> QED
    BY <1>2, <2>3
<1>5. \E l \in K : \A j \in K : j <= l
  BY <1>4
<1> QED
  BY <1>5 DEF Last

\* And a first one.
LEMMA HasFirst ==
    ASSUME NEW K \in SUBSET Objects, K # {}
    PROVE  \E k \in K : \A j \in K : k <= j
<1> DEFINE upto(k) == {j \in K : j <= k}
           ups     == {upto(k) : k \in K}
<1>1. ups \subseteq FiniteSubsetsOf(K) /\ ups # {}
  <2>1. \A k \in K : upto(k) \in SUBSET K /\ IsFiniteSet(upto(k))
    BY Finite, FS_Subset
  <2> QED
    BY <2>1 DEF FiniteSubsetsOf
<1>2. PICK T \in ups : \A U \in ups : ~(<<U, T>> \in StrictSubsetOrdering(K))
  <2> HIDE DEF ups
  <2> QED
    BY <1>1, FS_StrictSubsetOrderingWellFounded, WFMin
<1>3. PICK k \in K : T = upto(k)
  BY <1>2
<1>4. ASSUME NEW j \in K PROVE k <= j
  <2>1. SUFFICES ASSUME j < k PROVE FALSE
    BY Finite
  <2>2. upto(j) \subseteq upto(k) /\ k \in upto(k) /\ k \notin upto(j)
    BY <2>1, Finite
  <2>3. <<upto(j), T>> \in StrictSubsetOrdering(K)
    BY <1>3, <2>2 DEF StrictSubsetOrdering
  <2> QED
    BY <1>2, <2>3
<1> QED
  BY <1>4

\* The first keys come before the others.
LEMMA FirstIsFirst ==
    ASSUME NEW K \in SUBSET Objects, NEW n \in Nat
    PROVE  /\ First(n, K) \subseteq K
           /\ \A k \in First(n, K), j \in K \ First(n, K) : k < j
<1> DEFINE upto(k) == {j \in K : j <= k}
<1>1. \A k \in K : upto(k) \in SUBSET Objects /\ IsFiniteSet(upto(k))
                   /\ Cardinality(upto(k)) \in Nat
  BY Finite
<1>2. First(n, K) = {k \in K : Cardinality(upto(k)) <= n}
  BY DEF First
<1>3. ASSUME NEW k \in First(n, K), NEW j \in K \ First(n, K) PROVE k < j
  <2>1. k \in Nat /\ j \in Nat /\ K \subseteq Nat
    BY <1>2, Finite
  <2>2. SUFFICES ASSUME j <= k PROVE FALSE
    BY <2>1
  <2>3. upto(j) \subseteq upto(k)
    <3>1. \A i \in K : i <= j => i <= k
      BY <2>1, <2>2
    <3> QED
      BY <3>1
  <2>4. Cardinality(upto(j)) <= Cardinality(upto(k))
    BY <1>1, <1>2, <2>3, FS_Subset
  <2> HIDE DEF upto
  <2> QED
    BY <1>1, <1>2, <2>4
<1> QED
  BY <1>2, <1>3

\* All of them, where there are not so many.
LEMMA FirstIsAll ==
    ASSUME NEW K \in SUBSET Objects, NEW n \in Int, Cardinality(K) <= n
    PROVE  First(n, K) = K
<1> SUFFICES ASSUME NEW k \in K PROVE Cardinality({j \in K : j <= k}) <= n
  BY DEF First
<1> DEFINE upto == {j \in K : j <= k}
<1>1. upto \subseteq K /\ upto \in SUBSET Objects
  OBVIOUS
<1>2. Cardinality(upto) <= Cardinality(K) /\ Cardinality(upto) \in Nat /\ Cardinality(K) \in Nat
  BY <1>1, Finite, FS_Subset
<1> HIDE DEF upto
<1>3. Cardinality(upto) <= n
  BY <1>2
<1> QED
  BY <1>3 DEF upto

\* The entry of the top level that shows a key.
EntryOf(k) == IF k \in Top THEN {k} ELSE CHOOSE F \in Folders : k \in F

LEMMA EntryIs ==
    ASSUME NEW k \in Objects
    PROVE  /\ k \in EntryOf(k) /\ EntryOf(k) \in SUBSET Objects /\ Last(EntryOf(k)) \in Objects
           /\ (k \in Top /\ EntryOf(k) = {k}) \/ EntryOf(k) \in Folders
           /\ k \in present => EntryOf(k) \in Entries
<1>1. CASE k \in Top
  <2>1. EntryOf(k) = {k}
    BY <1>1 DEF EntryOf
  <2>2. Last(EntryOf(k)) \in EntryOf(k)
    BY <2>1, LastIsLast
  <2>3. k \in present => EntryOf(k) \in Entries
    BY <1>1, <2>1 DEF Entries
  <2> QED
    BY <1>1, <2>1, <2>2, <2>3
<1>2. CASE k \notin Top
  <2>1. \E F \in Folders : k \in F
    BY <1>2 DEF Top
  <2>2. EntryOf(k) \in Folders /\ k \in EntryOf(k)
    BY <1>2, <2>1 DEF EntryOf
  <2>3. EntryOf(k) \in SUBSET Objects
    BY <2>2, BucketsAssumption
  <2>4. Last(EntryOf(k)) \in EntryOf(k)
    BY <2>2, <2>3, LastIsLast
  <2>5. k \in present => EntryOf(k) \in Entries
    BY <2>2 DEF Entries
  <2> QED
    BY <2>2, <2>3, <2>4, <2>5
<1> QED
  BY <1>1, <1>2

-----------------------------------------------------------------------------
(* The inductive invariant.                                                *)

Stages == {"idle", "head", "list", "empty", "create", "remove", "children", "get", "body",
           "over"}

Call == [op : Ops \cup {"none"}, at : Stages, after : Nat, page : SUBSET Objects,
         found : SUBSET Objects, count : Nat, left : SUBSET Folders,
         lost : SUBSET Objects, cut : BOOLEAN, answer : Nat]

Types ==
    /\ exists \in BOOLEAN /\ writes \in 0..MaxWrites
    /\ present \in SUBSET Objects /\ (~exists => present = {})
    /\ call \in [Requests -> Call]
    /\ stayed \in [Requests -> SUBSET Objects] /\ seen \in [Requests -> SUBSET Objects]
    /\ was \in [Requests -> SUBSET BOOLEAN]

Listings == {"details", "stats", "tree", "delete"}

\* The S3 calls that an operation makes.
Staged(c) ==
    /\ call[c].at = "head" => call[c].op \in {"create", "delete", "details"}
    /\ call[c].at = "list" => call[c].op \in {"delete", "details", "stats", "tree"}
    /\ call[c].at = "create" => call[c].op = "create"
    /\ call[c].at \in {"empty", "remove"} => call[c].op = "delete"
    /\ call[c].at = "children" => call[c].op = "tree"
    /\ call[c].at \in {"get", "body"} => call[c].op = "stream"

\* A bucket that is created was seen absent, one that is deleted was seen there.
SeenAbsent(c) == FALSE \in was[c]
SeenThere(c)  == TRUE \in was[c]

Honest(c) ==
    /\ call[c].at = "create" => SeenAbsent(c)
    /\ call[c].at \in {"list", "empty", "remove"} /\ call[c].op = "delete" => SeenThere(c)
    /\ Answered(c, {"create"}, 200) \/ Answered(c, {"delete", "details"}, 404) => SeenAbsent(c)
    /\ Answered(c, {"create"}, 409) \/ Answered(c, {"delete"}, 200) => SeenThere(c)

\* What stayed is still there while the listing goes on.
Staying(c) == call[c].op \in Listings /\ Ongoing(c) => stayed[c] \subseteq present

\* The pages so far: everything that stayed, up to the last key listed, once.
Counting(c) ==
    /\ call[c].op \in {"details", "stats"} /\ call[c].at \in {"head", "list"} =>
          /\ call[c].count = Cardinality(call[c].found)
          /\ call[c].found \subseteq seen[c]
          /\ \A k \in call[c].found : k <= call[c].after
          /\ \A k \in stayed[c] \cap Listed(c) : k <= call[c].after => k \in call[c].found
    /\ Answered(c, {"details", "stats"}, 200) =>
          /\ call[c].count = Cardinality(call[c].found)
          /\ stayed[c] \cap Listed(c) \subseteq call[c].found
          /\ call[c].found \subseteq seen[c]

\* What stayed is in the tree so far, or in a folder that is still to be listed;
\* while the level is read, up to the last entry read.
Growing(c) ==
    /\ call[c].at = "list" /\ call[c].op = "tree" =>
          /\ call[c].found \subseteq seen[c]
          /\ \A k \in stayed[c] :
               Last(EntryOf(k)) <= call[c].after => k \in call[c].found \cup UNION call[c].left
    /\ call[c].at = "children" =>
          /\ call[c].found \subseteq seen[c]
          /\ ~call[c].cut => stayed[c] \subseteq call[c].found \cup call[c].lost \cup UNION call[c].left
    /\ Answered(c, {"tree"}, 200) =>
          /\ call[c].found \subseteq seen[c]
          /\ ~call[c].cut => stayed[c] \ call[c].lost \subseteq call[c].found

\* What stayed, up to the last key listed, was not deleted by delete_objects, or is
\* in the page that is about to be.
Emptying(c) ==
    /\ call[c].at \in {"head", "list"} /\ call[c].op = "delete" =>
          \A k \in stayed[c] : k <= call[c].after => k \in call[c].lost
    /\ call[c].at = "empty" =>
          \A k \in stayed[c] :
             k <= call[c].after \/ ~call[c].cut => k \in call[c].lost \cup call[c].page
    /\ call[c].at = "remove" => stayed[c] \subseteq call[c].lost

CallOK(c) ==
    Staged(c) /\ Honest(c) /\ Staying(c) /\ Counting(c) /\ Growing(c) /\ Emptying(c)

BInv == Types /\ \A c \in Requests : CallOK(c)

-----------------------------------------------------------------------------
(* The histories.                                                          *)

\* What Observe does to the histories of a request, by what the request does.
LEMMA Observed ==
    ASSUME Types, Observe, NEW c \in Requests
    PROVE  /\ present' \in SUBSET Objects =>
                 stayed' \in [Requests -> SUBSET Objects] /\ seen' \in [Requests -> SUBSET Objects]
           /\ (exists' \in BOOLEAN => was' \in [Requests -> SUBSET BOOLEAN])
           /\ Ongoing(c) => stayed'[c] = stayed[c] \cap present'
           /\ Ongoing(c) /\ call'[c].op \in Listings => seen'[c] = seen[c] \cup present'
           /\ Ongoing(c) /\ call'[c].op \in {"create", "delete", "details"} =>
                 was'[c] = was[c] \cup {exists'}
           /\ call[c].at = "idle" /\ call'[c].at # "idle" /\ call'[c].op \in Listings =>
                 stayed'[c] = present'
           /\ ~Ongoing(c) /\ call'[c].at = call[c].at =>
                 stayed'[c] = stayed[c] /\ seen'[c] = seen[c] /\ was'[c] = was[c]
  BY DEF Types, Observe, Ongoing, Begins, Listings

\* A call that makes no step, whatever happens in the store.
LEMMA Bystander ==
    ASSUME Types, Observe, NEW c \in Requests, CallOK(c), call'[c] = call[c]
    PROVE  CallOK(c)'
<1>1. CASE Ongoing(c)
  <2>1. /\ stayed'[c] \subseteq stayed[c]
        /\ stayed'[c] \subseteq present'
        /\ call[c].op \in Listings => seen[c] \subseteq seen'[c]
        /\ call[c].op \in {"create", "delete", "details"} => was[c] \subseteq was'[c]
    BY <1>1, Observed
  <2>2. call[c].at # "over" /\ call'[c].at # "over"
    BY <1>1 DEF Ongoing
  <2>5. call[c].op \in {"create", "delete", "details"} =>
           (SeenAbsent(c) => SeenAbsent(c)') /\ (SeenThere(c) => SeenThere(c)')
    BY <2>1, Zenon DEF SeenAbsent, SeenThere
  <2>3. (Staged(c) /\ Honest(c) /\ Staying(c))'
    BY <1>1, <2>1, <2>2, <2>5 DEF CallOK, Staged, Honest, Staying, Answered, Listings
  <2>4. Counting(c)'
    BY <1>1, <2>1, <2>2 DEF CallOK, Staged, Counting, Answered, Listed, Listings
  <2>6. Growing(c)'
    BY <1>1, <2>1, <2>2 DEF CallOK, Staged, Growing, Answered, Listings
  <2>7. Emptying(c)'
    BY <1>1, <2>1, <2>2 DEF CallOK, Emptying
  <2> QED
    BY <2>3, <2>4, <2>6, <2>7 DEF CallOK
<1>2. CASE ~Ongoing(c)
  <2>1. stayed'[c] = stayed[c] /\ seen'[c] = seen[c] /\ was'[c] = was[c]
    BY <1>2, Observed
  <2>2. Staged(c)'
    BY DEF CallOK, Staged
  <2>4. Honest(c)'
    <3>1. (SeenAbsent(c) => SeenAbsent(c)') /\ (SeenThere(c) => SeenThere(c)')
      BY <2>1, Zenon DEF SeenAbsent, SeenThere
    <3>2. call'[c] = call[c] /\ Honest(c)
      BY DEF CallOK
    <3> QED
      BY <3>1, <3>2 DEF Honest, Answered
  <2>5. Staying(c)'
    BY <1>2 DEF Staying, Ongoing
  <2>3. (Counting(c) /\ Growing(c) /\ Emptying(c))'
    BY <1>2, <2>1 DEF CallOK, Counting, Growing, Emptying, Answered, Listed, Ongoing
  <2> QED
    BY <2>2, <2>3, <2>4, <2>5 DEF CallOK
<1> QED
  BY <1>1, <1>2

\* The record of a call that ends.
LEMMA OverIs ==
    ASSUME NEW r \in Call, NEW code \in Nat
    PROVE  /\ Over(r, code) \in Call
           /\ Over(r, code).at = "over" /\ Over(r, code).answer = code
           /\ Over(r, code).op = r.op /\ Over(r, code).found = r.found
           /\ Over(r, code).count = r.count /\ Over(r, code).cut = r.cut
           /\ Over(r, code).lost = r.lost /\ Over(r, code).left = r.left
  BY DEF Over, Call, Stages

\* The record of a deletion that goes on.
GoneOn(r, at, lost) == [r EXCEPT !.at = at, !.lost = lost]

LEMMA GoneOnIs ==
    ASSUME NEW r \in Call, NEW at \in Stages, NEW lost \in SUBSET Objects
    PROVE  /\ GoneOn(r, at, lost) \in Call
           /\ GoneOn(r, at, lost).at = at /\ GoneOn(r, at, lost).lost = lost
           /\ GoneOn(r, at, lost).op = r.op /\ GoneOn(r, at, lost).after = r.after
  BY DEF GoneOn, Call

\* The record of a tree that has read a page of its level.
ReadOn(r, after, found, count, left, cut) ==
    [r EXCEPT !.after = after, !.found = found, !.count = count, !.left = left, !.cut = cut]

LEMMA ReadOnIs ==
    ASSUME NEW r \in Call, NEW after \in Nat, NEW found \in SUBSET Objects, NEW count \in Nat,
           NEW left \in SUBSET Folders, NEW cut \in BOOLEAN,
           NEW new, new = ReadOn(r, after, found, count, left, cut)
    PROVE  /\ new \in Call /\ new.op = r.op /\ new.at = r.at /\ new.after = after
           /\ new.found = found /\ new.left = left /\ new.cut = cut
<1>1. new \in Call
  BY DEF ReadOn, Call
<1>2. /\ new.op = r.op /\ new.at = r.at /\ new.after = after
      /\ new.found = found /\ new.left = left /\ new.cut = cut
  BY DEF ReadOn, Call
<1> QED
  BY <1>1, <1>2

LEMMA FreshCall ==
    ASSUME NEW op \in Ops \cup {"none"}
    PROVE  [NoCall EXCEPT !.op = op] \in Call /\ [NoCall EXCEPT !.op = op].op = op
  BY DEF NoCall, Call, Stages

\* A call that has failed, or found no bucket, tells nothing about objects.
LEMMA Ended ==
    ASSUME Types, Observe, NEW c \in Requests, NEW code \in {200, 400, 404, 409, 500},
           Ongoing(c), Answers(c, code), Staged(c),
           code = 200 => call[c].op \in {"create", "delete"},
           Honest(c)'
    PROVE  /\ call' \in [Requests -> Call] /\ CallOK(c)'
           /\ \A s \in Requests \ {c} : call'[s] = call[s]
<1> DEFINE r == [NoCall EXCEPT !.op = call[c].op]
<1>1. r \in Call /\ r.op = call[c].op /\ code \in Nat
  <2>1. call[c].op \in Ops \cup {"none"}
    BY DEF Types, Call
  <2> QED
    BY <2>1, FreshCall
<1>2. call' = [call EXCEPT ![c] = Over(r, code)] /\ call'[c] = Over(r, code)
  BY DEF Types, Answers, Becomes
<1> HIDE DEF r
<1>3. /\ Over(r, code) \in Call /\ Over(r, code).at = "over"
      /\ Over(r, code).op = call[c].op /\ Over(r, code).answer = code
  BY <1>1, OverIs
<1>4. (Staged(c) /\ Staying(c) /\ Counting(c) /\ Growing(c) /\ Emptying(c))'
  BY <1>2, <1>3 DEF Staged, Staying, Counting, Growing, Emptying, Answered, Ongoing
<1> QED
  BY <1>2, <1>3, <1>4 DEF Types, CallOK

-----------------------------------------------------------------------------
(* The steps of a call.                                                    *)

LEMMA Became ==
    ASSUME Types, NEW c \in Requests, NEW r \in Call, Becomes(c, r)
    PROVE  /\ call' \in [Requests -> Call] /\ call'[c] = r
           /\ \A s \in Requests \ {c} : call'[s] = call[s]
  BY DEF Types, Becomes

\* What a call that asks for the bucket sees of it.
LEMMA Sees ==
    ASSUME Types, Observe, exists' \in BOOLEAN, NEW c \in Requests, Ongoing(c),
           call'[c].op \in {"create", "delete", "details"}
    PROVE  /\ SeenAbsent(c) \/ ~exists' => SeenAbsent(c)'
           /\ SeenThere(c) \/ exists' => SeenThere(c)'
<1>1. was'[c] = was[c] \cup {exists'}
  BY Observed
<1>2. (~exists' => exists' = FALSE) /\ (exists' => exists' = TRUE)
  BY Zenon
<1> QED
  BY <1>1, <1>2, Zenon DEF SeenAbsent, SeenThere

LEMMA RequestOK ==
    ASSUME Types, NEW c \in Requests, Handle(c)
    PROVE  /\ call' \in [Requests -> Call] /\ CallOK(c)' /\ Unchanged
           /\ \A s \in Requests \ {c} : call'[s] = call[s]
<1>1. PICK op \in Ops, at \in {"head", "list", "get"} :
         /\ Request(c, op, at)
         /\ <<op, at>> \in {<<"create", "head">>, <<"delete", "head">>, <<"details", "head">>,
                            <<"tree", "list">>, <<"stats", "list">>, <<"stream", "get">>}
  BY DEF Handle, create_bucket, delete_bucket, get_bucket, list_folder, get_folder_stats,
         download_object, Ops
<1> DEFINE r == [NoCall EXCEPT !.op = op, !.at = at]
<1>2. /\ r \in Call /\ r.op = op /\ r.at = at /\ r.found = {} /\ r.count = 0 /\ r.after = 0
  BY DEF NoCall, Call, Stages
<1>3. Becomes(c, r) /\ Unchanged /\ Observe /\ call[c].at = "idle"
  BY <1>1 DEF Request, Unchanged
<1> HIDE DEF r
<1>4. /\ call' \in [Requests -> Call] /\ call'[c] = r
      /\ \A s \in Requests \ {c} : call'[s] = call[s]
  BY <1>2, <1>3, Became
<1>5. (Staged(c) /\ Honest(c))'
  BY <1>1, <1>2, <1>4 DEF Staged, Honest, Answered
<1>6. r.op \in Listings => stayed'[c] = present'
  BY <1>2, <1>1, <1>3, <1>4, Observed
<1>7. Staying(c)'
  BY <1>4, <1>6 DEF Staying
<1>8. \A k \in Objects : ~(k <= 0)
  BY BucketsAssumption
<1>9. stayed'[c] \subseteq Objects
  BY <1>3, Observed DEF Types, Unchanged, store
<1>10. Counting(c)'
  <2>1. Cardinality({}) = 0
    BY FS_EmptySet
  <2> QED
    BY <1>1, <1>2, <1>4, <1>8, <1>9, <2>1 DEF Counting, Answered
<1>11. Growing(c)'
  <2>1. \A k \in stayed'[c] : ~(Last(EntryOf(k)) <= 0)
    BY <1>8, <1>9, EntryIs
  <2> QED
    BY <1>1, <1>2, <1>4, <2>1 DEF Growing, Answered
<1>12. Emptying(c)'
  BY <1>1, <1>2, <1>4, <1>8, <1>9 DEF Emptying
<1> QED
  BY <1>3, <1>4, <1>5, <1>7, <1>10, <1>11, <1>12 DEF CallOK

\* Moving on without reading anything.
LEMMA GoesOK ==
    ASSUME Types, Observe, NEW c \in Requests, CallOK(c), Ongoing(c),
           NEW at \in {"list", "create", "body"}, Goes(c, at), Staged(c)', Honest(c)',
           at = "list" => call[c].at = "head"
    PROVE  /\ call' \in [Requests -> Call] /\ CallOK(c)'
           /\ \A s \in Requests \ {c} : call'[s] = call[s]
<1> DEFINE r == [call[c] EXCEPT !.at = at]
<1>1. /\ r \in Call /\ r.at = at /\ r.op = call[c].op /\ r.found = call[c].found
      /\ r.count = call[c].count /\ r.after = call[c].after /\ r.lost = call[c].lost
  BY SMTT(30) DEF Types, Call, Stages
<1>2. Becomes(c, r)
  BY DEF Goes
<1> HIDE DEF r
<1>3. /\ call' \in [Requests -> Call] /\ call'[c] = r
      /\ \A s \in Requests \ {c} : call'[s] = call[s]
  BY <1>1, <1>2, Became
<1>4. Growing(c)'
  BY <1>1, <1>3 DEF CallOK, Staged, Growing, Answered
<1>5. /\ stayed'[c] \subseteq stayed[c]
      /\ stayed'[c] \subseteq present'
      /\ r.op \in Listings => seen[c] \subseteq seen'[c]
  BY <1>3, Observed
<1>6. Staying(c)'
  BY <1>3, <1>5 DEF Staying
<1>7. Counting(c)'
  <2>1. CASE at = "list" /\ call[c].op = "details"
    <3>1. call[c].at = "head" /\ Counting(c)
      BY <2>1 DEF CallOK
    <3> QED
      BY <1>1, <1>3, <1>5, <2>1, <3>1 DEF Counting, Answered, Listed, Listings
  <2>2. CASE ~(at = "list" /\ call[c].op = "details")
    <3>1. ~(r.op \in {"details", "stats"} /\ at = "list")
      BY <1>1, <2>2 DEF CallOK, Staged
    <3> QED
      BY <1>1, <1>3, <3>1 DEF Counting, Answered
  <2> QED
    BY <2>1, <2>2
<1>8. Emptying(c)'
  BY <1>1, <1>3, <1>5 DEF CallOK, Emptying
<1> QED
  BY <1>3, <1>4, <1>6, <1>7, <1>8 DEF CallOK

LEMMA AbsentOK ==
    ASSUME Types, NEW c \in Requests, CallOK(c), Absent(c)
    PROVE  /\ call' \in [Requests -> Call] /\ CallOK(c)'
           /\ \A s \in Requests \ {c} : call'[s] = call[s]
<1>1. /\ Observe /\ exists' = exists /\ exists' \in BOOLEAN /\ Ongoing(c) /\ Staged(c)
      /\ call[c].op = "create" /\ call[c].at = "head"
  BY DEF Types, CallOK, Absent, Unchanged, store, Ongoing
<1>2. CASE exists
  <2>1. Answers(c, 409)
    BY <1>2 DEF Absent
  <2>2. call'[c].op = "create" /\ call'[c].at = "over" /\ call'[c].answer = 409
    BY <1>1, <2>1 DEF Types, Answers, Becomes, Over, NoCall
  <2>3. Honest(c)'
    BY <1>1, <1>2, <2>2, Sees DEF Honest, Answered
  <2> QED
    BY <1>1, <2>1, <2>3, Ended
<1>3. CASE ~exists
  <2>1. Goes(c, "create")
    BY <1>3 DEF Absent
  <2>2. call'[c].op = "create" /\ call'[c].at = "create"
    BY <1>1, <2>1 DEF Types, Goes, Becomes, Call
  <2>3. Honest(c)' /\ Staged(c)'
    BY <1>1, <1>3, <2>2, Sees DEF Honest, Answered, Staged
  <2> QED
    BY <1>1, <2>1, <2>3, GoesOK
<1> QED
  BY <1>2, <1>3

LEMMA CreateOK ==
    ASSUME Types, NEW c \in Requests, CallOK(c), Create(c)
    PROVE  /\ call' \in [Requests -> Call] /\ CallOK(c)'
           /\ \A s \in Requests \ {c} : call'[s] = call[s]
<1>1. /\ Observe /\ exists' \in BOOLEAN /\ Ongoing(c) /\ Staged(c) /\ SeenAbsent(c)
      /\ call[c].op = "create" /\ Answers(c, 200)
  BY DEF Types, CallOK, Staged, Honest, Create, Created, Ongoing
<1>2. call'[c].op = "create" /\ call'[c].at = "over" /\ call'[c].answer = 200
  BY <1>1 DEF Types, Answers, Becomes, Over, NoCall
<1>3. Honest(c)'
  BY <1>1, <1>2, Sees DEF Honest, Answered
<1> QED
  BY <1>1, <1>3, Ended

LEMMA ExistsOK ==
    ASSUME Types, NEW c \in Requests, CallOK(c), Exists(c)
    PROVE  /\ call' \in [Requests -> Call] /\ CallOK(c)'
           /\ \A s \in Requests \ {c} : call'[s] = call[s]
<1>1. /\ Observe /\ exists' = exists /\ exists' \in BOOLEAN /\ Ongoing(c) /\ Staged(c)
      /\ call[c].op \in {"delete", "details"} /\ call[c].at = "head"
  BY DEF Types, CallOK, Exists, Unchanged, store, Ongoing
<1>2. CASE exists
  <2>1. Goes(c, "list")
    BY <1>2 DEF Exists
  <2>2. call'[c].op = call[c].op /\ call'[c].at = "list"
    BY <1>1, <2>1 DEF Types, Goes, Becomes, Call
  <2>3. Honest(c)' /\ Staged(c)'
    BY <1>1, <1>2, <2>2, Sees DEF Honest, Answered, Staged
  <2> QED
    BY <1>1, <2>1, <2>3, GoesOK
<1>3. CASE ~exists
  <2>1. Answers(c, 404)
    BY <1>3 DEF Exists
  <2>2. call'[c].op = call[c].op /\ call'[c].at = "over" /\ call'[c].answer = 404
    BY <1>1, <2>1 DEF Types, Answers, Becomes, Over, NoCall
  <2>3. Honest(c)'
    BY <1>1, <1>3, <2>2, Sees DEF Honest, Answered
  <2> QED
    BY <1>1, <2>1, <2>3, Ended
<1> QED
  BY <1>2, <1>3

LEMMA FailsOK ==
    ASSUME Types, NEW c \in Requests, CallOK(c), S3Fails(c)
    PROVE  /\ call' \in [Requests -> Call] /\ CallOK(c)'
           /\ \A s \in Requests \ {c} : call'[s] = call[s]
<1>1. /\ Observe /\ Ongoing(c) /\ Staged(c) /\ Answers(c, 500)
  BY DEF CallOK, S3Fails, Unchanged, Ongoing
<1>2. call'[c].op = call[c].op /\ call'[c].at = "over" /\ call'[c].answer = 500
  BY <1>1 DEF Types, Answers, Becomes, Over, NoCall
<1>3. Honest(c)'
  BY <1>2 DEF Honest, Answered
<1> QED
  BY <1>1, <1>3, Ended

LEMMA EmptyOK ==
    ASSUME Types, NEW c \in Requests, CallOK(c), Empty(c)
    PROVE  /\ call' \in [Requests -> Call] /\ CallOK(c)'
           /\ \A s \in Requests \ {c} : call'[s] = call[s]
<1>1. /\ Observe /\ exists' = exists /\ exists' \in BOOLEAN /\ Ongoing(c) /\ Staged(c)
      /\ call[c].op = "delete" /\ call[c].at = "empty" /\ SeenThere(c) /\ call[c] \in Call
  BY DEF Types, CallOK, Staged, Honest, Empty, Emptied, Ongoing
<1>2. PICK failed \in SUBSET call[c].page :
         /\ present' = present \ (call[c].page \ failed)
         /\ Becomes(c, [call[c] EXCEPT !.at = IF call[c].cut THEN "list" ELSE "remove",
                                       !.lost = @ \cup failed])
  BY DEF Empty, Emptied
<1> DEFINE at == IF call[c].cut THEN "list" ELSE "remove"
           r == [call[c] EXCEPT !.at = at, !.lost = @ \cup failed]
<1>3. /\ r \in Call /\ r.op = "delete" /\ r.at = at /\ r.lost = call[c].lost \cup failed
      /\ r.after = call[c].after /\ Becomes(c, r)
  <2>1. at \in {"list", "remove"} /\ call[c].lost \cup failed \in SUBSET Objects
    BY <1>1 DEF Call
  <2>2. r = GoneOn(call[c], at, call[c].lost \cup failed) /\ Becomes(c, r)
    BY <1>2 DEF GoneOn
  <2> HIDE DEF r, at
  <2> QED
    BY <1>1, <2>1, <2>2, GoneOnIs DEF Stages
<1>4. at \in {"list", "remove"} /\ (at = "remove" => ~call[c].cut)
  OBVIOUS
<1> HIDE DEF r, at
<1>5. /\ call' \in [Requests -> Call] /\ call'[c] = r
      /\ \A s \in Requests \ {c} : call'[s] = call[s]
  BY <1>3, Became
<1>6. SeenThere(c)'
  BY <1>1, <1>3, <1>5, Sees
<1>7. stayed'[c] \subseteq stayed[c] /\ stayed'[c] \subseteq present'
  BY <1>1, Observed
<1>8. Emptying(c)'
  <2>1. \A k \in stayed'[c] : k \in call[c].page => k \in failed
    BY <1>2, <1>7
  <2>2. ASSUME NEW k \in stayed'[c], k <= call[c].after \/ ~call[c].cut
        PROVE  k \in r.lost
    <3>1. k \in call[c].lost \cup call[c].page
      BY <1>1, <1>7, <2>2 DEF CallOK, Emptying
    <3> QED
      BY <1>3, <2>1, <3>1
  <2> QED
    BY <1>3, <1>4, <1>5, <2>2 DEF Emptying
<1>9. (Staged(c) /\ Honest(c) /\ Staying(c) /\ Counting(c) /\ Growing(c))'
  BY <1>3, <1>4, <1>5, <1>6, <1>7 DEF Staged, Honest, Staying, Counting, Growing, Answered
<1> QED
  BY <1>5, <1>8, <1>9 DEF CallOK

LEMMA EmptiesNothingOK ==
    ASSUME Types, NEW c \in Requests, CallOK(c), EmptiesNothing(c)
    PROVE  /\ call' \in [Requests -> Call] /\ CallOK(c)'
           /\ \A s \in Requests \ {c} : call'[s] = call[s]
<1>1. /\ Observe /\ exists' = exists /\ exists' \in BOOLEAN /\ Ongoing(c) /\ Staged(c)
      /\ call[c].op = "delete" /\ Answers(c, 404) /\ ~exists
  BY DEF Types, CallOK, Staged, EmptiesNothing, Unchanged, store, Ongoing
<1>2. call'[c].op = "delete" /\ call'[c].at = "over" /\ call'[c].answer = 404
  BY <1>1 DEF Types, Answers, Becomes, Over, NoCall
<1>3. Honest(c)'
  BY <1>1, <1>2, Sees DEF Honest, Answered
<1> QED
  BY <1>1, <1>3, Ended

LEMMA RemoveOK ==
    ASSUME Types, NEW c \in Requests, CallOK(c), Remove(c)
    PROVE  /\ call' \in [Requests -> Call] /\ CallOK(c)'
           /\ \A s \in Requests \ {c} : call'[s] = call[s]
<1>1. /\ Observe /\ exists' = (exists /\ present # {}) /\ exists' \in BOOLEAN
      /\ Ongoing(c) /\ Staged(c) /\ call[c].op = "delete" /\ SeenThere(c)
  BY DEF Types, CallOK, Staged, Honest, Remove, Removed, Ongoing
<1>2. PICK code \in {200, 400, 404} : Answers(c, code) /\ (code = 404 => ~exists)
  <2>1. CASE ~exists
    BY <2>1 DEF Remove
  <2>2. CASE exists /\ present # {}
    BY <2>2 DEF Remove
  <2>3. CASE exists /\ present = {}
    BY <2>3 DEF Remove
  <2> QED
    BY <2>1, <2>2, <2>3
<1>3. call'[c].op = "delete" /\ call'[c].at = "over" /\ call'[c].answer = code
  BY <1>1, <1>2 DEF Types, Answers, Becomes, Over, NoCall
<1>4. Honest(c)'
  BY <1>1, <1>2, <1>3, Sees DEF Honest, Answered
<1> QED
  BY <1>1, <1>2, <1>4, Ended

LEMMA AnswerLostOK ==
    ASSUME Types, NEW c \in Requests, CallOK(c), AnswerLost(c)
    PROVE  /\ call' \in [Requests -> Call] /\ CallOK(c)'
           /\ \A s \in Requests \ {c} : call'[s] = call[s]
<1>1. Observe /\ Ongoing(c) /\ Staged(c)
  BY DEF CallOK, AnswerLost, Ongoing
<1>2. CASE UNCHANGED call
  BY <1>1, <1>2, Bystander DEF Types
<1>3. CASE Answers(c, 500)
  <2>1. call'[c].op = call[c].op /\ call'[c].at = "over" /\ call'[c].answer = 500
    BY <1>3 DEF Types, Answers, Becomes, Over, NoCall
  <2>2. Honest(c)'
    BY <2>1 DEF Honest, Answered
  <2> QED
    BY <1>1, <1>3, <2>2, Ended
<1> QED
  BY <1>2, <1>3 DEF AnswerLost

\* One page: it begins after the last key listed, and the rest comes after it.
LEMMA PageIs ==
    ASSUME Types, NEW c \in Requests, NEW page, page = First(PageSize, Ahead(c))
    PROVE  /\ page \subseteq Ahead(c) /\ Ahead(c) \in SUBSET Objects
           /\ Reached(c, page) \in Nat /\ Counted(c, page) \in Nat
           /\ call[c].after <= Reached(c, page)
           /\ \A k \in page : k <= Reached(c, page)
           /\ \A k \in Ahead(c) \ page : ~(k <= Reached(c, page))
<1>1. call[c].after \in Nat /\ call[c].count \in Nat
  BY DEF Types, Call
<1>2. Ahead(c) \in SUBSET Objects /\ Ahead(c) \subseteq Nat /\ \A k \in Ahead(c) : k > call[c].after
  BY Finite DEF Ahead, Types
<1>3. /\ page \subseteq Ahead(c) /\ page \in SUBSET Objects
      /\ \A k \in page, j \in Ahead(c) \ page : k < j
  BY <1>2, FirstIsFirst, BucketsAssumption
<1>4. Counted(c, page) \in Nat
  BY <1>1, <1>3, Finite DEF Counted
<1>5. CASE page = {}
  BY <1>1, <1>2, <1>4, <1>5 DEF Reached
<1>6. CASE page # {}
  <2>1. Reached(c, page) = Last(page) /\ Last(page) \in page /\ \A k \in page : k <= Last(page)
    BY <1>3, <1>6, LastIsLast DEF Reached
  <2>2. \A k \in Ahead(c) \ page : Last(page) < k
    BY <1>3, <2>1
  <2>3. \A k \in Ahead(c) \ page : ~(k <= Last(page))
    BY <1>2, <1>3, <2>1, <2>2
  <2>4. Last(page) \in Nat /\ call[c].after <= Last(page)
    BY <1>1, <1>2, <1>3, <2>1
  <2> QED
    BY <1>2, <1>3, <1>4, <2>1, <2>3, <2>4
<1> QED
  BY <1>5, <1>6

\* While something is ahead, a page has something.
LEMMA PageNotEmpty ==
    ASSUME NEW c \in Requests, Types, First(PageSize, Ahead(c)) = {}
    PROVE  Ahead(c) = {}
<1> SUFFICES ASSUME Ahead(c) # {} PROVE FALSE
  OBVIOUS
<1> DEFINE K == Ahead(c)
<1>1. K \in SUBSET Objects /\ K # {}
  BY DEF Ahead, Types
<1> HIDE DEF K
<1>2. PICK k \in K : \A j \in K : k <= j
  BY <1>1, HasFirst
<1> DEFINE upto == {j \in K : j <= k}
<1>3. upto = {k}
  BY <1>1, <1>2, Finite
<1>4. Cardinality(upto) = 1
  BY <1>3, FS_Singleton
<1>5. k \in First(PageSize, K)
  BY <1>4, BucketsAssumption DEF First
<1> QED
  BY <1>5 DEF K

LEMMA NextPageOK ==
    ASSUME Types, NEW c \in Requests, CallOK(c), NextPage(c)
    PROVE  /\ call' \in [Requests -> Call] /\ CallOK(c)'
           /\ \A s \in Requests \ {c} : call'[s] = call[s]
<1> DEFINE page == First(PageSize, Ahead(c))
           more == page # Ahead(c)
           read == [call[c] EXCEPT
                      !.after = Reached(c, page), !.found = @ \cup page,
                      !.count = Counted(c, page), !.page = page, !.cut = more]
<1>1. /\ Observe /\ exists' = exists /\ present' = present /\ exists' \in BOOLEAN
      /\ Ongoing(c) /\ Staged(c)
      /\ call[c].op \in {"delete", "details", "stats"} /\ call[c].at = "list"
  BY DEF Types, CallOK, NextPage, Unchanged, store, Ongoing
<1>2. /\ page \subseteq Ahead(c) /\ Ahead(c) \in SUBSET Objects
      /\ Reached(c, page) \in Nat /\ Counted(c, page) \in Nat
      /\ call[c].after <= Reached(c, page)
      /\ \A k \in page : k <= Reached(c, page)
      /\ \A k \in Ahead(c) \ page : ~(k <= Reached(c, page))
  BY PageIs
<1>3. /\ ~exists => Answers(c, IF call[c].op = "delete" THEN 404 ELSE 500)
      /\ exists /\ call[c].op = "delete" =>
            Becomes(c, [read EXCEPT !.at = IF page = {} THEN "remove" ELSE "empty"])
      /\ exists /\ call[c].op # "delete" => Becomes(c, IF more THEN read ELSE Over(read, 200))
  BY DEF NextPage
<1>4. more \in BOOLEAN
  OBVIOUS
<1> HIDE DEF page, more
<1>5. /\ read \in Call /\ read.op = call[c].op /\ read.at = call[c].at
      /\ read.after = Reached(c, page) /\ read.found = call[c].found \cup page
      /\ read.count = Counted(c, page) /\ read.page = page /\ read.cut = more
      /\ read.lost = call[c].lost
  <2>1. page \in SUBSET Objects /\ call[c] \in Call
    BY <1>2 DEF Types
  <2>2. read \in Call
    BY <1>2, <1>4, <2>1 DEF Call
  <2>3. /\ read.op = call[c].op /\ read.at = call[c].at /\ read.after = Reached(c, page)
        /\ read.found = call[c].found \cup page /\ read.count = Counted(c, page)
        /\ read.page = page /\ read.cut = more /\ read.lost = call[c].lost
    BY <2>1 DEF Call
  <2> QED
    BY <2>2, <2>3
<1> HIDE DEF read
<1>6. CASE ~exists
  <2>1. PICK code \in {404, 500} :
           /\ Answers(c, code)
           /\ code = 404 <=> call[c].op = "delete"
    BY <1>3, <1>6
  <2>2. call'[c].op = call[c].op /\ call'[c].at = "over" /\ call'[c].answer = code
    BY <1>1, <2>1 DEF Types, Answers, Becomes, Over, NoCall
  <2>3. Honest(c)'
    BY <1>1, <1>6, <2>1, <2>2, Sees DEF Honest, Answered
  <2>4. /\ call' \in [Requests -> Call] /\ CallOK(c)'
        /\ \A s \in Requests \ {c} : call'[s] = call[s]
    BY <1>1, <2>1, <2>3, Ended
  <2> QED
    BY <2>4
<1>7. CASE exists /\ call[c].op = "delete"
  <2>1. PICK at \in {"remove", "empty"} :
           Becomes(c, [read EXCEPT !.at = at]) /\ (at = "remove" <=> page = {})
    BY <1>3, <1>7
  <2> DEFINE r == [read EXCEPT !.at = at]
  <2>2. /\ r \in Call /\ r.op = "delete" /\ r.at = at /\ Becomes(c, r)
        /\ r.after = Reached(c, page) /\ r.page = page /\ r.cut = more /\ r.lost = call[c].lost
    BY <1>5, <1>7, <2>1, SMTT(30) DEF Call, Stages
  <2> HIDE DEF r
  <2>3. /\ call' \in [Requests -> Call] /\ call'[c] = r
        /\ \A s \in Requests \ {c} : call'[s] = call[s]
    BY <2>2, Became
  <2>4. SeenThere(c) /\ SeenThere(c)'
    BY <1>1, <1>7, <2>2, <2>3, Sees DEF CallOK, Honest
  <2>5. stayed'[c] \subseteq stayed[c] /\ stayed'[c] \subseteq present' /\ stayed'[c] \subseteq Objects
    BY <1>1, Observed DEF Types
  <2>6. ASSUME NEW k \in stayed'[c] PROVE k \in call[c].lost \/ k \in Ahead(c)
    <3>1. CASE k <= call[c].after
      BY <1>1, <1>7, <2>5, <3>1 DEF CallOK, Emptying
    <3>2. CASE ~(k <= call[c].after)
      <4>1. k \in Objects /\ k \in Nat /\ call[c].after \in Nat /\ k \in present
        BY <1>1, <2>5, Finite DEF Types, Call
      <4> QED
        BY <1>7, <3>2, <4>1 DEF Ahead, Listed
    <3> QED
      BY <3>1, <3>2
  <2>7. Emptying(c)'
    <3>1. \A k \in stayed'[c] :
             k <= Reached(c, page) \/ ~more => k \in call[c].lost \cup page
      BY <1>2, <2>6 DEF more
    <3>2. page = {} => ~more
      <4>1. page = {} => Ahead(c) = {}
        BY PageNotEmpty DEF page
      <4> QED
        BY <4>1 DEF more
    <3> QED
      BY <2>1, <2>2, <2>3, <3>1, <3>2 DEF Emptying
  <2>8. (Staged(c) /\ Honest(c) /\ Staying(c) /\ Counting(c) /\ Growing(c))'
    BY <2>1, <2>2, <2>3, <2>4, <2>5 DEF Staged, Honest, Staying, Counting, Growing, Answered
  <2> QED
    BY <2>3, <2>7, <2>8 DEF CallOK
<1>8. CASE exists /\ call[c].op # "delete"
  <2>1. PICK r \in {read, Over(read, 200)} : Becomes(c, r) /\ (r.at = "over" => ~more)
    <3>1. read.at # "over" /\ Becomes(c, IF more THEN read ELSE Over(read, 200))
      BY <1>1, <1>3, <1>5, <1>8
    <3> QED
      BY <3>1
  <2>2. /\ r \in Call /\ r.op = call[c].op /\ r.found = call[c].found \cup page
        /\ r.count = Counted(c, page) /\ r.at \in {"list", "over"}
        /\ r.at = "list" => r.after = Reached(c, page)
    BY <1>1, <1>5, <2>1, OverIs
  <2>3. /\ call' \in [Requests -> Call] /\ call'[c] = r
        /\ \A s \in Requests \ {c} : call'[s] = call[s]
    BY <2>1, <2>2, Became
  <2>4. /\ stayed'[c] \subseteq stayed[c] /\ stayed'[c] \subseteq Objects
        /\ stayed'[c] \subseteq present
        /\ seen'[c] = seen[c] \cup present
    <3>2. r.op \in Listings
      BY <1>1, <1>8, <2>2 DEF Listings
    <3>3. stayed[c] \in SUBSET Objects
      BY DEF Types
    <3> QED
      BY <1>1, <2>3, <3>2, <3>3, Observed
  <2>5. /\ call[c].count = Cardinality(call[c].found) /\ call[c].found \subseteq seen[c]
        /\ \A k \in call[c].found : k <= call[c].after
        /\ \A k \in stayed[c] \cap Listed(c) : k <= call[c].after => k \in call[c].found
        /\ call[c].found \in SUBSET Objects /\ call[c].after \in Nat
    BY <1>1, <1>8 DEF CallOK, Counting, Types, Call
  <2>6. \A k \in Ahead(c) : k \in Objects /\ k \in Nat /\ k \in present /\ k > call[c].after
    BY <1>2, Finite DEF Ahead
  <2>7. Counted(c, page) = Cardinality(call[c].found \cup page)
    <3>1. call[c].found \cap page = {}
      <4> SUFFICES ASSUME NEW k \in call[c].found, k \in page PROVE FALSE
        OBVIOUS
      <4> QED
        BY <1>2, <2>5, <2>6
    <3>2. /\ IsFiniteSet(call[c].found) /\ IsFiniteSet(page)
          /\ Cardinality(call[c].found) \in Nat /\ Cardinality(page) \in Nat
      BY <1>2, <2>5, Finite
    <3>3. Cardinality({}) = 0
      BY FS_EmptySet
    <3>4. Cardinality(call[c].found \cup page)
             = Cardinality(call[c].found) + Cardinality(page) - Cardinality(call[c].found \cap page)
      BY <3>2, FS_Union
    <3>5. Cardinality(call[c].found \cap page) = 0
      BY <3>1, <3>3
    <3> QED
      BY <2>5, <3>2, <3>4, <3>5 DEF Counted
  <2>8. call[c].found \cup page \subseteq seen'[c]
    BY <1>2, <2>4, <2>5, <2>6
  <2>9. \A k \in call[c].found \cup page : k <= Reached(c, page)
    <3>1. ASSUME NEW k \in call[c].found PROVE k <= Reached(c, page)
      <4>1. k \in Nat /\ k <= call[c].after
        BY <2>5, Finite
      <4> QED
        BY <1>2, <2>5, <4>1
    <3> QED
      BY <1>2, <3>1
  <2>10. ASSUME NEW k \in stayed'[c], k \in Listed(c)
         PROVE  k \in call[c].found \/ k \in Ahead(c)
    <3>1. CASE k <= call[c].after
      BY <2>4, <2>5, <2>10, <3>1
    <3>2. CASE ~(k <= call[c].after)
      <4>1. k \in Objects /\ k \in Nat /\ k > call[c].after /\ k \in present
        BY <2>4, <2>5, <3>2, Finite
      <4> QED
        BY <2>10, <4>1 DEF Ahead
    <3> QED
      BY <3>1, <3>2
  <2>11. Listed(c)' = Listed(c)
    BY <2>2, <2>3 DEF Listed
  <2>12. Counting(c)'
    <3>1. \A k \in stayed'[c] \cap Listed(c) :
             k <= Reached(c, page) => k \in call[c].found \cup page
      BY <1>2, <2>10
    <3>2. ~more => stayed'[c] \cap Listed(c) \subseteq call[c].found \cup page
      BY <2>10 DEF more
    <3> QED
      BY <2>1, <2>2, <2>3, <2>7, <2>8, <2>9, <2>11, <3>1, <3>2 DEF Counting, Answered
  <2>13. Staying(c)'
    BY <1>1, <2>3, <2>4 DEF Staying
  <2>14. (Staged(c) /\ Honest(c) /\ Growing(c) /\ Emptying(c))'
    <3>1. r.at = "over" => r.answer = 200
      BY <1>1, <1>5, <2>1, OverIs
    <3> QED
      BY <1>1, <1>8, <2>2, <2>3, <3>1 DEF Staged, Honest, Growing, Emptying, Answered
  <2> QED
    BY <2>3, <2>12, <2>13, <2>14 DEF CallOK
<1> QED
  BY <1>6, <1>7, <1>8

\* A page of the top level: the entries ahead that it leaves out come after it.
LEMMA LevelPageIs ==
    ASSUME Types, NEW c \in Requests, NEW page, page = FirstEntries(PageSize, EntriesAhead(c))
    PROVE  /\ page \subseteq EntriesAhead(c) /\ UNION page \in SUBSET Objects
           /\ (UNION page) \cap Top \subseteq present /\ Reached(c, UNION page) \in Nat
           /\ \A e \in EntriesAhead(c) \ page : ~(Last(e) <= Reached(c, UNION page))
<1> DEFINE ahead == EntriesAhead(c)
           marks == {Last(e) : e \in ahead}
           keys  == UNION page
<1>1. /\ ahead \subseteq Entries
      /\ \A e \in ahead : e \in SUBSET Objects /\ e # {} /\ Last(e) > call[c].after
  <2>1. \A k \in present \cap Top : {k} \in SUBSET Objects /\ {k} # {}
    BY DEF Types, Top
  <2>2. \A F \in Folders : F \in SUBSET Objects /\ F # {}
    BY BucketsAssumption
  <2>3. \A e \in Entries : e \in SUBSET Objects /\ e # {}
    BY <2>1, <2>2 DEF Entries
  <2> QED
    BY <2>3 DEF EntriesAhead
<1>2. \A e \in ahead : Last(e) \in e /\ Last(e) \in Objects /\ \A k \in e : k <= Last(e)
  BY <1>1, LastIsLast
<1>3. page = {e \in ahead : Last(e) \in First(PageSize, marks)}
  BY DEF FirstEntries
<1>4. marks \in SUBSET Objects
  BY <1>2
<1>5. \A m \in First(PageSize, marks), n \in marks \ First(PageSize, marks) : m < n
  BY <1>4, FirstIsFirst, BucketsAssumption
<1>6. call[c].after \in Nat
  BY DEF Types, Call
<1>7. page \subseteq ahead /\ keys \in SUBSET Objects
  BY <1>1, <1>3
<1>8. keys \cap Top \subseteq present
  <2>1. \A e \in Entries : e \cap Top \subseteq present
    BY DEF Entries, Top
  <2> QED
    BY <1>1, <1>7, <2>1
<1>9. CASE keys = {}
  <2>1. Reached(c, keys) = call[c].after
    BY <1>9 DEF Reached
  <2>2. \A e \in ahead : ~(Last(e) <= call[c].after)
    BY <1>1, <1>2, <1>6, Finite
  <2> QED
    BY <1>6, <1>7, <1>8, <2>1, <2>2
<1>10. CASE keys # {}
  <2>1. Reached(c, keys) = Last(keys)
    BY <1>10 DEF Reached
  <2> HIDE DEF keys
  <2>2. Last(keys) \in keys
    BY <1>7, <1>10, LastIsLast
  <2>3. PICK d \in page : Last(keys) \in d
    BY <2>2 DEF keys
  <2>4. Last(keys) <= Last(d) /\ Last(d) \in First(PageSize, marks)
    BY <1>2, <1>3, <1>7, <2>3
  <2>5. ASSUME NEW e \in ahead \ page PROVE ~(Last(e) <= Last(keys))
    <3>1. Last(e) \in marks \ First(PageSize, marks)
      BY <1>3, <2>5
    <3> DEFINE le == Last(e)
               ld == Last(d)
               lk == Last(keys)
    <3>2. le \in Nat /\ ld \in Nat /\ lk \in Nat
      BY <1>2, <1>7, <2>2, <2>3, Finite
    <3>3. ld < le /\ lk <= ld
      BY <1>5, <2>4, <3>1
    <3> HIDE DEF le, ld, lk
    <3>4. ~(le <= lk)
      BY <3>2, <3>3
    <3> QED
      BY <3>4 DEF le, lk
  <2>6. Last(keys) \in Nat
    BY <1>7, <2>2, Finite
  <2> QED
    BY <1>7, <1>8, <2>1, <2>5, <2>6 DEF keys
<1> QED
  BY <1>9, <1>10

LEMMA LevelOK ==
    ASSUME Types, NEW c \in Requests, CallOK(c), Level(c)
    PROVE  /\ call' \in [Requests -> Call] /\ CallOK(c)'
           /\ \A s \in Requests \ {c} : call'[s] = call[s]
<1>1. /\ Observe /\ exists' = exists /\ present' = present /\ exists' \in BOOLEAN
      /\ Ongoing(c) /\ Staged(c) /\ call[c].op = "tree" /\ call[c].at = "list"
      /\ call[c] \in Call
  BY DEF Types, CallOK, Level, Unchanged, store, Ongoing
<1> DEFINE page  == FirstEntries(PageSize, EntriesAhead(c))
           more  == page # EntriesAhead(c)
           files == (UNION page) \cap Top
           shown == First(PageSize - call[c].count, files)
           full  == call[c].count + Cardinality(files) >= PageSize
           after == Reached(c, UNION page)
           found == call[c].found \cup shown
           count == call[c].count + Cardinality(shown)
           left  == call[c].left \cup (page \cap Folders)
           cut   == more \/ shown # files
           read  == [call[c] EXCEPT !.after = after, !.found = @ \cup shown,
                       !.count = @ + Cardinality(shown),
                       !.left = @ \cup (page \cap Folders), !.cut = cut]
<1>2. /\ ~exists => Answers(c, 500)
      /\ exists /\ more /\ ~full => Becomes(c, read)
      /\ exists /\ ~(more /\ ~full) => LevelRead(c, read)
  BY DEF Level
<1>3. /\ page \subseteq EntriesAhead(c) /\ UNION page \in SUBSET Objects
      /\ files \subseteq present /\ after \in Nat
      /\ \A e \in EntriesAhead(c) \ page : ~(Last(e) <= after)
  BY LevelPageIs
<1>4. files \in SUBSET Objects /\ shown \subseteq files /\ Cardinality(shown) \in Nat
  <2>1. files \in SUBSET Objects
    BY <1>3
  <2>2. shown \subseteq files
    BY DEF First
  <2> HIDE DEF shown, files
  <2> QED
    BY <2>1, <2>2, Finite
<1>5. ~full => shown = files
  <2>1. call[c].count \in Nat /\ PageSize \in Nat
    BY <1>1, BucketsAssumption DEF Call
  <2>2. Cardinality(files) \in Nat
    BY <1>4, Finite
  <2> DEFINE room == PageSize - call[c].count
  <2>3. room \in Int /\ (~full => Cardinality(files) <= room)
    BY <2>1, <2>2
  <2> HIDE DEF room, files
  <2>4. ~full => First(room, files) = files
    BY <1>4, <2>3, FirstIsAll
  <2> QED
    BY <2>4 DEF room
<1>6. CASE ~exists
  <2>1. Answers(c, 500)
    BY <1>2, <1>6
  <2>2. call'[c].op = "tree" /\ call'[c].at = "over" /\ call'[c].answer = 500
    BY <1>1, <2>1 DEF Types, Answers, Becomes, Over, NoCall
  <2>3. Honest(c)'
    BY <2>2 DEF Honest, Answered
  <2> QED
    BY <1>1, <2>1, <2>3, Ended
<1>7. CASE exists
  <2>1. /\ stayed'[c] \subseteq stayed[c] /\ stayed'[c] \subseteq present
        /\ stayed'[c] \subseteq Objects
    BY <1>1, Observed DEF Types
  \* What stayed is read already, or ahead; and what is ahead is on the page, or after it.
  <2>2. ASSUME NEW k \in stayed'[c]
        PROVE  \/ k \in call[c].found \cup UNION call[c].left
               \/ EntryOf(k) \in EntriesAhead(c) /\ ~(Last(EntryOf(k)) <= call[c].after)
    <3>1. CASE Last(EntryOf(k)) <= call[c].after
      BY <1>1, <2>1, <3>1 DEF CallOK, Growing
    <3>2. CASE ~(Last(EntryOf(k)) <= call[c].after)
      <4>1. EntryOf(k) \in Entries /\ Last(EntryOf(k)) \in Nat /\ call[c].after \in Nat
        BY <1>1, <2>1, EntryIs, Finite DEF Call
      <4> QED
        BY <3>2, <4>1 DEF EntriesAhead
    <3> QED
      BY <3>1, <3>2
  <2>3. ASSUME NEW k \in stayed'[c], EntryOf(k) \in page
        PROVE  k \in files \cup UNION left
    <3>1. k \in EntryOf(k) /\ (k \in Top \/ EntryOf(k) \in Folders)
      BY <2>1, EntryIs
    <3> QED
      BY <2>3, <3>1
  <2>4. ASSUME NEW k \in stayed'[c], Last(EntryOf(k)) <= after \/ ~more
        PROVE  k \in call[c].found \cup files \cup UNION left
    <3>1. CASE k \in call[c].found \cup UNION call[c].left
      BY <3>1
    <3>2. CASE EntryOf(k) \in EntriesAhead(c)
      <4>1. EntryOf(k) \in page
        BY <1>3, <2>4, <3>2
      <4> QED
        BY <2>3, <4>1
    <3> QED
      BY <2>2, <3>1, <3>2
  <2>5. /\ found \in SUBSET Objects /\ count \in Nat /\ left \in SUBSET Folders
        /\ cut \in BOOLEAN
    <3>1. /\ call[c].found \in SUBSET Objects /\ call[c].count \in Nat
          /\ call[c].left \in SUBSET Folders /\ shown \in SUBSET Objects
      BY <1>1, <1>4 DEF Call
    <3> HIDE DEF shown, files, page, more
    <3> QED
      BY <1>4, <3>1
  <2>6. /\ \A k \in stayed'[c] : Last(EntryOf(k)) <= after /\ ~full => k \in found \cup UNION left
        /\ ~cut => stayed'[c] \subseteq found \cup UNION left
    BY <1>5, <2>4
  <2>7. found \subseteq call[c].found \cup present
    BY <1>3, <1>4
  <2>8. read = ReadOn(call[c], after, found, count, left, cut)
    BY DEF ReadOn
  <2>9. ~(more /\ ~full) \/ ~full
    OBVIOUS
  <2> HIDE DEF read, found, count, left, cut, after, full, more, files, shown, page
  <2>10. /\ read \in Call /\ read.op = "tree" /\ read.at = "list" /\ read.found = found
         /\ read.left = left /\ read.after = after /\ read.cut = cut
    BY <1>1, <1>3, <2>5, <2>8, ReadOnIs
  <2>11. PICK r \in Call :
            /\ Becomes(c, r) /\ r.op = "tree" /\ r.at \in {"list", "children", "over"}
            /\ r.found = found /\ r.left = left
            /\ r.at = "list" => r.after = after /\ ~full
            /\ r.at = "over" => r.answer = 200 /\ (~r.cut => left = {})
            /\ ~r.cut => ~cut
    <3>1. CASE more /\ ~full
      BY <1>2, <1>7, <2>10, <3>1
    <3>2. CASE ~(more /\ ~full)
      <4>1. PICK deep \in BOOLEAN :
               Becomes(c, IF deep /\ read.left # {} THEN [read EXCEPT !.at = "children"]
                          ELSE Over([read EXCEPT !.cut = @ \/ read.left # {}], 200))
        BY <1>2, <1>7, <3>2 DEF LevelRead
      <4>2. CASE deep /\ read.left # {}
        <5> DEFINE r == [read EXCEPT !.at = "children"]
        <5>1. /\ r \in Call /\ r.op = "tree" /\ r.at = "children" /\ r.found = found
              /\ r.left = left /\ r.cut = cut
          BY <2>10, SMTT(30) DEF Call, Stages
        <5>2. Becomes(c, r)
          BY <4>1, <4>2
        <5> HIDE DEF r
        <5> QED
          BY <5>1, <5>2
      <4>3. CASE ~(deep /\ read.left # {})
        <5> DEFINE whole == cut \/ left # {}
                   t == [read EXCEPT !.cut = whole]
        <5>1. whole \in BOOLEAN
          BY <2>5
        <5>2. Becomes(c, Over(t, 200))
          BY <2>10, <4>1, <4>3
        <5> HIDE DEF whole
        <5>3. t \in Call /\ t.op = "tree" /\ t.found = found /\ t.left = left /\ t.cut = whole
          BY <2>10, <5>1, SMTT(30) DEF Call
        <5> HIDE DEF t
        <5>4. /\ Over(t, 200) \in Call /\ Over(t, 200).op = "tree" /\ Over(t, 200).at = "over"
              /\ Over(t, 200).found = found /\ Over(t, 200).left = left
              /\ Over(t, 200).cut = whole /\ Over(t, 200).answer = 200
          BY <5>3, OverIs
        <5>5. ~whole => ~cut /\ left = {}
          BY DEF whole
        <5> QED
          BY <5>2, <5>4, <5>5
      <4> QED
        BY <4>2, <4>3
    <3> QED
      BY <3>1, <3>2
  <2>12. /\ call' \in [Requests -> Call] /\ call'[c] = r
         /\ \A s \in Requests \ {c} : call'[s] = call[s]
    BY <2>11, Became
  <2>13. seen'[c] = seen[c] \cup present
    BY <1>1, <2>11, <2>12, Observed DEF Listings
  <2>14. Growing(c)'
    <3>1. r.found \subseteq seen'[c]
      BY <1>1, <2>7, <2>11, <2>13 DEF CallOK, Growing
    <3>2. r.at = "list" => \A k \in stayed'[c] :
             Last(EntryOf(k)) <= r.after => k \in r.found \cup UNION r.left
      BY <2>6, <2>11
    <3>3. ~r.cut => stayed'[c] \subseteq r.found \cup UNION r.left
      BY <2>6, <2>11
    <3>4. r.at = "over" /\ ~r.cut => UNION r.left = {}
      BY <2>11
    <3> QED
      BY <2>12, <3>1, <3>2, <3>3, <3>4 DEF Growing, Answered
  <2>15. Staying(c)'
    BY <1>1, <2>1, <2>12 DEF Staying
  <2>16. (Staged(c) /\ Honest(c) /\ Counting(c) /\ Emptying(c))'
    BY <2>11, <2>12 DEF Staged, Honest, Counting, Emptying, Answered
  <2> QED
    BY <2>12, <2>14, <2>15, <2>16 DEF CallOK
<1> QED
  BY <1>6, <1>7

LEMMA ChildrenOK ==
    ASSUME Types, NEW c \in Requests, CallOK(c), Children(c)
    PROVE  /\ call' \in [Requests -> Call] /\ CallOK(c)'
           /\ \A s \in Requests \ {c} : call'[s] = call[s]
<1>1. /\ Observe /\ present' = present /\ Ongoing(c) /\ call[c].op = "tree"
      /\ call[c].at = "children" /\ call[c] \in Call /\ Growing(c)
  BY DEF Types, CallOK, Staged, Children, Unchanged, store, Ongoing
<1> DEFINE children(F) == First(PageSize, F \cap present)
           told(F, ok) == [call[c] EXCEPT
                    !.found = IF ok /\ exists THEN Merged(c, children(F)) ELSE @,
                    !.lost  = IF ok /\ exists THEN @ ELSE @ \cup F,
                    !.cut   = @ \/ children(F) # F \cap present,
                    !.left  = @ \ {F}]
<1>2. PICK F \in call[c].left, ok \in BOOLEAN :
         Becomes(c, IF told(F, ok).left = {} THEN Over(told(F, ok), 200) ELSE told(F, ok))
  BY DEF Children
<1>3. F \in SUBSET Objects /\ children(F) \subseteq F \cap present
  <2>1. F \in SUBSET Objects
    BY <1>1, BucketsAssumption DEF Call
  <2> QED
    BY <2>1, FirstIsFirst, BucketsAssumption
<1> DEFINE found == IF ok /\ exists THEN call[c].found \cup children(F) ELSE call[c].found
           lost  == IF ok /\ exists THEN call[c].lost ELSE call[c].lost \cup F
           cut   == call[c].cut \/ children(F) # F \cap present
           t     == told(F, ok)
<1>4. /\ t \in Call /\ t.op = "tree" /\ t.at = "children"
      /\ t.found = found /\ t.lost = lost /\ t.left = call[c].left \ {F}
      /\ t.cut <=> cut
  <2>1. /\ call[c].found \in SUBSET Objects /\ call[c].lost \in SUBSET Objects
        /\ call[c].left \in SUBSET Folders /\ call[c].cut \in BOOLEAN
    BY <1>1 DEF Call
  <2>2. found \in SUBSET Objects /\ lost \in SUBSET Objects
    BY <1>3, <2>1
  <2>3. t = [call[c] EXCEPT !.found = found, !.lost = lost, !.cut = cut,
                            !.left = call[c].left \ {F}]
    BY DEF Merged
  <2>4. cut \in BOOLEAN
    OBVIOUS
  <2> HIDE DEF found, lost, cut, t
  <2>5. t \in Call
    BY <1>1, <2>1, <2>2, <2>3, <2>4 DEF Call
  <2> QED
    BY <1>1, <2>3, <2>5 DEF Call
<1>5. PICK r \in Call :
         /\ Becomes(c, r) /\ r.op = "tree" /\ r.found = found /\ r.lost = lost
         /\ r.left = call[c].left \ {F} /\ (r.cut <=> cut)
         /\ r.at \in {"over", "children"} /\ (r.at = "over" => r.left = {})
  <2>1. Becomes(c, IF t.left = {} THEN Over(t, 200) ELSE t)
    BY <1>2
  <2> HIDE DEF t, found, lost, cut, told
  <2> QED
    BY <1>4, <2>1, OverIs
<1>6. /\ call' \in [Requests -> Call] /\ call'[c] = r
      /\ \A s \in Requests \ {c} : call'[s] = call[s]
  BY <1>5, Became
<1>7. /\ stayed'[c] \subseteq stayed[c] \cap present /\ stayed'[c] \subseteq present'
      /\ seen[c] \cup present \subseteq seen'[c]
  BY <1>1, <1>5, <1>6, Observed DEF Listings
<1>8. Growing(c)'
  <2>1. r.found \subseteq seen'[c]
    BY <1>1, <1>3, <1>5, <1>7 DEF Growing
  <2>2. ASSUME ~cut, NEW k \in stayed'[c]
        PROVE  k \in r.found \/ k \in r.lost \/ k \in UNION r.left
    <3>1. k \in call[c].found \/ k \in call[c].lost \/ (k \in F /\ k \in present)
             \/ \E G \in call[c].left \ {F} : k \in G
      BY <1>1, <1>7, <2>2 DEF Growing
    <3> QED
      BY <1>5, <2>2, <3>1
  <2>3. r.at = "over" => UNION r.left = {}
    BY <1>5
  <2>4. ~r.cut => stayed'[c] \subseteq r.found \cup r.lost \cup UNION r.left
    BY <1>5, <2>2
  <2> HIDE DEF cut, found, lost
  <2> QED
    BY <1>5, <1>6, <2>1, <2>3, <2>4 DEF Growing, Answered
<1>9. (Staged(c) /\ Honest(c) /\ Staying(c) /\ Counting(c) /\ Emptying(c))'
  BY <1>5, <1>6, <1>7 DEF Staged, Honest, Staying, Counting, Emptying, Answered
<1> QED
  BY <1>5, <1>6, <1>8, <1>9 DEF CallOK

LEMMA GetOK ==
    ASSUME Types, NEW c \in Requests, CallOK(c), Get(c)
    PROVE  /\ call' \in [Requests -> Call] /\ CallOK(c)'
           /\ \A s \in Requests \ {c} : call'[s] = call[s]
<1>1. Observe /\ Ongoing(c) /\ Staged(c) /\ call[c].op = "stream"
  BY DEF CallOK, Staged, Get, Unchanged, Ongoing
<1>2. Goes(c, "body") \/ \E code \in {404, 500} : Answers(c, code)
  <2>1. PICK k \in Objects :
           CASE ~exists -> Answers(c, 500)
             [] exists /\ k \in present -> Goes(c, "body")
             [] OTHER -> Answers(c, 404)
    BY DEF Get
  <2> QED
    BY <2>1
<1>3. CASE Goes(c, "body")
  <2>1. call'[c].op = "stream" /\ call'[c].at = "body"
    BY <1>1, <1>3 DEF Types, Goes, Becomes, Call
  <2>2. Honest(c)' /\ Staged(c)'
    BY <2>1 DEF Honest, Answered, Staged
  <2> QED
    BY <1>1, <1>3, <2>2, GoesOK
<1>4. ASSUME NEW code \in {404, 500}, Answers(c, code)
      PROVE  /\ call' \in [Requests -> Call] /\ CallOK(c)'
             /\ \A s \in Requests \ {c} : call'[s] = call[s]
  <2>1. call'[c].op = "stream"
    BY <1>1, <1>4 DEF Types, Answers, Becomes, Over, NoCall
  <2>2. call'[c].at = "over"
    BY <1>1, <1>4 DEF Types, Answers, Becomes, Over, NoCall
  <2>3. Honest(c)'
    BY <2>1, <2>2 DEF Honest, Answered
  <2> QED
    BY <1>1, <1>4, <2>3, Ended
<1> QED
  BY <1>2, <1>3, <1>4

LEMMA StreamOK ==
    ASSUME Types, NEW c \in Requests, CallOK(c), Stream(c)
    PROVE  /\ call' \in [Requests -> Call] /\ CallOK(c)'
           /\ \A s \in Requests \ {c} : call'[s] = call[s]
<1>1. call[c].op = "stream" /\ call[c] \in Call
  BY DEF Types, CallOK, Staged, Stream
<1>2. PICK whole \in BOOLEAN : Becomes(c, Over([call[c] EXCEPT !.cut = ~whole], 200))
  BY DEF Stream
<1> DEFINE broken == ~whole
           t == [call[c] EXCEPT !.cut = broken]
           r == Over(t, 200)
<1>3. broken \in BOOLEAN
  OBVIOUS
<1> HIDE DEF broken
<1>4. t \in Call /\ t.op = "stream"
  BY <1>1, <1>3 DEF Call
<1> HIDE DEF t
<1>5. r \in Call /\ r.op = "stream" /\ r.at = "over"
  BY <1>4, OverIs
<1>6. Becomes(c, r)
  BY <1>2 DEF t, broken
<1> HIDE DEF r
<1>7. /\ call' \in [Requests -> Call] /\ call'[c] = r
      /\ \A s \in Requests \ {c} : call'[s] = call[s]
  BY <1>5, <1>6, Became
<1>8. CallOK(c)'
  BY <1>5, <1>7
  DEF CallOK, Staged, Honest, Staying, Counting, Growing, Emptying, Answered, Listings
<1> QED
  BY <1>7, <1>8

-----------------------------------------------------------------------------
(* The invariant.                                                          *)

LEMMA InitBInv == BucketsInit => BInv
<1> SUFFICES ASSUME BucketsInit PROVE BInv
  OBVIOUS
<1>1. NoCall \in Call
  BY DEF NoCall, Call, Stages
<1>2. Types
  BY <1>1, BucketsAssumption DEF BucketsInit, Types
<1>3. ASSUME NEW c \in Requests PROVE CallOK(c)
  BY DEF BucketsInit, NoCall, CallOK, Staged, Honest, Staying, Counting, Growing, Emptying,
         Answered, Ongoing
<1> QED
  BY <1>2, <1>3 DEF BInv

\* A step of a call; the calls of the others stay where they are.
LEMMA StepOK ==
    ASSUME Types, NEW c \in Requests, CallOK(c), Handle(c) \/ BucketStep(c)
    PROVE  /\ call' \in [Requests -> Call] /\ CallOK(c)' /\ Observe
           /\ \A s \in Requests \ {c} : call'[s] = call[s]
<1>1. CASE Handle(c)
  BY <1>1, RequestOK DEF Unchanged
<1>2. CASE BucketStep(c)
  <2>1. Observe
    BY <1>2
    DEF BucketStep, Absent, Create, Exists, NextPage, Empty, EmptiesNothing, Remove,
        AnswerLost, Level, Children, Get, Stream, S3Fails, Unchanged
  <2> QED
    BY <1>2, <2>1, AbsentOK, CreateOK, ExistsOK, NextPageOK, EmptyOK, EmptiesNothingOK,
       RemoveOK, AnswerLostOK, LevelOK, ChildrenOK, GetOK, StreamOK, FailsOK
    DEF BucketStep
<1> QED
  BY <1>1, <1>2

\* The store: only a bucket has objects.
LEMMA StoreOK ==
    ASSUME Types, BucketsNext
    PROVE  /\ exists' \in BOOLEAN /\ writes' \in 0..MaxWrites
           /\ present' \in SUBSET Objects /\ (~exists' => present' = {})
<1> USE DEF Types
<1>1. ASSUME NEW k \in Objects, Put(k) \/ Delete(k)
      PROVE  /\ exists' \in BOOLEAN /\ writes' \in 0..MaxWrites
             /\ present' \in SUBSET Objects /\ (~exists' => present' = {})
  <2>1. writes < MaxWrites /\ writes' = writes + 1
    BY <1>1 DEF Put, Delete
  <2>2. writes' \in 0..MaxWrites
    BY <2>1, BucketsAssumption
  <2>3. /\ exists' = exists
        /\ \/ exists /\ present' = present \cup {k}
           \/ present' = present \ {k}
    BY <1>1 DEF Put, Delete
  <2> QED
    BY <2>2, <2>3
<1>2. Created \/ Removed \/ (\E c \in Requests : \E failed : Emptied(c, failed)) =>
         exists' \in BOOLEAN /\ present' \in SUBSET Objects /\ (~exists' => present' = {})
  <2>1. CASE Created
    BY <2>1 DEF Created
  <2>2. CASE Removed
    BY <2>2 DEF Removed
  <2>3. CASE \E c \in Requests : \E failed : Emptied(c, failed)
    BY <2>3 DEF Emptied
  <2> QED
    BY <2>1, <2>2, <2>3
<1>3. ASSUME NEW c \in Requests, Create(c) \/ Remove(c) \/ Empty(c) \/ AnswerLost(c)
      PROVE  /\ exists' \in BOOLEAN /\ writes' \in 0..MaxWrites
             /\ present' \in SUBSET Objects /\ (~exists' => present' = {})
  <2>1. writes' = writes \/ (writes < MaxWrites /\ writes' = writes + 1)
    BY <1>3 DEF Create, Remove, Empty, AnswerLost
  <2>3. writes' \in 0..MaxWrites
    BY <2>1, BucketsAssumption
  <2>2. Created \/ Removed \/ \E failed : Emptied(c, failed)
    BY <1>3 DEF Create, Remove, Empty, AnswerLost
  <2> QED
    BY <1>2, <2>2, <2>3
<1>4. ASSUME NEW c \in Requests,
             \/ Handle(c) \/ Absent(c) \/ Exists(c) \/ NextPage(c) \/ EmptiesNothing(c)
             \/ Level(c) \/ Children(c) \/ Get(c) \/ Stream(c) \/ S3Fails(c)
      PROVE  UNCHANGED store
  BY <1>4
  DEF Handle, create_bucket, delete_bucket, get_bucket, list_folder, get_folder_stats,
      download_object, Request, Absent, Exists, NextPage, EmptiesNothing, Level, Children,
      Get, Stream, S3Fails, Unchanged
<1> QED
  BY <1>1, <1>3, <1>4 DEF BucketsNext, BucketStep, store

LEMMA NextBInv == ASSUME BInv, [BucketsNext]_bucketVars PROVE BInv'
<1> USE DEF BInv
<1>1. CASE BucketsNext
  <2>1. /\ Observe /\ call' \in [Requests -> Call]
        /\ \A c \in Requests : CallOK(c)' \/ call'[c] = call[c]
    <3>1. ASSUME NEW k \in Objects, Put(k) \/ Delete(k)
          PROVE  Observe /\ call' = call
      BY <3>1 DEF Put, Delete
    <3>2. ASSUME NEW c \in Requests, Handle(c) \/ BucketStep(c)
          PROVE  /\ Observe /\ call' \in [Requests -> Call] /\ CallOK(c)'
                 /\ \A s \in Requests \ {c} : call'[s] = call[s]
      BY <3>2, StepOK
    <3> QED
      BY <1>1, <3>1, <3>2 DEF BucketsNext, Types
  <2>2. \A c \in Requests : CallOK(c)'
    BY <2>1, Bystander
  <2>3. exists' \in BOOLEAN /\ present' \in SUBSET Objects
    BY <1>1, StoreOK
  <2>4. ASSUME NEW c \in Requests
        PROVE  /\ stayed' \in [Requests -> SUBSET Objects]
               /\ seen' \in [Requests -> SUBSET Objects]
               /\ was' \in [Requests -> SUBSET BOOLEAN]
    BY <2>1, <2>3, Observed
  <2>5. /\ stayed' \in [Requests -> SUBSET Objects] /\ seen' \in [Requests -> SUBSET Objects]
        /\ was' \in [Requests -> SUBSET BOOLEAN]
    <3>1. CASE Requests = {}
      BY <2>1, <3>1 DEF Observe
    <3>2. CASE Requests # {}
      BY <2>4, <3>2
    <3> QED
      BY <3>1, <3>2
  <2>6. Types'
    BY <1>1, <2>1, <2>5, StoreOK DEF Types
  <2> QED
    BY <2>2, <2>6
<1>2. CASE UNCHANGED bucketVars
  <2>1. /\ exists' = exists /\ present' = present /\ writes' = writes /\ call' = call
        /\ stayed' = stayed /\ seen' = seen /\ was' = was
    BY <1>2 DEF bucketVars, store
  <2>2. Types'
    BY <2>1 DEF Types
  <2>3. ASSUME NEW c \in Requests PROVE CallOK(c)'
    <3>1. CallOK(c) /\ Listed(c)' = Listed(c)
      BY <2>1 DEF Listed
    <3>2. Staged(c)' /\ Emptying(c)'
      BY <2>1, <3>1 DEF CallOK, Staged, Emptying
    <3>3. (SeenAbsent(c) => SeenAbsent(c)') /\ (SeenThere(c) => SeenThere(c)')
      BY <2>1, Zenon DEF SeenAbsent, SeenThere
    <3>4. Honest(c)'
      BY <2>1, <3>1, <3>3 DEF CallOK, Honest, Answered
    <3>5. Staying(c)'
      BY <2>1, <3>1 DEF CallOK, Staying, Ongoing
    <3>6. Counting(c)'
      BY <2>1, <3>1 DEF CallOK, Counting, Answered
    <3>7. Growing(c)'
      BY <2>1, <3>1 DEF CallOK, Growing, Answered
    <3> QED
      BY <3>2, <3>4, <3>5, <3>6, <3>7 DEF CallOK
  <2> QED
    BY <2>2, <2>3
<1> QED
  BY <1>1, <1>2

LEMMA BucketsInvariant == BucketsSpec => []BInv
  BY InitBInv, NextBInv, PTL DEF BucketsSpec

-----------------------------------------------------------------------------
\* Every variable keeps its type, and only a bucket has objects.
THEOREM BucketsTyped == BucketsSpec => []BucketsTypeOK
<1>1. BInv => BucketsTypeOK
  BY DEF BInv, Types, BucketsTypeOK, Call, Stages
<1> QED
  BY <1>1, BucketsInvariant, PTL

\* However many requests create, delete and fill the bucket at once: what each of
\* them is told of it was so at some moment of the request.
THEOREM ToldTheTruth == BucketsSpec => []AnswersHonest
<1>1. BInv => AnswersHonest
  BY DEF BInv, CallOK, Honest, SeenAbsent, SeenThere, AnswersHonest
<1> QED
  BY <1>1, BucketsInvariant, PTL

\* However many pages, and whatever comes and goes between two of them.
THEOREM CountsOnce == BucketsSpec => []CountedOnce
<1>1. BInv => CountedOnce
  BY DEF BInv, CallOK, Counting, CountedOnce
<1> QED
  BY <1>1, BucketsInvariant, PTL

\* However the listings of the folders fail, and in whatever order they end.
THEOREM ShowsTheTree == BucketsSpec => []TreeComplete
<1>1. BInv => TreeComplete
  BY DEF BInv, CallOK, Growing, TreeComplete
<1> QED
  BY <1>1, BucketsInvariant, PTL

\* However many pages the bucket has, whichever keys delete_objects fails on, and
\* however often its answer is lost.
THEOREM EmptiesAll == BucketsSpec => []EmptiesWhatStayed
<1>1. BInv => EmptiesWhatStayed
  BY DEF BInv, CallOK, Emptying, EmptiesWhatStayed
<1> QED
  BY <1>1, BucketsInvariant, PTL
=============================================================================
