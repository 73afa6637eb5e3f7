------------------------- MODULE MarketPages_proofs -------------------------
(***************************************************************************)
(* Proofs about MarketPages for any listing, any sizes of pages here and   *)
(* upstream, and any walk: what a page shows, and what a client is shown   *)
(* that goes from page to page.                                            *)
(***************************************************************************)
EXTENDS MarketPages, SequenceTheorems, FiniteSetTheorems, TLAPS

-----------------------------------------------------------------------------
(* The invariant of a page.                                                *)

\* What a client asks for, and how far the walk to it has come.
Fields == {"of", "page", "size", "at", "from", "to", "tokens", "items", "count", "internal",
           "exact", "more", "total", "shown", "entire", "changed"}

WalkTypes(w) ==
    /\ DOMAIN w = Fields
    /\ w.of \in Listings \cup {"none"}
    /\ w.page \in Nat \ {0} /\ w.size \in Nat \ {0}
    /\ w.changed \in BOOLEAN

\* The upstream's pages of n items so far, from the first that is needed.
Gathered(w, n) ==
    /\ w.from \in Nat /\ w.to = LastOf(w, n)
    /\ FirstOf(w, n) <= w.from /\ w.from <= w.to
    /\ w.items = Slice(catalog, FirstOf(w, n) * n, w.from * n - FirstOf(w, n) * n)

\* The files so far, and the tokens of the places they ended at.
Followed(w) ==
    /\ w.from \in Nat /\ w.items = Slice(catalog, 0, w.from)
    /\ w.tokens \subseteq 0..w.from

\* What a walk has fetched when it asks for the next page of the upstream.
Collected(w) ==
    CASE w.of \in {"hf_models", "hf_datasets"} -> Gathered(w, HfPage)
      [] w.of = "kaggle_datasets" -> Gathered(w, KagglePage)
      [] w.of = "kaggle_models" -> w.items = << >> /\ w.to = w.page /\ w.from \in 0..w.to - 1
      [] w.of \in {"kaggle_model_files", "kaggle_dataset_files"} -> Followed(w)
      [] OTHER -> TRUE

\* The fallback shows the first page again.
FirstAgain(w) == w.of = "kaggle_models" /\ ~lowlevel /\ w.page > 1 /\ Len(catalog) <= w.size

IsPage(w, s) == w.items = IF FirstAgain(w) THEN catalog ELSE s

PageOf(w) == Slice(catalog, Start(w), w.size)

AnswerOf(w) ==
    IF w.of \in FileListings THEN catalog
    ELSE IF w.of = "hf_models" THEN Models(PageOf(w)) ELSE PageOf(w)

\* Of a listing that did not change, what is fetched and what is shown is right.
Right(w) ==
    ~w.changed =>
      /\ w.at = "fetching" => Collected(w)
      /\ w.at = "counting" => w.of = "kaggle_models" /\ IsPage(w, PageOf(w))
      /\ w.at = "answered" => IsPage(w, AnswerOf(w))

CatalogTypes == catalog \in Seq(Nat) /\ Len(catalog) <= MaxItems /\ changes \in Nat

PagesInv == CatalogTypes /\ WalkTypes(walk) /\ Right(walk)

-----------------------------------------------------------------------------
(* Pages and slices.                                                       *)

\* Multiplication by the size of a page.
LEMMA Multiples ==
    ASSUME NEW k \in Nat, NEW l \in Nat, NEW n \in Nat
    PROVE  /\ k * n \in Nat /\ (k + 1) * n = k * n + n
           /\ k <= l => k * n <= l * n
  BY SMTT(30)

\* The page of size n that a position is on.
LEMMA Covers ==
    ASSUME NEW a \in Nat, NEW n \in Nat \ {0}
    PROVE  /\ a \div n \in Nat /\ (a \div n) * n <= a /\ a < (a \div n) * n + n
  BY SMTT(30)

LEMMA Earlier ==
    ASSUME NEW a \in Nat, NEW b \in Nat, a <= b, NEW n \in Nat \ {0}
    PROVE  a \div n <= b \div n
  BY SMTT(30)

LEMMA SliceIs ==
    ASSUME NEW s \in Seq(Nat), NEW a \in Nat, NEW n \in Nat
    PROVE  /\ Slice(s, a, n) \in Seq(Nat)
           /\ Len(Slice(s, a, n)) = IF Len(s) <= a THEN 0 ELSE IF a + n < Len(s) THEN n ELSE Len(s) - a
           /\ \A i \in 1..Len(Slice(s, a, n)) : Slice(s, a, n)[i] = s[a + i]
<1> DEFINE to == IF a + n < Len(s) THEN a + n ELSE Len(s)
<1>1. to \in Nat /\ Len(s) \in Nat /\ to <= Len(s)
  OBVIOUS
<1>2. \A i \in a + 1 .. to : s[i] \in Nat
  BY <1>1, ElementOfSeq
<1>3. Slice(s, a, n) = SubSeq(s, a + 1, to)
  BY DEF Slice
<1>4. to = (IF a + n < Len(s) THEN a + n ELSE Len(s))
  OBVIOUS
<1> HIDE DEF to
<1>5. /\ SubSeq(s, a + 1, to) \in Seq(Nat)
      /\ Len(SubSeq(s, a + 1, to)) = IF a + 1 <= to THEN to - (a + 1) + 1 ELSE 0
      /\ \A i \in 1 .. to - (a + 1) + 1 : SubSeq(s, a + 1, to)[i] = s[a + 1 + i - 1]
  <2>1. a + 1 \in Int /\ to \in Int
    BY <1>1
  <2> QED
    BY <1>2, <2>1, SubSeqProperties
<1>6. Len(SubSeq(s, a + 1, to)) = IF Len(s) <= a THEN 0 ELSE IF a + n < Len(s) THEN n ELSE Len(s) - a
  BY <1>1, <1>4, <1>5
<1>7. \A i \in 1..Len(SubSeq(s, a + 1, to)) : SubSeq(s, a + 1, to)[i] = s[a + i]
  <2> SUFFICES ASSUME NEW i \in 1..Len(SubSeq(s, a + 1, to)) PROVE SubSeq(s, a + 1, to)[i] = s[a + i]
    OBVIOUS
  <2>1. i \in 1 .. to - (a + 1) + 1 /\ a + 1 + i - 1 = a + i
    BY <1>1, <1>5
  <2> QED
    BY <1>5, <2>1
<1> QED
  BY <1>3, <1>5, <1>6, <1>7

LEMMA SlicesMeet ==
    ASSUME NEW s \in Seq(Nat), NEW a \in Nat, NEW b \in Nat, a <= b, NEW n \in Nat
    PROVE  Slice(s, a, b - a) \o Slice(s, b, n) = Slice(s, a, b + n - a)
<1> DEFINE x == Slice(s, a, b - a)
           y == Slice(s, b, n)
           z == Slice(s, a, b + n - a)
           l == Len(s)
           u == Len(x)
           v == Len(y)
           t == Len(z)
<1>1. b - a \in Nat /\ b + n - a \in Nat /\ l \in Nat
      /\ a + (b - a) = b /\ a + (b + n - a) = b + n
  BY LenProperties
<1>2. x \in Seq(Nat) /\ y \in Seq(Nat) /\ z \in Seq(Nat)
  BY <1>1, SliceIs
<1>3. /\ u = IF l <= a THEN 0 ELSE IF b < l THEN b - a ELSE l - a
      /\ v = IF l <= b THEN 0 ELSE IF b + n < l THEN n ELSE l - b
      /\ t = IF l <= a THEN 0 ELSE IF b + n < l THEN b + n - a ELSE l - a
  BY <1>1, SliceIs
<1>4. /\ \A i \in 1..u : x[i] = s[a + i]
      /\ \A i \in 1..v : y[i] = s[b + i]
      /\ \A i \in 1..t : z[i] = s[a + i]
  BY <1>1, SliceIs, ZenonT(30)
<1>5. u \in Nat /\ v \in Nat /\ t \in Nat
  BY <1>2, LenProperties
<1>6. /\ x \o y \in Seq(Nat) /\ Len(x \o y) = u + v
      /\ \A i \in 1..u + v : (x \o y)[i] = IF i <= u THEN x[i] ELSE y[i - u]
  BY <1>2, ConcatProperties
<1> HIDE DEF l, u, v, t
<1>7. u + v = t
  BY <1>1, <1>3, <1>5
<1> HIDE DEF x, y, z
<1>8. \A i \in 1..t : (x \o y)[i] = z[i]
  <2> SUFFICES ASSUME NEW i \in 1..t PROVE (x \o y)[i] = z[i]
    OBVIOUS
  <2>1. z[i] = s[a + i] /\ (x \o y)[i] = IF i <= u THEN x[i] ELSE y[i - u]
    BY <1>4, <1>6, <1>7
  <2>2. CASE i <= u
    <3>1. i \in 1..u
      BY <1>5, <2>2
    <3> QED
      BY <1>4, <2>1, <2>2, <3>1
  <2>3. CASE ~(i <= u)
    <3>1. i - u \in 1..v /\ (v = 0 \/ u = b - a)
      BY <1>1, <1>3, <1>5, <1>7, <2>3
    <3>2. b + (i - u) = a + i
      BY <1>1, <1>5, <3>1
    <3> QED
      BY <1>4, <2>1, <2>3, <3>1, <3>2
  <2> QED
    BY <2>2, <2>3
<1>9. Len(x \o y) = Len(z)
  BY <1>6, <1>7 DEF t
<1>10. \A i \in 1..Len(x \o y) : (x \o y)[i] = z[i]
  BY <1>6, <1>7, <1>8
<1>11. x \o y = z
  BY <1>2, <1>6, <1>9, <1>10, SeqEqual
<1> QED
  BY <1>11 DEF x, y, z

LEMMA SliceOfSlice ==
    ASSUME NEW s \in Seq(Nat), NEW a \in Nat, NEW n \in Nat, NEW b \in Nat, NEW m \in Nat,
           b + m <= n
    PROVE  Slice(Slice(s, a, n), b, m) = Slice(s, a + b, m)
<1> DEFINE x == Slice(s, a, n)
           y == Slice(x, b, m)
           z == Slice(s, a + b, m)
           l == Len(s)
           u == Len(x)
           v == Len(y)
           t == Len(z)
<1>1. a + b \in Nat /\ l \in Nat
  BY LenProperties
<1>2. x \in Seq(Nat) /\ z \in Seq(Nat)
  BY <1>1, SliceIs
<1>3. y \in Seq(Nat)
  <2> HIDE DEF x
  <2> QED
    BY <1>2, SliceIs
<1>4. /\ u = IF l <= a THEN 0 ELSE IF a + n < l THEN n ELSE l - a
      /\ t = IF l <= a + b THEN 0 ELSE IF a + b + m < l THEN m ELSE l - (a + b)
      /\ \A i \in 1..u : x[i] = s[a + i]
      /\ \A i \in 1..t : z[i] = s[a + b + i]
  BY <1>1, SliceIs
<1> HIDE DEF x, z
<1>5. /\ v = IF u <= b THEN 0 ELSE IF b + m < u THEN m ELSE u - b
      /\ \A i \in 1..v : y[i] = x[b + i]
  BY <1>2, SliceIs
<1>6. u \in Nat /\ v \in Nat /\ t \in Nat
  BY <1>2, <1>3, LenProperties
<1> HIDE DEF y, l, u, v, t
<1>7. v = t
  <2>1. CASE l <= a
    BY <1>1, <1>4, <1>5, <1>6, <2>1
  <2>2. CASE l > a /\ a + n < l
    BY <1>1, <1>4, <1>5, <1>6, <2>2
  <2>3. CASE l > a /\ ~(a + n < l)
    BY <1>1, <1>4, <1>5, <1>6, <2>3
  <2> QED
    BY <1>1, <2>1, <2>2, <2>3
<1>8. \A i \in 1..v : y[i] = z[i]
  <2> SUFFICES ASSUME NEW i \in 1..v PROVE y[i] = z[i]
    OBVIOUS
  <2>1. b + i \in 1..u /\ a + (b + i) = a + b + i
    BY <1>5, <1>6
  <2>2. y[i] = x[b + i] /\ z[i] = s[a + b + i]
    BY <1>4, <1>5, <1>7
  <2> QED
    BY <1>4, <2>1, <2>2
<1>9. y = z
  BY <1>2, <1>3, <1>7, <1>8, SeqEqual DEF v, t
<1> QED
  BY <1>9 DEF x, y, z

LEMMA SliceAll ==
    ASSUME NEW s \in Seq(Nat), NEW n \in Nat, Len(s) <= n
    PROVE  Slice(s, 0, n) = s
<1> DEFINE x == Slice(s, 0, n)
           l == Len(s)
<1>1. l \in Nat /\ x \in Seq(Nat)
  BY SliceIs, LenProperties
<1>2. /\ Len(x) = IF l <= 0 THEN 0 ELSE IF 0 + n < l THEN n ELSE l - 0
      /\ \A i \in 1..Len(x) : x[i] = s[0 + i]
  BY SliceIs
<1> HIDE DEF x
<1>3. Len(x) = l
  <2> DEFINE u == Len(x)
  <2>1. u = IF l <= 0 THEN 0 ELSE IF 0 + n < l THEN n ELSE l - 0
    BY <1>2
  <2>2. l <= n
    OBVIOUS
  <2> HIDE DEF l, u
  <2>3. u = l
    BY <1>1, <2>1, <2>2
  <2> QED
    BY <2>3 DEF u
<1>4. \A i \in 1..Len(x) : x[i] = s[i]
  <2> SUFFICES ASSUME NEW i \in 1..Len(x) PROVE x[i] = s[i]
    OBVIOUS
  <2>1. 0 + i = i
    BY <1>1, <1>3
  <2> QED
    BY <1>2, <2>1
<1> QED
  BY <1>1, <1>3, <1>4, SeqEqual DEF x

-----------------------------------------------------------------------------

\* Where the page begins and ends among the upstream's pages of n items.
LEMMA Places ==
    ASSUME NEW w, WalkTypes(w), NEW n \in Nat \ {0}
    PROVE  /\ Start(w) \in Nat /\ FirstOf(w, n) \in Nat /\ LastOf(w, n) \in Nat
           /\ FirstOf(w, n) <= LastOf(w, n)
           /\ FirstOf(w, n) * n \in Nat /\ FirstOf(w, n) * n <= Start(w)
           /\ Start(w) + w.size <= LastOf(w, n) * n + n
<1> DEFINE p == w.page - 1
           a == Start(w)
           b == a + w.size - 1
           size == w.size
<1>1. p \in Nat /\ size \in Nat /\ size > 0
  BY DEF WalkTypes
<1>2. a = p * size
  BY DEF Start
<1> HIDE DEF p
<1>3. a \in Nat
  BY <1>1, <1>2, Multiples
<1> HIDE DEF a
<1>4. b = a + size - 1
  OBVIOUS
<1> HIDE DEF b, size
<1>5. b \in Nat /\ a <= b
  BY <1>1, <1>3, <1>4
<1>6. /\ a \div n \in Nat /\ (a \div n) * n <= a
      /\ b \div n \in Nat /\ b < (b \div n) * n + n /\ a \div n <= b \div n
  BY <1>3, <1>5, Covers, Earlier
<1>7. (a \div n) * n \in Nat /\ (b \div n) * n \in Nat
  BY <1>6, Multiples
<1> DEFINE f == a \div n
           l == b \div n
           fn == f * n
           ln == l * n
<1>8. f \in Nat /\ l \in Nat /\ f <= l /\ fn \in Nat /\ ln \in Nat /\ fn <= a /\ b < ln + n
  BY <1>6, <1>7
<1>9. FirstOf(w, n) = f /\ LastOf(w, n) = l /\ Start(w) = a /\ w.size = size
  BY DEF FirstOf, LastOf, a, b, size
<1> HIDE DEF f, l
<1>10. FirstOf(w, n) * n = fn /\ LastOf(w, n) * n = ln
  BY <1>9
<1> HIDE DEF fn, ln
<1>11. a + size <= ln + n
  BY <1>1, <1>3, <1>4, <1>8
<1> QED
  BY <1>3, <1>8, <1>9, <1>10, <1>11

\* One more page of the upstream, and the window cut out of all of them.
LEMMA Gathers ==
    ASSUME catalog \in Seq(Nat), NEW w, WalkTypes(w), NEW n \in Nat \ {0}, Gathered(w, n)
    PROVE  LET items == w.items \o Slice(catalog, w.from * n, n) IN
           /\ items = Slice(catalog, FirstOf(w, n) * n, (w.from + 1) * n - FirstOf(w, n) * n)
           /\ w.from + 1 > w.to => Slice(items, Start(w) - FirstOf(w, n) * n, w.size) = PageOf(w)
<1> DEFINE f == FirstOf(w, n)
           k == w.from
           fn == f * n
           kn == k * n
           kn1 == (k + 1) * n
           a == Start(w)
           size == w.size
           items == w.items \o Slice(catalog, kn, n)
<1>1. /\ a \in Nat /\ f \in Nat /\ fn \in Nat /\ fn <= a
      /\ a + size <= LastOf(w, n) * n + n
  BY Places
<1>2. k \in Nat /\ f <= k /\ k <= w.to /\ w.to = LastOf(w, n) /\ w.items = Slice(catalog, fn, kn - fn)
  BY DEF Gathered
<1>3. size \in Nat
  BY DEF WalkTypes
<1>4. kn \in Nat /\ kn1 = kn + n /\ fn <= kn
  <2> HIDE DEF f, k
  <2> QED
    BY <1>1, <1>2, Multiples
<1>5. k + 1 > w.to => a + size <= kn + n
  <2>1. SUFFICES ASSUME k + 1 > w.to PROVE a + size <= kn + n
    OBVIOUS
  <2>2. LastOf(w, n) \in Nat
    BY Places
  <2>3. LastOf(w, n) = k
    <3> HIDE DEF k
    <3> QED
      BY <1>2, <2>1, <2>2
  <2> QED
    BY <1>1, <2>3
<1>6. items = Slice(catalog, fn, kn - fn) \o Slice(catalog, kn, n)
  BY <1>2
<1>7. /\ a = Start(w) /\ size = w.size /\ f = FirstOf(w, n) /\ kn = w.from * n
      /\ kn1 = (w.from + 1) * n /\ fn = FirstOf(w, n) * n
  OBVIOUS
<1> HIDE DEF fn, kn, kn1, items, a, size, f, k
<1>8. items = Slice(catalog, fn, kn + n - fn)
  BY <1>1, <1>4, <1>6, SlicesMeet
<1>9. k + 1 > w.to => Slice(items, a - fn, size) = Slice(catalog, a, size)
  <2> SUFFICES ASSUME k + 1 > w.to PROVE Slice(items, a - fn, size) = Slice(catalog, a, size)
    OBVIOUS
  <2>1. /\ kn + n - fn \in Nat /\ a - fn \in Nat /\ (a - fn) + size <= kn + n - fn
        /\ fn + (a - fn) = a
    BY <1>1, <1>3, <1>4, <1>5
  <2>2. Slice(Slice(catalog, fn, kn + n - fn), a - fn, size) = Slice(catalog, fn + (a - fn), size)
    BY <1>1, <1>3, <2>1, SliceOfSlice
  <2> QED
    BY <1>8, <2>1, <2>2
<1>10. /\ items = Slice(catalog, fn, kn1 - fn)
       /\ w.from + 1 > w.to => Slice(items, a - fn, size) = PageOf(w)
  BY <1>4, <1>7, <1>8, <1>9 DEF PageOf, k
<1> QED
  BY <1>10 DEF items, a, fn, kn, kn1, size, f, k

LEMMA SliceNone ==
    ASSUME NEW s \in Seq(Nat), NEW a \in Nat
    PROVE  Slice(s, a, 0) = << >>
<1> DEFINE to == IF a + 0 < Len(s) THEN a + 0 ELSE Len(s)
<1>1. to \in Int /\ a + 1 \in Int /\ to < a + 1
  BY LenProperties
<1>2. SubSeq(s, a + 1, to) = << >>
  <2> HIDE DEF to
  <2> QED
    BY <1>1, SubSeqEmpty
<1> QED
  BY <1>2 DEF Slice

LEMMA SliceBeyond ==
    ASSUME NEW s \in Seq(Nat), NEW a \in Nat, NEW n \in Nat, Len(s) <= a
    PROVE  Slice(s, a, n) = << >>
<1> DEFINE to == IF a + n < Len(s) THEN a + n ELSE Len(s)
<1>1. to \in Int /\ a + 1 \in Int /\ to < a + 1
  BY LenProperties
<1>2. SubSeq(s, a + 1, to) = << >>
  <2> HIDE DEF to
  <2> QED
    BY <1>1, SubSeqEmpty
<1> QED
  BY <1>2 DEF Slice

-----------------------------------------------------------------------------

LEMMA SamePlace ==
    ASSUME NEW v, NEW w, v.page = w.page, v.size = w.size, NEW n
    PROVE  /\ Start(v) = Start(w) /\ FirstOf(v, n) = FirstOf(w, n) /\ LastOf(v, n) = LastOf(w, n)
           /\ PageOf(v) = PageOf(w)
  BY DEF Start, FirstOf, LastOf, PageOf

\* A walk after a step is right if it would be in the state before.
LEMMA StepRight ==
    ASSUME PagesInv, NEW w, Becomes(w), WalkTypes(w), Right(w)
    PROVE  PagesInv'
<1>1. walk' = w /\ catalog' = catalog /\ changes' = changes /\ lowlevel' = lowlevel
  BY DEF Becomes
<1>2. CatalogTypes'
  BY <1>1 DEF PagesInv, CatalogTypes
<1>3. WalkTypes(walk)'
  BY <1>1 DEF WalkTypes, Fields
<1>4. Right(walk)'
  BY <1>1 DEF Right, Collected, Gathered, Followed, IsPage, FirstAgain, PageOf, AnswerOf,
              FirstOf, LastOf, Start
<1> QED
  BY <1>2, <1>3, <1>4 DEF PagesInv

LEMMA Begins ==
    ASSUME NEW w, WalkTypes(w), NEW a, NEW b
    PROVE  LET u == [w EXCEPT !.at = "fetching", !.items = << >>, !.tokens = {}, !.count = NoCount]
               v == [u EXCEPT !.from = a, !.to = b]
           IN  /\ WalkTypes(v) /\ v.of = w.of /\ v.page = w.page /\ v.size = w.size
               /\ v.at = "fetching" /\ v.from = a /\ v.to = b /\ v.tokens = {} /\ v.items = << >>
<1> DEFINE u == [w EXCEPT !.at = "fetching", !.items = << >>, !.tokens = {}, !.count = NoCount]
           v == [u EXCEPT !.from = a, !.to = b]
<1>1. DOMAIN u = Fields /\ u.of = w.of /\ u.page = w.page /\ u.size = w.size
      /\ u.changed = w.changed /\ u.at = "fetching" /\ u.tokens = {} /\ u.items = << >>
  BY DEF WalkTypes, Fields
<1> HIDE DEF u
<1>2. DOMAIN v = Fields /\ v.of = u.of /\ v.page = u.page /\ v.size = u.size
      /\ v.changed = u.changed /\ v.at = u.at /\ v.tokens = u.tokens /\ v.items = u.items
      /\ v.from = a /\ v.to = b
  BY <1>1 DEF Fields
<1> HIDE DEF v
<1>3. /\ WalkTypes(v) /\ v.of = w.of /\ v.page = w.page /\ v.size = w.size
      /\ v.at = "fetching" /\ v.from = a /\ v.to = b /\ v.tokens = {} /\ v.items = << >>
  BY <1>1, <1>2 DEF WalkTypes
<1> QED
  BY <1>3 DEF u, v

LEMMA FetchesFirst ==
    ASSUME catalog \in Seq(Nat), NEW w, WalkTypes(w)
    PROVE  WalkTypes(Fetching(w)) /\ Right(Fetching(w))
<1> DEFINE u == [w EXCEPT !.at = "fetching", !.items = << >>, !.tokens = {}, !.count = NoCount]
           v(a, b) == [u EXCEPT !.from = a, !.to = b]
           Fresh(x, a, b) ==
              /\ WalkTypes(x) /\ x.of = w.of /\ x.page = w.page /\ x.size = w.size
              /\ x.at = "fetching" /\ x.from = a /\ x.to = b /\ x.tokens = {} /\ x.items = << >>
<1>1. \A a, b : Fresh(v(a, b), a, b)
  BY Begins
<1> HIDE DEF v
<1>2. ASSUME NEW n \in Nat \ {0}, NEW x, Fresh(x, FirstOf(w, n), LastOf(w, n))
      PROVE  Gathered(x, n)
  <2>1. FirstOf(x, n) = FirstOf(w, n) /\ LastOf(x, n) = LastOf(w, n)
    BY <1>2, SamePlace
  <2>2. /\ FirstOf(w, n) \in Nat /\ FirstOf(w, n) * n \in Nat
        /\ FirstOf(w, n) <= LastOf(w, n)
    BY Places
  <2>3. Slice(catalog, FirstOf(w, n) * n, 0) = << >>
    BY <2>2, SliceNone
  <2>4. FirstOf(w, n) * n - FirstOf(w, n) * n = 0
    BY <2>2
  <2> QED
    BY <1>2, <2>1, <2>2, <2>3, <2>4 DEF Gathered
<1>3. CASE w.of \in {"hf_models", "hf_datasets"}
  <2> DEFINE x == v(FirstOf(w, HfPage), LastOf(w, HfPage))
  <2>1. Fetching(w) = x
    BY <1>3 DEF Fetching, v
  <2>2. Fresh(x, FirstOf(w, HfPage), LastOf(w, HfPage))
    BY <1>1
  <2> HIDE DEF x
  <2>3. Gathered(x, HfPage)
    BY <1>2, <2>2, PagesAssumption
  <2> QED
    <3>1. x.of = w.of /\ x.at = "fetching" /\ WalkTypes(x)
      BY <2>2
    <3>2. Collected(x)
      BY <1>3, <2>3, <3>1 DEF Collected
    <3> QED
      BY <2>1, <3>1, <3>2 DEF Right
<1>4. CASE w.of = "kaggle_datasets"
  <2> DEFINE x == v(FirstOf(w, KagglePage), LastOf(w, KagglePage))
  <2>1. Fetching(w) = x
    BY <1>4 DEF Fetching, v
  <2>2. Fresh(x, FirstOf(w, KagglePage), LastOf(w, KagglePage))
    BY <1>1
  <2> HIDE DEF x
  <2>3. Gathered(x, KagglePage)
    BY <1>2, <2>2, PagesAssumption
  <2> QED
    <3>1. x.of = w.of /\ x.at = "fetching" /\ WalkTypes(x)
      BY <2>2
    <3>2. Collected(x)
      BY <1>4, <2>3, <3>1 DEF Collected
    <3> QED
      BY <2>1, <3>1, <3>2 DEF Right
<1>5. CASE w.of \notin {"hf_models", "hf_datasets", "kaggle_datasets"}
  <2> DEFINE x == v(0, w.page)
  <2>1. Fetching(w) = x
    BY <1>5 DEF Fetching, v
  <2>2. Fresh(x, 0, w.page)
    BY <1>1
  <2> HIDE DEF x
  <2>3. 0 \in 0..w.page - 1
    BY DEF WalkTypes
  <2>4. Slice(catalog, 0, 0) = << >>
    BY SliceNone
  <2>5. Followed(x)
    BY <2>2, <2>4 DEF Followed
  <2> QED
    <3>1. x.of = w.of /\ x.at = "fetching" /\ WalkTypes(x)
      BY <2>2
    <3>2. x.items = << >> /\ x.to = w.page /\ x.page = w.page /\ x.from = 0
      BY <2>2
    <3>3. Collected(x)
      BY <1>5, <2>3, <2>5, <3>1, <3>2 DEF Collected
    <3> QED
      BY <2>1, <3>1, <3>3 DEF Right
<1> QED
  BY <1>3, <1>4, <1>5

\* What an answer says of a page does not change the page.
LEMMA Answering ==
    ASSUME NEW w, WalkTypes(w), NEW a
    PROVE  LET v == Answer(w, a)
           IN  /\ WalkTypes(v) /\ v.of = w.of /\ v.page = w.page /\ v.size = w.size
               /\ v.at = "answered" /\ v.items = w.items /\ v.changed = w.changed
<1> DEFINE v == Answer(w, a)
<1>1. /\ DOMAIN v = Fields /\ v.of = w.of /\ v.page = w.page /\ v.size = w.size
      /\ v.at = "answered" /\ v.items = w.items /\ v.changed = w.changed
  BY DEF Answer, WalkTypes, Fields
<1> QED
  BY <1>1 DEF WalkTypes

LEMMA AnswersRight ==
    ASSUME NEW w, WalkTypes(w), NEW a, ~w.changed => IsPage(w, AnswerOf(w))
    PROVE  WalkTypes(Answer(w, a)) /\ Right(Answer(w, a))
<1> DEFINE v == Answer(w, a)
<1>1. /\ WalkTypes(v) /\ v.of = w.of /\ v.page = w.page /\ v.size = w.size
      /\ v.at = "answered" /\ v.items = w.items /\ v.changed = w.changed
  BY Answering
<1> HIDE DEF v
<1>2. PageOf(v) = PageOf(w)
  BY <1>1, SamePlace
<1>3. Right(v)
  BY <1>1, <1>2 DEF Right, IsPage, FirstAgain, AnswerOf
<1> QED
  BY <1>1, <1>3 DEF v

-----------------------------------------------------------------------------
(* The actions.                                                            *)

LEMMA NoWalkTypes == WalkTypes(NoWalk)
  BY DEF WalkTypes, NoWalk, Fields

LEMMA InitPagesInv == PagesInit => PagesInv
<1> SUFFICES ASSUME PagesInit PROVE PagesInv
  OBVIOUS
<1>1. PICK n \in 0..MaxItems : catalog = [i \in 1..n |-> i]
  BY DEF PagesInit
<1>2. n \in Nat /\ n <= MaxItems /\ catalog \in [1..n -> Nat]
  BY <1>1, PagesAssumption
<1>3. catalog \in Seq(Nat) /\ Len(catalog) = n
  BY <1>2
<1>4. CatalogTypes
  BY <1>2, <1>3 DEF PagesInit, CatalogTypes
<1>5. walk = NoWalk /\ walk.at = "idle"
  BY DEF PagesInit, NoWalk
<1>6. Right(walk)
  BY <1>5 DEF Right
<1> QED
  BY <1>4, <1>5, <1>6, NoWalkTypes DEF PagesInv

LEMMA Removing ==
    ASSUME NEW s \in Seq(Nat), NEW i \in DOMAIN s
    PROVE  RemoveAt(s, i) \in Seq(Nat) /\ Len(RemoveAt(s, i)) <= Len(s)
<1> DEFINE x == SubSeq(s, 1, i - 1)
           y == SubSeq(s, i + 1, Len(s))
<1>1. Len(s) \in Nat /\ i \in 1..Len(s)
  BY LenProperties
<1>2. \A j \in 1..Len(s) : s[j] \in Nat
  BY ElementOfSeq
<1>3. x \in Seq(Nat) /\ Len(x) = IF 1 <= i - 1 THEN i - 1 - 1 + 1 ELSE 0
  <2>1. \A j \in 1..i - 1 : s[j] \in Nat
    BY <1>1, <1>2
  <2>2. 1 \in Int /\ i - 1 \in Int
    BY <1>1
  <2> QED
    BY <2>1, <2>2, SubSeqProperties
<1>4. y \in Seq(Nat) /\ Len(y) = IF i + 1 <= Len(s) THEN Len(s) - (i + 1) + 1 ELSE 0
  <2>1. \A j \in i + 1..Len(s) : s[j] \in Nat
    BY <1>1, <1>2
  <2>2. i + 1 \in Int /\ Len(s) \in Int
    BY <1>1
  <2> QED
    BY <2>1, <2>2, SubSeqProperties
<1> HIDE DEF x, y
<1>5. x \o y \in Seq(Nat) /\ Len(x \o y) = Len(x) + Len(y)
  BY <1>3, <1>4, ConcatProperties
<1>6. Len(x) + Len(y) <= Len(s)
  <2> DEFINE l == Len(s)
             u == Len(x)
             v == Len(y)
  <2>1. /\ l \in Nat /\ i \in 1..l
        /\ u = IF 1 <= i - 1 THEN i - 1 - 1 + 1 ELSE 0
        /\ v = IF i + 1 <= l THEN l - (i + 1) + 1 ELSE 0
    BY <1>1, <1>3, <1>4
  <2> HIDE DEF l, u, v
  <2>2. u + v <= l
    BY <2>1
  <2> QED
    BY <2>2 DEF l, u, v
<1>7. RemoveAt(s, i) = x \o y
  BY DEF RemoveAt, x, y
<1> QED
  BY <1>5, <1>6, <1>7

LEMMA ChangeInv == PagesInv /\ Change => PagesInv'
<1> SUFFICES ASSUME PagesInv, Change PROVE PagesInv'
  OBVIOUS
<1>1. catalog \in Seq(Nat) /\ Len(catalog) <= MaxItems /\ changes \in Nat /\ Len(catalog) \in Nat
  BY LenProperties DEF PagesInv, CatalogTypes
<1>2. catalog' \in Seq(Nat) /\ Len(catalog') <= MaxItems
  <2>1. CASE \E i \in DOMAIN catalog : catalog' = RemoveAt(catalog, i)
    <3>1. PICK i \in DOMAIN catalog : catalog' = RemoveAt(catalog, i)
      BY <2>1
    <3>2. catalog' \in Seq(Nat) /\ Len(catalog') <= Len(catalog) /\ Len(catalog') \in Nat
      BY <1>1, <3>1, Removing, LenProperties
    <3> QED
      BY <1>1, <3>2, PagesAssumption
  <2>2. CASE Len(catalog) < MaxItems /\ catalog' = <<MaxItems + changes + 1>> \o catalog
    <3> DEFINE new == <<MaxItems + changes + 1>>
    <3>1. new \in Seq(Nat) /\ Len(new) = 1
      BY <1>1, PagesAssumption
    <3> HIDE DEF new
    <3>2. new \o catalog \in Seq(Nat) /\ Len(new \o catalog) = 1 + Len(catalog)
      BY <1>1, <3>1, ConcatProperties, ZenonT(30)
    <3>3. 1 + Len(catalog) <= MaxItems
      BY <1>1, <2>2, PagesAssumption
    <3> QED
      BY <2>2, <3>2, <3>3 DEF new
  <2> QED
    BY <2>1, <2>2 DEF Change
<1>3. CatalogTypes'
  BY <1>1, <1>2 DEF Change, CatalogTypes
<1>4. WalkTypes(walk)' /\ walk'.changed
  <2>1. walk' = [walk EXCEPT !.changed = TRUE] /\ WalkTypes(walk)
    BY DEF Change, PagesInv
  <2>2. /\ DOMAIN walk' = Fields /\ walk'.of = walk.of /\ walk'.page = walk.page
        /\ walk'.size = walk.size /\ walk'.changed = TRUE
    BY <2>1 DEF WalkTypes, Fields
  <2> QED
    BY <2>1, <2>2 DEF WalkTypes
<1>5. Right(walk)'
  BY <1>4 DEF Right
<1> QED
  BY <1>3, <1>4, <1>5 DEF PagesInv

LEMMA AskInv == PagesInv /\ (Ask \/ AskNext) => PagesInv'
<1> SUFFICES ASSUME PagesInv, Ask \/ AskNext PROVE PagesInv'
  OBVIOUS
<1>1. catalog \in Seq(Nat) /\ WalkTypes(walk)
  BY DEF PagesInv, CatalogTypes
<1>2. CASE Ask
  <2>1. PICK of \in Listings, page \in 1..MaxPage, size \in Sizes :
          Becomes(Fetching([NoWalk EXCEPT !.of = of, !.page = page, !.size = size,
                                          !.entire = (page = 1)]))
    BY <1>2 DEF Ask
  <2> DEFINE w == [NoWalk EXCEPT !.of = of, !.page = page, !.size = size, !.entire = (page = 1)]
  <2>2. DOMAIN w = Fields /\ w.of = of /\ w.page = page /\ w.size = size /\ w.changed = FALSE
    BY DEF NoWalk, Fields
  <2>3. page \in Nat \ {0} /\ size \in Nat \ {0}
    BY PagesAssumption
  <2> HIDE DEF w
  <2>4. WalkTypes(w)
    BY <2>2, <2>3 DEF WalkTypes
  <2>5. Becomes(Fetching(w))
    BY <2>1 DEF w
  <2> QED
    BY <1>1, <2>4, <2>5, FetchesFirst, StepRight
<1>3. CASE AskNext
  <2> DEFINE w == [walk EXCEPT !.page = @ + 1]
  <2>1. DOMAIN w = Fields /\ w.of = walk.of /\ w.page = walk.page + 1 /\ w.size = walk.size
        /\ w.changed = walk.changed
    BY <1>1 DEF WalkTypes, Fields
  <2>2. Becomes(Fetching(w))
    BY <1>3 DEF AskNext
  <2> HIDE DEF w
  <2>3. WalkTypes(w)
    BY <1>1, <2>1 DEF WalkTypes
  <2> QED
    BY <1>1, <2>2, <2>3, FetchesFirst, StepRight
<1> QED
  BY <1>2, <1>3

\* One more page of the upstream of a walk over pages of n items.
LEMMA GathersOn ==
    ASSUME PagesInv, NEW n \in Nat \ {0}, ~walk.changed => Gathered(walk, n), NEW w,
           w.page = walk.page, w.size = walk.size, w.from = walk.from + 1, w.to = walk.to,
           w.items = walk.items \o Slice(catalog, walk.from * n, n)
    PROVE  ~walk.changed => IF w.from <= w.to THEN Gathered(w, n) ELSE Window(w, n) = PageOf(w)
<1> SUFFICES ASSUME ~walk.changed
             PROVE  IF w.from <= w.to THEN Gathered(w, n) ELSE Window(w, n) = PageOf(w)
  OBVIOUS
<1>1. catalog \in Seq(Nat) /\ WalkTypes(walk) /\ Gathered(walk, n)
  BY DEF PagesInv, CatalogTypes
<1>2. /\ w.items = Slice(catalog, FirstOf(walk, n) * n, (walk.from + 1) * n - FirstOf(walk, n) * n)
      /\ walk.from + 1 > walk.to =>
           Slice(w.items, Start(walk) - FirstOf(walk, n) * n, walk.size) = PageOf(walk)
  BY <1>1, Gathers
<1>3. /\ Start(w) = Start(walk) /\ FirstOf(w, n) = FirstOf(walk, n)
      /\ LastOf(w, n) = LastOf(walk, n) /\ PageOf(w) = PageOf(walk)
  BY SamePlace
<1>4. /\ walk.from \in Nat /\ walk.to \in Nat /\ FirstOf(walk, n) \in Nat
      /\ FirstOf(walk, n) <= walk.from /\ walk.to = LastOf(walk, n)
  BY <1>1, Places DEF Gathered
<1>5. /\ w.from \in Nat /\ FirstOf(w, n) <= w.from
      /\ ~(w.from <= w.to) => walk.from + 1 > walk.to
  BY <1>3, <1>4
<1>6. CASE w.from <= w.to
  BY <1>2, <1>3, <1>4, <1>5, <1>6 DEF Gathered
<1>7. CASE ~(w.from <= w.to)
  BY <1>2, <1>3, <1>5, <1>7 DEF Window
<1> QED
  BY <1>6, <1>7

\* The page that is answered, of the items that were gathered.
LEMMA AnswersWith ==
    ASSUME PagesInv, NEW w, WalkTypes(w), w.of \in {"hf_models", "hf_datasets", "kaggle_datasets"},
           NEW items,
           ~w.changed => items = IF w.of = "hf_models" THEN Models(PageOf(w)) ELSE PageOf(w)
    PROVE  \A a : LET v == Answer([w EXCEPT !.items = items], a) IN WalkTypes(v) /\ Right(v)
<1> DEFINE page == [w EXCEPT !.items = items]
<1>1. /\ DOMAIN page = Fields /\ page.of = w.of /\ page.page = w.page /\ page.size = w.size
      /\ page.changed = w.changed /\ page.items = items
  BY DEF WalkTypes, Fields
<1> HIDE DEF page
<1>2. WalkTypes(page) /\ PageOf(page) = PageOf(w)
  BY <1>1, SamePlace DEF WalkTypes
<1>3. ~page.changed => IsPage(page, AnswerOf(page))
  BY <1>1, <1>2 DEF IsPage, FirstAgain, AnswerOf, FileListings
<1>4. \A a : WalkTypes(Answer(page, a)) /\ Right(Answer(page, a))
  BY <1>2, <1>3, AnswersRight
<1> QED
  BY <1>4 DEF page

LEMMA HfInv == PagesInv /\ HfFetch => PagesInv'
<1> SUFFICES ASSUME PagesInv, HfFetch PROVE PagesInv'
  OBVIOUS
<1>1. /\ WalkTypes(walk) /\ Right(walk) /\ walk.at = "fetching"
      /\ walk.of \in {"hf_models", "hf_datasets"} /\ HfPage \in Nat \ {0}
  BY PagesAssumption DEF PagesInv, HfFetch
<1> DEFINE w == [walk EXCEPT !.items = @ \o Slice(catalog, walk.from * HfPage, HfPage),
                             !.count = Len(catalog), !.from = @ + 1]
           shown == IF w.of = "hf_models" THEN Models(Window(w, HfPage)) ELSE Window(w, HfPage)
           page == [w EXCEPT !.items = shown]
<1>2. Becomes(IF w.from <= w.to THEN w ELSE Answer(page, Counted(page)))
  BY DEF HfFetch
<1>3. /\ DOMAIN w = Fields /\ w.of = walk.of /\ w.page = walk.page /\ w.size = walk.size
      /\ w.changed = walk.changed /\ w.at = "fetching" /\ w.from = walk.from + 1 /\ w.to = walk.to
      /\ w.items = walk.items \o Slice(catalog, walk.from * HfPage, HfPage)
  BY <1>1 DEF WalkTypes, Fields
<1> HIDE DEF w
<1>4. WalkTypes(w)
  BY <1>1, <1>3 DEF WalkTypes
<1>5. ~walk.changed => IF w.from <= w.to THEN Gathered(w, HfPage) ELSE Window(w, HfPage) = PageOf(w)
  <2>1. ~walk.changed => Gathered(walk, HfPage)
    BY <1>1 DEF Right, Collected
  <2> QED
    BY <1>1, <1>3, <2>1, GathersOn
<1>6. CASE w.from <= w.to
  <2>1. Right(w)
    BY <1>1, <1>3, <1>5, <1>6 DEF Right, Collected
  <2> QED
    BY <1>2, <1>4, <1>6, <2>1, StepRight
<1>7. CASE ~(w.from <= w.to)
  <2>1. ~w.changed => shown = IF w.of = "hf_models" THEN Models(PageOf(w)) ELSE PageOf(w)
    BY <1>3, <1>5, <1>7
  <2>2. w.of \in {"hf_models", "hf_datasets", "kaggle_datasets"}
    BY <1>1, <1>3
  <2> HIDE DEF shown
  <2>3. WalkTypes(Answer(page, Counted(page))) /\ Right(Answer(page, Counted(page)))
    BY <1>4, <2>1, <2>2, AnswersWith
  <2> QED
    BY <1>2, <1>7, <2>3, StepRight
<1> QED
  BY <1>6, <1>7

LEMMA DatasetsInv == PagesInv /\ DatasetsFetch => PagesInv'
<1> SUFFICES ASSUME PagesInv, DatasetsFetch PROVE PagesInv'
  OBVIOUS
<1>1. /\ WalkTypes(walk) /\ Right(walk) /\ walk.at = "fetching"
      /\ walk.of = "kaggle_datasets" /\ KagglePage \in Nat \ {0}
  BY PagesAssumption DEF PagesInv, DatasetsFetch
<1> DEFINE w == [walk EXCEPT !.items = @ \o Slice(catalog, walk.from * KagglePage, KagglePage),
                             !.from = @ + 1]
           shown == Window(w, KagglePage)
           page == [w EXCEPT !.items = shown]
           a == _paginated_total(page, NoCount)
<1>2. Becomes(IF w.from <= w.to THEN w ELSE Answer(page, a))
  BY DEF DatasetsFetch
<1>3. /\ DOMAIN w = Fields /\ w.of = walk.of /\ w.page = walk.page /\ w.size = walk.size
      /\ w.changed = walk.changed /\ w.at = "fetching" /\ w.from = walk.from + 1 /\ w.to = walk.to
      /\ w.items = walk.items \o Slice(catalog, walk.from * KagglePage, KagglePage)
  BY <1>1 DEF WalkTypes, Fields
<1> HIDE DEF a, w
<1>4. WalkTypes(w)
  BY <1>1, <1>3 DEF WalkTypes
<1>5. ~walk.changed => IF w.from <= w.to THEN Gathered(w, KagglePage) ELSE shown = PageOf(w)
  <2>1. ~walk.changed => Gathered(walk, KagglePage)
    BY <1>1 DEF Right, Collected
  <2> QED
    BY <1>1, <1>3, <2>1, GathersOn
<1>6. CASE w.from <= w.to
  <2>1. Right(w)
    BY <1>1, <1>3, <1>5, <1>6 DEF Right, Collected
  <2> QED
    BY <1>2, <1>4, <1>6, <2>1, StepRight
<1>7. CASE ~(w.from <= w.to)
  <2>1. ~w.changed => shown = IF w.of = "hf_models" THEN Models(PageOf(w)) ELSE PageOf(w)
    BY <1>1, <1>3, <1>5, <1>7
  <2>2. w.of \in {"hf_models", "hf_datasets", "kaggle_datasets"}
    BY <1>1, <1>3
  <2> HIDE DEF shown
  <2>3. WalkTypes(Answer(page, a)) /\ Right(Answer(page, a))
    BY <1>4, <2>1, <2>2, AnswersWith
  <2> QED
    BY <1>2, <1>7, <2>3, StepRight
<1> QED
  BY <1>6, <1>7

LEMMA ModelsInv == PagesInv /\ ModelsFetch => PagesInv'
<1> SUFFICES ASSUME PagesInv, ModelsFetch PROVE PagesInv'
  OBVIOUS
<1>1. /\ WalkTypes(walk) /\ Right(walk) /\ walk.at = "fetching" /\ walk.of = "kaggle_models"
      /\ catalog \in Seq(Nat) /\ Len(catalog) \in Nat /\ lowlevel
  BY LenProperties DEF PagesInv, CatalogTypes, ModelsFetch
<1> DEFINE size == walk.size
           from == walk.from
           to == walk.to
           reached == from + 1
           token == reached * size < Len(catalog)
           items == Slice(catalog, from * size, size)
           w == [walk EXCEPT !.from = reached, !.count = Capped(Len(catalog))]
           x == [w EXCEPT !.at = "counting", !.items = items]
           y == [w EXCEPT !.at = "counting"]
<1>2. \/ reached = to /\ Becomes(x)
      \/ reached < to /\ token /\ Becomes(w)
      \/ reached # to /\ ~(reached < to /\ token) /\ Becomes(y)
  BY DEF ModelsFetch
<1>3. /\ DOMAIN w = Fields /\ w.of = walk.of /\ w.page = walk.page /\ w.size = walk.size
      /\ w.changed = walk.changed /\ w.at = "fetching" /\ w.from = reached /\ w.to = walk.to
      /\ w.items = walk.items
  BY <1>1 DEF WalkTypes, Fields
<1> HIDE DEF w
<1>4. WalkTypes(w) /\ PageOf(w) = PageOf(walk)
  BY <1>1, <1>3, SamePlace DEF WalkTypes
<1>5. /\ WalkTypes(x) /\ x.at = "counting" /\ x.items = items /\ x.of = "kaggle_models"
      /\ x.changed = walk.changed /\ PageOf(x) = PageOf(walk)
  <2>1. /\ DOMAIN x = Fields /\ x.of = w.of /\ x.page = w.page /\ x.size = w.size
        /\ x.changed = w.changed /\ x.at = "counting" /\ x.items = items
    BY <1>4 DEF WalkTypes, Fields
  <2> HIDE DEF x
  <2> QED
    BY <1>1, <1>3, <1>4, <2>1, SamePlace DEF WalkTypes
<1>6. /\ WalkTypes(y) /\ y.at = "counting" /\ y.items = walk.items /\ y.of = "kaggle_models"
      /\ y.changed = walk.changed /\ PageOf(y) = PageOf(walk)
  <2>1. /\ DOMAIN y = Fields /\ y.of = w.of /\ y.page = w.page /\ y.size = w.size
        /\ y.changed = w.changed /\ y.at = "counting" /\ y.items = w.items
    BY <1>4 DEF WalkTypes, Fields
  <2> HIDE DEF y
  <2> QED
    BY <1>1, <1>3, <1>4, <2>1, SamePlace DEF WalkTypes
<1> HIDE DEF x, y, items, token
<1>7. ~walk.changed =>
        /\ walk.items = << >> /\ to = walk.page /\ from \in Nat /\ from < to
        /\ to \in Nat /\ size \in Nat
        /\ PageOf(walk) = Slice(catalog, (to - 1) * size, size)
  BY <1>1 DEF Right, Collected, WalkTypes, PageOf, Start
<1> HIDE DEF size, from, to
<1>8. CASE reached = to /\ Becomes(x)
  <2>1. ~walk.changed => items = PageOf(walk)
    <3>1. ~walk.changed => from = to - 1
      BY <1>7, <1>8
    <3> QED
      BY <1>7, <3>1 DEF items
  <2>2. Right(x)
    BY <1>1, <1>5, <2>1 DEF Right, IsPage, FirstAgain
  <2> QED
    BY <1>5, <1>8, <2>2, StepRight
<1>9. CASE reached < to /\ token /\ Becomes(w)
  <2>1. ~walk.changed => reached \in 0..to - 1
    BY <1>7, <1>9
  <2>2. Right(w)
    BY <1>1, <1>3, <1>7, <2>1 DEF Right, Collected, to
  <2> QED
    BY <1>4, <1>9, <2>2, StepRight
<1>10. CASE reached # to /\ ~(reached < to /\ token) /\ Becomes(y)
  <2>1. ~walk.changed => PageOf(walk) = << >>
    <3>1. SUFFICES ASSUME ~walk.changed PROVE Slice(catalog, (to - 1) * size, size) = << >>
      BY <1>7
    <3>2. reached \in Nat /\ to - 1 \in Nat /\ reached <= to - 1 /\ ~token
      BY <1>7, <1>10, <3>1
    <3> DEFINE a == (to - 1) * size
               b == reached * size
    <3>3. b \in Nat /\ a \in Nat /\ b <= a
      <4> HIDE DEF reached
      <4>1. to - 1 \in Nat /\ size \in Nat
        BY <1>7, <3>1, <3>2
      <4> DEFINE l == to - 1
      <4>2. l \in Nat /\ reached <= l
        BY <3>2
      <4> HIDE DEF l
      <4>3. reached * size \in Nat /\ l * size \in Nat /\ reached * size <= l * size
        BY <3>2, <4>1, <4>2, Multiples
      <4> QED
        BY <4>3 DEF l
    <3>4. ~(b < Len(catalog))
      BY <3>2 DEF token
    <3> HIDE DEF a, b
    <3>5. Len(catalog) <= a
      BY <1>1, <3>3, <3>4
    <3>6. Slice(catalog, a, size) = << >>
      BY <1>1, <1>7, <3>1, <3>3, <3>5, SliceBeyond
    <3> QED
      BY <3>6 DEF a
  <2>2. Right(y)
    BY <1>1, <1>6, <1>7, <2>1 DEF Right, IsPage, FirstAgain
  <2> QED
    BY <1>6, <1>10, <2>2, StepRight
<1> QED
  BY <1>2, <1>8, <1>9, <1>10

LEMMA FallbackInv == PagesInv /\ ModelsFallback => PagesInv'
<1> SUFFICES ASSUME PagesInv, ModelsFallback PROVE PagesInv'
  OBVIOUS
<1>1. /\ WalkTypes(walk) /\ Right(walk) /\ walk.of = "kaggle_models" /\ ~lowlevel
      /\ catalog \in Seq(Nat)
  BY DEF PagesInv, CatalogTypes, ModelsFallback
<1> DEFINE page == walk.page
           size == walk.size
           start == Start(walk)
           end == size * page
           all == Slice(catalog, 0, end)
           items == IF Len(all) > size THEN Slice(all, start, size) ELSE all
           w == [walk EXCEPT !.at = "counting", !.items = items]
           l == Len(catalog)
           n == Len(all)
<1>2. Becomes(w)
  BY DEF ModelsFallback
<1>3. /\ DOMAIN w = Fields /\ w.of = "kaggle_models" /\ w.page = page /\ w.size = size
      /\ w.at = "counting" /\ w.items = items /\ w.changed = walk.changed
  BY <1>1 DEF WalkTypes, Fields
<1>4. page \in Nat \ {0} /\ size \in Nat \ {0} /\ l \in Nat
  BY <1>1, LenProperties DEF WalkTypes
<1>5. start \in Nat /\ end = start + size /\ (page = 1 => start = 0) /\ (page > 1 => size <= start)
  <2> DEFINE p == page - 1
  <2>1. start = p * size /\ page = p + 1 /\ p \in Nat
    BY <1>4 DEF Start
  <2> HIDE DEF start, p, page, size
  <2>2. start \in Nat /\ (p + 1) * size = p * size + size
    BY <1>4, <2>1, Multiples
  <2>3. end = start + size
    <3>1. size * page = page * size
      BY <1>4
    <3> QED
      BY <2>1, <2>2, <3>1
  <2>4. page = 1 => start = 0
    <3>1. page = 1 => p = 0
      BY <2>1
    <3>2. 0 * size = 0
      BY <1>4
    <3> QED
      BY <2>1, <3>1, <3>2
  <2>5. page > 1 => size <= start
    <3>1. page > 1 => 1 <= p
      BY <2>1
    <3>2. 1 * size = size /\ (1 <= p => 1 * size <= p * size)
      BY <1>4, <2>1, Multiples
    <3> QED
      BY <2>1, <3>1, <3>2
  <2> QED
    BY <2>2, <2>3, <2>4, <2>5
<1>6. PageOf(walk) = Slice(catalog, start, size)
  BY DEF PageOf
<1>7. end \in Nat
  BY <1>4, <1>5
<1>8. all \in Seq(Nat) /\ n = IF l <= 0 THEN 0 ELSE IF 0 + end < l THEN end ELSE l - 0
  BY <1>1, <1>7, SliceIs
<1> HIDE DEF w, page, size, start, end
<1>9. items = IF page > 1 /\ l <= size THEN catalog ELSE PageOf(walk)
  <2>1. items = IF n > size THEN Slice(all, start, size) ELSE all
    OBVIOUS
  <2>2. all = Slice(catalog, 0, end)
    OBVIOUS
  <2> HIDE DEF l, n, items, all
  <2>3. CASE n > size
    <3>1. Slice(all, start, size) = Slice(catalog, 0 + start, size)
      <4>1. start + size <= end
        BY <1>4, <1>5
      <4> QED
        BY <1>1, <1>4, <1>5, <1>7, <2>2, <4>1, SliceOfSlice
    <3>2. 0 + start = start /\ ~(l <= size)
      BY <1>4, <1>5, <1>7, <1>8, <2>3
    <3> QED
      BY <1>6, <2>1, <2>3, <3>1, <3>2
  <2>4. CASE ~(n > size) /\ page = 1
    <3>1. end = size /\ start = 0
      BY <1>4, <1>5, <2>4
    <3> QED
      BY <1>6, <2>1, <2>2, <2>4, <3>1
  <2>5. CASE ~(n > size) /\ page # 1
    <3>1. page > 1 /\ size <= start /\ size < end
      BY <1>4, <1>5, <2>5
    <3>2. l <= size /\ l <= end
      BY <1>4, <1>7, <1>8, <2>5, <3>1
    <3>3. all = catalog
      BY <1>1, <1>7, <2>2, <3>2, SliceAll DEF l
    <3> QED
      BY <2>1, <2>5, <3>1, <3>2, <3>3
  <2> QED
    BY <1>4, <2>3, <2>4, <2>5
<1>10. WalkTypes(w) /\ PageOf(w) = PageOf(walk)
  BY <1>1, <1>3, SamePlace DEF WalkTypes, page, size
<1> HIDE DEF items
<1>11. Right(w)
  BY <1>1, <1>3, <1>9, <1>10 DEF Right, IsPage, FirstAgain
<1> QED
  BY <1>2, <1>10, <1>11, StepRight

LEMMA CountInv == PagesInv /\ Count => PagesInv'
<1> SUFFICES ASSUME PagesInv, Count PROVE PagesInv'
  OBVIOUS
<1>1. /\ WalkTypes(walk)
      /\ ~walk.changed => walk.of = "kaggle_models" /\ IsPage(walk, PageOf(walk))
  BY DEF PagesInv, Right, Count
<1>2. ~walk.changed => IsPage(walk, AnswerOf(walk))
  BY <1>1 DEF AnswerOf, FileListings
<1>3. CASE \E a : Becomes(Answer(walk, a))
  BY <1>1, <1>2, <1>3, AnswersRight, StepRight
<1> DEFINE w == [walk EXCEPT !.internal = TRUE]
<1>4. CASE \E a : Becomes(Answer(w, a))
  <2>1. /\ DOMAIN w = Fields /\ w.of = walk.of /\ w.page = walk.page /\ w.size = walk.size
        /\ w.changed = walk.changed /\ w.items = walk.items
    BY <1>1 DEF WalkTypes, Fields
  <2> HIDE DEF w
  <2>2. WalkTypes(w) /\ PageOf(w) = PageOf(walk)
    BY <1>1, <2>1, SamePlace DEF WalkTypes
  <2>3. ~w.changed => IsPage(w, AnswerOf(w))
    BY <1>2, <2>1, <2>2 DEF IsPage, FirstAgain, AnswerOf
  <2> QED
    BY <1>4, <2>2, <2>3, AnswersRight, StepRight
<1> QED
  BY <1>3, <1>4 DEF Count

\* The first files, and as many more, are the first files; the first so many that
\* there are no more are all.
LEMMA FilesMeet ==
    ASSUME NEW s \in Seq(Nat), NEW b \in Nat, NEW n \in Nat
    PROVE  /\ Slice(s, 0, b) \o Slice(s, b, n) = Slice(s, 0, b + n)
           /\ Len(Slice(s, 0, b)) \in Nat /\ Len(Slice(s, 0, b)) <= Len(s)
           /\ ~(b + n < Len(s)) => Slice(s, 0, b + n) = s
<1>1. b - 0 = b /\ b + n - 0 = b + n /\ b + n \in Nat /\ 0 <= b
  OBVIOUS
<1>2. Slice(s, 0, b) \o Slice(s, b, n) = Slice(s, 0, b + n)
  <2>1. Slice(s, 0, b - 0) \o Slice(s, b, n) = Slice(s, 0, b + n - 0)
    BY <1>1, SlicesMeet
  <2> QED
    BY <1>1, <2>1
<1>3. Len(s) \in Nat
  BY LenProperties
<1>4. Len(Slice(s, 0, b)) = IF Len(s) <= 0 THEN 0 ELSE IF 0 + b < Len(s) THEN b ELSE Len(s) - 0
  BY SliceIs
<1> DEFINE l == Len(s)
           u == Len(Slice(s, 0, b))
<1>5. u \in Nat /\ u <= l
  <2>1. l \in Nat /\ u = IF l <= 0 THEN 0 ELSE IF 0 + b < l THEN b ELSE l - 0
    BY <1>3, <1>4
  <2> HIDE DEF l, u
  <2> QED
    BY <2>1
<1>6. ~(b + n < Len(s)) => Slice(s, 0, b + n) = s
  BY <1>1, <1>3, SliceAll
<1> QED
  BY <1>2, <1>5, <1>6

LEMMA FilesInv ==
    ASSUME PagesInv, walk.of \in {"kaggle_model_files", "kaggle_dataset_files"},
           NEW first \in Nat \ {0}, WalksOn(first)
    PROVE  PagesInv'
<1>1. /\ WalkTypes(walk) /\ Right(walk) /\ walk.at = "fetching" /\ catalog \in Seq(Nat)
      /\ Len(catalog) \in Nat /\ Len(catalog) <= MaxItems
  BY LenProperties DEF PagesInv, CatalogTypes, WalksOn
<1> DEFINE size == IF walk.tokens = {} THEN first ELSE FilesPage
           next(repeated) == IF repeated = 0 THEN walk.from + size ELSE repeated
           found == Slice(catalog, walk.from, size)
           items == IF Len(walk.items) > MaxItems + FilesPage THEN walk.items ELSE walk.items \o found
           w(repeated) == [walk EXCEPT !.items = items, !.changed = @ \/ repeated # 0]
           on(repeated) == [w(repeated) EXCEPT !.from = next(repeated), !.tokens = @ \cup {next(repeated)}]
           more(repeated) == repeated # 0 \/ next(repeated) < Len(catalog)
<1>2. PICK repeated \in {0} \cup walk.tokens :
         Becomes(IF more(repeated) /\ ~Known(next(repeated)) THEN on(repeated) ELSE Whole(w(repeated)))
  BY DEF WalksOn
<1> DEFINE ww == w(repeated)
           oo == on(repeated)
           nn == next(repeated)
           alters == walk.changed \/ repeated # 0
<1>3. Becomes(IF more(repeated) /\ ~Known(nn) THEN oo ELSE Whole(ww))
  BY <1>2
<1>4. alters \in BOOLEAN
  OBVIOUS
<1>5. ww = [walk EXCEPT !.items = items, !.changed = alters]
  OBVIOUS
<1> HIDE DEF alters
<1> HIDE DEF items
<1>6. /\ DOMAIN ww = Fields /\ ww.of = walk.of /\ ww.page = walk.page /\ ww.size = walk.size
      /\ ww.changed = alters /\ ww.at = "fetching" /\ ww.items = items /\ ww.tokens = walk.tokens
  <2> DEFINE x == [walk EXCEPT !.items = items, !.changed = alters]
  <2>1. /\ DOMAIN x = Fields /\ x.of = walk.of /\ x.page = walk.page /\ x.size = walk.size
        /\ x.changed = alters /\ x.at = "fetching" /\ x.items = items /\ x.tokens = walk.tokens
    BY <1>1 DEF WalkTypes, Fields
  <2> HIDE DEF x
  <2>2. ww = x
    BY <1>5 DEF x
  <2> HIDE DEF ww
  <2> QED
    BY <2>1, <2>2
<1>7. oo = [ww EXCEPT !.from = nn, !.tokens = @ \cup {nn}]
  OBVIOUS
<1> HIDE DEF ww, oo, w, on
<1>8. /\ DOMAIN oo = Fields /\ oo.of = ww.of /\ oo.page = ww.page /\ oo.size = ww.size
      /\ oo.changed = ww.changed /\ oo.at = "fetching" /\ oo.items = items /\ oo.from = nn
      /\ oo.tokens = walk.tokens \cup {nn}
  BY <1>6, <1>7 DEF Fields
<1>9. WalkTypes(ww) /\ WalkTypes(oo)
  BY <1>1, <1>4, <1>6, <1>8 DEF WalkTypes
<1>10. ~alters =>
         /\ nn = walk.from + size /\ nn \in Nat /\ size \in Nat \ {0} /\ walk.from \in Nat
         /\ walk.tokens \cup {nn} \subseteq 0..nn
         /\ (~more(repeated) \/ Known(nn)) => ~(walk.from + size < Len(catalog))
         /\ items = Slice(catalog, 0, nn)
  <2> SUFFICES ASSUME ~alters
      PROVE  /\ nn = walk.from + size /\ nn \in Nat /\ size \in Nat \ {0} /\ walk.from \in Nat
             /\ walk.tokens \cup {nn} \subseteq 0..nn
             /\ (~more(repeated) \/ Known(nn)) => ~(walk.from + size < Len(catalog))
             /\ items = Slice(catalog, 0, nn)
    OBVIOUS
  <2>1. ~walk.changed /\ repeated = 0
    BY DEF alters
  <2>2. Followed(walk)
    BY <1>1, <2>1 DEF Right, Collected
  <2>3. walk.from \in Nat /\ walk.items = Slice(catalog, 0, walk.from) /\ walk.tokens \subseteq 0..walk.from
    BY <2>2 DEF Followed
  <2>4. size \in Nat \ {0}
    BY PagesAssumption
  <2>5. nn = walk.from + size
    BY <2>1
  <2> HIDE DEF size, nn
  <2>6. nn \in Nat /\ walk.from < nn
    BY <2>3, <2>4, <2>5
  <2>7. nn \notin walk.tokens
    BY <2>3, <2>6
  <2>8. ~Known(nn)
    BY <2>7 DEF Known
  <2>9. walk.tokens \cup {nn} \subseteq 0..nn
    BY <2>3, <2>6
  <2>10. items = Slice(catalog, 0, nn)
    <3>1. /\ Slice(catalog, 0, walk.from) \o Slice(catalog, walk.from, size) = Slice(catalog, 0, walk.from + size)
          /\ Len(Slice(catalog, 0, walk.from)) \in Nat /\ Len(Slice(catalog, 0, walk.from)) <= Len(catalog)
      BY <1>1, <2>3, <2>4, FilesMeet
    <3>2. ~(Len(walk.items) > MaxItems + FilesPage)
      BY <1>1, <2>3, <3>1, PagesAssumption
    <3> QED
      BY <2>3, <2>5, <3>1, <3>2 DEF items
  <2>11. ~more(repeated) => ~(walk.from + size < Len(catalog))
    BY <2>1 DEF size
  <2> QED
    BY <2>3, <2>4, <2>5, <2>6, <2>8, <2>9, <2>10, <2>11
<1>11. CASE more(repeated) /\ ~Known(nn)
  <2>1. Becomes(oo)
    BY <1>3, <1>11
  <2>2. ~alters => Followed(oo)
    BY <1>8, <1>10 DEF Followed
  <2>3. Right(oo)
    BY <1>6, <1>8, <2>2 DEF Right, Collected
  <2> QED
    BY <1>9, <2>1, <2>3, StepRight
<1>12. CASE ~(more(repeated) /\ ~Known(nn))
  <2>1. Becomes(Whole(ww))
    BY <1>3, <1>12
  <2>2. ~alters => items = catalog
    <3>1. SUFFICES ASSUME ~alters PROVE Slice(catalog, 0, walk.from + size) = catalog
      BY <1>10
    <3>2. ~(walk.from + size < Len(catalog)) /\ walk.from \in Nat /\ size \in Nat
      BY <1>10, <1>12, <3>1
    <3> HIDE DEF size
    <3> QED
      BY <1>1, <3>2, FilesMeet
  <2>3. ~ww.changed => IsPage(ww, AnswerOf(ww))
    BY <1>6, <2>2 DEF IsPage, AnswerOf, FileListings
  <2>4. WalkTypes(Whole(ww)) /\ Right(Whole(ww))
    BY <1>9, <2>3, AnswersRight DEF Whole
  <2> QED
    BY <2>1, <2>4, StepRight
<1> QED
  BY <1>11, <1>12

LEMMA AtOnceInv ==
    ASSUME PagesInv, walk.of \in {"hf_model_files", "hf_dataset_files"}, AllAtOnce
    PROVE  PagesInv'
<1> DEFINE w == [walk EXCEPT !.items = catalog]
<1>1. WalkTypes(walk) /\ Becomes(Whole(w))
  BY DEF PagesInv, AllAtOnce
<1>2. /\ DOMAIN w = Fields /\ w.of = walk.of /\ w.page = walk.page /\ w.size = walk.size
      /\ w.changed = walk.changed /\ w.items = catalog
  BY <1>1 DEF WalkTypes, Fields
<1> HIDE DEF w
<1>3. WalkTypes(w)
  BY <1>1, <1>2 DEF WalkTypes
<1>4. ~w.changed => IsPage(w, AnswerOf(w))
  BY <1>2 DEF IsPage, AnswerOf, FileListings
<1>5. WalkTypes(Whole(w)) /\ Right(Whole(w))
  BY <1>3, <1>4, AnswersRight DEF Whole
<1> QED
  BY <1>1, <1>5, StepRight

LEMMA FailInv == PagesInv /\ FetchFails => PagesInv'
<1> SUFFICES ASSUME PagesInv, FetchFails PROVE PagesInv'
  OBVIOUS
<1> DEFINE w == [NoWalk EXCEPT !.at = "failed"]
<1>1. WalkTypes(w) /\ w.at = "failed"
  BY DEF NoWalk, WalkTypes, Fields
<1>2. Becomes(w)
  BY DEF FetchFails
<1> HIDE DEF w
<1>3. Right(w)
  BY <1>1 DEF Right
<1> QED
  BY <1>1, <1>2, <1>3, StepRight

LEMMA NextPagesInv == PagesInv /\ [PagesNext]_pagesVars => PagesInv'
<1> SUFFICES ASSUME PagesInv, [PagesNext]_pagesVars PROVE PagesInv'
  OBVIOUS
<1>1. CASE UNCHANGED pagesVars
  BY <1>1 DEF pagesVars, PagesInv, CatalogTypes, WalkTypes, Right, Collected, Gathered, Followed,
              IsPage, FirstAgain, PageOf, AnswerOf, FirstOf, LastOf, Start
<1>2. CASE DatasetFilesFetch
  BY <1>2, FilesInv, PagesAssumption DEF DatasetFilesFetch
<1>3. CASE ModelFilesFetch
  BY <1>3, FilesInv, PagesAssumption DEF ModelFilesFetch
<1>4. CASE HfModelFilesFetch \/ HfDatasetFilesFetch
  BY <1>4, AtOnceInv DEF HfModelFilesFetch, HfDatasetFilesFetch
<1>5. CASE Fetch
  BY <1>2, <1>3, <1>4, <1>5, HfInv, DatasetsInv, ModelsInv, FallbackInv, FailInv DEF Fetch
<1> QED
  BY <1>1, <1>5, ChangeInv, AskInv, CountInv DEF PagesNext

\* The page that a client is shown of a listing that does not change is the slice
\* that it should be, whatever the sizes of pages here and upstream.
THEOREM ShowsThePage == PagesSpec => []PageExact
<1>1. PagesInv => PageExact
  BY DEF PagesInv, Right, IsPage, FirstAgain, AnswerOf, PageOf, PageExact, ShowsFirstAgain, Wanted
<1> QED
  BY <1>1, InitPagesInv, NextPagesInv, PTL DEF PagesSpec

-----------------------------------------------------------------------------
(* The models of a page.                                                   *)

\* Where the models of a sequence are, and which of them comes n-th.
ModelsAt(s) == {i \in DOMAIN s : IsModel(s[i])}
Rank(K, i) == Cardinality({j \in K : j <= i})
Nth(K, n) == CHOOSE i \in K : Rank(K, i) = n

LEMMA RankBetween ==
    ASSUME NEW K \in SUBSET Nat, IsFiniteSet(K)
    PROVE  /\ Cardinality(K) \in Nat
           /\ \A i \in K : Rank(K, i) \in 1..Cardinality(K)
           /\ \A i, j \in K : i < j => Rank(K, i) < Rank(K, j)
<1> DEFINE upto(i) == {j \in K : j <= i}
<1>1. \A i \in K : IsFiniteSet(upto(i)) /\ Cardinality(upto(i)) \in Nat
                   /\ Cardinality(upto(i)) <= Cardinality(K)
  BY FS_Subset, FS_CardinalityType
<1>2. Cardinality(K) \in Nat
  BY FS_CardinalityType
<1>3. ASSUME NEW i \in K PROVE Cardinality(upto(i)) # 0
  <2>1. i \in upto(i) /\ IsFiniteSet(upto(i))
    BY <1>1
  <2> DEFINE u == upto(i)
  <2>2. u # {} /\ IsFiniteSet(u)
    BY <2>1
  <2> HIDE DEF u
  <2>3. Cardinality(u) # 0
    BY <2>2, FS_EmptySet
  <2> QED
    BY <2>3 DEF u
<1>4. ASSUME NEW i \in K, NEW j \in K, i < j PROVE Cardinality(upto(i)) < Cardinality(upto(j))
  <2>1. upto(i) \in SUBSET upto(j) /\ j \in upto(j) /\ j \notin upto(i)
    <3>1. i \in Nat /\ j \in Nat /\ \A k \in upto(i) : k \in K /\ k \in Nat /\ k <= i
      OBVIOUS
    <3>2. \A k \in upto(i) : k <= j
      BY <1>4, <3>1
    <3>3. ~(j <= i) /\ j <= j
      BY <1>4, <3>1
    <3> QED
      BY <3>1, <3>2, <3>3
  <2>2. IsFiniteSet(upto(i)) /\ IsFiniteSet(upto(j))
    BY <1>1
  <2>3. /\ Cardinality(upto(i)) <= Cardinality(upto(j))
        /\ Cardinality(upto(j)) = Cardinality(upto(i)) => upto(j) = upto(i)
    BY <2>1, <2>2, FS_Subset
  <2>4. Cardinality(upto(i)) \in Nat /\ Cardinality(upto(j)) \in Nat
    BY <1>1
  <2>5. Cardinality(upto(i)) # Cardinality(upto(j))
    BY <2>1, <2>3
  <2> HIDE DEF upto
  <2> QED
    BY <2>3, <2>4, <2>5
<1>5. \A i : Rank(K, i) = Cardinality(upto(i))
  BY DEF Rank
<1>6. \A i \in K : Cardinality(upto(i)) \in 1..Cardinality(K)
  <2> SUFFICES ASSUME NEW i \in K PROVE Cardinality(upto(i)) \in 1..Cardinality(K)
    OBVIOUS
  <2> HIDE DEF upto
  <2>1. /\ Cardinality(upto(i)) \in Nat /\ Cardinality(upto(i)) <= Cardinality(K)
        /\ Cardinality(upto(i)) # 0
    BY <1>1, <1>3
  <2> QED
    BY <1>2, <2>1
<1> HIDE DEF upto
<1> QED
  BY <1>2, <1>4, <1>5, <1>6

LEMMA NthIs ==
    ASSUME NEW K \in SUBSET Nat, IsFiniteSet(K)
    PROVE  /\ \A n \in 1..Cardinality(K) : Nth(K, n) \in K /\ Rank(K, Nth(K, n)) = n
           /\ \A i \in K : Nth(K, Rank(K, i)) = i
<1> DEFINE T == 1..Cardinality(K)
           f == [i \in K |-> Rank(K, i)]
<1>1. /\ Cardinality(K) \in Nat /\ \A i \in K : Rank(K, i) \in T
      /\ \A i, j \in K : i < j => Rank(K, i) < Rank(K, j)
  BY RankBetween
<1>2. \A i, j \in K : Rank(K, i) = Rank(K, j) => i = j
  <2> SUFFICES ASSUME NEW i \in K, NEW j \in K, i # j PROVE Rank(K, i) # Rank(K, j)
    OBVIOUS
  <2>1. /\ i < j => Rank(K, i) < Rank(K, j)
        /\ j < i => Rank(K, j) < Rank(K, i)
    BY <1>1
  <2>2. Rank(K, i) \in Nat /\ Rank(K, j) \in Nat /\ i \in Nat /\ j \in Nat
    BY <1>1
  <2> QED
    BY <2>1, <2>2
<1>3. f \in Injection(K, T)
  BY <1>1, <1>2 DEF Injection, IsInjective
<1>4. IsFiniteSet(T) /\ Cardinality(T) = Cardinality(K)
  BY <1>1, FS_Interval
<1>5. f \in Surjection(K, T)
  <2> HIDE DEF f, T
  <2> QED
    BY <1>3, <1>4, FS_Injection
<1>6. \A n \in T : \E i \in K : Rank(K, i) = n
  <2>1. \A n \in T : \E i \in K : f[i] = n
    BY <1>5 DEF Surjection
  <2> QED
    BY <2>1
<1>7. \A n \in T : Nth(K, n) \in K /\ Rank(K, Nth(K, n)) = n
  BY <1>6 DEF Nth
<1>8. ASSUME NEW i \in K PROVE Nth(K, Rank(K, i)) = i
  <2>1. Rank(K, i) \in T
    BY <1>1
  <2>2. Nth(K, Rank(K, i)) \in K /\ Rank(K, Nth(K, Rank(K, i))) = Rank(K, i)
    BY <1>7, <2>1
  <2> QED
    BY <1>2, <2>2
<1> QED
  BY <1>7, <1>8

LEMMA ModelsAre ==
    ASSUME NEW s \in Seq(Nat)
    PROVE  LET K == ModelsAt(s) IN
           /\ K \in SUBSET Nat /\ IsFiniteSet(K) /\ K \subseteq 1..Len(s) /\ Cardinality(K) \in Nat
           /\ Models(s) = [n \in 1..Cardinality(K) |-> s[Nth(K, n)]]
           /\ Models(s) \in Seq(Nat) /\ Len(Models(s)) = Cardinality(K)
<1> DEFINE K == ModelsAt(s)
           c == Cardinality(K)
<1>1. Len(s) \in Nat /\ DOMAIN s = 1..Len(s) /\ \A i \in 1..Len(s) : s[i] \in Nat
  BY LenProperties, ElementOfSeq
<1>2. K \subseteq 1..Len(s) /\ K \in SUBSET Nat
  BY <1>1 DEF ModelsAt
<1>3. IsFiniteSet(K)
  <2>1. IsFiniteSet(1..Len(s)) /\ K \in SUBSET (1..Len(s))
    BY <1>1, <1>2, FS_Interval
  <2> HIDE DEF K
  <2> QED
    BY <2>1, FS_Subset
<1>4. c \in Nat
  BY <1>3, FS_CardinalityType
<1>5. Models(s) = [n \in 1..c |-> s[Nth(K, n)]]
  BY DEF Models, Nth, Rank, ModelsAt
<1>6. \A n \in 1..c : Nth(K, n) \in K
  BY <1>2, <1>3, NthIs
<1>7. \A n \in 1..c : s[Nth(K, n)] \in Nat
  BY <1>1, <1>2, <1>6
<1> HIDE DEF K, c
<1>8. [n \in 1..c |-> s[Nth(K, n)]] \in [1..c -> Nat]
  BY <1>7
<1>9. Models(s) \in Seq(Nat) /\ Len(Models(s)) = c
  BY <1>4, <1>5, <1>8
<1> QED
  BY <1>2, <1>3, <1>4, <1>5, <1>9 DEF c, K

\* The places of the models of two sequences, one after the other.
LEMMA Shifted ==
    ASSUME NEW L \in SUBSET Nat, IsFiniteSet(L), NEW m \in Nat
    PROVE  LET T == {m + i : i \in L} IN IsFiniteSet(T) /\ Cardinality(T) = Cardinality(L)
<1> DEFINE T == {m + i : i \in L}
           f == [i \in L |-> m + i]
<1>1. f \in [L -> T]
  OBVIOUS
<1>2. \A i, j \in L : f[i] = f[j] => i = j
  OBVIOUS
<1>3. \A t \in T : \E i \in L : f[i] = t
  OBVIOUS
<1>4. f \in Bijection(L, T)
  <2> HIDE DEF f, T
  <2> QED
    BY <1>1, <1>2, <1>3 DEF Bijection, Injection, Surjection, IsInjective
<1>5. ExistsBijection(L, T)
  BY <1>4 DEF ExistsBijection
<1> HIDE DEF T
<1>6. IsFiniteSet(T) /\ Cardinality(T) = Cardinality(L)
  BY <1>5, FS_Bijection
<1> QED
  BY <1>6 DEF T

LEMMA ModelsConcat ==
    ASSUME NEW s \in Seq(Nat), NEW t \in Seq(Nat)
    PROVE  Models(s \o t) = Models(s) \o Models(t)
<1> DEFINE x == s \o t
           m == Len(s)
           l == Len(t)
           K == ModelsAt(s)
           L == ModelsAt(t)
           M == ModelsAt(x)
           T == {m + i : i \in L}
           k == Cardinality(K)
           p == Cardinality(L)
<1>1. /\ m \in Nat /\ l \in Nat /\ x \in Seq(Nat) /\ Len(x) = m + l
      /\ \A i \in 1..m + l : x[i] = IF i <= m THEN s[i] ELSE t[i - m]
      /\ DOMAIN s = 1..m /\ DOMAIN t = 1..l /\ DOMAIN x = 1..m + l
  BY ConcatProperties, LenProperties
<1>2. /\ K \in SUBSET Nat /\ IsFiniteSet(K) /\ K \subseteq 1..m /\ k \in Nat
      /\ Models(s) = [n \in 1..k |-> s[Nth(K, n)]]
      /\ Models(s) \in Seq(Nat) /\ Len(Models(s)) = k
  BY ModelsAre
<1>3. /\ L \in SUBSET Nat /\ IsFiniteSet(L) /\ L \subseteq 1..l /\ p \in Nat
      /\ Models(t) = [n \in 1..p |-> t[Nth(L, n)]]
      /\ Models(t) \in Seq(Nat) /\ Len(Models(t)) = p
  BY ModelsAre
<1> HIDE DEF x
<1>4. /\ M \in SUBSET Nat /\ IsFiniteSet(M) /\ M \subseteq 1..Len(x)
      /\ Models(x) = [n \in 1..Cardinality(M) |-> x[Nth(M, n)]]
      /\ Models(x) \in Seq(Nat) /\ Len(Models(x)) = Cardinality(M)
  BY <1>1, ModelsAre
<1>5. M = K \cup T
  <2>1. ASSUME NEW i \in M PROVE i \in K \cup T
    <3>1. i \in 1..m + l /\ IsModel(x[i])
      BY <1>1 DEF ModelsAt
    <3>2. CASE i <= m
      BY <1>1, <3>1, <3>2 DEF ModelsAt
    <3>3. CASE ~(i <= m)
      <4>1. i - m \in 1..l /\ m + (i - m) = i /\ x[i] = t[i - m]
        BY <1>1, <3>1, <3>3
      <4>2. i - m \in L
        BY <1>1, <3>1, <4>1 DEF ModelsAt
      <4> QED
        BY <4>1, <4>2
    <3> QED
      BY <3>2, <3>3
  <2>2. ASSUME NEW i \in K PROVE i \in M
    <3>1. i \in 1..m /\ IsModel(s[i])
      BY <1>1 DEF ModelsAt
    <3>2. i \in 1..m + l /\ x[i] = s[i]
      BY <1>1, <3>1
    <3> QED
      BY <1>1, <3>1, <3>2 DEF ModelsAt
  <2>3. ASSUME NEW i \in L PROVE m + i \in M
    <3>1. i \in 1..l /\ IsModel(t[i])
      BY <1>1 DEF ModelsAt
    <3>2. m + i \in 1..m + l /\ x[m + i] = t[i]
      <4>1. m + i \in 1..m + l /\ ~(m + i <= m) /\ (m + i) - m = i
        BY <1>1, <3>1
      <4> QED
        BY <1>1, <4>1
    <3> QED
      BY <1>1, <3>1, <3>2 DEF ModelsAt
  <2> QED
    BY <2>1, <2>2, <2>3
<1>6. IsFiniteSet(T) /\ Cardinality(T) = p
  BY <1>1, <1>3, Shifted
<1> HIDE DEF m, l, k, p, K, L, M
<1>7. K \cap T = {}
  BY <1>1, <1>2, <1>3
<1>8. Cardinality(M) = k + p
  <2>1. Cardinality(K \cup T) = Cardinality(K) + Cardinality(T) - Cardinality(K \cap T)
    <3> HIDE DEF T
    <3> QED
      BY <1>2, <1>6, FS_Union
  <2>2. Cardinality(K \cap T) = 0
    BY <1>7, FS_EmptySet
  <2> HIDE DEF T
  <2> QED
    BY <1>2, <1>3, <1>5, <1>6, <2>1, <2>2 DEF k
<1>9. ASSUME NEW n \in 1..k PROVE x[Nth(M, n)] = s[Nth(K, n)]
  <2> DEFINE i == Nth(K, n)
  <2>1. i \in K /\ Rank(K, i) = n
    BY <1>2, NthIs DEF k
  <2> HIDE DEF i
  <2>2. i \in 1..m
    BY <1>2, <2>1
  <2>3. {j \in M : j <= i} = {j \in K : j <= i}
    <3>1. \A j \in T : ~(j <= i)
      BY <1>1, <1>3, <2>2
    <3> HIDE DEF T
    <3> QED
      BY <1>5, <3>1
  <2>4. Rank(M, i) = n /\ i \in M
    BY <1>5, <2>1, <2>3 DEF Rank
  <2>5. Nth(M, n) = i
    BY <1>4, <2>4, NthIs
  <2>6. x[i] = s[i]
    BY <1>1, <2>2
  <2> QED
    BY <2>5, <2>6 DEF i
<1>10. ASSUME NEW n \in 1..p PROVE x[Nth(M, k + n)] = t[Nth(L, n)]
  <2> DEFINE i == Nth(L, n)
             U == {j \in L : j <= i}
             V == {m + j : j \in U}
  <2>1. i \in L /\ Rank(L, i) = n
    BY <1>3, NthIs DEF p
  <2> HIDE DEF i
  <2>2. i \in 1..l
    BY <1>3, <2>1
  <2>3. {j \in M : j <= m + i} = K \cup V
    <3>1. \A j \in K : j <= m + i
      BY <1>1, <1>2, <2>2
    <3>2. \A j \in L : m + j <= m + i <=> j <= i
      BY <1>1, <1>3, <2>2
    <3> QED
      BY <1>5, <3>1, <3>2
  <2>4. U \in SUBSET Nat /\ U \in SUBSET L
    BY <1>3
  <2>5. IsFiniteSet(U)
    <3> HIDE DEF U
    <3> QED
      BY <1>3, <2>4, FS_Subset
  <2>6. Cardinality(U) = n
    BY <2>1 DEF Rank
  <2>7. V \subseteq T
    BY <2>4
  <2> HIDE DEF U
  <2>8. IsFiniteSet(V) /\ Cardinality(V) = n
    BY <1>1, <2>4, <2>5, <2>6, Shifted
  <2> HIDE DEF V
  <2>9. K \cap V = {}
    <3> HIDE DEF T
    <3> QED
      BY <1>7, <2>7
  <2>10. Cardinality(K \cup V) = Cardinality(K) + Cardinality(V) - Cardinality(K \cap V)
    BY <1>2, <2>8, FS_Union
  <2>11. Cardinality(K \cap V) = 0
    BY <2>9, FS_EmptySet
  <2>12. Cardinality(K \cup V) = k + n
    BY <1>2, <2>8, <2>10, <2>11 DEF k
  <2>13. Rank(M, m + i) = k + n
    BY <2>3, <2>12 DEF Rank
  <2>14. m + i \in M
    BY <1>5, <2>1
  <2>15. Nth(M, k + n) = m + i
    BY <1>4, <2>13, <2>14, NthIs
  <2>16. m + i \in 1..m + l /\ ~(m + i <= m) /\ (m + i) - m = i
    BY <1>1, <2>2
  <2>17. x[m + i] = t[i]
    BY <1>1, <2>16
  <2> QED
    BY <2>15, <2>17 DEF i
<1> DEFINE y == Models(s) \o Models(t)
<1>11. /\ y \in Seq(Nat) /\ Len(y) = k + p
       /\ \A n \in 1..k + p : y[n] = IF n <= k THEN Models(s)[n] ELSE Models(t)[n - k]
  BY <1>2, <1>3, ConcatProperties
<1> HIDE DEF y
<1>12. ASSUME NEW n \in 1..k + p PROVE Models(x)[n] = y[n]
  <2>1. Models(x)[n] = x[Nth(M, n)]
    BY <1>4, <1>8
  <2>2. CASE n <= k
    <3>1. n \in 1..k
      BY <1>2, <2>2
    <3>2. y[n] = s[Nth(K, n)]
      BY <1>2, <1>11, <2>2, <3>1
    <3> QED
      BY <1>9, <2>1, <3>1, <3>2
  <2>3. CASE ~(n <= k)
    <3>1. n - k \in 1..p /\ k + (n - k) = n
      BY <1>2, <1>3, <2>3
    <3>2. y[n] = t[Nth(L, n - k)]
      BY <1>3, <1>11, <2>3, <3>1
    <3>3. x[Nth(M, k + (n - k))] = t[Nth(L, n - k)]
      BY <1>10, <3>1
    <3> QED
      BY <2>1, <3>1, <3>2, <3>3
  <2> QED
    BY <2>2, <2>3
<1>13. Models(x) = y
  BY <1>4, <1>8, <1>11, <1>12, SeqEqual
<1> QED
  BY <1>13 DEF x, y

-----------------------------------------------------------------------------
(* The invariant of a walk from page to page.                              *)

\* A client that began at the first page of a listing that did not change since,
\* and was not told of the internal count.
Steady(w) == w.entire = TRUE /\ w.changed # TRUE /\ w.internal # TRUE

WantedOf(w, s) == IF w.of = "hf_models" THEN Models(s) ELSE s

UpTo(n) == Slice(catalog, 0, n)

\* Nobody counts: a full page is followed by another.
Uncounted(w) == w.of = "kaggle_datasets" \/ (w.of = "kaggle_models" /\ ~lowlevel)

\* It asks for what follows on what it was shown.
Onward(w) ==
    /\ w.of \in FileListings => w.page = 1
    /\ FirstAgain(w) => Len(catalog) = w.size
    /\ ~FirstAgain(w) => w.shown = WantedOf(w, UpTo(Start(w)))
    /\ Uncounted(w) /\ ~FirstAgain(w) => Start(w) <= Len(catalog)

Complete(w) == w.shown = WantedOf(w, catalog) /\ (w.exact => w.total = Len(catalog))

\* It was shown all, or may go on.
Shown(w) ==
    /\ ~w.more => Complete(w)
    /\ w.more =>
         /\ w.of \notin FileListings
         /\ FirstAgain(w) => Len(catalog) = w.size
         /\ ~FirstAgain(w) => w.shown = WantedOf(w, UpTo(Start(w) + w.size))
         /\ Uncounted(w) /\ ~FirstAgain(w) => Start(w) + w.size <= Len(catalog)

Told(w) ==
    /\ w.at = "fetching" => Onward(w) /\ (~lowlevel /\ w.of = "kaggle_models" => w.count = NoCount)
    /\ w.at = "counting" => Onward(w) /\ w.count = IF lowlevel THEN Capped(Len(catalog)) ELSE NoCount
    /\ w.at = "answered" => Shown(w)

ToldInv == Steady(walk) => Told(walk)

\* What a client asked for.
Asks(v, w) ==
    /\ v.of = w.of /\ v.page = w.page /\ v.size = w.size
    /\ v.entire = w.entire /\ v.changed = w.changed /\ v.internal = w.internal

LEMMA StepTold ==
    ASSUME NEW w, Becomes(w), Steady(w) => Told(w)
    PROVE  ToldInv'
<1>1. walk' = w /\ catalog' = catalog /\ changes' = changes /\ lowlevel' = lowlevel
  BY DEF Becomes
<1> QED
  BY <1>1 DEF ToldInv, Steady, Told, Onward, Shown, Complete, WantedOf, UpTo, Uncounted, FirstAgain,
              Start

LEMMA AsksSame ==
    ASSUME NEW v, NEW w, Asks(v, w)
    PROVE  /\ Steady(v) <=> Steady(w)
           /\ Start(v) = Start(w) /\ PageOf(v) = PageOf(w) /\ (FirstAgain(v) <=> FirstAgain(w))
           /\ (Uncounted(v) <=> Uncounted(w)) /\ \A s : WantedOf(v, s) = WantedOf(w, s)
           /\ v.shown = w.shown => (Onward(v) <=> Onward(w))
<1>1. Start(v) = Start(w) /\ PageOf(v) = PageOf(w)
  BY SamePlace DEF Asks
<1>2. (FirstAgain(v) <=> FirstAgain(w)) /\ (Uncounted(v) <=> Uncounted(w))
  BY DEF Asks, FirstAgain, Uncounted
<1>3. \A s : WantedOf(v, s) = WantedOf(w, s)
  BY DEF Asks, WantedOf
<1>4. Steady(v) <=> Steady(w)
  BY DEF Asks, Steady
<1>5. v.shown = w.shown => (Onward(v) <=> Onward(w))
  BY <1>1, <1>2, <1>3 DEF Asks, Onward
<1> QED
  BY <1>1, <1>2, <1>3, <1>4, <1>5

LEMMA AnswerIs ==
    ASSUME NEW w, DOMAIN w = Fields, NEW a
    PROVE  LET v == Answer(w, a) IN
           /\ Asks(v, w) /\ v.at = "answered" /\ v.items = w.items /\ v.shown = w.shown \o w.items
           /\ v.total = a.total /\ v.exact = a.exact /\ v.more = a.more
  BY DEF Answer, Asks, Fields

LEMMA NoModels == Models(<< >>) = << >>
<1>1. << >> \in Seq(Nat) /\ ModelsAt(<< >>) = {}
  BY DEF ModelsAt
<1>2. Len(Models(<< >>)) = Cardinality({}) /\ Models(<< >>) \in Seq(Nat)
  BY <1>1, ModelsAre
<1>3. Cardinality({}) = 0
  BY FS_EmptySet
<1> QED
  BY <1>2, <1>3, EmptySeq

\* What was wanted of the pages so far, and of one more.
LEMMA WantedOn ==
    ASSUME catalog \in Seq(Nat), NEW w, NEW a \in Nat, NEW n \in Nat
    PROVE  /\ WantedOf(w, UpTo(a)) \o WantedOf(w, Slice(catalog, a, n)) = WantedOf(w, UpTo(a + n))
           /\ Len(catalog) <= a => UpTo(a) = catalog
           /\ WantedOf(w, UpTo(0)) = << >>
<1>1. UpTo(a) \o Slice(catalog, a, n) = UpTo(a + n)
  BY FilesMeet DEF UpTo
<1>2. UpTo(a) \in Seq(Nat) /\ Slice(catalog, a, n) \in Seq(Nat)
  BY SliceIs DEF UpTo
<1>3. Models(UpTo(a)) \o Models(Slice(catalog, a, n)) = Models(UpTo(a + n))
  BY <1>1, <1>2, ModelsConcat
<1>4. Len(catalog) <= a => UpTo(a) = catalog
  BY SliceAll DEF UpTo
<1>5. UpTo(0) = << >>
  BY SliceNone DEF UpTo
<1> QED
  BY <1>1, <1>3, <1>4, <1>5, NoModels DEF WantedOf

\* An answer shows what it should, if what it tells of there being more is so.
LEMMA AnswersTold ==
    ASSUME catalog \in Seq(Nat), NEW w, WalkTypes(w), Onward(w),
           NEW v, Asks(v, w), v.shown = w.shown \o v.items, IsPage(v, AnswerOf(v)),
           v.more \in BOOLEAN,
           IF w.of \in FileListings THEN v.more = FALSE /\ v.total = Len(catalog)
           ELSE IF FirstAgain(w) THEN v.more = TRUE
           ELSE /\ v.more = FALSE => Len(catalog) <= Start(w) + w.size
                                     /\ (v.exact => v.total = Len(catalog))
                /\ v.more = TRUE /\ Uncounted(w) => Start(w) + w.size <= Len(catalog)
    PROVE  Shown(v)
<1>1. /\ Start(v) = Start(w) /\ PageOf(v) = PageOf(w) /\ (FirstAgain(v) <=> FirstAgain(w))
      /\ (Uncounted(v) <=> Uncounted(w)) /\ \A s : WantedOf(v, s) = WantedOf(w, s)
      /\ v.of = w.of /\ v.page = w.page /\ v.size = w.size
  BY AsksSame DEF Asks
<1>2. /\ w.page \in Nat \ {0} /\ w.size \in Nat \ {0} /\ Start(w) \in Nat
  <2>1. Start(w) \in Nat
    BY PagesAssumption, Places
  <2> QED
    BY <2>1 DEF WalkTypes
<1>3. CASE w.of \in FileListings
  <2>1. v.items = catalog /\ ~FirstAgain(w)
    BY <1>1, <1>3 DEF IsPage, AnswerOf, FirstAgain, FileListings
  <2>2. Start(w) = 0
    <3>1. w.page = 1
      BY <1>3 DEF Onward
    <3>2. (1 - 1) * w.size = 0
      BY <1>2
    <3> QED
      BY <3>1, <3>2 DEF Start
  <2>3. w.shown = << >>
    BY <2>1, <2>2, WantedOn DEF Onward
  <2>4. v.shown = catalog
    BY <2>1, <2>3, ConcatEmptySeq
  <2>5. WantedOf(v, catalog) = catalog
    BY <1>1, <1>3 DEF WantedOf, FileListings
  <2> QED
    BY <1>3, <2>4, <2>5 DEF Shown, Complete
<1>4. CASE w.of \notin FileListings /\ FirstAgain(w)
  BY <1>1, <1>4 DEF Shown, Onward
<1>5. CASE w.of \notin FileListings /\ ~FirstAgain(w)
  <2>1. v.items = WantedOf(w, Slice(catalog, Start(w), w.size))
    BY <1>1, <1>5 DEF IsPage, AnswerOf, PageOf, WantedOf
  <2>2. w.shown = WantedOf(w, UpTo(Start(w)))
    BY <1>5 DEF Onward
  <2>3. v.shown = WantedOf(w, UpTo(Start(w) + w.size))
    <3>1. WantedOf(w, UpTo(Start(w))) \o WantedOf(w, Slice(catalog, Start(w), w.size))
            = WantedOf(w, UpTo(Start(w) + w.size))
      <4>1. w.size \in Nat
        BY <1>2
      <4> QED
        BY <1>2, <4>1, WantedOn, ZenonT(30)
    <3> QED
      BY <2>1, <2>2, <3>1
  <2>4. Start(w) + w.size \in Nat
    BY <1>2
  <2>5. Len(catalog) <= Start(w) + w.size => v.shown = WantedOf(w, catalog)
    BY <2>3, <2>4, WantedOn
  <2>6. v.more = FALSE => Complete(v)
    BY <1>1, <1>5, <2>5 DEF Complete
  <2> QED
    BY <1>1, <1>5, <2>3, <2>6 DEF Shown
<1> QED
  BY <1>3, <1>4, <1>5

\* How many items a page has.
LEMMA PageLength ==
    ASSUME catalog \in Seq(Nat), NEW w, WalkTypes(w)
    PROVE  /\ Len(PageOf(w)) = IF Len(catalog) <= Start(w) THEN 0
                               ELSE IF Start(w) + w.size < Len(catalog) THEN w.size
                               ELSE Len(catalog) - Start(w)
           /\ Start(w) \in Nat /\ w.size \in Nat \ {0} /\ Len(catalog) \in Nat
<1>1. Start(w) \in Nat
  BY PagesAssumption, Places
<1>2. w.size \in Nat \ {0} /\ Len(catalog) \in Nat
  BY LenProperties DEF WalkTypes
<1> QED
  BY <1>1, <1>2, SliceIs DEF PageOf

\* What an answer says of there being more than l items.
Tells(a, w, l, count) ==
    /\ a.more \in BOOLEAN
    /\ a.more = FALSE /\ (count = NoCount => Start(w) <= l) =>
         l <= Start(w) + w.size /\ (a.exact => a.total = l)
    /\ a.more = TRUE /\ count = NoCount => Start(w) + w.size <= l

\* _paginated_total says it as it should.
LEMMA TotalsTell ==
    ASSUME NEW l \in Nat, NEW w, NEW count, count = NoCount \/ count = Capped(l),
           Start(w) \in Nat, w.size \in Nat \ {0},
           Len(w.items) = IF l <= Start(w) THEN 0
                          ELSE IF Start(w) + w.size < l THEN w.size ELSE l - Start(w)
    PROVE  Tells(_paginated_total(w, count), w, l, count)
<1> DEFINE start == Start(w)
           size == w.size
           n == Len(w.items)
           full == n >= size
           seen == start + n
           a == _paginated_total(w, count)
<1>1. CASE count = NoCount
  <2>1. a = [total |-> seen, exact |-> ~full, more |-> full]
    <3>1. Full(w) = full /\ Start(w) + Len(w.items) = seen
      BY DEF Full
    <3>2. a = [total |-> Start(w) + Len(w.items), exact |-> ~Full(w), more |-> Full(w)]
      <4>1. ~(count >= Start(w) + Len(w.items))
        <5> HIDE DEF full
        <5> QED
          BY <1>1, <3>1 DEF NoCount
      <4> HIDE DEF full, seen
      <4> QED
        BY <1>1, <4>1 DEF _paginated_total
    <3> HIDE DEF full, seen, a
    <3> QED
      BY <3>1, <3>2
  <2>2. a.total = seen /\ a.exact = ~full /\ a.more = full
    BY <2>1
  <2> HIDE DEF a
  <2>3. full \in BOOLEAN
    OBVIOUS
  <2>4. full => start + size <= l
    OBVIOUS
  <2>5. ~full /\ start <= l => l <= start + size /\ seen = l
    OBVIOUS
  <2> HIDE DEF full, seen
  <2>6. /\ a.more \in BOOLEAN
        /\ a.more = FALSE /\ start <= l => l <= start + size /\ a.total = l
        /\ a.more = TRUE => start + size <= l
    BY <2>2, <2>3, <2>4, <2>5
  <2> QED
    BY <1>1, <2>6 DEF a, Tells
<1>2. CASE count = l
  <2>1. l # NoCount
    BY DEF NoCount
  <2>2. CASE l < seen
    <3>1. a = [total |-> seen, exact |-> FALSE, more |-> full]
      BY <1>2, <2>1, <2>2 DEF _paginated_total, Full
    <3>2. a.total = seen /\ a.exact = FALSE /\ a.more = full
      BY <3>1
    <3> HIDE DEF a
    <3>3. full \in BOOLEAN /\ (~full => l <= start + size)
      OBVIOUS
    <3> HIDE DEF full, seen
    <3>4. a.more \in BOOLEAN /\ (a.more = FALSE => l <= start + size) /\ ~a.exact
      BY <3>2, <3>3
    <3> QED
      BY <1>2, <2>1, <3>4 DEF a, Tells
  <2>3. CASE l >= seen /\ l >= Cap
    <3>1. a = [total |-> l, exact |-> FALSE, more |-> TRUE]
      BY <1>2, <2>1, <2>3 DEF _paginated_total
    <3> QED
      BY <1>2, <2>1, <3>1 DEF Tells
  <2>4. CASE l >= seen /\ ~(l >= Cap)
    <3> DEFINE rest == seen < l
    <3>1. a = [total |-> l, exact |-> TRUE, more |-> rest]
      BY <1>2, <2>1, <2>4 DEF _paginated_total
    <3>2. a.total = l /\ a.more = rest
      BY <3>1
    <3> HIDE DEF a
    <3>3. rest \in BOOLEAN /\ (~rest => l <= start + size)
      OBVIOUS
    <3> HIDE DEF rest
    <3>4. a.more \in BOOLEAN /\ (a.more = FALSE => l <= start + size) /\ a.total = l
      BY <3>2, <3>3
    <3> QED
      BY <1>2, <2>1, <3>4 DEF a, Tells
  <2>5. seen \in Nat /\ (l < seen \/ l >= seen)
    OBVIOUS
  <2> HIDE DEF seen, full, a
  <2> QED
    BY <2>2, <2>3, <2>4, <2>5 DEF a
<1>3. CASE count = Cap /\ Cap < l
  <2>1. Cap \in Nat /\ Cap # NoCount
    BY PagesAssumption DEF NoCount
  <2>2. CASE Cap < seen
    <3>1. a = [total |-> seen, exact |-> FALSE, more |-> full]
      BY <1>3, <2>1, <2>2 DEF _paginated_total, Full
    <3>2. a.total = seen /\ a.exact = FALSE /\ a.more = full
      BY <3>1
    <3> HIDE DEF a
    <3>3. full \in BOOLEAN /\ (~full => l <= start + size)
      OBVIOUS
    <3> HIDE DEF full, seen
    <3>4. a.more \in BOOLEAN /\ (a.more = FALSE => l <= start + size) /\ ~a.exact
      BY <3>2, <3>3
    <3> QED
      BY <1>3, <2>1, <3>4 DEF a, Tells
  <2>3. CASE Cap >= seen
    <3>1. a = [total |-> Cap, exact |-> FALSE, more |-> TRUE]
      BY <1>3, <2>1, <2>3 DEF _paginated_total
    <3>2. a.more = TRUE /\ a.exact = FALSE
      BY <3>1
    <3> QED
      BY <1>3, <2>1, <3>2 DEF Tells
  <2>4. seen \in Nat /\ (Cap < seen \/ Cap >= seen)
    BY <2>1
  <2> HIDE DEF seen, full, a
  <2> QED
    BY <2>2, <2>3, <2>4 DEF a
<1>4. count = NoCount \/ count = l \/ (count = Cap /\ Cap < l)
  BY PagesAssumption DEF Capped
<1> QED
  BY <1>1, <1>2, <1>3, <1>4

\* What holds of the walk after a step holds of it in the state before.
LEMMA Becoming ==
    ASSUME PagesInv', NEW v, Becomes(v)
    PROVE  WalkTypes(v) /\ Right(v)
<1>1. walk' = v /\ catalog' = catalog /\ changes' = changes /\ lowlevel' = lowlevel
  BY DEF Becomes
<1>2. WalkTypes(walk)' /\ Right(walk)'
  BY DEF PagesInv
<1>3. WalkTypes(v)
  BY <1>1, <1>2 DEF WalkTypes, Fields
<1>4. Right(v)
  BY <1>1, <1>2 DEF Right, Collected, Gathered, Followed, IsPage, FirstAgain, PageOf, AnswerOf,
                    FirstOf, LastOf, Start
<1> QED
  BY <1>3, <1>4

\* A fetch that does not end the page.
LEMMA FetchesOn ==
    ASSUME ToldInv, walk.at = "fetching",
           NEW w, Becomes(w), Asks(w, walk), w.shown = walk.shown, w.at = "fetching",
           ~lowlevel /\ w.of = "kaggle_models" => w.count = walk.count
    PROVE  ToldInv'
<1>1. Steady(w) => Onward(w) /\ (~lowlevel /\ w.of = "kaggle_models" => w.count = NoCount)
  BY AsksSame DEF ToldInv, Told, Asks
<1>2. Steady(w) => Told(w)
  BY <1>1 DEF Told
<1> QED
  BY <1>2, StepTold

\* An answer that tells of there being more as it should.
LEMMA AnswersOn ==
    ASSUME PagesInv, PagesInv', Steady(walk) => Onward(walk),
           NEW w, DOMAIN w = Fields, Asks(w, walk), w.shown = walk.shown,
           NEW a, Becomes(Answer(w, a)), a.more \in BOOLEAN,
           Steady(walk) /\ IsPage(w, AnswerOf(w)) =>
             IF walk.of \in FileListings THEN a.more = FALSE /\ a.total = Len(catalog)
             ELSE IF FirstAgain(walk) THEN a.more = TRUE
             ELSE /\ a.more = FALSE => Len(catalog) <= Start(walk) + walk.size
                                       /\ (a.exact => a.total = Len(catalog))
                  /\ a.more = TRUE /\ Uncounted(walk) => Start(walk) + walk.size <= Len(catalog)
    PROVE  ToldInv'
<1> DEFINE v == Answer(w, a)
<1>1. /\ Asks(v, w) /\ v.at = "answered" /\ v.items = w.items /\ v.shown = w.shown \o w.items
      /\ v.total = a.total /\ v.exact = a.exact /\ v.more = a.more
  BY AnswerIs
<1>2. WalkTypes(v) /\ Right(v)
  BY Becoming
<1>3. catalog \in Seq(Nat) /\ WalkTypes(walk)
  BY DEF PagesInv, CatalogTypes
<1> HIDE DEF v
<1>4. Asks(v, walk) /\ v.shown = walk.shown \o v.items
  BY <1>1 DEF Asks
<1>5. ASSUME Steady(v) PROVE Shown(v)
  <2>1. Steady(walk)
    BY <1>4, <1>5, AsksSame
  <2>2. IsPage(v, AnswerOf(v))
    BY <1>1, <1>2, <1>5 DEF Right, Steady
  <2>3. IsPage(w, AnswerOf(w))
    <3>1. PageOf(v) = PageOf(w) /\ (FirstAgain(v) <=> FirstAgain(w)) /\ v.of = w.of
      BY <1>1, AsksSame DEF Asks
    <3> QED
      BY <1>1, <2>2, <3>1 DEF IsPage, AnswerOf
  <2>4. IF walk.of \in FileListings THEN v.more = FALSE /\ v.total = Len(catalog)
        ELSE IF FirstAgain(walk) THEN v.more = TRUE
        ELSE /\ v.more = FALSE => Len(catalog) <= Start(walk) + walk.size
                                  /\ (v.exact => v.total = Len(catalog))
             /\ v.more = TRUE /\ Uncounted(walk) => Start(walk) + walk.size <= Len(catalog)
    BY <1>1, <2>1, <2>3
  <2>5. Onward(walk) /\ v.more \in BOOLEAN
    BY <1>1, <2>1
  <2> QED
    BY <1>3, <1>4, <2>2, <2>4, <2>5, AnswersTold
<1>6. Steady(v) => Told(v)
  BY <1>1, <1>5 DEF Told
<1> QED
  BY <1>6, StepTold DEF v

LEMMA HfTold == PagesInv /\ PagesInv' /\ ToldInv /\ HfFetch => ToldInv'
<1> SUFFICES ASSUME PagesInv, PagesInv', ToldInv, HfFetch PROVE ToldInv'
  OBVIOUS
<1>1. /\ WalkTypes(walk) /\ walk.at = "fetching" /\ walk.of \in {"hf_models", "hf_datasets"}
      /\ catalog \in Seq(Nat)
  BY DEF PagesInv, CatalogTypes, HfFetch
<1> DEFINE w == [walk EXCEPT !.items = @ \o Slice(catalog, walk.from * HfPage, HfPage),
                             !.count = Len(catalog), !.from = @ + 1]
           shown == IF w.of = "hf_models" THEN Models(Window(w, HfPage)) ELSE Window(w, HfPage)
           page == [w EXCEPT !.items = shown]
           a == Counted(page)
<1>2. Becomes(IF w.from <= w.to THEN w ELSE Answer(page, a))
  BY DEF HfFetch
<1>3. /\ DOMAIN w = Fields /\ Asks(w, walk) /\ w.shown = walk.shown /\ w.at = "fetching"
      /\ w.count = Len(catalog)
  BY <1>1 DEF WalkTypes, Fields, Asks
<1> HIDE DEF w
<1>4. CASE w.from <= w.to
  <2>1. w.of # "kaggle_models"
    BY <1>1, <1>3 DEF Asks
  <2> QED
    BY <1>1, <1>2, <1>3, <1>4, <2>1, FetchesOn
<1>5. CASE ~(w.from <= w.to)
  <2> HIDE DEF shown
  <2>1. /\ DOMAIN page = Fields /\ Asks(page, w) /\ page.shown = w.shown /\ page.count = w.count
    BY <1>3 DEF Fields, Asks
  <2>2. Becomes(Answer(page, a))
    BY <1>2, <1>5
  <2> HIDE DEF page
  <2>3. Asks(page, walk) /\ page.shown = walk.shown /\ page.count = Len(catalog)
    BY <1>3, <2>1 DEF Asks
  <2>4. Start(page) = Start(walk) /\ PageOf(page) = PageOf(walk)
        /\ page.of = walk.of /\ page.size = walk.size
    BY <2>3, AsksSame DEF Asks
  <2> DEFINE more == Start(page) + (IF page.of = "hf_models" THEN page.size ELSE Len(page.items))
                       < page.count
  <2>5. a = [total |-> page.count, exact |-> TRUE, more |-> more]
    BY DEF Counted
  <2>6. a.total = Len(catalog) /\ a.more = more /\ more \in BOOLEAN
    BY <2>3, <2>5
  <2>7. IsPage(page, AnswerOf(page)) /\ ~more => Len(catalog) <= Start(walk) + walk.size
    <3> SUFFICES ASSUME IsPage(page, AnswerOf(page)), ~more
                 PROVE  Len(catalog) <= Start(walk) + walk.size
      OBVIOUS
    <3>1. /\ Len(PageOf(walk)) = IF Len(catalog) <= Start(walk) THEN 0
                                 ELSE IF Start(walk) + walk.size < Len(catalog) THEN walk.size
                                 ELSE Len(catalog) - Start(walk)
          /\ Start(walk) \in Nat /\ walk.size \in Nat \ {0} /\ Len(catalog) \in Nat
      BY <1>1, PageLength
    <3>2. page.of # "hf_models" => page.items = PageOf(walk)
      BY <1>1, <2>4 DEF IsPage, FirstAgain, AnswerOf, FileListings
    <3>3. ~(Start(walk) + (IF page.of = "hf_models" THEN walk.size ELSE Len(page.items)) < Len(catalog))
      BY <2>3, <2>4
    <3> DEFINE n == Len(PageOf(walk))
               l == Len(catalog)
               start == Start(walk)
               size == walk.size
    <3>4. ~(start + size < l) \/ ~(start + n < l)
      BY <3>2, <3>3
    <3>5. /\ n = IF l <= start THEN 0 ELSE IF start + size < l THEN size ELSE l - start
          /\ start \in Nat /\ size \in Nat \ {0} /\ l \in Nat
      BY <3>1
    <3> HIDE DEF n, l, start, size
    <3>6. l <= start + size
      BY <3>4, <3>5
    <3> QED
      BY <3>6 DEF l, start, size
  <2> HIDE DEF a, more
  <2>8. walk.of \notin FileListings /\ ~FirstAgain(walk) /\ ~Uncounted(walk)
    BY <1>1 DEF FileListings, FirstAgain, Uncounted
  <2>9. Steady(walk) => Onward(walk)
    BY <1>1 DEF ToldInv, Told
  <2> QED
    BY <2>1, <2>2, <2>3, <2>6, <2>7, <2>8, <2>9, AnswersOn
<1> QED
  BY <1>4, <1>5

\* A page of a listing that nobody counts, or of which all items are counted.
LEMMA TotalsOn ==
    ASSUME PagesInv, Onward(walk), ~FirstAgain(walk), walk.of \in {"kaggle_datasets", "kaggle_models"},
           NEW w, w.page = walk.page, w.size = walk.size, w.items = PageOf(walk),
           NEW count, count = IF Uncounted(walk) THEN NoCount ELSE Capped(Len(catalog))
    PROVE  LET a == _paginated_total(w, count) IN
           /\ a.more \in BOOLEAN
           /\ a.more = FALSE => Len(catalog) <= Start(walk) + walk.size
                                /\ (a.exact => a.total = Len(catalog))
           /\ a.more = TRUE /\ Uncounted(walk) => Start(walk) + walk.size <= Len(catalog)
<1> DEFINE n == Len(PageOf(walk))
           l == Len(catalog)
           start == Start(walk)
           size == walk.size
           a == _paginated_total(w, count)
<1>1. WalkTypes(walk) /\ catalog \in Seq(Nat)
  BY DEF PagesInv, CatalogTypes
<1>2. /\ n = IF l <= start THEN 0 ELSE IF start + size < l THEN size ELSE l - start
      /\ start \in Nat /\ size \in Nat \ {0} /\ l \in Nat
  BY <1>1, PageLength
<1>3. Start(w) = start /\ Len(w.items) = n /\ w.size = size
  BY SamePlace
<1>4. Uncounted(walk) => start <= l
  BY DEF Onward
<1>5. Capped(l) # NoCount
  BY <1>2, PagesAssumption DEF NoCount, Capped
<1>6. count = NoCount \/ count = Capped(l)
  OBVIOUS
<1>7. count = NoCount <=> Uncounted(walk)
  BY <1>5
<1> HIDE DEF n, l, start, size
<1>8. /\ Len(w.items) = IF l <= Start(w) THEN 0
                         ELSE IF Start(w) + w.size < l THEN w.size ELSE l - Start(w)
      /\ Start(w) \in Nat /\ w.size \in Nat \ {0} /\ l \in Nat
  BY <1>2, <1>3
<1>9. Tells(a, w, l, count)
  BY <1>6, <1>8, TotalsTell
<1> HIDE DEF a
<1>10. /\ a.more \in BOOLEAN
       /\ a.more = FALSE => l <= start + size /\ (a.exact => a.total = l)
       /\ a.more = TRUE /\ Uncounted(walk) => start + size <= l
  BY <1>3, <1>4, <1>7, <1>9 DEF Tells
<1> QED
  BY <1>10 DEF a, l, start, size


LEMMA MoreIfFull ==
    ASSUME NEW w, Start(w) \in Nat, w.size \in Nat, Len(w.items) = w.size
    PROVE  _paginated_total(w, NoCount).more = TRUE
<1>1. Full(w) = TRUE /\ ~(NoCount >= Start(w) + Len(w.items))
  BY DEF Full, NoCount
<1> DEFINE a == [total |-> Start(w) + Len(w.items), exact |-> ~Full(w), more |-> Full(w)]
<1>2. _paginated_total(w, NoCount) = a
  BY <1>1 DEF _paginated_total
<1>3. a.more = TRUE
  BY <1>1
<1> QED
  BY <1>2, <1>3

LEMMA MoreTyped == ASSUME NEW w, NEW count PROVE _paginated_total(w, count).more \in BOOLEAN
<1> DEFINE seen == Start(w) + Len(w.items)
           full == Full(w)
           rest == seen < count
           a == [total |-> seen, exact |-> ~full, more |-> full]
           b == [total |-> seen, exact |-> FALSE, more |-> full]
           c == [total |-> count, exact |-> FALSE, more |-> TRUE]
           d == [total |-> count, exact |-> TRUE, more |-> rest]
<1>1. full \in BOOLEAN /\ rest \in BOOLEAN
  BY DEF Full
<1>2. _paginated_total(w, count) \in {a, b, c, d}
  <2> DEFINE first  == count = NoCount
             second == count # NoCount /\ count < seen
             third  == count >= seen /\ count >= Cap
  <2>1. _paginated_total(w, count) = CASE first -> a [] second -> b [] third -> c [] OTHER -> d
    BY DEF _paginated_total
  <2>2. first \in BOOLEAN /\ second \in BOOLEAN /\ third \in BOOLEAN
    OBVIOUS
  <2> HIDE DEF first, second, third, a, b, c, d
  <2> QED
    BY <2>1, <2>2
<1> HIDE DEF full, rest
<1>3. a.more \in BOOLEAN /\ b.more \in BOOLEAN /\ c.more \in BOOLEAN /\ d.more \in BOOLEAN
  BY <1>1
<1> HIDE DEF a, b, c, d
<1> QED
  BY <1>2, <1>3

LEMMA DatasetsTold == PagesInv /\ PagesInv' /\ ToldInv /\ DatasetsFetch => ToldInv'
<1> SUFFICES ASSUME PagesInv, PagesInv', ToldInv, DatasetsFetch PROVE ToldInv'
  OBVIOUS
<1>1. /\ WalkTypes(walk) /\ walk.at = "fetching" /\ walk.of = "kaggle_datasets"
      /\ catalog \in Seq(Nat)
  BY DEF PagesInv, CatalogTypes, DatasetsFetch
<1> DEFINE w == [walk EXCEPT !.items = @ \o Slice(catalog, walk.from * KagglePage, KagglePage),
                             !.from = @ + 1]
           shown == Window(w, KagglePage)
           page == [w EXCEPT !.items = shown]
           a == _paginated_total(page, NoCount)
<1>2. Becomes(IF w.from <= w.to THEN w ELSE Answer(page, a))
  BY DEF DatasetsFetch
<1>3. DOMAIN w = Fields /\ Asks(w, walk) /\ w.shown = walk.shown /\ w.at = "fetching"
  BY <1>1 DEF WalkTypes, Fields, Asks
<1> HIDE DEF w
<1>4. CASE w.from <= w.to
  <2>1. w.of # "kaggle_models"
    BY <1>1, <1>3 DEF Asks
  <2> HIDE DEF a
  <2> QED
    BY <1>1, <1>2, <1>3, <1>4, <2>1, FetchesOn
<1>5. CASE ~(w.from <= w.to)
  <2> HIDE DEF shown
  <2>1. DOMAIN page = Fields /\ Asks(page, w) /\ page.shown = w.shown
    BY <1>3 DEF Fields, Asks
  <2>2. Becomes(Answer(page, a))
    BY <1>2, <1>5
  <2> HIDE DEF page
  <2>3. Asks(page, walk) /\ page.shown = walk.shown
    BY <1>3, <2>1 DEF Asks
  <2>4. PageOf(page) = PageOf(walk) /\ page.of = walk.of /\ page.size = walk.size
        /\ page.page = walk.page
    BY <2>3, AsksSame DEF Asks
  <2>5. walk.of \notin FileListings /\ ~FirstAgain(walk) /\ Uncounted(walk)
    BY <1>1 DEF FileListings, FirstAgain, Uncounted
  <2>6. Steady(walk) => Onward(walk)
    BY <1>1 DEF ToldInv, Told
  <2>7. IsPage(page, AnswerOf(page)) => page.items = PageOf(walk)
    BY <1>1, <2>4 DEF IsPage, FirstAgain, AnswerOf, FileListings
  <2>8. Steady(walk) /\ IsPage(page, AnswerOf(page)) =>
          /\ a.more = FALSE => Len(catalog) <= Start(walk) + walk.size
                               /\ (a.exact => a.total = Len(catalog))
          /\ a.more = TRUE /\ Uncounted(walk) => Start(walk) + walk.size <= Len(catalog)
    BY <1>1, <2>4, <2>5, <2>6, <2>7, TotalsOn
  <2>9. a.more \in BOOLEAN
    BY MoreTyped
  <2> HIDE DEF a
  <2> QED
    BY <2>1, <2>2, <2>3, <2>5, <2>6, <2>8, <2>9, AnswersOn
<1> QED
  BY <1>4, <1>5

LEMMA ModelsTold == ToldInv /\ PagesInv /\ ModelsFetch => ToldInv'
<1> SUFFICES ASSUME ToldInv, PagesInv, ModelsFetch PROVE ToldInv'
  OBVIOUS
<1>1. /\ WalkTypes(walk) /\ walk.at = "fetching" /\ walk.of = "kaggle_models" /\ lowlevel
  BY DEF PagesInv, ModelsFetch
<1> DEFINE reached == walk.from + 1
           items == Slice(catalog, walk.from * walk.size, walk.size)
           w == [walk EXCEPT !.from = reached, !.count = Capped(Len(catalog))]
           x == [w EXCEPT !.at = "counting", !.items = items]
           y == [w EXCEPT !.at = "counting"]
<1>2. Becomes(w) \/ Becomes(x) \/ Becomes(y)
  BY DEF ModelsFetch
<1>3. /\ DOMAIN w = Fields /\ Asks(w, walk) /\ w.shown = walk.shown /\ w.at = "fetching"
      /\ w.count = Capped(Len(catalog))
  BY <1>1 DEF WalkTypes, Fields, Asks
<1> HIDE DEF items, w
<1>4. /\ Asks(x, w) /\ x.shown = w.shown /\ x.at = "counting" /\ x.count = w.count
      /\ Asks(y, w) /\ y.shown = w.shown /\ y.at = "counting" /\ y.count = w.count
  BY <1>3 DEF Fields, Asks
<1> HIDE DEF x, y
<1>5. ASSUME NEW z, Becomes(z), Asks(z, w), z.shown = w.shown, z.at = "counting", z.count = w.count
      PROVE  ToldInv'
  <2>1. Asks(z, walk) /\ z.shown = walk.shown
    BY <1>3, <1>5 DEF Asks
  <2>2. Steady(z) => Onward(z)
    BY <1>1, <2>1, AsksSame DEF ToldInv, Told
  <2>3. Steady(z) => Told(z)
    BY <1>1, <1>3, <1>5, <2>2 DEF Told
  <2> QED
    BY <1>5, <2>3, StepTold
<1>6. CASE Becomes(w)
  BY <1>1, <1>3, <1>6, FetchesOn
<1> QED
  BY <1>2, <1>4, <1>5, <1>6

LEMMA FallbackTold == ToldInv /\ PagesInv /\ ModelsFallback => ToldInv'
<1> SUFFICES ASSUME ToldInv, PagesInv, ModelsFallback PROVE ToldInv'
  OBVIOUS
<1>1. /\ WalkTypes(walk) /\ walk.at = "fetching" /\ walk.of = "kaggle_models" /\ ~lowlevel
  BY DEF PagesInv, ModelsFallback
<1> DEFINE all == Slice(catalog, 0, walk.size * walk.page)
           items == IF Len(all) > walk.size THEN Slice(all, Start(walk), walk.size) ELSE all
           w == [walk EXCEPT !.at = "counting", !.items = items]
<1>2. Becomes(w)
  BY DEF ModelsFallback
<1> HIDE DEF items
<1>3. Asks(w, walk) /\ w.shown = walk.shown /\ w.at = "counting" /\ w.count = walk.count
  BY <1>1 DEF WalkTypes, Fields, Asks
<1> HIDE DEF w
<1>4. Steady(w) => Onward(w) /\ walk.count = NoCount
  BY <1>1, <1>3, AsksSame DEF ToldInv, Told
<1>5. Steady(w) => Told(w)
  BY <1>1, <1>3, <1>4 DEF Told
<1> QED
  BY <1>2, <1>5, StepTold

LEMMA CountTold == PagesInv /\ PagesInv' /\ ToldInv /\ Count => ToldInv'
<1> SUFFICES ASSUME PagesInv, PagesInv', ToldInv, Count PROVE ToldInv'
  OBVIOUS
<1>1. WalkTypes(walk) /\ Right(walk) /\ walk.at = "counting" /\ catalog \in Seq(Nat)
  BY DEF PagesInv, CatalogTypes, Count
<1>2. DOMAIN walk = Fields /\ Asks(walk, walk)
  BY <1>1 DEF WalkTypes, Asks
<1>3. Steady(walk) => /\ Onward(walk) /\ walk.of = "kaggle_models" /\ IsPage(walk, PageOf(walk))
                      /\ walk.count = IF lowlevel THEN Capped(Len(catalog)) ELSE NoCount
  BY <1>1 DEF ToldInv, Told, Right, Steady
<1> DEFINE a == _paginated_total(walk, walk.count)
<1>4. CASE Becomes(Answer(walk, a))
  <2>1. a.more \in BOOLEAN
    BY MoreTyped
  <2>2. ASSUME Steady(walk)
        PROVE  IF FirstAgain(walk) THEN a.more = TRUE
               ELSE /\ a.more = FALSE => Len(catalog) <= Start(walk) + walk.size
                                         /\ (a.exact => a.total = Len(catalog))
                    /\ a.more = TRUE /\ Uncounted(walk) => Start(walk) + walk.size <= Len(catalog)
    <3>1. CASE FirstAgain(walk)
      <4>1. walk.count = NoCount /\ Len(walk.items) = walk.size
        BY <1>3, <2>2, <3>1 DEF FirstAgain, IsPage, Onward
      <4>2. walk.size \in Nat /\ Start(walk) \in Nat
        BY <1>1, PageLength
      <4>3. a.more = TRUE
        BY <4>1, <4>2, MoreIfFull
      <4> QED
        BY <3>1, <4>3
    <3>2. CASE ~FirstAgain(walk)
      <4>1. walk.count = IF Uncounted(walk) THEN NoCount ELSE Capped(Len(catalog))
        BY <1>3, <2>2 DEF Uncounted
      <4>2. walk.items = PageOf(walk)
        BY <1>3, <2>2, <3>2 DEF IsPage
      <4>3. /\ a.more = FALSE => Len(catalog) <= Start(walk) + walk.size
                                 /\ (a.exact => a.total = Len(catalog))
            /\ a.more = TRUE /\ Uncounted(walk) => Start(walk) + walk.size <= Len(catalog)
        BY <1>3, <2>2, <3>2, <4>1, <4>2, TotalsOn
      <4> QED
        BY <3>2, <4>3
    <3> QED
      BY <3>1, <3>2
  <2> HIDE DEF a
  <2>3. Steady(walk) => walk.of \notin FileListings
    BY <1>3 DEF FileListings
  <2> QED
    BY <1>2, <1>3, <1>4, <2>1, <2>2, <2>3, AnswersOn
<1> DEFINE w == [walk EXCEPT !.internal = TRUE]
<1>5. CASE \E b : Becomes(Answer(w, b))
  <2>1. PICK b : Becomes(Answer(w, b))
    BY <1>5
  <2>2. DOMAIN w = Fields /\ w.internal = TRUE
    BY <1>2 DEF Fields
  <2> HIDE DEF w
  <2>3. Asks(Answer(w, b), w)
    BY <2>2, AnswerIs
  <2>4. ~Steady(Answer(w, b))
    BY <2>2, <2>3 DEF Asks, Steady
  <2> QED
    BY <2>1, <2>4, StepTold
<1> QED
  BY <1>4, <1>5 DEF Count

LEMMA FilesTold ==
    ASSUME PagesInv, PagesInv', ToldInv, NEW first, WalksOn(first),
           walk.of \in {"kaggle_model_files", "kaggle_dataset_files"}
    PROVE  ToldInv'
<1>1. WalkTypes(walk) /\ walk.at = "fetching" /\ catalog \in Seq(Nat)
  BY DEF PagesInv, CatalogTypes, WalksOn
<1>2. walk.of \in FileListings /\ walk.of # "kaggle_models"
  BY DEF FileListings
<1> DEFINE size == IF walk.tokens = {} THEN first ELSE FilesPage
           next(repeated) == IF repeated = 0 THEN walk.from + size ELSE repeated
           found == Slice(catalog, walk.from, size)
           items == IF Len(walk.items) > MaxItems + FilesPage THEN walk.items ELSE walk.items \o found
           w(repeated) == [walk EXCEPT !.items = items, !.changed = @ \/ repeated # 0]
           on(repeated) == [w(repeated) EXCEPT !.from = next(repeated), !.tokens = @ \cup {next(repeated)}]
           more(repeated) == repeated # 0 \/ next(repeated) < Len(catalog)
<1>3. PICK repeated \in {0} \cup walk.tokens :
         Becomes(IF more(repeated) /\ ~Known(next(repeated)) THEN on(repeated) ELSE Whole(w(repeated)))
  BY DEF WalksOn
<1> DEFINE ww == w(repeated)
           oo == on(repeated)
           nn == next(repeated)
           alters == walk.changed \/ repeated # 0
<1>4. Becomes(oo) \/ Becomes(Whole(ww))
  BY <1>3
<1>5. ww = [walk EXCEPT !.items = items, !.changed = alters]
  OBVIOUS
<1>6. alters \in BOOLEAN /\ (alters # TRUE => walk.changed # TRUE)
  OBVIOUS
<1>7. oo = [ww EXCEPT !.from = nn, !.tokens = @ \cup {nn}]
  OBVIOUS
<1> HIDE DEF items, alters, nn, w, on, ww, oo
<1>8. /\ DOMAIN ww = Fields /\ ww.of = walk.of /\ ww.page = walk.page /\ ww.size = walk.size
      /\ ww.entire = walk.entire /\ ww.internal = walk.internal /\ ww.changed = alters
      /\ ww.at = "fetching" /\ ww.shown = walk.shown /\ ww.items = items
  BY <1>1, <1>5 DEF WalkTypes, Fields
<1>9. Asks(oo, ww) /\ oo.at = "fetching" /\ oo.shown = ww.shown
  BY <1>7, <1>8 DEF Fields, Asks
<1>10. ASSUME NEW z, Asks(z, ww), Steady(z) PROVE alters = walk.changed /\ Asks(z, walk) /\ Onward(walk)
  <2>1. z.changed = alters /\ z.entire = walk.entire /\ z.internal = walk.internal
    BY <1>8, <1>10 DEF Asks
  <2>2. alters = FALSE /\ walk.changed = FALSE
    BY <1>1, <1>6, <1>10, <2>1 DEF Steady, WalkTypes
  <2>3. Asks(z, walk)
    BY <1>8, <1>10, <2>2 DEF Asks
  <2>4. Steady(walk)
    BY <1>10, <2>3, AsksSame
  <2> QED
    BY <1>1, <2>2, <2>3, <2>4 DEF ToldInv, Told
<1>11. CASE Becomes(oo)
  <2>1. Steady(oo) => Onward(oo)
    BY <1>8, <1>9, <1>10, AsksSame
  <2>2. oo.of # "kaggle_models"
    BY <1>2, <1>8, <1>9 DEF Asks
  <2>3. Steady(oo) => Told(oo)
    BY <1>9, <2>1, <2>2 DEF Told
  <2> QED
    BY <1>11, <2>3, StepTold
<1>12. CASE Becomes(Whole(ww))
  <2> DEFINE a == [total |-> Len(ww.items), exact |-> TRUE, more |-> FALSE]
             v == Answer(ww, a)
  <2>1. Becomes(v)
    BY <1>12 DEF Whole
  <2>2. a.total = Len(ww.items) /\ a.more = FALSE
    OBVIOUS
  <2> HIDE DEF a
  <2>3. /\ Asks(v, ww) /\ v.at = "answered" /\ v.items = ww.items /\ v.shown = ww.shown \o ww.items
        /\ v.total = a.total /\ v.exact = a.exact /\ v.more = a.more
    BY <1>8, AnswerIs
  <2>4. Right(v)
    BY <2>1, Becoming
  <2> HIDE DEF v
  <2>5. ASSUME Steady(v) PROVE Shown(v)
    <3>1. Asks(v, walk) /\ Onward(walk)
      BY <1>10, <2>3, <2>5
    <3>2. IsPage(v, AnswerOf(v))
      BY <2>3, <2>4, <2>5 DEF Right, Steady
    <3>3. v.items = catalog
      BY <1>2, <3>1, <3>2 DEF IsPage, AnswerOf, FirstAgain, Asks
    <3>4. v.more = FALSE /\ v.total = Len(catalog) /\ v.shown = walk.shown \o v.items
      BY <1>8, <2>2, <2>3, <3>3
    <3> QED
      BY <1>1, <1>2, <3>1, <3>2, <3>4, AnswersTold
  <2>6. Steady(v) => Told(v)
    BY <2>3, <2>5 DEF Told
  <2> QED
    BY <2>1, <2>6, StepTold
<1> QED
  BY <1>4, <1>11, <1>12

LEMMA AtOnceTold ==
    ASSUME PagesInv, PagesInv', ToldInv, AllAtOnce,
           walk.of \in {"hf_model_files", "hf_dataset_files"}
    PROVE  ToldInv'
<1>1. WalkTypes(walk) /\ walk.at = "fetching" /\ walk.of \in FileListings
  BY DEF PagesInv, AllAtOnce, FileListings
<1> DEFINE w == [walk EXCEPT !.items = catalog]
           a == [total |-> Len(w.items), exact |-> TRUE, more |-> FALSE]
<1>2. Becomes(Answer(w, a))
  BY DEF AllAtOnce, Whole
<1>3. DOMAIN w = Fields /\ Asks(w, walk) /\ w.shown = walk.shown /\ w.items = catalog
  BY <1>1 DEF WalkTypes, Fields, Asks
<1>4. a.more = FALSE /\ a.total = Len(w.items)
  OBVIOUS
<1> HIDE DEF w, a
<1>5. Steady(walk) => Onward(walk)
  BY <1>1 DEF ToldInv, Told
<1>6. a.more \in BOOLEAN /\ a.total = Len(catalog)
  BY <1>3, <1>4
<1> QED
  BY <1>1, <1>2, <1>3, <1>4, <1>5, <1>6, AnswersOn

LEMMA FailTold == FetchFails => ToldInv'
<1> SUFFICES ASSUME FetchFails PROVE ToldInv'
  OBVIOUS
<1> DEFINE w == [NoWalk EXCEPT !.at = "failed"]
<1>1. Becomes(w) /\ w.at = "failed"
  BY DEF FetchFails, NoWalk
<1> HIDE DEF w
<1> QED
  BY <1>1, StepTold DEF Told

LEMMA ChangeTold == PagesInv /\ Change => ToldInv'
<1> SUFFICES ASSUME PagesInv, Change PROVE ToldInv'
  OBVIOUS
<1>1. walk' = [walk EXCEPT !.changed = TRUE] /\ DOMAIN walk = Fields
  BY DEF Change, PagesInv, WalkTypes
<1>2. walk'.changed = TRUE
  BY <1>1 DEF Fields
<1> QED
  BY <1>2 DEF ToldInv, Steady

LEMMA FetchingIs ==
    ASSUME NEW w, DOMAIN w = Fields
    PROVE  LET v == Fetching(w) IN
           Asks(v, w) /\ v.shown = w.shown /\ v.at = "fetching" /\ v.count = NoCount
<1> DEFINE u == [w EXCEPT !.at = "fetching", !.items = << >>, !.tokens = {}, !.count = NoCount]
           v(a, b) == [u EXCEPT !.from = a, !.to = b]
<1>1. DOMAIN u = Fields /\ Asks(u, w) /\ u.shown = w.shown /\ u.at = "fetching" /\ u.count = NoCount
  BY DEF Fields, Asks
<1>2. \E a, b : Fetching(w) = v(a, b)
  <2>1. CASE w.of \in {"hf_models", "hf_datasets"}
    <3>1. Fetching(w) = v(FirstOf(w, HfPage), LastOf(w, HfPage))
      BY <2>1 DEF Fetching
    <3> QED
      BY <3>1
  <2>2. CASE w.of = "kaggle_datasets"
    <3>1. Fetching(w) = v(FirstOf(w, KagglePage), LastOf(w, KagglePage))
      BY <2>2 DEF Fetching
    <3> QED
      BY <3>1
  <2>3. CASE w.of \notin {"hf_models", "hf_datasets", "kaggle_datasets"}
    <3>1. Fetching(w) = v(0, w.page)
      BY <2>3 DEF Fetching
    <3> QED
      BY <3>1
  <2> QED
    BY <2>1, <2>2, <2>3
<1>3. PICK a, b : Fetching(w) = v(a, b)
  BY <1>2
<1> HIDE DEF u
<1>4. /\ Asks(v(a, b), u) /\ v(a, b).shown = u.shown /\ v(a, b).at = u.at
      /\ v(a, b).count = u.count
  BY <1>1 DEF Fields, Asks
<1> DEFINE x == v(a, b)
<1>5. Asks(x, u) /\ x.shown = u.shown /\ x.at = u.at /\ x.count = u.count /\ Fetching(w) = x
  BY <1>3, <1>4
<1> HIDE DEF x, v
<1> QED
  BY <1>1, <1>5 DEF Asks

LEMMA AskTold == PagesInv /\ Ask => ToldInv'
<1> SUFFICES ASSUME PagesInv, Ask PROVE ToldInv'
  OBVIOUS
<1>1. PICK of \in Listings, page \in 1..MaxPage, size \in Sizes :
        /\ of \in FileListings => page = 1 /\ size = FilesPage
        /\ Becomes(Fetching([NoWalk EXCEPT !.of = of, !.page = page, !.size = size,
                                           !.entire = (page = 1)]))
  BY DEF Ask
<1> DEFINE w == [NoWalk EXCEPT !.of = of, !.page = page, !.size = size, !.entire = (page = 1)]
           v == Fetching(w)
<1>2. /\ DOMAIN w = Fields /\ w.of = of /\ w.page = page /\ w.size = size
      /\ w.entire = (page = 1) /\ w.shown = << >>
  BY DEF NoWalk, Fields
<1>3. Becomes(v)
  BY <1>1
<1> HIDE DEF w
<1>4. Asks(v, w) /\ v.shown = w.shown /\ v.at = "fetching" /\ v.count = NoCount
  BY <1>2, FetchingIs
<1> HIDE DEF v
<1>5. ASSUME Steady(v) PROVE Onward(w)
  <2>1. page = 1
    BY <1>2, <1>4, <1>5 DEF Asks, Steady
  <2>2. Start(w) = 0
    <3>1. size \in Nat
      BY PagesAssumption
    <3>2. (1 - 1) * size = 0
      BY <3>1
    <3> QED
      BY <1>2, <2>1, <3>2 DEF Start
  <2>3. catalog \in Seq(Nat) /\ Len(catalog) \in Nat
    BY LenProperties DEF PagesInv, CatalogTypes
  <2>4. WantedOf(w, UpTo(0)) = << >>
    BY <2>3, WantedOn
  <2>5. ~FirstAgain(w)
    BY <1>2, <2>1 DEF FirstAgain
  <2> QED
    BY <1>2, <2>1, <2>2, <2>3, <2>4, <2>5 DEF Onward
<1>6. Steady(v) => Onward(v)
  BY <1>4, <1>5, AsksSame
<1>7. Steady(v) => Told(v)
  BY <1>4, <1>6 DEF Told
<1> QED
  BY <1>3, <1>7, StepTold

LEMMA AskNextTold == PagesInv /\ ToldInv /\ AskNext => ToldInv'
<1> SUFFICES ASSUME PagesInv, ToldInv, AskNext PROVE ToldInv'
  OBVIOUS
<1>1. WalkTypes(walk) /\ walk.at = "answered" /\ walk.more /\ catalog \in Seq(Nat)
  BY DEF PagesInv, CatalogTypes, AskNext
<1> DEFINE w == [walk EXCEPT !.page = @ + 1]
           v == Fetching(w)
<1>2. /\ DOMAIN w = Fields /\ w.of = walk.of /\ w.page = walk.page + 1 /\ w.size = walk.size
      /\ w.shown = walk.shown /\ w.entire = walk.entire /\ w.changed = walk.changed
      /\ w.internal = walk.internal
  BY <1>1 DEF WalkTypes, Fields
<1>3. Becomes(v)
  BY DEF AskNext
<1> HIDE DEF w
<1>4. Asks(v, w) /\ v.shown = w.shown /\ v.at = "fetching" /\ v.count = NoCount
  BY <1>2, FetchingIs
<1> HIDE DEF v
<1>5. ASSUME Steady(v) PROVE Onward(w)
  <2>1. Steady(walk)
    BY <1>2, <1>4, <1>5 DEF Asks, Steady
  <2>2. /\ walk.of \notin FileListings
        /\ FirstAgain(walk) => Len(catalog) = walk.size
        /\ ~FirstAgain(walk) => walk.shown = WantedOf(walk, UpTo(Start(walk) + walk.size))
        /\ Uncounted(walk) /\ ~FirstAgain(walk) => Start(walk) + walk.size <= Len(catalog)
    BY <1>1, <2>1 DEF ToldInv, Told, Shown
  <2>3. /\ walk.page \in Nat \ {0} /\ walk.size \in Nat \ {0} /\ Start(walk) \in Nat
        /\ Len(catalog) \in Nat
    BY <1>1, PageLength DEF WalkTypes
  <2>4. Start(w) = Start(walk) + walk.size
    <3> DEFINE p == walk.page - 1
               size == walk.size
    <3>1. p \in Nat /\ size \in Nat /\ w.page - 1 = p + 1 /\ w.size = size
      BY <1>2, <2>3
    <3>2. Start(w) = (w.page - 1) * w.size /\ Start(walk) = p * size
      BY DEF Start
    <3> HIDE DEF p, size
    <3>3. (p + 1) * size = p * size + size
      BY <3>1, Multiples
    <3>4. Start(w) = Start(walk) + size
      BY <3>1, <3>2, <3>3
    <3> QED
      BY <3>4 DEF size
  <2>5. FirstAgain(walk) => FirstAgain(w)
    BY <1>2, <2>3 DEF FirstAgain
  <2>6. FirstAgain(w) => Len(catalog) = w.size
    <3>1. CASE FirstAgain(walk)
      BY <1>2, <2>2, <3>1
    <3>2. CASE ~FirstAgain(walk)
      <4>1. FirstAgain(w) => Uncounted(walk) /\ Len(catalog) <= walk.size
        BY <1>2 DEF FirstAgain, Uncounted
      <4>2. FirstAgain(w) => Start(walk) + walk.size <= Len(catalog) /\ Len(catalog) <= walk.size
        BY <2>2, <3>2, <4>1
      <4>3. FirstAgain(w) => Len(catalog) = walk.size
        BY <2>3, <4>2
      <4> QED
        BY <1>2, <4>3
    <3> QED
      BY <3>1, <3>2
  <2>7. Uncounted(w) = Uncounted(walk) /\ \A s : WantedOf(w, s) = WantedOf(walk, s)
    BY <1>2 DEF Uncounted, WantedOf
  <2>8. ~FirstAgain(w) => w.shown = WantedOf(w, UpTo(Start(w)))
    BY <1>2, <2>2, <2>4, <2>5, <2>7
  <2>9. Uncounted(w) /\ ~FirstAgain(w) => Start(w) <= Len(catalog)
    BY <2>2, <2>4, <2>5, <2>7
  <2> QED
    BY <1>2, <2>2, <2>6, <2>8, <2>9 DEF Onward
<1>6. Steady(v) => Onward(v)
  BY <1>4, <1>5, AsksSame
<1>7. Steady(v) => Told(v)
  BY <1>4, <1>6 DEF Told
<1> QED
  BY <1>3, <1>7, StepTold

LEMMA NextToldInv == PagesInv /\ PagesInv' /\ ToldInv /\ [PagesNext]_pagesVars => ToldInv'
<1> SUFFICES ASSUME PagesInv, PagesInv', ToldInv, [PagesNext]_pagesVars PROVE ToldInv'
  OBVIOUS
<1>1. CASE UNCHANGED pagesVars
  BY <1>1 DEF pagesVars, ToldInv, Steady, Told, Onward, Shown, Complete, WantedOf, UpTo, Uncounted,
              FirstAgain, Start
<1>2. CASE DatasetFilesFetch
  BY <1>2, FilesTold DEF DatasetFilesFetch
<1>3. CASE ModelFilesFetch
  BY <1>3, FilesTold DEF ModelFilesFetch
<1>4. CASE HfModelFilesFetch \/ HfDatasetFilesFetch
  BY <1>4, AtOnceTold DEF HfModelFilesFetch, HfDatasetFilesFetch
<1>5. CASE Fetch
  BY <1>2, <1>3, <1>4, <1>5, HfTold, DatasetsTold, ModelsTold, FallbackTold, FailTold DEF Fetch
<1> QED
  BY <1>1, <1>5, ChangeTold, AskTold, AskNextTold, CountTold DEF PagesNext

LEMMA InitToldInv == PagesInit => ToldInv
  BY DEF PagesInit, NoWalk, ToldInv, Told

-----------------------------------------------------------------------------
(* What a client was shown, whatever it was told of its number.            *)

\* A client that began at the first page of a listing that did not change since.
Follows(w) ==
    /\ w.entire = TRUE /\ w.changed # TRUE
    /\ w.of \notin FileListings /\ ~FirstAgain(w)

InOrder(w) ==
    Follows(w) =>
      /\ w.at \in {"fetching", "counting"} => w.shown = WantedOf(w, UpTo(Start(w)))
      /\ w.at = "answered" => w.shown = WantedOf(w, UpTo(Start(w) + w.size))

OrderInv == InOrder(walk)

\* What a client asked for, but for what it was told of the number.
AsksFor(v, w) ==
    /\ v.of = w.of /\ v.page = w.page /\ v.size = w.size
    /\ v.entire = w.entire /\ v.changed = w.changed /\ v.shown = w.shown

LEMMA AsksForSame ==
    ASSUME NEW v, NEW w, AsksFor(v, w)
    PROVE  /\ (Follows(v) <=> Follows(w)) /\ Start(v) = Start(w) /\ v.size = w.size
           /\ v.shown = w.shown /\ \A s : WantedOf(v, s) = WantedOf(w, s)
  BY DEF AsksFor, Follows, FirstAgain, Start, WantedOf

LEMMA StepOrder ==
    ASSUME NEW w, Becomes(w), InOrder(w)
    PROVE  OrderInv'
<1>1. walk' = w /\ catalog' = catalog /\ changes' = changes /\ lowlevel' = lowlevel
  BY DEF Becomes
<1> QED
  BY <1>1 DEF OrderInv, InOrder, Follows, WantedOf, UpTo, FirstAgain, Start

\* A step of fetching or of counting that does not end the page.
LEMMA GoesOnOrder ==
    ASSUME OrderInv, walk.at \in {"fetching", "counting"},
           NEW w, Becomes(w), AsksFor(w, walk), w.at \in {"fetching", "counting"}
    PROVE  OrderInv'
<1>1. InOrder(w)
  BY AsksForSame DEF OrderInv, InOrder
<1> QED
  BY <1>1, StepOrder

\* An answer: it shows what follows on what was shown.
LEMMA AnswerOrder ==
    ASSUME PagesInv, PagesInv', OrderInv, walk.at \in {"fetching", "counting"},
           NEW w, DOMAIN w = Fields, AsksFor(w, walk), NEW a, Becomes(Answer(w, a))
    PROVE  OrderInv'
<1> DEFINE v == Answer(w, a)
<1>1. /\ Asks(v, w) /\ v.at = "answered" /\ v.items = w.items /\ v.shown = w.shown \o w.items
  BY AnswerIs
<1>2. Right(v)
  BY Becoming
<1>3. catalog \in Seq(Nat) /\ WalkTypes(walk)
  BY DEF PagesInv, CatalogTypes
<1> HIDE DEF v
<1>4. /\ (Follows(v) <=> Follows(walk)) /\ Start(v) = Start(walk) /\ v.size = walk.size
      /\ w.shown = walk.shown /\ \A s : WantedOf(v, s) = WantedOf(walk, s)
  <2>1. /\ (Follows(w) <=> Follows(walk)) /\ Start(w) = Start(walk) /\ w.size = walk.size
        /\ w.shown = walk.shown /\ \A s : WantedOf(w, s) = WantedOf(walk, s)
    BY AsksForSame
  <2>2. FirstAgain(v) <=> FirstAgain(w)
    BY <1>1 DEF Asks, FirstAgain
  <2>3. (Follows(v) <=> Follows(w)) /\ Start(v) = Start(w) /\ v.size = w.size
    BY <1>1, <2>2 DEF Asks, Follows, Start
  <2>4. \A s : WantedOf(v, s) = WantedOf(w, s)
    BY <1>1 DEF Asks, WantedOf
  <2> QED
    BY <2>1, <2>3, <2>4
<1>5. ASSUME Follows(v) PROVE v.shown = WantedOf(v, UpTo(Start(v) + v.size))
  <2>1. v.items = WantedOf(v, Slice(catalog, Start(v), v.size))
    BY <1>1, <1>2, <1>5 DEF Right, Follows, IsPage, AnswerOf, PageOf, WantedOf
  <2>2. walk.shown = WantedOf(walk, UpTo(Start(walk)))
    BY <1>4, <1>5 DEF OrderInv, InOrder
  <2>3. Start(walk) \in Nat /\ walk.size \in Nat
    BY <1>3, PageLength
  <2>4. WantedOf(walk, UpTo(Start(walk))) \o WantedOf(walk, Slice(catalog, Start(walk), walk.size))
          = WantedOf(walk, UpTo(Start(walk) + walk.size))
    BY <1>3, <2>3, WantedOn, ZenonT(30)
  <2> QED
    BY <1>1, <1>4, <2>1, <2>2, <2>4
<1>6. InOrder(v)
  BY <1>1, <1>5 DEF InOrder
<1> QED
  BY <1>6, StepOrder DEF v

LEMMA FetchOrder ==
    ASSUME PagesInv, PagesInv', OrderInv, HfFetch \/ DatasetsFetch
    PROVE  OrderInv'
<1>1. WalkTypes(walk) /\ walk.at = "fetching"
  BY DEF PagesInv, HfFetch, DatasetsFetch
<1>2. ASSUME NEW w, DOMAIN w = Fields, AsksFor(w, walk), w.at = "fetching", NEW items, NEW a,
             Becomes(w) \/ Becomes(Answer([w EXCEPT !.items = items], a))
      PROVE  OrderInv'
  <2> DEFINE page == [w EXCEPT !.items = items]
  <2>1. DOMAIN page = Fields /\ AsksFor(page, w)
    BY <1>2 DEF Fields, AsksFor
  <2>2. Becomes(w) \/ Becomes(Answer(page, a))
    BY <1>2
  <2> HIDE DEF page
  <2>3. AsksFor(page, walk)
    BY <1>2, <2>1 DEF AsksFor
  <2> QED
    BY <1>1, <1>2, <2>1, <2>2, <2>3, GoesOnOrder, AnswerOrder
<1>3. CASE HfFetch
  <2> DEFINE w == [walk EXCEPT !.items = @ \o Slice(catalog, walk.from * HfPage, HfPage),
                               !.count = Len(catalog), !.from = @ + 1]
             shown == IF w.of = "hf_models" THEN Models(Window(w, HfPage)) ELSE Window(w, HfPage)
             page == [w EXCEPT !.items = shown]
             a == Counted(page)
  <2>1. Becomes(IF w.from <= w.to THEN w ELSE Answer(page, a))
    BY <1>3 DEF HfFetch
  <2>2. DOMAIN w = Fields /\ AsksFor(w, walk) /\ w.at = "fetching"
    BY <1>1 DEF WalkTypes, Fields, AsksFor
  <2> HIDE DEF w, shown, a
  <2> QED
    BY <1>2, <2>1, <2>2
<1>4. CASE DatasetsFetch
  <2> DEFINE w == [walk EXCEPT !.items = @ \o Slice(catalog, walk.from * KagglePage, KagglePage),
                               !.from = @ + 1]
             shown == Window(w, KagglePage)
             page == [w EXCEPT !.items = shown]
             a == _paginated_total(page, NoCount)
  <2>1. Becomes(IF w.from <= w.to THEN w ELSE Answer(page, a))
    BY <1>4 DEF DatasetsFetch
  <2>2. DOMAIN w = Fields /\ AsksFor(w, walk) /\ w.at = "fetching"
    BY <1>1 DEF WalkTypes, Fields, AsksFor
  <2> HIDE DEF w, shown, a
  <2> QED
    BY <1>2, <2>1, <2>2
<1> QED
  BY <1>3, <1>4

LEMMA ModelsOrder ==
    ASSUME PagesInv, PagesInv', OrderInv, ModelsFetch \/ ModelsFallback \/ Count
    PROVE  OrderInv'
<1>1. DOMAIN walk = Fields /\ walk.at \in {"fetching", "counting"}
  BY DEF PagesInv, WalkTypes, ModelsFetch, ModelsFallback, Count
<1>2. CASE ModelsFetch
  <2> DEFINE reached == walk.from + 1
             items == Slice(catalog, walk.from * walk.size, walk.size)
             w == [walk EXCEPT !.from = reached, !.count = Capped(Len(catalog))]
             x == [w EXCEPT !.at = "counting", !.items = items]
             y == [w EXCEPT !.at = "counting"]
  <2>1. (Becomes(w) \/ Becomes(x) \/ Becomes(y)) /\ walk.at = "fetching"
    BY <1>2 DEF ModelsFetch
  <2>2. DOMAIN w = Fields /\ AsksFor(w, walk) /\ w.at = walk.at
    BY <1>1 DEF Fields, AsksFor
  <2> HIDE DEF items, w
  <2>3. AsksFor(x, w) /\ x.at = "counting" /\ AsksFor(y, w) /\ y.at = "counting"
    BY <2>2 DEF Fields, AsksFor
  <2> HIDE DEF x, y
  <2>4. AsksFor(x, walk) /\ AsksFor(y, walk)
    BY <2>2, <2>3 DEF AsksFor
  <2> QED
    BY <1>1, <2>1, <2>2, <2>3, <2>4, GoesOnOrder
<1>3. CASE ModelsFallback
  <2> DEFINE all == Slice(catalog, 0, walk.size * walk.page)
             items == IF Len(all) > walk.size THEN Slice(all, Start(walk), walk.size) ELSE all
             w == [walk EXCEPT !.at = "counting", !.items = items]
  <2>1. Becomes(w)
    BY <1>3 DEF ModelsFallback
  <2> HIDE DEF items
  <2>2. AsksFor(w, walk) /\ w.at = "counting"
    BY <1>1 DEF Fields, AsksFor
  <2> HIDE DEF w
  <2> QED
    BY <1>1, <2>1, <2>2, GoesOnOrder
<1>4. CASE Count
  <2> DEFINE w == [walk EXCEPT !.internal = TRUE]
  <2>1. \E a : Becomes(Answer(walk, a)) \/ Becomes(Answer(w, a))
    BY <1>4 DEF Count
  <2>2. DOMAIN w = Fields /\ AsksFor(w, walk) /\ AsksFor(walk, walk)
    BY <1>1 DEF Fields, AsksFor
  <2> HIDE DEF w
  <2> QED
    BY <1>1, <2>1, <2>2, AnswerOrder
<1> QED
  BY <1>2, <1>3, <1>4

\* The listings of files have one page.
LEMMA FilesOrder ==
    ASSUME PagesInv,
           \/ DatasetFilesFetch \/ ModelFilesFetch \/ HfModelFilesFetch \/ HfDatasetFilesFetch
           \/ FetchFails
    PROVE  OrderInv'
<1>1. DOMAIN walk = Fields
  BY DEF PagesInv, WalkTypes
<1>2. ASSUME NEW w, DOMAIN w = Fields, w.of \in FileListings,
             Becomes(w) \/ \E a : Becomes(Answer(w, a))
      PROVE  OrderInv'
  <2>1. \A a : Answer(w, a).of = w.of
    BY <1>2, AnswerIs DEF Asks
  <2>2. InOrder(w) /\ \A a : InOrder(Answer(w, a))
    BY <1>2, <2>1 DEF InOrder, Follows
  <2> QED
    BY <1>2, <2>2, StepOrder
<1>3. ASSUME NEW first, WalksOn(first), walk.of \in FileListings PROVE OrderInv'
  <2> DEFINE size == IF walk.tokens = {} THEN first ELSE FilesPage
             next(repeated) == IF repeated = 0 THEN walk.from + size ELSE repeated
             found == Slice(catalog, walk.from, size)
             items == IF Len(walk.items) > MaxItems + FilesPage THEN walk.items
                      ELSE walk.items \o found
             w(repeated) == [walk EXCEPT !.items = items, !.changed = @ \/ repeated # 0]
             on(repeated) == [w(repeated) EXCEPT !.from = next(repeated),
                                                 !.tokens = @ \cup {next(repeated)}]
             more(repeated) == repeated # 0 \/ next(repeated) < Len(catalog)
  <2>1. PICK repeated \in {0} \cup walk.tokens :
           Becomes(IF more(repeated) /\ ~Known(next(repeated)) THEN on(repeated)
                   ELSE Whole(w(repeated)))
    BY <1>3 DEF WalksOn
  <2> DEFINE ww == w(repeated)
             oo == on(repeated)
             nn == next(repeated)
             alters == walk.changed \/ repeated # 0
  <2>2. Becomes(oo) \/ Becomes(Whole(ww))
    BY <2>1
  <2>3. ww = [walk EXCEPT !.items = items, !.changed = alters]
    OBVIOUS
  <2>4. oo = [ww EXCEPT !.from = nn, !.tokens = @ \cup {nn}]
    OBVIOUS
  <2> HIDE DEF items, alters, nn, w, on, ww, oo
  <2>5. DOMAIN ww = Fields /\ ww.of = walk.of
    BY <1>1, <2>3 DEF Fields
  <2>6. DOMAIN oo = Fields /\ oo.of = walk.of
    BY <2>4, <2>5 DEF Fields
  <2> QED
    BY <1>2, <1>3, <2>2, <2>5, <2>6 DEF Whole
<1>4. CASE DatasetFilesFetch
  BY <1>3, <1>4 DEF DatasetFilesFetch, FileListings
<1>5. CASE ModelFilesFetch
  BY <1>3, <1>5 DEF ModelFilesFetch, FileListings
<1>6. CASE HfModelFilesFetch \/ HfDatasetFilesFetch
  <2> DEFINE w == [walk EXCEPT !.items = catalog]
  <2>1. \E a : Becomes(Answer(w, a))
    BY <1>6 DEF HfModelFilesFetch, HfDatasetFilesFetch, AllAtOnce, Whole
  <2>2. DOMAIN w = Fields /\ w.of = walk.of /\ walk.of \in FileListings
    BY <1>1, <1>6 DEF Fields, HfModelFilesFetch, HfDatasetFilesFetch, FileListings
  <2> HIDE DEF w
  <2> QED
    BY <1>2, <2>1, <2>2
<1>7. CASE FetchFails
  <2> DEFINE w == [NoWalk EXCEPT !.at = "failed"]
  <2>1. Becomes(w) /\ w.at = "failed"
    BY <1>7 DEF FetchFails, NoWalk
  <2> HIDE DEF w
  <2> QED
    BY <2>1, StepOrder DEF InOrder
<1> QED
  BY <1>4, <1>5, <1>6, <1>7

LEMMA AskOrder == PagesInv /\ Ask => OrderInv'
<1> SUFFICES ASSUME PagesInv, Ask PROVE OrderInv'
  OBVIOUS
<1>1. PICK of \in Listings, page \in 1..MaxPage, size \in Sizes :
        Becomes(Fetching([NoWalk EXCEPT !.of = of, !.page = page, !.size = size,
                                        !.entire = (page = 1)]))
  BY DEF Ask
<1> DEFINE w == [NoWalk EXCEPT !.of = of, !.page = page, !.size = size, !.entire = (page = 1)]
           v == Fetching(w)
<1>2. /\ DOMAIN w = Fields /\ w.page = page /\ w.size = size
      /\ w.entire = (page = 1) /\ w.shown = << >>
  BY DEF NoWalk, Fields
<1>3. Becomes(v)
  BY <1>1
<1> HIDE DEF w
<1>4. Asks(v, w) /\ v.shown = w.shown /\ v.at = "fetching"
  BY <1>2, FetchingIs
<1> HIDE DEF v
<1>5. ASSUME Follows(v) PROVE v.shown = WantedOf(v, UpTo(Start(v)))
  <2>1. v.page = 1
    BY <1>2, <1>4, <1>5 DEF Asks, Follows
  <2>2. v.size \in Nat
    BY <1>2, <1>4, PagesAssumption DEF Asks
  <2>3. (1 - 1) * v.size = 0
    BY <2>2
  <2>4. Start(v) = 0
    BY <2>1, <2>3 DEF Start
  <2>5. WantedOf(v, UpTo(0)) = << >>
    BY WantedOn DEF PagesInv, CatalogTypes
  <2> QED
    BY <1>2, <1>4, <2>4, <2>5
<1>6. InOrder(v)
  BY <1>4, <1>5 DEF InOrder
<1> QED
  BY <1>3, <1>6, StepOrder

LEMMA AskNextOrder == PagesInv /\ OrderInv /\ AskNext => OrderInv'
<1> SUFFICES ASSUME PagesInv, OrderInv, AskNext PROVE OrderInv'
  OBVIOUS
<1>1. WalkTypes(walk) /\ walk.at = "answered" /\ catalog \in Seq(Nat)
  BY DEF PagesInv, CatalogTypes, AskNext
<1> DEFINE w == [walk EXCEPT !.page = @ + 1]
           v == Fetching(w)
<1>2. /\ DOMAIN w = Fields /\ w.of = walk.of /\ w.page = walk.page + 1 /\ w.size = walk.size
      /\ w.shown = walk.shown /\ w.entire = walk.entire /\ w.changed = walk.changed
  BY <1>1 DEF WalkTypes, Fields
<1>3. Becomes(v)
  BY DEF AskNext
<1> HIDE DEF w
<1>4. Asks(v, w) /\ v.shown = w.shown /\ v.at = "fetching"
  BY <1>2, FetchingIs
<1> HIDE DEF v
<1>5. walk.page \in Nat \ {0} /\ walk.size \in Nat \ {0}
  BY <1>1 DEF WalkTypes
<1>6. Follows(v) => Follows(walk)
  <2>1. /\ v.of = walk.of /\ v.page = walk.page + 1 /\ v.size = walk.size
        /\ v.entire = walk.entire /\ v.changed = walk.changed
    BY <1>2, <1>4 DEF Asks
  <2>2. FirstAgain(walk) => FirstAgain(v)
    BY <1>5, <2>1 DEF FirstAgain
  <2> QED
    BY <2>1, <2>2 DEF Follows
<1>7. Start(v) = Start(walk) + walk.size
  <2> DEFINE p == walk.page - 1
             size == walk.size
  <2>1. p \in Nat /\ size \in Nat /\ v.page - 1 = p + 1 /\ v.size = size
    BY <1>2, <1>4, <1>5 DEF Asks
  <2>2. Start(v) = (v.page - 1) * v.size /\ Start(walk) = p * size
    BY DEF Start
  <2> HIDE DEF p, size
  <2>3. (p + 1) * size = p * size + size
    BY <2>1, Multiples
  <2>4. Start(v) = Start(walk) + size
    BY <2>1, <2>2, <2>3
  <2> QED
    BY <2>4 DEF size
<1>8. \A s : WantedOf(v, s) = WantedOf(walk, s)
  BY <1>2, <1>4 DEF Asks, WantedOf
<1>9. InOrder(v)
  BY <1>1, <1>2, <1>4, <1>6, <1>7, <1>8 DEF OrderInv, InOrder
<1> QED
  BY <1>3, <1>9, StepOrder

LEMMA ChangeOrder == PagesInv /\ Change => OrderInv'
<1> SUFFICES ASSUME PagesInv, Change PROVE OrderInv'
  OBVIOUS
<1>1. walk' = [walk EXCEPT !.changed = TRUE] /\ DOMAIN walk = Fields
  BY DEF Change, PagesInv, WalkTypes
<1>2. walk'.changed = TRUE
  BY <1>1 DEF Fields
<1> QED
  BY <1>2 DEF OrderInv, InOrder, Follows

LEMMA NextOrder == PagesInv /\ PagesInv' /\ OrderInv /\ [PagesNext]_pagesVars => OrderInv'
<1> SUFFICES ASSUME PagesInv, PagesInv', OrderInv, [PagesNext]_pagesVars PROVE OrderInv'
  OBVIOUS
<1>1. CASE UNCHANGED pagesVars
  BY <1>1 DEF pagesVars, OrderInv, InOrder, Follows, WantedOf, UpTo, FirstAgain, Start
<1>2. CASE Fetch
  BY <1>2, FetchOrder, ModelsOrder, FilesOrder DEF Fetch
<1> QED
  BY <1>1, <1>2, AskOrder, AskNextOrder, ChangeOrder, ModelsOrder DEF PagesNext

LEMMA InitOrder == PagesInit => OrderInv
  BY DEF PagesInit, NoWalk, OrderInv, InOrder, Follows

\* A client that begins at the first page of a listing that does not change is shown
\* its first items, each once and in order, also when it is told Kaggle's internal
\* count; as long as it is not, it is shown all when there is no more, and an exact
\* number is right.
THEOREM ShowsTheListing == PagesSpec => []WalkComplete
<1>1. ToldInv /\ walk.at = "answered" /\ Steady(walk) /\ ~walk.more => Complete(walk)
  BY DEF ToldInv, Told, Shown
<1>2. OrderInv /\ walk.at = "answered" /\ Follows(walk) =>
        walk.shown = WantedOf(walk, Slice(catalog, 0, Start(walk) + walk.size))
  BY DEF OrderInv, InOrder, UpTo
<1>3. PagesInv /\ ToldInv /\ OrderInv => WalkComplete
  <2> SUFFICES ASSUME PagesInv, ToldInv, OrderInv,
                      walk.at = "answered", walk.entire = TRUE, walk.changed # TRUE
               PROVE  /\ walk.of \notin FileListings /\ ~ShowsFirstAgain =>
                           walk.shown = Wanted(Slice(catalog, 0, Start(walk) + walk.size))
                      /\ ~walk.more /\ ~walk.internal =>
                           walk.shown = Wanted(catalog) /\ (walk.exact => walk.total = Len(catalog))
    BY DEF WalkComplete
  <2>1. walk.of \notin FileListings /\ ~ShowsFirstAgain => Follows(walk)
    BY DEF Follows, FirstAgain, ShowsFirstAgain
  <2>2. ~walk.internal => Steady(walk)
    BY DEF Steady
  <2> QED
    BY <1>1, <1>2, <2>1, <2>2 DEF Wanted, WantedOf, Complete
<1> QED
  BY <1>3, InitPagesInv, NextPagesInv, InitToldInv, NextToldInv, InitOrder, NextOrder, PTL
  DEF PagesSpec

-----------------------------------------------------------------------------
(* The types.                                                              *)

WalkPlace(w) ==
    /\ w.at \in {"idle", "fetching", "counting", "answered", "failed"}
    /\ w.page \in 1..MaxPage /\ w.from \in Nat /\ w.tokens \subseteq Nat
    /\ w.count \in {NoCount} \cup 0..MaxItems

\* A new item has a number that no item had.
Numbered ==
    /\ \A i, j \in DOMAIN catalog : catalog[i] = catalog[j] => i = j
    /\ \A i \in DOMAIN catalog : catalog[i] <= MaxItems + changes

PlaceInv == WalkPlace(walk) /\ Numbered

LEMMA StepPlace ==
    ASSUME PlaceInv, NEW w, Becomes(w), WalkPlace(w)
    PROVE  PlaceInv'
  BY DEF PlaceInv, Becomes, WalkPlace, Numbered

LEMMA AnswerPlace ==
    ASSUME NEW w, DOMAIN w = Fields, WalkPlace(w), NEW a
    PROVE  WalkPlace(Answer(w, a))
<1> DEFINE v == Answer(w, a)
<1>1. /\ v.at = "answered" /\ v.page = w.page /\ v.from = 0 /\ v.tokens = {} /\ v.count = w.count
  BY DEF Answer, Fields
<1> QED
  BY <1>1 DEF WalkPlace

LEMMA ItemsPlace ==
    ASSUME NEW w, DOMAIN w = Fields, WalkPlace(w), NEW items
    PROVE  LET v == [w EXCEPT !.items = items] IN DOMAIN v = Fields /\ WalkPlace(v)
<1> DEFINE v == [w EXCEPT !.items = items]
<1>1. /\ DOMAIN v = Fields /\ v.at = w.at /\ v.page = w.page /\ v.from = w.from
      /\ v.tokens = w.tokens /\ v.count = w.count
  BY DEF Fields
<1> QED
  BY <1>1 DEF WalkPlace

LEMMA FetchingPlace ==
    ASSUME NEW w, WalkTypes(w), w.page \in 1..MaxPage
    PROVE  WalkPlace(Fetching(w))
<1> DEFINE u == [w EXCEPT !.at = "fetching", !.items = << >>, !.tokens = {}, !.count = NoCount]
           v(a, b) == [u EXCEPT !.from = a, !.to = b]
<1>1. DOMAIN u = Fields /\ u.at = "fetching" /\ u.page = w.page /\ u.tokens = {} /\ u.count = NoCount
  BY DEF WalkTypes, Fields
<1>2. \E a \in Nat : \E b : Fetching(w) = v(a, b)
  <2>1. FirstOf(w, HfPage) \in Nat /\ FirstOf(w, KagglePage) \in Nat
    BY Places, PagesAssumption
  <2>2. CASE w.of \in {"hf_models", "hf_datasets"}
    <3>1. Fetching(w) = v(FirstOf(w, HfPage), LastOf(w, HfPage))
      BY <2>2 DEF Fetching
    <3> QED
      BY <2>1, <3>1
  <2>3. CASE w.of = "kaggle_datasets"
    <3>1. Fetching(w) = v(FirstOf(w, KagglePage), LastOf(w, KagglePage))
      BY <2>3 DEF Fetching
    <3> QED
      BY <2>1, <3>1
  <2>4. CASE w.of \notin {"hf_models", "hf_datasets", "kaggle_datasets"}
    <3>1. Fetching(w) = v(0, w.page)
      BY <2>4 DEF Fetching
    <3> QED
      BY <3>1
  <2> QED
    BY <2>2, <2>3, <2>4
<1>3. PICK a \in Nat : \E b : Fetching(w) = v(a, b)
  BY <1>2
<1>4. PICK b : Fetching(w) = v(a, b)
  BY <1>3
<1> DEFINE x == v(a, b)
<1> HIDE DEF u
<1>5. x.at = "fetching" /\ x.page = w.page /\ x.tokens = {} /\ x.count = NoCount /\ x.from = a
  BY <1>1 DEF Fields
<1>6. Fetching(w) = x
  BY <1>4
<1> HIDE DEF x, v
<1> QED
  BY <1>5, <1>6 DEF WalkPlace

LEMMA InitPlace == PagesInit => PlaceInv
<1> SUFFICES ASSUME PagesInit PROVE PlaceInv
  OBVIOUS
<1>1. PICK n \in 0..MaxItems : catalog = [i \in 1..n |-> i]
  BY DEF PagesInit
<1>2. Numbered
  BY <1>1, PagesAssumption DEF Numbered, PagesInit
<1>3. WalkPlace(walk)
  BY PagesAssumption DEF PagesInit, NoWalk, WalkPlace
<1> QED
  BY <1>2, <1>3 DEF PlaceInv

\* Where the items are after one was removed.
LEMMA RemovedFrom ==
    ASSUME NEW s \in Seq(Nat), NEW i \in DOMAIN s
    PROVE  LET x == RemoveAt(s, i) IN
           \A j \in DOMAIN x :
              LET k == IF j < i THEN j ELSE j + 1 IN k \in DOMAIN s /\ x[j] = s[k]
<1> DEFINE l == Len(s)
           u == SubSeq(s, 1, i - 1)
           v == SubSeq(s, i + 1, l)
           x == u \o v
           old(j) == IF j < i THEN j ELSE j + 1
<1>1. l \in Nat /\ i \in 1..l /\ DOMAIN s = 1..l
  BY LenProperties
<1>2. \A j \in 1..l : s[j] \in Nat
  BY ElementOfSeq
<1>3. /\ u \in Seq(Nat) /\ Len(u) = IF 1 <= i - 1 THEN i - 1 - 1 + 1 ELSE 0
      /\ \A j \in 1..i - 1 - 1 + 1 : u[j] = s[1 + j - 1]
  <2>1. (\A j \in 1..i - 1 : s[j] \in Nat) /\ 1 \in Int /\ i - 1 \in Int
    BY <1>1, <1>2
  <2> QED
    BY <2>1, SubSeqProperties
<1>4. /\ v \in Seq(Nat) /\ Len(v) = IF i + 1 <= l THEN l - (i + 1) + 1 ELSE 0
      /\ \A j \in 1..l - (i + 1) + 1 : v[j] = s[i + 1 + j - 1]
  <2>1. (\A j \in i + 1..l : s[j] \in Nat) /\ i + 1 \in Int /\ l \in Int
    BY <1>1, <1>2
  <2> QED
    BY <2>1, SubSeqProperties, SMTT(30)
<1> HIDE DEF u, v, l
<1>5. /\ x \in Seq(Nat) /\ Len(x) = Len(u) + Len(v)
      /\ \A j \in 1..Len(u) + Len(v) : x[j] = IF j <= Len(u) THEN u[j] ELSE v[j - Len(u)]
  BY <1>3, <1>4, ConcatProperties
<1> HIDE DEF x
<1>6. Len(u) = i - 1 /\ Len(v) = l - i /\ (i - 1) + (l - i) = l - 1
  <2> DEFINE p == Len(u)
             q == Len(v)
  <2>1. /\ p = IF 1 <= i - 1 THEN i - 1 - 1 + 1 ELSE 0
        /\ q = IF i + 1 <= l THEN l - (i + 1) + 1 ELSE 0
    BY <1>3, <1>4
  <2> HIDE DEF p, q
  <2>2. l \in Nat /\ i \in Nat /\ 1 <= i /\ i <= l
    BY <1>1
  <2>3. p = i - 1
    BY <2>1, <2>2
  <2>4. q = l - i
    BY <2>1, <2>2
  <2>5. (i - 1) + (l - i) = l - 1
    BY <2>2
  <2> QED
    BY <2>3, <2>4, <2>5 DEF p, q
<1>7. DOMAIN x = 1..l - 1
  <2>1. Len(x) = l - 1
    BY <1>5, <1>6
  <2> QED
    BY <1>5, <2>1, LenProperties
<1>8. ASSUME NEW j \in 1..l - 1 PROVE old(j) \in 1..l /\ x[j] = s[old(j)]
  <2>1. x[j] = IF j <= i - 1 THEN u[j] ELSE v[j - (i - 1)]
    <3>1. j \in 1..Len(u) + Len(v)
      BY <1>6
    <3> QED
      BY <1>5, <1>6, <3>1
  <2>2. CASE j < i
    <3>1. j \in 1..i - 1 - 1 + 1 /\ 1 + j - 1 = j /\ j <= i - 1 /\ j \in 1..l
      BY <1>1, <2>2
    <3> QED
      BY <1>3, <2>1, <2>2, <3>1
  <2>3. CASE ~(j < i)
    <3>1. /\ j - (i - 1) \in 1..l - (i + 1) + 1 /\ ~(j <= i - 1)
          /\ i + 1 + (j - (i - 1)) - 1 = j + 1 /\ j + 1 \in 1..l
      BY <1>1, <2>3
    <3> QED
      BY <1>4, <2>1, <2>3, <3>1
  <2> QED
    BY <2>2, <2>3
<1>9. RemoveAt(s, i) = x
  BY DEF RemoveAt, x, u, v, l
<1> QED
  BY <1>1, <1>7, <1>8, <1>9

LEMMA ChangePlace == PagesInv /\ PlaceInv /\ Change => PlaceInv'
<1> SUFFICES ASSUME PagesInv, PlaceInv, Change PROVE PlaceInv'
  OBVIOUS
<1>1. /\ catalog \in Seq(Nat) /\ Len(catalog) \in Nat /\ DOMAIN catalog = 1..Len(catalog)
      /\ changes \in Nat /\ changes' = changes + 1 /\ MaxItems \in Nat
  BY LenProperties, PagesAssumption DEF PagesInv, CatalogTypes, Change
<1>2. \A i \in DOMAIN catalog : catalog[i] \in Nat
  BY <1>1, ElementOfSeq
<1>3. ASSUME NEW i \in DOMAIN catalog, catalog' = RemoveAt(catalog, i) PROVE Numbered'
  <2> DEFINE old(j) == IF j < i THEN j ELSE j + 1
  <2>1. \A j \in DOMAIN catalog' : old(j) \in DOMAIN catalog /\ catalog'[j] = catalog[old(j)]
    BY <1>1, <1>3, RemovedFrom
  <2>2. \A j \in DOMAIN catalog' : j \in Nat
    <3>1. catalog' \in Seq(Nat)
      BY <1>1, <1>3, Removing
    <3>2. DOMAIN catalog' = 1..Len(catalog') /\ Len(catalog') \in Nat
      BY <3>1, LenProperties
    <3> QED
      BY <3>2
  <2>3. ASSUME NEW j \in DOMAIN catalog', NEW k \in DOMAIN catalog', catalog'[j] = catalog'[k]
        PROVE  j = k
    <3>1. old(j) \in DOMAIN catalog /\ old(k) \in DOMAIN catalog /\ catalog[old(j)] = catalog[old(k)]
      BY <2>1, <2>3
    <3> HIDE DEF old
    <3>2. old(j) = old(k)
      BY <3>1 DEF PlaceInv, Numbered
    <3>3. j \in Nat /\ k \in Nat /\ i \in Nat
      BY <1>1, <2>2
    <3> QED
      BY <3>2, <3>3 DEF old
  <2>4. ASSUME NEW j \in DOMAIN catalog' PROVE catalog'[j] <= MaxItems + changes'
    <3>1. old(j) \in DOMAIN catalog /\ catalog'[j] = catalog[old(j)]
      BY <2>1
    <3> HIDE DEF old
    <3>2. catalog'[j] \in Nat /\ catalog'[j] <= MaxItems + changes
      BY <1>2, <3>1 DEF PlaceInv, Numbered
    <3> QED
      BY <1>1, <3>2
  <2> QED
    BY <2>3, <2>4 DEF Numbered
<1>4. ASSUME catalog' = <<MaxItems + changes + 1>> \o catalog PROVE Numbered'
  <2> DEFINE new == <<MaxItems + changes + 1>>
             l == Len(catalog)
  <2>1. new \in Seq(Nat) /\ Len(new) = 1 /\ new[1] = MaxItems + changes + 1
    BY <1>1
  <2> HIDE DEF new
  <2>2. /\ catalog' \in Seq(Nat) /\ Len(catalog') = 1 + l
        /\ \A j \in 1..1 + l : catalog'[j] = IF j <= 1 THEN new[j] ELSE catalog[j - 1]
    BY <1>1, <1>4, <2>1, ConcatProperties DEF new
  <2>3. DOMAIN catalog' = 1..1 + l
    BY <2>2, LenProperties
  <2>4. \A j \in DOMAIN catalog' :
          \/ j = 1 /\ catalog'[j] = MaxItems + changes + 1
          \/ j - 1 \in DOMAIN catalog /\ j # 1 /\ catalog'[j] = catalog[j - 1]
    <3> SUFFICES ASSUME NEW j \in 1..1 + l
                 PROVE  \/ j = 1 /\ catalog'[j] = MaxItems + changes + 1
                        \/ j - 1 \in DOMAIN catalog /\ j # 1 /\ catalog'[j] = catalog[j - 1]
      BY <2>3
    <3>1. j = 1 \/ (j - 1 \in DOMAIN catalog /\ j # 1 /\ ~(j <= 1))
      BY <1>1
    <3> HIDE DEF l
    <3> QED
      BY <2>1, <2>2, <3>1
  <2>5. ASSUME NEW j \in DOMAIN catalog' PROVE catalog'[j] <= MaxItems + changes'
    <3>1. CASE j = 1 /\ catalog'[j] = MaxItems + changes + 1
      BY <1>1, <3>1
    <3>2. CASE j - 1 \in DOMAIN catalog /\ catalog'[j] = catalog[j - 1]
      <4>1. catalog'[j] \in Nat /\ catalog'[j] <= MaxItems + changes
        BY <1>2, <3>2 DEF PlaceInv, Numbered
      <4> QED
        BY <1>1, <4>1
    <3> QED
      BY <2>4, <3>1, <3>2
  <2>6. ASSUME NEW j \in DOMAIN catalog', NEW k \in DOMAIN catalog', catalog'[j] = catalog'[k]
        PROVE  j = k
    <3>1. \A n \in DOMAIN catalog : catalog[n] # MaxItems + changes + 1
      <4> SUFFICES ASSUME NEW n \in DOMAIN catalog PROVE catalog[n] # MaxItems + changes + 1
        OBVIOUS
      <4>1. catalog[n] \in Nat /\ catalog[n] <= MaxItems + changes
        BY <1>2 DEF PlaceInv, Numbered
      <4> QED
        BY <1>1, <4>1
    <3>2. j # 1 /\ k # 1 => j - 1 = k - 1
      BY <2>4, <2>6 DEF PlaceInv, Numbered
    <3>3. j = 1 <=> k = 1
      BY <2>4, <2>6, <3>1
    <3>4. j \in Nat /\ k \in Nat
      BY <1>1, <2>3
    <3> QED
      BY <3>2, <3>3, <3>4
  <2> QED
    BY <2>5, <2>6 DEF Numbered
<1>5. Numbered'
  BY <1>3, <1>4 DEF Change
<1>6. WalkPlace(walk)'
  <2>1. walk' = [walk EXCEPT !.changed = TRUE] /\ DOMAIN walk = Fields /\ WalkPlace(walk)
    BY DEF Change, PagesInv, WalkTypes, PlaceInv
  <2>2. /\ walk'.at = walk.at /\ walk'.page = walk.page /\ walk'.from = walk.from
        /\ walk'.tokens = walk.tokens /\ walk'.count = walk.count
    BY <2>1 DEF Fields
  <2> QED
    BY <2>1, <2>2 DEF WalkPlace
<1> QED
  BY <1>5, <1>6 DEF PlaceInv

LEMMA FetchPlace == PagesInv /\ PlaceInv /\ (HfFetch \/ DatasetsFetch) => PlaceInv'
<1> SUFFICES ASSUME PagesInv, PlaceInv, HfFetch \/ DatasetsFetch PROVE PlaceInv'
  OBVIOUS
<1>1. /\ WalkTypes(walk) /\ WalkPlace(walk) /\ Len(catalog) \in 0..MaxItems
      /\ walk.from + 1 \in Nat /\ walk.at = "fetching"
  BY LenProperties, PagesAssumption, SMTT(30)
     DEF PagesInv, PlaceInv, CatalogTypes, WalkPlace, HfFetch, DatasetsFetch
<1>2. ASSUME NEW w, DOMAIN w = Fields, WalkPlace(w), NEW items, NEW a,
             Becomes(w) \/ Becomes(Answer([w EXCEPT !.items = items], a))
      PROVE  PlaceInv'
  BY <1>2, ItemsPlace, AnswerPlace, StepPlace
<1>3. CASE HfFetch
  <2> DEFINE w == [walk EXCEPT !.items = @ \o Slice(catalog, walk.from * HfPage, HfPage),
                               !.count = Len(catalog), !.from = @ + 1]
             shown == IF w.of = "hf_models" THEN Models(Window(w, HfPage)) ELSE Window(w, HfPage)
             page == [w EXCEPT !.items = shown]
             a == Counted(page)
  <2>1. Becomes(IF w.from <= w.to THEN w ELSE Answer(page, a))
    BY <1>3 DEF HfFetch
  <2>2. /\ DOMAIN w = Fields /\ w.at = walk.at /\ w.page = walk.page /\ w.from = walk.from + 1
        /\ w.tokens = walk.tokens /\ w.count = Len(catalog)
    BY <1>1 DEF WalkTypes, Fields
  <2> HIDE DEF w, shown, a
  <2>3. WalkPlace(w)
    BY <1>1, <2>2 DEF WalkPlace
  <2> QED
    BY <1>2, <2>1, <2>2, <2>3
<1>4. CASE DatasetsFetch
  <2> DEFINE w == [walk EXCEPT !.items = @ \o Slice(catalog, walk.from * KagglePage, KagglePage),
                               !.from = @ + 1]
             shown == Window(w, KagglePage)
             page == [w EXCEPT !.items = shown]
             a == _paginated_total(page, NoCount)
  <2>1. Becomes(IF w.from <= w.to THEN w ELSE Answer(page, a))
    BY <1>4 DEF DatasetsFetch
  <2>2. /\ DOMAIN w = Fields /\ w.at = walk.at /\ w.page = walk.page /\ w.from = walk.from + 1
        /\ w.tokens = walk.tokens /\ w.count = walk.count
    BY <1>1 DEF WalkTypes, Fields
  <2> HIDE DEF w, shown, a
  <2>3. WalkPlace(w)
    BY <1>1, <2>2 DEF WalkPlace
  <2> QED
    BY <1>2, <2>1, <2>2, <2>3
<1> QED
  BY <1>3, <1>4

LEMMA ModelsPlace == PagesInv /\ PlaceInv /\ (ModelsFetch \/ ModelsFallback) => PlaceInv'
<1> SUFFICES ASSUME PagesInv, PlaceInv, ModelsFetch \/ ModelsFallback PROVE PlaceInv'
  OBVIOUS
<1>1. /\ WalkTypes(walk) /\ WalkPlace(walk) /\ Len(catalog) \in 0..MaxItems
      /\ walk.from + 1 \in Nat /\ Capped(Len(catalog)) \in 0..MaxItems
  BY LenProperties, PagesAssumption DEF PagesInv, PlaceInv, CatalogTypes, WalkPlace, Capped
<1>2. CASE ModelsFetch
  <2> DEFINE reached == walk.from + 1
             items == Slice(catalog, walk.from * walk.size, walk.size)
             w == [walk EXCEPT !.from = reached, !.count = Capped(Len(catalog))]
             x == [w EXCEPT !.at = "counting", !.items = items]
             y == [w EXCEPT !.at = "counting"]
  <2>1. Becomes(w) \/ Becomes(x) \/ Becomes(y)
    BY <1>2 DEF ModelsFetch
  <2>2. /\ DOMAIN w = Fields /\ w.at = walk.at /\ w.page = walk.page /\ w.from = walk.from + 1
        /\ w.tokens = walk.tokens /\ w.count = Capped(Len(catalog))
    BY <1>1 DEF WalkTypes, Fields
  <2> HIDE DEF items, w
  <2>3. /\ x.at = "counting" /\ x.page = w.page /\ x.from = w.from /\ x.tokens = w.tokens
        /\ x.count = w.count
        /\ y.at = "counting" /\ y.page = w.page /\ y.from = w.from /\ y.tokens = w.tokens
        /\ y.count = w.count
    BY <2>2 DEF Fields
  <2> HIDE DEF x, y
  <2>4. WalkPlace(w) /\ WalkPlace(x) /\ WalkPlace(y)
    BY <1>1, <2>2, <2>3 DEF WalkPlace
  <2> QED
    BY <2>1, <2>4, StepPlace
<1>3. CASE ModelsFallback
  <2> DEFINE all == Slice(catalog, 0, walk.size * walk.page)
             items == IF Len(all) > walk.size THEN Slice(all, Start(walk), walk.size) ELSE all
             w == [walk EXCEPT !.at = "counting", !.items = items]
  <2>1. Becomes(w)
    BY <1>3 DEF ModelsFallback
  <2> HIDE DEF items
  <2>2. /\ w.at = "counting" /\ w.page = walk.page /\ w.from = walk.from
        /\ w.tokens = walk.tokens /\ w.count = walk.count
    BY <1>1 DEF WalkTypes, Fields
  <2> HIDE DEF w
  <2>3. WalkPlace(w)
    BY <1>1, <2>2 DEF WalkPlace
  <2> QED
    BY <2>1, <2>3, StepPlace
<1> QED
  BY <1>2, <1>3

LEMMA CountPlace == PagesInv /\ PlaceInv /\ Count => PlaceInv'
<1> SUFFICES ASSUME PagesInv, PlaceInv, Count PROVE PlaceInv'
  OBVIOUS
<1>1. DOMAIN walk = Fields /\ WalkPlace(walk)
  BY DEF PagesInv, WalkTypes, PlaceInv
<1> DEFINE w == [walk EXCEPT !.internal = TRUE]
<1>2. \E a : Becomes(Answer(walk, a)) \/ Becomes(Answer(w, a))
  BY DEF Count
<1>3. /\ DOMAIN w = Fields /\ w.at = walk.at /\ w.page = walk.page /\ w.from = walk.from
      /\ w.tokens = walk.tokens /\ w.count = walk.count
  BY <1>1 DEF Fields
<1> HIDE DEF w
<1>4. WalkPlace(w)
  BY <1>1, <1>3 DEF WalkPlace
<1> QED
  BY <1>1, <1>2, <1>3, <1>4, AnswerPlace, StepPlace

LEMMA FilesPlace ==
    ASSUME PagesInv, PlaceInv, NEW first \in Nat \ {0}, WalksOn(first)
    PROVE  PlaceInv'
<1>1. WalkTypes(walk) /\ WalkPlace(walk) /\ walk.at = "fetching"
  BY DEF PagesInv, PlaceInv, WalksOn
<1> DEFINE size == IF walk.tokens = {} THEN first ELSE FilesPage
           next(repeated) == IF repeated = 0 THEN walk.from + size ELSE repeated
           found == Slice(catalog, walk.from, size)
           items == IF Len(walk.items) > MaxItems + FilesPage THEN walk.items ELSE walk.items \o found
           w(repeated) == [walk EXCEPT !.items = items, !.changed = @ \/ repeated # 0]
           on(repeated) == [w(repeated) EXCEPT !.from = next(repeated), !.tokens = @ \cup {next(repeated)}]
           more(repeated) == repeated # 0 \/ next(repeated) < Len(catalog)
<1>2. PICK repeated \in {0} \cup walk.tokens :
         Becomes(IF more(repeated) /\ ~Known(next(repeated)) THEN on(repeated) ELSE Whole(w(repeated)))
  BY DEF WalksOn
<1> DEFINE ww == w(repeated)
           oo == on(repeated)
           nn == next(repeated)
           alters == walk.changed \/ repeated # 0
<1>3. Becomes(oo) \/ Becomes(Whole(ww))
  BY <1>2
<1>4. nn \in Nat
  <2>1. size \in Nat
    BY PagesAssumption
  <2>2. repeated \in Nat /\ walk.from \in Nat
    BY <1>1 DEF WalkPlace
  <2> HIDE DEF size
  <2> QED
    BY <2>1, <2>2
<1>5. ww = [walk EXCEPT !.items = items, !.changed = alters]
  OBVIOUS
<1>6. oo = [ww EXCEPT !.from = nn, !.tokens = @ \cup {nn}]
  OBVIOUS
<1> HIDE DEF items, alters, nn, w, on, ww, oo
<1>7. /\ DOMAIN ww = Fields /\ ww.at = walk.at /\ ww.page = walk.page /\ ww.from = walk.from
      /\ ww.tokens = walk.tokens /\ ww.count = walk.count
  BY <1>1, <1>5 DEF WalkTypes, Fields
<1>8. /\ oo.at = ww.at /\ oo.page = ww.page /\ oo.from = nn /\ oo.tokens = ww.tokens \cup {nn}
      /\ oo.count = ww.count
  BY <1>6, <1>7 DEF Fields
<1>9. WalkPlace(ww) /\ WalkPlace(oo)
  BY <1>1, <1>4, <1>7, <1>8 DEF WalkPlace
<1>10. WalkPlace(Whole(ww))
  BY <1>7, <1>9, AnswerPlace DEF Whole
<1> QED
  BY <1>3, <1>9, <1>10, StepPlace

LEMMA OtherPlace ==
    ASSUME PagesInv, PlaceInv, Ask \/ AskNext \/ AllAtOnce \/ FetchFails
    PROVE  PlaceInv'
<1>1. WalkTypes(walk) /\ WalkPlace(walk)
  BY DEF PagesInv, PlaceInv
<1>2. CASE Ask
  <2>1. PICK of \in Listings, page \in 1..MaxPage, size \in Sizes :
          Becomes(Fetching([NoWalk EXCEPT !.of = of, !.page = page, !.size = size,
                                          !.entire = (page = 1)]))
    BY <1>2 DEF Ask
  <2> DEFINE w == [NoWalk EXCEPT !.of = of, !.page = page, !.size = size, !.entire = (page = 1)]
  <2>2. DOMAIN w = Fields /\ w.of = of /\ w.page = page /\ w.size = size /\ w.changed = FALSE
    BY DEF NoWalk, Fields
  <2>3. page \in Nat \ {0} /\ size \in Nat \ {0}
    BY PagesAssumption
  <2> HIDE DEF w
  <2>4. WalkTypes(w) /\ w.page \in 1..MaxPage
    BY <2>2, <2>3 DEF WalkTypes
  <2>5. Becomes(Fetching(w))
    BY <2>1 DEF w
  <2> QED
    BY <2>4, <2>5, FetchingPlace, StepPlace
<1>3. CASE AskNext
  <2> DEFINE w == [walk EXCEPT !.page = @ + 1]
  <2>1. DOMAIN w = Fields /\ w.of = walk.of /\ w.page = walk.page + 1 /\ w.size = walk.size
        /\ w.changed = walk.changed
    BY <1>1 DEF WalkTypes, Fields
  <2>2. Becomes(Fetching(w)) /\ walk.page < MaxPage
    BY <1>3 DEF AskNext
  <2> HIDE DEF w
  <2>3. WalkTypes(w)
    BY <1>1, <2>1 DEF WalkTypes
  <2>4. w.page \in 1..MaxPage
    BY <1>1, <2>1, <2>2, PagesAssumption DEF WalkPlace
  <2> QED
    BY <2>2, <2>3, <2>4, FetchingPlace, StepPlace
<1>4. CASE AllAtOnce
  <2> DEFINE w == [walk EXCEPT !.items = catalog]
  <2>1. Becomes(Whole(w))
    BY <1>4 DEF AllAtOnce
  <2>2. DOMAIN w = Fields /\ WalkPlace(w)
    BY <1>1, ItemsPlace DEF WalkTypes
  <2> HIDE DEF w
  <2>3. WalkPlace(Whole(w))
    BY <2>2, AnswerPlace DEF Whole
  <2> QED
    BY <2>1, <2>3, StepPlace
<1>5. CASE FetchFails
  <2> DEFINE w == [NoWalk EXCEPT !.at = "failed"]
  <2>1. /\ Becomes(w) /\ w.at = "failed" /\ w.page = 1 /\ w.from = 0 /\ w.tokens = {}
        /\ w.count = NoCount
    BY <1>5 DEF FetchFails, NoWalk
  <2> HIDE DEF w
  <2>2. WalkPlace(w)
    BY <2>1, PagesAssumption DEF WalkPlace
  <2> QED
    BY <2>1, <2>2, StepPlace
<1> QED
  BY <1>2, <1>3, <1>4, <1>5

LEMMA NextPlace == PagesInv /\ PlaceInv /\ [PagesNext]_pagesVars => PlaceInv'
<1> SUFFICES ASSUME PagesInv, PlaceInv, [PagesNext]_pagesVars PROVE PlaceInv'
  OBVIOUS
<1>1. CASE UNCHANGED pagesVars
  BY <1>1 DEF pagesVars, PlaceInv, WalkPlace, Numbered
<1>2. CASE DatasetFilesFetch \/ ModelFilesFetch
  BY <1>2, FilesPlace, PagesAssumption DEF DatasetFilesFetch, ModelFilesFetch
<1>3. CASE HfModelFilesFetch \/ HfDatasetFilesFetch
  BY <1>3, OtherPlace DEF HfModelFilesFetch, HfDatasetFilesFetch
<1>4. CASE Fetch
  BY <1>2, <1>3, <1>4, FetchPlace, ModelsPlace, OtherPlace DEF Fetch
<1> QED
  BY <1>1, <1>4, ChangePlace, OtherPlace, CountPlace DEF PagesNext

\* The variables of MarketPages have their types.
THEOREM PagesTypes == PagesSpec => []PagesTypeOK
<1>1. PagesInv /\ PlaceInv => PagesTypeOK
  BY DEF PagesInv, CatalogTypes, WalkTypes, PlaceInv, WalkPlace, Numbered, PagesTypeOK, IsInjective
<1> QED
  BY <1>1, InitPagesInv, NextPagesInv, InitPlace, NextPlace, PTL DEF PagesSpec
=============================================================================
