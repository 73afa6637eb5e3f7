--------------------------- MODULE Markets_proofs ---------------------------
(***************************************************************************)
(* Proofs about what the requests to the markets have to get through: the  *)
(* rate limit, for any number of clients, any limit, any period and any    *)
(* schedule of cleanups; the pool of threads, for any requests and any     *)
(* size; the client and the session that the threads share, for any        *)
(* threads and any failures.  MCMarkets runs each of these modules as it   *)
(* is.                                                                     *)
(***************************************************************************)
EXTENDS MCMarkets, MarketPages_proofs

-----------------------------------------------------------------------------
(* The rate limit: the inductive invariant.                                *)

Windows == [count : 1..Calls, since : Nat]

WindowTypes ==
    /\ now \in 0..Horizon /\ counter \in 0..Every - 1
    /\ DOMAIN clients \in SUBSET Clients
    /\ \A c \in DOMAIN clients : clients[c] \in Windows /\ clients[c].since <= now
    /\ passed \in [Clients -> Seq(Nat)]
    /\ refused \in {Nobody} \cup [client : Clients, at : 0..now]

\* Requests pass in the order of time.
Ordered(c) ==
    /\ \A i \in DOMAIN passed[c] : passed[c][i] <= now
    /\ \A i, j \in DOMAIN passed[c] : i <= j => passed[c][i] <= passed[c][j]

\* The passes of s that are too early for a period that begins with the window w,
\* and those that the window counted: the last ones, from its start on.
Before(w, s) ==
    \A i \in DOMAIN s : i <= Len(s) - w.count - Calls + 1 => w.since - s[i] > Period

Within(w, s) ==
    /\ w.count <= Len(s) /\ s[Len(s) - w.count + 1] = w.since
    /\ \A i \in DOMAIN s : i > Len(s) - w.count => s[i] >= w.since

Windowed(c) == c \in DOMAIN clients => Before(clients[c], passed[c]) /\ Within(clients[c], passed[c])

\* A client without a window has less than the limit in the last period.
Quiet(s) == \A i \in DOMAIN s : i <= Len(s) - Calls + 1 => now - s[i] > Period

Windowless(c) == c \notin DOMAIN clients => Quiet(passed[c])

\* The two clauses of Throttled.
Spaced(s) ==
    \A i \in DOMAIN s :
      LET j == i + 2 * Calls - 1 IN j \in DOMAIN s => s[j] - s[i] > Period

RefusedLate == refused # Nobody /\ refused.at = now => Since(refused.client, now - Period) >= Calls

LInv ==
    /\ WindowTypes /\ RefusedLate
    /\ \A c \in Clients : Ordered(c) /\ Windowed(c) /\ Windowless(c) /\ Spaced(passed[c])

-----------------------------------------------------------------------------
(* What a request does to the passes of its client and to its window.      *)

\* One more request passes.
LEMMA OnePasses ==
    ASSUME NEW s \in Seq(Nat), NEW t \in Nat
    PROVE  /\ Append(s, t) \in Seq(Nat) /\ Len(Append(s, t)) = Len(s) + 1 /\ Len(s) \in Nat
           /\ DOMAIN s = 1..Len(s) /\ DOMAIN Append(s, t) = 1..Len(s) + 1
           /\ \A i \in 1..Len(s) : Append(s, t)[i] = s[i] /\ s[i] \in Nat
           /\ Append(s, t)[Len(s) + 1] = t
  OBVIOUS

\* A window that is over leaves the client quiet.
LEMMA QuietAfter ==
    ASSUME WindowTypes, NEW c \in Clients, Ordered(c), NEW w \in Windows, Within(w, passed[c]),
           Expired(w)
    PROVE  Quiet(passed[c])
<1> DEFINE s == passed[c]
           first == Len(s) - w.count + 1
<1>1. s \in Seq(Nat) /\ Len(s) \in Nat /\ DOMAIN s = 1..Len(s) /\ (\A i \in DOMAIN s : s[i] \in Nat)
  BY DEF WindowTypes
<1>2. /\ w.count \in 1..Calls /\ w.since \in Nat /\ Calls \in Nat /\ Period \in Nat /\ now \in Nat
      /\ w.count <= Len(s)
  BY LimitAssumption DEF Windows, WindowTypes, Within
<1>3. first \in DOMAIN s /\ s[first] = w.since
  BY <1>1, <1>2, SMTT(30) DEF Within
<1>4. \A i \in DOMAIN s : i <= Len(s) - Calls + 1 => i <= first
  BY <1>1, <1>2
<1>5. \A i \in DOMAIN s : i <= first => s[i] <= w.since
  BY <1>3 DEF Ordered
<1>6. now - w.since > Period
  BY DEF Expired
<1> HIDE DEF s, first
<1>7. Quiet(s)
  BY <1>1, <1>2, <1>4, <1>5, <1>6 DEF Quiet
<1> QED
  BY <1>7 DEF s

\* The request of a quiet client opens a window.
LEMMA Opens ==
    ASSUME WindowTypes, NEW s \in Seq(Nat), Quiet(s)
    PROVE  /\ Opened \in Windows /\ Opened.since = now
           /\ Before(Opened, Append(s, now)) /\ Within(Opened, Append(s, now))
<1>1. /\ now \in Nat /\ Calls \in Nat \ {0} /\ Opened \in Windows
      /\ Opened.count = 1 /\ Opened.since = now
  BY LimitAssumption DEF WindowTypes, Opened, Windows
<1> HIDE DEF Opened
<1>2. Before(Opened, Append(s, now))
  BY <1>1, OnePasses DEF Before, Quiet
<1>3. Within(Opened, Append(s, now))
  BY <1>1, OnePasses DEF Within
<1> QED
  BY <1>1, <1>2, <1>3

\* A request that the window has room for is counted.
LEMMA IsCounted ==
    ASSUME WindowTypes, NEW s \in Seq(Nat), NEW w \in Windows, w.count < Calls, w.since <= now,
           Before(w, s), Within(w, s)
    PROVE  /\ Counts(w) \in Windows /\ Counts(w).since = w.since
           /\ Before(Counts(w), Append(s, now)) /\ Within(Counts(w), Append(s, now))
<1>1. /\ now \in Nat /\ Calls \in Nat \ {0} /\ w.count \in 1..Calls /\ w.since \in Nat
      /\ w.count + 1 \in 1..Calls
  BY LimitAssumption DEF WindowTypes, Windows
<1> DEFINE v == Counts(w)
           t == Append(s, now)
<1>2. v = [w EXCEPT !.count = w.count + 1]
  BY DEF Counts
<1>3. v \in Windows /\ v.count = w.count + 1 /\ v.since = w.since
  BY <1>1, <1>2 DEF Windows
<1>4. /\ Len(t) = Len(s) + 1 /\ Len(s) \in Nat /\ DOMAIN s = 1..Len(s) /\ DOMAIN t = 1..Len(s) + 1
      /\ \A i \in 1..Len(s) : t[i] = s[i] /\ s[i] \in Nat
      /\ t[Len(s) + 1] = now
  BY <1>1, OnePasses
<1>5. /\ w.count <= Len(s) /\ s[Len(s) - w.count + 1] = w.since
      /\ \A i \in DOMAIN s : i > Len(s) - w.count => s[i] >= w.since
      /\ \A i \in DOMAIN s : i <= Len(s) - w.count - Calls + 1 => w.since - s[i] > Period
  BY DEF Before, Within
<1> DEFINE L == Len(s)
           n == w.count
<1> HIDE DEF v, t, L, n
<1>6. /\ L \in Nat /\ n \in Nat \ {0} /\ Calls \in Nat \ {0} /\ Len(t) = L + 1 /\ v.count = n + 1
      /\ n <= L /\ DOMAIN s = 1..L /\ DOMAIN t = 1..L + 1
  BY <1>1, <1>3, <1>4, <1>5 DEF L, n
<1>7. Before(v, t)
  <2> SUFFICES ASSUME NEW i \in DOMAIN t, i <= Len(t) - v.count - Calls + 1
               PROVE  w.since - t[i] > Period
    BY <1>3 DEF Before
  <2>1. i \in DOMAIN s /\ i <= L - n - Calls + 1
    BY <1>6
  <2> QED
    BY <1>4, <1>5, <2>1 DEF L, n
<1>8. Within(v, t)
  <2>1. Len(t) - v.count = L - n /\ v.count <= Len(t) /\ L - n + 1 \in 1..L
    BY <1>6
  <2>2. t[Len(t) - v.count + 1] = w.since
    BY <1>4, <1>5, <2>1 DEF L, n
  <2>3. ASSUME NEW i \in DOMAIN t, i > Len(t) - v.count PROVE t[i] >= w.since
    <3>1. CASE i = L + 1
      BY <1>1, <1>4, <3>1 DEF L
    <3>2. CASE i # L + 1
      <4>1. i \in DOMAIN s /\ i > L - n
        BY <1>6, <2>1, <2>3, <3>2, SMTT(30)
      <4> QED
        BY <1>4, <1>5, <1>6, <4>1 DEF L, n
    <3> QED
      BY <3>1, <3>2
  <2> QED
    BY <1>3, <2>1, <2>2, <2>3 DEF Within
<1> QED
  BY <1>3, <1>7, <1>8 DEF v, t

\* A pass is spaced from the earlier ones by the window it is in.
LEMMA StaysSpaced ==
    ASSUME WindowTypes, NEW s \in Seq(Nat), Spaced(s), NEW w \in Windows, w.since <= now,
           Before(w, Append(s, now))
    PROVE  Spaced(Append(s, now))
<1>1. /\ now \in Nat /\ Calls \in Nat \ {0} /\ w.count \in 1..Calls /\ w.since \in Nat
      /\ Period \in Nat
  BY LimitAssumption DEF WindowTypes, Windows
<1> DEFINE t == Append(s, now)
<1>2. ASSUME NEW i \in DOMAIN t, i + 2 * Calls - 1 \in DOMAIN t
      PROVE  t[i + 2 * Calls - 1] - t[i] > Period
  <2>1. CASE i + 2 * Calls - 1 = Len(s) + 1
    <3>1. i <= Len(t) - w.count - Calls + 1 /\ t[i] \in Nat
      <4>1. /\ Len(t) = Len(s) + 1 /\ Len(s) \in Nat /\ DOMAIN t = 1..Len(t)
            /\ t \in Seq(Nat)
        BY <1>1, OnePasses
      <4> HIDE DEF t
      <4>2. i \in 1..Len(t) /\ Len(t) \in Nat
        BY <1>2, <4>1
      <4>3. i <= Len(t) - w.count - Calls + 1
        <5> DEFINE n == w.count
                   M == Len(t)
        <5>1. n \in Nat /\ n <= Calls /\ Calls \in Nat /\ M \in Nat /\ i \in Nat
          BY <1>1, <4>2
        <5>2. i + 2 * Calls - 1 = M
          BY <2>1, <4>1
        <5> HIDE DEF n, M
        <5>3. i <= M - n - Calls + 1
          BY <5>1, <5>2
        <5> QED
          BY <5>3 DEF n, M
      <4> QED
        BY <4>1, <4>2, <4>3, ElementOfSeq
    <3>2. w.since - t[i] > Period /\ t[i + 2 * Calls - 1] = now
      BY <1>2, <2>1, <3>1, OnePasses DEF Before
    <3> QED
      BY <1>1, <3>1, <3>2, SMTT(30)
  <2>2. CASE i + 2 * Calls - 1 # Len(s) + 1
    <3>1. i \in DOMAIN s /\ i + 2 * Calls - 1 \in DOMAIN s
      BY <1>1, <1>2, <2>2, OnePasses, SMTT(30)
    <3> QED
      BY <3>1, OnePasses DEF Spaced
  <2> QED
    BY <2>1, <2>2
<1> QED
  BY <1>2 DEF Spaced

\* A refused request finds a full window: as many as the limit have just passed.
LEMMA FullWindow ==
    ASSUME WindowTypes, NEW c \in Clients, NEW w \in Windows, Within(w, passed[c]), ~Expired(w),
           w.count >= Calls
    PROVE  Since(c, now - Period) >= Calls
<1> DEFINE s == passed[c]
           late == {i \in DOMAIN s : s[i] >= now - Period}
           last == Len(s) - Calls + 1 .. Len(s)
<1>1. /\ s \in Seq(Nat) /\ Len(s) \in Nat /\ DOMAIN s = 1..Len(s)
      /\ \A i \in DOMAIN s : s[i] \in Nat
  BY DEF WindowTypes
<1>2. /\ w.count = Calls /\ w.since \in Nat /\ Calls \in Nat \ {0} /\ Period \in Nat
      /\ now \in Nat /\ Calls <= Len(s)
  BY LimitAssumption DEF Windows, WindowTypes, Within
<1>3. now - w.since <= Period
  BY <1>2 DEF Expired
<1>4. last \subseteq late
  <2> SUFFICES ASSUME NEW i \in last PROVE i \in late
    OBVIOUS
  <2>1. i \in DOMAIN s /\ i > Len(s) - w.count
    BY <1>1, <1>2
  <2>2. s[i] >= w.since
    BY <2>1 DEF Within
  <2>3. s[i] \in Nat
    BY <1>1, <2>1
  <2> HIDE DEF s, last
  <2>4. s[i] >= now - Period
    BY <1>2, <1>3, <2>2, <2>3
  <2> QED
    BY <2>1, <2>4
<1>5. Cardinality(last) = Calls
  <2> DEFINE b == Len(s)
             a == b - Calls + 1
  <2>1. b \in Nat /\ Calls \in Nat \ {0} /\ Calls <= b
    BY <1>1, <1>2
  <2> HIDE DEF b, s, late, last
  <2>2. a \in Int /\ b \in Int /\ a <= b /\ b - a + 1 = Calls
    BY <2>1
  <2> HIDE DEF a
  <2>3. Cardinality(a..b) = b - a + 1
    BY <2>2, FS_Interval
  <2> QED
    BY <2>2, <2>3 DEF a, b, last
<1>6. IsFiniteSet(late) /\ Cardinality(late) \in Nat
  <2>1. IsFiniteSet(DOMAIN s)
    <3> DEFINE b == Len(s)
    <3>1. b \in Int /\ 1 \in Int /\ DOMAIN s = 1..b
      BY <1>1
    <3> HIDE DEF b, s
    <3> QED
      BY <3>1, FS_Interval
  <2> QED
    BY <2>1, FS_Subset, FS_CardinalityType
<1>7. Cardinality(last) <= Cardinality(late)
  BY <1>4, <1>6, FS_Subset
<1>8. Since(c, now - Period) = Cardinality(late)
  BY DEF Since
<1> HIDE DEF s, late, last
<1> QED
  BY <1>2, <1>5, <1>6, <1>7, <1>8

\* Another pass takes nothing from what has passed.
LEMMA SinceGrows ==
    ASSUME NEW c \in Clients, NEW from \in Int, passed[c] \in Seq(Nat),
           passed'[c] = Append(passed[c], now), now \in Nat
    PROVE  Since(c, from) \in Nat /\ Since(c, from)' \in Nat /\ Since(c, from)' >= Since(c, from)
<1> DEFINE A == {i \in DOMAIN passed[c] : passed[c][i] >= from}
           B == {i \in DOMAIN passed'[c] : passed'[c][i] >= from}
<1>1. A \subseteq B
  BY OnePasses
<1>2. IsFiniteSet(B)
  <2>1. IsFiniteSet(DOMAIN passed'[c])
    BY OnePasses, FS_Interval
  <2> QED
    BY <2>1, FS_Subset
<1>3. Cardinality(A) \in Nat /\ Cardinality(B) \in Nat /\ Cardinality(A) <= Cardinality(B)
  BY <1>1, <1>2, FS_Subset, FS_CardinalityType
<1>4. Since(c, from) = Cardinality(A) /\ Since(c, from)' = Cardinality(B)
  BY DEF Since
<1> HIDE DEF A, B
<1> QED
  BY <1>3, <1>4

-----------------------------------------------------------------------------
(* The invariant.                                                          *)

LEMMA InitLInv == LimitInit => LInv
<1> SUFFICES ASSUME LimitInit PROVE LInv
  OBVIOUS
<1>1. WindowTypes
  BY LimitAssumption DEF LimitInit, WindowTypes, Nobody
<1>2. ASSUME NEW c \in Clients
      PROVE  Ordered(c) /\ Windowed(c) /\ Windowless(c) /\ Spaced(passed[c])
  BY DEF LimitInit, Ordered, Windowed, Windowless, Quiet, Spaced
<1>3. RefusedLate
  BY DEF LimitInit, RefusedLate
<1> QED
  BY <1>1, <1>2, <1>3 DEF LInv

\* Time goes on: what was quiet stays quiet, and no window changes.
LEMMA ElapsesLInv == ASSUME LInv, Elapses PROVE LInv'
<1>1. /\ now \in Nat /\ now' = now + 1 /\ now' <= Horizon /\ Horizon \in Nat
      /\ clients' = clients /\ counter' = counter /\ passed' = passed /\ refused' = refused
      /\ Calls \in Nat /\ Period \in Nat
  BY LimitAssumption DEF LInv, WindowTypes, Elapses
<1>2. WindowTypes'
  <2>1. \A c \in DOMAIN clients : clients[c] \in Windows /\ clients[c].since <= now'
    BY <1>1 DEF LInv, WindowTypes, Windows
  <2>2. refused \in {Nobody} \cup [client : Clients, at : 0..now']
    BY <1>1 DEF LInv, WindowTypes
  <2> QED
    BY <1>1, <2>1, <2>2 DEF LInv, WindowTypes
<1>3. RefusedLate'
  <2>1. refused = Nobody \/ refused.at <= now
    BY <1>1 DEF LInv, WindowTypes
  <2>2. refused = Nobody \/ refused.at \in Nat
    BY <1>1 DEF LInv, WindowTypes
  <2> QED
    BY <1>1, <2>1, <2>2 DEF RefusedLate
<1>4. ASSUME NEW c \in Clients
      PROVE  (Ordered(c) /\ Windowed(c) /\ Windowless(c) /\ Spaced(passed[c]))'
  <2>1. /\ Ordered(c) /\ Windowed(c) /\ Windowless(c) /\ Spaced(passed[c])
        /\ passed[c] \in Seq(Nat)
    BY DEF LInv, WindowTypes
  <2>2. Ordered(c)'
    BY <1>1, <2>1 DEF Ordered
  <2>3. Windowed(c)' /\ Spaced(passed[c])'
    BY <1>1, <2>1 DEF Windowed, Spaced, Before, Within
  <2>4. Windowless(c)'
    BY <1>1, <2>1, SMTT(30) DEF Windowless, Quiet
  <2> QED
    BY <2>2, <2>3, <2>4
<1> QED
  BY <1>2, <1>3, <1>4 DEF LInv

\* A cleanup keeps the windows as they are, or forgets those that are over.
LEMMA Cleans ==
    ASSUME NEW c
    PROVE  /\ c \in DOMAIN Cleaned => c \in DOMAIN clients /\ Cleaned[c] = clients[c]
           /\ c \in DOMAIN clients /\ c \notin DOMAIN Cleaned => Expired(clients[c])
  BY DEF Cleaned, Kept

\* A request: of its client, the window and the passes; of the others, at most the
\* window, which is forgotten.
LEMMA DispatchLInv == ASSUME LInv, NEW c \in Clients, dispatch(c) PROVE LInv'
<1> DEFINE windows == Cleaned
           known   == c \in DOMAIN windows /\ ~Expired(windows[c])
           limited == known /\ windows[c].count >= Calls
           window  == IF known THEN Counts(windows[c]) ELSE Opened
<1>1. /\ counter' = (counter + 1) % Every /\ now' = now
      /\ clients' = [d \in (DOMAIN windows) \cup {c} |-> IF d = c THEN window ELSE windows[d]]
      /\ limited => refused' = [client |-> c, at |-> now] /\ passed' = passed
      /\ ~limited => passed' = [passed EXCEPT ![c] = Append(@, now)] /\ refused' = refused
  BY DEF dispatch
<1>2. /\ now \in Nat /\ Calls \in Nat \ {0} /\ Period \in Nat /\ Every \in Nat \ {0} /\ WindowTypes
      /\ passed \in [Clients -> Seq(Nat)] /\ counter \in 0..Every - 1
  BY LimitAssumption DEF LInv, WindowTypes
<1>3. \A d \in Clients :
        /\ Ordered(d) /\ Windowed(d) /\ Windowless(d) /\ Spaced(passed[d])
        /\ passed[d] \in Seq(Nat)
  BY <1>2 DEF LInv
<1>4. \A d : /\ d \in DOMAIN windows =>
                   /\ d \in DOMAIN clients /\ windows[d] = clients[d]
                   /\ windows[d] \in Windows /\ windows[d].since <= now /\ d \in Clients
             /\ d \in DOMAIN clients /\ d \notin DOMAIN windows => Expired(clients[d])
  BY <1>2, Cleans DEF WindowTypes
<1> HIDE DEF windows
\* The window and the passes of c.
<1>5. /\ window \in Windows /\ window.since <= now
      /\ Before(window, passed'[c]) /\ Within(window, passed'[c])
      /\ Spaced(passed'[c])
  <2>1. CASE limited
    <3>1. window = clients[c] /\ passed' = passed /\ c \in DOMAIN clients
      BY <1>1, <1>2, <1>4, <2>1 DEF Counts, Windows
    <3>2. clients[c] \in Windows /\ clients[c].since <= now
      BY <1>4, <2>1
    <3> QED
      BY <1>3, <3>1, <3>2 DEF Windowed
  <2>2. CASE ~limited
    <3>1. passed'[c] = Append(passed[c], now)
      BY <1>1, <1>2, <2>2
    <3>2. CASE known
      <4>1. /\ c \in DOMAIN clients /\ windows[c] = clients[c] /\ window = Counts(clients[c])
            /\ clients[c] \in Windows /\ clients[c].since <= now /\ clients[c].count < Calls
        BY <1>2, <1>4, <2>2, <3>2 DEF Windows
      <4>2. Before(clients[c], passed[c]) /\ Within(clients[c], passed[c])
        BY <1>3, <4>1 DEF Windowed
      <4>3. /\ window \in Windows /\ window.since = clients[c].since
            /\ Before(window, passed'[c]) /\ Within(window, passed'[c])
        BY <1>2, <1>3, <3>1, <4>1, <4>2, IsCounted
      <4> HIDE DEF window
      <4>4. Spaced(passed'[c])
        BY <1>2, <1>3, <3>1, <4>1, <4>3, StaysSpaced
      <4> QED
        BY <4>1, <4>3, <4>4
    <3>3. CASE ~known
      <4>1. Quiet(passed[c])
        <5>1. CASE c \in DOMAIN clients
          <6>1. Expired(clients[c]) /\ clients[c] \in Windows /\ Within(clients[c], passed[c])
            BY <1>2, <1>3, <1>4, <3>3, <5>1 DEF Windowed, WindowTypes
          <6> QED
            BY <1>2, <1>3, <6>1, QuietAfter
        <5>2. CASE c \notin DOMAIN clients
          BY <1>3, <5>2 DEF Windowless
        <5> QED
          BY <5>1, <5>2
      <4>2. window = Opened
        BY <3>3
      <4>3. /\ window \in Windows /\ window.since = now
            /\ Before(window, passed'[c]) /\ Within(window, passed'[c])
        BY <1>2, <1>3, <3>1, <4>1, <4>2, Opens
      <4> HIDE DEF window
      <4>4. Spaced(passed'[c])
        BY <1>2, <1>3, <3>1, <4>3, StaysSpaced
      <4> QED
        BY <1>2, <4>3, <4>4
    <3> QED
      BY <3>2, <3>3
  <2> QED
    BY <2>1, <2>2
<1>6. limited => Since(c, now - Period) >= Calls
  <2> SUFFICES ASSUME limited PROVE Since(c, now - Period) >= Calls
    OBVIOUS
  <2>1. /\ clients[c] \in Windows /\ Within(clients[c], passed[c]) /\ ~Expired(clients[c])
        /\ clients[c].count >= Calls
    BY <1>3, <1>4 DEF Windowed
  <2> QED
    BY <1>2, <2>1, FullWindow
<1> HIDE DEF window, known
<1>7. \A d \in Clients \ {c} :
        /\ passed'[d] = passed[d]
        /\ d \in DOMAIN clients' => d \in DOMAIN windows /\ clients'[d] = windows[d]
        /\ d \notin DOMAIN clients' => d \notin DOMAIN windows
  BY <1>1, <1>2
<1>8. c \in DOMAIN clients' /\ clients'[c] = window
  BY <1>1
<1>9. passed' \in [Clients -> Seq(Nat)]
  <2>1. Append(passed[c], now) \in Seq(Nat)
    BY <1>2, <1>3, OnePasses
  <2> QED
    BY <1>1, <1>2, <2>1
<1>10. WindowTypes'
  <2>1. counter' \in 0..Every - 1
    BY <1>1, <1>2
  <2>2. DOMAIN clients' \subseteq Clients
    BY <1>1, <1>4
  <2>3. \A d \in DOMAIN clients' : clients'[d] \in Windows /\ clients'[d].since <= now'
    BY <1>1, <1>4, <1>5, <1>7, <1>8, <2>2
  <2>4. refused' \in {Nobody} \cup [client : Clients, at : 0..now']
    BY <1>1, <1>2 DEF WindowTypes
  <2> QED
    BY <1>1, <1>2, <1>9, <2>1, <2>2, <2>3, <2>4 DEF WindowTypes
<1>11. RefusedLate'
  <2>1. CASE limited
    <3>1. Since(c, now - Period)' = Since(c, now - Period)
      BY <1>1, <2>1 DEF Since
    <3> QED
      BY <1>1, <1>6, <2>1, <3>1 DEF RefusedLate
  <2>2. CASE ~limited
    <3> SUFFICES ASSUME refused' # Nobody, refused'.at = now'
                 PROVE  Since(refused.client, now - Period)' >= Calls
      BY DEF RefusedLate
    <3>1. /\ refused' = refused /\ refused.client \in Clients
          /\ Since(refused.client, now - Period) >= Calls
      BY <1>1, <1>2, <2>2 DEF LInv, RefusedLate, WindowTypes
    <3>2. CASE refused.client = c
      <4>1. passed'[c] = Append(passed[c], now) /\ now - Period \in Int
        BY <1>1, <1>2, <2>2
      <4>2. /\ Since(c, now - Period) \in Nat /\ Since(c, now - Period)' \in Nat
            /\ Cardinality({i \in DOMAIN passed'[c] : passed'[c][i] >= now - Period})
                 >= Since(c, now - Period)
        BY <1>1, <1>2, <1>3, <4>1, SinceGrows DEF Since
      <4> QED
        BY <1>1, <1>2, <3>1, <3>2, <4>2 DEF Since
    <3>3. CASE refused.client # c
      BY <1>1, <1>7, <3>1, <3>3 DEF Since
    <3> QED
      BY <3>2, <3>3
  <2> QED
    BY <2>1, <2>2
<1>12. Ordered(c)'
  <2>1. passed' = passed \/ passed'[c] = Append(passed[c], now)
    BY <1>1, <1>2
  <2>2. Ordered(c) /\ passed[c] \in Seq(Nat)
    BY <1>3
  <2>3. CASE passed' = passed
    BY <1>1, <2>2, <2>3 DEF Ordered
  <2>4. CASE passed'[c] = Append(passed[c], now)
    <3> DEFINE s == passed[c]
               t == passed'[c]
    <3>1. /\ DOMAIN t = 1..Len(s) + 1 /\ Len(s) \in Nat /\ DOMAIN s = 1..Len(s)
          /\ \A i \in 1..Len(s) : t[i] = s[i] /\ s[i] \in Nat
          /\ t[Len(s) + 1] = now
      BY <1>2, <2>2, <2>4, OnePasses
    <3>2. /\ \A i \in DOMAIN s : s[i] <= now
          /\ \A i, j \in DOMAIN s : i <= j => s[i] <= s[j]
      BY <2>2 DEF Ordered
    <3> HIDE DEF s, t
    <3>3. \A i \in DOMAIN t : t[i] <= now
      BY <1>2, <3>1, <3>2
    <3>4. \A i, j \in DOMAIN t : i <= j => t[i] <= t[j]
      BY <1>2, <3>1, <3>2, <3>3
    <3> QED
      BY <1>1, <3>3, <3>4 DEF Ordered, t
  <2> QED
    BY <2>1, <2>3, <2>4
<1>13. ASSUME NEW d \in Clients \ {c}
       PROVE  Ordered(d)' /\ Windowed(d)' /\ Windowless(d)' /\ Spaced(passed'[d])
  <2>1. Ordered(d)' /\ Spaced(passed'[d])
    BY <1>1, <1>3, <1>7 DEF Ordered
  <2>2. Windowed(d)'
    BY <1>3, <1>4, <1>7 DEF Windowed
  <2>3. Windowless(d)'
    <3> SUFFICES ASSUME d \notin DOMAIN clients' PROVE Quiet(passed[d])
      BY <1>1, <1>7 DEF Windowless, Quiet
    <3>1. CASE d \in DOMAIN clients
      <4>1. Expired(clients[d]) /\ clients[d] \in Windows /\ Within(clients[d], passed[d])
        BY <1>2, <1>3, <1>4, <1>7, <3>1 DEF Windowed, WindowTypes
      <4> QED
        BY <1>2, <1>3, <4>1, QuietAfter
    <3>2. CASE d \notin DOMAIN clients
      BY <1>3, <3>2 DEF Windowless
    <3> QED
      BY <3>1, <3>2
  <2> QED
    BY <2>1, <2>2, <2>3
<1>14. Windowed(c)' /\ Windowless(c)'
  BY <1>5, <1>8 DEF Windowed, Windowless
<1> QED
  BY <1>5, <1>10, <1>11, <1>12, <1>13, <1>14 DEF LInv

LEMMA NextLInv == ASSUME LInv, [LimitNext]_limitVars PROVE LInv'
<1>1. CASE LimitNext
  BY <1>1, ElapsesLInv, DispatchLInv DEF LimitNext
<1>2. CASE UNCHANGED limitVars
  BY <1>2
  DEF limitVars, LInv, WindowTypes, RefusedLate, Since, Ordered, Windowed, Windowless, Before,
      Within, Quiet, Spaced
<1> QED
  BY <1>1, <1>2

LEMMA LimitInvariant == LimitSpec => []LInv
  BY InitLInv, NextLInv, PTL DEF LimitSpec

-----------------------------------------------------------------------------
\* Every variable keeps its type, and the count of a window never exceeds the limit.
THEOREM LimitTypes == LimitSpec => []LimitTypeOK
<1>1. LInv => LimitTypeOK
  <2> SUFFICES ASSUME LInv PROVE LimitTypeOK
    OBVIOUS
  <2>1. \A c \in Clients : passed[c] \in Seq(Nat) /\ Ordered(c)
    BY DEF LInv, WindowTypes
  <2>2. \A c \in Clients : passed[c] \in Seq(0..now)
    <3> SUFFICES ASSUME NEW c \in Clients PROVE passed[c] \in Seq(0..now)
      OBVIOUS
    <3>1. \A i \in 1..Len(passed[c]) : passed[c][i] \in 0..now
      BY <2>1 DEF Ordered, LInv, WindowTypes
    <3>2. passed[c] \in [1..Len(passed[c]) -> Nat] /\ Len(passed[c]) \in Nat
      BY <2>1, LenProperties
    <3>3. passed[c] \in [1..Len(passed[c]) -> 0..now]
      BY <3>1, <3>2
    <3> QED
      BY <3>2, <3>3, SeqDef
  <2>3. \A c \in DOMAIN clients : clients[c].count \in 1..Calls /\ clients[c].since \in 0..now
    BY DEF LInv, WindowTypes, Windows
  <2> QED
    BY <2>2, <2>3 DEF LInv, WindowTypes, LimitTypeOK
<1> QED
  BY <1>1, LimitInvariant, PTL

\* For any limit and any period, and whatever windows are forgotten: never twice the
\* limit in a period, and no refusal unless the limit has been reached in the last one.
THEOREM Throttles == LimitSpec => []Throttled
<1>1. LInv => Throttled
  BY DEF LInv, RefusedLate, Spaced, Throttled
<1> QED
  BY <1>1, LimitInvariant, PTL

-----------------------------------------------------------------------------
(* The downloads: the inductive invariant.                                 *)

DownloadType ==
    [of : Files \cup Snapshots \cup {"none"}, own : BOOLEAN, picks : BOOLEAN,
     left : 0..MaxFiles + 1, at : {"idle", "calling", "copying", "sending", "over"},
     fetched : BOOLEAN, late : BOOLEAN,
     answer : {"none", "200", "404", "501", "504", "error", "cancelled", "unsent"}]

\* A call outlives its request only if it ran when the request was given up: what
\* is queued is always waited for, so that no thread begins what nobody wants.  A file
\* is sent to a client that names no directory.
Waited(r) ==
    /\ download[r].at \in {"idle", "sending"} => work[r] = "none"
    /\ download[r].at = "sending" => ~download[r].own
    /\ download[r].at = "over" /\ work[r] # "none" => work[r] = "running" /\ download[r].late

\* The two reasons for which a directory is left.
MayStay(d) == (d.late /\ ~d.fetched) \/ (d.answer = "unsent" /\ ~d.own)

TempDir(r) ==
    download[r].of = "kaggle_file" =>
      /\ download[r].at \in {"calling", "copying", "sending"} => dir[r]
      /\ download[r].at = "over" /\ dir[r] => MayStay(download[r])

PoolBound == IsFiniteSet(Running) /\ Cardinality(Running) <= Workers

CallTypes ==
    /\ download \in [Requests -> DownloadType]
    /\ work \in [Requests -> {"none", "queued", "running"}]
    /\ dir \in [Requests -> BOOLEAN]

DInv == CallTypes /\ PoolBound /\ \A r \in Requests : Waited(r) /\ TempDir(r)

-----------------------------------------------------------------------------
LEMMA InitDInv == DownloadsInit => DInv
<1> SUFFICES ASSUME DownloadsInit PROVE DInv
  OBVIOUS
<1>1. NoDownload \in DownloadType
  BY DownloadsAssumption DEF NoDownload, DownloadType, Files, Snapshots
<1>2. CallTypes
  BY <1>1 DEF DownloadsInit, CallTypes
<1>3. Running = {}
  BY DEF DownloadsInit, Running
<1>4. PoolBound
  BY <1>3, FS_EmptySet, DownloadsAssumption DEF PoolBound
<1>5. \A r \in Requests : Waited(r) /\ TempDir(r)
  BY DEF DownloadsInit, Waited, TempDir, NoDownload
<1> QED
  BY <1>2, <1>4, <1>5 DEF DInv

-----------------------------------------------------------------------------
(* A step of request r, for the other requests and for the pool.           *)

\* What a step of r does to r.
StepOf(r, d, w, b) ==
    /\ download' = [download EXCEPT ![r] = d]
    /\ work' = [work EXCEPT ![r] = w]
    /\ dir' = [dir EXCEPT ![r] = b]

\* A step that begins no call keeps the invariant if it does for r itself.
LEMMA StepDInv ==
    ASSUME DInv, NEW r \in Requests,
           NEW d \in DownloadType, NEW w \in {"none", "queued", "running"}, NEW b \in BOOLEAN,
           StepOf(r, d, w, b),
           w = "running" => work[r] = "running" \/ Cardinality(Running) < Workers,
           d.at \in {"idle", "sending"} => w = "none",
           d.at = "sending" => ~d.own,
           d.at = "over" /\ w # "none" => w = "running" /\ d.late,
           d.of = "kaggle_file" /\ d.at \in {"calling", "copying", "sending"} => b,
           d.of = "kaggle_file" /\ d.at = "over" /\ b => MayStay(d)
    PROVE  DInv'
<1>1. /\ download'[r] = d /\ work'[r] = w /\ dir'[r] = b
      /\ \A u \in Requests \ {r} :
           download'[u] = download[u] /\ work'[u] = work[u] /\ dir'[u] = dir[u]
  BY DEF DInv, CallTypes, StepOf
<1>2. CallTypes'
  BY DEF DInv, CallTypes, StepOf
<1>3. \A u \in Requests : Waited(u)' /\ TempDir(u)'
  BY <1>1 DEF DInv, Waited, TempDir
<1>4. PoolBound'
  <2>1. IsFiniteSet(Running) /\ Cardinality(Running) <= Workers /\ Cardinality(Running) \in Nat
    BY FS_CardinalityType DEF DInv, PoolBound
  <2>2. CASE w = "running" /\ work[r] # "running"
    <3>1. Running' = Running \cup {r} /\ r \notin Running
      BY <1>1, <2>2 DEF Running
    <3>2. Cardinality(Running) < Workers
      BY <2>2
    <3>3. IsFiniteSet(Running') /\ Cardinality(Running') = Cardinality(Running) + 1
      BY <2>1, <3>1, FS_AddElement
    <3> QED
      BY <2>1, <3>2, <3>3, DownloadsAssumption DEF PoolBound
  <2>3. CASE ~(w = "running" /\ work[r] # "running")
    <3>1. Running' \subseteq Running
      BY <1>1, <2>3 DEF Running
    <3>2. IsFiniteSet(Running') /\ Cardinality(Running') <= Cardinality(Running)
      BY <2>1, <3>1, FS_Subset
    <3>3. Cardinality(Running') \in Nat
      BY <3>2, FS_CardinalityType
    <3> QED
      BY <2>1, <3>2, <3>3, DownloadsAssumption DEF PoolBound
  <2> QED
    BY <2>2, <2>3
<1> QED
  BY <1>2, <1>3, <1>4 DEF DInv

-----------------------------------------------------------------------------
(* The actions.                                                            *)

Answers == {"none", "200", "404", "501", "504", "error", "cancelled", "unsent"}

\* What a request becomes when it is over.
Ended(x, answer, late) ==
    [x EXCEPT !.at = "over", !.answer = answer, !.left = 0, !.late = late]

LEMMA EndedType ==
    ASSUME NEW x \in DownloadType, NEW answer \in Answers, NEW late \in BOOLEAN
    PROVE  LET d == Ended(x, answer, late)
           IN  /\ d \in DownloadType /\ d.of = x.of /\ d.own = x.own
               /\ d.at = "over" /\ d.answer = answer /\ (d.late <=> late)
<1> DEFINE d == Ended(x, answer, late)
           y == [x EXCEPT !.at = "over", !.answer = answer]
           z == [y EXCEPT !.left = 0]
<1>1. y \in DownloadType /\ y.of = x.of /\ y.own = x.own /\ y.at = "over" /\ y.answer = answer
  BY DEF DownloadType, Answers
<1>2. d = [z EXCEPT !.late = late]
  BY DEF Ended
<1> HIDE DEF y
<1>3. z \in DownloadType /\ z.of = x.of /\ z.own = x.own /\ z.at = "over" /\ z.answer = answer
  BY <1>1, DownloadsAssumption DEF DownloadType
<1> HIDE DEF z, d
<1>4. d \in DownloadType /\ d.of = z.of /\ d.own = z.own /\ d.at = z.at /\ d.answer = z.answer
      /\ (d.late <=> late)
  BY <1>2, <1>3 DEF DownloadType
<1>5. d \in DownloadType /\ d.of = x.of /\ d.own = x.own /\ d.at = "over" /\ d.answer = answer
      /\ (d.late <=> late)
  BY <1>3, <1>4
<1> QED
  BY <1>5 DEF d

\* A request that ends with its call, or is given up.
LEMMA EndsDInv ==
    ASSUME DInv, NEW r \in Requests, NEW answer \in Answers, NEW w \in {"none", work[r]},
           Ends(r, answer), Work(r, w),
           w # "none" => work[r] = "running" /\ answer \in {"504", "cancelled"}
    PROVE  DInv'
<1> DEFINE late == answer \in {"504", "cancelled"} /\ work[r] = "running"
           d == Ended(download[r], answer, late)
           b == dir[r] /\ download[r].of # "kaggle_file"
<1>1. download[r] \in DownloadType /\ dir[r] \in BOOLEAN
      /\ work[r] \in {"none", "queued", "running"}
  BY DEF DInv, CallTypes
<1>2. d \in DownloadType /\ d.at = "over" /\ d.of = download[r].of /\ (d.late <=> late)
  BY <1>1, EndedType
<1>3. StepOf(r, d, w, b)
  BY DEF Ends, Over, Is, Dir, Work, StepOf, Ended
<1>4. b \in BOOLEAN /\ (d.of = "kaggle_file" => ~b)
  BY <1>2
<1>5. w \in {"none", "queued", "running"}
  BY <1>1
<1>6. w # "none" => w = "running" /\ d.late
  BY <1>2
<1> HIDE DEF d, b, late
<1> QED
  BY <1>2, <1>3, <1>4, <1>5, <1>6, StepDInv

LEMMA BeginsDInv ==
    ASSUME DInv, NEW r \in Requests, download_file(r) \/ download_snapshot(r)
    PROVE  DInv'
<1>1. CASE download_file(r)
  <2>1. PICK of \in Files, own \in BOOLEAN, tries \in 0..1 :
          /\ Is(r, [NoDownload EXCEPT !.of = of, !.own = own, !.at = "calling",
                                      !.left = IF of = "hf_file" THEN tries ELSE 0])
          /\ Dir(r, of = "kaggle_file")
    BY <1>1 DEF download_file
  <2> DEFINE d == [of |-> of, own |-> own, picks |-> FALSE,
                   left |-> IF of = "hf_file" THEN tries ELSE 0, at |-> "calling",
                   fetched |-> FALSE, answer |-> "none", late |-> FALSE]
  <2>2. StepOf(r, d, "queued", of = "kaggle_file")
    BY <1>1, <2>1, ZenonT(30) DEF download_file, NoDownload, Is, Dir, Work, StepOf
  <2>3. d \in DownloadType
    BY DownloadsAssumption DEF DownloadType
  <2>4. d.at = "calling" /\ d.of = of
    OBVIOUS
  <2> HIDE DEF d
  <2> QED
    BY <2>2, <2>3, <2>4, StepDInv
<1>2. CASE download_snapshot(r)
  <2>1. PICK of \in Snapshots, own \in BOOLEAN, picks \in BOOLEAN :
          /\ Is(r, [NoDownload EXCEPT !.of = of, !.own = own, !.at = "calling",
                      !.picks = picks /\ of = "kaggle_snapshot",
                      !.left = IF of = "hf_snapshot" THEN 1 ELSE 0])
          /\ Dir(r, of = "kaggle_snapshot" /\ ~own)
    BY <1>2 DEF download_snapshot
  <2> DEFINE n == IF of = "hf_snapshot" THEN 1 ELSE 0
             filter == picks /\ of = "kaggle_snapshot"
             c == [NoDownload EXCEPT !.of = of, !.own = own, !.at = "calling"]
             d == [[c EXCEPT !.picks = filter] EXCEPT !.left = n]
  <2>2. StepOf(r, d, "queued", of = "kaggle_snapshot" /\ ~own)
    BY <1>2, <2>1 DEF download_snapshot, Is, Dir, Work, StepOf
  <2>3. c \in DownloadType /\ c.at = "calling" /\ c.of = of
    <3>1. NoDownload \in DownloadType
      BY DownloadsAssumption DEF NoDownload, DownloadType
    <3> QED
      BY <3>1 DEF DownloadType
  <2>4. filter \in BOOLEAN /\ n \in 0..MaxFiles + 1
    BY DownloadsAssumption
  <2> HIDE DEF c, filter, n
  <2>5. d \in DownloadType /\ d.at = "calling" /\ d.of = of
    BY <2>3, <2>4 DEF DownloadType
  <2>6. of # "kaggle_file"
    BY DEF Snapshots
  <2> HIDE DEF d
  <2> QED
    BY <2>2, <2>5, <2>6, StepDInv
<1> QED
  BY <1>1, <1>2

\* The steps of the pool: the request itself does not change.
LEMMA PoolDInv ==
    ASSUME DInv, NEW r \in Requests, WorkStarts(r) \/ WorkEndsLate(r)
    PROVE  DInv'
<1>1. /\ download[r] \in DownloadType /\ Waited(r) /\ TempDir(r)
      /\ dir[r] \in BOOLEAN
      /\ download = [download EXCEPT ![r] = download[r]]
      /\ dir = [dir EXCEPT ![r] = dir[r]]
  BY DEF DInv, CallTypes
<1>2. CASE WorkStarts(r)
  <2>1. StepOf(r, download[r], "running", dir[r])
    BY <1>1, <1>2 DEF WorkStarts, Work, StepOf
  <2>2. download[r].at \notin {"idle", "sending", "over"}
    BY <1>1, <1>2 DEF WorkStarts, Waited
  <2>3. download[r].of = "kaggle_file" /\ download[r].at \in {"calling", "copying"} => dir[r]
    BY <1>1 DEF TempDir
  <2>4. Cardinality(Running) < Workers
    BY <1>2 DEF WorkStarts
  <2> QED
    BY <1>1, <2>1, <2>2, <2>3, <2>4, StepDInv
<1>3. CASE WorkEndsLate(r)
  <2>1. PICK b \in BOOLEAN :
          StepOf(r, download[r], "none", b) /\ (b = dir[r] \/ ~download[r].fetched)
    BY <1>1, <1>3 DEF WorkEndsLate, Work, Dir, StepOf
  <2>2. download[r].at = "over" /\ download[r].late
    BY <1>1, <1>3 DEF WorkEndsLate, Waited
  <2>3. download[r].of = "kaggle_file" /\ b => MayStay(download[r])
    BY <1>1, <2>1, <2>2 DEF TempDir, MayStay
  <2> QED
    BY <1>1, <2>1, <2>2, <2>3, StepDInv
<1> QED
  BY <1>2, <1>3

\* A call returns, and the request goes on to another, or sends its file.
LEMMA GoesOnDInv ==
    ASSUME DInv, NEW r \in Requests, NEW d \in DownloadType, NEW w \in {"none", "queued"},
           download[r].at = "calling", StepOf(r, d, w, dir[r]), d.of = download[r].of,
           \/ d.at \in {"calling", "copying"}
           \/ d.at = "sending" /\ w = "none" /\ ~d.own
    PROVE  DInv'
<1>1. dir[r] \in BOOLEAN /\ (d.of = "kaggle_file" => dir[r])
  BY DEF DInv, CallTypes, TempDir
<1> QED
  BY <1>1, StepDInv

LEMMA DownloadsDInv ==
    ASSUME DInv, NEW r \in Requests, Downloads(r)
    PROVE  DInv'
<1>1. /\ download[r] \in DownloadType /\ dir[r] \in BOOLEAN /\ Waited(r)
      /\ work[r] \in {"none", "queued", "running"}
      /\ dir = [dir EXCEPT ![r] = dir[r]]
      /\ work = [work EXCEPT ![r] = work[r]]
  BY DEF DInv, CallTypes
<1>2. CASE FileArrives(r) \/ HfFileArrives(r)
  <2>1. CASE download[r].own
    <3> DEFINE d == [download[r] EXCEPT !.at = "copying", !.fetched = TRUE]
    <3>1. d \in DownloadType /\ d.at = "copying" /\ d.of = download[r].of
      BY <1>1 DEF DownloadType
    <3>2. StepOf(r, d, "queued", dir[r]) /\ download[r].at = "calling"
      BY <1>1, <1>2, <2>1 DEF FileArrives, HfFileArrives, Arrives, Returns, Is, Work, StepOf
    <3> HIDE DEF d
    <3> QED
      BY <3>1, <3>2, GoesOnDInv
  <2>2. CASE ~download[r].own
    <3> DEFINE d == [download[r] EXCEPT !.at = "sending", !.fetched = TRUE]
    <3>1. d \in DownloadType /\ d.at = "sending" /\ d.of = download[r].of /\ ~d.own
      BY <1>1, <2>2 DEF DownloadType
    <3>2. StepOf(r, d, "none", dir[r]) /\ download[r].at = "calling"
      BY <1>1, <1>2, <2>2 DEF FileArrives, HfFileArrives, Arrives, Returns, KeptToSend, Is, Work, StepOf
    <3> HIDE DEF d
    <3> QED
      BY <3>1, <3>2, GoesOnDInv
  <2> QED
    BY <2>1, <2>2
<1>3. CASE FilesListed(r)
  <2>1. CASE \E n \in 1..MaxFiles :
               /\ Is(r, [download[r] EXCEPT !.picks = FALSE, !.left = n - 1])
               /\ Work(r, "queued") /\ UNCHANGED dir
    <3>1. PICK n \in 1..MaxFiles :
            /\ Is(r, [download[r] EXCEPT !.picks = FALSE, !.left = n - 1])
            /\ Work(r, "queued") /\ UNCHANGED dir
      BY <2>1
    <3> DEFINE d == [download[r] EXCEPT !.picks = FALSE, !.left = n - 1]
    <3>2. n - 1 \in 0..MaxFiles + 1
      BY DownloadsAssumption
    <3>3. d \in DownloadType /\ d.at = download[r].at /\ d.of = download[r].of
      BY <1>1, <3>2 DEF DownloadType
    <3>4. StepOf(r, d, "queued", dir[r]) /\ download[r].at = "calling"
      BY <1>1, <1>3, <3>1 DEF FilesListed, Returns, Is, Work, StepOf
    <3> HIDE DEF d
    <3> QED
      BY <3>3, <3>4, GoesOnDInv
  <2>2. CASE \E answer \in {"404", "501"} : Fails(r, answer) /\ Work(r, "none")
    BY <2>2, EndsDInv DEF Fails, Answers
  <2> QED
    BY <1>3, <2>1, <2>2 DEF FilesListed
<1>4. CASE SnapshotArrives(r)
  <2>1. CASE download[r].left > 0
    <3> DEFINE d == [download[r] EXCEPT !.left = download[r].left - 1]
    <3>1. download[r].left - 1 \in 0..MaxFiles + 1
      BY <1>1, <2>1, DownloadsAssumption DEF DownloadType
    <3>2. d \in DownloadType /\ d.at = download[r].at /\ d.of = download[r].of
      BY <1>1, <3>1 DEF DownloadType
    <3>3. StepOf(r, d, "queued", dir[r]) /\ download[r].at = "calling"
      BY <1>1, <1>4, <2>1 DEF SnapshotArrives, Returns, Is, Work, StepOf
    <3> HIDE DEF d
    <3> QED
      BY <3>2, <3>3, GoesOnDInv
  <2>2. CASE ~(download[r].left > 0)
    <3>1. Ends(r, "200") /\ Work(r, "none")
      BY <1>4, <2>2 DEF SnapshotArrives
    <3> QED
      BY <3>1, EndsDInv DEF Answers
  <2> QED
    BY <2>1, <2>2
<1>5. CASE TriesWithToken(r)
  <2> DEFINE d == [download[r] EXCEPT !.left = 0]
  <2>1. d \in DownloadType /\ d.at = download[r].at /\ d.of = download[r].of
    BY <1>1, DownloadsAssumption DEF DownloadType
  <2>2. StepOf(r, d, "queued", dir[r]) /\ download[r].at = "calling"
    BY <1>1, <1>5 DEF TriesWithToken, Returns, Is, Work, StepOf
  <2> HIDE DEF d
  <2> QED
    BY <2>1, <2>2, GoesOnDInv
<1>6. CASE FileMissing(r) \/ HfSnapshotArrives(r) \/ CallFails(r) \/ Copied(r)
  <2>1. PICK answer \in Answers : Ends(r, answer) /\ Work(r, "none")
    BY <1>6 DEF FileMissing, HfSnapshotArrives, CallFails, Copied, Fails, Answers
  <2> QED
    BY <2>1, EndsDInv
<1>7. CASE TimesOut(r) \/ Cancelled(r)
  <2>1. PICK answer \in {"504", "cancelled"} : Ends(r, answer) /\ GivenUp(r)
    BY <1>7 DEF TimesOut, Cancelled, Fails
  <2> DEFINE w == IF work[r] = "queued" THEN "none" ELSE work[r]
  <2>2. Work(r, w) /\ w \in {"none", work[r]} /\ (w # "none" => work[r] = "running")
    BY <1>1, <2>1 DEF GivenUp
  <2> HIDE DEF w
  <2> QED
    BY <2>1, <2>2, EndsDInv DEF Answers
<1>8. CASE Sent(r)
  <2>1. work[r] = "none" /\ Ends(r, "200") /\ Work(r, "none")
    BY <1>1, <1>8 DEF Sent, Waited, Work
  <2> QED
    BY <2>1, EndsDInv DEF Answers
<1>9. CASE Unsent(r)
  <2> DEFINE d == Ended(download[r], "unsent", FALSE)
  <2>1. work[r] = "none" /\ ~download[r].own
    BY <1>1, <1>9 DEF Unsent, Waited
  <2>2. StepOf(r, d, "none", dir[r])
    BY <1>1, <1>9, <2>1 DEF Unsent, Over, Is, Ended, StepOf
  <2>3. d \in DownloadType /\ d.at = "over" /\ d.answer = "unsent" /\ d.own = download[r].own
    BY <1>1, EndedType DEF Answers
  <2> HIDE DEF d
  <2>4. MayStay(d)
    BY <2>1, <2>3 DEF MayStay
  <2> QED
    BY <1>1, <2>2, <2>3, <2>4, StepDInv
<1> QED
  BY <1>2, <1>3, <1>4, <1>5, <1>6, <1>7, <1>8, <1>9 DEF Downloads

-----------------------------------------------------------------------------
LEMMA NextDInv == DInv /\ [DownloadsNext]_downloadVars => DInv'
<1> SUFFICES ASSUME DInv, [DownloadsNext]_downloadVars PROVE DInv'
  OBVIOUS
<1>1. CASE DownloadsNext
  BY <1>1, BeginsDInv, PoolDInv, DownloadsDInv DEF DownloadsNext
<1>2. CASE UNCHANGED downloadVars
  BY <1>2 DEF downloadVars, DInv, CallTypes, PoolBound, Running, Waited, TempDir
<1> QED
  BY <1>1, <1>2

LEMMA DownloadsInvariant == DownloadsSpec => []DInv
  BY InitDInv, NextDInv, PTL DEF DownloadsSpec

-----------------------------------------------------------------------------

\* Every variable keeps its type, and no more calls run than the pool has
\* threads, however many of them hang.
THEOREM DownloadTypes == DownloadsSpec => []DownloadsTypeOK
<1>1. DInv => DownloadsTypeOK
  BY DEF DInv, CallTypes, PoolBound, DownloadsTypeOK, DownloadType
<1> QED
  BY <1>1, DownloadsInvariant, PTL

\* A Kaggle file's temporary directory is there as long as it is needed.  It is
\* left over only by a thread that was downloading to it when its request was given
\* up, or by a response whose background task did not run; however many requests
\* there are, and whatever they wait for.
THEOREM TempDirsGo == DownloadsSpec => []TempDirs
<1>1. DInv => TempDirs
  BY DEF DInv, TempDir, TempDirs, MayStay
<1> QED
  BY <1>1, DownloadsInvariant, PTL

-----------------------------------------------------------------------------
(* The session: the inductive invariant.                                   *)

\* A lock is held by the thread that builds what it protects.
Locks ==
    /\ \A t \in Requests : post[t].at = "building" <=> sessionLock = t
    /\ \A t \in Requests : get[t].at = "authenticating" <=> clientLock = t

\* Nobody authenticates once there is a client.
OneClient ==
    /\ client = logins /\ logins <= 1
    /\ \A t \in Requests : get[t].at = "authenticating" => client = 0
    /\ \A t \in Requests : get[t].at = "got" => get[t].got = client /\ client # 0

\* The sessions that are still to be built: two for a thread that is to drop the
\* one there is, one for a thread whose first attempt failed, and one if there is
\* none.  A failure of a first attempt pays for two.
Dropping   == {t \in Requests : post[t].at = "dropping"}
Rebuilding == {t \in Requests : post[t].attempt = 2 /\ post[t].at \in {"getting", "building"}}
Missing    == IF session = 0 THEN 1 ELSE 0

Paid ==
    /\ IsFiniteSet(Dropping) /\ IsFiniteSet(Rebuilding)
    /\ built + Missing + 2 * Cardinality(Dropping) + Cardinality(Rebuilding)
         <= 1 + 2 * failures.first

Attempts ==
    /\ \A t \in Requests : post[t].at = "building" /\ post[t].attempt = 1 => session = 0
    /\ \A t \in Requests : post[t].at \in {"idle", "dropping"} => post[t].attempt = 1
    /\ failures.first <= failures.all

SInv == SessionTypeOK /\ Locks /\ OneClient /\ Attempts /\ Paid

-----------------------------------------------------------------------------
LEMMA InitSInv == SessionInit => SInv
<1> SUFFICES ASSUME SessionInit PROVE SInv
  OBVIOUS
<1>1. SessionTypeOK /\ Locks /\ OneClient /\ Attempts
  BY SessionAssumption
  DEF SessionInit, SessionTypeOK, Locks, OneClient, Attempts, NoPost, NoGet
<1>2. Dropping = {} /\ Rebuilding = {} /\ Missing = 1
  BY DEF SessionInit, Dropping, Rebuilding, Missing, NoPost
<1>3. Paid
  BY <1>2, FS_EmptySet DEF SessionInit, Paid
<1> QED
  BY <1>1, <1>3 DEF SInv

-----------------------------------------------------------------------------
(* The steps of _post_list_models.                                         *)

\* The states of a thread in _post_list_models, when n sessions have been built.
Post(n) == [at : {"idle", "getting", "building", "posting", "dropping", "answered", "none"},
            attempt : 1..2, session : 0..n]

\* The step is one of thread t's.
Moves(t) == \A u \in Requests \ {t} : post'[u] = post[u]

In(b) == IF b THEN 1 ELSE 0

\* A thread that leaves or enters one of the two sets changes its size by one.
LEMMA Counting ==
    ASSUME SInv, NEW t \in Requests, Moves(t)
    PROVE  /\ IsFiniteSet(Dropping') /\ IsFiniteSet(Rebuilding')
           /\ Cardinality(Dropping) \in Nat /\ Cardinality(Rebuilding) \in Nat
           /\ Cardinality(Dropping') =
                Cardinality(Dropping) + In(t \in Dropping') - In(t \in Dropping)
           /\ Cardinality(Rebuilding') =
                Cardinality(Rebuilding) + In(t \in Rebuilding') - In(t \in Rebuilding)
<1>1. /\ Dropping' = IF t \in Dropping' THEN Dropping \cup {t} ELSE Dropping \ {t}
      /\ Rebuilding' = IF t \in Rebuilding' THEN Rebuilding \cup {t} ELSE Rebuilding \ {t}
  BY DEF Dropping, Rebuilding, Moves
<1>2. IsFiniteSet(Dropping) /\ IsFiniteSet(Rebuilding)
  BY DEF SInv, Paid
<1>3. Cardinality(Dropping) \in Nat /\ Cardinality(Rebuilding) \in Nat
  BY <1>2, FS_CardinalityType
<1>4. ASSUME NEW S, IsFiniteSet(S), Cardinality(S) \in Nat, NEW T,
             T = IF t \in T THEN S \cup {t} ELSE S \ {t}
      PROVE  IsFiniteSet(T) /\ Cardinality(T) = Cardinality(S) + In(t \in T) - In(t \in S)
  <2>1. CASE t \in T
    BY <2>1, <1>4, FS_AddElement DEF In
  <2>2. CASE t \notin T
    BY <2>2, <1>4, FS_RemoveElement DEF In
  <2> QED
    BY <2>1, <2>2
<1> QED
  BY <1>1, <1>2, <1>3, <1>4

\* What the steps of get_kaggle_client are about.
LEMMA GetUntouched ==
    ASSUME SInv, UNCHANGED getVars
    PROVE  OneClient' /\ \A t \in Requests : get'[t].at = "authenticating" <=> clientLock' = t
  BY DEF SInv, OneClient, Locks, getVars

LEMMA PostBeginsSInv ==
    ASSUME SInv, NEW t \in Requests, PostBegins(t)
    PROVE  SInv'
<1>1. SessionTypeOK'
  BY DEF SInv, PostBegins, Posts, NoPost, SessionTypeOK, getVars
<1>2. post[t].at = "idle" /\ post[t].attempt = 1 /\ post'[t] = [NoPost EXCEPT !.at = "getting"] /\ Moves(t)
  BY DEF SInv, PostBegins, Posts, SessionTypeOK, Attempts, Moves
<1>3. Attempts' /\ \A u \in Requests : post'[u].at = "building" <=> sessionLock' = u
  BY <1>2 DEF SInv, PostBegins, NoPost, Attempts, Locks, Moves
<1>4. t \notin Dropping /\ t \notin Dropping' /\ t \notin Rebuilding /\ t \notin Rebuilding'
  BY <1>2 DEF Dropping, Rebuilding, NoPost
<1>5. Paid'
  BY <1>2, <1>4, Counting DEF SInv, PostBegins, Paid, Missing, In
<1> QED
  BY <1>1, <1>3, <1>5, GetUntouched DEF SInv, Locks, PostBegins

LEMMA TakesSessionSInv ==
    ASSUME SInv, NEW t \in Requests, TakesSession(t)
    PROVE  SInv'
<1> DEFINE force == post[t].attempt = 2 \/ session = 0
<1>0. /\ force  => post' = [post EXCEPT ![t] = [post[t] EXCEPT !.at = "building"]] /\ sessionLock' = t
      /\ ~force => /\ post' = [post EXCEPT ![t] = [post[t] EXCEPT !.at = "posting", !.session = session]]
                   /\ sessionLock' = NoThread
      /\ post \in [Requests -> Post(built)] /\ session \in 0..built
  BY DEF SInv, TakesSession, Posts, SessionTypeOK, Post
<1>1. SessionTypeOK'
  <2>1. post' \in [Requests -> Post(built)]
    BY <1>0, ZenonT(30) DEF Post
  <2> QED
    BY <1>0, <2>1 DEF SInv, TakesSession, SessionTypeOK, getVars, Post
<1>2. /\ post[t].at = "getting" /\ post'[t].attempt = post[t].attempt /\ Moves(t)
      /\ \/ post'[t].at = "building" /\ (post[t].attempt = 2 \/ session = 0) /\ sessionLock' = t
         \/ post'[t].at = "posting" /\ post[t].attempt # 2 /\ sessionLock' = NoThread
  <2>1. post[t].at = "getting"
    BY DEF TakesSession
  <2>2. CASE force
    BY <1>0, <2>1, <2>2 DEF Moves, Post
  <2>3. CASE ~force
    BY <1>0, <2>1, <2>3, ZenonT(30) DEF Moves, Post
  <2> QED
    BY <2>2, <2>3
<1>3. Attempts' /\ \A u \in Requests : post'[u].at = "building" <=> sessionLock' = u
  BY <1>2, SessionAssumption DEF SInv, TakesSession, Attempts, Locks, Moves
<1>4. t \notin Dropping /\ t \notin Dropping' /\ (t \in Rebuilding' <=> t \in Rebuilding)
  BY <1>2 DEF Dropping, Rebuilding
<1>5. Paid'
  BY <1>2, <1>4, Counting DEF SInv, TakesSession, Paid, Missing, In
<1> QED
  BY <1>1, <1>3, <1>5, GetUntouched DEF SInv, Locks, TakesSession

LEMMA BuiltSInv ==
    ASSUME SInv, NEW t \in Requests, Built(t)
    PROVE  SInv'
<1>1. built \in Nat /\ failures' = failures /\ failures.first \in Nat
  BY SessionAssumption DEF SInv, Built, SessionTypeOK
<1>2. SessionTypeOK'
  <2>1. post \in [Requests -> Post(built + 1)]
    BY <1>1 DEF SInv, SessionTypeOK, Post
  <2>2. /\ post' = [post EXCEPT ![t] = [post[t] EXCEPT !.at = "posting", !.session = built + 1]]
        /\ built + 1 \in 0..built + 1 /\ built' = built + 1
    BY <1>1 DEF Built, Posts
  <2>4. post' \in [Requests -> Post(built + 1)]
    BY <2>1, <2>2 DEF Post
  <2> QED
    BY <1>1, <2>2, <2>4 DEF SInv, Built, SessionTypeOK, getVars, Post
<1>3. /\ post[t].at = "building" /\ post'[t].at = "posting" /\ Moves(t)
      /\ post[t].attempt \in 1..2 /\ session' # 0 /\ sessionLock = t
  BY <1>1 DEF SInv, Built, Posts, SessionTypeOK, Moves, Locks
<1>4. Attempts' /\ \A u \in Requests : post'[u].at = "building" <=> sessionLock' = u
  BY <1>3, SessionAssumption DEF SInv, Built, Attempts, Locks, Moves
<1>5. t \notin Dropping /\ t \notin Dropping' /\ t \notin Rebuilding' /\ (t \in Rebuilding \/ session = 0)
  BY <1>3 DEF SInv, Attempts, Dropping, Rebuilding
<1>6. Paid'
  BY <1>1, <1>3, <1>5, Counting DEF SInv, Built, Paid, Missing, In
<1> QED
  BY <1>2, <1>4, <1>6, GetUntouched DEF SInv, Locks, Built

LEMMA FailsSInv ==
    ASSUME SInv, NEW t \in Requests, BuildFails(t) \/ Refused(t)
    PROVE  SInv'
<1> DEFINE first == IF post[t].attempt = 1 THEN 1 ELSE 0
<1>1. /\ failures'.first = failures.first + first /\ failures'.all = failures.all + 1
      /\ failures.first \in Nat /\ failures.all \in Nat /\ failures.all < MaxFailures
      /\ built \in Nat /\ built' = built /\ session' = session /\ MaxFailures \in Nat
  BY SessionAssumption DEF SInv, BuildFails, Refused, Failed, SessionTypeOK
<1>2. /\ Moves(t) /\ post[t].at \in {"building", "posting"} /\ post[t].attempt \in 1..2
      /\ post'[t].at = IF post[t].attempt = 1 THEN "dropping" ELSE "none"
      /\ post'[t].attempt = post[t].attempt
      /\ sessionLock' = IF post[t].at = "building" THEN NoThread ELSE sessionLock
      /\ post[t].at = "building" => sessionLock = t
  BY DEF SInv, BuildFails, Refused, Failed, Again, Posts, SessionTypeOK, Moves, Locks
<1>3. SessionTypeOK'
  <2>1. post' \in [Requests -> Post(built)]
    BY DEF SInv, BuildFails, Refused, Failed, Again, Posts, SessionTypeOK, Post
  <2>2. failures' \in [first : 0..MaxFailures, all : 0..MaxFailures]
    <3>1. failures' = [all |-> failures.all + 1, first |-> failures.first + first]
      BY DEF BuildFails, Refused, Failed
    <3>2. failures.first <= failures.all
      BY DEF SInv, Attempts
    <3> QED
      BY <1>1, <3>1, <3>2
  <2> QED
    BY <2>1, <2>2, <1>2 DEF SInv, BuildFails, Refused, SessionTypeOK, getVars, Post
<1>4. Attempts' /\ \A u \in Requests : post'[u].at = "building" <=> sessionLock' = u
  BY <1>1, <1>2, SessionAssumption DEF SInv, Attempts, Locks, Moves
<1>5. /\ t \notin Dropping /\ (t \in Dropping' <=> post[t].attempt = 1)
      /\ t \notin Rebuilding'
  BY <1>2 DEF Dropping, Rebuilding
<1>6. Paid'
  BY <1>1, <1>2, <1>5, Counting DEF SInv, Paid, Missing, In
<1> QED
  BY <1>3, <1>4, <1>6, GetUntouched DEF SInv, Locks, BuildFails, Refused

LEMMA AcceptedSInv ==
    ASSUME SInv, NEW t \in Requests, Accepted(t)
    PROVE  SInv'
<1>1. SessionTypeOK'
  BY SMTT(30) DEF SInv, Accepted, Posts, SessionTypeOK, getVars
<1>2. post[t].at = "posting" /\ post'[t].at = "answered" /\ Moves(t)
  BY DEF SInv, Accepted, Posts, SessionTypeOK, Moves
<1>3. Attempts' /\ \A u \in Requests : post'[u].at = "building" <=> sessionLock' = u
  BY <1>2 DEF SInv, Accepted, Attempts, Locks, Moves
<1>4. t \notin Dropping /\ t \notin Dropping' /\ t \notin Rebuilding /\ t \notin Rebuilding'
  BY <1>2 DEF Dropping, Rebuilding
<1>5. Paid'
  BY <1>2, <1>4, Counting DEF SInv, Accepted, Paid, Missing, In
<1> QED
  BY <1>1, <1>3, <1>5, GetUntouched DEF SInv, Locks, Accepted

LEMMA DropsSInv ==
    ASSUME SInv, NEW t \in Requests, Drops(t)
    PROVE  SInv'
<1>1. SessionTypeOK'
  <2>1. post \in [Requests -> Post(built)]
    BY DEF SInv, SessionTypeOK, Post
  <2>2. post' = [post EXCEPT ![t] = [post[t] EXCEPT !.at = "getting", !.attempt = 2]] /\ 2 \in 1..2
    BY DEF Drops, Posts
  <2>3. post' \in [Requests -> Post(built)]
    BY <2>1, <2>2 DEF Post
  <2> QED
    BY <2>3 DEF SInv, Drops, SessionTypeOK, getVars, Post
<1>2. /\ post[t].at = "dropping" /\ post'[t].at = "getting" /\ post'[t].attempt = 2 /\ Moves(t)
      /\ sessionLock = NoThread
  BY DEF SInv, Drops, Posts, SessionTypeOK, Moves
<1>3. Attempts' /\ \A u \in Requests : post'[u].at = "building" <=> sessionLock' = u
  BY <1>2 DEF SInv, Drops, Attempts, Locks, Moves
<1>4. t \in Dropping /\ t \notin Dropping' /\ t \notin Rebuilding /\ t \in Rebuilding'
  BY <1>2 DEF Dropping, Rebuilding
<1>5. built' = built /\ built \in Nat /\ failures' = failures /\ failures.first \in Nat
  BY SessionAssumption DEF SInv, Drops, SessionTypeOK
<1>6. Paid'
  BY <1>2, <1>4, <1>5, Counting DEF SInv, Paid, Missing, In
<1> QED
  BY <1>1, <1>3, <1>6, GetUntouched DEF SInv, Locks, Drops

-----------------------------------------------------------------------------
(* The steps of get_kaggle_client.                                         *)

\* What the steps of _post_list_models leave alone.
LEMMA PostUntouched ==
    ASSUME SInv, UNCHANGED <<postVars, failures>>
    PROVE  /\ Attempts' /\ Paid'
           /\ \A t \in Requests : post'[t].at = "building" <=> sessionLock' = t
  BY DEF SInv, Attempts, Paid, Locks, postVars, Dropping, Rebuilding, Missing

LEMMA GetSInv ==
    ASSUME SInv, NEW t \in Requests, GetBegins(t) \/ GetStep(t)
    PROVE  SInv'
<1> USE DEF GetBegins, GetStep, Enters, Authenticated, AuthenticationFails, Gets, Got, NoGet
<1>1. SessionTypeOK'
  BY SMTT(30) DEF SInv, SessionTypeOK, postVars, OneClient
<1>2. OneClient'
  <2>1. \A u \in Requests \ {t} : get'[u] = get[u]
    BY DEF SInv, SessionTypeOK
  <2>2. CASE GetBegins(t)
    BY <2>1, <2>2 DEF SInv, SessionTypeOK, OneClient
  <2>3. CASE Enters(t)
    <3>1. client' = client /\ logins' = logins /\ clientLock = NoThread
      BY <2>3
    <3>2. CASE client # 0
      <4>1. get'[t] = [at |-> "got", got |-> client]
        BY <2>3, <3>2 DEF SInv, SessionTypeOK
      <4> QED
        BY <2>1, <3>1, <3>2, <4>1 DEF SInv, OneClient
    <3>3. CASE client = 0
      <4>1. get'[t].at = "authenticating"
        BY <2>3, <3>3 DEF SInv, SessionTypeOK
      <4> QED
        BY <2>1, <3>1, <3>3, <4>1 DEF SInv, OneClient
    <3> QED
      BY <3>2, <3>3
  <2>4. CASE Authenticated(t)
    <3>1. client = 0 /\ logins = 0 /\ clientLock = t
      BY <2>4 DEF SInv, OneClient, Locks
    <3>2. \A u \in Requests \ {t} : get[u].at \notin {"authenticating", "got"}
      BY <3>1, SessionAssumption DEF SInv, OneClient, Locks
    <3>3. get'[t] = [at |-> "got", got |-> 1] /\ client' = 1 /\ logins' = 1
      BY <2>4, <3>1 DEF SInv, SessionTypeOK
    <3> QED
      BY <2>1, <3>2, <3>3 DEF OneClient
  <2>5. CASE AuthenticationFails(t)
    BY <2>1, <2>5 DEF SInv, SessionTypeOK, OneClient
  <2> QED
    BY <2>2, <2>3, <2>4, <2>5
<1>3. \A u \in Requests : get'[u].at = "authenticating" <=> clientLock' = u
  <2>1. /\ \A u \in Requests \ {t} : get'[u] = get[u]
        /\ \A u \in Requests : get[u].at = "authenticating" <=> clientLock = u
        /\ NoThread \notin Requests
    BY SessionAssumption DEF SInv, SessionTypeOK, Locks
  <2>2. CASE GetBegins(t)
    BY <2>1, <2>2 DEF SInv, SessionTypeOK
  <2>3. CASE Enters(t)
    BY <2>1, <2>3 DEF SInv, SessionTypeOK
  <2>4. CASE Authenticated(t) \/ AuthenticationFails(t)
    BY <2>1, <2>4 DEF SInv, SessionTypeOK
  <2> QED
    BY <2>2, <2>3, <2>4
<1>4. UNCHANGED <<postVars, failures>>
  OBVIOUS
<1> QED
  BY <1>1, <1>2, <1>3, <1>4, PostUntouched DEF SInv, Locks

-----------------------------------------------------------------------------
LEMMA NextSInv == SInv /\ [SessionNext]_sessionVars => SInv'
<1> SUFFICES ASSUME SInv, [SessionNext]_sessionVars PROVE SInv'
  OBVIOUS
<1>1. CASE Expire
  <2>1. SessionTypeOK'
    BY <1>1 DEF SInv, Expire, SessionTypeOK, getVars
  <2>2. UNCHANGED <<session, built, sessionLock, post, getVars, failures>>
    BY <1>1 DEF Expire
  <2> QED
    BY <2>1, <2>2, GetUntouched
    DEF SInv, Attempts, Paid, Locks, Dropping, Rebuilding, Missing
<1>2. ASSUME NEW t \in Requests, PostBegins(t) \/ PostStep(t)
      PROVE  SInv'
  BY <1>2, PostBeginsSInv, TakesSessionSInv, BuiltSInv, FailsSInv, AcceptedSInv, DropsSInv
  DEF PostStep
<1>3. ASSUME NEW t \in Requests, GetBegins(t) \/ GetStep(t)
      PROVE  SInv'
  BY <1>3, GetSInv
<1>4. CASE UNCHANGED sessionVars
  BY <1>4, GetUntouched, PostUntouched DEF SInv, SessionTypeOK, Locks, sessionVars, postVars, getVars
<1> QED
  BY <1>1, <1>2, <1>3, <1>4 DEF SessionNext

LEMMA SessionInvariant == SessionSpec => []SInv
  BY InitSInv, NextSInv, PTL DEF SessionSpec

-----------------------------------------------------------------------------

\* Every variable keeps its type, whatever the interleaving of the threads.
THEOREM SessionTypes == SessionSpec => []SessionTypeOK
<1>1. SInv => SessionTypeOK
  BY DEF SInv
<1> QED
  BY <1>1, SessionInvariant, PTL

\* One API client is authenticated, and at most two sessions are built for each
\* first attempt of a call that fails.
THEOREM SharedOnce == SessionSpec => []BuiltOnce
<1>1. SInv => BuiltOnce
  <2> SUFFICES ASSUME SInv PROVE BuiltOnce
    OBVIOUS
  <2>1. Cardinality(Dropping) \in Nat /\ Cardinality(Rebuilding) \in Nat
    BY FS_CardinalityType DEF SInv, Paid
  <2>2. built \in Nat /\ failures.first \in Nat
    BY SessionAssumption DEF SInv, SessionTypeOK
  <2>3. built <= 1 + 2 * failures.first
    BY <2>1, <2>2 DEF SInv, Paid, Missing
  <2> QED
    BY <2>3 DEF SInv, OneClient, BuiltOnce
<1> QED
  BY <1>1, SessionInvariant, PTL

-----------------------------------------------------------------------------
(* MCMarkets.                                                              *)

\* A behaviour of MCMarkets is one of each module: the one that is its subject
\* goes as it likes, the others stand still.
THEOREM RunsTheMarkets == MCSpec => PagesSpec /\ DownloadsSpec /\ SessionSpec /\ LimitSpec
<1>1. MCInit => PagesInit /\ DownloadsInit /\ SessionInit /\ LimitInit
  BY DEF MCInit
<1>2. [MCNext]_allVars => /\ [PagesNext]_pagesVars /\ [DownloadsNext]_downloadVars
                          /\ [SessionNext]_sessionVars /\ [LimitNext]_limitVars
  BY DEF MCNext, allVars, OfPages, OfDownloads, OfSession, OfLimit
<1> QED
  BY <1>1, <1>2, PTL DEF MCSpec, PagesSpec, DownloadsSpec, SessionSpec, LimitSpec

\* The variables of all the modules about the markets have their types.
THEOREM MarketsTyped == MCSpec => []MarketTypes
<1>1. PagesTypeOK /\ DownloadsTypeOK /\ SessionTypeOK /\ LimitTypeOK => MarketTypes
  BY DEF MarketTypes
<1> QED
  BY <1>1, RunsTheMarkets, PagesTypes, DownloadTypes, SessionTypes, LimitTypes, PTL
=============================================================================
