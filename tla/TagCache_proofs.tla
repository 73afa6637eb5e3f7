--------------------------- MODULE TagCache_proofs ---------------------------
(***************************************************************************)
(* Proofs about TagCache for any markets, groups, callers and timers.      *)
(***************************************************************************)
EXTENDS TagCache, TLAPS

-----------------------------------------------------------------------------
(* The inductive invariant.                                                *)

\* The fetches of a forced refresh are for its markets, and began with it.
Forcing ==
    \A f \in Forcers :
        /\ \A e \in fetches : e.by = f => e.market \in scope[f] /\ e.time = asked[f]
        /\ scope[f] = {} => asked[f] = 0

IInv == TypeOK /\ Forcing /\ StalenessBounded

\* What a market's entries have left.
Left(m) == cache[m]["tags"].ttl

\* A market's entries are of one fetch.  While the loop sleeps they have at least
\* the buffer left when it wakes, but for the time by which the slowest market
\* came after this one; then the next fetch of the market is under way, or it is
\* over, and the entries are as new as the slowest fetch lets them be.
WarmMarket(m) ==
    /\ \A k \in Keys : cache[m][k] = cache[m]["tags"]
    /\ loop = "sleeping" => Left(m) + MaxFetch >= Buffer + left /\ since[m] + left >= Interval
    /\ loop = "warming" =>
          \A e \in fetches : e.market = m => Left(m) + MaxFetch + e.time >= Buffer
    /\ loop \in {"starting", "warming"} /\ (\A e \in fetches : e.market # m) =>
          /\ Left(m) + MaxFetch >= Interval + Buffer
          /\ \A e \in fetches : Left(m) + e.time >= Interval + Buffer

\* Nobody but the loop fetches.
LoopOnly ==
    /\ reads = {} /\ \A e \in fetches : e.by = "loop"
    /\ loop = "sleeping" => fetches = {}

Warm == ~failed /\ ~forced => LoopOnly /\ \A m \in Markets : WarmMarket(m)

-----------------------------------------------------------------------------
(* The cache.                                                              *)

CacheTypes ==
    /\ cache \in [Markets -> [Keys -> Entry]]
    /\ newest \in [Markets -> [Keys -> 0..MaxAge]]

Constants ==
    /\ Interval \in Nat /\ Buffer \in Nat /\ MaxFetch \in Nat /\ CacheTimeout \in Nat
    /\ Interval > 0 /\ CacheTimeout > 0 /\ CacheTimeout <= Interval + Buffer
    /\ MaxRequests \in Nat

LEMMA ConstantTypes == Constants
  BY CacheAssumption DEF Constants

\* Caching the data of a fetch keeps the types and the bound on its age.
LEMMA CachingKeeps ==
    ASSUME CacheTypes, StalenessBounded, NEW m \in Markets, NEW K \in SUBSET Keys,
           NEW age \in 0..MaxFetch, NEW ttl \in 1..(Interval + Buffer),
           cache_data(m, K, age, ttl)
    PROVE  CacheTypes' /\ StalenessBounded'
<1>1. [age |-> age, ttl |-> ttl] \in Entry /\ age \in 0..MaxAge
  BY ConstantTypes DEF Entry, MaxAge, Constants
<1>2. CacheTypes'
  BY <1>1 DEF CacheTypes, cache_data, Stored
<1>4. /\ \A n \in Markets, k \in Keys : cache'[n][k] =
            IF n = m /\ k \in K THEN [age |-> age, ttl |-> ttl] ELSE cache[n][k]
      /\ \A n \in Markets, k \in Keys : newest'[n][k] =
            IF n = m /\ k \in K /\ age < newest[n][k] THEN age ELSE newest[n][k]
  BY DEF CacheTypes, cache_data, Stored
<1>3. ASSUME NEW n \in Markets, NEW k \in Keys, cache'[n][k].ttl > 0
      PROVE  /\ cache'[n][k].age <= newest'[n][k] + MaxFetch
             /\ cache'[n][k].age + cache'[n][k].ttl <= MaxAge
  <2>1. cache[n][k] \in Entry /\ newest[n][k] \in 0..MaxAge
    BY DEF CacheTypes
  <2>2. CASE n = m /\ k \in K
    <3>1. cache'[n][k] = [age |-> age, ttl |-> ttl] /\ newest'[n][k] \in 0..MaxAge
      BY <2>2, <1>2, <1>4 DEF CacheTypes
    <3> QED
      BY <3>1, ConstantTypes DEF MaxAge, Constants
  <2>3. CASE ~(n = m /\ k \in K)
    <3>1. cache'[n][k] = cache[n][k] /\ newest'[n][k] = newest[n][k]
      BY <2>3, <1>4
    <3> QED
      BY <3>1, <1>3 DEF StalenessBounded, Cached
  <2> QED
    BY <2>2, <2>3
<1> QED
  BY <1>2, <1>3 DEF StalenessBounded, Cached

\* An entry one tick later.
LEMMA Ageing ==
    ASSUME NEW e \in Entry, e.ttl > 0 => e.age + e.ttl <= MaxAge
    PROVE  /\ Aged(e) \in Entry
           /\ Aged(e).ttl + 1 >= e.ttl
           /\ Aged(e).ttl > 0 => /\ e.ttl > 0 /\ Aged(e).age = e.age + 1
                                 /\ Aged(e).age + Aged(e).ttl = e.age + e.ttl
<1>1. e.age \in 0..MaxAge /\ e.ttl \in 0..(Interval + Buffer) /\ MaxAge \in Nat
  BY ConstantTypes DEF Entry, MaxAge, Constants
<1>2. CASE e.ttl <= 1
  BY <1>1, <1>2, ConstantTypes DEF Aged, Gone, Entry, Constants
<1>3. CASE e.ttl > 1
  <2>1. Aged(e) = [age |-> e.age + 1, ttl |-> e.ttl - 1]
    BY <1>1, <1>3 DEF Aged
  <2>2. e.age + 1 \in 0..MaxAge /\ e.ttl - 1 \in 0..(Interval + Buffer)
    BY <1>1, <1>3, ConstantTypes DEF Constants
  <2> QED
    BY <1>1, <1>3, <2>1, <2>2 DEF Entry
<1> QED
  BY <1>1, <1>2, <1>3

-----------------------------------------------------------------------------
LEMMA InitIInv == Init => IInv
<1> SUFFICES ASSUME Init PROVE IInv
  OBVIOUS
<1>1. Gone \in Entry /\ MaxAge \in Nat
  BY ConstantTypes DEF Gone, Entry, MaxAge, Constants
<1>5. \A m \in Markets : [by |-> "loop", market |-> m, time |-> 0] \in
         [by : {"loop"} \cup Forcers, market : Markets, time : 0..MaxFetch]
  BY ConstantTypes DEF Constants
<1>2. TypeOK
  <2>1. cache \in [Markets -> [Keys -> Entry]] /\ newest \in [Markets -> [Keys -> 0..MaxAge]]
    BY <1>1 DEF Init
  <2>2. fetches \subseteq [by : {"loop"} \cup Forcers, market : Markets, time : 0..MaxFetch]
    BY <1>5 DEF Init
  <2>3. since \in [Markets -> 0..Interval] /\ asked \in [Forcers -> 0..MaxFetch]
        /\ served \in 0..MaxRequests /\ left \in 0..Interval
    BY ConstantTypes DEF Init, Constants
  <2>4. reply \in [Forcers -> {"none", "ok", "error"}] /\ scope \in [Forcers -> SUBSET Markets]
    BY DEF Init
  <2> QED
    BY <2>1, <2>2, <2>3, <2>4 DEF Init, TypeOK
<1>3. Forcing
  BY CacheAssumption DEF Init, Forcing
<1>4. StalenessBounded
  BY DEF Init, StalenessBounded, Cached, Gone
<1> QED
  BY <1>2, <1>3, <1>4 DEF IInv

\* Next, one action at a time.
LEMMA NextCases ==
    ASSUME Next
    PROVE  \/ WarmupEnds \/ Wake \/ Tick \/ Stop \/ UNCHANGED vars
           \/ \E f \in fetches : f.market \in Markets /\ (Preloaded(f) \/ PreloadFails(f))
           \/ \E f \in Forcers : force_refresh(f) \/ ForceEnds(f)
           \/ \E d \in reads : ReadFetched(d) \/ ReadFails(d)
           \/ \E r \in Readers, m \in Markets, k \in Keys : Read(r, m, k)
<1>1. ASSUME NEW p, NEW m \in Markets, PreloadEnds(p, m)
      PROVE  \E f \in fetches : f.market \in Markets /\ (Preloaded(f) \/ PreloadFails(f))
  BY <1>1 DEF PreloadEnds
<1>2. ASSUME NEW r, ReadEnds(r)
      PROVE  \E d \in reads : ReadFetched(d) \/ ReadFails(d)
  BY <1>2 DEF ReadEnds
<1> QED
  BY <1>1, <1>2 DEF Next, Stopped

\* The fetches that are started are fetches.
LEMMA PreloadTypes ==
    ASSUME TypeOK, NEW p \in {"loop"} \cup Forcers, NEW S \in SUBSET Markets, Preload(p, S)
    PROVE  /\ fetches' \subseteq [by : {"loop"} \cup Forcers, market : Markets, time : 0..MaxFetch]
           /\ \A e \in fetches' : e \in fetches \/ (e.by = p /\ e.market \in S /\ e.time = 0)
<1>1. \A m \in Markets : [by |-> p, market |-> m, time |-> 0] \in
         [by : {"loop"} \cup Forcers, market : Markets, time : 0..MaxFetch]
  BY ConstantTypes DEF Constants
<1> QED
  BY <1>1 DEF TypeOK, Preload

LEMMA NextIInv == ASSUME IInv, [Next]_vars PROVE IInv'
<1> USE DEF IInv
<1>0. CacheTypes /\ Constants
  BY ConstantTypes DEF TypeOK, CacheTypes
<1>1. ASSUME NEW e \in fetches, Preloaded(e) PROVE IInv'
  <2>1. e.market \in Markets /\ e.time \in 0..MaxFetch
    BY DEF TypeOK
  <2>2. ExtendedTtl \in 1..(Interval + Buffer)
    BY <1>0 DEF ExtendedTtl, Constants
  <2>3. CacheTypes' /\ StalenessBounded'
    BY <1>0, <1>1, <2>1, <2>2, CachingKeeps DEF Preloaded
  <2>4. since' \in [Markets -> 0..Interval]
    BY <1>0, <1>1, <2>1 DEF TypeOK, Preloaded, Constants
  <2>5. TypeOK'
    BY <1>1, <2>3, <2>4 DEF TypeOK, Preloaded, CacheTypes, service, force
  <2>6. Forcing'
    BY <1>1 DEF Forcing, Preloaded, force
  <2> QED
    BY <2>3, <2>5, <2>6
<1>2. ASSUME NEW e \in fetches, PreloadFails(e) PROVE IInv'
  <2>1. CASE UNCHANGED <<scope, asked, reply>>
    BY <1>2, <2>1 DEF TypeOK, Forcing, StalenessBounded, Cached, PreloadFails, service
  <2>2. CASE e.by \in Forcers /\ scope[e.by] = {e.market} /\ Answer(e.by, "error")
    <3>1. TypeOK'
      BY <1>0, <1>2, <2>2 DEF TypeOK, PreloadFails, Answer, service, Constants
    <3>2. \A d \in fetches' : d.by # e.by
      <4> SUFFICES ASSUME NEW d \in fetches, d.by = e.by PROVE d = e
        BY <1>2 DEF PreloadFails
      <4>1. d.market = e.market /\ d.time = e.time
        BY <2>2 DEF Forcing
      <4> QED
        BY <4>1 DEF TypeOK
    <3>3. Forcing'
      BY <1>2, <2>2, <3>2 DEF TypeOK, Forcing, PreloadFails, Answer
    <3> QED
      BY <1>2, <3>1, <3>3 DEF PreloadFails, StalenessBounded, Cached
  <2> QED
    BY <1>2, <2>1, <2>2 DEF PreloadFails
<1>3. CASE WarmupEnds
  BY <1>0, <1>3 DEF TypeOK, Forcing, StalenessBounded, Cached, WarmupEnds, force, Constants
<1>4. CASE Wake
  <2>1. fetches' \subseteq [by : {"loop"} \cup Forcers, market : Markets, time : 0..MaxFetch]
        /\ \A e \in fetches' : e \in fetches \/ e.by = "loop"
    BY <1>4, PreloadTypes DEF Wake
  <2>2. TypeOK'
    BY <1>4, <2>1 DEF TypeOK, Wake, force
  <2>3. Forcing'
    BY <1>4, <2>1, CacheAssumption DEF Forcing, Wake, force
  <2> QED
    BY <1>4, <2>2, <2>3 DEF StalenessBounded, Cached, Wake
<1>5. ASSUME NEW f \in Forcers, force_refresh(f) PROVE IInv'
  <2>1. PICK S \in SUBSET Markets : Preload(f, S) /\ scope' = [scope EXCEPT ![f] = S]
    <3>1. \A S \in {{m} : m \in Markets} \cup {Markets} : S \in SUBSET Markets
      OBVIOUS
    <3>2. \E S \in {{m} : m \in Markets} \cup {Markets} :
             Preload(f, S) /\ scope' = [scope EXCEPT ![f] = S]
      BY <1>5 DEF force_refresh
    <3> QED
      BY <3>1, <3>2
  <2>2. fetches' \subseteq [by : {"loop"} \cup Forcers, market : Markets, time : 0..MaxFetch]
        /\ \A e \in fetches' : e \in fetches \/ (e.by = f /\ e.market \in S /\ e.time = 0)
    BY <2>1, PreloadTypes
  <2>3. served' \in 0..MaxRequests
    BY <1>0, <1>5 DEF TypeOK, force_refresh, Request, Constants
  <2>4. TypeOK'
    BY <1>5, <2>1, <2>2, <2>3 DEF TypeOK, force_refresh, service
  <2>5. scope[f] = {} /\ asked' = asked /\ asked[f] = 0
    BY <1>5 DEF force_refresh, Forcing
  <2>6. Forcing'
    BY <2>1, <2>2, <2>5 DEF TypeOK, Forcing
  <2> QED
    BY <1>5, <2>4, <2>6 DEF StalenessBounded, Cached, force_refresh
<1>6. ASSUME NEW f \in Forcers, ForceEnds(f) PROVE IInv'
  BY <1>0, <1>6
  DEF TypeOK, Forcing, StalenessBounded, Cached, ForceEnds, Answer, Working, service, Constants
<1>7. CASE Stop
  BY <1>7 DEF TypeOK, Forcing, StalenessBounded, Cached, Stop, force
<1>8. ASSUME NEW r \in Readers, NEW m \in Markets, NEW k \in Keys, Read(r, m, k) PROVE IInv'
  <2>1. served' \in 0..MaxRequests
    BY <1>0, <1>8 DEF TypeOK, Read, Request, Constants
  <2>2. reads' \subseteq [by : Readers, market : Markets, key : Keys, time : 0..MaxFetch]
    BY <1>0, <1>8 DEF TypeOK, Read, Constants
  <2>3. TypeOK'
    BY <1>8, <2>1, <2>2 DEF TypeOK, Read, service, force
  <2> QED
    BY <1>8, <2>3 DEF Forcing, StalenessBounded, Cached, Read, force
<1>9. ASSUME NEW d \in reads, ReadFetched(d) PROVE IInv'
  <2>1. d.market \in Markets /\ d.key \in Keys /\ d.time \in 0..MaxFetch
    BY DEF TypeOK
  <2>2. CacheTimeout \in 1..(Interval + Buffer)
    BY <1>0 DEF Constants
  <2>3. CacheTypes' /\ StalenessBounded'
    BY <1>0, <1>9, <2>1, <2>2, CachingKeeps DEF ReadFetched
  <2>4. TypeOK'
    BY <1>9, <2>3 DEF TypeOK, ReadFetched, CacheTypes, service, force
  <2> QED
    BY <1>9, <2>3, <2>4 DEF Forcing, ReadFetched, force
<1>10. ASSUME NEW d \in reads, ReadFails(d) PROVE IInv'
  <2>1. d.market \in Markets /\ d.key \in Keys
    BY DEF TypeOK
  <2>2. Gone \in Entry
    BY <1>0 DEF Gone, Entry, MaxAge, Constants
  <2>3. /\ CacheTypes' /\ newest' = newest
        /\ \A m \in Markets, k \in Keys : cache'[m][k] = cache[m][k] \/ cache'[m][k] = Gone
    <3>1. CASE cache' = cache
      BY <1>0, <1>10, <3>1 DEF ReadFails, CacheTypes
    <3>2. CASE cache' = [cache EXCEPT ![d.market][d.key] = Gone]
      BY <1>0, <1>10, <2>1, <2>2, <3>2 DEF ReadFails, CacheTypes
    <3> QED
      BY <1>10, <3>1, <3>2 DEF ReadFails
  <2>4. TypeOK'
    BY <1>10, <2>3 DEF TypeOK, ReadFails, CacheTypes, service, force
  <2>5. StalenessBounded'
    BY <2>3 DEF StalenessBounded, Cached, Gone
  <2> QED
    BY <1>10, <2>4, <2>5 DEF Forcing, ReadFails, force
<1>11. CASE Tick
  <2>1. \A m \in Markets, k \in Keys :
           /\ cache[m][k] \in Entry /\ cache'[m][k] = Aged(cache[m][k])
           /\ newest[m][k] \in 0..MaxAge /\ newest'[m][k] = UpTo(newest[m][k], MaxAge)
           /\ cache[m][k].ttl > 0 => /\ cache[m][k].age <= newest[m][k] + MaxFetch
                                     /\ cache[m][k].age + cache[m][k].ttl <= MaxAge
    BY <1>11 DEF TypeOK, Tick, StalenessBounded, Cached
  <2>2. MaxAge \in Nat
    BY <1>0 DEF MaxAge, Constants
  <2>3. CacheTypes'
    <3>1. \A m \in Markets, k \in Keys : Aged(cache[m][k]) \in Entry
      BY <2>1, Ageing
    <3>2. \A m \in Markets, k \in Keys : UpTo(newest[m][k], MaxAge) \in 0..MaxAge
      BY <2>1, <2>2 DEF UpTo
    <3> QED
      BY <1>11, <3>1, <3>2 DEF Tick, CacheTypes
  <2>4. StalenessBounded'
    <3> SUFFICES ASSUME NEW m \in Markets, NEW k \in Keys, cache'[m][k].ttl > 0
                 PROVE  /\ cache'[m][k].age <= newest'[m][k] + MaxFetch
                        /\ cache'[m][k].age + cache'[m][k].ttl <= MaxAge
      BY DEF StalenessBounded, Cached
    <3> DEFINE e == cache[m][k]
               n == newest[m][k]
    <3>1. /\ e \in Entry /\ e.ttl > 0 /\ cache'[m][k].age = e.age + 1
          /\ cache'[m][k].age + cache'[m][k].ttl = e.age + e.ttl
      BY <2>1, Ageing
    <3>2. e.age <= n + MaxFetch /\ e.age + e.ttl <= MaxAge
      BY <2>1, <3>1
    <3>3. n \in 0..MaxAge /\ newest'[m][k] = UpTo(n, MaxAge)
      BY <2>1
    <3>4. e.age \in Nat /\ e.ttl \in Nat
      BY <3>1, <1>0, <2>2 DEF Entry, Constants
    <3>5. cache'[m][k].age <= newest'[m][k] + MaxFetch
      <4> HIDE DEF e, n
      <4>1. CASE n < MaxAge
        BY <1>0, <2>2, <3>1, <3>2, <3>3, <3>4, <4>1 DEF UpTo, Constants
      <4>2. CASE ~(n < MaxAge)
        BY <1>0, <2>2, <3>1, <3>2, <3>3, <3>4, <4>2 DEF UpTo, Constants
      <4> QED
        BY <4>1, <4>2
    <3> QED
      BY <3>1, <3>2, <3>5
  <2>5. \A e \in fetches \cup reads : e.time < MaxFetch /\ e.time \in Nat
    BY <1>0, <1>11 DEF Tick, TimeMayPass, TypeOK, Constants
  <2>6. /\ fetches' \subseteq [by : {"loop"} \cup Forcers, market : Markets, time : 0..MaxFetch]
        /\ \A d \in fetches' : \E e \in fetches :
              d.by = e.by /\ d.market = e.market /\ d.time = e.time + 1
    <3> DEFINE older(e) == [e EXCEPT !.time = e.time + 1]
    <3>1. ASSUME NEW e \in fetches
          PROVE  /\ older(e) \in [by : {"loop"} \cup Forcers, market : Markets, time : 0..MaxFetch]
                 /\ older(e).by = e.by /\ older(e).market = e.market
                 /\ older(e).time = e.time + 1
      <4>1. e \in [by : {"loop"} \cup Forcers, market : Markets, time : 0..MaxFetch]
        BY DEF TypeOK
      <4>2. e.time + 1 \in 0..MaxFetch
        BY <1>0, <2>5 DEF Constants
      <4> QED
        BY <4>1, <4>2
    <3>2. fetches' = {older(e) : e \in fetches}
      BY <1>11 DEF Tick, Older
    <3> HIDE DEF older
    <3> QED
      BY <3>1, <3>2
  <2>7. reads' \subseteq [by : Readers, market : Markets, key : Keys, time : 0..MaxFetch]
    <3>1. ASSUME NEW e \in reads
          PROVE  [e EXCEPT !.time = e.time + 1] \in
                   [by : Readers, market : Markets, key : Keys, time : 0..MaxFetch]
      <4>1. e \in [by : Readers, market : Markets, key : Keys, time : 0..MaxFetch]
        BY DEF TypeOK
      <4>2. e.time + 1 \in 0..MaxFetch
        BY <1>0, <2>5 DEF Constants
      <4> QED
        BY <4>1, <4>2
    <3> QED
      BY <1>11, <3>1 DEF Tick, Older
  <2>8. \A f \in Forcers :
           /\ asked'[f] = IF scope[f] = {} THEN 0 ELSE asked[f] + 1
           /\ scope[f] # {} => asked[f] < MaxFetch
    BY <1>11, <2>5 DEF Tick, TimeMayPass, Working, Forcing
  <2>9. asked' \in [Forcers -> 0..MaxFetch]
    BY <1>0, <1>11, <2>8, SMTT(30) DEF Tick, TypeOK, Constants
  <2>10. since' \in [Markets -> 0..Interval] /\ left' \in 0..Interval
    BY <1>0, <1>11 DEF Tick, TimeMayPass, TypeOK, UpTo, Constants
  <2>11. TypeOK'
    BY <1>11, <2>3, <2>6, <2>7, <2>9, <2>10 DEF TypeOK, Tick, CacheTypes
  <2>12. Forcing'
    <3> SUFFICES ASSUME NEW f \in Forcers
                 PROVE  /\ \A d \in fetches' : d.by = f =>
                              d.market \in scope'[f] /\ d.time = asked'[f]
                        /\ scope'[f] = {} => asked'[f] = 0
      BY DEF Forcing
    <3>1. scope' = scope
      BY <1>11 DEF Tick
    <3>2. ASSUME NEW d \in fetches', d.by = f
          PROVE  d.market \in scope[f] /\ d.time = asked'[f]
      <4>1. PICK e \in fetches : d.by = e.by /\ d.market = e.market /\ d.time = e.time + 1
        BY <2>6
      <4>2. e.market \in scope[f] /\ e.time = asked[f]
        BY <3>2, <4>1 DEF Forcing
      <4> QED
        BY <2>8, <4>1, <4>2
    <3> QED
      BY <2>8, <3>1, <3>2
  <2> QED
    BY <2>4, <2>11, <2>12
<1>12. CASE UNCHANGED vars
  BY <1>12 DEF TypeOK, Forcing, StalenessBounded, Cached, vars, service, force
<1> QED
  BY <1>1, <1>2, <1>3, <1>4, <1>5, <1>6, <1>7, <1>8, <1>9, <1>10, <1>11, <1>12, NextCases

LEMMA Invariant == Spec => []IInv
  BY InitIInv, NextIInv, PTL DEF Spec

-----------------------------------------------------------------------------
\* Every variable keeps its type; no caller waits for a refresh longer than the
\* longest fetch.
THEOREM CacheTypesKept == Spec => []TypeOK
<1>1. IInv => TypeOK
  BY DEF IInv
<1> QED
  BY <1>1, Invariant, PTL

\* However the fetches of the loop, of forced refreshes and of handlers overlap:
\* a late answer sets a key back by no more than the longest fetch.
THEOREM StaleByOneFetch == Spec => []StalenessBounded
<1>1. IInv => StalenessBounded
  BY DEF IInv
<1> QED
  BY <1>1, Invariant, PTL
-----------------------------------------------------------------------------
(* The cache is kept warm when the buffer covers two fetches.              *)

Margin == 2 * MaxFetch < Buffer

LEMMA WarmIsCached == ASSUME Margin, TypeOK, Warm PROVE KeptWarm
<1> SUFFICES ASSUME ~failed, ~forced, loop \in {"warming", "sleeping"},
                    NEW m \in Markets, NEW k \in Keys
             PROVE  cache[m][k].ttl > 0 /\ cache[m][k].age = cache[m]["tags"].age
  BY DEF KeptWarm, Cached
<1>1. WarmMarket(m) /\ "tags" \in Keys
  BY DEF Warm, Keys
<1>2. Left(m) \in Nat /\ left \in Nat
  BY <1>1, ConstantTypes DEF TypeOK, Entry, Left, Constants
<1>3. \A e \in fetches : e.time \in Nat /\ e.time <= MaxFetch
  BY ConstantTypes DEF TypeOK, Constants
<1>4. Left(m) > 0
  <2>1. CASE loop = "sleeping"
    BY <1>1, <1>2, <2>1, ConstantTypes DEF WarmMarket, Margin, Constants
  <2>2. CASE loop = "warming" /\ \E e \in fetches : e.market = m
    BY <1>1, <1>2, <1>3, <2>2, ConstantTypes DEF WarmMarket, Margin, Constants
  <2>3. CASE loop = "warming" /\ \A e \in fetches : e.market # m
    BY <1>1, <1>2, <2>3, ConstantTypes DEF WarmMarket, Margin, Constants
  <2> QED
    BY <2>1, <2>2, <2>3
<1> QED
  BY <1>1, <1>4 DEF WarmMarket, Left

LEMMA InitWarm == Init => Warm
<1> SUFFICES ASSUME Init PROVE LoopOnly /\ \A m \in Markets : WarmMarket(m)
  BY DEF Warm
<1>1. LoopOnly
  BY DEF Init, LoopOnly
<1>2. ASSUME NEW m \in Markets PROVE WarmMarket(m)
  <2>1. \E e \in fetches : e.market = m
    <3>1. [by |-> "loop", market |-> m, time |-> 0] \in fetches
      BY DEF Init
    <3> QED
      BY <3>1
  <2>2. \A k \in Keys : cache[m][k] = Gone
    BY DEF Init
  <2> QED
    BY <2>1, <2>2 DEF Init, WarmMarket, Keys
<1> QED
  BY <1>1, <1>2

LEMMA NextWarm == ASSUME Margin, IInv, Warm, [Next]_vars PROVE Warm'
<1> USE DEF IInv
<1>0. TypeOK /\ CacheTypes /\ Constants /\ KeptWarm
  BY ConstantTypes, WarmIsCached DEF TypeOK, CacheTypes
<1> SUFFICES ASSUME ~failed', ~forced'
             PROVE  LoopOnly' /\ \A m \in Markets : WarmMarket(m)'
  BY DEF Warm
<1>t. "tags" \in Keys
  BY DEF Keys
<1>1. ASSUME NEW e \in fetches, ~failed, ~forced, Preloaded(e)
      PROVE  LoopOnly' /\ \A m \in Markets : WarmMarket(m)'
  <2>1. e.market \in Markets /\ ExtendedTtl = Interval + Buffer
    BY DEF TypeOK, ExtendedTtl
  <2>2. LoopOnly /\ \A m \in Markets : WarmMarket(m)
    BY <1>1 DEF Warm
  <2>3. /\ fetches' = fetches \ {e} /\ reads' = reads /\ loop' = loop
        /\ loop # "sleeping"
    BY <1>1, <2>2 DEF Preloaded, LoopOnly, service
  <2>4. \A n \in Markets, k \in Keys : cache'[n][k] =
           IF n = e.market THEN [age |-> e.time, ttl |-> ExtendedTtl] ELSE cache[n][k]
    <3>1. cache_data(e.market, Keys, e.time, ExtendedTtl) /\ Keys \in SUBSET Keys
      BY <1>1 DEF Preloaded
    <3>2. \A n \in Markets, k \in Keys : cache'[n][k] =
             IF n = e.market /\ k \in Keys THEN [age |-> e.time, ttl |-> ExtendedTtl]
             ELSE cache[n][k]
      BY <1>0, <2>1, <3>1 DEF CacheTypes, cache_data, Stored
    <3> QED
      BY <3>2
  <2>5. ASSUME NEW n \in Markets, n = e.market PROVE WarmMarket(n)'
    <3>1. Left(n)' = Interval + Buffer
      BY <1>t, <2>1, <2>4, <2>5 DEF Left
    <3>2. \A d \in fetches' : d.time \in Nat
      BY <1>0, <2>3 DEF TypeOK, Constants
    <3>3. \A k \in Keys : cache'[n][k] = cache'[n]["tags"]
      BY <1>t, <2>4, <2>5
    <3> QED
      BY <1>0, <2>3, <3>1, <3>2, <3>3 DEF WarmMarket, Constants
  <2>6. ASSUME NEW n \in Markets, n # e.market PROVE WarmMarket(n)'
    <3>1. Left(n)' = Left(n) /\ \A k \in Keys : cache'[n][k] = cache[n][k]
      BY <1>t, <2>4, <2>6 DEF Left
    <3> QED
      BY <1>t, <2>2, <2>3, <2>6, <3>1 DEF WarmMarket
  <2> QED
    BY <2>2, <2>3, <2>5, <2>6 DEF LoopOnly
<1>2. CASE ~failed /\ ~forced /\ WarmupEnds
  <2>1. LoopOnly /\ \A m \in Markets : WarmMarket(m)
    BY <1>2 DEF Warm
  <2>2. fetches = {} /\ fetches' = {} /\ loop \in {"starting", "warming"}
    BY <1>2, <2>1 DEF WarmupEnds, WarmupOver, Working, LoopOnly
  <2>3. ASSUME NEW m \in Markets PROVE WarmMarket(m)'
    <3>1. Left(m) + MaxFetch >= Interval + Buffer /\ \A k \in Keys : cache[m][k] = cache[m]["tags"]
      BY <2>1, <2>2 DEF WarmMarket
    <3>2. since[m] \in Nat
      BY <1>0 DEF TypeOK, Constants
    <3>3. cache' = cache /\ Left(m)' = Left(m) /\ loop' = "sleeping" /\ left' = Interval
          /\ since' = since
      BY <1>2 DEF WarmupEnds, Left
    <3>4. Left(m)' + MaxFetch >= Buffer + left' /\ since'[m] + left' >= Interval
      BY <1>0, <3>1, <3>2, <3>3 DEF Constants
    <3> QED
      BY <3>1, <3>3, <3>4 DEF WarmMarket
  <2> QED
    BY <1>2, <2>1, <2>2, <2>3 DEF LoopOnly, WarmupEnds
<1>3. CASE ~failed /\ ~forced /\ Wake
  <2>1. LoopOnly /\ \A m \in Markets : WarmMarket(m)
    BY <1>3 DEF Warm
  <2>2. ASSUME NEW m \in Markets PROVE ~Fresh(m) /\ Left(m) + MaxFetch >= Buffer
    BY <1>0, <1>3, <2>1 DEF Wake, WarmMarket, Fresh, TypeOK, Constants, Left, Entry, Keys
  <2>3. fetches' = {[by |-> "loop", market |-> m, time |-> 0] : m \in Markets}
    BY <1>3, <2>1, <2>2 DEF Wake, Preload, LoopOnly
  <2>4. ASSUME NEW m \in Markets PROVE WarmMarket(m)'
    <3>1. [by |-> "loop", market |-> m, time |-> 0] \in fetches'
      BY <2>3
    <3>2. \E e \in fetches' : e.market = m
      BY <3>1
    <3>3. \A e \in fetches' : e.time = 0
      BY <2>3
    <3>4. cache' = cache /\ Left(m)' = Left(m) /\ loop' = "warming" /\ Left(m) \in Nat
      BY <1>0, <1>3 DEF Wake, Left, TypeOK, Entry, Keys, Constants
    <3>5. \A k \in Keys : cache[m][k] = cache[m]["tags"]
      BY <2>1 DEF WarmMarket
    <3> QED
      BY <1>0, <2>2, <3>2, <3>3, <3>4, <3>5 DEF WarmMarket, Constants
  <2> QED
    BY <1>3, <2>1, <2>3, <2>4 DEF Wake, LoopOnly
<1>4. ASSUME ~failed, ~forced, NEW f \in Forcers, ForceEnds(f)
      PROVE  LoopOnly' /\ \A m \in Markets : WarmMarket(m)'
  BY <1>4 DEF Warm, LoopOnly, WarmMarket, Left, ForceEnds, service
<1>5. CASE ~failed /\ ~forced /\ Stop
  BY <1>5 DEF Warm, LoopOnly, WarmMarket, Left, Stop
<1>6. CASE ~failed /\ ~forced /\ UNCHANGED vars
  BY <1>6 DEF Warm, LoopOnly, WarmMarket, Left, vars, service
<1>7. CASE ~failed /\ ~forced /\ Tick
  <2>1. LoopOnly /\ \A m \in Markets : WarmMarket(m)
    BY <1>7 DEF Warm
  <2>2. \A d \in fetches' : \E e \in fetches :
           d.market = e.market /\ d.by = e.by /\ d.time = e.time + 1
    <3>1. \A e \in fetches : e.time \in Nat /\ e \in
             [by : {"loop"} \cup Forcers, market : Markets, time : 0..MaxFetch]
      BY <1>0 DEF TypeOK, Constants
    <3> DEFINE older(e) == [e EXCEPT !.time = e.time + 1]
    <3>2. \A e \in fetches : older(e).market = e.market /\ older(e).by = e.by
                             /\ older(e).time = e.time + 1
      BY <3>1
    <3>3. fetches' = {older(e) : e \in fetches}
      BY <1>7 DEF Tick, Older
    <3> HIDE DEF older
    <3> QED
      BY <3>2, <3>3
  <2>3. \A e \in fetches : \E d \in fetches' : d.market = e.market
    <3>1. \A e \in fetches : [e EXCEPT !.time = e.time + 1].market = e.market
      BY <1>0 DEF TypeOK
    <3> QED
      BY <1>7, <3>1 DEF Tick, Older
  <2>4. reads' = {} /\ loop' = loop /\ (fetches = {} => fetches' = {})
    BY <1>7, <2>1 DEF Tick, LoopOnly, Older
  <2>5. ASSUME NEW m \in Markets PROVE WarmMarket(m)'
    <3>1. WarmMarket(m)
      BY <2>1
    <3>2. \A k \in Keys : cache'[m][k] = Aged(cache[m][k])
      BY <1>7 DEF Tick
    <3>3. \A k \in Keys : cache'[m][k] = cache'[m]["tags"]
      BY <1>t, <3>1, <3>2 DEF WarmMarket
    <3>4. Left(m) \in Nat /\ Left(m)' \in Nat /\ Left(m)' + 1 >= Left(m)
      <4>1. cache[m]["tags"] \in Entry
        BY <1>0, <1>t DEF TypeOK
      <4>2. cache[m]["tags"].ttl > 0 =>
               cache[m]["tags"].age + cache[m]["tags"].ttl <= MaxAge
        BY <1>t DEF StalenessBounded, Cached
      <4>3. /\ Aged(cache[m]["tags"]) \in Entry
            /\ Aged(cache[m]["tags"]).ttl + 1 >= cache[m]["tags"].ttl
        BY <4>1, <4>2, Ageing
      <4> QED
        BY <1>0, <1>t, <3>2, <4>1, <4>3 DEF Left, Entry, Constants
    <3>5. loop = "sleeping" => /\ Left(m)' + MaxFetch >= Buffer + left'
                               /\ since'[m] + left' >= Interval
      <4> SUFFICES ASSUME loop = "sleeping"
                   PROVE  /\ Left(m)' + MaxFetch >= Buffer + left'
                          /\ since'[m] + left' >= Interval
        OBVIOUS
      <4>1. left' = left - 1 /\ left \in Nat /\ left > 0 /\ since[m] \in Nat
            /\ since'[m] = UpTo(since[m], Interval)
        BY <1>0, <1>7 DEF Tick, TimeMayPass, TypeOK, Constants
      <4> QED
        BY <1>0, <3>1, <3>4, <4>1 DEF WarmMarket, UpTo, Constants
    <3>6. \A e \in fetches : e.time \in Nat /\ e.time + 1 <= MaxFetch
      BY <1>0, <1>7 DEF Tick, TimeMayPass, TypeOK, Constants
    <3>7. loop = "warming" =>
             \A d \in fetches' : d.market = m => Left(m)' + MaxFetch + d.time >= Buffer
      <4> SUFFICES ASSUME loop = "warming", NEW d \in fetches', d.market = m
                   PROVE  Left(m)' + MaxFetch + d.time >= Buffer
        OBVIOUS
      <4>1. PICK e \in fetches : d.market = e.market /\ d.time = e.time + 1
        BY <2>2
      <4>2. Left(m) + MaxFetch + e.time >= Buffer
        BY <3>1, <4>1 DEF WarmMarket
      <4> QED
        BY <1>0, <3>4, <3>6, <4>1, <4>2 DEF Constants
    <3>8. loop \in {"starting", "warming"} /\ (\A d \in fetches' : d.market # m) =>
             /\ Left(m)' + MaxFetch >= Interval + Buffer
             /\ \A d \in fetches' : Left(m)' + d.time >= Interval + Buffer
      <4> SUFFICES ASSUME loop \in {"starting", "warming"}, \A d \in fetches' : d.market # m
                   PROVE  /\ Left(m)' + MaxFetch >= Interval + Buffer
                          /\ \A d \in fetches' : Left(m)' + d.time >= Interval + Buffer
        OBVIOUS
      <4>1. \A e \in fetches : Left(m) + e.time >= Interval + Buffer
        BY <2>3, <3>1 DEF WarmMarket
      <4>2. PICK e \in fetches : e.by = "loop"
        BY <1>7 DEF Tick, TimeMayPass, Working
      <4>3. Left(m)' + MaxFetch >= Interval + Buffer
        BY <1>0, <3>4, <3>6, <4>1, <4>2 DEF Constants
      <4>4. ASSUME NEW d \in fetches' PROVE Left(m)' + d.time >= Interval + Buffer
        <5>1. PICK c \in fetches : d.time = c.time + 1
          BY <2>2
        <5> QED
          BY <1>0, <3>4, <3>6, <4>1, <5>1 DEF Constants
      <4> QED
        BY <4>3, <4>4
    <3> QED
      BY <2>4, <3>3, <3>5, <3>7, <3>8 DEF WarmMarket
  <2> QED
    BY <2>1, <2>2, <2>4, <2>5 DEF LoopOnly
<1>8. ASSUME NEW r, NEW m \in Markets, NEW k \in Keys, ~failed, ~forced, Read(r, m, k) PROVE FALSE
  BY <1>0, <1>8 DEF KeptWarm, Read
<1>9. ASSUME NEW d \in reads, ~failed, ~forced PROVE FALSE
  BY <1>9 DEF Warm, LoopOnly
<1>10. ASSUME NEW e \in fetches, PreloadFails(e) PROVE FALSE
  BY <1>10 DEF PreloadFails
<1>11. ASSUME NEW f \in Forcers, force_refresh(f) PROVE FALSE
  BY <1>11 DEF force_refresh
<1>12. ASSUME NEW d \in reads, ReadFails(d) PROVE FALSE
  BY <1>12 DEF ReadFails
<1>13. ~failed /\ ~forced
  <2>1. (failed' = failed /\ forced' = forced) \/ failed' = TRUE \/ forced' = TRUE
    <3>1. ASSUME NEW e \in fetches, Preloaded(e) \/ PreloadFails(e)
          PROVE  (failed' = failed /\ forced' = forced) \/ failed' = TRUE
      BY <3>1 DEF Preloaded, PreloadFails, force
    <3>2. ASSUME NEW f \in Forcers, force_refresh(f) \/ ForceEnds(f)
          PROVE  (failed' = failed /\ forced' = forced) \/ forced' = TRUE
      BY <3>2 DEF force_refresh, ForceEnds
    <3>3. ASSUME NEW d \in reads, ReadFetched(d) \/ ReadFails(d)
          PROVE  (failed' = failed /\ forced' = forced) \/ failed' = TRUE
      BY <3>3 DEF ReadFetched, ReadFails, force
    <3>4. ASSUME NEW r, NEW m, NEW k, Read(r, m, k) PROVE failed' = failed /\ forced' = forced
      BY <3>4 DEF Read, force
    <3>5. ASSUME WarmupEnds \/ Wake \/ Tick \/ Stop \/ UNCHANGED vars
          PROVE  failed' = failed /\ forced' = forced
      BY <3>5 DEF WarmupEnds, Wake, Tick, Stop, vars, force
    <3> QED
      BY <3>1, <3>2, <3>3, <3>4, <3>5, NextCases
  <2> QED
    BY <1>0, <2>1 DEF TypeOK
<1> QED
  BY <1>1, <1>2, <1>3, <1>4, <1>5, <1>6, <1>7, <1>8, <1>9, <1>10, <1>11, <1>12, <1>13,
     NextCases

\* When the buffer covers two of the slowest fetches, no reader ever misses unless
\* a market has failed or a refresh was forced.
THEOREM StaysWarm == Margin /\ Spec => []KeptWarm
<1>1. Init => Warm
  BY InitWarm
<1>2. Margin /\ IInv /\ Warm /\ [Next]_vars => Warm'
  BY NextWarm
<1>3. Margin /\ IInv /\ Warm => KeptWarm
  BY WarmIsCached DEF IInv
<1>4. Margin => []Margin
  <2>1. Margin => Margin'
    BY DEF Margin
  <2> QED
    BY <2>1, PTL
<1> QED
  BY <1>1, <1>2, <1>3, <1>4, Invariant, PTL DEF Spec
=============================================================================
