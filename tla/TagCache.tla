------------------------------ MODULE TagCache ------------------------------
(***************************************************************************)
(* The cache of the markets' tags: BackgroundCacheService, which preloads  *)
(* it at the start and then every refresh interval; the forced refresh of  *)
(* POST /cache/refresh; and the tag handlers, which read the cache and     *)
(* fill it themselves when they miss.  All of them fetch from the market,  *)
(* suspended, while the others go on.                                      *)
(*                                                                         *)
(* Time passes in ticks.  What the loop does without waiting for a market  *)
(* or a timer takes no time: no tick passes while it is due.               *)
(***************************************************************************)
EXTENDS Integers

CONSTANTS
    Markets,       \* cache_warmup_markets
    Groups,        \* GROUPS, those that the markets have tags in
    Forcers,       \* callers of POST /cache/refresh
    Readers,       \* callers of the tag handlers
    Interval,      \* refresh_interval
    Buffer,        \* what extended_ttl adds to it
    CacheTimeout,  \* CACHE_TIMEOUT, the ttl of what a handler caches
    MaxFetch,      \* HF_API_TIMEOUT, KAGGLE_TIMEOUT: the longest fetch
    MaxRequests    \* bound on forced refreshes and missed reads, together

Keys == {"tags"} \cup Groups

ASSUME CacheAssumption ==
    /\ "loop" \notin Forcers /\ "tags" \notin Groups
    /\ Interval \in Nat \ {0} /\ Buffer \in Nat /\ CacheTimeout \in Nat \ {0}
    /\ MaxFetch \in Nat /\ MaxRequests \in Nat
    /\ CacheTimeout <= Interval + Buffer

VARIABLES
    cache,    \* what is cached under each key of each market
    since,    \* last_refresh: the time since then, up to Interval
    fetches,  \* fetches of _preload_market_tags that are under way
    reads,    \* fetches of the tag handlers
    served,   \* how many requests have come in, up to MaxRequests
    loop,     \* where BackgroundCacheService is
    left,     \* what is left of the loop's sleep
    scope,    \* the markets that a forced refresh is at work on
    asked,    \* the time since it was asked for
    reply,    \* what its caller was told
    newest,   \* history: the age of the youngest data ever cached under a key
    failed,   \* history: a fetch has failed
    forced    \* history: a refresh was forced

force   == <<scope, asked, reply, forced>>
service == <<loop, left>>
vars    == <<cache, since, fetches, reads, served, service, force, newest, failed>>

-----------------------------------------------------------------------------
(* The cache.  An entry is the age of its data, from the start of the      *)
(* fetch, and the time it has left.  Empty data is as good as none: every  *)
(* reader takes it for a miss.                                             *)

MaxAge == Interval + Buffer + MaxFetch

Entry == [age : 0..MaxAge, ttl : 0..(Interval + Buffer)]

Gone == [age |-> 0, ttl |-> 0]

Cached(m, k) == cache[m][k].ttl > 0

\* Mutant of Aged: entries do not expire.
AgedForEver(e) == [age |-> e.age + 1, ttl |-> e.ttl - 1]

\* An entry one tick later.
Aged(e) == IF e.ttl <= 1 THEN Gone ELSE [age |-> e.age + 1, ttl |-> e.ttl - 1]

UpTo(n, bound) == IF n < bound THEN n + 1 ELSE bound

\* Mutant of Stored: what is cached is not replaced.
StoredOnce(m, k, age, ttl) ==
    IF Cached(m, k) THEN cache[m][k] ELSE [age |-> age, ttl |-> ttl]

Stored(m, k, age, ttl) == [age |-> age, ttl |-> ttl]

\* cache_data, under the keys K of a market.
cache_data(m, K, age, ttl) ==
    /\ cache' = [cache EXCEPT ![m] =
          [k \in Keys |-> IF k \in K THEN Stored(m, k, age, ttl) ELSE cache[m][k]]]
    /\ newest' = [newest EXCEPT ![m] =
          [k \in Keys |-> IF k \in K /\ age < newest[m][k] THEN age ELSE newest[m][k]]]

-----------------------------------------------------------------------------
(* _preload_market_tags.                                                   *)

Fresh(m) == Cached(m, "tags") /\ since[m] < Interval

\* Fetches are started for the markets of S that are not fresh.
Preload(p, S) ==
    fetches' = fetches \cup {[by |-> p, market |-> m, time |-> 0] : m \in {n \in S : ~Fresh(n)}}

\* Mutant of ExtendedTtl: no buffer.
PlainTtl == Interval

ExtendedTtl == Interval + Buffer

Preloaded(f) ==
    /\ cache_data(f.market, Keys, f.time, ExtendedTtl)
    /\ since' = [since EXCEPT ![f.market] = 0]
    /\ fetches' = fetches \ {f}
    /\ UNCHANGED <<reads, served, service, force, failed>>

Answer(f, a) ==
    /\ reply' = [reply EXCEPT ![f] = a]
    /\ scope' = [scope EXCEPT ![f] = {}]
    /\ asked' = [asked EXCEPT ![f] = 0]

\* The market fails.  The caller of a forced refresh of one market is told so
\* when get_tags raises, but not when it returns nothing.
PreloadFails(f) ==
    /\ fetches' = fetches \ {f}
    /\ failed' = TRUE
    /\ \/ UNCHANGED <<scope, asked, reply>>
       \/ f.by \in Forcers /\ scope[f.by] = {f.market} /\ Answer(f.by, "error")
    /\ UNCHANGED <<cache, since, reads, served, service, forced, newest>>

Working(p) == \E f \in fetches : f.by = p

-----------------------------------------------------------------------------
(* BackgroundCacheService.                                                 *)

\* Mutant of WarmupOver: a market that fails fails the warmup.
WarmupUnfailed == ~Working("loop") /\ ~failed

WarmupOver == ~Working("loop")

\* warmup_cache returns; start creates the loop, or the loop goes to sleep.
WarmupEnds ==
    /\ loop \in {"starting", "warming"} /\ WarmupOver
    /\ loop' = "sleeping" /\ left' = Interval
    /\ UNCHANGED <<cache, since, fetches, reads, served, force, newest, failed>>

Wake ==
    /\ loop = "sleeping" /\ left = 0
    /\ loop' = "warming"
    /\ Preload("loop", Markets)
    /\ UNCHANGED <<cache, since, reads, served, left, force, newest, failed>>

Request == served < MaxRequests /\ served' = served + 1

\* Of one market or of all.
force_refresh(f) ==
    /\ Request
    /\ loop \in {"warming", "sleeping"} /\ scope[f] = {}
    /\ \E S \in {{m} : m \in Markets} \cup {Markets} :
          /\ Preload(f, S)
          /\ scope' = [scope EXCEPT ![f] = S]
    /\ reply' = [reply EXCEPT ![f] = "none"]
    /\ forced' = TRUE
    /\ UNCHANGED <<cache, since, reads, service, asked, newest, failed>>

ForceEnds(f) ==
    /\ scope[f] # {} /\ ~Working(f)
    /\ Answer(f, "ok")
    /\ UNCHANGED <<cache, since, fetches, reads, served, service, forced, newest, failed>>

\* Shutdown, when all requests are over: the loop's task is cancelled, and with
\* it the tasks it waits for.
Stop ==
    /\ loop \in {"warming", "sleeping"}
    /\ reads = {} /\ \A f \in Forcers : scope[f] = {}
    /\ loop' = "stopped"
    /\ fetches' = {}
    /\ UNCHANGED <<cache, since, reads, served, left, force, newest, failed>>

-----------------------------------------------------------------------------
(* api_tags and, for a group, api_tags_group and api_tags_group_all.       *)

\* A miss.  A hit changes nothing.
Read(r, m, k) ==
    /\ Request
    /\ loop \in {"warming", "sleeping"}
    /\ ~Cached(m, k) /\ \A d \in reads : d.by # r
    /\ reads' = reads \cup {[by |-> r, market |-> m, key |-> k, time |-> 0]}
    /\ UNCHANGED <<cache, since, fetches, service, force, newest, failed>>

ReadFetched(d) ==
    /\ cache_data(d.market, {d.key}, d.time, CacheTimeout)
    /\ reads' = reads \ {d}
    /\ UNCHANGED <<since, fetches, served, service, force, failed>>

\* When the market returns nothing a group's handler caches an empty list,
\* whatever has been cached under its key in the meantime.
ReadFails(d) ==
    /\ reads' = reads \ {d}
    /\ failed' = TRUE
    /\ \/ UNCHANGED cache
       \/ d.key \in Groups /\ cache' = [cache EXCEPT ![d.market][d.key] = Gone]
    /\ UNCHANGED <<since, fetches, served, service, force, newest>>

-----------------------------------------------------------------------------
(* Time.                                                                   *)

Older(S) == {[f EXCEPT !.time = f.time + 1] : f \in S}

\* No timeout is due, the loop need not wake and no caller waits for nothing.
TimeMayPass ==
    /\ \A f \in fetches \cup reads : f.time < MaxFetch
    /\ loop = "sleeping" => left > 0
    /\ loop \in {"starting", "warming"} => Working("loop")
    /\ \A f \in Forcers : scope[f] # {} => Working(f)

Tick ==
    /\ loop # "stopped" /\ TimeMayPass
    /\ cache' = [m \in Markets |-> [k \in Keys |-> Aged(cache[m][k])]]
    /\ newest' = [m \in Markets |-> [k \in Keys |-> UpTo(newest[m][k], MaxAge)]]
    /\ since' = [m \in Markets |-> UpTo(since[m], Interval)]
    /\ fetches' = Older(fetches)
    /\ reads' = Older(reads)
    /\ left' = IF loop = "sleeping" THEN left - 1 ELSE left
    /\ asked' = [f \in Forcers |-> IF scope[f] = {} THEN 0 ELSE asked[f] + 1]
    /\ UNCHANGED <<served, loop, scope, reply, forced, failed>>

-----------------------------------------------------------------------------
\* start: the first warmup has begun; no request is served until it is over.
Init ==
    /\ cache = [m \in Markets |-> [k \in Keys |-> Gone]]
    /\ since = [m \in Markets |-> Interval]
    /\ fetches = {[by |-> "loop", market |-> m, time |-> 0] : m \in Markets}
    /\ reads = {} /\ served = 0
    /\ loop = "starting"
    /\ left = 0
    /\ scope = [f \in Forcers |-> {}]
    /\ asked = [f \in Forcers |-> 0]
    /\ reply = [f \in Forcers |-> "none"]
    /\ newest = [m \in Markets |-> [k \in Keys |-> MaxAge]]
    /\ failed = FALSE
    /\ forced = FALSE

PreloadEnds(p, m) ==
    \E f \in fetches : f.by = p /\ f.market = m /\ (Preloaded(f) \/ PreloadFails(f))

ReadEnds(r) == \E d \in reads : d.by = r /\ (ReadFetched(d) \/ ReadFails(d))

Stopped == loop = "stopped" /\ UNCHANGED vars

Next ==
    \/ WarmupEnds \/ Wake
    \/ \E p \in {"loop"} \cup Forcers, m \in Markets : PreloadEnds(p, m)
    \/ \E f \in Forcers : force_refresh(f) \/ ForceEnds(f)
    \/ \E r \in Readers : ReadEnds(r)
    \/ \E r \in Readers, m \in Markets, k \in Keys : Read(r, m, k)
    \/ Tick
    \/ Stop \/ Stopped

Spec == Init /\ [][Next]_vars

\* Time passes, however many requests come in between, and every timer and
\* timeout that is due is served.
FairSpec ==
    /\ Spec
    /\ SF_vars(Tick)
    /\ WF_vars(WarmupEnds \/ Wake)
    /\ \A p \in {"loop"} \cup Forcers, m \in Markets : WF_vars(PreloadEnds(p, m))
    /\ \A f \in Forcers : WF_vars(ForceEnds(f))
    /\ \A r \in Readers : WF_vars(ReadEnds(r))

-----------------------------------------------------------------------------
TypeOK ==
    /\ cache \in [Markets -> [Keys -> Entry]]
    /\ since \in [Markets -> 0..Interval]
    /\ fetches \subseteq [by : {"loop"} \cup Forcers, market : Markets, time : 0..MaxFetch]
    /\ reads \subseteq [by : Readers, market : Markets, key : Keys, time : 0..MaxFetch]
    /\ served \in 0..MaxRequests
    /\ loop \in {"starting", "warming", "sleeping", "stopped"}
    /\ left \in 0..Interval
    /\ scope \in [Forcers -> SUBSET Markets]
    /\ asked \in [Forcers -> 0..MaxFetch]
    /\ reply \in [Forcers -> {"none", "ok", "error"}]
    /\ newest \in [Markets -> [Keys -> 0..MaxAge]]
    /\ failed \in BOOLEAN
    /\ forced \in BOOLEAN

\* Unless a market has failed or a refresh was forced, no reader ever misses:
\* every entry is replaced before it expires, although a warmup waits for the
\* slowest market, and the entries of a market are always of one fetch.
KeptWarm ==
    ~failed /\ ~forced /\ loop \in {"warming", "sleeping"} =>
        \A m \in Markets, k \in Keys :
            Cached(m, k) /\ cache[m][k].age = cache[m]["tags"].age

\* Late answers overwrite newer data, but never set a key back by more than the
\* longest fetch; and no data outlives its ttl, counted from its fetch.
StalenessBounded ==
    \A m \in Markets, k \in Keys : Cached(m, k) =>
        /\ cache[m][k].age <= newest[m][k] + MaxFetch
        /\ cache[m][k].age + cache[m][k].ttl <= MaxAge

\* Whatever markets and callers do, the service warms the cache again and again
\* until it is stopped.
WarmsForEver == []<>(loop \in {"warming", "stopped"})

-----------------------------------------------------------------------------
(* What the API says and the code does not do.                             *)

\* "캐시를 즉시 새로고침합니다": when a forced refresh is answered with success,
\* the tags of its markets are not older than the request.
ForceRefreshes ==
    [][\A f \in Forcers : scope[f] # {} /\ reply'[f] = "ok" =>
          \A m \in scope[f] : Cached(m, "tags") /\ cache[m]["tags"].age <= asked[f]]_vars
=============================================================================
