# Hub Connect in TLA+

Hub Connect is a FastAPI service in front of S3-compatible storage (AWS or Ceph)
and of two model markets (HuggingFace, Kaggle).  It runs as one asyncio loop with a
thread pool (`run.py`; `reload=True`, so one worker), and almost everything it
knows lives in that process: the S3 bucket is the only durable state it relies on
for its own work, Redis is optional.  This directory holds TLA+ models of the parts
where the order of events decides whether data is lost, the runs that check them
with TLC, and proofs of the main results checked by TLAPS.

    cd tla
    tlc -workers 2 -config uploads.cfg MCUploadScenes           # a run
    tlapm ObjectUpload_proofs.tla                               # a proof module

`PROJECT.json` lists the runs, the mutants that show each property can fail, the
lines of the source behind every definition, the theorems, the findings and the
hazards.  Paths below are relative to `src/app`;
ASS is `services/async_storage_service.py`.

## Inventory

| Component | State | Operations | Interacts with | What is hard | What makes it correct |
| --- | --- | --- | --- | --- | --- |
| **Upload pipeline** `services/async_storage_service.py` (225-509), `services/upload_tracker.py`, `api/storage.py` | tasks of the parts, collected parts, read position; tracker records; S3 object and multipart upload | upload of an API file, upload of a local file, progress, cancel | S3; tracker; tus completion | parts finish in any order; a failure while others are in flight; S3 executes a call whose answer is lost; two uploads on one key; the process ends | objects are whole; nothing is left in S3 unless a named failure happened; the record tells the truth; every upload ends |
| **Folder and object operations** (598-825) | listing so far, copies in flight, keys to delete | create, delete, rename, copy a folder; delete, rename, copy a file | S3; the timeout middleware | none is atomic; requests overlap; pages, batches; `gather` raises while copies go on; 504 and retry | nothing is lost; deletions only after the copies; only the named paths change; nothing is overlooked |
| **Tag cache** `services/background_cache.py`, `services/caching.py`, `api/tags.py` | entries with a time to live, `last_refresh`, the loop's timer | preload, periodic refresh, forced refresh, reads that fill, stop | markets, main's lifespan | three writers of one key, all suspended while they fetch; two clocks (entry and loop) | the cache stays warm; staleness is bounded; the loop goes on |
| **Request timeout** `main.py` 83-123 | - | 504 after 300 s | every handler except uploads and downloads | the operation goes on after its caller was told 504, and may be tried again meanwhile | what was begun leaves no loss |
| **Listing, download, statistics** ASS 129-223, 544-596, 756-787 | - | tree, stream, totals | S3 | objects come and go between the pages | what stays is shown and counted once |
| **Bucket lifecycle** ASS 79-127, 827-934 | - | create, delete with contents | S3 | look-then-create; empty-then-delete against uploads | no success for a bucket that is not there |
| **Redis service** `services/redis_service.py` | pool, `is_connected`, `is_available`, retries | initialize, get_client, ping, close | tus | reconnection inside a context manager | its flags are true; it delays neither the start nor a request for ever |
| **Resumable uploads** `api/tus.py`, `services/tus_service.py` | Redis record, local file | completion handler, info | upload pipeline, Redis | several steps, each may fail | record and object agree, the local file goes |
| **Service manager, lifespan** `services/async_service_manager.py`, `main.py` 28-69 | `_initialized`, services | initialize, cleanup, lazy getters | all services | two first requests; cleanup during initialisation | one client, closed once |
| **Circuit breaker** `utils/circuit_breaker.py` | state, failure count, last failure | call | nobody calls it | concurrent probes | opens at the threshold, closes after a success |
| **Rate limit** `middleware/rate_limit.py` | count and window per client | is_rate_limited, cleanup | every request | window edges | limit per window |
| **Kaggle adapter** `services/markets/kaggle` | client, internal session and token, temporary directories | lists, tags, downloads | Kaggle | page tokens, stale sessions, threads that outlive their timeout | pages neither overlap nor repeat; temporary files go |
| **HuggingFace adapter** `services/markets/huggingface` | HTTP client | search, tags, downloads | HuggingFace | cursor pagination by page number | as above |
| **Models, datasets, auth APIs, helpers, configuration, logging** | - | thin handlers, conversions, token checks | the adapters | - | - |

Calls go from handlers to a service to S3 or a market.  Shared state is the tracker
(written by uploads and by the cancel handler), the cache (written by three kinds
of coroutine), the bucket (everybody), the service manager and Redis (the lifespan and every
request), and Kaggle's client and session (the threads of the pool).  There are no
callbacks between services except the tus completion handler.

## Plan

The most valuable first.  Each module is written so that it can be proved about:
constants with assumptions, one action per stretch of code between two suspensions,
invariants as conjunctions of named parts, no recursive operators.

1. `ObjectUpload`, implementing `AtomicUpload` - done, proved.
2. `FolderOps` - done, proved.
3. `TagCache` - done, proved.
4. `Application`, made of `ServiceManager` and `RedisService`, with the lifespan, the
   completion handler of resumable uploads and the health check - done, proved.
5. `Buckets`: create, delete, details, statistics, tree and download against a bucket that
   changes - done, proved.
6. `MarketPages`, `MarketDownloads`, `KaggleSession`, `RateLimit` - done, proved.

"Proved" means every invariant and every action property that a run checks, and the
refinement; the liveness properties stay with TLC.  What could still be added: the named
exceptions of `TempDirs` and `OpenHasOwner` as action properties (which step creates them), and
details and tags of the markets, should they come to keep something between two calls.

## The models

### ObjectUpload, AtomicUpload

One coroutine per element of `Uploads`; `Tracked` ones are `upload_file`, the others
`upload_file_from_path`.  `pc` says at which `await` the coroutine is suspended and
an action is the code up to the next `await`.

| Model | Code |
| --- | --- |
| `active`, `good`, `bad` | `pending_tasks`: in flight, returned, raised |
| `results`, `uploaded`, `partNumber`, `pos` | `parts_results`, `uploaded_size`, `part_number`, what `file.read` has returned |
| `ReadChunk`, `ReadEnd`, `CollectReading`, `CollectDraining`, `CollectRaises` | the read loop (317-338) and the drain loop (340) |
| `Unwind`, `Unwound`, `Aborted`, `AbortFails` | the except clause: cancel the tasks, wait for them, abort |
| `Call`, `S3Apply`, `Answered`/`Written`/`WriteFails` | a call is sent, S3 executes it, its answer arrives or not: three separate steps |
| `late`, `S3Late` | a request that its sender gave up (read timeout) and S3 executes afterwards |
| `Retry` | botocore gives a request up and sends the call again (`retries`, ASS 25); `orphans` are the uploads for which S3 so created a second multipart upload, whose id nobody was told |
| `tracker` and its four operations | `UploadTracker`; the lock is never held across an `await`, so a call is atomic |
| `cancel_upload` | `DELETE /uploads/{id}` |
| `ProcessExit` | the end of the process: all coroutines die, the tracker is empty again |

`AtomicUpload` is what a caller may rely on: the object appears in one step, success is
told only after that, an aborted upload writes nothing, and an upload writes once more after its answer
only if a request to put it was given up and sent again.  The refinement maps the
writer of each key's object to `current`, aborted multipart uploads to `withdrawn`, and the puts that S3
may still execute to `again`.

### FolderOps

A key is the sequence of its path's names, so "starts with the path and a slash" is a
comparison of sequences.  A request lists page by page (`plan`), copies concurrently
under a semaphore (`todo`, `InFlight`), deletes in batches (`left`).  Any other
request may run between two steps.  `TimesOut` is the middleware's 504: it answers
the caller, and the application's task goes on.  `CopyFails` is the
`gather` that raises while the other copies go on (they stay in `todo`).
`Workloads` is a constant: the sets of requests that are made.  Since no prefix ends within a name, what a missing slash at the
end of a prefix would do cannot be said here; `StaysInScope` is about the paths.

### TagCache

Timers are countdowns, ages count up, and `Tick` moves them all.  What the loop does
without waiting is due before time passes.  An entry is the age of its data (from
the start of the fetch) and what is left of its time to live.  Empty data is `Gone`:
every reader takes it for a miss.  `Groups` are the groups that the markets have tags
in; the others (most of Kaggle's, which are empty lists) are a miss at every read.

| Model | Code |
| --- | --- |
| `Preload`, `Preloaded`, `PreloadFails` | `_preload_market_tags`: fresh or fetch; store; raise or nothing |
| `Wake`, `WarmupEnds`, `Stop` | `_background_refresh_loop`, `start`, `stop` |
| `force_refresh`, `ForceEnds` | `BackgroundCacheService.force_refresh` and `POST /cache/refresh` |
| `Read`, `ReadFetched`, `ReadFails` | the three handlers of `api/tags.py` |

### Application, ServiceManager, RedisService

The tasks of a worker process (`AppTasks`): the lifespan, and one per request.  A task is
somewhere in `AsyncServiceManager` (`manager`) and somewhere in `RedisService` (`redis`),
and an action is again the code between two suspensions.  `hosted` is whether a
server runs the lifespan; tests call the app without one, and then the first request
initialises the manager (`async_service_manager.py` 161-180).  `configured` is whether Redis is: resumable
uploads are served only then (`api/tus.py` 122).

`pool` is the connection pool in place: whose attempt made it, and whether its ping has answered.  An attempt
puts its pool in the place of the last one, which nobody disconnects, and pings its own, so that with two
tasks the ping that answers may be that of a pool no longer in place (`PingsPool`).  `stray` remembers that a
pool which answered was so left behind.

| Model | Code |
| --- | --- |
| `initialize_services`, `Opened`, `OpenFails` | `AsyncServiceManager.initialize` up to its await, and after it; a failure cleans up |
| `cleanup`, `StorageClosed`, `HfClosed`, `CloseFails` | `cleanup`, which closes nothing unless `_initialized` |
| `initialize`, `Connect`, `PingFails`, `SleepEnds` | `RedisService.initialize`: an attempt, its ping, the pause before the next |
| `get_client`, `CallEnds`, `ConnectionLost` | `get_client` up to its yield, the body, and the reconnection of its except clause |
| `Startup`, `ManagerUp`, `RedisSettled`, `Shutdown`, `RedisClosed` | `lifespan` |
| `Arrive`, `Got`, `StorageAnswers`, `UploadUnfound`, `UploadFails`, `UploadStored` | a storage request or a completed upload, from `get_storage_service` to its end |
| `CheckHealth`, `RedisTold`, `StorageTold` | `health_check` |

`UploadStored` ends where the code raises: what follows that line of
`handle_upload_complete` never runs, and is not modelled.

### Buckets

A request is at one S3 call (`call[c].at`), and the bucket changes before the next through
other requests and other users.  Objects are numbered in S3's order; a listing remembers the key
it has reached and takes a page of what comes after it.  `stayed`, `seen` and
`was` are histories: what was there throughout the request, at some moment of it, and whether the
bucket was.  An answer is judged against them, since no single moment explains a listing of
several pages.  A call that changes the store may be executed and its answer lost (`AnswerLost`): botocore repeats it, or
the handler raises.  A level of a tree is read in pages of files and folders until as many files are read as may be
(`MaxItems`, which botocore applies to `Contents`); the files of the page it stops in are cut down to that number, the
folders are not.

### MarketPages

One client asks for pages of one listing.  A page of the client is a slice that is put
together from upstream pages of another size (HuggingFace models and datasets, Kaggle datasets), reached by
walking along tokens (Kaggle models), or cut from all items up to it (the fallback).  The files of a
model or a dataset are asked for as a whole: Kaggle's by tokens, in the SDK from a first page of another
size, HuggingFace's in one call.
`_paginated_total` is the code's function of the same name.  An item is a number; `catalog` is the
upstream listing, which may change between two fetches.

### MarketDownloads

A request's blocking call is queued, runs, and ends, in a pool of `Workers` threads (`work`).  The
request waits with a time limit; when that is over, a queued call is dropped and one that
runs goes on (`WorkEndsLate`), and may make the temporary directory again that was removed
with the request.  `dir` is that directory; a file is downloaded to it also for a client that names a directory of
its own, and copied from there.  A response that is refused for its range, breaks off or is cancelled ends without its background
task (`Unsent`), and the directory stays.  HuggingFace has a cache instead: a dataset is tried without a
token and then with one, a file of a model with one only.

### KaggleSession

Threads call `_post_list_models` (two attempts, the second with a new session) and
`get_kaggle_client`.  A session is its number, so that a thread that posts with a session somebody else has
replaced is told apart.  The lock is held while a session is built and while it is dropped,
not while a request is posted.

### RateLimit

One action, `dispatch`, is the middleware's handling of a request up to the limit; `Cleaned` is the cleanup that
it may do first.  Time is `time.time()`, which in the model does not go back.

## The runs

| Run | Checks | Bounds |
| --- | --- | --- |
| `uploads` | types; `ObjectsWhole`, `PartsReceived`, `BoundedConcurrency`, `NoStrayTasks`, `OpenHasOwner`, `TrackerTruth`, `ProgressWithinTotal`, `ImplementsAtomicUpload`, `Terminates` | five scenes on one key, parts of 10 MB, three part tasks at once: 40 MB by the API (four full parts), with three faults; with 5 MB by the API put whole, and one fault; with 12 MB of a local file (two parts), and none; two local files of 12 MB, and two faults; 5 MB by the API and 12 MB of a local file, and two faults; fairness |
| `upload_cancel_stops` (violation) | `CancelStops` | one upload, no fault |
| `upload_parts_completed` (violation) | `PartsCompletedIsCount` | one upload of three parts, no fault |
| `folder_ops` | types; `NothingLost`, `CopiesBeforeDeletes`, `NothingOverlooked`, `StaysInScope`, `Settles` | four workloads of three requests, three files, pages of one key, batches of two, two copies at once, one fault |
| `folder_rename_nested` (violation) | `RenameMoves` | one request, no fault |
| `folder_delete_errors` (violation) | `DeleteEmpties` | one request, one fault |
| `tag_cache` | types; `KeptWarm`, `StalenessBounded`, `WarmsForEver` | two markets, interval 4, buffer 3, fetches of up to 1 tick, two forced refreshes or misses, any number of market failures, fairness |
| `tag_cache_force` (violation) | `ForceRefreshes` | two markets, one caller |
| `services` | types; `ServingClient`, `Released`, `AvailabilityTold`, `StartsAndAnswers` of the application; `AnswersHonest`, `EmptiesWhatStayed`, `CountedOnce`, `TreeComplete`, `CallsEnd` of a bucket | two requests, two storage services, two attempts at Redis, which may fail at any ping or call; four objects, one of them in a folder, pages of two entries, levels of two files, one change by others or lost answer, fairness |
| `market_requests` | types; `PageExact`, `WalkComplete`, `ListingsEnd` of the listings; `TempDirs`, `CallsAnswered` of the downloads; `BuiltOnce` of the session; `Throttled` of the rate limit | listings of up to five items, upstream pages of three and two, client's pages of one, two and four, a cap of four, one change; two downloads, one thread; two threads and three failures; two clients, two calls in a period, at most five requests of a client let through, a cleanup at every third request, fairness |
| `tus_cleanup` (violation) | `CleanedUp` | two requests |
| `redis_reconnect` (violation) | `Reconnects` | two requests, two attempts at Redis |

`MCUploadScenes` has one module, and a behaviour is one of its scenes: the uploads it has, and how many failures.
`MCServices` and `MCMarkets` each instantiate several modules that share no state.  A
variable, `subject`, says which of them a behaviour is about; the others stay in a state
they start in.  The states of such a run are those of its parts, added and not multiplied, and
each property is about one part, as if it had a run of its own.

*Why the bounds are enough.*  Four parts with three at once is the smallest upload in
which the read loop fills up, waits for room, collects, reads on and leaves more than one part to the
drain loop (with two at once the drain loop never goes round); 40 MB are a multiple of the part size, so that the last read is empty.
Three faults let a part fail while others are in flight, the abort be sent again and then fail.  The other uploads share the
key: 5 MB are exactly the threshold, put whole by the API, and two files of two parts may both fail and both complete.  In
`folder_ops`, pages of one key put a page boundary between any two keys, so that every
other request can come in between; a folder of three keys takes two batches.  In `tag_cache` two
markets are needed so that a slow one can delay the refresh of the other; two
requests are needed so that a late reader can overwrite a forced refresh.
Two requests in `services` are two tasks that reconnect Redis at once, or that
initialise the manager at once, besides the lifespan; two attempts are a first and a last.  Four objects
are two pages, and a third when others write; with one of them in a folder, the first page of a level has one file
too few, and the second is cut in the middle.  In `market_requests`, three, two, one and four are
page sizes that divide each other, that do not, and that are smaller and larger than the
upstream's; five items fill some pages and not others; with one thread in the pool, one call that hangs
keeps the other in the queue; two threads and three failures let one drop the session that the other
has just built.
The ratio of the timers is the code's in what matters: a buffer of 300 s against two
fetches of at most 30 s is `2 * MaxFetch < Buffer`.

*Deadlock* is checked in the runs of the uploads, the folders and the cache, where final
states loop explicitly.  The runs of `Application`, `Buckets` and the markets do not check it: there the requests end and
nothing is left to do.  That they end is `StartsAndAnswers`, `CallsEnd`, `ListingsEnd` and `CallsAnswered`.

*Fairness.*  `ObjectUpload`: while some upload can take a step, one does, since the loop runs whatever is ready and
botocore's `read_timeout` (60 s) ends every request; that is enough for `Terminates`, because an upload has
finitely many steps and failures are bounded.  `FolderOps`: weak fairness of each coroutine's own
steps, for the same reason.  Nothing is assumed of S3 itself or of users.
`TagCache`: timers that are due are served, and every fetch ends since both adapters
wrap it in `wait_for`; time passes however many requests come in between.
`services`: the event loop resumes each task that is ready, and a ping, a pause and an S3 call end one
way or another (the Redis client's socket timeouts, botocore's `read_timeout`); that Redis ever answers is
not assumed.  `market_requests`: a fetch ends and a time limit runs out, both by `wait_for`;
a thread of the pool need never end.

`CallsEnd` is about a bucket that others leave alone after a while (`MaxWrites`): the paginators have no limit of their own, and
keys that keep coming ahead of a listing could prolong it.  What it shows is that no request goes round for ever
by itself, a deletion also when S3 never deletes the keys that it lists.

## What the runs show

Seven findings, each the counterexample of a run marked as a violation:

* `upload_cancel_stops`: cancelling an upload only changes its record.  The upload goes
  on, its object appears and the record becomes completed.
* `upload_parts_completed`: `parts_completed` is the number of the part that was
  collected last, not a count.
* `folder_rename_nested`: renaming a folder to one inside it loses a file although
  nobody interferes and nothing fails.
* `folder_delete_errors`: errors listed in the answer of `delete_objects` are ignored.
* `tag_cache_force`: a forced refresh of a fresh cache fetches nothing and says it did.
* `tus_cleanup`: the completion handler of a resumable upload passes a coroutine that nobody awaits where a
  Redis service is expected.  The object is in S3; then the handler raises, before the record is written
  and before the local file is removed.
* `redis_reconnect`: the docstring of `get_client` promises automatic reconnection.  It reconnects when a call
  fails, but once Redis is marked unavailable it raises before it comes to that (`redis_service.py` 114), so
  nothing brings a configured Redis back until the process restarts.

Read in the code and not the subject of a run:

* `total_parts` is one more than the parts that are sent when the size is a multiple of
  the part size (the formula at ASS 242 adds one, the loop stops at the empty read).
* When `create_multipart_upload` itself fails, the except clause uses `pending_tasks`
  before its assignment (ASS 374 and 317): the request fails with another error.
* A presign that fails after the object was stored is answered with 500
  (ASS 364-373); `OpenHasOwner` and `TrackerTruth` allow for it.
* `except Exception` does not catch a cancellation, so a cancelled coroutine aborts nothing.
* The tracker's own `cancel_upload` and `cleanup_old_uploads` are never called.
* An upload to a key that a renaming has listed can be deleted with the old folder;
  the properties name this exception.  Crossed renamings of two folders lose files.
* A failed fetch or a forced refresh shifts `last_refresh` against the loop's timer.
  The next periodic refresh may find less than an interval gone, skip the market, and the
  entry then expires five minutes later and stays away until the one after.  That is why
  `KeptWarm` is conditional.
* After a reconnection that succeeds the context manager of `get_client` yields again, which is a
  RuntimeError for its caller.
* Attempts replace `self.pool` and disconnect nothing.  When two tasks reconnect at once, the ping that marks Redis as
  available may be that of a pool which has been replaced, while the one in place has not answered, and a pool that answered
  is left behind.  `AvailabilityTold` and `Released` name these cases.
* `health_check` tells of the storage as available whatever it is: the other branch cannot be reached
  (`main.py` 276-282).
* Without a lifespan, two first requests each open an S3 client, and one of the two is never closed.
* Two creations of a bucket may both be told that it was created, and one can say so of a bucket that a deletion has
  removed since; a deletion that finds new objects fails with 400 after the old ones are gone.  `AnswersHonest` holds nevertheless.
* A download from a bucket that is gone is answered with 500 (ASS 585: `NoSuchBucket` is not among the codes for 404).
* A folder of a tree whose listing failed is shown empty, with 200; levels are cut at 1000 files without a sign.
* botocore sends a request again that it gave up (ASS 25).  A create of a multipart upload that was executed twice leaves one that
  nobody knows of, while the upload goes on; a put that is executed late may replace what a later upload of the key was answered for.
* The Kaggle fallback shows the first page again when a later one is asked for and all items fit in the first
  (`async_kaggle_models.py` 292); if they fill it exactly, there is always a next page.  A page of Kaggle datasets beyond the end
  claims an exact total that is too high.  The internal count is of models that organisations own: a
  client that goes by it may stop before the end of a listing of all owners, and at the cap there is always
  more.  The answer for HuggingFace models has no `has_more`, and its page drops items that are not models.
* A thread of Kaggle's that outlived its request may make the temporary directory again, and holds its place
  in the pool; copies to a directory of the client's have no time limit, and wait for ever behind threads that hang; directories of snapshots are never removed.
* A response that is refused for its range (Starlette's `FileResponse` answers 400 or 416 and returns), breaks off or is cancelled does not run its background task,
  and the temporary directory of a Kaggle file stays.
* The rate limit lets up to `2 * Calls - 1` requests through in a period across the edge of two windows.

## The proofs

`ObjectUpload_proofs` proves for any number of uploads, keys, sizes, part sizes,
concurrency limits and failures: `TypeCorrect`, `WholeObjects`, `ListedPartsReceived`,
`ConcurrencyBounded`, `NoTaskStrays`, `OpenUploadsOwned`, `TrackerTruthful`, and
`UploadsAreAtomic` (the refinement).  They follow from one inductive invariant,
`Inductive`.  `ObjectsWhole` alone is not inductive: that the completed object is the
whole file needs that the parts collected and the tasks pending together form a chain
(`Chain`: numbered without gap or repetition, each starting where the one before it
ended, up to what has been read), that a coroutine about to complete has no task left,
and that a completion given up (`late`) still carries the whole file.  `Control` relates
where a coroutine is to what S3, the tracker and the caller know; the refinement needs
it to rule out that an upload which was answered, or aborted, writes once more.

`ProgressWithin` has an invariant of its own: the parts read so far have disjoint ranges within what is
read, in the order of their numbers (`Counted`), so that the sum that the coroutine keeps is the number of
bytes of the parts it has collected, and what the tracker was last told is no more than the file.

`FolderOps_proofs` proves `FolderTypes`, `DeletesAfterCopies`, `KeepsToItsPaths`, `ListsEverything`
and `LosesNothing` for any finite bucket, workload, page and batch size.  The invariant (`Inductive`) relates, for
each request, what it has listed, copied and deleted to where its coroutine is: a copy
leaves `todo` only into `copied` or with the request failed, so that when deletions begin
everything listed has been copied.  `KeepsToItsPaths` adds that what is listed is under
the source path, and that a destination is under the target path.  `ListsEverything` adds, for every object that
was there when the request began, that it is listed, removed by somebody else, or still there behind the last key
listed (`NotedBy`); that a page which is not full was the last is where the finite bucket is needed.
`LosesNothing` has a hypothesis, `Apart`: in a workload without deletions, copies go where there was nothing and
nobody uploads to, no renaming takes on what they made and no other copy overwrites it, and two uploads to one key
are of the same content.  Without it the property is false, with renamings that cross for example.  The workloads
that `folder_ops` checks satisfy it: `MCFolderOps` has this as an assumption (`ThreeApart`), which TLC evaluates.  The invariant,
`Safe`, says of every object that it is where it was, or that a renaming has copied it to where it now stays.

`TagCache_proofs` proves `CacheTypesKept`, `StaleByOneFetch` and `StaysWarm` for any markets, groups, callers,
intervals, buffers and timeouts.  `StaysWarm` has the hypothesis `Margin`, `2 * MaxFetch < Buffer`, which the code's
300 s against two fetches of 30 s satisfy, and the run's constants too.  Its invariant, `Warm`, follows a
market's entry through the loop: while the loop sleeps the entry outlives the sleep by the buffer, less the time by
which the slowest market was later than this one (`WarmMarket`); hence one fetch for the delay and one for the next answer.

`Application_proofs` proves `TypeCorrect`, `OneClientServes`, `AllReleased` and
`AvailabilityTrue` for any number of requests, storage services and
attempts.  The type invariant is not inductive: that a sleeping task has an attempt left
(`Retries`) keeps the number of its next one in bounds.  `Connections` relates the flags to
the pool in place and to the tasks that are in `initialize`, and `Users` says which tasks those may be in which phase
of the lifespan.  `AvailabilityTold` is about the pool in place: it answered, or its task is pinging it, or it is
`contested` (made while another task was pinging a former one).  `AllReleased` is about pools too: none that answered is left
after a shutdown, in place or replaced, as long as no call on Redis lost its connection; after that the code does leave some.
`Managed` follows the lifespan through the manager, phase by phase: which service is in place, whether it is open, and
that no request initialises the manager when the lifespan has.

`Buckets_proofs` proves `BucketsTyped`, `ToldTheTruth`, `CountsOnce`, `ShowsTheTree` and
`EmptiesAll` for any number of requests, objects, folders and writes of others, and any page size.  The invariant, `BInv`, has one part
for each promise: what was seen of the bucket justifies the next call and the answer (`Honest`); what stayed is
counted up to the last key listed, and no key after it (`Counting`); what stayed is in the tree or in a folder still to be
listed, while the level is read up to the last entry read (`Growing`); what stayed, up to the last key that a deletion has
listed, is in the page at hand or was not deleted by `delete_objects` (`Emptying`).

`MarketPages_proofs` proves `PagesTypes`, `ShowsThePage` and `ShowsTheListing` for any listing, any sizes of pages here and
upstream, any cap and any changes.  `PagesInv` says of a listing that did not change what a page in the making holds: the slice from the
first upstream page that it needs to the one it has reached (`Gathered`), or everything up to the last token
(`Followed`).  `ToldInv` says of a client that began at the first page what it has been shown: everything before its
page, and, when it is told that there is more, that its next page begins where this one ends; the numbers that
`_paginated_total` returns are judged in `TotalsTell`.  `OrderInv` says what that client was shown whatever number it was told: the first items of
the listing, in order, up to its page; it carries the first half of `WalkComplete`, which holds for Kaggle's internal count too.  Most of the work is arithmetic: slices that meet, slices of slices, the upstream page
that an offset is on.  `Models`, the items of a page that are models, is written without recursion so that it
can be shown to distribute over concatenation (`ModelsConcat`).

`Markets_proofs` proves, for any threads, requests, clients and limits:

* `LimitTypes` and `Throttles` of the rate limit.  The invariant, `LInv`, says of a client with a window that its last passes are those
  that the window has counted and that, of those before, only `Calls - 1` can be within a period of its start
  (`Windowed`); of a client whose window is over or was cleaned up, that fewer than `Calls` are within the last period (`Windowless`).
* `DownloadTypes` and `TempDirsGo` of the downloads.  The invariant adds `Waited`: a call in the queue always has a request that
  waits for it, so that no thread ever begins what nobody wants and brings its directory back.  The theorem names what the code leaves behind: the directory of a
  request that was given up while a thread was downloading, and of a response whose background task did not run.
* `SessionTypes` and `SharedOnce` of the Kaggle session.  That at most `1 + 2 * failures` sessions are built is an account, `Paid`: a thread
  that is about to drop the session owes two (the one it will build, and the one that a thread whose session it
  drops will have to build), a thread in its second attempt owes one, and so does an empty `_session`; what is built and owed
  never exceeds what the failures have paid for.

*From the modules to the runs.*  `RunsTheMarkets` and `RunsTheServices` prove that a behaviour of `MCMarkets` is one of each of its
four modules, and a behaviour of `MCServices` one of `Application` and of `Buckets`; so the theorems, which are about the
modules' own specifications, hold of what the runs check.  `MarketsTyped` and `ServicesTyped` are the type invariants of the two runs.

The assumptions are those named in the modules (`UploadAssumption`, `FolderAssumption`, `CacheAssumption`,
`TasksAssumption`, `ManagerAssumption`, `RedisAssumption`, `BucketsAssumption`, `PagesAssumption`, `SessionAssumption`, `DownloadsAssumption`,
`LimitAssumption`): types of the constants, finite sets of keys, positive sizes and limits, a cache time that is no longer than
interval and buffer together, and that a name for nobody is nobody's; TLC evaluates them in the runs.  Two theorems have a hypothesis besides: `Apart` and `Margin`, above.

*Only model-checked*: the liveness properties (`Terminates`, `Settles`, `WarmsForEver`, `StartsAndAnswers`, `CallsEnd`,
`ListingsEnd`, `CallsAnswered`), since fairness and ENABLED are outside the proof system.

## Not modelled

* What makes one call, keeps nothing and converts its answer: `list_objects`, `list_buckets`, details and tags of the
  markets, `get_upload_info`, the mapping of items, authentication, parameter and response helpers,
  configuration, logging, the market factory.  `download_file` of the storage service is not used by the API.
* `utils/circuit_breaker.py` and `async_huggingface_datasets.py`: no code of the application uses them.
* The tus server itself, a library: the model begins where it reports a complete file.
* `copy_file` to another bucket: the model has one bucket.
* Parts of a cancelled upload that reach S3 after the abort: a part call that was cancelled
  has no effect in the model.  A part that botocore sends again has no further effect either: S3 keeps one part of each number.
* Copies and deletions that botocore sends again in a folder operation, and that S3 executes late.
* The request timeout middleware for other requests than those on folders: the code exempts uploads and downloads
  from it, and a listing that it gives up has changed nothing.
* The last resort of `_model_instance_files_sync`, for an SDK without `model_instance_files`: the versions that
  `requirements.txt` allows have it.
* A wall clock that is set back.
