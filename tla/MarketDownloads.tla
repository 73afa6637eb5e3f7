--------------------------- MODULE MarketDownloads ---------------------------
(***************************************************************************)
(* The requests that download from a market.  The blocking calls of the     *)
(* markets' libraries run in the threads of one pool.  Each is given so     *)
(* much time: a call that is still queued then is dropped, one that runs    *)
(* goes on, without its request, until it ends, if it does.  What Kaggle    *)
(* sends is kept in a temporary directory of the request.                   *)
(***************************************************************************)
EXTENDS Naturals, FiniteSets, AppTasks

CONSTANTS
    Workers,   \* threads of the pool
    MaxFiles   \* bound on the files of a snapshot that match its patterns

ASSUME DownloadsAssumption == Workers \in Nat \ {0} /\ MaxFiles \in Nat

VARIABLES
    download,  \* what each request does
    work,      \* the call of each request in the pool
    dir        \* the temporary directory of each request

downloadVars == <<download, work, dir>>

-----------------------------------------------------------------------------

Files     == {"kaggle_file", "hf_file"}
Snapshots == {"kaggle_snapshot", "hf_snapshot"}

\* of: what is downloaded; own: to a directory the client names; left: calls to
\* make yet, those of a snapshot's files or the second try of HuggingFace, with
\* a token; picks: the files of a snapshot have to be listed first; fetched: the file
\* has arrived; late: a thread was at work for the request when it was given up.
NoDownload == [of |-> "none", own |-> FALSE, picks |-> FALSE, left |-> 0, at |-> "idle",
               fetched |-> FALSE, answer |-> "none", late |-> FALSE]

DownloadsInit ==
    /\ download = [r \in Requests |-> NoDownload]
    /\ work = [r \in Requests |-> "none"]
    /\ dir = [r \in Requests |-> FALSE]

OfKaggle(d) == d.of \in {"kaggle_file", "kaggle_snapshot"}

\* A file is downloaded to a temporary directory also for a client that names one.
InTempDir(d) == d.of = "kaggle_file" \/ (d.of = "kaggle_snapshot" /\ ~d.own)

Is(r, d) == download' = [download EXCEPT ![r] = d]

Work(r, w) == work' = [work EXCEPT ![r] = w]

Dir(r, b) == dir' = [dir EXCEPT ![r] = b]

Over(r, answer) ==
    Is(r, [download[r] EXCEPT !.at = "over", !.answer = answer, !.left = 0,
             !.late = answer \in {"504", "cancelled"} /\ work[r] = "running"])

\* A file's temporary directory goes when its request ends; the directory of a
\* snapshot is what was asked for.
Ends(r, answer) ==
    /\ Over(r, answer)
    /\ Dir(r, dir[r] /\ download[r].of # "kaggle_file")

Fails(r, answer) == Ends(r, answer)

-----------------------------------------------------------------------------
(* The handlers, and what they begin with.                                 *)

\* Of HuggingFace, a file of a dataset is tried without a token, one of a model is
\* not.
download_file(r) ==
    /\ download[r].at = "idle"
    /\ \E of \in Files, own \in BOOLEAN, tries \in 0..1 :
         /\ Is(r, [NoDownload EXCEPT !.of = of, !.own = own, !.at = "calling",
                                     !.left = IF of = "hf_file" THEN tries ELSE 0])
         /\ Dir(r, of = "kaggle_file")
    /\ Work(r, "queued")

download_snapshot(r) ==
    /\ download[r].at = "idle"
    /\ \E of \in Snapshots, own \in BOOLEAN, picks \in BOOLEAN :
         /\ Is(r, [NoDownload EXCEPT !.of = of, !.own = own, !.at = "calling",
                     !.picks = picks /\ of = "kaggle_snapshot",
                     !.left = IF of = "hf_snapshot" THEN 1 ELSE 0])
         /\ Dir(r, of = "kaggle_snapshot" /\ ~own)
    /\ Work(r, "queued")

-----------------------------------------------------------------------------
(* The pool.                                                               *)

Running == {r \in Requests : work[r] = "running"}

WorkStarts(r) ==
    /\ work[r] = "queued" /\ Cardinality(Running) < Workers
    /\ Work(r, "running")
    /\ UNCHANGED <<download, dir>>

\* A call that nobody waits for any more ends.  A download may have written to the
\* directory that was removed, which the library makes again.
WorkEndsLate(r) ==
    /\ work[r] = "running" /\ download[r].at = "over"
    /\ Work(r, "none")
    /\ \/ UNCHANGED dir
       \/ InTempDir(download[r]) /\ ~download[r].fetched /\ Dir(r, TRUE)
    /\ UNCHANGED download

-----------------------------------------------------------------------------
(* A call returns.                                                         *)

Returns(r) == work[r] = "running" /\ download[r].at = "calling"

KeptToSend(r) == UNCHANGED dir

\* The file is there: it is copied, in another thread, or sent.
Arrives(r) ==
    LET to(at) == Is(r, [download[r] EXCEPT !.at = at, !.fetched = TRUE])
    IN  IF download[r].own THEN to("copying") /\ Work(r, "queued") /\ UNCHANGED dir
                           ELSE to("sending") /\ Work(r, "none") /\ KeptToSend(r)

FileArrives(r) == Returns(r) /\ download[r].of = "kaggle_file" /\ Arrives(r)

HfFileArrives(r) == Returns(r) /\ download[r].of = "hf_file" /\ Arrives(r)

\* _resolve_downloaded_file finds no file of that name.
FileMissing(r) ==
    /\ Returns(r) /\ download[r].of = "kaggle_file"
    /\ Fails(r, "404")
    /\ Work(r, "none")

\* _select_dataset_files: the files that match, or none, or no way to list them.
FilesListed(r) ==
    /\ Returns(r) /\ download[r].picks
    /\ \/ /\ \E n \in 1..MaxFiles :
               Is(r, [download[r] EXCEPT !.picks = FALSE, !.left = n - 1])
          /\ Work(r, "queued") /\ UNCHANGED dir
       \/ \E answer \in {"404", "501"} : Fails(r, answer) /\ Work(r, "none")

\* The snapshot is complete, or has a file more to go.
SnapshotArrives(r) ==
    /\ Returns(r) /\ download[r].of = "kaggle_snapshot" /\ ~download[r].picks
    /\ IF download[r].left > 0
       THEN Is(r, [download[r] EXCEPT !.left = @ - 1]) /\ Work(r, "queued") /\ UNCHANGED dir
       ELSE Ends(r, "200") /\ Work(r, "none")

\* It is in the cache of HuggingFace, or in the directory that the client named.
HfSnapshotArrives(r) ==
    /\ Returns(r) /\ download[r].of = "hf_snapshot"
    /\ Ends(r, "200") /\ Work(r, "none")

\* HuggingFace refuses the call without a token.
TriesWithToken(r) ==
    /\ Returns(r) /\ ~OfKaggle(download[r]) /\ download[r].left > 0
    /\ Is(r, [download[r] EXCEPT !.left = 0]) /\ Work(r, "queued")
    /\ UNCHANGED dir

CallFails(r) ==
    /\ Returns(r)
    /\ Fails(r, "error") /\ Work(r, "none")

\* Mutant of GivenUp: the queued call is left in the queue.
GivenUpQueued(r) == UNCHANGED work

GivenUp(r) == Work(r, IF work[r] = "queued" THEN "none" ELSE work[r])

\* Mutant of TimesOut: the time does not run while the call is queued.
TimesOutAtWork(r) ==
    /\ download[r].at = "calling" /\ work[r] = "running"
    /\ Fails(r, "504")
    /\ GivenUp(r)

\* _call and _async_hf_api_call: the time is over.
TimesOut(r) ==
    /\ download[r].at = "calling"
    /\ Fails(r, "504")
    /\ GivenUp(r)

-----------------------------------------------------------------------------
(* The file has arrived.                                                   *)

\* The copy, which has no time limit, succeeds or fails.
Copied(r) ==
    /\ work[r] = "running" /\ download[r].at = "copying"
    /\ \E answer \in {"200", "error"} : Ends(r, answer)
    /\ Work(r, "none")

\* The response is sent, and its background task has run.
Sent(r) ==
    /\ download[r].at = "sending"
    /\ Ends(r, "200")
    /\ UNCHANGED work

\* The response ends without its background task: it is refused for the range that
\* the client asks for, it breaks off, or it is cancelled when the server shuts down.
Unsent(r) ==
    /\ download[r].at = "sending"
    /\ Over(r, "unsent")
    /\ UNCHANGED <<work, dir>>

\* The server shuts down: the handler is cancelled.
Cancelled(r) ==
    /\ download[r].at \in {"calling", "copying"}
    /\ GivenUp(r)
    /\ Ends(r, "cancelled")

-----------------------------------------------------------------------------

Downloads(r) ==
    \/ FileArrives(r) \/ HfFileArrives(r) \/ FileMissing(r) \/ FilesListed(r)
    \/ SnapshotArrives(r) \/ HfSnapshotArrives(r)
    \/ TriesWithToken(r) \/ CallFails(r) \/ TimesOut(r) \/ Copied(r)
    \/ Sent(r) \/ Unsent(r) \/ Cancelled(r)

DownloadsNext ==
    \E r \in Requests :
        \/ download_file(r) \/ download_snapshot(r)
        \/ WorkStarts(r) \/ WorkEndsLate(r) \/ Downloads(r)

DownloadsSpec == DownloadsInit /\ [][DownloadsNext]_downloadVars

-----------------------------------------------------------------------------

\* Every variable has its type, and the pool has no more threads than it has.
DownloadsTypeOK ==
    /\ download \in [Requests -> [
           of : Files \cup Snapshots \cup {"none"}, own : BOOLEAN, picks : BOOLEAN,
           left : 0..MaxFiles + 1, at : {"idle", "calling", "copying", "sending", "over"},
           fetched : BOOLEAN, late : BOOLEAN,
           answer : {"none", "200", "404", "501", "504", "error", "cancelled", "unsent"}]]
    /\ work \in [Requests -> {"none", "queued", "running"}]
    /\ dir \in [Requests -> BOOLEAN]
    /\ Cardinality(Running) <= Workers

\* While a file of Kaggle is copied or sent, its directory is there.  Once its
\* request has ended, it is gone, with two exceptions: a thread was downloading
\* to it when the request was given up, or the response was refused for its range,
\* broke off or was cancelled, and its background task did not run.  A call that
\* was given up in the queue never runs, and brings no directory back, nor does a
\* copy; and a request that copies its file never leaves the directory behind.
TempDirs ==
    \A r \in Requests : download[r].of = "kaggle_file" =>
      /\ download[r].at \in {"calling", "copying", "sending"} => dir[r]
      /\ download[r].at = "over" /\ dir[r] =>
           \/ download[r].late /\ ~download[r].fetched
           \/ download[r].answer = "unsent" /\ ~download[r].own

\* Though every thread of the pool should hang, the requests that wait for a call
\* are answered.
CallsAnswered ==
    \A r \in Requests : (download[r].at = "calling") ~> (download[r].at # "calling")
=============================================================================
