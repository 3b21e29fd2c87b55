----------------------------- MODULE CrashPipeline -----------------------------
(***************************************************************************)
(* The life of a minidump inside crashomon-watcherd (daemon/watcher.cpp,   *)
(* daemon/worker.cpp): a monitored process crashes, Crashpad's handler     *)
(* thread captures it and renames the dump into pending/, the kernel       *)
(* queues an inotify event, the main thread's event loop reads it and      *)
(* pushes the path on the worker's queue, and the worker thread patches,   *)
(* reads, reports, exports and prunes.  SIGTERM starts the ordered         *)
(* shutdown of RunWatcher; a kill stops all three threads anywhere, and    *)
(* the service manager starts the daemon again on the same database.       *)
(*                                                                         *)
(* Every monitored process crashes at most once, so a process names its    *)
(* dump.  A mutex section of the code is one action.                       *)
(***************************************************************************)
EXTENDS DiskManager

CONSTANTS
    Procs,          \* monitored processes, and the dumps they leave
    Signature,      \* dump -> rate limiting key process:signal:address
    ExportName,     \* dump -> {process}_{build_id8}, the name less its second
    Size,           \* dump -> bytes
    NeedsPatch,     \* dumps with a module that lacks a build id
    Malformed,      \* dumps the handler could only write in part
    PatchEnabled,   \* patch_build_ids
    ExportEnabled,  \* export_path is not empty
    IOMayFail,      \* whether writes and removals may fail
    Window,         \* kRateLimitWindow
    EventLimit,     \* the kernel's max_queued_events
    ReadBatch,      \* events one read() returns at most (kInotifyEventBufferCount)
    MaxTime,        \* bound of the clock
    Overflow,       \* the IN_Q_OVERFLOW event
    NoDump

ASSUME PipelineAssumption ==
    /\ Size \in [Procs -> Nat]
    /\ NeedsPatch \cap Malformed = {}
    /\ {PatchEnabled, ExportEnabled, IOMayFail} \subseteq BOOLEAN
    /\ Window \in Nat /\ MaxTime \in Nat
    /\ EventLimit \in Nat \ {0} /\ ReadBatch \in Nat \ {0}
    /\ Overflow \notin Procs /\ NoDump \notin Procs

Never == -1
Outcomes == {"tombstone", "suppressed", "unreadable"}

VARIABLES
    \* main thread
    mainPc,      \* where RunWatcher is; "down" when there is no daemon
    gStop,       \* g_stop
    clientFd,    \* whether the daemon holds its copy of the shared client fd
    buf,         \* inotify events read and not yet walked
    \* Crashpad's handler thread
    handler,     \* "none", "running" or "exited"
    capturing,   \* the dump being written under new/
    \* the monitored processes
    proc,
    \* the kernel and the disk
    inotify,     \* the inotify descriptor's event queue
    file,        \* where each dump file is
    mtime,
    partial,     \* dumps whose rewrite was begun and not completed
    exports,     \* the files of the export directory
    \* WorkerState and the worker thread
    pending,     \* the queue of paths
    stop,
    workerPc,
    cur,         \* the path RunWorker moved out of the queue
    doomed,      \* what a pass of PruneMinidumps has still to remove
    rateMap,     \* rate_limit_map
    \* observers
    journal,     \* what the worker logged, in order
    boot,        \* Len(journal) when the running daemon started
    rank,        \* 0, or a dump's position in the order of the renames
    renamed,     \* the number of renames so far
    seen,        \* the dumps the last listing of pending/ had
    now

mainVars    == <<mainPc, gStop, clientFd, buf>>
handlerVars == <<handler, capturing>>
diskVars    == <<file, mtime, partial, exports>>
pruneVars   == <<doomed, seen>>
workerVars  == <<workerPc, cur, rateMap, pruneVars>>
queueVars   == <<pending, stop>>
orderVars   == <<rank, renamed, inotify>>
logVars     == <<journal, boot>>
vars == <<mainVars, handlerVars, proc, diskVars, workerVars, queueVars, orderVars, logVars, now>>

NoLimitYet == [s \in {Signature[p] : p \in Procs} |-> Never]

Init ==
    /\ mainPc = "down" /\ gStop = FALSE /\ clientFd = FALSE /\ buf = <<>>
    /\ handler = "none" /\ capturing = NoDump
    /\ proc = [p \in Procs |-> "unborn"]
    /\ inotify = <<>>
    /\ file = [p \in Procs |-> "absent"]
    /\ mtime = [p \in Procs |-> 0]
    /\ partial = {} /\ exports = {}
    /\ pending = <<>> /\ stop = FALSE
    /\ workerPc = "none" /\ cur = NoDump /\ doomed = <<>> /\ seen = {}
    /\ rateMap = NoLimitYet
    /\ journal = <<>> /\ boot = 0
    /\ rank = [p \in Procs |-> 0] /\ renamed = 0
    /\ now = 0
--------------------------------------------------------------------------------
(* Monitored processes (external to the daemon) *)

Holders == {p \in Procs : proc[p] \in {"held", "crashed"}}

Crash(p) ==
    /\ proc[p] = "held"
    /\ proc' = [proc EXCEPT ![p] = "crashed"]
    /\ UNCHANGED <<mainVars, handlerVars, diskVars, workerVars, queueVars, orderVars, logVars, now>>

\* A process that ends closes its copy of the shared fd.
Quit(p) ==
    /\ proc[p] = "held"
    /\ proc' = [proc EXCEPT ![p] = "gone"]
    /\ UNCHANGED <<mainVars, handlerVars, diskVars, workerVars, queueVars, orderVars, logVars, now>>

\* The crash request finds the server end of the socketpair closed.
Unserved(p) ==
    /\ proc[p] = "crashed" /\ handler = "exited"
    /\ proc' = [proc EXCEPT ![p] = "unmonitored"]
    /\ UNCHANGED <<mainVars, handlerVars, diskVars, workerVars, queueVars, orderVars, logVars, now>>

--------------------------------------------------------------------------------
(* The handler thread: Crashpad's ExceptionHandlerServer, one request at a time *)

\* The kernel's event queue: when it is full one overflow event takes the place
\* of everything that follows.
Queued(event) ==
    IF Len(inotify) < EventLimit THEN Append(inotify, event)
    ELSE IF Last(inotify) = Overflow THEN inotify ELSE Append(inotify, Overflow)

\* The dump is written under new/: its time stamp is that of the last write,
\* which the rename keeps, so dumps may arrive older than what is in pending/.
Capture(p) ==
    /\ handler = "running" /\ capturing = NoDump /\ proc[p] = "crashed"
    /\ capturing' = p
    /\ file' = [file EXCEPT ![p] = "new"]
    /\ mtime' = [mtime EXCEPT ![p] = now]
    /\ UNCHANGED <<mainVars, handler, proc, partial, exports, workerVars, queueVars,
                   orderVars, logVars, now>>

RenameIntoPending ==
    /\ capturing # NoDump
    /\ file' = [file EXCEPT ![capturing] = "pending"]
    /\ inotify' = Queued(capturing)
    /\ renamed' = renamed + 1
    /\ rank' = [rank EXCEPT ![capturing] = renamed']
    /\ proc' = [proc EXCEPT ![capturing] = "gone"]
    /\ capturing' = NoDump
    /\ UNCHANGED <<mainVars, handler, mtime, partial, exports, workerVars, queueVars, logVars, now>>

\* Run() returns when the last holder of the client end has closed it.
HandlerExit ==
    /\ handler = "running" /\ capturing = NoDump
    /\ ~clientFd /\ Holders = {}
    /\ handler' = "exited"
    /\ UNCHANGED <<mainVars, capturing, proc, diskVars, workerVars, queueVars, orderVars, logVars, now>>

--------------------------------------------------------------------------------
(* The main thread: RunWatcher and its event loop *)

\* The watch on pending/ is new and reports only what is renamed from now on;
\* the handler thread ends at once if InitializeWithClient fails.
Start ==
    /\ mainPc = "down"
    /\ mainPc' = "loop" /\ gStop' = FALSE /\ clientFd' = TRUE
    /\ handler' \in {"running", "exited"}
    /\ workerPc' = "wait"
    /\ stop' = FALSE
    /\ boot' = Len(journal)
    /\ UNCHANGED <<buf, capturing, proc, diskVars, pending, cur, rateMap, pruneVars, orderVars, journal, now>>

Sigterm ==
    /\ mainPc # "down" /\ ~gStop
    /\ gStop' = TRUE
    /\ UNCHANGED <<mainPc, clientFd, buf, handlerVars, proc, diskVars, workerVars, queueVars,
                   orderVars, logVars, now>>

MainGoes(to) ==
    /\ mainPc' = to
    /\ UNCHANGED <<gStop, handlerVars, diskVars, workerVars, logVars, rank, renamed, now>>

LoopCheck ==
    /\ mainPc = "loop"
    /\ MainGoes(IF gStop THEN "close" ELSE "poll")
    /\ UNCHANGED <<clientFd, buf, proc, inotify, queueVars>>

\* poll() returns 0 after 500 ms with nothing ready, or EINTR after a signal.
PollIdle ==
    /\ mainPc = "poll"
    /\ inotify = <<>> \/ gStop
    /\ MainGoes("loop")
    /\ UNCHANGED <<clientFd, buf, proc, inotify, queueVars>>

\* poll() or read() fails otherwise: the loop breaks.
LoopBreaks ==
    /\ mainPc \in {"poll", "read"} /\ IOMayFail
    /\ MainGoes("close")
    /\ UNCHANGED <<clientFd, buf, proc, inotify, queueVars>>

\* The connection is served before the inotify descriptor, of which this
\* iteration knows what poll() saw.
AcceptClient(p) ==
    /\ mainPc = "poll" /\ proc[p] = "unborn"
    /\ proc' = [proc EXCEPT ![p] = "held"]
    /\ MainGoes(IF inotify = <<>> THEN "loop" ELSE "read")
    /\ UNCHANGED <<clientFd, buf, inotify, queueVars>>

ReadInotify ==
    /\ mainPc \in {"poll", "read"} /\ inotify # <<>>
    /\ LET k == IF Len(inotify) < ReadBatch THEN Len(inotify) ELSE ReadBatch
       IN /\ buf' = SubSeq(inotify, 1, k)
          /\ inotify' = SubSeq(inotify, k + 1, Len(inotify))
    /\ MainGoes("enqueue")
    /\ UNCHANGED <<clientFd, proc, queueVars>>

AnyEventNamesDump(event) == TRUE     \* mutant: the mask is not tested
NamesDump(event) == event # Overflow

FirstEventOnly == <<>>               \* mutant: one event per read is assumed
RestOfBuffer == Tail(buf)

\* One turn of EnqueueInotifyEvents: only IN_MOVED_TO events name a dump.
EnqueueEvent ==
    /\ mainPc = "enqueue" /\ buf # <<>>
    /\ buf' = RestOfBuffer
    /\ IF NamesDump(Head(buf))
       THEN MainGoes("notify") /\ pending' = Append(pending, Head(buf))
       ELSE MainGoes("enqueue") /\ UNCHANGED pending
    /\ UNCHANGED <<clientFd, proc, inotify, stop>>

EnqueueDone ==
    /\ mainPc = "enqueue" /\ buf = <<>>
    /\ MainGoes("loop")
    /\ UNCHANGED <<clientFd, buf, proc, inotify, queueVars>>

NoNotification == workerPc           \* mutant: notify_one is forgotten
Woken == IF workerPc = "blocked" THEN "wait" ELSE workerPc

\* cv.notify_one(), after the mutex is released.
NotifyWorker ==
    /\ mainPc \in {"notify", "notify_stop"}
    /\ mainPc' = IF mainPc = "notify" THEN "enqueue" ELSE "join_worker"
    /\ workerPc' = Woken
    /\ UNCHANGED <<gStop, clientFd, buf, handlerVars, proc, diskVars, cur, rateMap, pruneVars, queueVars,
                   orderVars, logVars, now>>

\* Mutant: client_fd is left open across the join.
KeepClientFd ==
    /\ mainPc = "close"
    /\ MainGoes("join_handler")
    /\ UNCHANGED <<clientFd, buf, proc, inotify, queueVars>>

CloseClientFd ==
    /\ mainPc = "close"
    /\ clientFd' = FALSE
    /\ MainGoes("join_handler")
    /\ UNCHANGED <<buf, proc, inotify, queueVars>>

HandlerJoined == handler = "exited"

JoinHandler ==
    /\ mainPc = "join_handler" /\ HandlerJoined
    /\ MainGoes("set_stop")
    /\ UNCHANGED <<clientFd, buf, proc, inotify, queueVars>>

SetStop ==
    /\ mainPc = "set_stop"
    /\ stop' = TRUE
    /\ MainGoes("notify_stop")
    /\ UNCHANGED <<clientFd, buf, proc, inotify, pending>>

\* What the end of the process takes with it: every thread, every queue and the
\* rate limiting map.
ProcessEnds ==
    /\ mainPc' = "down" /\ gStop' = FALSE /\ clientFd' = FALSE /\ buf' = <<>>
    /\ handler' = "none" /\ capturing' = NoDump
    /\ workerPc' = "none" /\ cur' = NoDump /\ doomed' = <<>>
    /\ rateMap' = NoLimitYet
    /\ pending' = <<>> /\ stop' = FALSE
    /\ inotify' = <<>>
    /\ UNCHANGED <<diskVars, logVars, rank, renamed, seen, now>>

\* Join of the worker, and the return of RunWatcher.
JoinWorker ==
    /\ mainPc = "join_worker" /\ workerPc = "exited"
    /\ ProcessEnds
    /\ UNCHANGED proc

\* SIGKILL, a watchdog timeout or a crash of the daemon: the processes that held
\* the shared fd have no handler any more, and never register again.
Kill ==
    /\ mainPc # "down"
    /\ ProcessEnds
    /\ proc' = [p \in Procs |-> IF p \in Holders THEN "unmonitored" ELSE proc[p]]
--------------------------------------------------------------------------------
(* The worker thread: RunWorker and ProcessNewMinidump *)

WorkerKeeps == UNCHANGED <<mainVars, handlerVars, proc, orderVars, boot, now>>
NoPruning == WorkerKeeps /\ UNCHANGED pruneVars

ReturnOnStop == stop                  \* mutant: the queue is not drained
MayReturn == stop /\ pending = <<>>

\* Mutant: front() without pop().
ReadFront == cur' = Head(pending) /\ UNCHANGED pending
TakeFront == cur' = Head(pending) /\ pending' = Tail(pending)

\* The mutex section of RunWorker: leave, sleep on the condition variable, or
\* take the oldest path.
WorkerWait ==
    /\ workerPc = "wait"
    /\ \/ MayReturn /\ workerPc' = "exited" /\ UNCHANGED <<cur, pending>>
       \/ ~stop /\ pending = <<>> /\ workerPc' = "blocked" /\ UNCHANGED <<cur, pending>>
       \/ pending # <<>> /\ workerPc' = "patch" /\ TakeFront
    /\ UNCHANGED <<rateMap, stop, diskVars, journal>>
    /\ NoPruning

SpuriousWakeup ==
    /\ workerPc = "blocked"
    /\ workerPc' = "wait"
    /\ UNCHANGED <<cur, rateMap, queueVars, diskVars, journal>>
    /\ NoPruning

\* Mutant: the truncated file is not written back.
PatchTruncates ==
    /\ workerPc = "patch"
    /\ workerPc' = "report"
    /\ IF PatchEnabled /\ file[cur] = "pending" /\ cur \in NeedsPatch
       THEN partial' = partial \cup {cur} /\ mtime' = [mtime EXCEPT ![cur] = now]
       ELSE UNCHANGED <<partial, mtime>>
    /\ UNCHANGED <<cur, rateMap, queueVars, file, exports, journal>>
    /\ NoPruning

\* PatchMissingBuildIds truncates the file once it has something to write back.
Patch ==
    /\ workerPc = "patch"
    /\ IF PatchEnabled /\ file[cur] = "pending" /\ cur \in NeedsPatch
       THEN /\ workerPc' = "rewrite"
            /\ partial' = partial \cup {cur}
            /\ mtime' = [mtime EXCEPT ![cur] = now]
       ELSE /\ workerPc' = "report"
            /\ UNCHANGED <<partial, mtime>>
    /\ UNCHANGED <<cur, rateMap, queueVars, file, exports, journal>>
    /\ NoPruning

Rewrite ==
    /\ workerPc = "rewrite"
    /\ workerPc' = "report"
    /\ mtime' = [mtime EXCEPT ![cur] = now]
    /\ \/ partial' = partial \ {cur}
       \/ IOMayFail /\ UNCHANGED partial
    /\ UNCHANGED <<cur, rateMap, queueVars, file, exports, journal>>
    /\ NoPruning

Readable(p) == file[p] = "pending" /\ p \notin partial \cup Malformed

\* Mutant: the end of the window belongs to it.
RateLimitedAtEnd(sig) == rateMap[sig] # Never /\ now - rateMap[sig] <= Window
RateLimitedNow(sig) == rateMap[sig] # Never /\ now - rateMap[sig] < Window

Log(outcome) == journal' = Append(journal, [dump |-> cur, outcome |-> outcome, at |-> now])

\* Mutant: an early return when the dump cannot be read.
ReturnUnreadable ==
    /\ workerPc = "report" /\ ~Readable(cur)
    /\ Log("unreadable")
    /\ workerPc' = "wait" /\ cur' = NoDump
    /\ UNCHANGED <<rateMap, queueVars, diskVars>>
    /\ NoPruning

ReportUnreadable ==
    /\ workerPc = "report" /\ ~Readable(cur)
    /\ Log("unreadable")
    /\ workerPc' = "prune"
    /\ UNCHANGED <<cur, rateMap, queueVars, diskVars>>
    /\ NoPruning

Suppress ==
    /\ workerPc = "report" /\ Readable(cur) /\ RateLimitedNow(Signature[cur])
    /\ Log("suppressed")
    /\ workerPc' = "prune"
    /\ UNCHANGED <<cur, rateMap, queueVars, diskVars>>
    /\ NoPruning

RememberNothing(sig) == rateMap       \* mutant: the time is not stored
Remember(sig) == [rateMap EXCEPT ![sig] = now]

LogTombstone ==
    /\ workerPc = "report" /\ Readable(cur) /\ ~RateLimitedNow(Signature[cur])
    /\ rateMap' = Remember(Signature[cur])
    /\ Log("tombstone")
    /\ workerPc' = IF ExportEnabled THEN "export" ELSE "prune"
    /\ UNCHANGED <<cur, queueVars, diskVars>>
    /\ NoPruning

\* A copy replaces an export of the same name and second.
Exported(p) == {e \in exports : ~(e.name = ExportName[p] /\ e.at = now)}
                   \cup {[name |-> ExportName[p], at |-> now, dump |-> p]}

ExportMinidump ==
    /\ workerPc = "export"
    /\ workerPc' = "prune"
    /\ \/ exports' = Exported(cur)
       \/ IOMayFail /\ UNCHANGED exports
    /\ UNCHANGED <<cur, rateMap, queueVars, file, mtime, partial, journal>>
    /\ NoPruning

\* What a listing has of a directory: all its files, but for those of which
\* stat() fails.
Listings(files) == IF IOMayFail THEN SUBSET files ELSE {files}

InPending == {p \in Procs : file[p] = "pending"}

AfterPendingOnly == "wait"            \* mutant: the export directory is not pruned
AfterPending == IF ExportEnabled THEN "prune_exports" ELSE "wait"

\* ListCrashReports, and what the loop of PrunePendingDir makes of the listing
\* (PruneMinidumps); without limits nothing is listed.  An error ends the pass
\* over both directories.
ListPending ==
    /\ workerPc = "prune"
    /\ cur' = NoDump
    /\ \/ \E files \in Listings(InPending) : \E list \in OldestFirst(files, mtime) :
             /\ doomed' = Removed(list, Size, mtime, now)
             /\ seen' = files
             /\ workerPc' = "remove"
       \/ IOMayFail /\ workerPc' = "wait" /\ UNCHANGED pruneVars
    /\ UNCHANGED <<rateMap, queueVars, diskVars, journal>>
    /\ WorkerKeeps

\* One removal after the other, while dumps are renamed into the directory; the
\* first that fails ends the pass.
RemoveReport ==
    /\ workerPc = "remove" /\ doomed # <<>>
    /\ \/ /\ file' = [file EXCEPT ![Head(doomed)] = "pruned"]
          /\ doomed' = Tail(doomed)
          /\ UNCHANGED workerPc
       \/ IOMayFail /\ workerPc' = "wait" /\ doomed' = <<>> /\ UNCHANGED file
    /\ UNCHANGED <<cur, rateMap, seen, queueVars, mtime, partial, exports, journal>>
    /\ WorkerKeeps

PendingDone ==
    /\ workerPc = "remove" /\ doomed = <<>>
    /\ workerPc' = AfterPending
    /\ UNCHANGED <<cur, rateMap, pruneVars, queueVars, diskVars, journal>>
    /\ WorkerKeeps

ListExports ==
    /\ workerPc = "prune_exports"
    /\ \/ \E files \in Listings(exports) : \E list \in OldestFirst(files, [e \in exports |-> e.at]) :
             /\ doomed' = Removed(list, [e \in exports |-> Size[e.dump]], [e \in exports |-> e.at], now)
             /\ workerPc' = "remove_exports"
       \/ IOMayFail /\ workerPc' = "wait" /\ UNCHANGED doomed
    /\ UNCHANGED <<cur, rateMap, seen, queueVars, diskVars, journal>>
    /\ WorkerKeeps

RemoveExport ==
    /\ workerPc = "remove_exports"
    /\ IF doomed = <<>>
       THEN workerPc' = "wait" /\ UNCHANGED <<doomed, exports>>
       ELSE \/ /\ exports' = exports \ {Head(doomed)}
               /\ doomed' = Tail(doomed)
               /\ UNCHANGED workerPc
            \/ IOMayFail /\ workerPc' = "wait" /\ doomed' = <<>> /\ UNCHANGED exports
    /\ UNCHANGED <<cur, rateMap, seen, queueVars, file, mtime, partial, journal>>
    /\ WorkerKeeps

--------------------------------------------------------------------------------
Tick ==
    /\ now < MaxTime
    /\ now' = now + 1
    /\ UNCHANGED <<mainVars, handlerVars, proc, diskVars, workerVars, queueVars, orderVars, logVars>>

Worker == \/ WorkerWait \/ Patch \/ Rewrite
          \/ ReportUnreadable \/ Suppress \/ LogTombstone
          \/ ExportMinidump \/ ListPending \/ RemoveReport \/ PendingDone \/ ListExports \/ RemoveExport

EventLoop == \/ LoopCheck \/ PollIdle \/ ReadInotify \/ EnqueueEvent \/ EnqueueDone \/ NotifyWorker
             \/ \E p \in Procs : AcceptClient(p)

Shutdown == CloseClientFd \/ JoinHandler \/ SetStop \/ JoinWorker

Handler == RenameIntoPending \/ HandlerExit \/ \E p \in Procs : Capture(p)

Process == \E p \in Procs : Crash(p) \/ Quit(p) \/ Unserved(p)

Next == \/ Worker \/ SpuriousWakeup
        \/ EventLoop \/ LoopBreaks \/ Shutdown
        \/ Handler \/ Process
        \/ Start \/ Sigterm \/ Kill \/ Tick

Spec == Init /\ [][Next]_vars

\* The kernel schedules the three threads of a live daemon; nothing obliges a
\* process to register, crash or quit, a signal to come or the clock to move.
Fairness == WF_vars(Worker) /\ WF_vars(EventLoop \/ Shutdown) /\ WF_vars(Handler)

FairSpec == Spec /\ Fairness
--------------------------------------------------------------------------------
(* Properties *)

MainPcs == {"down", "loop", "poll", "read", "enqueue", "notify", "close", "join_handler",
            "set_stop", "notify_stop", "join_worker"}
WorkerPcs == {"none", "wait", "blocked", "patch", "rewrite", "report", "export", "prune", "remove",
              "prune_exports", "remove_exports", "exited"}

Export == [name : {ExportName[p] : p \in Procs}, at : Nat, dump : Procs]

\* Type invariant of the daemon's threads, the disk and the observers.
TypeOK ==
    /\ mainPc \in MainPcs /\ gStop \in BOOLEAN /\ clientFd \in BOOLEAN
    /\ buf \in Seq(Procs \cup {Overflow})
    /\ handler \in {"none", "running", "exited"} /\ capturing \in Procs \cup {NoDump}
    /\ proc \in [Procs -> {"unborn", "held", "crashed", "gone", "unmonitored"}]
    /\ inotify \in Seq(Procs \cup {Overflow})
    /\ file \in [Procs -> {"absent", "new", "pending", "pruned"}]
    /\ mtime \in [Procs -> Nat]
    /\ partial \subseteq Procs
    /\ exports \subseteq Export
    /\ pending \in Seq(Procs) /\ stop \in BOOLEAN
    /\ doomed \in Seq(IF workerPc = "remove_exports" THEN Export ELSE Procs) /\ seen \subseteq Procs
    /\ workerPc \in WorkerPcs /\ cur \in Procs \cup {NoDump}
    /\ rateMap \in [{Signature[p] : p \in Procs} -> Nat \cup {Never}]
    /\ journal \in Seq([dump : Procs, outcome : Outcomes, at : Nat]) /\ boot \in Nat
    /\ rank \in [Procs -> Nat] /\ renamed \in Nat
    /\ now \in Nat

Settled == {journal[i].dump : i \in DOMAIN journal}
InHand == IF workerPc \in {"patch", "rewrite", "report"} THEN <<cur>> ELSE <<>>
Reported == [i \in DOMAIN journal |-> journal[i].dump]

\* Where a dump passes on its way through the daemon, the last stage first.
Stages == <<Reported, InHand, pending, buf, inotify>>

\* A dump is reported in the order of the renames into pending/ and no dump is
\* ever in two places or handled twice, across the inotify queue, a batch of
\* EnqueueInotifyEvents, the worker's queue, and restarts of the daemon.
InArrivalOrder ==
    \A k, l \in DOMAIN Stages : \A i \in DOMAIN Stages[k], j \in DOMAIN Stages[l] :
        LET d == Stages[k][i]  e == Stages[l][j]
        IN Overflow \notin {d, e} =>
              /\ rank[d] > 0
              /\ k < l \/ (k = l /\ i < j) => rank[d] < rank[e]

\* The worker never sleeps through work or the stop flag: if it is blocked with
\* something to do, the main thread is about to notify it (the push and the
\* flag are set under mu, the notification comes after the unlock).
NoLostWakeup ==
    workerPc = "blocked" /\ (pending # <<>> \/ stop) => mainPc \in {"notify", "notify_stop"}

\* RunWorker returns only after everything that was ever pushed was processed,
\* and nothing is pushed after it returned.
DrainedBeforeExit ==
    workerPc = "exited" => stop /\ pending = <<>> /\ buf = <<>>

\* The worker is told to stop only after the handler thread ended, so no dump
\* is written to the database behind the worker's back.
HandlerEndsFirst ==
    stop => handler = "exited" /\ capturing = NoDump

\* Within one run of the daemon two tombstones of one signature are at least
\* kRateLimitWindow apart.
TombstonesApart ==
    \A i, j \in (boot + 1)..Len(journal) :
        /\ i < j
        /\ journal[i].outcome = "tombstone" /\ journal[j].outcome = "tombstone"
        /\ Signature[journal[i].dump] = Signature[journal[j].dump]
        => journal[j].at - journal[i].at >= Window

\* A dump is suppressed only if a tombstone of its signature stands in the
\* journal less than kRateLimitWindow before it: suppressed dumps do not
\* themselves extend the window.
SuppressedHasTombstone ==
    \A j \in DOMAIN journal : journal[j].outcome = "suppressed" =>
        \E i \in 1..(j - 1) :
            /\ journal[i].outcome = "tombstone"
            /\ Signature[journal[i].dump] = Signature[journal[j].dump]
            /\ journal[j].at - journal[i].at < Window

\* The only complete dumps the worker fails to read are those its own pruning
\* removed before their turn, and those it could not write back: a rewrite that
\* a kill interrupts is never read.
UnreadableOnlyIfPruned ==
    \A i \in DOMAIN journal : journal[i].outcome = "unreadable" =>
        LET p == journal[i].dump
        IN  \/ p \in Malformed
            \/ file[p] = "pruned"
            \/ IOMayFail /\ p \in partial

\* Between two dumps the dumps this run has handled fit in max_bytes, whether
\* they were readable or not (when no removal fails).
HandledDumpsFit ==
    workerPc \in {"wait", "blocked"} /\ MaxBytes > 0 =>
        LET handled == {journal[i].dump : i \in (boot + 1)..Len(journal)}
        IN SumFunctionOnSet(Size, {p \in handled : file[p] = "pending"}) <= MaxBytes

\* Once a run has pruned, its export directory fits in max_bytes whenever the
\* worker is between two dumps: each of the two directories has the limit to
\* itself, and an export that replaced another does not count twice.
ExportsFit ==
    workerPc \in {"wait", "blocked"} /\ MaxBytes > 0 /\ boot < Len(journal) =>
        SumFunctionOnSet([e \in exports |-> Size[e.dump]], exports) <= MaxBytes

\* A dump that stays while a newer one is removed was not in the listing: it
\* arrived after it, or its stat() failed.  Time stamps do not tell that: a dump
\* is renamed into pending/ with the one it was written with, so it may be older
\* than what is there, and the worker's patch makes an old dump new.
OldestPrunedFirst ==
    [][\A p, q \in Procs :
          /\ file[p] = "pending" /\ file'[p] = "pruned"
          /\ file[q] = "pending" /\ file'[q] = "pending"
          /\ mtime[q] < mtime[p]
          => q \notin seen]_vars

--------------------------------------------------------------------------------
(* The abstract specification this module implements *)

Waiting == ToSet(InHand) \cup ToSet(pending) \cup ToSet(buf) \cup ToSet(inotify)

Fate(p) ==
    IF p \in Settled THEN journal[CHOOSE i \in DOMAIN journal : journal[i].dump = p].outcome
    ELSE IF p \in Waiting THEN "waiting"
    ELSE IF rank[p] > 0 THEN "missed" ELSE "none"

Delivery == INSTANCE DumpDelivery
                WITH Dumps <- Procs, up <- mainPc # "down", fate <- [p \in Procs |-> Fate(p)],
                     count <- renamed

\* Each dump has one fate, given in the order of arrival; a live daemon drops
\* nothing that reached its queues, and what it leaves behind is never taken up
\* by the next one.
ImplementsDelivery == Delivery!Spec

--------------------------------------------------------------------------------
(* Liveness, under FairSpec *)

LoopRuns == mainPc \in {"loop", "poll", "read", "enqueue", "notify"}

\* A queued dump is settled unless the daemon is killed, even while the
\* shutdown waits for the handler thread.
QueuedIsSettled ==
    \A p \in Procs : p \in ToSet(pending) ~> (p \in Settled \/ mainPc = "down")

\* An event the kernel queued is read and its dump settled as long as the event
\* loop is not left.
NotifiedIsSettled ==
    \A p \in Procs : p \in ToSet(inotify) ~> (p \in Settled \/ ~LoopRuns)

\* SIGTERM ends the daemon once no monitored process holds the shared fd.
ShutdownCompletes ==
    (<>[](Holders = {})) => (gStop ~> mainPc = "down")

--------------------------------------------------------------------------------
(* What the source says of the program *)

\* watcher.cpp: "Join after handler_thread so that any final minidumps written
\* by Crashpad are enqueued before we stop."
FinalDumpsEnqueued ==
    stop => ToSet(inotify) \subseteq {Overflow}
================================================================================
