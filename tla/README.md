# crashomon: a TLA+ model of the crash pipeline

Crashomon monitors processes for crashes.  A small client library registers each
process with a daemon, `crashomon-watcherd`; the daemon runs Crashpad's handler in a
thread, captures a minidump when a registered process crashes, writes a tombstone to
the journal, exports and prunes the dumps.  A web service and command-line tools keep
symbols and a history of crashes.

The modules here describe the parts that have state and concurrency, TLC checks them on
small instances (the `.cfg` files), and TLAPS proves the safety properties for all
instances.  `PROJECT.json` lists the components, the runs, the source
lines of every definition, a mutant for each property (a plausible bug that the property
finds), the hazards, and the theorems.

## The system

| Component | Source | State | Operations |
|---|---|---|---|
| Event loop and lifecycle | `daemon/watcher.cpp` | `g_stop`, the descriptors of `WatcherFds`, a buffer of inotify events | start, poll, accept, read, enqueue, the shutdown sequence |
| Worker | `daemon/worker.cpp` | `WorkerState`: queue, `stop`, `rate_limit_map` | wait, take, patch, read, report or suppress, export, prune |
| Disk manager | `daemon/disk_manager.cpp` | the directories `pending/` and the export path | list, prune by age and size |
| Registration socket | `daemon/crash_socket.cpp` | the socket file, the listening socket and its queue | probe, unlink, bind, chmod, listen; accept and share a descriptor |
| Client library: registration | `lib/crashomon.cpp` | the descriptor | connect with retries, receive, install the handler |
| Client library: annotations | `lib/crashomon.cpp`, `lib/exception_capture.cpp` | Crashpad's dictionary | set tags and the abort message, write the reason of an assertion or `std::terminate` |
| Minidump patcher | `daemon/minidump_patcher.cpp` | the dump file | read, find build ids, truncate and write back |
| Crashpad handler (external) | used in `daemon/watcher.cpp` | dumps under `new/`, holders of the shared descriptor | capture, rename into `pending/`, exit |
| Tombstone reader | `daemon/tombstone/`, `daemon/real_tombstone.cpp` | none | read a dump (two openings of one file), format it |
| Command line | `daemon/main.cpp` | the configuration | parse sizes, ages and options |
| Symbol store | `web/symbol_store.py`, `tools/crashomon_tools/syms` | `<module>/<build_id>/<module>.sym` | add, add an archive, list, prune, delete, find |
| Crash history | `web/app.py`, `web/models.py` | the table `crashes`, the upload directory | upload, insert, list, group, delete |
| Authentication, templates, analyzer | `web/` | none of their own | |
| Command patchdmp | `tools/crashomon_tools/patchdmp` | the dump file | the same as the patcher, with a sysroot and overrides |
| Command analyze | `tools/crashomon_tools/analyze` | none | a filter over one file |

How they interact.  A process connects to the registration socket; the main thread of
the daemon accepts and passes a descriptor by SCM_RIGHTS.  Every holder of the descriptor
keeps Crashpad's `Run()` in the handler thread alive.  A crash makes the handler write a
dump under `new/` and rename it into `pending/`, where an inotify watch reports it to the
main thread, which pushes the path on the worker's queue under a mutex and notifies a
condition variable.  The worker patches, reads, reports, exports and prunes; its prune
works on the same directory into which the handler renames.  SIGTERM ends the event
loop; then the shared descriptor is closed, the handler joined, the stop flag set, the
worker notified and joined, and the socket unlinked.  systemd starts the daemon again on
the same directory.  The web service and the tools work on shared directories and one
SQLite file, several requests and commands at a time and without locks of their own.

What is hard, and what makes each part correct.

* *Lifecycle and worker*: three threads, a bounded kernel queue, batches, lost wakeups,
  a drain at shutdown, kills anywhere.  Dumps must be settled once and in order, the
  worker must never sleep through work and never leave work behind, and the threads must
  end in their order.
* *Rate limiting*: tombstones of one signature must be a window apart, and a suppressed
  dump must have a tombstone that explains it.
* *Disk manager*: a listing goes stale while the pass works on it; removals fail; clocks
  are set.  Exactly the oldest files beyond the limits must go, no dump may be lost for
  another reason, whatever is renamed into the directory meanwhile, and OK must mean within
  the limits.
* *Socket and registration*: daemons race for a path; blocking calls without a timeout;
  a shutdown that depends on the processes it serves.  Whoever holds a descriptor of a
  live daemon must have a handler; registrations and shutdowns must end; the path of a
  daemon that serves must stay its own.
* *Annotations*: several threads write one dictionary without a lock and any of them may
  end the process between two bytes.  The tombstone must have the words of the thread
  that failed, and a message only with the type that belongs to it.
* *Dump*: the daemon and the command rewrite it in place while upgrades replace the files
  the build ids come from, and the reader takes it part by part, also half written.  The
  dump must survive, and a build id in it must be of the build that crashed.
* *Command line*: options repeat, numbers overflow, and 0 means unlimited.
* *Symbol store and crash history*: no locks, files written in place, choices made from
  times and names read earlier.  A prune must leave what it promises to keep, an answer
  must stay its client's own, and the pages of a list that changes must leave nothing
  out.

## The modules

### CrashPipeline (refines DumpDelivery, uses DiskManager)

The main thread, Crashpad's handler thread and the worker as `mainPc`, `handler` and
`workerPc`; the kernel's inotify queue, the disk, and the monitored processes around
them.  Every process crashes at most once, so a process names its dump.

| Actions | Code |
|---|---|
| `Start` | `RunWatcher` up to the two threads |
| `LoopCheck`, `PollIdle`, `LoopBreaks`, `AcceptClient`, `ReadInotify` | `RunEventLoop` |
| `EnqueueEvent`, `EnqueueDone`, `NotifyWorker` | `EnqueueInotifyEvents`; the push and the notification are two steps, since the mutex is released between them |
| `CloseClientFd`, `JoinHandler`, `SetStop`, `NotifyWorker`, `JoinWorker` | the shutdown of `RunWatcher` |
| `WorkerWait`, `SpuriousWakeup` | the mutex section of `RunWorker` |
| `Patch`, `Rewrite` | `PatchMissingBuildIds`; the file is truncated, then written |
| `ReportUnreadable`, `Suppress`, `LogTombstone`, `ExportMinidump` | `ProcessNewMinidump` |
| `ListPending`, `RemoveReport`, `PendingDone`, `ListExports`, `RemoveExport` | `PruneMinidumps`: the listing of a directory, and one step for every removal, between which the handler renames dumps into it |
| `Capture`, `RenameIntoPending`, `HandlerExit` | Crashpad (external) |
| `Kill` | SIGKILL or the watchdog: every thread, queue and map is lost, the disk stays |

`journal`, `boot`, `rank`, `renamed` and `seen` observe and guard nothing.  `IOMayFail`
lets writes, removals, reads and listings fail; a listing may also lack files whose
`stat()` failed.  The observer `rank` gives the order of the renames without another
clock.  A dump has the time stamp it was written with (`Capture`), which `rename` keeps,
and a patch makes it new; `doomed` is what a pass has still to remove, chosen at its
listing, and `seen` what that listing had.

### DumpDelivery

The abstract specification: dumps arrive, wait, and get one fate in the order of
arrival; a dump may be missed on arrival (the kernel's queue is full) and every waiting
dump is missed when the daemon ends.  `ImplementsDelivery` of CrashPipeline maps `fate`
to what the journal, the hand of the worker, the three queues and the rank say; a run
checks the refinement and `CrashPipeline_proofs` proves it.

### DiskManager, PruneMinidumps

DiskManager has the operators of the pass: `OldestFirst`, `OverSize`, `OverAge`, the running
sums of a listing (`Sums`) and the loop with its total (`LoopBody`, `PrunePass`,
`Removed`), as recursive functions of the position.  PruneMinidumps is the pass as the code
makes it: list (any part of the files, since entries may be skipped, or an error), walk,
one removal at a time, `total_bytes` carried along, an error that ends it.
`WalkIsOnePass` says that a walk removes of its listing what `Removed` picks, so
CrashPipeline may choose that set at the listing (`doomed`) and needs no total; the
removals themselves, and the arrivals between them, are steps of CrashPipeline.  Files of
equal time stamps may be listed in either order.

### ListenSocket, Registration

ListenSocket is `CreateListenSocket` one system call at a time, for several daemons of
one path whose starts may overlap in any way.  A probe is refused by a live daemon, finds
nobody, or fails of its own (no descriptor; a signal while it waits on a full queue),
which the code takes for a stale socket.  Bind, listen and what follows may fail.
`missed` observes, for a start between its probe and its unlink, the daemons that it has
not met.  Registration extends it with the processes (`DoInit`), the queue of the
listening socket, `AcceptAndShareSocket` and the shutdown's join of the handler.
`connect` blocks while the queue is full; a probe that finds a live daemon leaves a dead
connection in its queue; a connection nobody accepted is closed with the socket.  The
exchange may fail on both sides: no socket in the process, `accept4` without a
descriptor (`atLimit`, which comes and goes), `sendmsg`, `recvmsg` and
`SetHandlerSocket`.

### SymbolStore

One module of the store.  A job (a request or a command) makes one system call at a
time: `MakeDir`, `OpenSym` (which truncates), `WriteSym`; `LookAt`, `StatSym`,
`PlanRemovals`, and for every removal `UnlinkSym` and `RemoveDir`.  Calls that fail
because another job was faster end the job, as the exceptions do; an archive goes on
after an entry that fails at any call (`EntryFails`).  A file is `"stored"` or not: what
it contains is left out, for two uploads of one build id (a stripped and a full binary
share one) may leave a mixture and a failed write a part, and every job takes these for
versions like any other.  The clock may be set back.  `lone` observes the
prune no other removal has run into.

### CrashUploads

Requests that upload crashes or symbols through one directory: open, write, analyze
(the subprocess reads the file by name, or fails, which becomes the report
"(symbolication failed)") and insert, or import by the name and unlink; deletions of rows; a reader who follows
the pages of the list (`crashes`, `get_crashes`).  A page is any order of the rows by
their time, since SQLite promises none among equal times; `walk` is the reader's page and
observes which of the rows that were there at its start it has not been shown.

### Annotations, BuildIds, CrashReport

One crash, from the failing thread to the tombstone.  Annotations and BuildIds share no
state; CrashReport extends both and adds the capture between them and the reading after
them.

| Actions | Code |
|---|---|
| `Setup` | `DoInit`: `set_simple_annotations`, then `set_terminate` |
| `SetTag`, `Fail` | `crashomon_set_tag`, `crashomon_set_abort_message`; `__assert_fail`, the terminate handler (`WriteAssertAnnotation`, `WriteTerminateAnnotation`) or a signal |
| `FindEntry`, `WriteKey`, `WriteValue` | `SetKeyValue` of the dictionary (external): the search, the key and the value are three steps, between which other threads make theirs |
| `Capture` | Crashpad (external): every thread stops where it is, the dictionary and the modules are copied |
| `ReadDump`, `PatchBuffer`, `Truncate`, `WriteBack`, `WriteFails` | `PatchMissingBuildIds`, and `crashomon-patchdmp`, which is a second patcher of the same dump |
| `Replace` | a package is upgraded or removed |
| `OpenDump`, `ExtractModules`, `ExtractRegisters`, `ExtractCrashpadAnnotations` | `ReadMinidump`, part by part: header, directory and exception; modules; the thread's context; and the second opening for the annotations |
| `FormatTombstone` | `FormatTombstone` |

A text is who wrote it and of what kind it is; a build id is the build it was computed
from: what the process had `"loaded"`, what `"replaced"` it, or the `"wrong"` one an
operator named.  A module with a note (`Noted`) comes with its build id from Crashpad.
`TooLong` are the ids that do not fit into a module's record.  Two writers of the same
bytes leave `Garbled`.

A dump that is being rewritten is the beginning of one (`cut`).  Each patcher and each
step of the reader takes what it finds at its own time: of a beginning the reader may
find it unreadable, or any of its parts missing (no modules, a module without its record,
no context, either annotation without the other), and the command may patch the part it
has read and write that back.  Two patchers that write at once lay their records over
each other (`Overlaid`).

The observers say what the code accepts and the properties except: `missed`, a tag
without room; `clash`, two insertions at one entry; `disturbed`, failing threads that
another has since written over; `excused`, whether the patchers overlapped, a write
failed, a patcher or the reader met a beginning.  `crash.owed` is what the tombstone owes
the thread that died, fixed at the capture, and `crash.explained` whether the captured
message is of an exception whose type was written.  Annotations before a crash and builds
after it do not change each other, so `Process` runs only before and everything else
after `Capture`; an upgrade before the crash is the same to all as one right after it.

### CommandLine

`main()`: one argument at a time into `config`.  `ParseSize` and `ParseAge` are the
arithmetic of the code, with the widths of its integers and the factors of its units as
constants: multiplication wraps, `strtoull` saturates, a minus sign negates in the
unsigned type, an age is cut to 32 bits before it is multiplied.

## The runs

| Run | Checks | Bounds |
|---|---|---|
| pipeline_order | `TypeOK`, `InArrivalOrder`, `NoLostWakeup`, `DrainedBeforeExit`, `ImplementsDelivery` | 3 dumps, a kernel queue and batches of 2 |
| pipeline_bounded | `UnreadableOnlyIfPruned`, `OldestPrunedFirst`, `HandledDumpsFit`, `ExportsFit`, `TombstonesApart`, `SuppressedHasTombstone` | 3 dumps (one malformed, one to patch, two of one signature), sizes 1, 3 and 2, `MaxBytes` = 2, a window of 1, 2 instants |
| pipeline_live | `QueuedIsSettled`, `NotifiedIsSettled`, `ShutdownCompletes` | 2 dumps, failures allowed |
| final_dumps | violation of `FinalDumpsEnqueued` | 2 dumps |
| prune | `TypeOK`, `RemovesExactlyWhatMustGo`, `WalkIsOnePass`, `OkMeansWithinLimits` | 4 files in two directories, limits of 3 bytes and 1 second, 3 instants |
| registration | `TypeOK`, `ServingIsReachable`, `TakenOnlyUnmet`, `RegisteredIsServed`, `WaitsOnLiveQueue`, `RegistrationEnds`, `ShutdownEnds`, `ServedRegisters` | 2 daemons with 2 starts, 2 processes (one retries once, one does not), a queue for one |
| registration_live_owner | violation of `RefusesLiveOwner` | the same |
| registration_startup | violation of `StartupTolerated` | the same |
| symbols | `TypeOK`, `PruneLeavesKeep` | 3 builds, 2 jobs, keep 1, 2 instants |
| uploads | `TypeOK`, `AnswersStayOwn`, `OwnUnlessNameShared`, `PagesMissNothing` | 4 requests of three kinds, two of one name; pages of 1 row, 3 instants |
| report | `TypeOK`, `MessageOfTheCrash`, `TypeBeforeMessage`, `DumpSurvives`, `RightBuildIds`, `TombstoneNamesBuild` | 2 threads, a dictionary of 2, 3 modules, 3 requests to patchdmp, 3 program counters |
| command_line | `LimitsAsAsked` | 3 arguments of 25, widths 2^8 and 2^5 |

Why the bounds are enough to see the interesting cases.  With three dumps and a kernel
queue of two, an overflow event stands between events of dumps; with batches of two, a
batch and the queue hold events at once; one dump can be in the worker's hand, one queued
and one arriving.  With sizes 1, 3, 2 and a limit of 2 the first
dump fits, the third fits exactly and not beside the first, and the second not even alone:
a prune removes handled and queued dumps, and the
rewritten (and so newer) one while an older is renamed in behind the listing.  Two
daemons and two processes give every pair that races for the path and for the queue, two
starts that overlap, and an owner of a descriptor while another waits; a queue for one is
full with a process, a dead process or a probe in it.  (The safety properties were also
checked with starts without a bound.)  A
third build and a second job let a prune remove two versions while an archive uploads
one of them.  Three crashes at three instants and pages of one row give walks of several
pages with rows inserted before, after and between those read, and equal times.  Two
threads give every pair of tags in the dictionary, of the same and of different keys, and
a dictionary of two is full with the program's tag and the type of an exception; the
threads are symmetric.  The three modules are one linked without a note, one with a note
right behind it (so that the program counter 4 is the end of one and the begin of the
other), and one without a file, whose record is too short for the wrong id; the requests
are wrong ids from both sources, right ones, and one that writes elsewhere.  The program
counters are zero, inside a module, and at the border of two.  With factors 4, 2 and 4 and widths 256 and 32 the numbers of the
command line lie inside the widths, beyond them, beyond them only after the
multiplication, and below zero; the proof is for every width.  A clock with n values is `MaxTime`/`MaxClock` = n - 1; these, `EventLimit`,
`Backlog`, `Retries`, `MaxStarts` and `Keep` are all the bounds there are.

CrashUploads stops when every request is served, CrashReport when the tombstone is logged,
CommandLine when the daemon runs or was refused, and Registration when all starts are
used up, so their runs do not check deadlock; every other one that expects no error does.

### Fairness

`FairSpec` of CrashPipeline is weak fairness of the worker, of the main thread and of the
handler: the kernel schedules the threads of a live process, and none of their waits
lasts once its condition holds.  Nothing is assumed of the processes, of signals, kills,
the clock, or of a start.  `ShutdownCompletes` therefore has the premise that in the end
no process holds the descriptor: the code waits for exactly that.  Registration assumes
that a process and a started daemon take their next step when they can.
`RegistrationEnds` has the alternatives that a daemon stays in its shutdown, or without
descriptors: `recvmsg` has no timeout, so a process whose connection waits in the queue of
such a daemon waits as long as that lasts.  `ServedRegisters` has the alternatives that
the daemon leaves its loop, loses the path or runs out of descriptors, and that a call of
the exchange itself fails; starts are bounded, since every probe takes a place in the
queue and daemons that probe for ever could keep it full.

### What the violations show

* `FinalDumpsEnqueued`: the handler is joined after the event loop ended, so a dump it
  writes in the meantime reaches `pending/` and no queue; the comment at
  `watcher.cpp:329` expects otherwise.  The dump stays on disk unreported, also after a
  restart (`Start` watches, it does not list).
* `StartupTolerated`: between `bind` and `chmod` a process of another user is refused with
  EACCES, which `DoInit` takes as permanent.
* `RefusesLiveOwner`: `crash_socket.h:17` says of `CreateListenSocket` "Refuses to start if
  a live daemon already owns the path."  Probe and unlink are two calls, so a daemon that
  came to listen between them loses its path to a start that found it free; and every
  failure of the probe counts as a stale socket, also one that says nothing about the
  path: no descriptor for the probe (`crash_socket.cpp:44`), or a signal, whose handlers
  `main` has installed without SA_RESTART, while `connect` waits on a full queue.
  `TakenOnlyUnmet` says that these, and the end of a daemon that had lost the path before,
  are all the ways in which a daemon that serves loses it.

Further differences between comments and code, seen while modelling and with no run:
the value of `rate_limit_map` is the time of the last tombstone, not "last-seen time"
(`worker.h:59`); a suppressed dump is not exported, though `--export-path` says "each
new minidump" (`main.cpp:25`); the exported name has the time before the build id, not
after it (`main.cpp:27`, `worker.cpp:67`); `GetTotalMinidumpSize` gives 0 and not an error
when the directory cannot be listed (`disk_manager.h:32`); a dump still queued may be
pruned before its tombstone (`README.md:44`), which `UnreadableOnlyIfPruned` allows.
A browser upload takes
its time stamp before the analysis and its id after it, so the largest id of a group need
not be the most recent crash (`web/models.py:137`).  The abort message line is left out
when the message is empty, not only when both annotations are
(`docs/claude_plans/specs/2026-04-20-terminate-hooks-design.md:101`), and the type of an
exception on one thread may accompany the assertion of another (`:17` of the same).
`--patch-build-ids=auto` does not undo an earlier `never`.  `crashomon-patchdmp
--in-place` rewrites a dump in which it patched nothing.  An age of more than 2^32
seconds wraps (`50000d` is 289 days), and a size or age that cannot be parsed means
unlimited.

## The proofs

Every safety property of the runs that expect no error, invariant or action property, is a
theorem: the run shows it on a small instance, the proof for every value of the constants,
from the `ASSUME`s of the modules and the premises named below, and both speak of the same
definition.  Hardly any of the invariants is inductive as it stands; what each proof adds,
and why, is what follows.

`DiskManager_proofs` has what the proofs need of the operators of the pass, for listings of
any length, from `DiskManagerAssumption`.  `Sums` and `PrunePass` are recursive functions
over the positions of a listing.  The induction theorems of the library take an operator
as a parameter and cannot be used here; `Reaches` takes their place for one set of
numbers, from the fact that some part of a finite set contains no other (`SmallestPart`).  From it follow that the recursive functions
exist and have their values (`SumsOf`, `PassOf`), that a sum over a set
(`SumFunctionOnSet`) adds up element by element in any order (`SumOf`, `SumGrows`), that
what a pass removes is a beginning of the listing (`RemovedIsPrefix`), and `PassLeaves`:
a pass, or its first removals, take away the oldest entries, and a whole pass leaves no
more than `MaxBytes`.

`CrashPipeline_proofs`, from `PipelineAssumption`, for every set of processes and every
configuration:

* `PipelineTypeOK` from `TInv`, which adds that the worker has a dump in hand wherever it
  reads `cur`.
* `PipelineNoLostWakeup`, `PipelineDrainedBeforeExit` and `PipelineHandlerEndsFirst` from
  `ThreadsInv`.  That a blocked worker with work to do is
  about to be notified needs to know at which program counters the queue may grow and the
  flag may be set; that the queue is empty after the worker's exit needs that the main
  thread has left the loop with its buffer walked whenever `stop` holds, which needs that
  the handler ended before it.  `ThreadsInv` states, for each thread, what its program
  counter says about the flag, the buffer and the other two.
* `PipelineTombstonesApart` and `PipelineSuppressedHasTombstone` from `RateInv`: within the
  current run the map holds, for each signature, the time of its last tombstone or `Never`
  when there is none, and journal times do not exceed the clock.  A restart clears the map
  and moves `boot`, which is why `TombstonesApart` speaks of one run.
* `PipelineInArrivalOrder` from `OrderInv`.  A dump passes through five stages: the kernel's
  queue, the buffer of the event loop, the worker's queue, its hand, the journal.  Each is
  sorted by rank, everything in one stage comes before everything in the stage behind it,
  and a dump that is about to arrive has no rank yet, since a process crashes once.
* `PipelineImplementsDelivery` maps each step to one of DumpDelivery or a stutter: a rename
  to an arrival (waiting, or missed when the kernel's queue is full), the three ends of a
  report to a settlement, a kill and the end of the shutdown to `End`, which misses what
  waits.  `FateInv`, a consequence of `OrderInv`, says that a dump has one entry in the
  journal at most and is in no queue then, so that its fate is well defined; that the
  dump in hand is the oldest that waits is `OrderInv` again.
* `DeliveryInOrder`, `DeliveryNoneWaits` and `DeliveryFatesFinal` say what the promise is
  worth, from the steps of DumpDelivery alone; `PromiseInv` adds that ranks of arrived dumps
  are distinct and at most `count`, without which a new arrival might get the rank of a dump
  that waits.  `PipelineKeepsPromises` puts the two together.
* `PipelineUnreadable` from `DiskInv`: a dump cut short and not written back waits for the
  worker only while it is being rewritten; after a kill in between it is in no queue.
* `PipelineHandledDumpsFit` and `PipelineExportsFit` from `FitInv`, where removals do not
  fail (`~IOMayFail`; with failures a directory may well stay beyond its limit).  A dump
  this run has handled was there when `pending/` was listed, and a rename adds none to them,
  so what is not in `doomed` fits from the listing on (`Kept`) and all of it when the
  removals are done; the report of a dump adds to it and is always followed by a pass, and a
  restart empties it.  An export replaces one of the same name before the pass over that
  directory, into which nobody else writes.
  `PipelineOldestPrunedFirst`, from `OldestInv`, needs no such premise: while a pass
  removes, whatever it listed and has not put on its list is no older than what is on it,
  and the list goes oldest first, so a pass cut short has removed the oldest of `seen`.

`PruneMinidumps_proofs`, from `PruneAssumption`: `PruneTypeOK`, with which `total_bytes`,
unsigned in the code, never goes below zero.  `WalkInv` says why: the total is at least
what the listing has left, and if it is more, something was kept, so that from then on the
rest fits.  `PruneRemovesExactlyWhatMustGo` from `Gone`, which is that property for
the entries passed so far; `PruneWalkIsOnePass` from `SoFar`, which compares the walk with the operator
at the same position, so that CrashPipeline may choose the removals at the listing;
`PruneOkMeansWithinLimits` from `KeptInv`: what is kept and what is still to come make up
the total, though files vanish and arrive meanwhile.

`Registration_proofs`, about ListenSocket first, for every set of daemons and starts that
overlap: `SocketServingIsReachable` and `SocketTakenOnlyUnmet` from `StartInv`.  From its
`chmod()` on the socket the path names is open to all, whichever daemon's `chmod()` that
was, since a bind comes before it; and the daemon that listens at the path is among those
that a start about to unlink has not met, for either it was missed by the probe or it
came to listen after it.  Then, from `RegistrationAssumption`, for all processes, daemons,
retries and queues, overlapping starts included: `RegistrationRegisteredIsServed` and
`RegistrationWaitsOnLiveQueue` from `IInv`, which adds that a socket
listens only between `listen()` and the close, so that a bind never empties a queue
someone waits in, and that a daemon with its own copy of the descriptor serves and has
started its handler, so that an accept makes a holder only where there is one.
`RegistrationTypeOK` adds `RestInv` (retries are never below zero), and
`RegistrationImplementsSocket` that every step of Registration is one of ListenSocket or
leaves the socket alone.

`CrashReport_proofs`, from `AnnotationsAssumption`, `BuildIdsAssumption` and
`ReportAssumption` (modules do not overlap), for any modules, requests, threads and tags:

* `ReportDumpSurvives` and `ReportRightBuildIds`.  A dump may hold what
  a patcher read long before, and records of both while they write at once, so `IInv` says
  of the dump and of every buffer a patcher still holds that each record in it is honest as
  things stand now; and that, unless a write failed or a patcher had read a beginning, the
  file is a beginning only while one of them writes and no buffer is one, overlaps
  included: whoever writes last writes a whole dump.
* `ReportTombstoneNamesBuild`.  `PatchInv` follows the daemon's patch while nobody meets
  it, from the dump to its buffer and back, so that a dump it is done with is complete,
  and stays complete in the hands of a command that comes later.  `ReaderInv` says
  of the frame, after every part the reader has taken, that it names the module of the
  program counter, or none if it met a beginning.
* `ReportMessageOfTheCrash` and `ReportTypeBeforeMessage`.  `AnnotInv` says of the running
  process: as long as no two insertions met, the dictionary is a map, the one thread that
  inserts a key does so at the first free entry, a message of an exception is there only
  once its thread has written its type, and a thread that failed and was not disturbed
  since finds its own words in the entries it has written.  `CrashInv` is what the capture
  keeps of that, `LineInv` what the reader has of it unless it met a beginning.
* `ReportTypeOK`, with the same invariants.

`SymbolStore_proofs`, from `StoreAssumption`: `StoreTypeOK`, and `StorePruneLeavesKeep` from
`LoneInv`: as long as no other removal runs, what a prune has listed is there, once each,
and every version on its plan has at least `Keep` that were found no older and are not on
the plan; uploads only add to that, and a job that dies, or fails, only removes less.

`CrashUploads_proofs`, from `UploadsAssumption`: `UploadsTypeOK`; `UploadsAnswersStayOwn`,
whose `IInv` says that the counter is ahead of every id ever given, also of those whose rows
are gone; `UploadsOwnUnlessNameShared` from `OwnInv`: a request whose name no other has
used finds its own bytes at every stage or none, and a name once shared stays so;
`UploadsPagesMissNothing` from `PageInv`: of the rows the reader has still to see, those
that slipped to a page already read are of at most as many times as rows were deleted.
An insertion only moves rows to later pages, a deletion moves every later row up by one.

`CommandLine_proofs`, from
`CommandLineAssumption`: `CommandLineLimitsAsAsked`, for command lines of any length and
integers of any width, by the invariant that the configuration is that of the last option
of each kind among the arguments read.

Only model-checked: liveness, since fairness and ENABLED are out of the prover's reach
(`QueuedIsSettled`, `NotifiedIsSettled`, `ShutdownCompletes`, `RegistrationEnds`,
`ShutdownEnds`, `ServedRegisters`), and the three violations, which are traces.

## Not modelled

Bytes: the streams of a minidump, ELF sections and notes, the XOR over `.text`, and the
layout of a tombstone; a file is the build it was made of, a record its build id.  Of the
tombstone, the header fields, the registers and the probable cause: each is copied or
looked up by itself.  Rate limiting is in CrashPipeline and not repeated in CrashReport.
`--patch-build-ids=never` is `PatchBuildIds` = FALSE, which no run sets: the daemon then
is a patcher that takes no step.  `--dry-run` and `--output` of patchdmp change no dump
and are one request.  Logging, templates, authentication, the command analyze: sequential
and without shared state.  The watchdog and the systemd notifications: real time; `Kill`
covers what they can do.  `list_symbols`, `find_sym`, groups and daily counts (they only
read), the removal of a module's empty directory.  More than one module of the symbol
store: modules share nothing but the root directory.

## Plan

Everything of the first plan is modelled, and every safety property checked is proved.
Left: the hazards of `PROJECT.json` without a property, of which a failed
`InitializeWithClient` (`watcher.cpp:303`), the growth of `rate_limit_map` and the texts of
`.sym` files (what a symbolizer can meet) are the ones a model could say more about; what
`RefusesLiveOwner` would need of the code (a lock file, or a bind beside the path and a
rename) as an abstract specification of the start; proofs of what `GetTotalMinidumpSize`
and a second pass would find of a directory a first pass has left.
