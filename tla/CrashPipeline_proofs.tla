-------------------------- MODULE CrashPipeline_proofs --------------------------
(***************************************************************************)
(* Proofs about the three threads of the daemon, for any set of processes  *)
(* and any queue, batch and disk limits: type correctness, the hand-over   *)
(* between the event loop, the handler thread and the worker, the rate     *)
(* limit, the order in which dumps pass through the queues, the promise of *)
(* DumpDelivery, the dumps the worker cannot read, and what pruning leaves *)
(* on the disk.                                                            *)
(***************************************************************************)
EXTENDS CrashPipeline, DiskManager_proofs, SequenceTheorems

\* The worker has a dump in hand whenever it works on one.
CurIsDump == workerPc \in {"patch", "rewrite", "report", "export", "prune"} => cur \in Procs

Types == TypeOK /\ CurIsDump /\ (mainPc = "down" => workerPc = "none")

\* Only finitely many dumps and exports are ever on the disk, so a directory has
\* a listing.
DiskFinite == IsFiniteSet(InPending) /\ IsFiniteSet(exports)

TInv == Types /\ DiskFinite

Events == Procs \cup {Overflow}

\* The constants mean what TypeOK needs of them.
LEMMA SignatureRange == \A p \in Procs : Signature[p] \in {Signature[q] : q \in Procs}
OBVIOUS

\* The empty rate limiting map has the type of the map.
LEMMA NoLimitType == NoLimitYet \in [{Signature[p] : p \in Procs} -> Nat \cup {Never}]
BY DEF NoLimitYet

\* The kernel's queue stays a queue of events.
LEMMA QueuedType == ASSUME inotify \in Seq(Events), NEW e \in Events PROVE Queued(e) \in Seq(Events)
<1>1. Append(inotify, e) \in Seq(Events) /\ Append(inotify, Overflow) \in Seq(Events)
    BY DEF Events
<1> QED BY <1>1 DEF Queued

\* A sequence cut in two gives two sequences.
LEMMA CutType ==
    ASSUME NEW S, NEW s \in Seq(S), NEW k \in 0..Len(s)
    PROVE  SubSeq(s, 1, k) \in Seq(S) /\ SubSeq(s, k + 1, Len(s)) \in Seq(S)
<1>1. Len(s) \in Nat /\ \A i \in 1..Len(s) : s[i] \in S
    BY ElementOfSeq, LenProperties
<1>2. SubSeq(s, 1, k) \in Seq(S)
    BY <1>1, SubSeqProperties
<1>3. \A i \in (k + 1)..Len(s) : s[i] \in S
    BY <1>1
<1>4. SubSeq(s, k + 1, Len(s)) \in Seq(S)
    BY <1>1, <1>3, SubSeqProperties
<1> QED BY <1>2, <1>4

\* The initial state has the types.
LEMMA InitTInv == Init => TInv
<1> SUFFICES ASSUME Init PROVE TInv
    OBVIOUS
<1>1. rateMap \in [{Signature[p] : p \in Procs} -> Nat \cup {Never}]
    BY NoLimitType DEF Init
<1>2. /\ inotify \in Seq(Procs \cup {Overflow}) /\ buf \in Seq(Procs \cup {Overflow})
      /\ pending \in Seq(Procs) /\ journal \in Seq([dump : Procs, outcome : Outcomes, at : Nat])
      /\ workerPc = "none" /\ doomed \in Seq(Procs)
    BY DEF Init
<1>3. /\ proc \in [Procs -> {"unborn", "held", "crashed", "gone", "unmonitored"}]
      /\ file \in [Procs -> {"absent", "new", "pending", "pruned"}]
      /\ mtime \in [Procs -> Nat] /\ rank \in [Procs -> Nat]
    BY DEF Init
<1>4. InPending = {} /\ exports = {}
    BY DEF Init, InPending
<1>5. Types
    BY <1>1, <1>2, <1>3 DEF Init, Types, TypeOK, CurIsDump, MainPcs, WorkerPcs
<1> QED BY <1>4, <1>5, FS_EmptySet DEF TInv, DiskFinite

\* The processes and the handler thread keep the types.
LEMMA ProcessTypes == TInv /\ (Process \/ Handler \/ Tick) => Types'
<1> SUFFICES ASSUME TInv, Process \/ Handler \/ Tick PROVE Types'
    OBVIOUS
<1> USE DEF TInv, Types, TypeOK, CurIsDump, mainVars, handlerVars, diskVars, workerVars, pruneVars, queueVars,
            orderVars, logVars
<1>1. ASSUME NEW p \in Procs, Crash(p) \/ Quit(p) \/ Unserved(p) PROVE Types'
    BY <1>1, ZenonT(40) DEF Crash, Quit, Unserved
<1>2. ASSUME NEW p \in Procs, Capture(p) PROVE Types'
    BY <1>2 DEF Capture
<1>3. CASE RenameIntoPending
    <2>1. capturing \in Procs
        BY <1>3 DEF RenameIntoPending
    <2>2. inotify' \in Seq(Procs \cup {Overflow})
        BY <1>3, <2>1, QueuedType DEF RenameIntoPending, Events
    <2>3. /\ file' = [file EXCEPT ![capturing] = "pending"]
          /\ renamed' = renamed + 1 /\ rank' = [rank EXCEPT ![capturing] = renamed + 1]
          /\ proc' = [proc EXCEPT ![capturing] = "gone"] /\ capturing' = NoDump
          /\ UNCHANGED <<mainVars, handler, mtime, partial, exports, workerVars, queueVars, logVars, now>>
        BY <1>3 DEF RenameIntoPending
    <2> QED BY <2>1, <2>2, <2>3
<1>4. CASE HandlerExit
    BY <1>4 DEF HandlerExit
<1>5. CASE Tick
    BY <1>5 DEF Tick
<1> QED BY <1>1, <1>2, <1>3, <1>4, <1>5 DEF Process, Handler

\* The main thread keeps the types.
LEMMA MainTypes ==
    TInv /\ (EventLoop \/ LoopBreaks \/ Shutdown \/ Start \/ Sigterm \/ Kill) => Types'
<1> SUFFICES ASSUME TInv, EventLoop \/ LoopBreaks \/ Shutdown \/ Start \/ Sigterm \/ Kill
             PROVE Types'
    OBVIOUS
<1> USE DEF TInv, Types, TypeOK, CurIsDump, mainVars, handlerVars, diskVars, workerVars, pruneVars, queueVars,
            orderVars, logVars, MainPcs, WorkerPcs, MainGoes
<1>1. CASE LoopCheck BY <1>1 DEF LoopCheck
<1>2. CASE PollIdle BY <1>2 DEF PollIdle
<1>3. CASE LoopBreaks BY <1>3 DEF LoopBreaks
<1>4. ASSUME NEW p \in Procs, AcceptClient(p) PROVE Types'
    BY <1>4 DEF AcceptClient
<1>5. CASE ReadInotify
    <2> DEFINE k == IF Len(inotify) < ReadBatch THEN Len(inotify) ELSE ReadBatch
    <2>1. k \in 0..Len(inotify)
        BY PipelineAssumption, SMTT(30) DEF PipelineAssumption
    <2>a. buf' = SubSeq(inotify, 1, k) /\ inotify' = SubSeq(inotify, k + 1, Len(inotify))
        BY <1>5 DEF ReadInotify
    <2> HIDE DEF k
    <2>2. buf' \in Seq(Procs \cup {Overflow}) /\ inotify' \in Seq(Procs \cup {Overflow})
        BY <2>1, <2>a, CutType
    <2> QED BY <1>5, <2>2, ZenonT(40) DEF ReadInotify
<1>6. CASE EnqueueEvent
    <2>1. Head(buf) \in Procs \cup {Overflow} /\ Tail(buf) \in Seq(Procs \cup {Overflow})
        BY <1>6, HeadTailProperties DEF EnqueueEvent
    <2>2. pending' \in Seq(Procs)
        <3>1. CASE NamesDump(Head(buf))
            <4>1. Head(buf) \in Procs
                BY <2>1, <3>1 DEF NamesDump
            <4>2. Append(pending, Head(buf)) \in Seq(Procs)
                BY <4>1
            <4> QED BY <1>6, <3>1, <4>2 DEF EnqueueEvent
        <3>2. CASE ~NamesDump(Head(buf))
            BY <1>6, <3>2 DEF EnqueueEvent
        <3> QED BY <3>1, <3>2
    <2> QED BY <1>6, <2>1, <2>2, ZenonT(40) DEF EnqueueEvent, RestOfBuffer
<1>7. CASE EnqueueDone BY <1>7 DEF EnqueueDone
<1>8. CASE NotifyWorker BY <1>8 DEF NotifyWorker, Woken
<1>9. CASE CloseClientFd BY <1>9, ZenonT(40) DEF CloseClientFd
<1>10. CASE JoinHandler BY <1>10 DEF JoinHandler
<1>11. CASE SetStop BY <1>11 DEF SetStop
<1>12. CASE Start
    <2>1. Len(journal) \in Nat
        OBVIOUS
    <2> QED BY <1>12, <2>1 DEF Start
<1>13. CASE Sigterm BY <1>13 DEF Sigterm
<1>14. ASSUME ProcessEnds, proc' \in [Procs -> {"unborn", "held", "crashed", "gone", "unmonitored"}]
       PROVE Types'
    <2>1. rateMap' \in [{Signature[p] : p \in Procs} -> Nat \cup {Never}]
        BY <1>14, NoLimitType DEF ProcessEnds
    <2>2. /\ inotify' \in Seq(Procs \cup {Overflow}) /\ buf' \in Seq(Procs \cup {Overflow})
          /\ pending' \in Seq(Procs)
        BY <1>14 DEF ProcessEnds
    <2> QED BY <1>14, <2>1, <2>2 DEF ProcessEnds
<1>15. CASE JoinWorker BY <1>14, <1>15 DEF JoinWorker
<1>16. CASE Kill BY <1>14, <1>16 DEF Kill
<1> QED BY <1>1, <1>2, <1>3, <1>4, <1>5, <1>6, <1>7, <1>8, <1>9, <1>10, <1>11, <1>12, <1>13,
           <1>15, <1>16 DEF EventLoop, Shutdown

\* The worker thread keeps the types.
LEMMA WorkerTypes == TInv /\ (Worker \/ SpuriousWakeup) => Types'
<1> SUFFICES ASSUME TInv, Worker \/ SpuriousWakeup PROVE Types'
    OBVIOUS
<1> USE DEF TInv, Types, TypeOK, CurIsDump, mainVars, handlerVars, diskVars, workerVars, pruneVars, queueVars,
            orderVars, WorkerPcs, WorkerKeeps, NoPruning
<1>1. CASE WorkerWait
    <2>1. CASE pending # <<>> /\ TakeFront
        <3>1. Head(pending) \in Procs /\ Tail(pending) \in Seq(Procs)
            BY <2>1, HeadTailProperties
        <3> QED BY <1>1, <2>1, <3>1 DEF WorkerWait, TakeFront
    <2>2. CASE ~(pending # <<>> /\ TakeFront)
        BY <1>1, <2>2 DEF WorkerWait
    <2> QED BY <2>1, <2>2
<1>2. CASE SpuriousWakeup BY <1>2 DEF SpuriousWakeup
<1>3. CASE Patch BY <1>3 DEF Patch
<1>4. CASE Rewrite BY <1>4 DEF Rewrite
<1>5. ASSUME NEW outcome \in Outcomes, Log(outcome), cur \in Procs
      PROVE  journal' \in Seq([dump : Procs, outcome : Outcomes, at : Nat])
    <2>1. [dump |-> cur, outcome |-> outcome, at |-> now] \in [dump : Procs, outcome : Outcomes, at : Nat]
        BY <1>5
    <2> QED BY <1>5, <2>1 DEF Log
<1>6. {"tombstone", "suppressed", "unreadable"} \subseteq Outcomes
    BY DEF Outcomes
<1>7. CASE ReportUnreadable
    <2>1. journal' \in Seq([dump : Procs, outcome : Outcomes, at : Nat])
        BY <1>5, <1>6, <1>7 DEF ReportUnreadable
    <2> QED BY <1>7, <2>1 DEF ReportUnreadable
<1>8. CASE Suppress
    <2>1. journal' \in Seq([dump : Procs, outcome : Outcomes, at : Nat])
        BY <1>5, <1>6, <1>8 DEF Suppress
    <2> QED BY <1>8, <2>1 DEF Suppress
<1>9. CASE LogTombstone
    <2>1. journal' \in Seq([dump : Procs, outcome : Outcomes, at : Nat])
        BY <1>5, <1>6, <1>9 DEF LogTombstone
    <2>2. rateMap' \in [{Signature[p] : p \in Procs} -> Nat \cup {Never}]
        BY <1>9, SignatureRange DEF LogTombstone, Remember
    <2> QED BY <1>9, <2>1, <2>2 DEF LogTombstone
<1>10. CASE ExportMinidump
    <2>1. [name |-> ExportName[cur], at |-> now, dump |-> cur] \in Export
        BY <1>10 DEF ExportMinidump, Export
    <2>2. exports' = exports \/ exports' = Exported(cur)
        BY <1>10 DEF ExportMinidump
    <2>3. exports' \subseteq Export
        BY <2>1, <2>2 DEF Exported
    <2> QED BY <1>10, <2>3 DEF ExportMinidump
<1>11. CASE ListPending
    <2>1. ASSUME NEW files \in SUBSET InPending, NEW list \in OldestFirst(files, mtime)
          PROVE  Removed(list, Size, mtime, now) \in Seq(Procs)
        <3>1. Directory(files, Procs, Size, mtime)
            BY FS_Subset, PipelineAssumption DEF Directory, PipelineAssumption, DiskFinite, InPending
        <3>2. Removed(list, Size, mtime, now) \in Seq(files) /\ files \subseteq Procs
            BY <3>1, RemovedListed DEF InPending
        <3> QED BY <3>2, SeqMonotonic
    <2>2. CASE workerPc' = "wait" /\ UNCHANGED pruneVars
        BY <1>11, <2>2 DEF ListPending
    <2>3. CASE ~(workerPc' = "wait" /\ UNCHANGED pruneVars)
        <3>a. PICK files \in Listings(InPending) : \E list \in OldestFirst(files, mtime) :
                 doomed' = Removed(list, Size, mtime, now) /\ seen' = files /\ workerPc' = "remove"
            BY <1>11, <2>3 DEF ListPending
        <3>1. PICK list \in OldestFirst(files, mtime) :
                 doomed' = Removed(list, Size, mtime, now) /\ seen' = files /\ workerPc' = "remove"
            BY <3>a
        <3>2. files \in SUBSET InPending /\ InPending \subseteq Procs
            BY <3>1 DEF Listings, InPending
        <3>3. doomed' \in Seq(Procs) /\ seen' \subseteq Procs
            BY <2>1, <3>1, <3>2
        <3> QED BY <1>11, <3>1, <3>3 DEF ListPending
    <2> QED BY <2>2, <2>3
<1>12. CASE RemoveReport
    <2>1. doomed \in Seq(Procs) /\ doomed # <<>>
        BY <1>12 DEF RemoveReport
    <2>2. Head(doomed) \in Procs /\ Tail(doomed) \in Seq(Procs)
        BY <2>1, HeadTailProperties
    <2>3. /\ workerPc' \in {"remove", "wait"} /\ file' \in [Procs -> {"absent", "new", "pending", "pruned"}]
          /\ doomed' = Tail(doomed) \/ doomed' = <<>>
        BY <1>12, <2>2 DEF RemoveReport
    <2>4. doomed' \in Seq(Procs)
        <3>1. <<>> \in Seq(Procs)
            OBVIOUS
        <3> QED BY <2>2, <2>3, <3>1, Zenon
    <2> QED BY <1>12, <2>3, <2>4 DEF RemoveReport
<1>13. CASE PendingDone
    BY <1>13 DEF PendingDone, AfterPending
<1>14. CASE ListExports
    <2>1. ASSUME NEW files \in SUBSET exports, NEW stamp, stamp = [e \in exports |-> e.at],
                 NEW list \in OldestFirst(files, stamp)
          PROVE  Removed(list, [e \in exports |-> Size[e.dump]], stamp, now) \in Seq(Export)
        <3>1. Directory(files, exports, [e \in exports |-> Size[e.dump]], stamp)
            BY <2>1, FS_Subset, PipelineAssumption DEF Directory, PipelineAssumption, DiskFinite, Export
        <3>2. /\ Removed(list, [e \in exports |-> Size[e.dump]], stamp, now) \in Seq(files)
              /\ files \subseteq Export
            BY <3>1, RemovedListed
        <3> QED BY <3>2, SeqMonotonic
    <2>2. CASE workerPc' = "wait" /\ UNCHANGED doomed
        BY <1>14, <2>2 DEF ListExports
    <2>3. CASE ~(workerPc' = "wait" /\ UNCHANGED doomed)
        <3>a. PICK files \in Listings(exports) : \E list \in OldestFirst(files, [e \in exports |-> e.at]) :
                 /\ doomed' = Removed(list, [e \in exports |-> Size[e.dump]], [e \in exports |-> e.at], now)
                 /\ workerPc' = "remove_exports"
            BY <1>14, <2>3 DEF ListExports
        <3>1. PICK list \in OldestFirst(files, [e \in exports |-> e.at]) :
                 /\ doomed' = Removed(list, [e \in exports |-> Size[e.dump]], [e \in exports |-> e.at], now)
                 /\ workerPc' = "remove_exports"
            BY <3>a
        <3>2. files \in SUBSET exports
            BY <3>1 DEF Listings
        <3>3. doomed' \in Seq(Export)
            BY <2>1, <3>1, <3>2
        <3> QED BY <1>14, <3>1, <3>3 DEF ListExports
    <2> QED BY <2>2, <2>3
<1>15. CASE RemoveExport
    <2>1. workerPc = "remove_exports" /\ doomed \in Seq(Export)
        BY <1>15 DEF RemoveExport
    <2>2. CASE doomed = <<>>
        BY <1>15, <2>2 DEF RemoveExport
    <2>3. CASE doomed # <<>>
        <3>1. Tail(doomed) \in Seq(Export)
            BY <2>1, <2>3, HeadTailProperties
        <3>2. CASE workerPc' = workerPc /\ doomed' = Tail(doomed)
            BY <1>15, <2>1, <3>1, <3>2 DEF RemoveExport
        <3>3. CASE workerPc' = "wait" /\ doomed' = <<>>
            BY <1>15, <2>1, <3>3 DEF RemoveExport
        <3> QED BY <1>15, <2>3, <3>2, <3>3 DEF RemoveExport
    <2> QED BY <2>2, <2>3
<1> QED BY <1>1, <1>2, <1>3, <1>4, <1>7, <1>8, <1>9, <1>10, <1>11, <1>12, <1>13, <1>14, <1>15 DEF Worker

\* The disk stays finite: an arrival or an export adds one file.
LEMMA StepFinite == TInv /\ [Next]_vars => DiskFinite'
<1> SUFFICES ASSUME TInv, [Next]_vars PROVE DiskFinite'
    OBVIOUS
<1>1. file \in [Procs -> {"absent", "new", "pending", "pruned"}] /\ DiskFinite
    BY DEF TInv, Types, TypeOK
<1>2. \E c : InPending' \subseteq InPending \cup {c}
    <2>1. file' = file \/ \E c, v : file' = [file EXCEPT ![c] = v]
        BY DEF vars, mainVars, handlerVars, diskVars, workerVars, queueVars, orderVars, logVars, Next,
               Worker, WorkerWait, Patch, Rewrite, ReportUnreadable, Suppress, LogTombstone,
               ExportMinidump, ListPending, RemoveReport, PendingDone, ListExports, RemoveExport,
               SpuriousWakeup, EventLoop, LoopCheck, PollIdle, ReadInotify, EnqueueEvent, EnqueueDone,
               NotifyWorker, AcceptClient, LoopBreaks, Shutdown, CloseClientFd, JoinHandler, SetStop,
               JoinWorker, Kill, ProcessEnds, Process, Crash, Quit, Unserved, Start, Sigterm, Tick,
               MainGoes, Handler, Capture, RenameIntoPending, HandlerExit
    <2> QED BY <1>1, <2>1 DEF InPending
<1>3. \E x : exports' \subseteq exports \cup {x}
    BY DEF vars, mainVars, handlerVars, diskVars, workerVars, queueVars, orderVars, logVars, Next,
           Worker, WorkerWait, Patch, Rewrite, ReportUnreadable, Suppress, LogTombstone, Exported,
           ExportMinidump, ListPending, RemoveReport, PendingDone, ListExports, RemoveExport,
           SpuriousWakeup, EventLoop, LoopCheck, PollIdle, ReadInotify, EnqueueEvent, EnqueueDone,
           NotifyWorker, AcceptClient, LoopBreaks, Shutdown, CloseClientFd, JoinHandler, SetStop,
           JoinWorker, Kill, ProcessEnds, Process, Crash, Quit, Unserved, Start, Sigterm, Tick,
           MainGoes, Handler, Capture, RenameIntoPending, HandlerExit
<1>4. IsFiniteSet(InPending')
    BY <1>1, <1>2, FS_AddElement, FS_Subset DEF DiskFinite
<1>5. IsFiniteSet(exports')
    BY <1>1, <1>3, FS_AddElement, FS_Subset DEF DiskFinite
<1> QED BY <1>4, <1>5 DEF DiskFinite

\* Every step keeps the types.
LEMMA StepTInv == TInv /\ [Next]_vars => TInv'
<1>1. TInv /\ UNCHANGED vars => Types'
    BY DEF TInv, Types, TypeOK, CurIsDump, vars, mainVars, handlerVars, diskVars, workerVars, pruneVars,
           queueVars, orderVars, logVars
<1>2. TInv /\ Next => Types'
    BY ProcessTypes, MainTypes, WorkerTypes DEF Next
<1> QED BY <1>1, <1>2, StepFinite DEF TInv

\* The types hold in every reachable state of the daemon, whatever the number
\* of processes, the limits and the queue's length.
THEOREM PipelineTypeOK == Spec => []TypeOK
<1>1. TInv => TypeOK
    BY DEF TInv, Types
<1> QED BY <1>1, InitTInv, StepTInv, PTL DEF Spec
--------------------------------------------------------------------------------
(* The hand-over between the threads *)

\* What a daemon that is down left, where the shutdown stands when stop is set,
\* and who is awake.  NoLostWakeup, DrainedBeforeExit and HandlerEndsFirst are
\* not inductive one by one: that nothing is pushed after the worker returned
\* needs the order of the shutdown, and the order needs the handler's state.
ThreadsInv ==
    /\ mainPc = "down" => /\ workerPc = "none" /\ handler = "none" /\ capturing = NoDump
                          /\ pending = <<>> /\ buf = <<>> /\ ~stop
                          /\ rateMap = NoLimitYet
    /\ buf # <<>> => mainPc \in {"enqueue", "notify"}
    /\ stop => mainPc \in {"notify_stop", "join_worker"}
    /\ mainPc \in {"set_stop", "notify_stop", "join_worker"} => handler = "exited"
    /\ handler # "running" => capturing = NoDump
    /\ NoLostWakeup
    /\ workerPc = "exited" => stop /\ pending = <<>>

\* The invariant holds in the initial state.
LEMMA InitThreads == Init => ThreadsInv
BY DEF Init, ThreadsInv, NoLostWakeup

\* The two halves of a pass of PruneMinidumps.
Prunes == ListPending \/ RemoveReport \/ PendingDone \/ ListExports \/ RemoveExport
PruningPcs == {"prune", "remove", "prune_exports", "remove_exports"}

\* A pass touches no thread but the worker, no queue and no entry of a log.
LEMMA PruneGoes ==
    ASSUME Prunes
    PROVE  /\ workerPc \in PruningPcs /\ workerPc' \in (PruningPcs \ {"prune"}) \cup {"wait"}
           /\ UNCHANGED <<mainVars, handlerVars, proc, queueVars, orderVars, logVars, now>>
           /\ UNCHANGED <<rateMap, mtime, partial>>
<1> USE DEF PruningPcs, WorkerKeeps, logVars, diskVars
<1>1. CASE ListPending
    <2>1. workerPc' = "remove" \/ workerPc' = "wait"
        BY <1>1 DEF ListPending
    <2> QED BY <1>1, <2>1 DEF ListPending
<1>2. CASE RemoveReport BY <1>2 DEF RemoveReport
<1>3. CASE PendingDone BY <1>3 DEF PendingDone, AfterPending
<1>4. CASE ListExports
    <2>1. workerPc' = "remove_exports" \/ workerPc' = "wait"
        BY <1>4 DEF ListExports
    <2> QED BY <1>4, <2>1 DEF ListExports
<1>5. CASE RemoveExport BY <1>5 DEF RemoveExport
<1> QED BY <1>1, <1>2, <1>3, <1>4, <1>5 DEF Prunes

\* A pass changes the file of a dump only by removing it.
LEMMA PruneRemoves == ASSUME TInv, Prunes PROVE \A p \in Procs : file'[p] = file[p] \/ file'[p] = "pruned"
<1>1. file \in [Procs -> {"absent", "new", "pending", "pruned"}]
    BY DEF TInv, Types, TypeOK
<1> QED BY <1>1 DEF Prunes, ListPending, RemoveReport, PendingDone, ListExports, RemoveExport, diskVars

\* Every step keeps the invariant.
LEMMA StepThreads == ThreadsInv /\ [Next]_vars => ThreadsInv'
<1> SUFFICES ASSUME ThreadsInv, [Next]_vars PROVE ThreadsInv'
    OBVIOUS
<1> USE DEF ThreadsInv, NoLostWakeup, mainVars, handlerVars, diskVars, workerVars, pruneVars, queueVars,
            orderVars, logVars
<1>1. CASE UNCHANGED vars BY <1>1 DEF vars
<1>2. ASSUME NEW p \in Procs, Crash(p) \/ Quit(p) \/ Unserved(p) PROVE ThreadsInv'
    BY <1>2 DEF Crash, Quit, Unserved
<1>3. CASE Handler
    BY <1>3 DEF Handler, Capture, RenameIntoPending, HandlerExit
<1>4. CASE Tick \/ Sigterm BY <1>4 DEF Tick, Sigterm
<1>5. CASE Start BY <1>5 DEF Start
<1>6. CASE LoopCheck \/ PollIdle \/ LoopBreaks \/ \E p \in Procs : AcceptClient(p)
    BY <1>6 DEF LoopCheck, PollIdle, LoopBreaks, AcceptClient, MainGoes
<1>7. CASE ReadInotify BY <1>7 DEF ReadInotify, MainGoes
<1>8. CASE EnqueueEvent \/ EnqueueDone
    BY <1>8 DEF EnqueueEvent, EnqueueDone, RestOfBuffer, MainGoes
<1>9. CASE NotifyWorker BY <1>9 DEF NotifyWorker, Woken
<1>10. CASE CloseClientFd BY <1>10 DEF CloseClientFd, MainGoes
<1>11. CASE JoinHandler BY <1>11 DEF JoinHandler, HandlerJoined, MainGoes
<1>12. CASE SetStop BY <1>12 DEF SetStop, MainGoes
<1>13. CASE JoinWorker \/ Kill BY <1>13 DEF JoinWorker, Kill, ProcessEnds
<1>14. CASE WorkerWait
    BY <1>14 DEF WorkerWait, MayReturn, TakeFront, WorkerKeeps, NoPruning
<1>15. CASE SpuriousWakeup \/ Patch \/ Rewrite
    BY <1>15 DEF SpuriousWakeup, Patch, Rewrite, WorkerKeeps, NoPruning
<1>16. CASE ReportUnreadable \/ Suppress \/ LogTombstone
    BY <1>16 DEF ReportUnreadable, Suppress, LogTombstone, WorkerKeeps, NoPruning
<1>17. CASE ExportMinidump
    BY <1>17 DEF ExportMinidump, WorkerKeeps, NoPruning
<1>18. CASE Prunes
    BY <1>18, PruneGoes DEF PruningPcs
<1> QED BY <1>1, <1>2, <1>3, <1>4, <1>5, <1>6, <1>7, <1>8, <1>9, <1>10, <1>11, <1>12, <1>13,
           <1>14, <1>15, <1>16, <1>17, <1>18 DEF Next, Worker, Prunes, EventLoop, Shutdown, Process

\* The invariant holds in every reachable state.
LEMMA ThreadsInvariant == Spec => []ThreadsInv
BY InitThreads, StepThreads, PTL DEF Spec

\* The main thread notifies after it releases mu, and still the worker never
\* sleeps through a path or the stop flag.
THEOREM PipelineNoLostWakeup == Spec => []NoLostWakeup
<1>1. ThreadsInv => NoLostWakeup
    BY DEF ThreadsInv
<1> QED BY <1>1, ThreadsInvariant, PTL

\* RunWorker returns after it processed all that was pushed, and nothing is
\* pushed after that.
THEOREM PipelineDrainedBeforeExit == Spec => []DrainedBeforeExit
<1>1. ThreadsInv => DrainedBeforeExit
    BY DEF ThreadsInv, DrainedBeforeExit
<1> QED BY <1>1, ThreadsInvariant, PTL

\* The handler thread has ended before the worker is told to stop.
THEOREM PipelineHandlerEndsFirst == Spec => []HandlerEndsFirst
<1>1. ThreadsInv => HandlerEndsFirst
    BY DEF ThreadsInv, HandlerEndsFirst
<1> QED BY <1>1, ThreadsInvariant, PTL
--------------------------------------------------------------------------------
(* Rate limiting *)

TombstoneOf(i, sig) == journal[i].outcome = "tombstone" /\ Signature[journal[i].dump] = sig

\* Why the map limits the rate: the entry of a signature is the time of a
\* tombstone in the journal, and no tombstone of this run is later than it.
RateInv ==
    /\ boot <= Len(journal)
    /\ mainPc # "down" => \A i \in (boot + 1)..Len(journal) :
           journal[i].outcome = "tombstone" => journal[i].at <= rateMap[Signature[journal[i].dump]]
    /\ mainPc # "down" => \A sig \in {Signature[p] : p \in Procs} :
           rateMap[sig] # Never =>
               \E i \in DOMAIN journal : TombstoneOf(i, sig) /\ journal[i].at = rateMap[sig]
    /\ TombstonesApart
    /\ SuppressedHasTombstone

\* The invariant holds in the initial state.
LEMMA InitRate == Init => RateInv
BY DEF Init, RateInv, TombstonesApart, SuppressedHasTombstone

\* What Log does to the journal.
LEMMA LogAppends ==
    ASSUME TInv, cur \in Procs, NEW outcome \in Outcomes, Log(outcome)
    PROVE  /\ Len(journal) \in Nat /\ Len(journal') = Len(journal) + 1
           /\ DOMAIN journal = 1..Len(journal) /\ DOMAIN journal' = 1..(Len(journal) + 1)
           /\ \A i \in 1..Len(journal) : journal'[i] = journal[i]
           /\ journal'[Len(journal) + 1] = [dump |-> cur, outcome |-> outcome, at |-> now]
<1> DEFINE entry == [dump |-> cur, outcome |-> outcome, at |-> now]
<1>1. entry \in [dump : Procs, outcome : Outcomes, at : Nat]
    BY DEF TInv, Types, TypeOK
<1>2. journal' = Append(journal, entry) /\ journal \in Seq([dump : Procs, outcome : Outcomes, at : Nat])
    BY DEF TInv, Types, TypeOK, Log
<1> HIDE DEF entry
<1>3. /\ Len(journal') = Len(journal) + 1
      /\ \A i \in 1..Len(journal) : journal'[i] = journal[i]
      /\ journal'[Len(journal) + 1] = entry
    BY <1>1, <1>2, AppendProperties
<1>4. /\ Len(journal) \in Nat /\ DOMAIN journal = 1..Len(journal)
      /\ DOMAIN journal' = 1..Len(journal')
    BY <1>1, <1>2, LenProperties, AppendProperties
<1> QED BY <1>3, <1>4 DEF entry

\* The types of what the invariant speaks of.
LEMMA RateTypes ==
    ASSUME TInv
    PROVE  /\ boot \in Nat /\ now \in Nat /\ Len(journal) \in Nat /\ DOMAIN journal = 1..Len(journal)
           /\ \A i \in 1..Len(journal) :
                 /\ journal[i].dump \in Procs /\ journal[i].at \in Nat
                 /\ Signature[journal[i].dump] \in {Signature[p] : p \in Procs}
           /\ \A sig \in {Signature[p] : p \in Procs} : rateMap[sig] \in Nat \cup {Never}
<1>1. journal \in Seq([dump : Procs, outcome : Outcomes, at : Nat]) /\ boot \in Nat /\ now \in Nat
    BY DEF TInv, Types, TypeOK
<1>2. Len(journal) \in Nat /\ DOMAIN journal = 1..Len(journal)
      /\ \A i \in 1..Len(journal) : journal[i] \in [dump : Procs, outcome : Outcomes, at : Nat]
    BY <1>1, LenProperties, ElementOfSeq
<1>3. rateMap \in [{Signature[p] : p \in Procs} -> Nat \cup {Never}]
    BY DEF TInv, Types, TypeOK
<1> QED BY <1>1, <1>2, <1>3

\* A step that leaves the journal, the map and the run alone keeps the invariant.
LEMMA QuietRate ==
    ASSUME RateInv, UNCHANGED <<journal, boot, rateMap>>, mainPc' # "down" => mainPc # "down"
    PROVE  RateInv'
BY DEF RateInv, TombstonesApart, SuppressedHasTombstone, TombstoneOf

\* So does an entry that is not a tombstone, if a suppressed dump has a
\* tombstone behind it.
LEMMA OtherEntryRate ==
    ASSUME TInv, RateInv, mainPc # "down", cur \in Procs, UNCHANGED <<boot, rateMap, mainPc>>,
           NEW outcome \in {"suppressed", "unreadable"}, Log(outcome),
           outcome = "suppressed" => RateLimitedNow(Signature[cur])
    PROVE  RateInv'
<1> DEFINE n == Len(journal)
<1>1. /\ n \in Nat /\ Len(journal') = n + 1 /\ DOMAIN journal = 1..n /\ DOMAIN journal' = 1..(n + 1)
      /\ \A i \in 1..n : journal'[i] = journal[i]
      /\ journal'[n + 1] = [dump |-> cur, outcome |-> outcome, at |-> now]
    BY LogAppends DEF Outcomes
<1>2. boot \in Nat /\ now \in Nat
    BY RateTypes
<1> HIDE DEF n
<1>3. boot <= Len(journal)'
    BY <1>1, <1>2 DEF RateInv, n
<1>4. \A i \in (boot + 1)..(n + 1) :
          journal'[i].outcome = "tombstone" => journal'[i].at <= rateMap[Signature[journal'[i].dump]]
    BY <1>1, <1>2 DEF RateInv, n
<1>5. \A sig \in {Signature[p] : p \in Procs} : rateMap[sig] # Never =>
          \E i \in 1..n : TombstoneOf(i, sig) /\ journal[i].at = rateMap[sig]
    BY <1>1 DEF RateInv
<1>6. \A sig \in {Signature[p] : p \in Procs} : rateMap[sig] # Never =>
          \E i \in 1..(n + 1) : TombstoneOf(i, sig)' /\ journal'[i].at = rateMap[sig]
    BY <1>1, <1>5 DEF TombstoneOf
<1>7. TombstonesApart'
    BY <1>1, <1>2 DEF RateInv, TombstonesApart, n
<1>8. ASSUME outcome = "suppressed"
      PROVE  \E i \in 1..n : TombstoneOf(i, Signature[cur]) /\ now - journal[i].at < Window
    <2>1. rateMap[Signature[cur]] # Never /\ now - rateMap[Signature[cur]] < Window
        BY <1>8 DEF RateLimitedNow
    <2> QED BY <2>1, <1>5, SignatureRange
<1>9. SuppressedHasTombstone'
    <2> SUFFICES ASSUME NEW j \in 1..(n + 1), journal'[j].outcome = "suppressed"
                 PROVE  \E i \in 1..(j - 1) : /\ journal'[i].outcome = "tombstone"
                                              /\ Signature[journal'[i].dump] = Signature[journal'[j].dump]
                                              /\ journal'[j].at - journal'[i].at < Window
        BY <1>1 DEF SuppressedHasTombstone
    <2>1. CASE j \in 1..n
        BY <2>1, <1>1 DEF RateInv, SuppressedHasTombstone
    <2>2. CASE j = n + 1
        <3>1. outcome = "suppressed"
            BY <2>2, <1>1
        <3>2. PICK i \in 1..n : TombstoneOf(i, Signature[cur]) /\ now - journal[i].at < Window
            BY <3>1, <1>8
        <3>3. i \in 1..(j - 1) /\ journal'[i] = journal[i]
            BY <1>1, <2>2
        <3> QED BY <1>1, <2>2, <3>2, <3>3 DEF TombstoneOf
    <2> QED BY <1>1, <2>1, <2>2
<1> QED BY <1>1, <1>3, <1>4, <1>6, <1>7, <1>9 DEF RateInv

\* And a tombstone, because it is written only when the map allows it.
LEMMA TombstoneRate ==
    ASSUME TInv, RateInv, mainPc # "down", cur \in Procs, UNCHANGED <<boot, mainPc>>,
           Log("tombstone"), ~RateLimitedNow(Signature[cur]), rateMap' = Remember(Signature[cur])
    PROVE  RateInv'
<1> DEFINE n == Len(journal)
           s == Signature[cur]
<1>1. /\ n \in Nat /\ Len(journal') = n + 1 /\ DOMAIN journal = 1..n /\ DOMAIN journal' = 1..(n + 1)
      /\ \A i \in 1..n : journal'[i] = journal[i]
      /\ journal'[n + 1] = [dump |-> cur, outcome |-> "tombstone", at |-> now]
    BY LogAppends DEF Outcomes
<1>2. boot \in Nat /\ now \in Nat /\ Window \in Nat /\ s \in {Signature[p] : p \in Procs}
      /\ \A i \in 1..n : journal[i].at \in Nat
                          /\ Signature[journal[i].dump] \in {Signature[p] : p \in Procs}
      /\ \A sig \in {Signature[p] : p \in Procs} : rateMap[sig] \in Nat \cup {Never}
    BY RateTypes, SignatureRange, PipelineAssumption DEF PipelineAssumption
<1>3. /\ rateMap'[s] = now
      /\ \A sig \in {Signature[p] : p \in Procs} \ {s} : rateMap'[sig] = rateMap[sig]
    BY <1>2 DEF Remember, TInv, Types, TypeOK
<1>4. \A i \in (boot + 1)..n :
          journal[i].outcome = "tombstone" => journal[i].at <= rateMap[Signature[journal[i].dump]]
    BY DEF RateInv
<1>5. \A i \in (boot + 1)..n : TombstoneOf(i, s) => now - journal[i].at >= Window
    <2> SUFFICES ASSUME NEW i \in (boot + 1)..n, TombstoneOf(i, s) PROVE now - journal[i].at >= Window
        OBVIOUS
    <2>1. journal[i].at <= rateMap[s] /\ journal[i].at \in Nat
        BY <1>1, <1>2, <1>4 DEF TombstoneOf
    <2>2. rateMap[s] # Never
        BY <2>1 DEF Never
    <2>3. now - rateMap[s] >= Window /\ rateMap[s] \in Nat
        BY <1>2, <2>2 DEF RateLimitedNow
    <2> QED BY <1>2, <2>1, <2>3
<1> HIDE DEF n, s
<1>6. boot <= Len(journal)'
    BY <1>1, <1>2 DEF RateInv, n
<1>7. \A i \in (boot + 1)..(n + 1) :
          journal'[i].outcome = "tombstone" => journal'[i].at <= rateMap'[Signature[journal'[i].dump]]
    <2> SUFFICES ASSUME NEW i \in (boot + 1)..(n + 1), journal'[i].outcome = "tombstone"
                 PROVE  journal'[i].at <= rateMap'[Signature[journal'[i].dump]]
        OBVIOUS
    <2>1. CASE i = n + 1
        BY <2>1, <1>1, <1>2, <1>3 DEF s
    <2>2. CASE i \in (boot + 1)..n /\ Signature[journal[i].dump] # s
        BY <2>2, <1>1, <1>2, <1>3, <1>4
    <2>3. CASE i \in (boot + 1)..n /\ Signature[journal[i].dump] = s
        <3>1. now - journal[i].at >= Window /\ journal[i].at \in Nat
            BY <2>3, <1>1, <1>2, <1>5 DEF TombstoneOf
        <3> QED BY <3>1, <2>3, <1>1, <1>2, <1>3
    <2> QED BY <1>1, <1>2, <2>1, <2>2, <2>3
<1>8. \A sig \in {Signature[p] : p \in Procs} : rateMap'[sig] # Never =>
          \E i \in 1..(n + 1) : TombstoneOf(i, sig)' /\ journal'[i].at = rateMap'[sig]
    <2> SUFFICES ASSUME NEW sig \in {Signature[p] : p \in Procs}, rateMap'[sig] # Never
                 PROVE  \E i \in 1..(n + 1) : TombstoneOf(i, sig)' /\ journal'[i].at = rateMap'[sig]
        OBVIOUS
    <2>1. CASE sig = s
        <3>1. /\ journal'[n + 1].outcome = "tombstone" /\ Signature[journal'[n + 1].dump] = sig
              /\ journal'[n + 1].at = rateMap'[sig] /\ n + 1 \in 1..(n + 1)
            BY <2>1, <1>1, <1>3 DEF s
        <3> QED BY <3>1 DEF TombstoneOf
    <2>2. CASE sig # s
        <3>1. PICK i \in 1..n : TombstoneOf(i, sig) /\ journal[i].at = rateMap[sig]
            BY <2>2, <1>1, <1>3 DEF RateInv
        <3> QED BY <1>1, <1>3, <2>2, <3>1 DEF TombstoneOf
    <2> QED BY <2>1, <2>2
<1>9. TombstonesApart'
    <2> SUFFICES ASSUME NEW i \in (boot + 1)..(n + 1), NEW j \in (boot + 1)..(n + 1), i < j,
                        journal'[i].outcome = "tombstone", journal'[j].outcome = "tombstone",
                        Signature[journal'[i].dump] = Signature[journal'[j].dump]
                 PROVE  journal'[j].at - journal'[i].at >= Window
        BY <1>1 DEF TombstonesApart
    <2>1. i \in (boot + 1)..n /\ journal'[i] = journal[i]
        BY <1>1, <1>2
    <2>2. CASE j = n + 1
        BY <1>1, <1>2, <1>5, <2>1, <2>2 DEF TombstoneOf, s
    <2>3. CASE j \in (boot + 1)..n
        BY <1>1, <1>2, <2>1, <2>3 DEF RateInv, TombstonesApart, n
    <2> QED BY <1>1, <1>2, <2>2, <2>3
<1>10. SuppressedHasTombstone'
    BY <1>1, SMTT(30) DEF RateInv, SuppressedHasTombstone
<1> QED BY <1>1, <1>6, <1>7, <1>8, <1>9, <1>10 DEF RateInv

\* Every step keeps the invariant.
LEMMA StepRate == TInv /\ ThreadsInv /\ RateInv /\ [Next]_vars => RateInv'
<1> SUFFICES ASSUME TInv, ThreadsInv, RateInv, [Next]_vars PROVE RateInv'
    OBVIOUS
<1> USE DEF mainVars, handlerVars, diskVars, workerVars, pruneVars, queueVars, orderVars, logVars
<1>1. CASE UNCHANGED vars BY <1>1, QuietRate DEF vars
<1>2. ASSUME NEW p \in Procs, Crash(p) \/ Quit(p) \/ Unserved(p) PROVE RateInv'
    BY <1>2, QuietRate DEF Crash, Quit, Unserved
<1>3. CASE Handler
    BY <1>3, QuietRate DEF Handler, Capture, RenameIntoPending, HandlerExit
<1>4. CASE Tick \/ Sigterm BY <1>4, QuietRate DEF Tick, Sigterm
<1>5. CASE Start
    <2>1. /\ rateMap' = NoLimitYet /\ journal' = journal /\ boot' = Len(journal)
          /\ \A sig \in {Signature[p] : p \in Procs} : rateMap'[sig] = Never
        BY <1>5 DEF Start, ThreadsInv, NoLimitYet
    <2>2. Len(journal) \in Nat
        BY RateTypes
    <2> QED BY <2>1, <2>2 DEF RateInv, TombstonesApart, SuppressedHasTombstone
<1>6. CASE EventLoop
    BY <1>6, QuietRate DEF EventLoop, LoopCheck, PollIdle, ReadInotify, EnqueueEvent, EnqueueDone,
           NotifyWorker, AcceptClient, MainGoes
<1>7. CASE LoopBreaks \/ CloseClientFd \/ JoinHandler \/ SetStop
    BY <1>7, QuietRate DEF LoopBreaks, CloseClientFd, JoinHandler, SetStop, MainGoes
<1>8. CASE JoinWorker \/ Kill
    <2>1. mainPc' = "down" /\ UNCHANGED <<journal, boot>>
        BY <1>8 DEF JoinWorker, Kill, ProcessEnds
    <2> QED BY <2>1 DEF RateInv, TombstonesApart, SuppressedHasTombstone
<1>9. CASE WorkerWait \/ SpuriousWakeup \/ Patch \/ Rewrite
    BY <1>9, QuietRate DEF WorkerWait, SpuriousWakeup, Patch, Rewrite, WorkerKeeps, NoPruning
<1>10. CASE ExportMinidump
    BY <1>10, QuietRate DEF ExportMinidump, WorkerKeeps, NoPruning
<1>15. CASE Prunes
    BY <1>15, QuietRate, PruneGoes
<1>11. workerPc = "report" => mainPc # "down" /\ cur \in Procs
    BY DEF ThreadsInv, TInv, Types, CurIsDump
<1>12. CASE ReportUnreadable
    BY <1>11, <1>12, OtherEntryRate DEF ReportUnreadable, WorkerKeeps, NoPruning
<1>13. CASE Suppress
    BY <1>11, <1>13, OtherEntryRate DEF Suppress, WorkerKeeps, NoPruning
<1>14. CASE LogTombstone
    BY <1>11, <1>14, TombstoneRate DEF LogTombstone, WorkerKeeps, NoPruning
<1> QED BY <1>1, <1>2, <1>3, <1>4, <1>5, <1>6, <1>7, <1>8, <1>9, <1>10, <1>12, <1>13, <1>14,
           <1>15 DEF Next, Worker, Prunes, Shutdown, Process

\* The invariant holds in every reachable state.
LEMMA RateInvariant == Spec => []RateInv
BY InitTInv, StepTInv, InitThreads, StepThreads, InitRate, StepRate, PTL DEF Spec

\* For every window, clock and set of signatures: two tombstones of a signature
\* within one run of the daemon are a window apart.
THEOREM PipelineTombstonesApart == Spec => []TombstonesApart
<1>1. RateInv => TombstonesApart
    BY DEF RateInv
<1> QED BY <1>1, RateInvariant, PTL

\* A crash is suppressed only behind a tombstone of its signature that is less
\* than a window old.
THEOREM PipelineSuppressedHasTombstone == Spec => []SuppressedHasTombstone
<1>1. RateInv => SuppressedHasTombstone
    BY DEF RateInv
<1> QED BY <1>1, RateInvariant, PTL
--------------------------------------------------------------------------------
(* The order of arrival *)

\* For a stage s or two stages s and t of the queues, and ranks r.
Ranked(s, r) == \A i \in DOMAIN s : s[i] # Overflow => r[s[i]] > 0
Sorted(s, r) ==
    \A i, j \in DOMAIN s : i < j /\ s[i] # Overflow /\ s[j] # Overflow => r[s[i]] < r[s[j]]
Before(s, t, r) ==
    \A i \in DOMAIN s : \A j \in DOMAIN t : s[i] # Overflow /\ t[j] # Overflow => r[s[i]] < r[t[j]]
Fine(s, r) == Ranked(s, r) /\ Sorted(s, r)

\* What takes the first of t to the end of s keeps everything in order.
LEMMA MoveHead ==
    ASSUME NEW s \in Seq(Events), NEW t \in Seq(Events), t # <<>>, NEW r,
           Fine(s, r), Fine(t, r), Before(s, t, r)
    PROVE  /\ Fine(Append(s, Head(t)), r) /\ Fine(Tail(t), r)
           /\ Before(Append(s, Head(t)), Tail(t), r)
           /\ \A u \in Seq(Events) :
                 /\ Before(u, s, r) /\ Before(u, t, r)
                       => Before(u, Append(s, Head(t)), r) /\ Before(u, Tail(t), r)
                 /\ Before(s, u, r) /\ Before(t, u, r)
                       => Before(Append(s, Head(t)), u, r) /\ Before(Tail(t), u, r)
           /\ ToSet(Append(s, Head(t))) \cup ToSet(Tail(t)) = ToSet(s) \cup ToSet(t)
<1> DEFINE a == Append(s, Head(t))
           b == Tail(t)
           m == Len(s)
           n == Len(t)
<1>1. /\ m \in Nat /\ DOMAIN s = 1..m /\ n \in Nat /\ n > 0 /\ DOMAIN t = 1..n
      /\ Head(t) = t[1] /\ Head(t) \in Events
    BY LenProperties, HeadTailProperties, EmptySeq
<1>2. /\ DOMAIN a = 1..(m + 1) /\ a[m + 1] = t[1]
      /\ \A i \in 1..m : a[i] = s[i]
    BY <1>1, AppendProperties, LenProperties
<1>3. DOMAIN b = 1..(n - 1) /\ \A i \in 1..(n - 1) : b[i] = t[i + 1]
    BY <1>1, HeadTailProperties, LenProperties
<1> HIDE DEF a, b, m, n
\* where an element of the new sequences was
<1>a. \A i \in DOMAIN a : \/ i \in DOMAIN s /\ a[i] = s[i]
                          \/ i = m + 1 /\ 1 \in DOMAIN t /\ a[i] = t[1]
    <2>1. 1 \in DOMAIN t
        BY <1>1
    <2>2. \A i \in 1..(m + 1) : i \in 1..m \/ i = m + 1
        BY <1>1
    <2> QED BY <1>1, <1>2, <2>1, <2>2
<1>b. \A i \in DOMAIN b : i + 1 \in DOMAIN t /\ i + 1 > 1 /\ b[i] = t[i + 1]
    BY <1>1, <1>3
<1>4. Fine(a, r)
    <2>1. ASSUME NEW i \in DOMAIN a, a[i] # Overflow PROVE r[a[i]] > 0
        BY <1>a, <2>1 DEF Fine, Ranked
    <2>2. ASSUME NEW i \in DOMAIN a, NEW j \in DOMAIN a, i < j, a[i] # Overflow, a[j] # Overflow
          PROVE  r[a[i]] < r[a[j]]
        <3>1. i \in DOMAIN s /\ a[i] = s[i]
            BY <1>1, <1>2, <2>2
        <3>2. CASE j \in DOMAIN s /\ a[j] = s[j]
            BY <2>2, <3>1, <3>2 DEF Fine, Sorted
        <3>3. CASE 1 \in DOMAIN t /\ a[j] = t[1]
            BY <2>2, <3>1, <3>3 DEF Before
        <3> QED BY <1>a, <2>2, <3>2, <3>3
    <2> QED BY <2>1, <2>2 DEF Fine, Ranked, Sorted
<1>5. Fine(b, r)
    <2>1. ASSUME NEW i \in DOMAIN b, b[i] # Overflow PROVE r[b[i]] > 0
        BY <1>b, <2>1 DEF Fine, Ranked
    <2>2. ASSUME NEW i \in DOMAIN b, NEW j \in DOMAIN b, i < j, b[i] # Overflow, b[j] # Overflow
          PROVE  r[b[i]] < r[b[j]]
        <3>1. i + 1 \in DOMAIN t /\ j + 1 \in DOMAIN t /\ i + 1 < j + 1
              /\ b[i] = t[i + 1] /\ b[j] = t[j + 1]
            BY <1>1, <1>3, <2>2
        <3> QED BY <2>2, <3>1 DEF Fine, Sorted
    <2> QED BY <2>1, <2>2 DEF Fine, Ranked, Sorted
<1>6. Before(a, b, r)
    <2> SUFFICES ASSUME NEW i \in DOMAIN a, NEW j \in DOMAIN b, a[i] # Overflow, b[j] # Overflow
                 PROVE  r[a[i]] < r[b[j]]
        BY DEF Before
    <2>1. j + 1 \in DOMAIN t /\ 1 < j + 1 /\ b[j] = t[j + 1]
        BY <1>b, <1>3
    <2>2. CASE i \in DOMAIN s /\ a[i] = s[i]
        BY <2>1, <2>2 DEF Before
    <2>3. CASE 1 \in DOMAIN t /\ a[i] = t[1]
        BY <2>1, <2>3 DEF Fine, Sorted
    <2> QED BY <1>a, <2>2, <2>3
<1>7. ASSUME NEW u \in Seq(Events), Before(u, s, r), Before(u, t, r)
      PROVE  Before(u, a, r) /\ Before(u, b, r)
    BY <1>a, <1>b, <1>7 DEF Before
<1>8. ASSUME NEW u \in Seq(Events), Before(s, u, r), Before(t, u, r)
      PROVE  Before(a, u, r) /\ Before(b, u, r)
    BY <1>a, <1>b, <1>8 DEF Before
<1>9. ToSet(a) \cup ToSet(b) = ToSet(s) \cup ToSet(t)
    <2>1. ASSUME NEW e \in ToSet(a) \cup ToSet(b) PROVE e \in ToSet(s) \cup ToSet(t)
        BY <1>a, <1>b DEF ToSet
    <2>2. ASSUME NEW e \in ToSet(s) PROVE e \in ToSet(a)
        BY <1>1, <1>2 DEF ToSet
    <2>3. ASSUME NEW e \in ToSet(t) PROVE e \in ToSet(a) \cup ToSet(b)
        <3>1. PICK i \in 1..n : e = t[i]
            BY <1>1 DEF ToSet
        <3>2. CASE i = 1
            BY <1>1, <1>2, <3>1, <3>2 DEF ToSet
        <3>3. CASE i > 1
            <4>1. i - 1 \in 1..(n - 1) /\ b[i - 1] = t[i]
                BY <1>1, <1>3, <3>1, <3>3
            <4> QED BY <1>3, <3>1, <4>1 DEF ToSet
        <3> QED BY <3>1, <3>2, <3>3
    <2> QED BY <2>1, <2>2, <2>3
<1> QED BY <1>4, <1>5, <1>6, <1>7, <1>8, <1>9 DEF a, b

\* So does cutting s in two.
LEMMA CutInOrder ==
    ASSUME NEW s \in Seq(Events), NEW k \in 0..Len(s), NEW r, Fine(s, r)
    PROVE  LET a == SubSeq(s, 1, k)
               b == SubSeq(s, k + 1, Len(s))
           IN /\ Fine(a, r) /\ Fine(b, r) /\ Before(a, b, r)
              /\ \A u \in Seq(Events) : Before(u, s, r) => Before(u, a, r) /\ Before(u, b, r)
              /\ ToSet(a) \cup ToSet(b) = ToSet(s)
<1> DEFINE a == SubSeq(s, 1, k)
           b == SubSeq(s, k + 1, Len(s))
           n == Len(s)
<1>1. n \in Nat /\ DOMAIN s = 1..n /\ \A i \in 1..n : s[i] \in Events
    BY LenProperties, ElementOfSeq
<1>2. DOMAIN a = 1..k /\ \A i \in 1..k : a[i] = s[i]
    BY <1>1, SubSeqProperties, LenProperties
<1>3. DOMAIN b = 1..(n - k) /\ \A i \in 1..(n - k) : b[i] = s[k + i]
    <2>1. \A i \in (k + 1)..n : s[i] \in Events
        BY <1>1
    <2>2. /\ b \in Seq(Events) /\ Len(b) = IF k + 1 <= n THEN n - (k + 1) + 1 ELSE 0
          /\ \A i \in 1..(n - (k + 1) + 1) : b[i] = s[(k + 1) + i - 1]
        BY <1>1, <2>1, SubSeqProperties
    <2> HIDE DEF b, n
    <2>3. k \in 0..n
        BY DEF n
    <2>4. Len(b) = n - k
        BY <1>1, <2>2, <2>3
    <2>5. ASSUME NEW i \in 1..(n - k) PROVE b[i] = s[k + i]
        <3>1. i \in 1..(n - (k + 1) + 1) /\ (k + 1) + i - 1 = k + i
            BY <1>1, <2>3
        <3> QED BY <2>2, <3>1
    <2> QED BY <2>2, <2>4, <2>5, LenProperties
<1> HIDE DEF a, b, n
<1>a. k \in 0..n
    BY DEF n
<1>b. \A i \in DOMAIN a : i \in DOMAIN s /\ i <= k /\ a[i] = s[i]
    BY <1>1, <1>a, <1>2
<1>c. \A i \in DOMAIN b : k + i \in DOMAIN s /\ k + i > k /\ b[i] = s[k + i]
    BY <1>1, <1>a, <1>3
<1>4. Fine(a, r)
    BY <1>b DEF Fine, Ranked, Sorted
<1>5. Fine(b, r)
    <2>1. ASSUME NEW i \in DOMAIN b, b[i] # Overflow PROVE r[b[i]] > 0
        BY <1>c, <2>1 DEF Fine, Ranked
    <2>2. ASSUME NEW i \in DOMAIN b, NEW j \in DOMAIN b, i < j, b[i] # Overflow, b[j] # Overflow
          PROVE  r[b[i]] < r[b[j]]
        <3>1. k + i \in DOMAIN s /\ k + j \in DOMAIN s /\ b[i] = s[k + i] /\ b[j] = s[k + j]
            BY <1>c
        <3>2. k + i < k + j
            BY <1>a, <1>1, <1>3, <2>2
        <3> QED BY <2>2, <3>1, <3>2 DEF Fine, Sorted
    <2> QED BY <2>1, <2>2 DEF Fine, Ranked, Sorted
<1>6. Before(a, b, r)
    <2> SUFFICES ASSUME NEW i \in DOMAIN a, NEW j \in DOMAIN b, a[i] # Overflow, b[j] # Overflow
                 PROVE  r[a[i]] < r[b[j]]
        BY DEF Before
    <2>1. i \in DOMAIN s /\ k + j \in DOMAIN s /\ a[i] = s[i] /\ b[j] = s[k + j]
        BY <1>b, <1>c
    <2>2. i < k + j
        BY <1>1, <1>a, <1>2, <1>3
    <2> QED BY <2>1, <2>2 DEF Fine, Sorted
<1>7. ASSUME NEW u \in Seq(Events), Before(u, s, r) PROVE Before(u, a, r) /\ Before(u, b, r)
    BY <1>b, <1>c, <1>7 DEF Before
<1>8. ToSet(a) \cup ToSet(b) = ToSet(s)
    <2>1. ASSUME NEW e \in ToSet(a) \cup ToSet(b) PROVE e \in ToSet(s)
        BY <1>1, <1>a, <1>2, <1>3, SMTT(30) DEF ToSet
    <2>2. ASSUME NEW e \in ToSet(s) PROVE e \in ToSet(a) \cup ToSet(b)
        <3>1. PICK i \in 1..n : e = s[i]
            BY <1>1 DEF ToSet
        <3>2. CASE i <= k
            BY <1>1, <1>a, <1>2, <3>1, <3>2 DEF ToSet
        <3>3. CASE i > k
            <4>1. i - k \in 1..(n - k) /\ b[i - k] = s[i]
                BY <1>1, <1>a, <1>3, <3>1, <3>3
            <4> QED BY <1>3, <3>1, <4>1 DEF ToSet
        <3> QED BY <1>1, <1>a, <3>1, <3>2, <3>3
    <2> QED BY <2>1, <2>2
<1>9. /\ Fine(a, r) /\ Fine(b, r) /\ Before(a, b, r)
      /\ \A u \in Seq(Events) : Before(u, s, r) => Before(u, a, r) /\ Before(u, b, r)
      /\ ToSet(a) \cup ToSet(b) = ToSet(s)
    BY <1>4, <1>5, <1>6, <1>7, <1>8
<1> QED BY <1>9 DEF a, b, n

\* The five stages, each in order and before the next ones.
StagesFine(a, b, c, d, e, r) ==
    /\ Fine(a, r) /\ Fine(b, r) /\ Fine(c, r) /\ Fine(d, r) /\ Fine(e, r)
    /\ Before(a, b, r) /\ Before(a, c, r) /\ Before(a, d, r) /\ Before(a, e, r)
    /\ Before(b, c, r) /\ Before(b, d, r) /\ Before(b, e, r)
    /\ Before(c, d, r) /\ Before(c, e, r)
    /\ Before(d, e, r)

\* Why arrivals stay in order: a dump that is about to arrive has no rank yet,
\* the process of one that has arrived never crashes again, and no rank is
\* beyond the count.
OrderInv ==
    /\ StagesFine(Reported, InHand, pending, buf, inotify, rank)
    /\ \A p \in Procs : rank[p] <= renamed
    /\ \A p \in Procs : rank[p] > 0 => proc[p] = "gone"
    /\ capturing # NoDump => proc[capturing] = "crashed"

\* Each stage is a sequence of events.
LEMMA StageTypes ==
    ASSUME TInv
    PROVE  /\ Reported \in Seq(Events) /\ InHand \in Seq(Events) /\ pending \in Seq(Events)
           /\ buf \in Seq(Events) /\ inotify \in Seq(Events)
           /\ Len(Reported) = Len(journal) /\ DOMAIN Reported = DOMAIN journal
           /\ Reported \in Seq(Procs)
           /\ rank \in [Procs -> Nat] /\ renamed \in Nat
<1>1. journal \in Seq([dump : Procs, outcome : Outcomes, at : Nat])
    BY DEF TInv, Types, TypeOK
<1>2. Len(journal) \in Nat /\ DOMAIN journal = 1..Len(journal)
      /\ \A i \in 1..Len(journal) : journal[i].dump \in Procs
    BY RateTypes
<1>3. Reported \in [1..Len(journal) -> Procs]
    BY <1>2 DEF Reported
<1>4. Reported \in Seq(Procs) /\ Len(Reported) = Len(journal) /\ DOMAIN Reported = DOMAIN journal
    BY <1>2, <1>3
<1>5. Procs \subseteq Events
    BY DEF Events
<1>6. Reported \in Seq(Events) /\ pending \in Seq(Events)
    BY <1>4, <1>5, SeqMonotonic DEF TInv, Types, TypeOK
<1>7. InHand \in Seq(Events)
    BY <1>5 DEF TInv, Types, TypeOK, CurIsDump, InHand
<1> QED BY <1>4, <1>6, <1>7 DEF TInv, Types, TypeOK, Events

\* An empty stage is in order with every other.
LEMMA EmptyStage ==
    \A r : /\ Fine(<<>>, r)
           /\ \A u \in Seq(Events) : Before(u, <<>>, r) /\ Before(<<>>, u, r)
BY DEF Fine, Ranked, Sorted, Before

\* The invariant holds in the initial state.
LEMMA InitOrder == Init => OrderInv
<1> SUFFICES ASSUME Init PROVE OrderInv
    OBVIOUS
<1>1. Reported = <<>> /\ InHand = <<>> /\ pending = <<>> /\ buf = <<>> /\ inotify = <<>>
    BY DEF Init, Reported, InHand
<1>2. <<>> \in Seq(Events)
    OBVIOUS
<1>3. StagesFine(Reported, InHand, pending, buf, inotify, rank)
    BY <1>1, <1>2, EmptyStage DEF StagesFine
<1> QED BY <1>3 DEF Init, OrderInv

\* A step that leaves the stages and the ranks alone keeps it, if it lets no
\* process that has gone come back.
LEMMA QuietOrder ==
    ASSUME TInv, OrderInv, UNCHANGED <<journal, InHand, pending, buf, inotify, rank, renamed>>,
           \A p \in Procs : proc[p] = "gone" => proc'[p] = "gone",
           capturing' # NoDump => proc'[capturing'] = "crashed"
    PROVE  OrderInv'
<1>1. Reported' = Reported
    BY DEF Reported
<1> QED BY <1>1 DEF OrderInv

\* RunWorker takes the oldest path of its queue.
LEMMA TakeOrder ==
    ASSUME TInv, OrderInv, WorkerWait, workerPc' = "patch", pending # <<>>, TakeFront
    PROVE  /\ StagesFine(Reported, InHand, pending, buf, inotify, rank)'
           /\ ToSet(InHand)' \cup ToSet(pending)' = ToSet(InHand) \cup ToSet(pending)
<1>1. /\ InHand = <<>> /\ InHand' = <<Head(pending)>> /\ pending' = Tail(pending)
      /\ Reported' = Reported
      /\ UNCHANGED <<buf, inotify, rank>>
    BY DEF WorkerWait, TakeFront, InHand, WorkerKeeps, NoPruning, mainVars, orderVars, Reported
<1>2. InHand' = Append(InHand, Head(pending))
    BY <1>1
<1>3. Fine(InHand, rank) /\ Fine(pending, rank) /\ Before(InHand, pending, rank)
    BY DEF OrderInv, StagesFine
<1>4. /\ Fine(InHand', rank) /\ Fine(pending', rank) /\ Before(InHand', pending', rank)
      /\ \A u \in Seq(Events) :
            /\ Before(u, InHand, rank) /\ Before(u, pending, rank)
                  => Before(u, InHand', rank) /\ Before(u, pending', rank)
            /\ Before(InHand, u, rank) /\ Before(pending, u, rank)
                  => Before(InHand', u, rank) /\ Before(pending', u, rank)
      /\ ToSet(InHand') \cup ToSet(pending') = ToSet(InHand) \cup ToSet(pending)
    BY <1>1, <1>2, <1>3, StageTypes, MoveHead, ZenonT(40)
<1> QED BY <1>1, <1>4, StageTypes DEF OrderInv, StagesFine

\* What the journal takes from the worker's hand.
LEMMA ReportOrder ==
    ASSUME TInv, OrderInv, workerPc = "report", workerPc' \in {"prune", "export"},
           NEW outcome \in Outcomes, Log(outcome), UNCHANGED <<pending, buf, inotify, rank>>
    PROVE  /\ StagesFine(Reported, InHand, pending, buf, inotify, rank)'
           /\ InHand = <<cur>> /\ InHand' = <<>>
<1>1. InHand = <<cur>> /\ InHand' = <<>> /\ cur \in Procs
    BY DEF InHand, TInv, Types, CurIsDump
<1>2. InHand # <<>> /\ Head(InHand) = cur /\ Tail(InHand) = InHand'
    BY <1>1
<1>3. Reported' = Append(Reported, cur)
    <2>1. /\ Len(journal) \in Nat /\ Len(journal') = Len(journal) + 1
          /\ DOMAIN journal = 1..Len(journal) /\ DOMAIN journal' = 1..(Len(journal) + 1)
          /\ \A i \in 1..Len(journal) : journal'[i] = journal[i]
          /\ journal'[Len(journal) + 1] = [dump |-> cur, outcome |-> outcome, at |-> now]
        BY <1>1, LogAppends
    <2>2. Append(Reported, cur) \in Seq(Procs) /\ Len(Append(Reported, cur)) = Len(journal) + 1
          /\ \A i \in 1..Len(journal) : Append(Reported, cur)[i] = Reported[i]
          /\ Append(Reported, cur)[Len(journal) + 1] = cur
        BY <1>1, StageTypes, AppendProperties
    <2>3. \A i \in 1..(Len(journal) + 1) : journal'[i].dump = Append(Reported, cur)[i]
        BY <2>1, <2>2 DEF Reported
    <2>4. Append(Reported, cur) = [i \in 1..(Len(journal) + 1) |-> Append(Reported, cur)[i]]
        BY <2>1, <2>2, LenProperties
    <2> QED BY <2>1, <2>3, <2>4 DEF Reported
<1>4. Fine(Reported, rank) /\ Fine(InHand, rank) /\ Before(Reported, InHand, rank)
    BY DEF OrderInv, StagesFine
<1>5. /\ Fine(Reported', rank) /\ Fine(InHand', rank) /\ Before(Reported', InHand', rank)
      /\ \A u \in Seq(Events) :
            Before(Reported, u, rank) /\ Before(InHand, u, rank)
                  => Before(Reported', u, rank) /\ Before(InHand', u, rank)
    BY <1>2, <1>3, <1>4, StageTypes, MoveHead
<1> QED BY <1>1, <1>5, StageTypes DEF OrderInv, StagesFine

\* EnqueueInotifyEvents takes the first event of the batch.
LEMMA EnqueueOrder ==
    ASSUME TInv, OrderInv, EnqueueEvent
    PROVE  /\ StagesFine(Reported, InHand, pending, buf, inotify, rank)'
           /\ (ToSet(pending)' \cup ToSet(buf)') \ {Overflow} = (ToSet(pending) \cup ToSet(buf)) \ {Overflow}
<1>1. /\ buf # <<>> /\ buf' = Tail(buf) /\ Reported' = Reported /\ InHand' = InHand
      /\ UNCHANGED <<inotify, rank>>
    BY DEF EnqueueEvent, RestOfBuffer, MainGoes, Reported, InHand, workerVars, logVars
<1>2. CASE NamesDump(Head(buf))
    <2>1. pending' = Append(pending, Head(buf))
        BY <1>2 DEF EnqueueEvent
    <2> QED BY <1>1, <2>1, StageTypes, MoveHead DEF OrderInv, StagesFine
<1>3. CASE ~NamesDump(Head(buf))
    <2>1. pending' = pending /\ Head(buf) = Overflow
        BY <1>3 DEF EnqueueEvent, NamesDump
    <2>2. /\ Fine(<<>>, rank)
          /\ \A u \in Seq(Events) : Before(<<>>, u, rank) /\ Before(u, <<>>, rank)
        BY EmptyStage
    <2>b. <<>> \in Seq(Events)
        OBVIOUS
    <2>a. Fine(buf, rank) /\ Before(<<>>, buf, rank)
        BY <2>2, StageTypes DEF OrderInv, StagesFine
    <2>3. /\ Fine(Tail(buf), rank)
          /\ \A u \in Seq(Events) : /\ Before(u, buf, rank) => Before(u, Tail(buf), rank)
                                    /\ Before(buf, u, rank) => Before(Tail(buf), u, rank)
          /\ ToSet(Append(<<>>, Overflow)) \cup ToSet(Tail(buf)) = ToSet(<<>>) \cup ToSet(buf)
        BY <1>1, <2>1, <2>2, <2>a, <2>b, StageTypes, MoveHead
    <2>4. ToSet(Append(<<>>, Overflow)) = {Overflow} /\ ToSet(<<>>) = {}
        BY DEF ToSet
    <2>5. ToSet(Tail(buf)) \ {Overflow} = ToSet(buf) \ {Overflow}
        BY <2>3, <2>4
    <2> QED BY <1>1, <2>1, <2>3, <2>5, StageTypes DEF OrderInv, StagesFine
<1> QED BY <1>2, <1>3

\* read() takes a batch off the kernel's queue.
LEMMA ReadOrder ==
    ASSUME TInv, ThreadsInv, OrderInv, ReadInotify
    PROVE  /\ StagesFine(Reported, InHand, pending, buf, inotify, rank)'
           /\ ToSet(buf)' \cup ToSet(inotify)' = ToSet(buf) \cup ToSet(inotify)
<1> DEFINE k == IF Len(inotify) < ReadBatch THEN Len(inotify) ELSE ReadBatch
<1>1. k \in 0..Len(inotify)
    BY PipelineAssumption DEF PipelineAssumption, TInv, Types, TypeOK
<1>2. /\ buf = <<>> /\ buf' = SubSeq(inotify, 1, k) /\ inotify' = SubSeq(inotify, k + 1, Len(inotify))
      /\ Reported' = Reported /\ InHand' = InHand /\ UNCHANGED <<pending, rank>>
    BY DEF ReadInotify, MainGoes, ThreadsInv, workerVars, queueVars, logVars, Reported, InHand
<1> HIDE DEF k
<1>3. ToSet(buf) = {}
    BY <1>2 DEF ToSet
<1> QED BY <1>1, <1>2, <1>3, StageTypes, CutInOrder DEF OrderInv, StagesFine

\* The daemon's end empties its queues and the kernel's.
LEMMA EndOrder ==
    ASSUME TInv, OrderInv, ProcessEnds
    PROVE  /\ StagesFine(Reported, InHand, pending, buf, inotify, rank)'
           /\ InHand' = <<>> /\ pending' = <<>> /\ buf' = <<>> /\ inotify' = <<>>
<1>1. /\ InHand' = <<>> /\ pending' = <<>> /\ buf' = <<>> /\ inotify' = <<>>
      /\ Reported' = Reported /\ rank' = rank
    BY DEF ProcessEnds, InHand, Reported, logVars
<1>2. <<>> \in Seq(Events)
    OBVIOUS
<1> QED BY <1>1, <1>2, EmptyStage, StageTypes DEF OrderInv, StagesFine

\* A dump without a rank is in no stage, so that its first rank changes nothing
\* there.
LEMMA FirstRank ==
    ASSUME rank \in [Procs -> Nat], NEW p \in Procs, rank[p] = 0, NEW n \in Nat,
           NEW s \in Seq(Events), Fine(s, rank)
    PROVE  LET r == [rank EXCEPT ![p] = n]
           IN /\ \A i \in DOMAIN s : s[i] # Overflow => s[i] \in Procs /\ s[i] # p /\ r[s[i]] = rank[s[i]]
              /\ Fine(s, r)
              /\ \A t \in Seq(Events) : Fine(t, rank) /\ Before(s, t, rank) => Before(s, t, r)
<1> DEFINE r == [rank EXCEPT ![p] = n]
<1>1. ASSUME NEW u \in Seq(Events), Fine(u, rank), NEW i \in DOMAIN u, u[i] # Overflow
      PROVE  u[i] \in Procs /\ u[i] # p /\ r[u[i]] = rank[u[i]]
    <2>1. u[i] \in Events
        BY LenProperties, ElementOfSeq
    <2>2. u[i] \in Procs /\ u[i] # p
        BY <1>1, <2>1 DEF Events, Fine, Ranked
    <2> QED BY <2>2
<1> HIDE DEF r
<1>2. Fine(s, r)
    BY <1>1 DEF Fine, Ranked, Sorted
<1>3. ASSUME NEW t \in Seq(Events), Fine(t, rank), Before(s, t, rank) PROVE Before(s, t, r)
    BY <1>1, <1>3 DEF Before
<1>4. /\ \A i \in DOMAIN s : s[i] # Overflow => s[i] \in Procs /\ s[i] # p /\ r[s[i]] = rank[s[i]]
      /\ Fine(s, r)
      /\ \A t \in Seq(Events) : Fine(t, rank) /\ Before(s, t, rank) => Before(s, t, r)
    BY <1>1, <1>2, <1>3
<1> QED BY <1>4 DEF r

\* The end of a stage: an event that is no dump, or the dump of the last rank.
LEMMA AppendLast ==
    ASSUME NEW r, NEW s \in Seq(Events), Fine(s, r), NEW e \in Events,
           e # Overflow => r[e] > 0 /\ \A i \in DOMAIN s : s[i] # Overflow => r[s[i]] < r[e]
    PROVE  /\ Fine(Append(s, e), r)
           /\ \A u \in Seq(Events) :
                 /\ Before(u, s, r)
                 /\ e # Overflow => \A i \in DOMAIN u : u[i] # Overflow => r[u[i]] < r[e]
                 => Before(u, Append(s, e), r)
           /\ ToSet(Append(s, e)) = ToSet(s) \cup {e}
<1> DEFINE a == Append(s, e)
           m == Len(s)
<1>1. m \in Nat /\ DOMAIN s = 1..m
    BY LenProperties
<1>2. DOMAIN a = 1..(m + 1) /\ a[m + 1] = e /\ \A i \in 1..m : a[i] = s[i]
    BY <1>1, AppendProperties, LenProperties
<1> HIDE DEF a, m
<1>a. \A i \in DOMAIN a : \/ i \in DOMAIN s /\ a[i] = s[i]
                          \/ i = m + 1 /\ a[i] = e
    <2>1. \A i \in 1..(m + 1) : i \in 1..m \/ i = m + 1
        BY <1>1
    <2> QED BY <1>1, <1>2, <2>1
<1>3. Ranked(a, r)
    BY <1>a DEF Fine, Ranked
<1>4. Sorted(a, r)
    <2> SUFFICES ASSUME NEW i \in DOMAIN a, NEW j \in DOMAIN a, i < j, a[i] # Overflow, a[j] # Overflow
                 PROVE  r[a[i]] < r[a[j]]
        BY DEF Sorted
    <2>1. i \in DOMAIN s /\ a[i] = s[i]
        BY <1>1, <1>2
    <2>2. CASE j \in DOMAIN s /\ a[j] = s[j]
        BY <2>1, <2>2 DEF Fine, Sorted
    <2>3. CASE a[j] = e
        BY <2>1, <2>3
    <2> QED BY <1>a, <2>2, <2>3
<1>5. ASSUME NEW u \in Seq(Events), Before(u, s, r),
             e # Overflow => \A i \in DOMAIN u : u[i] # Overflow => r[u[i]] < r[e]
      PROVE  Before(u, a, r)
    BY <1>a, <1>5 DEF Before
<1>6. ToSet(a) = ToSet(s) \cup {e}
    <2>1. \A x \in ToSet(a) : x \in ToSet(s) \cup {e}
        BY <1>a DEF ToSet
    <2>2. \A x \in ToSet(s) : x \in ToSet(a)
        BY <1>1, <1>2 DEF ToSet
    <2>3. e \in ToSet(a)
        <3>1. m + 1 \in DOMAIN a
            BY <1>1, <1>2
        <3> QED BY <1>2, <3>1 DEF ToSet
    <2> QED BY <2>1, <2>2, <2>3
<1> QED BY <1>3, <1>4, <1>5, <1>6 DEF a, Fine

\* A rename gives the dump the last rank and puts it last, or nowhere.
LEMMA RenameOrder ==
    ASSUME TInv, OrderInv, RenameIntoPending
    PROVE  /\ OrderInv'
           /\ capturing \in Procs /\ rank[capturing] = 0
           /\ rank' = [rank EXCEPT ![capturing] = renamed + 1] /\ renamed' = renamed + 1
           /\ ToSet(inotify') \subseteq ToSet(inotify) \cup {capturing, Overflow}
           /\ ToSet(inotify) \subseteq ToSet(inotify')
<1> DEFINE p == capturing
           r == [rank EXCEPT ![p] = renamed + 1]
<1>1. /\ p \in Procs /\ inotify' = Queued(p) /\ renamed' = renamed + 1
      /\ rank' = [rank EXCEPT ![p] = renamed + 1]
      /\ proc' = [proc EXCEPT ![p] = "gone"] /\ capturing' = NoDump
      /\ Reported' = Reported /\ InHand' = InHand /\ UNCHANGED <<pending, buf>>
    BY DEF RenameIntoPending, TInv, Types, TypeOK, mainVars, queueVars, workerVars, logVars, Reported, InHand
<1>2. rank[p] = 0
    <2>1. rank[p] \in Nat /\ p # NoDump
        BY <1>1, StageTypes DEF RenameIntoPending
    <2>2. proc[p] = "crashed" /\ (rank[p] > 0 => proc[p] = "gone")
        BY <1>1, <2>1 DEF OrderInv
    <2> QED BY <2>1, <2>2
<1> HIDE DEF p
<1>3. /\ Reported \in Seq(Events) /\ InHand \in Seq(Events) /\ pending \in Seq(Events)
      /\ buf \in Seq(Events) /\ inotify \in Seq(Events)
      /\ rank \in [Procs -> Nat] /\ renamed \in Nat /\ p \in Events /\ Overflow \in Events
      /\ p # Overflow
    BY <1>1, StageTypes, PipelineAssumption DEF PipelineAssumption, Events
<1>4. \A s \in Seq(Events) : Fine(s, rank) =>
          /\ \A i \in DOMAIN s : s[i] # Overflow => s[i] \in Procs /\ r[s[i]] = rank[s[i]]
          /\ Fine(s, r)
          /\ \A t \in Seq(Events) : Fine(t, rank) /\ Before(s, t, rank) => Before(s, t, r)
    <2>1. renamed + 1 \in Nat
        BY <1>3
    <2> SUFFICES ASSUME NEW s \in Seq(Events), Fine(s, rank)
                 PROVE  /\ \A i \in DOMAIN s : s[i] # Overflow => s[i] \in Procs /\ r[s[i]] = rank[s[i]]
                        /\ Fine(s, r)
                        /\ \A t \in Seq(Events) : Fine(t, rank) /\ Before(s, t, rank) => Before(s, t, r)
        OBVIOUS
    <2> QED BY <1>1, <1>2, <1>3, <2>1, FirstRank, ZenonT(40)
<1>5. StagesFine(Reported, InHand, pending, buf, inotify, r)
    BY <1>3, <1>4 DEF OrderInv, StagesFine
<1>6. r[p] = renamed + 1
    BY <1>1, <1>3
<1>7. ASSUME NEW s \in Seq(Events), Fine(s, rank), NEW i \in DOMAIN s, s[i] # Overflow
      PROVE  r[s[i]] < r[p]
    BY <1>3, <1>4, <1>6, <1>7 DEF OrderInv
<1> HIDE DEF r
<1>8. /\ Fine(Reported, rank) /\ Fine(InHand, rank) /\ Fine(pending, rank) /\ Fine(buf, rank)
      /\ Fine(inotify, rank)
    BY DEF OrderInv, StagesFine
<1>9. ASSUME NEW e \in {p, Overflow}, inotify' = Append(inotify, e)
      PROVE  StagesFine(Reported, InHand, pending, buf, inotify', r)
             /\ ToSet(inotify') = ToSet(inotify) \cup {e}
    <2>1. e \in Events /\ (e # Overflow => r[e] > 0)
        BY <1>3, <1>6, <1>9
    <2>2. \A s \in Seq(Events) : Fine(s, rank) /\ e # Overflow =>
              \A i \in DOMAIN s : s[i] # Overflow => r[s[i]] < r[e]
        BY <1>7, <1>9
    <2>3. Fine(inotify, r)
        BY <1>5 DEF StagesFine
    <2>4. /\ Fine(inotify', r)
          /\ \A u \in Seq(Events) : Before(u, inotify, r) /\ Fine(u, rank) => Before(u, inotify', r)
          /\ ToSet(inotify') = ToSet(inotify) \cup {e}
        BY <1>3, <1>8, <1>9, <2>1, <2>2, <2>3, AppendLast
    <2> QED BY <1>3, <1>5, <1>8, <2>4 DEF StagesFine
<1>10. inotify' = inotify \/ \E e \in {p, Overflow} : inotify' = Append(inotify, e)
    BY <1>1 DEF Queued
<1>11. StagesFine(Reported, InHand, pending, buf, inotify', r)
       /\ ToSet(inotify') \subseteq ToSet(inotify) \cup {p, Overflow}
       /\ ToSet(inotify) \subseteq ToSet(inotify')
    BY <1>5, <1>9, <1>10
<1>12. \A q \in Procs : /\ rank'[q] <= renamed'
                        /\ rank'[q] > 0 => proc'[q] = "gone"
    BY <1>1, <1>3 DEF OrderInv, TInv, Types, TypeOK
<1>13. StagesFine(Reported, InHand, pending, buf, inotify, rank)'
    BY <1>1, <1>11 DEF r
<1>14. OrderInv'
    BY <1>1, <1>12, <1>13 DEF OrderInv
<1> QED BY <1>1, <1>2, <1>11, <1>14 DEF p

\* Every step keeps the invariant.
LEMMA StepOrder == TInv /\ ThreadsInv /\ OrderInv /\ [Next]_vars => OrderInv'
<1> SUFFICES ASSUME TInv, ThreadsInv, OrderInv, [Next]_vars PROVE OrderInv'
    OBVIOUS
<1> USE DEF mainVars, handlerVars, diskVars, workerVars, pruneVars, queueVars, orderVars, logVars
<1>a. ASSUME UNCHANGED <<rank, renamed, proc, capturing>>,
             StagesFine(Reported, InHand, pending, buf, inotify, rank)'
      PROVE  OrderInv'
    BY <1>a DEF OrderInv
<1>1. CASE UNCHANGED vars
    BY <1>1, QuietOrder DEF vars, InHand, OrderInv
<1>2. ASSUME NEW p \in Procs, Crash(p) \/ Quit(p) \/ Unserved(p) PROVE OrderInv'
    <2>1. UNCHANGED <<journal, InHand, pending, buf, inotify, rank, renamed, capturing>>
        BY <1>2 DEF Crash, Quit, Unserved, InHand
    <2>2. /\ \A q \in Procs : proc[q] = "gone" => proc'[q] = "gone"
          /\ capturing # NoDump => proc'[capturing] = "crashed"
        BY <1>2 DEF Crash, Quit, Unserved, OrderInv, ThreadsInv, TInv, Types, TypeOK
    <2> QED BY <2>1, <2>2, QuietOrder
<1>3. ASSUME NEW p \in Procs, Capture(p) PROVE OrderInv'
    BY <1>3, QuietOrder DEF Capture, InHand
<1>4. CASE RenameIntoPending
    BY <1>4, RenameOrder
<1>5. CASE HandlerExit \/ Tick \/ Sigterm
    BY <1>5, QuietOrder DEF HandlerExit, Tick, Sigterm, InHand, OrderInv
<1>6. CASE Start
    BY <1>6, QuietOrder DEF Start, InHand, ThreadsInv, OrderInv
<1>7. CASE LoopCheck \/ PollIdle \/ LoopBreaks \/ EnqueueDone
    BY <1>7, QuietOrder DEF LoopCheck, PollIdle, LoopBreaks, EnqueueDone, MainGoes, InHand, OrderInv
<1>8. ASSUME NEW p \in Procs, AcceptClient(p) PROVE OrderInv'
    <2>1. UNCHANGED <<journal, InHand, pending, buf, inotify, rank, renamed, capturing>>
        BY <1>8 DEF AcceptClient, MainGoes, InHand
    <2>2. /\ \A q \in Procs : proc[q] = "gone" => proc'[q] = "gone"
          /\ capturing # NoDump => proc'[capturing] = "crashed"
        BY <1>8 DEF AcceptClient, OrderInv, TInv, Types, TypeOK
    <2> QED BY <2>1, <2>2, QuietOrder
<1>9. CASE ReadInotify
    BY <1>9, <1>a, ReadOrder DEF ReadInotify, MainGoes
<1>10. CASE EnqueueEvent
    <2>1. UNCHANGED <<rank, renamed, proc, capturing>>
        BY <1>10 DEF EnqueueEvent, MainGoes
    <2> QED BY <1>10, <1>a, <2>1, EnqueueOrder
<1>11. CASE NotifyWorker
    BY <1>11, QuietOrder DEF NotifyWorker, Woken, InHand, OrderInv
<1>12. CASE CloseClientFd \/ JoinHandler \/ SetStop
    BY <1>12, QuietOrder DEF CloseClientFd, JoinHandler, SetStop, MainGoes, InHand, OrderInv
<1>13. CASE JoinWorker
    <2>1. UNCHANGED <<rank, renamed, proc>> /\ capturing' = NoDump
        BY <1>13 DEF JoinWorker, ProcessEnds
    <2> QED BY <1>13, <2>1, EndOrder DEF JoinWorker, OrderInv
<1>14. CASE Kill
    <2>1. UNCHANGED <<rank, renamed>> /\ capturing' = NoDump
        BY <1>14 DEF Kill, ProcessEnds
    <2>2. \A q \in Procs : proc[q] = "gone" => proc'[q] = "gone"
        BY <1>14 DEF Kill, Holders
    <2> QED BY <1>14, <2>1, <2>2, EndOrder DEF Kill, OrderInv
<1>15. CASE WorkerWait
    <2>1. CASE pending # <<>> /\ TakeFront /\ workerPc' = "patch"
        BY <1>15, <1>a, <2>1, TakeOrder DEF WorkerWait, WorkerKeeps, NoPruning
    <2>2. CASE ~(pending # <<>> /\ TakeFront /\ workerPc' = "patch")
        BY <1>15, <2>2, QuietOrder DEF WorkerWait, WorkerKeeps, NoPruning, InHand, OrderInv
    <2> QED BY <2>1, <2>2
<1>16. CASE SpuriousWakeup \/ Patch \/ Rewrite
    BY <1>16, QuietOrder DEF SpuriousWakeup, Patch, Rewrite, WorkerKeeps, NoPruning, InHand, OrderInv
<1>17. ASSUME workerPc = "report", workerPc' \in {"prune", "export"}, NEW outcome \in Outcomes,
              Log(outcome), UNCHANGED <<queueVars, orderVars, mainVars, handlerVars, proc>>
       PROVE  OrderInv'
    BY <1>17, <1>a, ReportOrder
<1>18. CASE ReportUnreadable
    BY <1>17, <1>18 DEF ReportUnreadable, WorkerKeeps, NoPruning, Outcomes
<1>19. CASE Suppress
    BY <1>17, <1>19 DEF Suppress, WorkerKeeps, NoPruning, Outcomes
<1>20. CASE LogTombstone
    BY <1>17, <1>20 DEF LogTombstone, WorkerKeeps, NoPruning, Outcomes
<1>21. CASE ExportMinidump
    BY <1>21, QuietOrder DEF ExportMinidump, WorkerKeeps, NoPruning, InHand, OrderInv
<1>22. CASE Prunes
    BY <1>22, PruneGoes, QuietOrder DEF PruningPcs, InHand, OrderInv
<1> QED BY <1>1, <1>2, <1>3, <1>4, <1>5, <1>6, <1>7, <1>8, <1>9, <1>10, <1>11, <1>12, <1>13,
           <1>14, <1>15, <1>16, <1>18, <1>19, <1>20, <1>21, <1>22
        DEF Next, Worker, Prunes, EventLoop, Shutdown, Handler, Process

\* The invariant holds in every reachable state.
LEMMA OrderInvariant == Spec => []OrderInv
BY InitTInv, StepTInv, InitThreads, StepThreads, InitOrder, StepOrder, PTL DEF Spec

\* For any number of dumps, any kernel queue and any batch: dumps pass through
\* the daemon in the order of their renames, each in one place only.
THEOREM PipelineInArrivalOrder == Spec => []InArrivalOrder
<1>1. OrderInv => InArrivalOrder
    <2> SUFFICES ASSUME OrderInv, NEW k \in 1..5, NEW l \in 1..5,
                        NEW i \in DOMAIN Stages[k], NEW j \in DOMAIN Stages[l],
                        Stages[k][i] # Overflow, Stages[l][j] # Overflow
                 PROVE  /\ rank[Stages[k][i]] > 0
                        /\ k < l \/ (k = l /\ i < j) => rank[Stages[k][i]] < rank[Stages[l][j]]
        BY DEF InArrivalOrder, Stages
    <2>1. \A s \in {Reported, InHand, pending, buf, inotify} : Fine(s, rank)
        BY DEF OrderInv, StagesFine
    <2>2. Stages[k] \in {Reported, InHand, pending, buf, inotify}
        BY DEF Stages
    <2>3. k < l => Before(Stages[k], Stages[l], rank)
        BY DEF OrderInv, StagesFine, Stages
    <2> QED BY <2>1, <2>2, <2>3 DEF Fine, Ranked, Sorted, Before
<1> QED BY <1>1, OrderInvariant, PTL
--------------------------------------------------------------------------------
(* The promise of DumpDelivery *)

\* What a dump's fate says of where it is: a dump has one entry in the journal
\* at most, and is not in a queue once it has one.
FateInv ==
    /\ \A p \in Procs : p \in Waiting => rank[p] > 0 /\ p \notin Settled
    /\ \A p \in Settled : p \in Procs /\ rank[p] > 0 /\ Fate(p) \in Outcomes
    /\ \A i \in DOMAIN journal : Fate(journal[i].dump) = journal[i].outcome

\* That is so whenever the dumps are in order.
LEMMA FateFacts == TInv /\ OrderInv => FateInv
<1> SUFFICES ASSUME TInv, OrderInv PROVE FateInv
    OBVIOUS
<1>1. /\ DOMAIN Reported = DOMAIN journal /\ \A i \in DOMAIN journal : Reported[i] = journal[i].dump
      /\ DOMAIN journal = 1..Len(journal) /\ Len(journal) \in Nat
      /\ \A i \in DOMAIN journal : journal[i].dump \in Procs /\ journal[i].outcome \in Outcomes
    <2>1. journal \in Seq([dump : Procs, outcome : Outcomes, at : Nat])
        BY DEF TInv, Types, TypeOK
    <2>2. \A i \in 1..Len(journal) : journal[i] \in [dump : Procs, outcome : Outcomes, at : Nat]
        BY <2>1, ElementOfSeq
    <2> QED BY <2>2, RateTypes DEF Reported
<1>2. \A p \in Procs : p # Overflow
    BY PipelineAssumption DEF PipelineAssumption
<1>3. \A p \in Settled : \E i \in DOMAIN Reported : Reported[i] = p /\ p \in Procs
    BY <1>1 DEF Settled
<1>4. ASSUME NEW s, Fine(s, rank), Before(Reported, s, rank), NEW p \in Procs, p \in ToSet(s)
      PROVE  rank[p] > 0 /\ p \notin Settled
    <2>1. PICK i \in DOMAIN s : s[i] = p
        BY <1>4 DEF ToSet
    <2>2. rank[p] > 0
        BY <1>2, <1>4, <2>1 DEF Fine, Ranked
    <2>3. ASSUME p \in Settled PROVE FALSE
        <3>1. PICK j \in DOMAIN Reported : Reported[j] = p
            BY <1>3, <2>3
        <3>2. rank[p] < rank[p]
            BY <1>2, <1>4, <2>1, <3>1 DEF Before
        <3>3. rank[p] \in Nat
            BY StageTypes
        <3> QED BY <3>2, <3>3
    <2> QED BY <2>2, <2>3
<1>5. \A p \in Procs : p \in Waiting => rank[p] > 0 /\ p \notin Settled
    BY <1>4 DEF Waiting, OrderInv, StagesFine
<1>6. \A i, j \in DOMAIN journal : journal[i].dump = journal[j].dump => i = j
    <2> SUFFICES ASSUME NEW i \in DOMAIN journal, NEW j \in DOMAIN journal,
                        journal[i].dump = journal[j].dump, i < j
                 PROVE  FALSE
        BY <1>1
    <2>1. rank[journal[i].dump] < rank[journal[j].dump]
        BY <1>1, <1>2 DEF OrderInv, StagesFine, Fine, Sorted
    <2>2. rank[journal[i].dump] \in Nat
        BY <1>1, StageTypes
    <2> QED BY <2>1, <2>2
<1>7. ASSUME NEW i \in DOMAIN journal PROVE Fate(journal[i].dump) = journal[i].outcome
    <2>1. journal[i].dump \in Settled
        BY DEF Settled
    <2>2. (CHOOSE j \in DOMAIN journal : journal[j].dump = journal[i].dump) = i
        BY <1>6
    <2> QED BY <2>1, <2>2 DEF Fate
<1>8. ASSUME NEW p \in Settled PROVE p \in Procs /\ rank[p] > 0 /\ Fate(p) \in Outcomes
    <2>1. PICK i \in DOMAIN journal : journal[i].dump = p
        BY DEF Settled
    <2>2. Fate(p) \in Outcomes
        BY <1>1, <1>7, <2>1
    <2>3. rank[p] > 0
        BY <1>1, <1>2, <2>1 DEF OrderInv, StagesFine, Fine, Ranked
    <2> QED BY <1>1, <2>1, <2>2, <2>3
<1> QED BY <1>5, <1>7, <1>8 DEF FateInv

\* An outcome is none of the other fates.
LEMMA OutcomesApart == {"none", "waiting", "missed"} \cap Outcomes = {}
BY DEF Outcomes

\* A dump's fate changes with the journal, the queues and the ranks only.
LEMMA SameFate ==
    ASSUME journal' = journal, NEW p, rank'[p] = rank[p],
           p \in Waiting' <=> p \in Waiting
    PROVE  Fate(p)' = Fate(p)
BY DEF Fate, Settled

\* What moves dumps from one queue to the next is no step of the promise.
LEMMA MoveStutters ==
    ASSUME UNCHANGED <<journal, rank, renamed>>, (mainPc # "down")' <=> mainPc # "down",
           Waiting' \ {Overflow} = Waiting \ {Overflow}
    PROVE  UNCHANGED Delivery!vars
<1>1. \A p \in Procs : Fate(p)' = Fate(p)
    <2> TAKE p \in Procs
    <2>1. p # Overflow
        BY PipelineAssumption DEF PipelineAssumption
    <2> QED BY <2>1, SameFate
<1> QED BY <1>1 DEF Delivery!vars

\* A rename is the arrival of the dump.
LEMMA RenameArrives ==
    ASSUME TInv, ThreadsInv, OrderInv, RenameIntoPending
    PROVE  \E p \in Procs : Delivery!Arrive(p)
<1>1. capturing \in Procs /\ capturing # NoDump /\ rank[capturing] = 0
      /\ rank' = [rank EXCEPT ![capturing] = renamed + 1] /\ renamed' = renamed + 1
      /\ ToSet(inotify') \subseteq ToSet(inotify) \cup {capturing, Overflow}
      /\ ToSet(inotify) \subseteq ToSet(inotify')
    BY RenameOrder DEF RenameIntoPending
<1>2. mainPc # "down" /\ mainPc' = mainPc
    BY <1>1 DEF ThreadsInv, RenameIntoPending, mainVars
<1>3. UNCHANGED <<journal, InHand, pending, buf>>
    BY DEF RenameIntoPending, mainVars, queueVars, workerVars, logVars, InHand
<1>4. capturing \notin Settled /\ capturing \notin Waiting
    BY <1>1, FateFacts DEF FateInv
<1>d. PICK d \in Procs : d = capturing
    BY <1>1
<1>5. Fate(d) = "none"
    BY <1>1, <1>4, <1>d DEF Fate
<1>6. Settled' = Settled
    BY <1>3 DEF Settled
<1>7. \E f \in {"waiting", "missed"} : Fate(d)' = f
    <2>1. rank'[d] > 0
        BY <1>1, <1>d, StageTypes
    <2> QED BY <1>4, <1>6, <1>d, <2>1 DEF Fate
<1>8. ASSUME NEW q \in Procs, q # d PROVE Fate(q)' = Fate(q)
    <2>1. q # Overflow
        BY PipelineAssumption DEF PipelineAssumption
    <2>2. q \in ToSet(inotify') <=> q \in ToSet(inotify)
        BY <1>1, <1>8, <1>d, <2>1
    <2>3. q \in Waiting' <=> q \in Waiting
        BY <1>3, <2>2 DEF Waiting
    <2>4. rank'[q] = rank[q]
        BY <1>1, <1>8, <1>d, StageTypes
    <2> QED BY <1>3, <2>3, <2>4, SameFate
<1>9. ASSUME NEW f, Fate(d)' = f
      PROVE  [p \in Procs |-> Fate(p)]' = [[p \in Procs |-> Fate(p)] EXCEPT ![d] = f]
    BY <1>8, <1>9
<1>10. Delivery!Arrive(d)
    BY <1>1, <1>2, <1>5, <1>7, <1>9, <1>d DEF Delivery!Arrive
<1> QED BY <1>10

\* What the worker logs settles the oldest dump that waits.
LEMMA ReportSettles ==
    ASSUME TInv, ThreadsInv, OrderInv, FateInv',
           workerPc = "report", workerPc' \in {"prune", "export"},
           NEW outcome \in Outcomes, Log(outcome), UNCHANGED <<pending, buf, inotify, rank, renamed, mainPc, cur>>
    PROVE  \E p \in Procs : Delivery!Settle(p)
<1>1. InHand = <<cur>> /\ InHand' = <<>> /\ cur \in Procs /\ mainPc # "down"
    BY ReportOrder DEF TInv, Types, CurIsDump, ThreadsInv
<1>2. ToSet(InHand) = {cur} /\ ToSet(InHand') = {} /\ DOMAIN InHand = {1} /\ InHand[1] = cur
    BY <1>1 DEF ToSet
<1>3. \A p \in Procs : p # Overflow
    BY PipelineAssumption DEF PipelineAssumption
<1>4. cur \in Waiting /\ cur \notin Settled
    BY <1>1, <1>2, FateFacts, OutcomesApart DEF FateInv, Waiting
<1>d. PICK d \in Procs : d = cur
    BY <1>1
<1>5. Fate(d) = "waiting"
    BY <1>4, <1>d DEF Fate
<1>6. ASSUME NEW e \in Procs, Fate(e) = "waiting" PROVE rank[cur] <= rank[e]
    <2>1. e \in Waiting
        BY <1>6, FateFacts, OutcomesApart DEF FateInv, Fate
    <2>2. rank[cur] \in Nat
        BY <1>1, StageTypes
    <2>3. CASE e = cur
        BY <2>2, <2>3
    <2>4. ASSUME NEW s, Before(InHand, s, rank), e \in ToSet(s) PROVE rank[cur] < rank[e]
        <3>1. PICK j \in DOMAIN s : s[j] = e
            BY <2>4 DEF ToSet
        <3> QED BY <1>1, <1>2, <1>3, <2>4, <3>1 DEF Before
    <2>5. CASE e \in ToSet(pending) \cup ToSet(buf) \cup ToSet(inotify)
        <3>1. rank[cur] < rank[e]
            BY <2>4, <2>5 DEF OrderInv, StagesFine
        <3> QED BY <3>1, <1>1, StageTypes
    <2> QED BY <1>2, <2>1, <2>3, <2>5 DEF Waiting
<1>7. /\ DOMAIN journal = 1..Len(journal) /\ Len(journal) \in Nat /\ DOMAIN journal' = 1..(Len(journal) + 1)
      /\ \A i \in 1..Len(journal) : journal'[i] = journal[i]
      /\ journal'[Len(journal) + 1] = [dump |-> cur, outcome |-> outcome, at |-> now]
    BY <1>1, LogAppends
<1>8. ASSUME NEW i \in 1..(Len(journal) + 1), NEW p, p = journal'[i].dump
      PROVE  Fate(p)' = journal'[i].outcome
    <2>1. (\A j \in DOMAIN journal : \A q : q = journal[j].dump => Fate(q) = journal[j].outcome)'
        BY DEF FateInv
    <2> QED BY <1>7, <1>8, <2>1
<1>9. Fate(d)' = outcome
    BY <1>7, <1>8, <1>d
<1>10. ASSUME NEW p \in Procs, p # d PROVE Fate(p)' = Fate(p)
    <2>1. CASE p \in Settled
        <3>1. PICK i \in DOMAIN journal : journal[i].dump = p
            BY <2>1 DEF Settled
        <3>2. i \in 1..(Len(journal) + 1) /\ journal'[i] = journal[i]
            BY <1>7
        <3>3. Fate(p)' = journal[i].outcome
            BY <1>8, <3>1, <3>2
        <3>4. Fate(p) = journal[i].outcome
            BY <3>1, FateFacts DEF FateInv
        <3> QED BY <3>3, <3>4
    <2>2. CASE p \notin Settled
        <3>1. p \notin Settled'
            BY <1>7, <1>10, <1>d, <2>2 DEF Settled
        <3>2. p \in Waiting' <=> p \in Waiting
            BY <1>2, <1>10, <1>d DEF Waiting
        <3> QED BY <2>2, <3>1, <3>2 DEF Fate
    <2> QED BY <2>1, <2>2
<1>11. [p \in Procs |-> Fate(p)]' = [[p \in Procs |-> Fate(p)] EXCEPT ![d] = outcome]
    BY <1>9, <1>10
<1>12. Delivery!OldestWaiting(d)
    BY <1>6, <1>d DEF Delivery!OldestWaiting
<1>13. Delivery!Settle(d)
    BY <1>1, <1>5, <1>11, <1>12 DEF Delivery!Settle, Delivery!Outcomes, Outcomes
<1> QED BY <1>13

\* What waits when the process ends is missed.
LEMMA EndMisses ==
    ASSUME TInv, OrderInv, ProcessEnds, mainPc # "down"
    PROVE  Delivery!End
<1>1. /\ InHand' = <<>> /\ pending' = <<>> /\ buf' = <<>> /\ inotify' = <<>>
      /\ UNCHANGED <<journal, rank, renamed>> /\ mainPc' = "down"
    BY EndOrder DEF ProcessEnds, logVars
<1>2. Waiting' = {} /\ Settled' = Settled
    BY <1>1 DEF Waiting, ToSet, Settled
<1>3. ASSUME NEW p \in Procs
      PROVE  Fate(p)' = IF Fate(p) = "waiting" THEN "missed" ELSE Fate(p)
    <2>1. CASE p \in Settled
        <3>1. Fate(p) # "waiting"
            BY <2>1, FateFacts, OutcomesApart DEF FateInv
        <3> QED BY <1>1, <1>2, <2>1, <3>1 DEF Fate
    <2>2. CASE p \notin Settled
        BY <1>1, <1>2, <2>2, FateFacts, OutcomesApart DEF FateInv, Fate
    <2> QED BY <2>1, <2>2
<1> QED BY <1>1, <1>3 DEF Delivery!End, Delivery!LeftMissed

\* Every step of the daemon is a step of the promise, or none.
LEMMA StepDelivery ==
    TInv /\ ThreadsInv /\ OrderInv /\ FateInv' /\ [Next]_vars => [Delivery!Next]_(Delivery!vars)
<1> SUFFICES ASSUME TInv, ThreadsInv, OrderInv, FateInv', [Next]_vars
             PROVE  Delivery!Next \/ UNCHANGED Delivery!vars
    OBVIOUS
<1> USE DEF mainVars, handlerVars, diskVars, workerVars, pruneVars, queueVars, orderVars, logVars
<1>a. ASSUME UNCHANGED <<journal, InHand, pending, buf, inotify, rank, renamed>>,
             (mainPc # "down")' <=> mainPc # "down"
      PROVE  UNCHANGED Delivery!vars
    BY <1>a, MoveStutters DEF Waiting
<1>1. CASE UNCHANGED vars
    BY <1>1, <1>a DEF vars, InHand
<1>2. CASE Process
    BY <1>2, <1>a DEF Process, Crash, Quit, Unserved, InHand
<1>3. CASE Handler
    <2>1. CASE RenameIntoPending
        BY <2>1, RenameArrives DEF Delivery!Next
    <2>2. CASE HandlerExit \/ \E p \in Procs : Capture(p)
        BY <2>2, <1>a DEF HandlerExit, Capture, InHand
    <2> QED BY <1>3, <2>1, <2>2 DEF Handler
<1>4. CASE Tick \/ Sigterm
    BY <1>4, <1>a DEF Tick, Sigterm, InHand
<1>5. CASE Start
    <2>1. mainPc = "down" /\ mainPc' # "down" /\ Waiting' = Waiting
          /\ UNCHANGED <<journal, rank, renamed>>
        BY <1>5 DEF Start, ThreadsInv, InHand, Waiting
    <2>2. \A p \in Procs : Fate(p)' = Fate(p)
        BY <2>1, SameFate
    <2> QED BY <2>1, <2>2 DEF Delivery!Next, Delivery!StartUp
<1>6. CASE LoopCheck \/ PollIdle \/ LoopBreaks \/ EnqueueDone \/ \E p \in Procs : AcceptClient(p)
    BY <1>6, <1>a DEF LoopCheck, PollIdle, LoopBreaks, EnqueueDone, AcceptClient, MainGoes, InHand
<1>7. CASE ReadInotify
    <2>1. /\ ToSet(buf)' \cup ToSet(inotify)' = ToSet(buf) \cup ToSet(inotify)
          /\ UNCHANGED <<journal, InHand, pending, rank, renamed>>
          /\ mainPc # "down" /\ mainPc' # "down"
        BY <1>7, ReadOrder DEF ReadInotify, MainGoes, InHand
    <2>2. Waiting' = Waiting
        BY <2>1 DEF Waiting
    <2> QED BY <2>1, <2>2, MoveStutters
<1>8. CASE EnqueueEvent
    <2>1. /\ (ToSet(pending)' \cup ToSet(buf)') \ {Overflow} = (ToSet(pending) \cup ToSet(buf)) \ {Overflow}
          /\ UNCHANGED <<journal, InHand, inotify, rank, renamed>>
          /\ mainPc # "down" /\ mainPc' # "down"
        BY <1>8, EnqueueOrder DEF EnqueueEvent, MainGoes, InHand
    <2>2. Waiting' \ {Overflow} = Waiting \ {Overflow}
        BY <2>1 DEF Waiting
    <2> QED BY <2>1, <2>2, MoveStutters
<1>9. CASE NotifyWorker
    BY <1>9, <1>a DEF NotifyWorker, Woken, InHand
<1>10. CASE CloseClientFd \/ JoinHandler \/ SetStop
    BY <1>10, <1>a DEF CloseClientFd, JoinHandler, SetStop, MainGoes, InHand
<1>11. CASE JoinWorker \/ Kill
    BY <1>11, EndMisses DEF JoinWorker, Kill, Delivery!Next
<1>12. CASE WorkerWait
    <2>1. CASE pending # <<>> /\ TakeFront /\ workerPc' = "patch"
        <3>1. /\ ToSet(InHand)' \cup ToSet(pending)' = ToSet(InHand) \cup ToSet(pending)
              /\ UNCHANGED <<journal, buf, inotify, rank, renamed, mainPc>>
            BY <1>12, <2>1, TakeOrder DEF WorkerWait, WorkerKeeps, NoPruning
        <3>2. Waiting' = Waiting
            BY <3>1 DEF Waiting
        <3> QED BY <3>1, <3>2, MoveStutters
    <2>2. CASE ~(pending # <<>> /\ TakeFront /\ workerPc' = "patch")
        BY <1>12, <2>2, <1>a DEF WorkerWait, WorkerKeeps, NoPruning, InHand
    <2> QED BY <2>1, <2>2
<1>13. CASE SpuriousWakeup \/ Patch \/ Rewrite
    BY <1>13, <1>a DEF SpuriousWakeup, Patch, Rewrite, WorkerKeeps, NoPruning, InHand
<1>14. CASE ReportUnreadable
    BY <1>14, ReportSettles DEF ReportUnreadable, WorkerKeeps, NoPruning, Outcomes, Delivery!Next
<1>15. CASE Suppress
    BY <1>15, ReportSettles DEF Suppress, WorkerKeeps, NoPruning, Outcomes, Delivery!Next
<1>16. CASE LogTombstone
    BY <1>16, ReportSettles DEF LogTombstone, WorkerKeeps, NoPruning, Outcomes, Delivery!Next
<1>17. CASE ExportMinidump
    BY <1>17, <1>a DEF ExportMinidump, WorkerKeeps, NoPruning, InHand
<1>18. CASE Prunes
    BY <1>18, <1>a, PruneGoes DEF PruningPcs, InHand
<1> QED BY <1>1, <1>2, <1>3, <1>4, <1>5, <1>6, <1>7, <1>8, <1>9, <1>10, <1>11, <1>12, <1>13,
           <1>14, <1>15, <1>16, <1>17, <1>18 DEF Next, Worker, Prunes, EventLoop, Shutdown

\* The daemon starts where the promise does.
LEMMA InitDelivery == Init => Delivery!Init
<1> SUFFICES ASSUME Init PROVE Delivery!Init
    OBVIOUS
<1>1. journal = <<>> /\ InHand = <<>> /\ pending = <<>> /\ buf = <<>> /\ inotify = <<>>
      /\ rank = [p \in Procs |-> 0] /\ renamed = 0 /\ mainPc = "down"
    BY DEF Init, InHand
<1>2. Settled = {} /\ Waiting = {}
    BY <1>1 DEF Settled, Waiting, ToSet
<1>3. \A p \in Procs : Fate(p) = "none"
    BY <1>1, <1>2 DEF Fate
<1> QED BY <1>1, <1>3 DEF Delivery!Init

\* The three threads and their queues do what DumpDelivery promises, for any
\* set of dumps, any kernel queue, batch and window, and whatever is killed:
\* fates come in the order of arrival and none is ever changed.
THEOREM PipelineImplementsDelivery == Spec => ImplementsDelivery
<1>1. Spec => [](TInv /\ ThreadsInv /\ OrderInv /\ FateInv)
    BY InitTInv, StepTInv, InitThreads, StepThreads, InitOrder, StepOrder, FateFacts, PTL DEF Spec
<1> QED BY <1>1, InitDelivery, StepDelivery, PTL DEF Spec, ImplementsDelivery, Delivery!Spec
--------------------------------------------------------------------------------
(* What the promise is worth: what holds of DumpDelivery, whoever implements it *)

\* The fates of the promise: a dump has a rank exactly when it has arrived, no
\* two share one, and what the promise's own invariants say.
PromiseInv ==
    /\ Delivery!TypeOK
    /\ \A p \in Procs : Fate(p) # "none" => rank[p] \in 1..renamed
    /\ \A p, q \in Procs : p # q /\ Fate(p) # "none" /\ Fate(q) # "none" => rank[p] # rank[q]
    /\ Delivery!SettledInOrder /\ Delivery!NoneWaitsWhileDown

\* Nothing has arrived at first.
LEMMA InitPromise == Delivery!Init => PromiseInv
<1> SUFFICES ASSUME Delivery!Init PROVE PromiseInv
    OBVIOUS
<1> USE DEF Delivery!Init
<1>1. \A p \in Procs : Fate(p) = "none"
    OBVIOUS
<1>2. "none" \notin Delivery!Outcomes
    BY DEF Delivery!Outcomes
<1>3. Delivery!TypeOK
    BY <1>1 DEF Delivery!TypeOK
<1>4. Delivery!SettledInOrder /\ Delivery!NoneWaitsWhileDown
    BY <1>1, <1>2 DEF Delivery!SettledInOrder, Delivery!NoneWaitsWhileDown
<1> QED BY <1>1, <1>3, <1>4 DEF PromiseInv

\* Every arrival, settlement, start and end of a daemon the promise allows
\* preserves it.
LEMMA StepPromise == PromiseInv /\ [Delivery!Next]_(Delivery!vars) => PromiseInv'
<1> SUFFICES ASSUME PromiseInv, [Delivery!Next]_(Delivery!vars) PROVE PromiseInv'
    OBVIOUS
<1> USE DEF PromiseInv, Delivery!TypeOK, Delivery!Outcomes, Delivery!SettledInOrder, Delivery!NoneWaitsWhileDown
<1>1. CASE Delivery!StartUp
    BY <1>1 DEF Delivery!StartUp
<1>2. CASE Delivery!End
    BY <1>2 DEF Delivery!End, Delivery!LeftMissed
<1>3. ASSUME NEW d \in Procs, Delivery!Arrive(d) PROVE PromiseInv'
    <2>1. PICK f \in {"waiting", "missed"} :
              [p \in Procs |-> Fate(p)]' = [[p \in Procs |-> Fate(p)] EXCEPT ![d] = f]
        BY <1>3 DEF Delivery!Arrive
    <2>2. /\ mainPc # "down" /\ mainPc' # "down" /\ Fate(d) = "none"
          /\ renamed' = renamed + 1 /\ rank' = [rank EXCEPT ![d] = renamed + 1]
        BY <1>3 DEF Delivery!Arrive
    <2>3. Fate(d)' = f /\ \A p \in Procs : p # d => Fate(p)' = Fate(p)
        BY <2>1
    <2>4. /\ rank'[d] = renamed + 1 /\ renamed \in Nat /\ rank \in [Procs -> Nat]
          /\ \A p \in Procs : p # d => rank'[p] = rank[p]
        BY <2>2
    <2>5. \A p \in Procs : Fate(p) # "none" => rank[p] < renamed + 1
        BY <2>4
    <2>6. Delivery!TypeOK'
        <3>1. \A p \in Procs : Fate(p) \in Delivery!Outcomes \cup {"none", "waiting", "missed"}
            OBVIOUS
        <3>2. \A p \in Procs : Fate(p)' \in Delivery!Outcomes \cup {"none", "waiting", "missed"}
            BY <2>3, <3>1
        <3>3. rank' \in [Procs -> Nat] /\ renamed' \in Nat
            BY <2>2, <2>4
        <3> QED
            BY <3>2, <3>3
    <2>7. \A p \in Procs : Fate(p)' # "none" => rank'[p] \in 1..renamed'
        BY <2>2, <2>3, <2>4, <2>5
    <2>8. \A p, q \in Procs : p # q /\ Fate(p)' # "none" /\ Fate(q)' # "none" => rank'[p] # rank'[q]
        BY <2>3, <2>4, <2>5
    <2>9. \A p, q \in Procs : Fate(p)' \in Delivery!Outcomes /\ Fate(q)' = "waiting" => rank'[p] < rank'[q]
        BY <2>3, <2>4, <2>5
    <2> QED BY <2>2, <2>6, <2>7, <2>8, <2>9
<1>4. ASSUME NEW d \in Procs, Delivery!Settle(d) PROVE PromiseInv'
    <2>1. PICK o \in Delivery!Outcomes :
              [p \in Procs |-> Fate(p)]' = [[p \in Procs |-> Fate(p)] EXCEPT ![d] = o]
        BY <1>4 DEF Delivery!Settle
    <2>2. /\ mainPc # "down" /\ (mainPc # "down") = (mainPc # "down")' /\ Fate(d) = "waiting"
          /\ UNCHANGED <<rank, renamed>>
        BY <1>4 DEF Delivery!Settle
    <2>3. \A e \in Procs : Fate(e) = "waiting" /\ e # d => rank[d] < rank[e]
        BY <1>4, <2>2 DEF Delivery!Settle, Delivery!OldestWaiting
    <2> QED BY <2>1, <2>2, <2>3
<1>5. CASE UNCHANGED Delivery!vars
    BY <1>5 DEF Delivery!vars
<1> QED BY <1>1, <1>2, <1>3, <1>4, <1>5 DEF Delivery!Next

\* Reports come in the order of arrival: when a dump is settled, none that
\* arrived before it still waits.
THEOREM DeliveryInOrder == Delivery!Spec => []Delivery!SettledInOrder
<1>1. PromiseInv => Delivery!SettledInOrder
    BY DEF PromiseInv
<1> QED BY InitPromise, StepPromise, <1>1, PTL DEF Delivery!Spec

\* No dump waits while no daemon runs.
THEOREM DeliveryNoneWaits == Delivery!Spec => []Delivery!NoneWaitsWhileDown
<1>1. PromiseInv => Delivery!NoneWaitsWhileDown
    BY DEF PromiseInv
<1> QED BY InitPromise, StepPromise, <1>1, PTL DEF Delivery!Spec

\* The fate of a dump, once given, is never changed by a later step, a restart
\* included.
THEOREM DeliveryFatesFinal == Delivery!Spec => Delivery!FatesAreFinal
<1>1. PromiseInv /\ [Delivery!Next]_(Delivery!vars) =>
        [\A d \in Procs : [p \in Procs |-> Fate(p)][d] \in Delivery!Outcomes \cup {"missed"}
                          => [p \in Procs |-> Fate(p)]'[d] = [p \in Procs |-> Fate(p)][d]]_(Delivery!vars)
    <2> SUFFICES ASSUME PromiseInv, Delivery!Next, NEW d \in Procs, Fate(d) \in Delivery!Outcomes \cup {"missed"}
                 PROVE  Fate(d)' = Fate(d)
        BY DEF Delivery!vars
    <2> USE DEF PromiseInv, Delivery!TypeOK, Delivery!Outcomes
    <2>1. Fate(d) # "none" /\ Fate(d) # "waiting"
        OBVIOUS
    <2>2. CASE Delivery!StartUp BY <2>2 DEF Delivery!StartUp
    <2>3. CASE Delivery!End BY <2>1, <2>3 DEF Delivery!End, Delivery!LeftMissed
    <2>4. ASSUME NEW e \in Procs, Delivery!Arrive(e) PROVE Fate(d)' = Fate(d)
        BY <2>1, <2>4 DEF Delivery!Arrive
    <2>5. ASSUME NEW e \in Procs, Delivery!Settle(e) PROVE Fate(d)' = Fate(d)
        BY <2>1, <2>5 DEF Delivery!Settle
    <2> QED BY <2>2, <2>3, <2>4, <2>5 DEF Delivery!Next
<1> QED BY InitPromise, StepPromise, <1>1, PTL DEF Delivery!Spec, Delivery!FatesAreFinal

\* The daemon therefore keeps all three of its promises, through kills, lost
\* events and restarts.
THEOREM PipelineKeepsPromises ==
    Spec => /\ []Delivery!SettledInOrder
            /\ []Delivery!NoneWaitsWhileDown
            /\ Delivery!FatesAreFinal
<1> QED BY PipelineImplementsDelivery, DeliveryInOrder, DeliveryNoneWaits, DeliveryFatesFinal, PTL
        DEF ImplementsDelivery
--------------------------------------------------------------------------------
(* The dumps the worker cannot read *)

\* A dump that has arrived is in pending/ or pruned, and one that was cut short
\* and not written back waits for the worker only while it is being rewritten,
\* if no write fails: after a kill it is in no queue any more.
DiskInv ==
    /\ \A p \in Procs : rank[p] > 0 => file[p] \in {"pending", "pruned"}
    /\ \A p \in partial : /\ rank[p] > 0
                          /\ p \in Waiting /\ ~IOMayFail => workerPc = "rewrite" /\ cur = p
    /\ UnreadableOnlyIfPruned

\* The invariant holds in the initial state.
LEMMA InitDisk == Init => DiskInv
BY DEF Init, DiskInv, UnreadableOnlyIfPruned

\* Only an arrival makes a dump wait.
LEMMA WaitingGrows ==
    ASSUME TInv, ThreadsInv, OrderInv, [Next]_vars
    PROVE  \A p \in Procs : p \in Waiting' => p \in Waiting \/ rank[p] = 0
<1> USE DEF mainVars, handlerVars, diskVars, workerVars, pruneVars, queueVars, orderVars, logVars
<1>a. \A p \in Procs : p # Overflow
    BY PipelineAssumption DEF PipelineAssumption
<1>1. CASE UNCHANGED <<InHand, pending, buf, inotify>>
    BY <1>1 DEF Waiting
<1>2. CASE RenameIntoPending
    BY <1>a, <1>2, RenameOrder DEF RenameIntoPending, InHand, Waiting
<1>3. CASE ReadInotify
    <2>1. InHand' = InHand /\ pending' = pending
        BY <1>3 DEF ReadInotify, MainGoes, InHand
    <2> QED BY <1>3, <2>1, ReadOrder DEF Waiting
<1>4. CASE EnqueueEvent
    <2>1. InHand' = InHand /\ inotify' = inotify
        BY <1>4 DEF EnqueueEvent, MainGoes, InHand
    <2> QED BY <1>a, <1>4, <2>1, EnqueueOrder DEF Waiting
<1>5. CASE JoinWorker \/ Kill
    <2>1. Waiting' = {}
        BY <1>5, EndOrder DEF JoinWorker, Kill, Waiting, ToSet
    <2> QED BY <2>1
<1>6. CASE WorkerWait
    <2>1. CASE pending # <<>> /\ TakeFront /\ workerPc' = "patch"
        BY <1>6, <2>1, TakeOrder DEF WorkerWait, WorkerKeeps, NoPruning, Waiting
    <2>2. CASE ~(pending # <<>> /\ TakeFront /\ workerPc' = "patch")
        BY <1>1, <1>6, <2>2 DEF WorkerWait, WorkerKeeps, NoPruning, InHand
    <2> QED BY <2>1, <2>2
<1>7. CASE ReportUnreadable \/ Suppress \/ LogTombstone
    <2>1. InHand' = <<>> /\ UNCHANGED <<pending, buf, inotify>>
        BY <1>7 DEF ReportUnreadable, Suppress, LogTombstone, WorkerKeeps, NoPruning, InHand
    <2> QED BY <2>1 DEF Waiting, ToSet
<1>8. CASE Prunes
    BY <1>1, <1>8, PruneGoes DEF PruningPcs, InHand
<1>9. CASE UNCHANGED vars \/ Process \/ HandlerExit \/ Tick \/ Sigterm
           \/ \E p \in Procs : Capture(p)
    BY <1>1, <1>9 DEF vars, Process, Crash, Quit, Unserved, HandlerExit, Tick, Sigterm, Capture, InHand
<1>10. CASE LoopCheck \/ PollIdle \/ LoopBreaks \/ EnqueueDone \/ \E p \in Procs : AcceptClient(p)
    BY <1>1, <1>10 DEF LoopCheck, PollIdle, LoopBreaks, EnqueueDone, AcceptClient, MainGoes, InHand
<1>11. CASE Start
    BY <1>1, <1>11 DEF Start, ThreadsInv, InHand
<1>12. CASE NotifyWorker \/ CloseClientFd \/ JoinHandler \/ SetStop
    BY <1>1, <1>12 DEF NotifyWorker, Woken, CloseClientFd, JoinHandler, SetStop, MainGoes, InHand
<1>13. CASE SpuriousWakeup \/ Patch \/ Rewrite \/ ExportMinidump
    BY <1>1, <1>13 DEF SpuriousWakeup, Patch, Rewrite, ExportMinidump, WorkerKeeps, NoPruning, InHand
<1> QED BY <1>2, <1>3, <1>4, <1>5, <1>6, <1>7, <1>8, <1>9, <1>10, <1>11, <1>12, <1>13
        DEF Next, Worker, Prunes, EventLoop, Shutdown, Handler

\* A step that leaves the files, the ranks and the journal alone, and the worker
\* to its rewrite, keeps the invariant.
LEMMA QuietDisk ==
    ASSUME TInv, DiskInv, UNCHANGED <<file, partial, rank, journal>>,
           workerPc = "rewrite" => UNCHANGED <<workerPc, cur>> \/ Waiting' = {},
           \A p \in Procs : p \in Waiting' => p \in Waiting \/ rank[p] = 0
    PROVE  DiskInv'
<1>1. partial \subseteq Procs /\ rank \in [Procs -> Nat]
    BY DEF TInv, Types, TypeOK
<1>2. UnreadableOnlyIfPruned'
    BY DEF DiskInv, UnreadableOnlyIfPruned
<1>3. ASSUME NEW p \in partial'
      PROVE  rank'[p] > 0 /\ (p \in Waiting' /\ ~IOMayFail => workerPc' = "rewrite" /\ cur' = p)
    <2>1. p \in Procs /\ rank[p] > 0 /\ (p \in Waiting /\ ~IOMayFail => workerPc = "rewrite" /\ cur = p)
        BY <1>1, <1>3 DEF DiskInv
    <2> QED BY <2>1
<1> QED BY <1>2, <1>3 DEF DiskInv

\* A new entry of the journal is of the dump in hand, which is complete unless
\* it was malformed, pruned or could not be written back.
LEMMA LogDisk ==
    ASSUME TInv, OrderInv, DiskInv, workerPc = "report", workerPc' \in {"prune", "export"},
           NEW outcome \in Outcomes, Log(outcome), outcome = "unreadable" => ~Readable(cur),
           UNCHANGED <<file, partial, rank, pending, buf, inotify>>
    PROVE  DiskInv'
<1>1. cur \in Procs /\ InHand = <<cur>> /\ InHand' = <<>>
    BY ReportOrder DEF TInv, Types, CurIsDump
<1>2. cur \in Waiting /\ rank[cur] > 0
    BY <1>1, FateFacts DEF Waiting, ToSet, FateInv
<1>3. Waiting' \subseteq Waiting
    BY <1>1 DEF Waiting, ToSet
<1>4. ~Readable(cur) => cur \in Malformed \/ file[cur] = "pruned" \/ (IOMayFail /\ cur \in partial)
    BY <1>1, <1>2 DEF DiskInv, Readable
<1>5. /\ DOMAIN journal = 1..Len(journal) /\ Len(journal) \in Nat /\ DOMAIN journal' = 1..(Len(journal) + 1)
      /\ \A i \in 1..Len(journal) : journal'[i] = journal[i]
      /\ journal'[Len(journal) + 1] = [dump |-> cur, outcome |-> outcome, at |-> now]
    BY <1>1, LogAppends
<1>6. UnreadableOnlyIfPruned'
    <2> SUFFICES ASSUME NEW i \in 1..(Len(journal) + 1), journal'[i].outcome = "unreadable",
                        NEW p, p = journal'[i].dump
                 PROVE  p \in Malformed \/ file[p] = "pruned" \/ (IOMayFail /\ p \in partial)
        BY <1>5 DEF UnreadableOnlyIfPruned
    <2>1. CASE i \in DOMAIN journal
        BY <1>5, <2>1 DEF DiskInv, UnreadableOnlyIfPruned
    <2>2. CASE i = Len(journal) + 1
        BY <1>4, <1>5, <2>2
    <2> QED BY <1>5, <2>1, <2>2
<1>7. \A p \in partial' : rank'[p] > 0 /\ (p \in Waiting' /\ ~IOMayFail => FALSE)
    BY <1>3 DEF DiskInv
<1> QED BY <1>6, <1>7 DEF DiskInv

\* Every step keeps the invariant.
LEMMA StepDisk == TInv /\ ThreadsInv /\ OrderInv /\ DiskInv /\ [Next]_vars => DiskInv'
<1> SUFFICES ASSUME TInv, ThreadsInv, OrderInv, DiskInv, [Next]_vars PROVE DiskInv'
    OBVIOUS
<1> USE DEF mainVars, handlerVars, diskVars, workerVars, pruneVars, queueVars, orderVars, logVars
<1>a. /\ \A p \in Procs : p \in Waiting' => p \in Waiting \/ rank[p] = 0
      /\ FateInv
    BY WaitingGrows, FateFacts
<1>t. /\ partial \subseteq Procs /\ rank \in [Procs -> Nat] /\ Settled \subseteq Procs
      /\ file \in [Procs -> {"absent", "new", "pending", "pruned"}]
    BY <1>a DEF TInv, Types, TypeOK, FateInv
\* a step that changes the files of dumps without an entry only
<1>q. ASSUME journal' = journal,
             \A p \in Settled : /\ file[p] = "pruned" => file'[p] = "pruned"
                                /\ p \in partial => p \in partial'
      PROVE  UnreadableOnlyIfPruned'
    <2> SUFFICES ASSUME NEW i \in DOMAIN journal, journal[i].outcome = "unreadable",
                        NEW p, p = journal[i].dump
                 PROVE  p \in Malformed \/ file'[p] = "pruned" \/ (IOMayFail /\ p \in partial')
        BY <1>q DEF UnreadableOnlyIfPruned
    <2>1. p \in Settled
        BY DEF Settled
    <2> QED BY <1>q, <2>1 DEF DiskInv, UnreadableOnlyIfPruned
<1>1. CASE UNCHANGED vars \/ Process \/ HandlerExit \/ Tick \/ Sigterm
    BY <1>1, <1>a, QuietDisk DEF vars, Process, Crash, Quit, Unserved, HandlerExit, Tick, Sigterm
<1>2. CASE EventLoop
    BY <1>2, <1>a, QuietDisk DEF EventLoop, LoopCheck, PollIdle, ReadInotify, EnqueueEvent,
           EnqueueDone, NotifyWorker, Woken, AcceptClient, MainGoes
<1>3. CASE LoopBreaks \/ CloseClientFd \/ JoinHandler \/ SetStop
    BY <1>3, <1>a, QuietDisk DEF LoopBreaks, CloseClientFd, JoinHandler, SetStop, MainGoes
<1>4. CASE Start
    BY <1>4, <1>a, QuietDisk DEF Start, ThreadsInv
<1>5. CASE JoinWorker \/ Kill
    <2>1. ProcessEnds /\ UNCHANGED <<file, partial, rank, journal>>
        BY <1>5 DEF JoinWorker, Kill, ProcessEnds
    <2>2. Waiting' = {}
        BY <2>1, EndOrder DEF Waiting, ToSet
    <2> QED BY <2>1, <2>2, <1>a, QuietDisk
<1>6. ASSUME NEW c \in Procs, Capture(c) PROVE DiskInv'
    <2>1. /\ file' = [file EXCEPT ![c] = "new"] /\ proc[c] = "crashed"
          /\ UNCHANGED <<partial, rank, journal, workerPc, cur>>
        BY <1>6 DEF Capture
    <2>2. rank[c] = 0
        BY <1>t, <2>1 DEF OrderInv
    <2>3. UnreadableOnlyIfPruned'
        BY <1>a, <1>q, <1>t, <2>1, <2>2 DEF FateInv
    <2> QED BY <1>a, <1>t, <2>1, <2>2, <2>3 DEF DiskInv
<1>7. CASE RenameIntoPending
    <2>1. /\ capturing \in Procs /\ rank[capturing] = 0 /\ rank' = [rank EXCEPT ![capturing] = renamed + 1]
          /\ file' = [file EXCEPT ![capturing] = "pending"]
          /\ UNCHANGED <<partial, journal, workerPc, cur>>
        BY <1>7, RenameOrder DEF RenameIntoPending
    <2>2. UnreadableOnlyIfPruned'
        BY <1>a, <1>q, <1>t, <2>1 DEF FateInv
    <2>3. \A p \in Procs : rank[p] > 0 => rank'[p] = rank[p]
        BY <1>t, <2>1
    <2>4. \A p \in partial' : /\ rank'[p] > 0
                              /\ p \in Waiting' /\ ~IOMayFail => workerPc' = "rewrite" /\ cur' = p
        BY <1>a, <1>t, <2>1, <2>3 DEF DiskInv
    <2>5. \A p \in Procs : rank'[p] > 0 => file'[p] \in {"pending", "pruned"}
        BY <1>t, <2>1 DEF DiskInv
    <2> QED BY <2>2, <2>4, <2>5 DEF DiskInv
<1>8. CASE WorkerWait \/ SpuriousWakeup
    BY <1>8, <1>a, QuietDisk DEF WorkerWait, SpuriousWakeup, WorkerKeeps, NoPruning
<1>b. workerPc \in {"patch", "rewrite"} => cur \in Procs /\ rank[cur] > 0 /\ cur \notin Settled
    <2>1. workerPc \in {"patch", "rewrite"} => cur \in Waiting /\ cur \in Procs
        BY DEF TInv, Types, CurIsDump, Waiting, InHand, ToSet
    <2> QED BY <2>1, <1>a DEF FateInv
<1>9. CASE Patch
    <2>1. CASE PatchEnabled /\ file[cur] = "pending" /\ cur \in NeedsPatch
        <3>1. /\ partial' = partial \cup {cur} /\ workerPc = "patch" /\ workerPc' = "rewrite" /\ cur' = cur
              /\ UNCHANGED <<file, rank, journal>>
            BY <1>9, <2>1 DEF Patch, WorkerKeeps, NoPruning
        <3>2. UnreadableOnlyIfPruned'
            BY <1>q, <3>1
        <3> QED BY <1>a, <1>b, <1>t, <3>1, <3>2 DEF DiskInv
    <2>2. CASE ~(PatchEnabled /\ file[cur] = "pending" /\ cur \in NeedsPatch)
        BY <1>9, <1>a, <2>2, QuietDisk DEF Patch, WorkerKeeps, NoPruning
    <2> QED BY <2>1, <2>2
<1>10. CASE Rewrite
    <2>1. /\ workerPc = "rewrite" /\ cur' = cur /\ UNCHANGED <<file, rank, journal>>
          /\ partial' = partial \ {cur} \/ (IOMayFail /\ partial' = partial)
        BY <1>10 DEF Rewrite, WorkerKeeps, NoPruning
    <2>2. UnreadableOnlyIfPruned'
        BY <1>b, <1>q, <2>1
    <2> QED BY <1>a, <1>t, <2>1, <2>2 DEF DiskInv
<1>11. CASE ReportUnreadable
    BY <1>11, LogDisk DEF ReportUnreadable, WorkerKeeps, NoPruning, Outcomes
<1>12. CASE Suppress
    BY <1>12, LogDisk DEF Suppress, WorkerKeeps, NoPruning, Outcomes
<1>13. CASE LogTombstone
    BY <1>13, LogDisk DEF LogTombstone, WorkerKeeps, NoPruning, Outcomes
<1>14. CASE ExportMinidump
    BY <1>14, <1>a, QuietDisk DEF ExportMinidump, WorkerKeeps, NoPruning
<1>15. CASE Prunes
    <2>1. /\ \A p \in Procs : file'[p] = file[p] \/ file'[p] = "pruned"
          /\ UNCHANGED <<partial, rank, journal>> /\ workerPc # "rewrite"
        BY <1>15, PruneGoes, PruneRemoves DEF PruningPcs
    <2>2. UnreadableOnlyIfPruned'
        BY <1>q, <1>t, <2>1
    <2> QED BY <1>a, <1>t, <2>1, <2>2 DEF DiskInv
<1> QED BY <1>1, <1>2, <1>3, <1>4, <1>5, <1>6, <1>7, <1>8, <1>9, <1>10, <1>11, <1>12, <1>13,
           <1>14, <1>15 DEF Next, Worker, Prunes, Shutdown, Handler

\* For any faults, limits and kills: a complete dump the worker cannot read was
\* pruned by the daemon itself or could not be written back.
THEOREM PipelineUnreadable == Spec => []UnreadableOnlyIfPruned
<1>1. DiskInv => UnreadableOnlyIfPruned
    BY DEF DiskInv
<1> QED BY <1>1, InitTInv, StepTInv, InitThreads, StepThreads, InitOrder, StepOrder, InitDisk, StepDisk, PTL DEF Spec
--------------------------------------------------------------------------------
(* What pruning leaves on the disk *)

HandledNow == {journal[i].dump : i \in (boot + 1)..Len(journal)}
StillThere == {p \in HandledNow : file[p] = "pending"}
ExportSize == [e \in Export |-> Size[e.dump]]

\* What a pass under way will leave of the dumps this run handled, and of the
\* exports.
Kept == IF workerPc = "remove" THEN StillThere \ ToSet(doomed) ELSE StillThere
KeptExports == IF workerPc = "remove_exports" THEN exports \ ToSet(doomed) ELSE exports

\* A dump this run has handled was there when the directory was listed, and no
\* other dump counts before it is handled itself; so what is not on the list of
\* removals fits from the listing on, and all of it once the list is done.
FitInv ==
    /\ ~ExportEnabled => exports = {} /\ workerPc # "export"
    /\ ~IOMayFail /\ MaxBytes > 0 =>
          /\ workerPc \in {"remove", "prune_exports", "remove_exports", "wait", "blocked"} =>
                SumFunctionOnSet(Size, Kept) <= MaxBytes
          /\ workerPc \in {"remove_exports", "wait", "blocked"} /\ boot < Len(journal) =>
                SumFunctionOnSet(ExportSize, KeptExports) <= MaxBytes

\* A sum over nothing.
LEMMA NoSum == ASSUME NEW f PROVE SumFunctionOnSet(f, {}) = 0
<1>1. IsFiniteSet({}) /\ Numbers(f, {})
    BY FS_EmptySet DEF Numbers
<1> QED
    BY <1>1, SumOf DEF SumAdds

\* The members of a sequence are its first and those of its rest.
LEMMA HeadAndTail ==
    ASSUME NEW S, NEW s \in Seq(S), s # <<>>
    PROVE  ToSet(s) = {Head(s)} \cup ToSet(Tail(s))
<1>1. /\ Len(s) \in Nat \ {0} /\ DOMAIN s = 1..Len(s) /\ Head(s) = s[1]
      /\ DOMAIN Tail(s) = 1..(Len(s) - 1) /\ \A i \in 1..(Len(s) - 1) : Tail(s)[i] = s[i + 1]
    BY HeadTailProperties, LenProperties, EmptySeq
<1>2. \A i \in 2..Len(s) : i - 1 \in 1..(Len(s) - 1) /\ s[i] = Tail(s)[i - 1]
    BY <1>1
<1>3. \A i \in 1..Len(s) : i = 1 \/ i \in 2..Len(s)
    BY <1>1
<1>4. \A i \in 1..(Len(s) - 1) : i + 1 \in 1..Len(s)
    BY <1>1
<1>5. ASSUME NEW e \in ToSet(s) PROVE e = Head(s) \/ e \in ToSet(Tail(s))
    <2>1. PICK i \in 1..Len(s) : e = s[i]
        BY <1>1, <1>5 DEF ToSet
    <2>2. CASE i = 1
        BY <1>1, <2>1, <2>2
    <2>3. CASE i \in 2..Len(s)
        BY <1>1, <1>2, <2>1, <2>3 DEF ToSet
    <2> QED
        BY <1>3, <2>1, <2>2, <2>3
<1>6. ASSUME NEW e \in ToSet(Tail(s)) PROVE e \in ToSet(s)
    BY <1>1, <1>4, <1>6 DEF ToSet
<1>7. Head(s) \in ToSet(s)
    BY <1>1 DEF ToSet
<1> QED
    BY <1>5, <1>6, <1>7

\* The whole of a list of removals.
LEMMA PassFits ==
    ASSUME NEW F, NEW S, NEW size, NEW stamp, Directory(S, F, size, stamp), NEW at \in Nat,
           NEW entries \in OldestFirst(S, stamp), MaxBytes > 0
    PROVE  SumFunctionOnSet(size, S \ ToSet(Removed(entries, size, stamp, at))) <= MaxBytes
<1>1. PICK removed, n : removed = Removed(entries, size, stamp, at) /\ n = Len(removed)
    OBVIOUS
<1>2. removed \in Seq(S)
    BY <1>1, RemovedListed
<1>3. n \in 0..n /\ SubSeq(removed, 1, n) = removed
    BY <1>1, <1>2
<1>4. PICK taken : taken = ToSet(SubSeq(removed, 1, n))
    OBVIOUS
<1>5. SumFunctionOnSet(size, S \ taken) <= MaxBytes
    BY <1>1, <1>3, <1>4, PassLeaves
<1> QED
    BY <1>1, <1>3, <1>4, <1>5

\* Types of what is summed up.
LEMMA FitTypes ==
    ASSUME TInv
    PROVE  /\ IsFiniteSet(InPending) /\ Numbers(Size, InPending) /\ Directory(InPending, Procs, Size, mtime)
           /\ IsFiniteSet(exports) /\ Directory(exports, Export, ExportSize, [e \in exports |-> e.at])
           /\ HandledNow \subseteq Settled /\ HandledNow \subseteq Procs /\ StillThere \subseteq InPending
           /\ now \in Nat /\ MaxBytes \in Nat
<1>1. /\ IsFiniteSet(InPending) /\ IsFiniteSet(exports) /\ exports \subseteq Export
      /\ mtime \in [Procs -> Nat] /\ now \in Nat
    BY DEF TInv, DiskFinite, Types, TypeOK
<1>2. Size \in [Procs -> Nat] /\ MaxBytes \in Nat
    BY PipelineAssumption, DiskManagerAssumption DEF PipelineAssumption
<1>3. Numbers(Size, InPending) /\ Directory(InPending, Procs, Size, mtime)
    BY <1>1, <1>2 DEF Numbers, Directory, InPending
<1>4. ExportSize \in [Export -> Nat] /\ \A e \in exports : e.at \in Nat
    BY <1>1, <1>2 DEF ExportSize, Export
<1>5. Directory(exports, Export, ExportSize, [e \in exports |-> e.at])
    BY <1>1, <1>4 DEF Directory
<1>6. /\ DOMAIN journal = 1..Len(journal) /\ Len(journal) \in Nat /\ boot \in Nat
      /\ \A i \in 1..Len(journal) : journal[i].dump \in Procs
    BY RateTypes DEF TInv, Types, TypeOK
<1>7. HandledNow \subseteq Settled /\ HandledNow \subseteq Procs
    BY <1>6 DEF HandledNow, Settled
<1>8. StillThere \subseteq InPending
    BY <1>7 DEF StillThere, InPending
<1> QED
    BY <1>1, <1>2, <1>3, <1>5, <1>7, <1>8

\* The disk is empty.
LEMMA InitFit == Init => FitInv
BY DEF Init, FitInv

\* A step that leaves the disk alone keeps the invariant, unless the worker is
\* done with a dump.
LEMMA QuietFit ==
    ASSUME FitInv, UNCHANGED <<exports, journal, boot>>, StillThere' = StillThere,
           workerPc' \in {"wait", "blocked"} => workerPc \in {"wait", "blocked"},
           workerPc' \in {"export", "remove", "prune_exports", "remove_exports"} => workerPc' = workerPc,
           workerPc' \in {"remove", "remove_exports"} => doomed' = doomed
    PROVE  FitInv'
<1>1. workerPc' \in {"remove", "prune_exports", "remove_exports", "wait", "blocked"} =>
          /\ workerPc \in {"remove", "prune_exports", "remove_exports", "wait", "blocked"}
          /\ Kept' = Kept /\ KeptExports' = KeptExports
          /\ workerPc' \in {"remove_exports", "wait", "blocked"} =>
                workerPc \in {"remove_exports", "wait", "blocked"}
    BY DEF Kept, KeptExports
<1> QED
    BY <1>1, ZenonT(40) DEF FitInv

\* A step that touches neither files nor the journal.
LEMMA QuietFiles ==
    ASSUME FitInv, UNCHANGED <<file, exports, journal, boot>>,
           workerPc' \in {"wait", "blocked"} => workerPc \in {"wait", "blocked"},
           workerPc' \in {"export", "remove", "prune_exports", "remove_exports"} => workerPc' = workerPc,
           workerPc' \in {"remove", "remove_exports"} => doomed' = doomed
    PROVE  FitInv'
<1>1. StillThere' = StillThere
    BY DEF StillThere, HandledNow
<1> QED
    BY <1>1, QuietFit

\* A dump no daemon has handled counts for none.
LEMMA ArrivalFit ==
    ASSUME TInv, OrderInv, FitInv, NEW c \in Procs, rank[c] = 0,
           file' = [file EXCEPT ![c] = file'[c]], UNCHANGED <<exports, journal, boot, workerPc, doomed>>
    PROVE  FitInv'
<1>1. \A p \in Procs : p # c => file'[p] = file[p]
    BY DEF TInv, Types, TypeOK
<1>2. \A p \in Settled : p \in Procs /\ rank[p] > 0
    BY FateFacts DEF FateInv
<1>3. \A p \in HandledNow : p \in Procs /\ p # c
    BY <1>2, FitTypes
<1>4. HandledNow' = HandledNow
    BY DEF HandledNow
<1>5. StillThere' = StillThere
    BY <1>1, <1>3, <1>4 DEF StillThere
<1> QED
    BY <1>5, QuietFit

\* A dump that is handled now: the directory is pruned before it counts.
LEMMA LogFit ==
    ASSUME FitInv, UNCHANGED exports, workerPc' \in {"prune", "export"},
           workerPc' = "export" => ExportEnabled
    PROVE  FitInv'
BY DEF FitInv

\* An export.
LEMMA ExportFit == ASSUME FitInv, ExportMinidump PROVE FitInv'
BY DEF FitInv, ExportMinidump

\* Once pending/ is listed, what this run has handled and is not to be removed
\* is among what fits.
LEMMA ListPendingFit == ASSUME TInv, FitInv, ListPending PROVE FitInv'
<1>1. UNCHANGED <<file, exports, journal, boot>> /\ workerPc' \in {"remove", "wait"}
    <2>1. workerPc' = "remove" \/ workerPc' = "wait"
        BY DEF ListPending
    <2> QED
        BY <2>1 DEF ListPending, diskVars, WorkerKeeps
<1>2. ASSUME ~IOMayFail, MaxBytes > 0
      PROVE  workerPc' = "remove" /\ SumFunctionOnSet(Size, Kept') <= MaxBytes
    <2>1. PICK list \in OldestFirst(InPending, mtime) :
             workerPc' = "remove" /\ doomed' = Removed(list, Size, mtime, now)
        BY <1>2 DEF ListPending, Listings
    <2>2. PICK rest : rest = InPending \ ToSet(doomed')
        OBVIOUS
    <2>3. SumFunctionOnSet(Size, rest) <= MaxBytes
        BY <1>2, <2>1, <2>2, FitTypes, PassFits
    <2>4. Kept' \subseteq rest
        BY <1>1, <2>1, <2>2, FitTypes DEF Kept, StillThere, HandledNow
    <2>5. IsFiniteSet(rest) /\ Numbers(Size, rest)
        BY <2>2, FitTypes, FS_Subset DEF Numbers
    <2>6. SumFunctionOnSet(Size, Kept') <= SumFunctionOnSet(Size, rest)
        BY <2>4, <2>5, SumGrows
    <2>7. SumFunctionOnSet(Size, Kept') \in Nat /\ SumFunctionOnSet(Size, rest) \in Nat
        BY <2>4, <2>5, SumOf DEF SumAdds
    <2> QED
        BY <2>1, <2>3, <2>6, <2>7, FitTypes
<1> QED
    BY <1>1, <1>2 DEF FitInv

\* A removal takes a dump off the list and off the disk.
LEMMA RemoveReportFit == ASSUME TInv, FitInv, RemoveReport PROVE FitInv'
<1>1. /\ UNCHANGED <<exports, journal, boot>> /\ workerPc = "remove" /\ workerPc' \in {"remove", "wait"}
      /\ doomed \in Seq(Procs) /\ doomed # <<>>
    BY DEF RemoveReport, WorkerKeeps, TInv, Types, TypeOK
<1>2. ASSUME ~IOMayFail
      PROVE  workerPc' = "remove" /\ Kept' = Kept
    <2>1. /\ workerPc' = "remove" /\ doomed' = Tail(doomed)
          /\ file' = [file EXCEPT ![Head(doomed)] = "pruned"]
        BY <1>2 DEF RemoveReport
    <2>2. ToSet(doomed) = {Head(doomed)} \cup ToSet(doomed')
        BY <1>1, <2>1, HeadAndTail
    <2>3. \A p \in Procs : file'[p] = IF p = Head(doomed) THEN "pruned" ELSE file[p]
        BY <2>1 DEF TInv, Types, TypeOK
    <2>4. HandledNow' = HandledNow /\ HandledNow \subseteq Procs
        BY <1>1, FitTypes DEF HandledNow
    <2>5. StillThere' = StillThere \ {Head(doomed)}
        BY <2>3, <2>4 DEF StillThere
    <2> QED
        BY <1>1, <2>1, <2>2, <2>5 DEF Kept
<1> QED
    BY <1>1, <1>2 DEF FitInv

\* The list is done.
LEMMA PendingDoneFit == ASSUME TInv, FitInv, PendingDone PROVE FitInv'
<1>1. /\ UNCHANGED <<file, exports, journal, boot>> /\ workerPc = "remove" /\ doomed = <<>>
      /\ workerPc' = AfterPending
    BY DEF PendingDone, WorkerKeeps, diskVars
<1>2. Kept' = Kept
    BY <1>1 DEF Kept, StillThere, HandledNow, AfterPending, ToSet
<1>3. ~ExportEnabled => KeptExports' = {}
    BY <1>1 DEF FitInv, KeptExports, AfterPending
<1>4. MaxBytes \in Nat
    BY FitTypes
<1>5. SumFunctionOnSet(ExportSize, {}) = 0
    BY NoSum
<1>6. CASE ExportEnabled
    BY <1>1, <1>2, <1>6 DEF FitInv, AfterPending
<1>7. CASE ~ExportEnabled
    <2>1. exports' = {} /\ workerPc' = "wait" /\ KeptExports' = {}
        BY <1>1, <1>3, <1>7 DEF FitInv, AfterPending
    <2>2. SumFunctionOnSet(ExportSize, KeptExports)' <= MaxBytes
        <3>1. SumFunctionOnSet(ExportSize, KeptExports)' = SumFunctionOnSet(ExportSize, {})
            BY <2>1
        <3> QED
            BY <1>4, <1>5, <3>1
    <2>3. ~IOMayFail /\ MaxBytes > 0 => SumFunctionOnSet(Size, Kept)' <= MaxBytes
        BY <1>1, <1>2 DEF FitInv
    <2> QED
        BY <2>1, <2>2, <2>3 DEF FitInv
<1> QED
    BY <1>6, <1>7

\* So it goes with the export directory.
LEMMA ListExportsFit == ASSUME TInv, FitInv, ListExports PROVE FitInv'
<1>1. /\ UNCHANGED <<file, exports, journal, boot>> /\ workerPc = "prune_exports"
      /\ workerPc' \in {"remove_exports", "wait"}
    <2>1. workerPc' = "remove_exports" \/ workerPc' = "wait"
        BY DEF ListExports
    <2> QED
        BY <2>1 DEF ListExports, diskVars, WorkerKeeps
<1>2. Kept' = Kept
    BY <1>1 DEF Kept, StillThere, HandledNow
<1>3. ASSUME ~IOMayFail, MaxBytes > 0
      PROVE  workerPc' = "remove_exports" /\ SumFunctionOnSet(ExportSize, KeptExports') <= MaxBytes
    <2>1. PICK size, stamp : size = [e \in exports |-> Size[e.dump]] /\ stamp = [e \in exports |-> e.at]
        OBVIOUS
    <2>2. PICK list \in OldestFirst(exports, stamp) :
             workerPc' = "remove_exports" /\ doomed' = Removed(list, size, stamp, now)
        BY <1>3, <2>1 DEF ListExports, Listings
    <2>3. /\ IsFiniteSet(exports) /\ size \in [exports -> Nat] /\ Directory(exports, exports, size, stamp)
          /\ \A e \in exports : size[e] = ExportSize[e]
        BY <2>1, FitTypes DEF Directory, ExportSize
    <2>4. PICK rest : rest = exports \ ToSet(doomed')
        OBVIOUS
    <2>5. SumFunctionOnSet(size, rest) <= MaxBytes
        BY <1>3, <2>2, <2>3, <2>4, FitTypes, PassFits
    <2>6. IsFiniteSet(rest) /\ Numbers(size, rest) /\ \A e \in rest : ExportSize[e] = size[e]
        BY <2>3, <2>4, FS_Subset DEF Numbers
    <2>7. SumFunctionOnSet(ExportSize, rest) = SumFunctionOnSet(size, rest)
        BY <2>6, SameSum
    <2>8. KeptExports' = rest
        BY <1>1, <2>2, <2>4 DEF KeptExports
    <2> QED
        BY <2>2, <2>5, <2>7, <2>8
<1> QED
    BY <1>1, <1>2, <1>3 DEF FitInv

\* One export after the other, to the end of the list.
LEMMA RemoveExportFit == ASSUME TInv, FitInv, RemoveExport PROVE FitInv'
<1>1. /\ UNCHANGED <<file, journal, boot>> /\ exports' \subseteq exports
      /\ workerPc = "remove_exports" /\ workerPc' \in {"remove_exports", "wait"}
      /\ doomed \in Seq(Export)
    BY DEF RemoveExport, WorkerKeeps, TInv, Types, TypeOK
<1>2. Kept' = Kept
    BY <1>1 DEF Kept, StillThere, HandledNow
<1>3. ASSUME ~IOMayFail PROVE KeptExports' = KeptExports
    <2>1. CASE doomed = <<>>
        <3>1. workerPc' = "wait" /\ exports' = exports
            BY <2>1 DEF RemoveExport
        <3> QED
            BY <1>1, <2>1, <3>1 DEF KeptExports, ToSet
    <2>2. CASE doomed # <<>>
        <3>1. /\ exports' = exports \ {Head(doomed)} /\ doomed' = Tail(doomed) /\ workerPc' = workerPc
            BY <1>3, <2>2 DEF RemoveExport
        <3>2. ToSet(doomed) = {Head(doomed)} \cup ToSet(doomed')
            BY <1>1, <2>2, <3>1, HeadAndTail
        <3> QED
            BY <1>1, <3>1, <3>2 DEF KeptExports
    <2> QED
        BY <2>1, <2>2
<1> QED
    BY <1>1, <1>2, <1>3 DEF FitInv

\* A daemon that starts has handled nothing, whatever the one before it left.
LEMMA StartFit == ASSUME TInv, FitInv, Start PROVE FitInv'
<1>1. /\ UNCHANGED <<exports, journal>> /\ boot' = Len(journal) /\ workerPc' = "wait"
    BY DEF Start, diskVars
<1>2. Len(journal) \in Nat /\ MaxBytes \in Nat
    BY RateTypes, FitTypes
<1>3. (boot' + 1)..Len(journal') = {} /\ ~(boot' < Len(journal'))
    BY <1>1, <1>2
<1>4. Kept' = {}
    BY <1>1, <1>3 DEF Kept, StillThere, HandledNow
<1>5. MaxBytes > 0 => SumFunctionOnSet(Size, Kept') <= MaxBytes
    BY <1>2, <1>4, NoSum
<1> QED
    BY <1>1, <1>3, <1>5 DEF FitInv

\* Every step keeps the invariant.
LEMMA StepFit == TInv /\ OrderInv /\ FitInv /\ [Next]_vars => FitInv'
<1> SUFFICES ASSUME TInv, OrderInv, FitInv, [Next]_vars PROVE FitInv'
    OBVIOUS
<1> USE DEF mainVars, handlerVars, diskVars, workerVars, pruneVars, queueVars, orderVars, logVars
<1>1. CASE UNCHANGED vars \/ Process \/ HandlerExit \/ Tick \/ Sigterm
    BY <1>1, QuietFiles DEF vars, Process, Crash, Quit, Unserved, HandlerExit, Tick, Sigterm
<1>2. CASE EventLoop
    <2>1. UNCHANGED <<file, exports, journal, boot>>
        BY <1>2 DEF EventLoop, LoopCheck, PollIdle, ReadInotify, EnqueueEvent, EnqueueDone,
               NotifyWorker, AcceptClient, MainGoes
    <2>2. doomed' = doomed /\ (workerPc' = workerPc \/ (workerPc = "blocked" /\ workerPc' = "wait"))
        BY <1>2 DEF EventLoop, LoopCheck, PollIdle, ReadInotify, EnqueueEvent, EnqueueDone,
               NotifyWorker, Woken, AcceptClient, MainGoes
    <2> QED BY <2>1, <2>2, QuietFiles
<1>3. CASE LoopBreaks \/ CloseClientFd \/ JoinHandler \/ SetStop
    BY <1>3, QuietFiles DEF LoopBreaks, CloseClientFd, JoinHandler, SetStop, MainGoes
<1>4. CASE Start
    BY <1>4, StartFit
<1>5. CASE JoinWorker \/ Kill
    BY <1>5, QuietFiles DEF JoinWorker, Kill, ProcessEnds
<1>6. ASSUME NEW c \in Procs, Capture(c) PROVE FitInv'
    <2>1. /\ file' = [file EXCEPT ![c] = "new"] /\ proc[c] = "crashed"
          /\ UNCHANGED <<exports, journal, boot, workerPc, doomed>>
        BY <1>6 DEF Capture
    <2>2. rank[c] = 0
        <3>1. rank[c] \in Nat
            BY DEF TInv, Types, TypeOK
        <3> QED
            BY <2>1, <3>1 DEF OrderInv
    <2>3. file' = [file EXCEPT ![c] = file'[c]]
        BY <2>1 DEF TInv, Types, TypeOK
    <2> QED BY <2>1, <2>2, <2>3, ArrivalFit
<1>7. CASE RenameIntoPending
    <2>1. /\ capturing \in Procs /\ rank[capturing] = 0
          /\ file' = [file EXCEPT ![capturing] = "pending"]
          /\ UNCHANGED <<exports, journal, boot, workerPc, doomed>>
        BY <1>7, RenameOrder DEF RenameIntoPending
    <2>2. file' = [file EXCEPT ![capturing] = file'[capturing]]
        BY <2>1 DEF TInv, Types, TypeOK
    <2> QED BY <2>1, <2>2, ArrivalFit
<1>8. CASE WorkerWait \/ SpuriousWakeup \/ Patch \/ Rewrite
    BY <1>8, QuietFiles DEF WorkerWait, SpuriousWakeup, Patch, Rewrite, WorkerKeeps, NoPruning
<1>9. CASE ReportUnreadable \/ Suppress \/ LogTombstone
    BY <1>9, LogFit DEF ReportUnreadable, Suppress, LogTombstone
<1>10. CASE ExportMinidump
    BY <1>10, ExportFit
<1>11. CASE Prunes
    BY <1>11, ListPendingFit, RemoveReportFit, PendingDoneFit, ListExportsFit, RemoveExportFit DEF Prunes
<1> QED BY <1>1, <1>2, <1>3, <1>4, <1>5, <1>6, <1>7, <1>8, <1>9, <1>10, <1>11
        DEF Next, Worker, Prunes, Shutdown, Handler

\* Where removals do not fail: between two dumps what this run has handled fits
\* the limit, whatever it found at its start and whatever arrives meanwhile.
THEOREM PipelineHandledDumpsFit == ~IOMayFail => (Spec => []HandledDumpsFit)
<1> SUFFICES ASSUME ~IOMayFail PROVE Spec => []HandledDumpsFit
    OBVIOUS
<1>1. FitInv => HandledDumpsFit
    BY DEF FitInv, HandledDumpsFit, Kept, StillThere, HandledNow
<1> QED BY <1>1, InitTInv, StepTInv, InitThreads, StepThreads, InitOrder, StepOrder, InitFit, StepFit, PTL DEF Spec

\* Where removals do not fail: so does the export directory, once this run has
\* handled a dump.
THEOREM PipelineExportsFit == ~IOMayFail => (Spec => []ExportsFit)
<1> SUFFICES ASSUME ~IOMayFail PROVE Spec => []ExportsFit
    OBVIOUS
<1>1. TInv /\ FitInv => ExportsFit
    <2> SUFFICES ASSUME TInv, FitInv, workerPc \in {"wait", "blocked"}, MaxBytes > 0, boot < Len(journal)
                 PROVE  SumFunctionOnSet([e \in exports |-> Size[e.dump]], exports) <= MaxBytes
        BY DEF ExportsFit
    <2>1. KeptExports = exports /\ SumFunctionOnSet(ExportSize, KeptExports) <= MaxBytes
        BY DEF FitInv, KeptExports
    <2>2. IsFiniteSet(exports) /\ Numbers(ExportSize, exports)
          /\ \A e \in exports : [f \in exports |-> Size[f.dump]][e] = ExportSize[e]
        BY FitTypes DEF Directory, Numbers, ExportSize
    <2>3. SumFunctionOnSet([f \in exports |-> Size[f.dump]], exports) = SumFunctionOnSet(ExportSize, exports)
        BY <2>2, SameSum
    <2> QED
        BY <2>1, <2>3
<1> QED BY <1>1, InitTInv, StepTInv, InitThreads, StepThreads, InitOrder, StepOrder, InitFit, StepFit, PTL DEF Spec

\* The next removal is of a file that no listed file still there is older than,
\* and so are the ones after it.  A file on the list has arrived, so nothing
\* stamps it anew while the worker removes.
OldestInv ==
    /\ \A p \in Procs : file[p] \in {"pending", "pruned"} => rank[p] > 0
    /\ \A q \in seen : rank[q] > 0
    /\ workerPc = "remove" => \A i \in DOMAIN doomed :
          /\ rank[doomed[i]] > 0
          /\ \A q \in seen : file[q] = "pending" /\ (\A k \in 1..(i - 1) : doomed[k] # q)
                                => mtime[doomed[i]] <= mtime[q]

\* No file is on the disk.
LEMMA InitOldest == Init => OldestInv
BY DEF Init, OldestInv

\* A listing that is sorted gives a list that is.
LEMMA ListPendingOldest == ASSUME TInv, OldestInv, ListPending PROVE OldestInv'
<1>1. UNCHANGED <<file, rank, mtime>>
    BY DEF ListPending, WorkerKeeps, diskVars, orderVars
<1>2. CASE workerPc' = "wait"
    <2>1. seen' = seen
        BY <1>2 DEF ListPending, pruneVars
    <2> QED
        BY <1>1, <1>2, <2>1 DEF OldestInv
<1>3. CASE workerPc' # "wait"
    <2>1. PICK files \in Listings(InPending) : \E list \in OldestFirst(files, mtime) :
             doomed' = Removed(list, Size, mtime, now) /\ seen' = files /\ workerPc' = "remove"
        BY <1>3 DEF ListPending
    <2>2. PICK list \in OldestFirst(files, mtime) :
             doomed' = Removed(list, Size, mtime, now) /\ seen' = files
        BY <2>1
    <2>3. files \subseteq InPending
        BY <2>1 DEF Listings
    <2>4. Directory(files, Procs, Size, mtime) /\ now \in Nat
        BY <2>3, FitTypes, FS_Subset DEF Directory, InPending
    <2>5. doomed' \in Seq(files)
        BY <2>2, <2>4, RemovedListed
    <2>6. ASSUME NEW i \in DOMAIN doomed'
          PROVE  /\ rank[doomed'[i]] > 0
                 /\ \A q \in files : (\A k \in 1..(i - 1) : doomed'[k] # q) => mtime[doomed'[i]] <= mtime[q]
        <3>1. i \in 1..Len(doomed') /\ i \in Nat /\ Len(doomed') \in Nat /\ doomed'[i] \in files
            BY <2>5, <2>6
        <3>2. PICK taken : taken = ToSet(SubSeq(doomed', 1, i))
            OBVIOUS
        <3>3. i \in 0..Len(doomed')
            BY <3>1
        <3>4. AreOldest(taken, files, mtime)
            BY <2>2, <2>4, <3>2, <3>3, PassLeaves
        <3>5. taken = {doomed'[k] : k \in 1..i}
            <4>1. DOMAIN SubSeq(doomed', 1, i) = 1..i /\ \A k \in 1..i : SubSeq(doomed', 1, i)[k] = doomed'[k]
                BY <2>5, <3>1
            <4> QED
                BY <3>2, <4>1 DEF ToSet
        <3>6. rank[doomed'[i]] > 0
            BY <2>3, <3>1 DEF OldestInv, InPending
        <3>7. ASSUME NEW q \in files, \A k \in 1..(i - 1) : doomed'[k] # q
              PROVE  mtime[doomed'[i]] <= mtime[q]
            <4>1. CASE q = doomed'[i]
                <5>1. mtime[q] \in Nat
                    BY <2>4, <3>7 DEF Directory
                <5> QED
                    BY <4>1, <5>1
            <4>2. CASE q # doomed'[i]
                <5>1. \A k \in 1..i : k = i \/ k \in 1..(i - 1)
                    BY <3>1
                <5>2. q \notin taken /\ doomed'[i] \in taken
                    BY <3>1, <3>5, <3>7, <4>2, <5>1
                <5> QED
                    BY <3>4, <3>7, <5>2 DEF AreOldest
            <4> QED
                BY <4>1, <4>2
        <3> QED
            BY <3>6, <3>7
    <2>7. \A q \in files : rank[q] > 0
        BY <2>3 DEF OldestInv, InPending
    <2> QED
        BY <1>1, <2>2, <2>6, <2>7 DEF OldestInv
<1> QED
    BY <1>2, <1>3

\* The first of the list is gone, and the others move up.
LEMMA RemoveReportOldest == ASSUME TInv, OldestInv, RemoveReport PROVE OldestInv'
<1>1. /\ UNCHANGED <<rank, mtime, seen>> /\ workerPc = "remove" /\ doomed \in Seq(Procs) /\ doomed # <<>>
      /\ file \in [Procs -> {"absent", "new", "pending", "pruned"}] /\ rank \in [Procs -> Nat]
      /\ seen \subseteq Procs
    BY DEF RemoveReport, WorkerKeeps, orderVars, TInv, Types, TypeOK
<1>2. /\ Len(doomed) \in Nat \ {0} /\ DOMAIN doomed = 1..Len(doomed) /\ Head(doomed) = doomed[1]
      /\ DOMAIN Tail(doomed) = 1..(Len(doomed) - 1)
      /\ \A i \in 1..(Len(doomed) - 1) : Tail(doomed)[i] = doomed[i + 1]
    BY <1>1, HeadTailProperties, LenProperties, EmptySeq
<1>3. rank[Head(doomed)] > 0 /\ Head(doomed) \in Procs
    BY <1>1, <1>2 DEF OldestInv
<1>4. CASE workerPc' # "remove"
    <2>1. file' = file
        BY <1>1, <1>4 DEF RemoveReport
    <2> QED
        BY <1>1, <1>4, <2>1 DEF OldestInv
<1>5. CASE workerPc' = "remove"
    <2>1. file' = [file EXCEPT ![Head(doomed)] = "pruned"] /\ doomed' = Tail(doomed)
        BY <1>5 DEF RemoveReport
    <2>2. \A p \in Procs : file'[p] = IF p = Head(doomed) THEN "pruned" ELSE file[p]
        BY <1>1, <2>1
    <2>3. ASSUME NEW i \in DOMAIN doomed'
          PROVE  /\ rank[doomed'[i]] > 0
                 /\ \A q \in seen : file'[q] = "pending" /\ (\A k \in 1..(i - 1) : doomed'[k] # q)
                                       => mtime[doomed'[i]] <= mtime[q]
        <3>1. i \in 1..(Len(doomed) - 1) /\ i + 1 \in DOMAIN doomed /\ doomed'[i] = doomed[i + 1]
            BY <1>2, <2>1
        <3>2. ASSUME NEW q \in seen, file'[q] = "pending", \A k \in 1..(i - 1) : doomed'[k] # q
              PROVE  mtime[doomed'[i]] <= mtime[q]
            <4>1. q # doomed[1] /\ file[q] = "pending"
                BY <1>1, <1>2, <2>2, <3>2
            <4>2. \A k \in 2..i : k - 1 \in 1..(i - 1) /\ k - 1 \in 1..(Len(doomed) - 1) /\ (k - 1) + 1 = k
                BY <1>2, <3>1
            <4>3. \A k \in 2..i : doomed[k] # q
                BY <1>2, <2>1, <3>2, <4>2
            <4>4. \A k \in 1..((i + 1) - 1) : k = 1 \/ k \in 2..i
                BY <1>2, <3>1
            <4> QED
                BY <1>1, <3>1, <4>1, <4>3, <4>4 DEF OldestInv
        <3> QED
            BY <1>1, <3>1, <3>2 DEF OldestInv
    <2> QED
        BY <1>1, <1>3, <2>2, <2>3 DEF OldestInv
<1> QED
    BY <1>4, <1>5

\* A step outside the pass that changes no time stamp of a dump that has arrived.
LEMMA QuietOldest ==
    ASSUME TInv, OldestInv, UNCHANGED <<file, mtime, rank, seen>>,
           workerPc' = "remove" => UNCHANGED <<workerPc, doomed>>
    PROVE  OldestInv'
BY DEF OldestInv

\* Every step keeps the invariant.
LEMMA StepOldest == TInv /\ OrderInv /\ OldestInv /\ [Next]_vars => OldestInv'
<1> SUFFICES ASSUME TInv, OrderInv, OldestInv, [Next]_vars PROVE OldestInv'
    OBVIOUS
<1> USE DEF mainVars, handlerVars, diskVars, workerVars, pruneVars, queueVars, orderVars, logVars
<1>t. /\ file \in [Procs -> {"absent", "new", "pending", "pruned"}] /\ rank \in [Procs -> Nat]
      /\ mtime \in [Procs -> Nat] /\ seen \subseteq Procs /\ renamed \in Nat
      /\ workerPc = "remove" => doomed \in Seq(Procs) /\ \A i \in DOMAIN doomed : doomed[i] \in Procs
    BY DEF TInv, Types, TypeOK
<1>1. CASE UNCHANGED vars \/ Process \/ HandlerExit \/ Tick \/ Sigterm
    BY <1>1, QuietOldest DEF vars, Process, Crash, Quit, Unserved, HandlerExit, Tick, Sigterm
<1>2. CASE EventLoop
    BY <1>2, QuietOldest DEF EventLoop, LoopCheck, PollIdle, ReadInotify, EnqueueEvent, EnqueueDone,
           NotifyWorker, Woken, AcceptClient, MainGoes
<1>3. CASE LoopBreaks \/ CloseClientFd \/ JoinHandler \/ SetStop
    BY <1>3, QuietOldest DEF LoopBreaks, CloseClientFd, JoinHandler, SetStop, MainGoes
<1>4. CASE Start \/ JoinWorker \/ Kill
    BY <1>4, QuietOldest DEF Start, JoinWorker, Kill, ProcessEnds
<1>5. ASSUME NEW c \in Procs, Capture(c) PROVE OldestInv'
    <2>1. /\ file' = [file EXCEPT ![c] = "new"] /\ mtime' = [mtime EXCEPT ![c] = now]
          /\ UNCHANGED <<rank, workerPc, doomed, seen>> /\ rank[c] = 0
        BY <1>5, <1>t DEF Capture, OrderInv
    <2>2. \A p \in Procs : p # c => file'[p] = file[p] /\ mtime'[p] = mtime[p]
        BY <1>t, <2>1
    <2>3. file'[c] = "new"
        BY <1>t, <2>1
    <2>4. workerPc = "remove" => \A i \in DOMAIN doomed : doomed[i] \in Procs /\ doomed[i] # c
        BY <1>t, <2>1 DEF OldestInv
    <2>5. \A p \in Procs : file'[p] \in {"pending", "pruned"} => rank'[p] > 0
        BY <2>1, <2>2, <2>3 DEF OldestInv
    <2>6. ASSUME workerPc' = "remove", NEW i \in DOMAIN doomed
          PROVE  /\ rank'[doomed[i]] > 0
                 /\ \A q \in seen : file'[q] = "pending" /\ (\A k \in 1..(i - 1) : doomed[k] # q)
                                       => mtime'[doomed[i]] <= mtime'[q]
        <3>1. workerPc = "remove" /\ rank[doomed[i]] > 0 /\ mtime'[doomed[i]] = mtime[doomed[i]]
            BY <2>1, <2>2, <2>4, <2>6 DEF OldestInv
        <3>2. \A q \in seen : file'[q] = "pending" => file[q] = "pending" /\ mtime'[q] = mtime[q]
            BY <1>t, <2>2, <2>3
        <3> QED BY <2>1, <3>1, <3>2 DEF OldestInv
    <2>7. \A q \in seen : rank'[q] > 0
        BY <2>1 DEF OldestInv
    <2> QED BY <2>1, <2>5, <2>6, <2>7 DEF OldestInv
<1>6. CASE RenameIntoPending
    <2>1. /\ capturing \in Procs /\ rank[capturing] = 0 /\ rank' = [rank EXCEPT ![capturing] = renamed + 1]
          /\ file' = [file EXCEPT ![capturing] = "pending"]
          /\ UNCHANGED <<mtime, workerPc, doomed, seen>>
        BY <1>6, RenameOrder DEF RenameIntoPending
    <2>2. \A p \in Procs : p # capturing => file'[p] = file[p] /\ rank'[p] = rank[p]
        BY <1>t, <2>1
    <2>3. rank'[capturing] > 0
        BY <1>t, <2>1
    <2>4. capturing \notin seen /\ \A q \in seen : q \in Procs
        BY <2>1, <1>t DEF OldestInv
    <2>5. workerPc = "remove" => \A i \in DOMAIN doomed : rank'[doomed[i]] > 0
        BY <1>t, <2>1, <2>2, <2>3 DEF OldestInv
    <2>6. \A p \in Procs : file'[p] \in {"pending", "pruned"} => rank'[p] > 0
        BY <2>2, <2>3 DEF OldestInv
    <2>7. \A q \in seen : rank'[q] > 0 /\ file'[q] = file[q]
        BY <2>2, <2>4 DEF OldestInv
    <2> QED BY <2>1, <2>5, <2>6, <2>7 DEF OldestInv
<1>7. CASE WorkerWait \/ SpuriousWakeup \/ ReportUnreadable \/ Suppress \/ LogTombstone \/ ExportMinidump
    BY <1>7, QuietOldest DEF WorkerWait, SpuriousWakeup, ReportUnreadable, Suppress, LogTombstone,
           ExportMinidump, WorkerKeeps, NoPruning
<1>8. CASE Patch \/ Rewrite
    <2>1. workerPc' # "remove" /\ UNCHANGED <<file, rank, seen>>
        BY <1>8 DEF Patch, Rewrite, WorkerKeeps, NoPruning
    <2> QED BY <2>1 DEF OldestInv
<1>9. CASE ListPending BY <1>9, ListPendingOldest
<1>10. CASE RemoveReport BY <1>10, RemoveReportOldest
<1>11. CASE PendingDone \/ ListExports \/ RemoveExport
    <2>1. workerPc' # "remove" /\ UNCHANGED <<file, mtime, rank, seen>>
        <3>1. CASE PendingDone BY <3>1 DEF PendingDone, AfterPending, WorkerKeeps
        <3>2. CASE ListExports
            <4>1. workerPc' = "remove_exports" \/ workerPc' = "wait"
                BY <3>2 DEF ListExports
            <4> QED BY <3>2, <4>1 DEF ListExports, WorkerKeeps
        <3>3. CASE RemoveExport BY <3>3 DEF RemoveExport, WorkerKeeps
        <3> QED BY <1>11, <3>1, <3>2, <3>3
    <2> QED BY <2>1, QuietOldest
<1> QED BY <1>1, <1>2, <1>3, <1>4, <1>5, <1>6, <1>7, <1>8, <1>9, <1>10, <1>11
        DEF Next, Worker, Shutdown, Handler

\* For any dumps, time stamps, failures and arrivals in the middle of a pass: a
\* dump that stays while a newer one is removed was not in the listing.
THEOREM PipelineOldestPrunedFirst == Spec => OldestPrunedFirst
<1>1. TInv /\ OrderInv /\ OldestInv /\ [Next]_vars =>
        [\A p, q \in Procs : /\ file[p] = "pending" /\ file'[p] = "pruned"
                             /\ file[q] = "pending" /\ file'[q] = "pending"
                             /\ mtime[q] < mtime[p]
                             => q \notin seen]_vars
    <2> SUFFICES ASSUME TInv, OrderInv, OldestInv, Next, NEW p \in Procs, NEW q \in Procs,
                        file[p] = "pending", file'[p] = "pruned", file[q] = "pending", file'[q] = "pending",
                        q \in seen
                 PROVE  ~(mtime[q] < mtime[p])
        OBVIOUS
    <2> USE DEF mainVars, handlerVars, diskVars, workerVars, pruneVars, queueVars, orderVars, logVars
    <2>t. /\ file \in [Procs -> {"absent", "new", "pending", "pruned"}] /\ mtime \in [Procs -> Nat]
          /\ capturing \in Procs \cup {NoDump}
        BY DEF TInv, Types, TypeOK
    <2>1. CASE RemoveReport
        <3>1. workerPc = "remove" /\ doomed \in Seq(Procs) /\ doomed # <<>>
            BY <2>1 DEF RemoveReport, TInv, Types, TypeOK
        <3>2. 1 \in DOMAIN doomed /\ Head(doomed) = doomed[1]
            BY <3>1, HeadTailProperties, LenProperties, EmptySeq
        <3>3. p = doomed[1]
            BY <2>1, <2>t, <3>2 DEF RemoveReport
        <3>4. mtime[doomed[1]] <= mtime[q]
            BY <3>1, <3>2 DEF OldestInv
        <3> QED
            BY <2>t, <3>3, <3>4
    <2>2. CASE Handler
        <3>1. file'[p] \in {file[p], "new", "pending"}
            BY <2>2, <2>t DEF Handler, Capture, RenameIntoPending, HandlerExit
        <3> QED
            BY <3>1
    <2>3. CASE ~RemoveReport /\ ~Handler
        <3>1. file' = file
            BY <2>3 DEF Next, Worker, WorkerWait, Patch, Rewrite, ReportUnreadable, Suppress, LogTombstone,
                   ExportMinidump, ListPending, PendingDone, ListExports, RemoveExport, SpuriousWakeup,
                   EventLoop, LoopCheck, PollIdle, ReadInotify, EnqueueEvent, EnqueueDone, NotifyWorker,
                   AcceptClient, LoopBreaks, Shutdown, CloseClientFd, JoinHandler, SetStop, JoinWorker,
                   Kill, ProcessEnds, Process, Crash, Quit, Unserved, Start, Sigterm, Tick, MainGoes
        <3> QED
            BY <3>1
    <2> QED
        BY <2>1, <2>2, <2>3
<1> QED BY <1>1, InitTInv, StepTInv, InitThreads, StepThreads, InitOrder, StepOrder, InitOldest, StepOldest, PTL
        DEF Spec, OldestPrunedFirst
================================================================================
