------------------------------ MODULE CrashReport ------------------------------
(***************************************************************************)
(* From a failing thread to its tombstone: the process writes annotations  *)
(* (Annotations) and crashes, Crashpad captures them with the modules, the *)
(* daemon patches the dump (BuildIds), reads it part by part (ReadMinidump *)
(* in daemon/tombstone/minidump_reader.cpp, which opens it twice) and      *)
(* formats the tombstone, while an operator runs crashomon-patchdmp on the *)
(* same file.                                                              *)
(***************************************************************************)
EXTENDS Annotations, BuildIds

CONSTANTS
    PatchBuildIds,   \* --patch-build-ids=auto
    Base, Size,      \* where each module is mapped
    PCs              \* program counters of crashes

\* Modules are numbered as in the dump; they do not overlap.
ASSUME ReportAssumption ==
    /\ Modules \subseteq Nat /\ PatchBuildIds \in BOOLEAN /\ PCs \subseteq Nat
    /\ Base \in [Modules -> Nat \ {0}] /\ Size \in [Modules -> Nat \ {0}]
    /\ \A m, n \in Modules :
          m = n \/ Base[m] + Size[m] <= Base[n] \/ Base[n] + Size[n] <= Base[m]

VARIABLES
    crash,       \* what was captured, apart from the records of the dump
    reader,      \* what the reader comes to next, or "logged" or "unreadable"
    info,        \* MinidumpInfo
    tombstone

reportVars == <<reader, info, tombstone>>
vars == <<annotVars, buildVars, crash, reportVars>>

NoFrame == [module |-> 0, build |-> "none"]
NoInfo == [frame |-> NoFrame, abort_message |-> NoText, terminate_type |-> NoText]
NoCrash == [by |-> Free, pc |-> 0, abort_message |-> NoText, terminate_type |-> NoText,
            owed |-> "nothing", explained |-> FALSE]
NoTombstone == [frame |-> NoFrame, line |-> <<>>]

Init ==
    /\ AnnotInit /\ BuildInit
    /\ crash = NoCrash
    /\ reader = "idle" /\ info = NoInfo
    /\ tombstone = NoTombstone

\* Observers.  What its tombstone owes a thread that dies: nothing of a signal;
\* its message if it failed and was not disturbed, after its type or, if no
\* thread died of an exception, after none.
Owed(t) ==
    IF ~(thread[t].how \in Aborting /\ Undisturbed(t)) THEN "nothing"
    ELSE IF Typed(t) THEN "type"
    ELSE IF \E u \in Threads : Typed(u) THEN "message" ELSE "no type"

\* The message is that of an exception, and its type was written.
Explained(message) == message.kind \in {"what", "unhandled"} /\ message.by \notin missed /\ ~clash

Process == crash = NoCrash /\ AnnotNext /\ UNCHANGED <<buildVars, crash, reportVars>>

\* A replacement before the crash and one right after it are the same to those
\* who look at the disk.
Replace ==
    /\ crash # NoCrash
    /\ \E m \in Modules : Upgrade(m)
    /\ UNCHANGED <<annotVars, crash, reportVars>>

\* The handler stops the process where it is and writes the dump.
Capture(t) ==
    /\ crash = NoCrash /\ thread[t].at = "abort"
    /\ \E message \in Captured("abort_message"), type \in Captured("terminate_type"), pc_ \in PCs :
          crash' = [by |-> t, pc |-> pc_, abort_message |-> message, terminate_type |-> type,
                    owed |-> Owed(t), explained |-> Explained(message)]
    /\ dump' = [m \in Modules |-> IF m \in Noted THEN "loaded" ELSE "none"]
    /\ setup' = "hooked" /\ slots' = Empty /\ thread' = [u \in Threads |-> Idle]
    /\ missed' = {} /\ disturbed' = {} /\ clash' = FALSE
    /\ UNCHANGED <<disk, pc, buf, cut, request, excused, reportVars>>

Patch ==
    /\ crash # NoCrash
    /\ \/ PatchBuildIds /\ PatcherStep("daemon")
       \/ PatcherStep("tool")
    /\ UNCHANGED <<annotVars, crash, reportVars>>

--------------------------------------------------------------------------------
(* ReadMinidump and FormatTombstone *)

\* Mutant: the end of a module belongs to it.
InClosedRange(m, address) == address >= Base[m] /\ address <= Base[m] + Size[m]
Covers(m, address) == address >= Base[m] /\ address < Base[m] + Size[m]

\* The first module that covers the address; no frame for a zero one.
MakeFrameFromPC(address, records) ==
    LET covering == {m \in Modules : Covers(m, address)}
    IN IF address = 0 \/ covering = {} THEN NoFrame
       ELSE [module |-> First(covering), build |-> records[First(covering)]]

\* The reader comes to a part of the file; observer: it is only a beginning.
Reads(part, next) ==
    /\ reader = part
    /\ reader' \in next
    /\ excused' = IF "file" \in cut THEN excused \cup {"seen"} ELSE excused
    /\ UNCHANGED <<annotVars, disk, dump, pc, buf, cut, request, crash, tombstone>>

\* The first opening takes the header and the directory (Read), and then the
\* exception: of a beginning there may be neither, or a crash in no thread.
OpenDump ==
    /\ dump # NoFile /\ (PatchBuildIds => pc["daemon"] = "done")
    /\ Reads("idle", IF "file" \in cut THEN {"unreadable", "modules", "annotations"} ELSE {"modules"})
    /\ UNCHANGED info

\* Of a beginning there may be no list, or a module without its record.
ExtractModules ==
    /\ Reads("modules", {"registers"})
    /\ \E found \in Overlaid(Writers) :
          LET frame == MakeFrameFromPC(crash.pc, found)
              partly == IF "file" \in cut THEN {NoFrame, [frame EXCEPT !.build = "none"]} ELSE {}
          IN \E known \in {frame} \cup partly : info' = [info EXCEPT !.frame = known]

\* Without the thread's context there is no program counter.
ExtractRegisters ==
    /\ Reads("registers", {"annotations"})
    /\ \E known \in {info.frame} \cup (IF "file" \in cut THEN {NoFrame} ELSE {}) :
          info' = [info EXCEPT !.frame = known]

\* The second opening, by path.  Of a beginning each of the texts may be found
\* or not.
ExtractCrashpadAnnotations ==
    /\ Reads("annotations", {"format"})
    /\ \E message \in {crash.abort_message} \cup (IF "file" \in cut THEN {NoText} ELSE {}),
          type \in {crash.terminate_type} \cup (IF "file" \in cut THEN {NoText} ELSE {}) :
             info' = [info EXCEPT !.abort_message = message, !.terminate_type = type]

\* The line "Abort message", if there is a message, and the program counter.
FormatTombstone ==
    /\ reader = "format"
    /\ tombstone' = [frame |-> info.frame,
                     line |-> IF info.abort_message.kind = "" THEN <<>>
                              ELSE <<info.terminate_type, info.abort_message>>]
    /\ reader' = "logged" /\ info' = NoInfo
    /\ UNCHANGED <<annotVars, buildVars, crash>>

Report == OpenDump \/ ExtractModules \/ ExtractRegisters \/ ExtractCrashpadAnnotations \/ FormatTombstone

Next == Process \/ Replace \/ (\E t \in Threads : Capture(t)) \/ Patch \/ Report

Spec == Init /\ [][Next]_vars

--------------------------------------------------------------------------------
(* Properties *)

\* Type invariant.
TypeOK ==
    /\ AnnotTypeOK
    /\ disk \in [Modules -> {"loaded", "replaced", "none"}]
    /\ dump \in Records \cup {NoFile} /\ (dump = NoFile <=> crash = NoCrash)
    /\ cut \subseteq Patchers \cup {"file"} /\ excused \subseteq {"overlap", "failed", "cut", "seen"}
    /\ pc \in [Patchers -> {"idle", "patch", "truncate", "write", "done"}]
    /\ reader \in {"idle", "modules", "registers", "annotations", "format", "logged", "unreadable"}

Logged == reader = "logged"

\* A thread that dies of an assertion or of std::terminate is in the tombstone
\* with what it said then, whatever it, the program and threads that failed
\* before it have said, and wherever the others are with tags of their own; no
\* other type stands before it unless another thread died of an exception too.
\* (Not: when another thread has written a text of the report since it failed or
\* is in the middle of one, two insertions met, there was no room, or the reader
\* found only the beginning of the dump.  A thread that dies of a signal says
\* nothing, and its tombstone shows what was said last.)
MessageOfTheCrash ==
    Logged /\ crash.owed # "nothing" /\ "seen" \notin excused =>
        /\ tombstone.line # <<>>
        /\ tombstone.line[2].by = crash.by /\ tombstone.line[2].kind # "said"
        /\ crash.owed = "type" => tombstone.line[1] = Text(crash.by, "type")
        /\ crash.owed = "no type" => tombstone.line[1] = NoText

\* The message of an exception never comes without the type of an exception,
\* whichever thread crashes first and wherever the other one is then (its type
\* is written before its message), unless only the beginning of the dump was
\* there to be read.
TypeBeforeMessage ==
    Logged /\ crash.explained /\ "seen" \notin excused => tombstone.line[1] # NoText

\* The dump is whole but for the moments a patcher rewrites it, also when the
\* two write over each other, unless a write failed or a patcher had read what
\* another was still writing.
DumpSurvives ==
    "file" \in cut => {"failed", "cut"} \cap excused # {} \/ Writers # {}

\* The command was told of another build.
Misled(m) == {request.override[m], request.sysroot[m]} \cap {"wrong", "replaced"} # {}

\* A build id in a dump, whole or not, is that of the build the process had
\* loaded, whatever order the patchers and the upgrades come in and wherever they
\* meet; only a module linked without a note and replaced or misnamed since may
\* get another, and never one that Crashpad found in memory.
RightBuildIds ==
    dump # NoFile =>
        \A m \in Modules : \/ dump[m] \in {"none", "loaded"}
                           \/ m \notin Noted /\ (disk[m] = "replaced" \/ Misled(m))

\* The tombstone names the module the program counter is in and no other, or
\* none if there was only the beginning of a dump to read; and with its build
\* id, when Crashpad found it or the daemon patches, undisturbed, and the file of
\* the module is still there.
TombstoneNamesBuild ==
    LET In(m) == crash.pc \in Base[m]..(Base[m] + Size[m] - 1)
        frame == tombstone.frame
    IN Logged =>
        /\ frame.module # 0 => \E m \in Modules : frame.module = m /\ In(m)
        /\ \A m \in Modules : In(m) =>
              /\ frame.module = m \/ "seen" \in excused
              /\ \/ frame.build \in {"none", "loaded"}
                 \/ m \notin Noted /\ (disk[m] = "replaced" \/ Misled(m))
              /\ (\/ m \in Noted /\ "seen" \notin excused
                  \/ PatchBuildIds /\ Fits(m, "loaded") /\ disk[m] = "loaded" /\ ~Misled(m) /\ excused = {})
                     => frame.build = "loaded"
================================================================================
