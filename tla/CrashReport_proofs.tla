--------------------------- MODULE CrashReport_proofs ---------------------------
(***************************************************************************)
(* For any modules, upgrades, requests to the command, threads and tags:   *)
(* the dump survives its patchers; no build id in it is of a build the     *)
(* process did not have, but where one was put in its place; and what a    *)
(* thread said as it failed comes through the annotations to the tombstone *)
(* as it was said, and an exception never without its type.                *)
(***************************************************************************)
EXTENDS CrashReport, FiniteSetTheorems, WellFoundedInduction, TLAPS

--------------------------------------------------------------------------------
(* What the patchers hold *)

\* A build id that may be in a dump, and one that Crashpad or a patcher may
\* have left in it.
Right(m, build) ==
    build \in {"none", "loaded"} \/ (m \notin Noted /\ (disk[m] = "replaced" \/ Misled(m)))

Honest(m, build) == Right(m, build) /\ (m \in Noted => build = "loaded")

HonestDump(content) == content \in Records /\ \A m \in Modules : Honest(m, content[m])

BuildTypeOK ==
    /\ disk \in [Modules -> {"loaded", "replaced", "none"}]
    /\ pc \in [Patchers -> {"idle", "patch", "truncate", "write", "done"}]
    /\ buf \in [Patchers -> Records]
    /\ request \in Requests
    /\ cut \subseteq Patchers \cup {"file"} /\ excused \subseteq {"overlap", "failed", "cut", "seen"}

Excuse == {"failed", "cut"} \cap excused # {}

Holds(who) == pc[who] \in {"patch", "truncate", "write"}

\* Every content a patcher holds was honest when it was read, and so is the dump
\* in every part of it; who holds only the beginning of one has read it from a
\* file that was being written, and nobody else leaves one behind.
IInv ==
    /\ BuildTypeOK
    /\ dump = NoFile \/ HonestDump(dump)
    /\ \A who \in Patchers : Holds(who) => dump # NoFile /\ HonestDump(buf[who])
    /\ ~Excuse => cut \subseteq {"file"} /\ ("file" \in cut => Writers # {})

\* Before the crash there is no dump and no patcher holds one.
LEMMA InitIInv == Init => IInv
BY BuildIdsAssumption
    DEF Init, BuildInit, IInv, BuildTypeOK, Holds, Records, Builds, Nothing, Patchers

\* What a patcher would look up for a module is a build or nothing, and is
\* what the process had loaded unless the file or the command says otherwise.
LEMMA LookedUp ==
    ASSUME BuildTypeOK, NEW m \in Modules, NEW who \in Patchers
    PROVE  /\ BuildIdFor(who, m) \in Builds \cup {"none"}
           /\ BuildIdFor(who, m) \in {"none", "loaded"} \/ disk[m] = "replaced" \/ Misled(m)
<1>1. /\ request.override[m] \in Builds \cup {"none"}
      /\ request.sysroot[m] \in Builds \cup {"none"}
      /\ disk[m] \in {"loaded", "replaced", "none"}
    BY BuildIdsAssumption DEF BuildTypeOK, Records
<1>2. request.override[m] \in {"none", "loaded", "replaced", "wrong"}
      /\ request.sysroot[m] \in {"none", "loaded", "replaced", "wrong"}
    BY <1>1 DEF Builds
<1> QED
    BY <1>1, <1>2 DEF BuildIdFor, _lookup_override, _resolve_elf, ComputeElfBuildId, Misled, Builds

\* So patching keeps a dump honest, however far it goes.
LEMMA PatchedHonest ==
    ASSUME BuildTypeOK, NEW who \in Patchers, HonestDump(buf[who]), NEW patched \in Patched(who)
    PROVE  HonestDump(patched)
<1>1. buf[who] \in Records
    BY DEF HonestDump
<1>2. PICK reached : patched = [m \in Modules |-> IF m \in reached THEN PatchRecord(who, m) ELSE buf[who][m]]
    BY DEF Patched
<1>3. ASSUME NEW m \in Modules
      PROVE  /\ PatchRecord(who, m) \in Builds \cup {"none"} /\ Honest(m, PatchRecord(who, m))
             /\ buf[who][m] \in Builds \cup {"none"} /\ Honest(m, buf[who][m])
    <2>1. buf[who][m] \in Builds \cup {"none"} /\ Honest(m, buf[who][m])
        BY <1>1 DEF HonestDump, Records
    <2>2. CASE PatchRecord(who, m) = buf[who][m]
        BY <2>1, <2>2
    <2>3. CASE buf[who][m] = "none" /\ PatchRecord(who, m) = BuildIdFor(who, m)
        <3>1. m \notin Noted
            BY <2>1, <2>3 DEF Honest
        <3> QED
            BY <2>1, <3>1, <2>3, LookedUp DEF Honest, Right
    <2> QED
        BY <2>2, <2>3 DEF PatchRecord
<1> QED
    BY <1>2, <1>3 DEF HonestDump, Records

\* What one finds in the file is honest in every part.
LEMMA OverlaidHonest ==
    ASSUME IInv, dump # NoFile, NEW writers \in SUBSET Patchers, \A who \in writers : Holds(who),
           NEW found \in Overlaid(writers)
    PROVE  HonestDump(found)
<1>1. found \in Records /\ \A m \in Modules : found[m] \in {dump[m]} \cup {buf[who][m] : who \in writers}
    BY DEF Overlaid
<1>2. HonestDump(dump) /\ \A who \in writers : HonestDump(buf[who])
    BY DEF IInv
<1>3. ASSUME NEW m \in Modules PROVE Honest(m, found[m])
    <2>1. CASE found[m] = dump[m]
        BY <1>2, <2>1 DEF HonestDump
    <2>2. CASE \E who \in writers : found[m] = buf[who][m]
        BY <1>2, <2>2 DEF HonestDump
    <2> QED
        BY <1>1, <2>1, <2>2
<1> QED
    BY <1>1, <1>3 DEF HonestDump

\* Nobody writing, it is what was written.
LEMMA OverlaidByNone ==
    ASSUME IInv, dump # NoFile, NEW found \in Overlaid({})
    PROVE  found = dump
<1>1. found \in Records /\ dump \in Records /\ \A m \in Modules : found[m] = dump[m]
    BY DEF IInv, HonestDump, Overlaid
<1> QED
    BY <1>1 DEF Records

\* Whether a content is honest depends on the disk and the request alone.
LEMMA HonestKept ==
    ASSUME UNCHANGED <<disk, request>>
    PROVE  \A content : HonestDump(content)' <=> HonestDump(content)
BY DEF HonestDump, Honest, Right, Misled

\* A patcher that is through holds nothing.
LEMMA Through ==
    ASSUME BuildTypeOK, NEW who \in Patchers, Ends(who), UNCHANGED <<disk, request>>,
           cut' \subseteq Patchers \cup {"file"}, excused' \subseteq {"overlap", "failed", "cut", "seen"}
    PROVE  /\ BuildTypeOK' /\ pc' = [pc EXCEPT ![who] = "done"] /\ pc'[who] = "done"
           /\ \A p \in Patchers \ {who} : pc'[p] = pc[p] /\ (Holds(p)' <=> Holds(p)) /\ buf'[p] = buf[p]
           /\ ~Holds(who)' /\ Writers' = Writers \ {who}
<1>1. /\ pc' = [pc EXCEPT ![who] = "done"]
      /\ buf' = [buf EXCEPT ![who] = Nothing]
    BY DEF Ends, Goes
<1>2. Nothing \in Records
    BY DEF Nothing, Records
<1>3. BuildTypeOK'
    BY <1>1, <1>2 DEF BuildTypeOK
<1>4. pc'[who] = "done" /\ \A p \in Patchers \ {who} : pc'[p] = pc[p] /\ buf'[p] = buf[p]
    BY <1>1 DEF BuildTypeOK
<1> QED
    BY <1>1, <1>3, <1>4 DEF Holds, Writers

\* Each step of a patcher preserves the invariant.
LEMMA PatcherIInv ==
    ASSUME IInv, NEW who \in Patchers, PatcherStep(who)
    PROVE  IInv'
<1>1. BuildTypeOK /\ UNCHANGED <<disk, request>>
    BY DEF IInv, PatcherStep, ReadDump, PatchBuffer, Truncate, WriteBack, WriteFails
<1>2. \A content : HonestDump(content)' <=> HonestDump(content)
    BY <1>1, HonestKept
<1>h. Writers \in SUBSET Patchers /\ \A p \in Writers : Holds(p)
    BY DEF Writers, Holds
<1>3. CASE ReadDump(who)
    <2>1. /\ pc[who] = "idle" /\ dump # NoFile /\ dump' = dump /\ HonestDump(dump)
          /\ excused \subseteq excused' /\ excused' \subseteq {"overlap", "failed", "cut", "seen"}
          /\ "file" \in cut => Excuse'
        BY <1>1, <1>3 DEF ReadDump, IInv, Excuse, BuildTypeOK
    <2>2. who \notin Writers
        BY <2>1 DEF Writers
    <2>3. CASE Ends(who) /\ cut' = cut
        <3>1. /\ BuildTypeOK' /\ Writers' = Writers \ {who} /\ ~Holds(who)'
              /\ \A p \in Patchers \ {who} : (Holds(p)' <=> Holds(p)) /\ buf'[p] = buf[p]
            BY <1>1, <2>1, <2>3, Through DEF BuildTypeOK
        <3>2. ~Excuse' => cut' \subseteq {"file"} /\ ("file" \in cut' => Writers' # {})
            BY <2>1, <2>3 DEF IInv, Excuse
        <3>3. \A p \in Patchers : Holds(p)' => dump' # NoFile /\ HonestDump(buf[p])
            BY <2>1, <3>1 DEF IInv
        <3> QED
            BY <1>2, <2>1, <3>1, <3>2, <3>3 DEF IInv
    <2>4. CASE /\ Goes(who, "patch")
               /\ \E found \in Overlaid(Writers) : buf' = [buf EXCEPT ![who] = found]
               /\ cut' = IF "file" \in cut THEN cut \cup {who} ELSE cut
        <3>1. PICK found \in Overlaid(Writers) : buf' = [buf EXCEPT ![who] = found]
            BY <2>4
        <3>2. HonestDump(found) /\ found \in Records
            BY <1>h, <2>1, OverlaidHonest DEF HonestDump
        <3>3. pc' = [pc EXCEPT ![who] = "patch"]
            BY <2>4 DEF Goes
        <3>4. cut' \subseteq Patchers \cup {"file"}
            BY <1>1, <2>4 DEF BuildTypeOK
        <3>5. BuildTypeOK'
            BY <1>1, <2>1, <3>1, <3>2, <3>3, <3>4 DEF BuildTypeOK
        <3>6. /\ buf'[who] = found
              /\ \A p \in Patchers \ {who} : (Holds(p)' <=> Holds(p)) /\ buf'[p] = buf[p]
            BY <1>1, <3>1, <3>3 DEF BuildTypeOK, Holds
        <3>7. ~Excuse' => cut' \subseteq {"file"} /\ ("file" \in cut' => Writers' # {})
            BY <2>1, <2>4 DEF IInv, Excuse
        <3>8. \A p \in Patchers : Holds(p)' => dump' # NoFile /\ HonestDump(buf'[p])
            BY <2>1, <3>2, <3>6 DEF IInv
        <3> QED
            BY <1>2, <2>1, <3>5, <3>7, <3>8 DEF IInv
    <2> QED
        BY <1>3, <2>3, <2>4 DEF ReadDump
<1>4. CASE PatchBuffer(who)
    <2>1. pc[who] = "patch" /\ dump' = dump /\ excused' = excused /\ dump # NoFile /\ HonestDump(buf[who])
        BY <1>4 DEF PatchBuffer, IInv, Holds
    <2>2. CASE Ends(who) /\ cut' = cut \ {who}
        <3>1. /\ BuildTypeOK' /\ Writers' = Writers \ {who} /\ ~Holds(who)'
              /\ \A p \in Patchers \ {who} : (Holds(p)' <=> Holds(p)) /\ buf'[p] = buf[p]
            BY <1>1, <2>1, <2>2, Through DEF BuildTypeOK
        <3>2. who \notin Writers /\ who # "file"
            BY <2>1 DEF Writers, Patchers
        <3>3. ~Excuse' => cut' \subseteq {"file"} /\ ("file" \in cut' => Writers' # {})
            BY <2>1, <2>2, <3>1, <3>2 DEF IInv, Excuse
        <3>4. \A p \in Patchers : Holds(p)' => dump' # NoFile /\ HonestDump(buf[p])
            BY <2>1, <3>1 DEF IInv
        <3> QED
            BY <1>2, <2>1, <3>1, <3>3, <3>4 DEF IInv
    <2>3. CASE /\ \E patched \in Patched(who) : buf' = [buf EXCEPT ![who] = patched]
               /\ Goes(who, "truncate") /\ cut' = cut
        <3>1. PICK patched \in Patched(who) : buf' = [buf EXCEPT ![who] = patched]
            BY <2>3
        <3>2. HonestDump(patched) /\ patched \in Records
            BY <1>1, <2>1, PatchedHonest DEF HonestDump
        <3>3. pc' = [pc EXCEPT ![who] = "truncate"]
            BY <2>3 DEF Goes
        <3>4. BuildTypeOK'
            BY <1>1, <2>1, <2>3, <3>1, <3>2, <3>3 DEF BuildTypeOK
        <3>5. /\ buf'[who] = patched
              /\ \A p \in Patchers \ {who} : (Holds(p)' <=> Holds(p)) /\ buf'[p] = buf[p]
            BY <1>1, <3>1, <3>3 DEF BuildTypeOK, Holds
        <3>6. Writers' = Writers
            BY <1>1, <2>1, <3>3 DEF BuildTypeOK, Writers
        <3>7. \A p \in Patchers : Holds(p)' => dump' # NoFile /\ HonestDump(buf'[p])
            BY <2>1, <3>2, <3>5 DEF IInv
        <3> QED
            BY <1>2, <2>1, <2>3, <3>4, <3>6, <3>7 DEF IInv, Excuse
    <2> QED
        BY <1>4, <2>2, <2>3 DEF PatchBuffer
<1>5. CASE Truncate(who)
    <2>1. /\ pc[who] = "truncate" /\ pc' = [pc EXCEPT ![who] = "write"]
          /\ dump' = buf[who] /\ cut' = cut \cup {"file"} /\ excused' = excused /\ buf' = buf
        BY <1>5 DEF Truncate, Goes
    <2>2. BuildTypeOK' /\ \A p \in Patchers : Holds(p)' <=> Holds(p)
        BY <1>1, <2>1 DEF BuildTypeOK, Holds
    <2>3. who \in Writers'
        BY <1>1, <2>1 DEF BuildTypeOK, Writers
    <2>4. HonestDump(buf[who]) /\ buf[who] # NoFile
        BY <2>1, BuildIdsAssumption DEF IInv, Holds, HonestDump
    <2> QED
        BY <1>2, <2>1, <2>2, <2>3, <2>4 DEF IInv, Excuse
<1>6. CASE WriteBack(who)
    <2>1. /\ pc[who] = "write" /\ excused' = excused /\ Ends(who) /\ dump # NoFile
          /\ HonestDump(buf[who])
          /\ IF who \in cut THEN dump' \in Overlaid({who}) /\ cut' = cut \ {who}
             ELSE dump' = buf[who] /\ cut' = cut \ {"file"}
        BY <1>6 DEF WriteBack, IInv, Holds
    <2>2. cut' \subseteq cut
        BY <2>1
    <2>3. /\ BuildTypeOK' /\ Writers' = Writers \ {who} /\ ~Holds(who)'
          /\ \A p \in Patchers \ {who} : (Holds(p)' <=> Holds(p)) /\ buf'[p] = buf[p]
        BY <1>1, <2>1, <2>2, Through DEF BuildTypeOK
    <2>4. HonestDump(dump')
        <3>1. Holds(who) /\ {who} \in SUBSET Patchers
            BY <2>1 DEF Holds
        <3>2. \A found \in Overlaid({who}) : HonestDump(found)
            BY <2>1, <3>1, OverlaidHonest
        <3> QED
            BY <2>1, <3>2
    <2>5. dump' # NoFile
        BY <2>4, BuildIdsAssumption DEF HonestDump
    <2>6. ~Excuse' => cut' = {}
        <3> SUFFICES ASSUME ~Excuse PROVE cut' = {}
            BY <2>1 DEF Excuse
        <3>1. cut \subseteq {"file"} /\ who # "file"
            BY DEF IInv, Patchers
        <3> QED
            BY <2>1, <3>1
    <2>7. \A p \in Patchers : Holds(p)' => dump' # NoFile /\ HonestDump(buf'[p])
        BY <2>3, <2>5 DEF IInv
    <2> QED
        BY <1>2, <2>3, <2>4, <2>6, <2>7 DEF IInv
<1>7. CASE WriteFails(who)
    <2>1. /\ pc[who] = "write" /\ excused' = excused \cup {"failed"} /\ Ends(who) /\ dump # NoFile
          /\ dump' \in Overlaid({who}) /\ cut' = cut \ {who}
        BY <1>7 DEF WriteFails, IInv, Holds
    <2>2. /\ BuildTypeOK' /\ ~Holds(who)'
          /\ \A p \in Patchers \ {who} : (Holds(p)' <=> Holds(p)) /\ buf'[p] = buf[p]
        BY <1>1, <2>1, Through DEF BuildTypeOK
    <2>3. Excuse'
        BY <2>1 DEF Excuse
    <2>4. HonestDump(dump')
        BY <2>1, OverlaidHonest DEF Holds
    <2>5. dump' # NoFile
        BY <2>4, BuildIdsAssumption DEF HonestDump
    <2>6. \A p \in Patchers : Holds(p)' => dump' # NoFile /\ HonestDump(buf'[p])
        BY <2>2, <2>5 DEF IInv
    <2> QED
        BY <1>2, <2>2, <2>3, <2>4, <2>6 DEF IInv
<1> QED
    BY <1>3, <1>4, <1>5, <1>6, <1>7 DEF PatcherStep

\* The reader changes nothing but the observer.
LEMMA ReportKeeps ==
    ASSUME Report
    PROVE  /\ UNCHANGED <<annotVars, disk, dump, pc, buf, cut, request, crash>>
           /\ excused' \in {excused, excused \cup {"seen"}}
           /\ "file" \in cut /\ reader # "format" => "seen" \in excused'
BY DEF Report, OpenDump, ExtractModules, ExtractRegisters, ExtractCrashpadAnnotations, FormatTombstone,
       Reads, buildVars, patchVars

\* Every step of the system preserves the invariant.
LEMMA StepIInv == IInv /\ [Next]_vars => IInv'
<1> SUFFICES ASSUME IInv, [Next]_vars PROVE IInv'
    OBVIOUS
<1>1. ASSUME UNCHANGED buildVars PROVE IInv'
    <2>1. UNCHANGED <<disk, dump, pc, buf, cut, request, excused>>
        BY <1>1 DEF buildVars, patchVars
    <2>2. \A content : HonestDump(content)' <=> HonestDump(content)
        BY <2>1, HonestKept
    <2> QED
        BY <2>1, <2>2 DEF IInv, BuildTypeOK, Holds, Excuse, Writers
<1>2. CASE Process
    BY <1>1, <1>2 DEF Process
<1>3. CASE Replace
    <2>1. PICK m \in Modules : Upgrade(m)
        BY <1>3 DEF Replace
    <2>2. PICK build \in {"replaced", "none"} : disk' = [disk EXCEPT ![m] = build]
        BY <2>1 DEF Upgrade
    <2>3. disk[m] = "loaded" /\ UNCHANGED <<dump, pc, buf, cut, request, excused>>
        BY <2>1 DEF Upgrade, patchVars
    <2>4. BuildTypeOK'
        BY <2>2, <2>3 DEF IInv, BuildTypeOK
    <2>5. \A n \in Modules : disk[n] = "replaced" => disk'[n] = "replaced"
        BY <2>2, <2>3 DEF IInv, BuildTypeOK
    <2>6. \A content : HonestDump(content) => HonestDump(content)'
        BY <2>3, <2>5 DEF HonestDump, Honest, Right, Misled
    <2> QED
        BY <2>3, <2>4, <2>6 DEF IInv, Holds, Excuse, Writers
<1>4. ASSUME NEW t \in Threads, Capture(t) PROVE IInv'
    <2>1. /\ dump' = [m \in Modules |-> IF m \in Noted THEN "loaded" ELSE "none"]
          /\ UNCHANGED <<disk, pc, buf, cut, request, excused>>
        BY <1>4 DEF Capture
    <2>2. \A content : HonestDump(content)' <=> HonestDump(content)
        BY <2>1, HonestKept
    <2>3. HonestDump(dump')
        BY <2>1, BuildIdsAssumption DEF HonestDump, Honest, Right, Records, Builds
    <2>4. dump' # NoFile
        BY <2>3, BuildIdsAssumption DEF HonestDump
    <2> QED
        BY <2>1, <2>2, <2>3, <2>4 DEF IInv, BuildTypeOK, Holds, Excuse, Writers
<1>5. CASE Patch
    BY <1>5, PatcherIInv DEF Patch, Patchers
<1>6. CASE Report
    <2>1. UNCHANGED <<disk, dump, pc, buf, cut, request>> /\ excused' \in {excused, excused \cup {"seen"}}
        BY <1>6, ReportKeeps
    <2>2. \A content : HonestDump(content)' <=> HonestDump(content)
        BY <2>1, HonestKept
    <2>3. (Excuse' <=> Excuse) /\ Writers' = Writers
        BY <2>1 DEF Excuse, Writers
    <2> QED
        BY <2>1, <2>2, <2>3 DEF IInv, BuildTypeOK, Holds
<1>7. CASE UNCHANGED vars
    BY <1>1, <1>7 DEF vars
<1> QED
    BY <1>2, <1>3, <1>4, <1>5, <1>6, <1>7 DEF Next

\* The dump is whole but while it is written, unless a write failed or a patcher
\* read it then (PatchMissingBuildIds and the in-place rewrite of the command).
THEOREM ReportDumpSurvives == Spec => []DumpSurvives
<1>1. IInv => DumpSurvives
    BY DEF IInv, DumpSurvives, Excuse
<1> QED
    BY InitIInv, StepIInv, <1>1, PTL DEF Spec

\* No build id in a dump is of a build the process did not have loaded, but for
\* modules without a note that were replaced or misnamed.
THEOREM ReportRightBuildIds == Spec => []RightBuildIds
<1>1. IInv => RightBuildIds
    BY DEF IInv, RightBuildIds, HonestDump, Honest, Right
<1> QED
    BY InitIInv, StepIInv, <1>1, PTL DEF Spec

--------------------------------------------------------------------------------
(* What the tombstone names *)

\* A module whose build id the daemon can find, and finds right.
Good(m) == Fits(m, "loaded") /\ disk[m] = "loaded" /\ ~Misled(m)

Complete(content) == \A m \in Modules : Good(m) => content[m] = "loaded"

\* The daemon's patch on its way, while nobody meets it: what it read is what
\* the dump has, what it writes is complete, and what it has written stays so,
\* also in the hands of a command that comes later.
PatchInv ==
    /\ ~(Holds("daemon") /\ Holds("tool"))
    /\ pc["daemon"] = "patch" => dump = buf["daemon"]
    /\ pc["daemon"] \in {"truncate", "write"} => Complete(buf["daemon"])
    /\ pc["daemon"] = "done" /\ dump # NoFile => Complete(dump)
    /\ pc["daemon"] = "done" /\ Holds("tool") => Complete(buf["tool"])

In(address, m) == address \in Base[m]..(Base[m] + Size[m] - 1)

Names(frame) ==
    /\ frame.module # 0 => \E m \in Modules : frame.module = m /\ In(crash.pc, m)
    /\ \A m \in Modules : In(crash.pc, m) =>
          /\ frame.module = m \/ "seen" \in excused
          /\ Right(m, frame.build)
          /\ m \in Noted /\ "seen" \notin excused => frame.build = "loaded"
          /\ PatchBuildIds /\ Good(m) /\ excused = {} => frame.build = "loaded"

FrameShape(frame) == frame = [module |-> frame.module, build |-> frame.build]

InfoShape(i) ==
    i = [frame |-> i.frame, abort_message |-> i.abort_message, terminate_type |-> i.terminate_type]

ReaderInv ==
    /\ InfoShape(info)
    /\ reader \in {"idle", "modules"} => info = NoInfo
    /\ reader \in {"registers", "annotations", "format"} => Names(info.frame)
    /\ reader = "logged" => Names(tombstone.frame)

BeforeCrash == dump = NoFile /\ reader = "idle" /\ \A who \in Patchers : pc[who] = "idle"

JInv ==
    /\ IInv
    /\ crash.pc \in Nat
    /\ crash = NoCrash => BeforeCrash
    /\ dump = NoFile => crash = NoCrash
    /\ reader # "idle" /\ PatchBuildIds => pc["daemon"] = "done"
    /\ excused = {} => PatchInv
    /\ ReaderInv

\* Before the crash nothing is held, read or named.
LEMMA InitJInv == Init => JInv
<1> SUFFICES ASSUME Init PROVE JInv
    OBVIOUS
<1>1. IInv
    BY InitIInv
<1>2. BeforeCrash /\ PatchInv
    BY DEF Init, BuildInit, BeforeCrash, PatchInv, Holds, Patchers
<1>3. ReaderInv
    BY DEF Init, ReaderInv, InfoShape, NoInfo
<1>4. crash.pc \in Nat
    BY DEF Init, NoCrash
<1>5. crash = NoCrash /\ reader = "idle"
    BY DEF Init
<1> QED
    BY <1>1, <1>2, <1>3, <1>4, <1>5 DEF JInv

\* Modules do not overlap, so an address in one names it.
LEMMA FrameNames ==
    ASSUME NEW records, NEW address \in Nat
    PROVE  /\ \A m \in Modules : In(address, m) =>
                 MakeFrameFromPC(address, records) = [module |-> m, build |-> records[m]]
           /\ (\A m \in Modules : ~In(address, m)) => MakeFrameFromPC(address, records) = NoFrame
<1>1. /\ Modules \subseteq Nat
      /\ \A n \in Modules : Base[n] \in Nat \ {0} /\ Size[n] \in Nat \ {0}
    BY ReportAssumption
<1>2. ASSUME NEW n \in Modules PROVE Covers(n, address) <=> In(address, n)
    <2>1. n \in Nat /\ Base[n] \in Nat /\ Size[n] \in Nat
        BY <1>1
    <2> QED
        BY <2>1 DEF Covers, In
<1>3. ASSUME NEW m \in Modules, In(address, m)
      PROVE  MakeFrameFromPC(address, records) = [module |-> m, build |-> records[m]]
    <2>0. address \in Nat \ {0}
        BY <1>1, <1>3 DEF In
    <2>1. {n \in Modules : Covers(n, address)} = {m}
        <3>1. Covers(m, address)
            BY <1>2, <1>3
        <3>2. ASSUME NEW n \in Modules, Covers(n, address) PROVE n = m
            <4>1. n = m \/ Base[n] + Size[n] <= Base[m] \/ Base[m] + Size[m] <= Base[n]
                BY ReportAssumption
            <4> QED
                BY <1>1, <2>0, <3>1, <3>2, <4>1 DEF Covers
        <3> QED
            BY <3>1, <3>2
    <2>2. First({m}) = m
        BY <1>1 DEF First
    <2> QED
        BY <2>0, <2>1, <2>2 DEF MakeFrameFromPC
<1>4. ASSUME \A m \in Modules : ~In(address, m) PROVE MakeFrameFromPC(address, records) = NoFrame
    <2>1. {n \in Modules : Covers(n, address)} = {}
        BY <1>2, <1>4
    <2> QED
        BY <2>1 DEF MakeFrameFromPC
<1> QED
    BY <1>3, <1>4

\* What a module's file lets the daemon find can only get less, and what was
\* named stays named.
LEMMA NamesKept ==
    ASSUME crash' = crash, request' = request, excused \subseteq excused',
           \A m \in Modules : (disk'[m] = "loaded" => disk[m] = "loaded") /\ (disk[m] = "replaced" => disk'[m] = "replaced")
    PROVE  /\ \A m \in Modules : Good(m)' => Good(m)
           /\ \A content : Complete(content) => Complete(content)'
           /\ \A frame : Names(frame) => Names(frame)'
<1>1. \A m \in Modules : Good(m)' => Good(m)
    BY DEF Good, Misled
<1>2. \A content : Complete(content) => Complete(content)'
    BY <1>1 DEF Complete
<1>3. (excused' = {} => excused = {}) /\ ("seen" \in excused => "seen" \in excused')
    OBVIOUS
<1>4. ASSUME NEW frame, Names(frame) PROVE Names(frame)'
    <2>1. \A m \in Modules : Right(m, frame.build) => Right(m, frame.build)'
        BY DEF Right, Misled
    <2> QED
        BY <1>1, <1>3, <1>4, <2>1 DEF Names, In
<1> QED
    BY <1>1, <1>2, <1>4

\* Of the beginning of a dump less may be named.
LEMMA LessNames ==
    \A frame, known : /\ "seen" \in excused
                      /\ \/ known = NoFrame
                         \/ FrameShape(frame) /\ Names(frame) /\ known = [frame EXCEPT !.build = "none"]
                      => Names(known)
<1> SUFFICES ASSUME NEW frame, NEW known, "seen" \in excused,
                    \/ known = NoFrame
                    \/ FrameShape(frame) /\ Names(frame) /\ known = [frame EXCEPT !.build = "none"]
             PROVE  Names(known)
    OBVIOUS
<1>1. CASE known = NoFrame
    <2>1. known.module = 0 /\ known.build = "none"
        BY <1>1 DEF NoFrame
    <2> QED
        BY <2>1 DEF Names, Right
<1>2. CASE FrameShape(frame) /\ Names(frame) /\ known = [frame EXCEPT !.build = "none"]
    <2>1. PICK m, b : frame = [module |-> m, build |-> b]
        BY <1>2, Zenon DEF FrameShape
    <2>2. known = [module |-> m, build |-> "none"]
        BY <1>2, <2>1
    <2>3. known.module = frame.module /\ known.build = "none"
        BY <2>1, <2>2
    <2> QED
        BY <1>2, <2>3 DEF Names, Right
<1> QED
    BY <1>1, <1>2

\* The daemon finds the build id of every good module that has none, and the
\* command leaves those that have one.
LEMMA PatchedComplete ==
    ASSUME BuildTypeOK, NEW who \in Patchers, HonestDump(buf[who]), who \notin cut,
           who = "daemon" \/ Complete(buf[who]), NEW patched \in Patched(who)
    PROVE  Complete(patched)
<1>1. \A m \in Modules : patched[m] = PatchRecord(who, m)
    BY DEF Patched
<1>2. ASSUME NEW m \in Modules, Good(m) PROVE PatchRecord(who, m) = "loaded"
    <2>1. buf[who][m] \in {"none", "loaded"}
        BY <1>2 DEF HonestDump, Honest, Right, Good
    <2>2. CASE buf[who][m] = "loaded"
        BY <2>2 DEF PatchRecord
    <2>3. CASE buf[who][m] = "none"
        <3>1. who = "daemon"
            BY <1>2, <2>3 DEF Complete
        <3>2. BuildIdFor(who, m) = "loaded"
            BY <1>2, <3>1 DEF BuildIdFor, ComputeElfBuildId, Good
        <3> QED
            BY <1>2, <2>3, <3>2 DEF PatchRecord, Good
    <2> QED
        BY <2>1, <2>2, <2>3
<1> QED
    BY <1>1, <1>2 DEF Complete

\* No step of a patcher, met by no other, disturbs the daemon's patch.
LEMMA PatcherPatchInv ==
    ASSUME IInv, PatchInv, excused = {}, NEW who \in Patchers, PatcherStep(who), excused' = {}
    PROVE  PatchInv'
<1>1. BuildTypeOK /\ UNCHANGED <<disk, request>>
    BY DEF IInv, PatcherStep, ReadDump, PatchBuffer, Truncate, WriteBack, WriteFails
<1>2. \A content : Complete(content)' <=> Complete(content)
    BY <1>1 DEF Complete, Good, Misled
<1>3. ~Excuse /\ cut \subseteq {"file"} /\ who \notin cut
    BY DEF Excuse, IInv, Patchers
<1>4. \A p \in Patchers : Holds(p) => HonestDump(buf[p])
    BY DEF IInv
<1>5. CASE ReadDump(who)
    <2>1. /\ pc[who] = "idle" /\ dump' = dump /\ dump # NoFile /\ "file" \notin cut
          /\ \A other \in Patchers \ {who} : pc[other] \in {"idle", "done"}
        BY <1>5, Zenon DEF ReadDump, Met
    <2>2. Writers = {}
        BY <2>1 DEF Writers
    <2>3. pc' = [pc EXCEPT ![who] = "patch"] /\ buf' = [buf EXCEPT ![who] = dump]
        <3>1. PICK found \in Overlaid({}) : buf' = [buf EXCEPT ![who] = found]
            BY <1>5, <2>1, <2>2 DEF ReadDump
        <3>2. found = dump
            BY <2>1, OverlaidByNone
        <3> QED
            BY <1>5, <2>1, <3>1, <3>2 DEF ReadDump, Goes
    <2>4. CASE who = "daemon"
        <3>1. pc'["daemon"] = "patch" /\ buf'["daemon"] = dump /\ pc'["tool"] \in {"idle", "done"}
            BY <1>1, <2>1, <2>3, <2>4 DEF BuildTypeOK, Patchers
        <3> QED
            BY <2>1, <3>1 DEF PatchInv, Holds
    <2>5. CASE who = "tool"
        <3>1. /\ pc'["tool"] = "patch" /\ buf'["tool"] = dump
              /\ pc'["daemon"] = pc["daemon"] /\ pc["daemon"] \in {"idle", "done"}
            BY <1>1, <2>1, <2>3, <2>5 DEF BuildTypeOK, Patchers
        <3>2. pc["daemon"] = "done" => Complete(dump)
            BY <2>1 DEF PatchInv
        <3> QED
            BY <1>2, <2>1, <3>1, <3>2 DEF PatchInv, Holds
    <2> QED
        BY <2>4, <2>5 DEF Patchers
<1>6. CASE PatchBuffer(who)
    <2>1. pc[who] = "patch" /\ dump' = dump /\ HonestDump(buf[who])
        BY <1>4, <1>6 DEF PatchBuffer, Holds
    <2>2. CASE who = "daemon"
        <3>1. ~Holds("tool") /\ dump = buf["daemon"]
            BY <2>1, <2>2 DEF PatchInv, Holds
        <3>2. \A patched \in Patched("daemon") : Complete(patched)
            BY <1>1, <1>3, <2>1, <2>2, PatchedComplete
        <3>3. CASE buf["daemon"] \in Patched("daemon") /\ Ends("daemon")
            <4>1. pc' = [pc EXCEPT !["daemon"] = "done"]
                BY <3>3 DEF Ends, Goes
            <4>2. pc'["daemon"] = "done" /\ pc'["tool"] = pc["tool"]
                BY <1>1, <4>1 DEF BuildTypeOK, Patchers
            <4>3. Complete(dump)
                BY <3>1, <3>2, <3>3
            <4> QED
                BY <1>2, <2>1, <3>1, <4>2, <4>3 DEF PatchInv, Holds
        <3>4. CASE Goes("daemon", "truncate") /\ \E patched \in Patched("daemon") : buf' = [buf EXCEPT !["daemon"] = patched]
            <4>0. PICK patched \in Patched("daemon") : buf' = [buf EXCEPT !["daemon"] = patched]
                BY <3>4
            <4>1. /\ pc'["daemon"] = "truncate" /\ pc'["tool"] = pc["tool"]
                  /\ buf'["daemon"] = patched
                BY <1>1, <3>4, <4>0 DEF Goes, BuildTypeOK, Patchers
            <4> QED
                BY <1>2, <3>1, <3>2, <4>0, <4>1 DEF PatchInv, Holds
        <3> QED
            BY <1>6, <2>2, <3>3, <3>4 DEF PatchBuffer
    <2>3. CASE who = "tool"
        <3>1. ~Holds("daemon") /\ (pc["daemon"] = "done" => Complete(buf["tool"]))
            BY <2>1, <2>3 DEF PatchInv, Holds
        <3>2. pc["daemon"] = "done" => \A patched \in Patched("tool") : Complete(patched)
            BY <1>1, <1>3, <2>1, <2>3, <3>1, PatchedComplete
        <3>3. \/ pc' = [pc EXCEPT !["tool"] = "done"]
              \/ /\ pc' = [pc EXCEPT !["tool"] = "truncate"]
                 /\ \E patched \in Patched("tool") : buf' = [buf EXCEPT !["tool"] = patched]
            BY <1>6, <2>3 DEF PatchBuffer, Ends, Goes
        <3>4. /\ pc'["daemon"] = pc["daemon"] /\ pc["daemon"] \in {"idle", "done"}
              /\ pc'["tool"] = "truncate" => buf'["tool"] \in Patched("tool")
              /\ pc'["tool"] \in {"truncate", "done"}
            BY <1>1, <3>1, <3>3 DEF BuildTypeOK, Patchers, Holds
        <3>5. pc["daemon"] = "done" /\ dump # NoFile => Complete(dump)
            BY DEF PatchInv
        <3> QED
            BY <1>2, <2>1, <3>2, <3>4, <3>5 DEF PatchInv, Holds
    <2> QED
        BY <2>2, <2>3 DEF Patchers
<1>7. CASE Truncate(who)
    <2>1. pc[who] = "truncate" /\ dump' = buf[who] /\ buf' = buf /\ pc' = [pc EXCEPT ![who] = "write"]
        BY <1>7 DEF Truncate, Goes
    <2>2. CASE who = "daemon"
        <3>1. pc'["daemon"] = "write" /\ pc'["tool"] = pc["tool"] /\ ~Holds("tool") /\ Complete(buf["daemon"])
            BY <1>1, <2>1, <2>2 DEF BuildTypeOK, Patchers, Holds, PatchInv
        <3> QED
            BY <1>2, <2>1, <3>1 DEF PatchInv, Holds
    <2>3. CASE who = "tool"
        <3>1. /\ pc'["tool"] = "write" /\ pc'["daemon"] = pc["daemon"] /\ ~Holds("daemon")
              /\ pc["daemon"] = "done" => Complete(buf["tool"])
            BY <1>1, <2>1, <2>3 DEF BuildTypeOK, Patchers, Holds, PatchInv
        <3> QED
            BY <1>2, <2>1, <2>3, <3>1 DEF PatchInv, Holds
    <2> QED
        BY <2>2, <2>3 DEF Patchers
<1>8. CASE WriteBack(who)
    <2>1. /\ pc[who] = "write" /\ dump' = buf[who] /\ pc' = [pc EXCEPT ![who] = "done"]
          /\ buf' = [buf EXCEPT ![who] = Nothing]
        BY <1>3, <1>8 DEF WriteBack, Ends, Goes
    <2>2. CASE who = "daemon"
        <3>1. /\ ~Holds("tool") /\ Complete(buf["daemon"])
              /\ pc'["daemon"] = "done" /\ pc'["tool"] = pc["tool"]
            BY <1>1, <2>1, <2>2 DEF PatchInv, Holds, BuildTypeOK, Patchers
        <3> QED
            BY <1>2, <2>1, <2>2, <3>1 DEF PatchInv, Holds
    <2>3. CASE who = "tool"
        <3>1. /\ ~Holds("daemon") /\ pc'["tool"] = "done" /\ pc'["daemon"] = pc["daemon"]
              /\ pc["daemon"] \in {"idle", "done"}
              /\ pc["daemon"] = "done" => Complete(buf["tool"])
            BY <1>1, <2>1, <2>3 DEF PatchInv, Holds, BuildTypeOK, Patchers
        <3> QED
            BY <1>2, <2>1, <2>3, <3>1 DEF PatchInv, Holds
    <2> QED
        BY <2>2, <2>3 DEF Patchers
<1>9. CASE WriteFails(who)
    BY <1>9 DEF WriteFails
<1> QED
    BY <1>5, <1>6, <1>7, <1>8, <1>9 DEF PatcherStep

\* The patchers leave what the reader has.
LEMMA PatchJInv ==
    ASSUME JInv, Patch
    PROVE  JInv'
<1>1. PICK who \in Patchers : PatcherStep(who)
    BY DEF Patch, Patchers
<1>2. /\ crash' = crash /\ crash # NoCrash /\ UNCHANGED <<reader, info, tombstone>>
      /\ UNCHANGED <<disk, request>> /\ excused \subseteq excused'
    <2>1. UNCHANGED <<disk, request>> /\ excused \subseteq excused'
        BY <1>1 DEF PatcherStep, ReadDump, PatchBuffer, Truncate, WriteBack, WriteFails
    <2> QED
        BY <2>1 DEF Patch, reportVars
<1>3. IInv'
    BY <1>1, PatcherIInv DEF JInv
<1>4. excused' = {} => PatchInv'
    BY <1>1, <1>2, PatcherPatchInv DEF JInv
<1>5. ReaderInv'
    BY <1>2, NamesKept DEF JInv, ReaderInv, InfoShape
<1>6. pc["daemon"] = "done" => pc'["daemon"] = "done"
    <2>1. pc[who] # "done" /\ \E label : pc' = [pc EXCEPT ![who] = label]
        BY <1>1 DEF PatcherStep, ReadDump, PatchBuffer, Truncate, WriteBack, WriteFails, Goes, Ends
    <2> QED
        BY <2>1 DEF JInv, IInv, BuildTypeOK
<1>7. dump' # NoFile
    <2>1. dump # NoFile
        BY <1>2 DEF JInv
    <2>2. CASE dump' = dump
        BY <2>1, <2>2
    <2>3. CASE ~UNCHANGED dump
        <3>1. Holds(who) /\ dump' \in Overlaid({who}) \cup {buf[who]}
            BY <1>1, <2>3 DEF PatcherStep, ReadDump, PatchBuffer, Truncate, WriteBack, WriteFails, Holds
        <3>2. HonestDump(buf[who]) /\ \A found \in Overlaid({who}) : HonestDump(found)
            BY <2>1, <3>1, OverlaidHonest DEF JInv, IInv
        <3>3. dump' \in Records
            BY <3>1, <3>2 DEF HonestDump
        <3> QED
            BY <3>3, BuildIdsAssumption
    <2> QED
        BY <2>2, <2>3
<1> QED
    BY <1>2, <1>3, <1>4, <1>5, <1>6, <1>7 DEF JInv

\* What a reading step leaves for the rest of the invariant.
LEMMA ReportJInv == ASSUME JInv, Report, ReaderInv' PROVE JInv'
<1>1. /\ UNCHANGED <<annotVars, disk, dump, pc, buf, cut, request, crash>>
      /\ excused' \in {excused, excused \cup {"seen"}}
    BY ReportKeeps
<1>2. IInv'
    BY StepIInv DEF JInv, Next
<1>3. excused' = {} => PatchInv'
    BY <1>1 DEF JInv, PatchInv, Holds, Complete, Good, Misled
<1>4. crash # NoCrash /\ (PatchBuildIds => pc["daemon"] = "done")
    <2>1. crash = NoCrash => dump = NoFile /\ reader = "idle"
        BY DEF JInv, BeforeCrash
    <2>2. reader = "idle" => dump # NoFile /\ (PatchBuildIds => pc["daemon"] = "done")
        BY DEF Report, OpenDump, ExtractModules, ExtractRegisters, ExtractCrashpadAnnotations, FormatTombstone, Reads
    <2> QED
        BY <2>1, <2>2 DEF JInv
<1> QED
    BY <1>1, <1>2, <1>3, <1>4 DEF JInv

\* What is found names the module.
LEMMA FoundNames ==
    ASSUME JInv, reader # "idle", NEW found \in Overlaid(Writers)
    PROVE  FrameShape(MakeFrameFromPC(crash.pc, found)) /\ Names(MakeFrameFromPC(crash.pc, found))
<1> DEFINE frame == MakeFrameFromPC(crash.pc, found)
<1>0. dump # NoFile /\ crash.pc \in Nat
    BY DEF JInv, BeforeCrash
<1>1. HonestDump(found)
    BY <1>0, OverlaidHonest DEF JInv, Writers, Holds
<1>2. PatchBuildIds /\ excused = {} => Complete(found)
    <2> SUFFICES ASSUME PatchBuildIds, excused = {} PROVE Complete(found)
        OBVIOUS
    <2>1. PatchInv /\ pc["daemon"] = "done"
        BY DEF JInv
    <2>2. Complete(dump) /\ \A who \in Writers : Complete(buf[who])
        BY <1>0, <2>1 DEF PatchInv, Writers, Holds, Patchers
    <2>3. ASSUME NEW m \in Modules, Good(m) PROVE found[m] = "loaded"
        <3>1. dump[m] = "loaded" /\ \A who \in Writers : buf[who][m] = "loaded"
            BY <2>2, <2>3 DEF Complete
        <3> QED
            BY <3>1 DEF Overlaid
    <2> QED
        BY <2>3 DEF Complete
<1>3. CASE \A m \in Modules : ~In(crash.pc, m)
    <2>1. frame = NoFrame
        BY <1>0, <1>3, FrameNames
    <2>2. NoFrame.module = 0 /\ FrameShape(NoFrame)
        BY DEF NoFrame, FrameShape
    <2> QED
        BY <1>3, <2>1, <2>2 DEF Names
<1>4. ASSUME NEW m \in Modules, In(crash.pc, m) PROVE FrameShape(frame) /\ Names(frame)
    <2>1. \A n \in Modules : In(crash.pc, n) => frame = [module |-> n, build |-> found[n]]
        BY <1>0, FrameNames
    <2>2. ASSUME NEW n \in Modules, In(crash.pc, n) PROVE frame.module = n /\ frame.build = found[n]
        <3>1. frame = [module |-> n, build |-> found[n]]
            BY <1>0, <2>2, FrameNames
        <3> QED
            BY <3>1
    <2>3. FrameShape(frame)
        <3>1. frame = [module |-> m, build |-> found[m]]
            BY <1>0, <1>4, FrameNames
        <3> HIDE DEF frame
        <3> QED
            BY <3>1 DEF FrameShape
    <2>4. \A n \in Modules : /\ Honest(n, found[n])
                             /\ PatchBuildIds /\ Good(n) /\ excused = {} => found[n] = "loaded"
        BY <1>1, <1>2 DEF HonestDump, Complete
    <2> HIDE DEF frame
    <2>5. Names(frame)
        BY <1>4, <2>2, <2>4 DEF Names, Honest
    <2> QED
        BY <2>3, <2>5
<1> QED
    BY <1>3, <1>4

\* One part of what is known of the dump is set.
LEMMA InfoSet ==
    ASSUME NEW i, InfoShape(i)
    PROVE  /\ \A j, f : j = [i EXCEPT !.frame = f] =>
                 InfoShape(j) /\ j.frame = f /\ j.abort_message = i.abort_message /\ j.terminate_type = i.terminate_type
           /\ \A j, x, y : j = [i EXCEPT !.abort_message = x, !.terminate_type = y] =>
                 InfoShape(j) /\ j.frame = i.frame /\ j.abort_message = x /\ j.terminate_type = y
<1>1. PICK f, x, y : i = [frame |-> f, abort_message |-> x, terminate_type |-> y]
    BY Zenon DEF InfoShape
<1>2. ASSUME NEW j, NEW g, j = [i EXCEPT !.frame = g]
      PROVE  InfoShape(j) /\ j.frame = g /\ j.abort_message = i.abort_message /\ j.terminate_type = i.terminate_type
    <2>1. j = [frame |-> g, abort_message |-> x, terminate_type |-> y]
        BY <1>1, <1>2
    <2> QED
        BY <1>1, <2>1 DEF InfoShape
<1>3. ASSUME NEW j, NEW u, NEW v, j = [i EXCEPT !.abort_message = u, !.terminate_type = v]
      PROVE  InfoShape(j) /\ j.frame = i.frame /\ j.abort_message = u /\ j.terminate_type = v
    <2>1. j = [frame |-> f, abort_message |-> u, terminate_type |-> v]
        BY <1>1, <1>3
    <2> QED
        BY <1>1, <2>1 DEF InfoShape
<1> QED
    BY <1>2, <1>3

\* The same after a step.
LEMMA LessAgain ==
    /\ "seen" \in excused' => Names(NoFrame)'
    /\ \A frame, known : /\ "seen" \in excused' /\ FrameShape(frame) /\ Names(frame)'
                         /\ known = [frame EXCEPT !.build = "none"]
                         => Names(known)'
<1>1. (\A frame, known : /\ "seen" \in excused
                         /\ \/ known = NoFrame
                            \/ FrameShape(frame) /\ Names(frame) /\ known = [frame EXCEPT !.build = "none"]
                         => Names(known))'
    BY LessNames, PTL
<1>2. FrameShape(NoFrame)
    BY DEF FrameShape, NoFrame
<1> QED
    BY <1>1, <1>2 DEF FrameShape

\* What was named before a reading step is named after it.
LEMMA ReportNames ==
    ASSUME Report
    PROVE  \A frame : Names(frame) => Names(frame)'
<1>1. UNCHANGED <<disk, request, crash>> /\ excused \subseteq excused'
    BY ReportKeeps
<1> QED
    BY <1>1, NamesKept

\* Breakpad reads the dump after the daemon is done with it.
LEMMA ReadJInv == ASSUME JInv, OpenDump \/ ExtractModules \/ ExtractRegisters PROVE JInv'
<1>0. Report
    BY DEF Report
<1>1. /\ UNCHANGED <<annotVars, disk, dump, pc, buf, cut, request, crash>>
      /\ excused' \in {excused, excused \cup {"seen"}} /\ reader # "format" /\ tombstone' = tombstone
      /\ "file" \in cut => "seen" \in excused'
    BY <1>0, ReportKeeps DEF OpenDump, ExtractModules, ExtractRegisters, Reads
<1>2. InfoShape(info)
    BY DEF JInv, ReaderInv
<1>3. CASE OpenDump
    <2>1. info' = info /\ info = NoInfo /\ reader' \in {"unreadable", "modules", "annotations"}
          /\ (reader' = "annotations" => "file" \in cut)
        BY <1>3 DEF OpenDump, Reads, JInv, ReaderInv
    <2>2. (NoFrame = info.frame)'
        BY <2>1 DEF NoInfo
    <2>3. ("seen" \in excused => Names(NoFrame))'
        BY LessAgain
    <2>4. reader' = "annotations" => Names(info.frame)'
        BY <1>1, <2>1, <2>2, <2>3
    <2>5. ReaderInv'
        BY <1>2, <2>1, <2>4 DEF ReaderInv
    <2> QED
        BY <1>0, <2>1, <2>5, ReportJInv
<1>4. CASE ExtractModules
    <2>1. reader = "modules" /\ reader' = "registers"
        BY <1>4 DEF ExtractModules, Reads
    <2>2. PICK found \in Overlaid(Writers) :
              LET frame == MakeFrameFromPC(crash.pc, found)
                  partly == IF "file" \in cut THEN {NoFrame, [frame EXCEPT !.build = "none"]} ELSE {}
              IN \E known \in {frame} \cup partly : info' = [info EXCEPT !.frame = known]
        BY <1>4 DEF ExtractModules
    <2>3. PICK frame : frame = MakeFrameFromPC(crash.pc, found)
        OBVIOUS
    <2>4. PICK known : /\ info' = [info EXCEPT !.frame = known]
                       /\ known = frame \/ ("file" \in cut /\ known \in {NoFrame, [frame EXCEPT !.build = "none"]})
        BY <2>2, <2>3
    <2>5. info'.frame = known /\ InfoShape(info')
        <3>1. PICK f, x, y : info = [frame |-> f, abort_message |-> x, terminate_type |-> y]
            BY <1>2, Zenon DEF InfoShape
        <3>2. info' = [frame |-> known, abort_message |-> x, terminate_type |-> y]
            BY <2>4, <3>1
        <3> QED
            BY <3>2 DEF InfoShape
    <2>6. Names(known)'
        <3>1. FrameShape(frame) /\ Names(frame)
            BY <2>1, <2>3, FoundNames
        <3>2. Names(frame)'
            BY <1>0, <3>1, ReportNames
        <3>3. CASE known = frame
            BY <3>2, <3>3
        <3>4. CASE "file" \in cut /\ known \in {NoFrame, [frame EXCEPT !.build = "none"]}
            BY <1>1, <3>1, <3>2, <3>4, LessAgain
        <3> QED
            BY <2>4, <3>3, <3>4
    <2>7. ReaderInv'
        BY <2>1, <2>5, <2>6 DEF ReaderInv
    <2> QED
        BY <1>0, <2>1, <2>7, ReportJInv
<1>5. CASE ExtractRegisters
    <2>1. reader = "registers" /\ reader' = "annotations" /\ Names(info.frame)
        BY <1>5 DEF ExtractRegisters, Reads, JInv, ReaderInv
    <2>2. PICK known : /\ info' = [info EXCEPT !.frame = known]
                       /\ known = info.frame \/ ("file" \in cut /\ known = NoFrame)
        BY <1>5 DEF ExtractRegisters
    <2>3. info'.frame = known /\ InfoShape(info')
        <3>1. PICK f, x, y : info = [frame |-> f, abort_message |-> x, terminate_type |-> y]
            BY <1>2, Zenon DEF InfoShape
        <3>2. info' = [frame |-> known, abort_message |-> x, terminate_type |-> y]
            BY <2>2, <3>1
        <3> QED
            BY <3>2 DEF InfoShape
    <2>4. Names(known)'
        <3>1. ("seen" \in excused => Names(NoFrame))'
            BY LessAgain
        <3>2. CASE known = info.frame
            BY <1>0, <2>1, <3>2, ReportNames
        <3>3. CASE "file" \in cut /\ known = NoFrame
            BY <1>1, <3>1, <3>3
        <3> QED
            BY <2>2, <3>2, <3>3
    <2>5. ReaderInv'
        BY <2>1, <2>3, <2>4 DEF ReaderInv
    <2> QED
        BY <1>0, <2>1, <2>5, ReportJInv
<1> QED
    BY <1>3, <1>4, <1>5

\* The second opening and the formatting keep the frame.
LEMMA FormatJInv == ASSUME JInv, ExtractCrashpadAnnotations \/ FormatTombstone PROVE JInv'
<1>0. Report
    BY DEF Report
<1>1. InfoShape(info) /\ Names(info.frame)
    BY DEF ExtractCrashpadAnnotations, FormatTombstone, Reads, JInv, ReaderInv
<1>2. Names(info.frame)' \/ ~UNCHANGED info
    BY <1>0, <1>1, ReportNames
<1>3. CASE ExtractCrashpadAnnotations
    <2>1. PICK message, type : info' = [info EXCEPT !.abort_message = message, !.terminate_type = type]
        BY <1>3 DEF ExtractCrashpadAnnotations
    <2>2. info'.frame = info.frame /\ InfoShape(info')
        BY <1>1, <2>1, InfoSet
    <2>3. reader' = "format"
        BY <1>3 DEF ExtractCrashpadAnnotations, Reads
    <2>4. ReaderInv'
        BY <1>0, <1>1, <2>2, <2>3, ReportNames DEF ReaderInv
    <2> QED
        BY <1>0, <2>4, ReportJInv
<1>4. CASE FormatTombstone
    <2>1. reader' = "logged" /\ info' = NoInfo /\ tombstone'.frame = info.frame
        BY <1>4 DEF FormatTombstone
    <2>2. InfoShape(info')
        BY <2>1 DEF InfoShape, NoInfo
    <2>3. ReaderInv'
        BY <1>0, <1>1, <2>1, <2>2, ReportNames DEF ReaderInv
    <2> QED
        BY <1>0, <2>3, ReportJInv
<1> QED
    BY <1>3, <1>4

\* The rest of the system: before the crash nothing is held, and after it files
\* only go.
LEMMA StepJInv == JInv /\ [Next]_vars => JInv'
<1> SUFFICES ASSUME JInv, [Next]_vars PROVE JInv'
    OBVIOUS
<1>1. IInv'
    BY StepIInv DEF JInv
<1>2. ASSUME UNCHANGED <<buildVars, crash, reportVars>> PROVE JInv'
    BY <1>1, <1>2 DEF buildVars, patchVars, reportVars, JInv, BeforeCrash, PatchInv, Holds,
                      Complete, Good, Misled, ReaderInv, InfoShape, Names, In, Right
<1>3. CASE Replace
    <2>1. PICK m \in Modules : Upgrade(m)
        BY <1>3 DEF Replace
    <2>2. /\ crash # NoCrash /\ UNCHANGED <<dump, pc, buf, request, excused>>
          /\ UNCHANGED <<crash, reader, info, tombstone>>
        BY <1>3, <2>1 DEF Replace, Upgrade, patchVars, reportVars
    <2>3. \A n \in Modules : (disk'[n] = "loaded" => disk[n] = "loaded") /\ (disk[n] = "replaced" => disk'[n] = "replaced")
        BY <2>1 DEF Upgrade, JInv, IInv, BuildTypeOK
    <2>4. /\ \A content : Complete(content) => Complete(content)'
          /\ \A frame : Names(frame) => Names(frame)'
        BY <2>2, <2>3, NamesKept
    <2>5. (excused = {} => PatchInv') /\ ReaderInv'
        BY <2>2, <2>4 DEF JInv, PatchInv, Holds, ReaderInv, InfoShape
    <2> QED
        BY <1>1, <2>2, <2>5 DEF JInv
<1>4. ASSUME NEW t \in Threads, Capture(t) PROVE JInv'
    <2>1. crash = NoCrash /\ UNCHANGED <<disk, pc, buf, request, excused, reader, info, tombstone>>
        BY <1>4 DEF Capture, reportVars
    <2>2. BeforeCrash
        BY <2>1 DEF JInv
    <2>3. crash'.by = t /\ crash'.pc \in Nat
        BY <1>4, ReportAssumption DEF Capture
    <2>4. crash' # NoCrash
        BY <2>3, AnnotationsAssumption DEF NoCrash
    <2>5. PatchInv' /\ ReaderInv'
        BY <2>1, <2>2 DEF BeforeCrash, PatchInv, Holds, Patchers, JInv, ReaderInv, InfoShape
    <2>6. dump' # NoFile
        <3>1. dump' \in Records
            BY <1>4 DEF Capture, Records, Builds
        <3> QED
            BY <3>1, BuildIdsAssumption
    <2> QED
        BY <1>1, <2>1, <2>2, <2>3, <2>4, <2>5, <2>6 DEF JInv, BeforeCrash
<1> QED
    BY <1>2, <1>3, <1>4, PatchJInv, ReadJInv, FormatJInv DEF Next, Process, Report, vars

\* A tombstone names the module of its program counter, or none if it was read
\* of the beginning of a dump, and the build that was loaded if the module has a
\* note or the daemon found its file (MakeFrameFromPC on a dump
\* PatchMissingBuildIds has been over).
THEOREM ReportTombstoneNamesBuild == Spec => []TombstoneNamesBuild
<1>1. JInv => TombstoneNamesBuild
    BY DEF JInv, ReaderInv, Names, In, Good, Right, TombstoneNamesBuild, Logged
<1> QED
    BY InitJInv, StepJInv, <1>1, PTL DEF Spec


--------------------------------------------------------------------------------
(* The annotations of the process *)

Writes(t) == thread[t].at \in {"find", "key", "value"}

Message(how) == CASE how = "exception" -> "what" [] how = "silent_exception" -> "unhandled" [] OTHER -> "reason"

TypeTag(t) == Tag("terminate_type", t, "type")
MessageTag(t) == Tag("abort_message", t, Message(thread[t].how))

\* What a thread still has to write is what its failure, or else the program,
\* asks for.
Work(t) ==
    \/ /\ thread[t].how = "none" /\ thread[t].said \in UserKeys \cup {"abort_message"}
       /\ thread[t].todo = <<Tag(thread[t].said, t, "said")>>
    \/ thread[t].how \in Aborting /\ thread[t].todo = <<MessageTag(t)>>
    \/ Typed(t) /\ thread[t].todo = <<TypeTag(t), MessageTag(t)>>

ThreadOK(t) ==
    /\ thread[t].at \in {"run", "find", "key", "value", "abort"}
    /\ thread[t].how \in Aborting \cup {"none", "signal"}
    /\ thread[t].at = "run" => thread[t].how = "none"
    /\ thread[t].at = "abort" => thread[t].how # "none"
    /\ IF Writes(t) THEN Work(t) ELSE thread[t].todo = <<>>
    /\ IF thread[t].at \in {"key", "value"} THEN thread[t].slot \in 1..Capacity ELSE thread[t].slot = 0

ThreadShape ==
    thread = [t \in Threads |-> [at |-> thread[t].at, said |-> thread[t].said, how |-> thread[t].how,
                                 todo |-> thread[t].todo, slot |-> thread[t].slot]]
SlotShape == slots = [i \in 1..Capacity |-> [key |-> slots[i].key, text |-> slots[i].text]]

\* Without a clash the dictionary is a map, and only one thread at a time adds
\* a key, one that no entry has, at the first free entry.
Map ==
    /\ \A i, j \in 1..Capacity : slots[i].key = slots[j].key /\ slots[i].key # Free => i = j
    /\ \A i \in 1..Capacity : slots[i].key = Free => slots[i].text = NoText
    /\ \A t \in Threads : thread[t].at = "value" => slots[thread[t].slot].key = Entry(t).key
    /\ \A t \in Threads : thread[t].at = "key" =>
          /\ slots[thread[t].slot].key = Free
          /\ \A i \in 1..Capacity : slots[i].key = Free => thread[t].slot <= i
          /\ \A i \in 1..Capacity : slots[i].key # Entry(t).key
    /\ \A t, u \in Threads : thread[t].at = "key" /\ thread[u].at = "key" => t = u

\* A thread has its type in the dictionary before it turns to its message.
Turned(t) == Typed(t) /\ (Writes(t) => Entry(t).key # "terminate_type")

HasType == \E i \in 1..Capacity : slots[i].key = "terminate_type" /\ slots[i].text # NoText

Ended(t) == t \in Threads /\ Typed(t) /\ thread[t].at = "abort"

Types ==
    /\ \A t \in Threads : Turned(t) /\ t \notin missed => HasType
    /\ \A i \in 1..Capacity :
          slots[i].key = "abort_message" /\ slots[i].text.kind \in {"what", "unhandled"} =>
              Ended(slots[i].text.by)
    /\ (\E i \in 1..Capacity : slots[i].key = "terminate_type") => \E u \in Threads : Typed(u)

\* What a failing thread has written stays, as long as no other writes over it.
Steady(t) ==
    /\ thread[t].how \in Aborting /\ t \notin missed \cup disturbed
    /\ \A u \in Threads \ {t} : ~(thread[u].at = "value" /\ Entry(u).key \in Reported)

Own(t) ==
    /\ Turned(t) =>
          \E i \in 1..Capacity : slots[i].key = "terminate_type" /\ slots[i].text = Text(t, "type")
    /\ thread[t].at = "abort" =>
          \E i \in 1..Capacity : slots[i].key = "abort_message" /\ slots[i].text = MessageTag(t).text

AnnotInv ==
    /\ setup \in {"registered", "attached", "hooked"}
    /\ missed \cup disturbed \subseteq Threads /\ clash \in BOOLEAN
    /\ ThreadShape /\ SlotShape
    /\ \A t \in Threads : ThreadOK(t)
    /\ ~clash => Map /\ Types /\ \A t \in Threads : Steady(t) => Own(t)

\* What was captured.
CrashInv ==
    /\ crash.owed # "nothing" =>
          /\ crash.abort_message.by = crash.by
          /\ crash.abort_message.kind \in {"reason", "what", "unhandled"}
          /\ crash.owed = "type" => crash.terminate_type = Text(crash.by, "type")
          /\ crash.owed = "no type" => crash.terminate_type = NoText
    /\ crash.explained =>
          crash.abort_message.kind \in {"what", "unhandled"} /\ crash.terminate_type # NoText

\* Unless the reader found only the beginning of a dump it has both texts.
LineInv ==
    /\ reader \in {"idle", "modules", "registers", "annotations", "format", "logged", "unreadable"}
    /\ reader = "format" =>
          \/ "seen" \in excused
          \/ info.abort_message = crash.abort_message /\ info.terminate_type = crash.terminate_type
    /\ reader = "logged" =>
          \/ "seen" \in excused
          \/ tombstone.line = <<>> /\ crash.abort_message.kind = ""
          \/ tombstone.line = <<crash.terminate_type, crash.abort_message>> /\ crash.abort_message.kind # ""

--------------------------------------------------------------------------------

\* First() is the least of a set of places.
LEMMA FirstLeast ==
    ASSUME NEW n \in Nat, NEW S \in SUBSET (1..n), S # {}
    PROVE  First(S) \in S /\ \A j \in S : First(S) <= j
<1> DEFINE below(x) == {y \in S : y < x}
           T == {below(x) : x \in S}
           R == StrictSubsetOrdering(1..n)
<1>1. IsWellFoundedOn(R, FiniteSubsetsOf(1..n))
    BY FS_Interval, FS_StrictSubsetOrderingWellFounded
<1>2. T \subseteq FiniteSubsetsOf(1..n) /\ T # {}
    <2>1. IsFiniteSet(1..n)
        BY FS_Interval
    <2>2. \A x \in S : below(x) \in SUBSET (1..n)
        OBVIOUS
    <2>3. \A x \in S : IsFiniteSet(below(x))
        BY <2>1, <2>2, FS_Subset
    <2>4. \A x \in S : below(x) \in FiniteSubsetsOf(1..n)
        BY <2>2, <2>3 DEF FiniteSubsetsOf
    <2> HIDE DEF below
    <2> QED
        BY <2>4
<1>3. ASSUME NEW x \in S, NEW y \in S, y < x PROVE <<below(y), below(x)>> \in R
    <2>0. \A z \in S : z \in Nat /\ z \in 1..n
        OBVIOUS
    <2>a. \A z \in S : z < y => z < x
        BY <1>3, <2>0
    <2>b. below(y) \subseteq below(x)
        BY <2>a
    <2>1. below(y) \in SUBSET (1..n) /\ below(x) \in SUBSET (1..n) /\ below(y) \subseteq below(x)
        BY <2>0, <2>b
    <2>2. y \in below(x) /\ y \notin below(y)
        BY <1>3
    <2> QED
        BY <2>1, <2>2 DEF StrictSubsetOrdering
<1> HIDE DEF R, T
<1>4. PICK low \in T : \A other \in T : ~ (<<other, low>> \in R)
    BY <1>1, <1>2, WFMin
<1>5. PICK x \in S : low = below(x)
    BY <1>4 DEF T
<1>6. \A y \in S : below(y) \in T
    BY DEF T
<1>7. \A y \in S : ~(y < x)
    BY <1>3, <1>4, <1>5, <1>6
<1>8. \A y \in S : x <= y
    BY <1>7
<1> QED
    BY <1>5, <1>8 DEF First

\* A step of one thread leads to the threads f, where t has these fields and
\* the others have theirs.
Shaped(w) == w = [at |-> w.at, said |-> w.said, how |-> w.how, todo |-> w.todo, slot |-> w.slot]

Becomes(f, t, a, s, h, d, k) ==
    /\ f = [u \in Threads |-> f[u]] /\ \A u \in Threads : Shaped(f[u])
    /\ f[t].at = a /\ f[t].said = s /\ f[t].how = h /\ f[t].todo = d /\ f[t].slot = k
    /\ \A u \in Threads \ {t} : f[u] = thread[u]

LEMMA ThreadSet ==
    ASSUME ThreadShape, NEW t \in Threads, NEW a, NEW s, NEW h, NEW d, NEW k, NEW f,
           f = [thread EXCEPT ![t] = [at |-> a, said |-> s, how |-> h, todo |-> d, slot |-> k]]
    PROVE  Becomes(f, t, a, s, h, d, k)
<1>1. DOMAIN thread = Threads /\ thread = [u \in Threads |-> thread[u]]
    BY DEF ThreadShape
<1>2. \A u \in Threads : Shaped(thread[u])
    BY DEF ThreadShape, Shaped
<1>3. f[t] = [at |-> a, said |-> s, how |-> h, todo |-> d, slot |-> k]
    BY <1>1
<1>4. \A u \in Threads \ {t} : f[u] = thread[u]
    BY <1>1
<1>5. f = [u \in Threads |-> f[u]]
    BY <1>1
<1>6. f[t].at = a /\ f[t].said = s /\ f[t].how = h /\ f[t].todo = d /\ f[t].slot = k /\ Shaped(f[t])
    BY <1>3, SMTT(30) DEF Shaped
<1> QED
    BY <1>2, <1>4, <1>5, <1>6 DEF Becomes

\* The same of a step that sets some fields of the record.
LEMMA Edits ==
    ASSUME ThreadShape, NEW t \in Threads
    PROVE  /\ \A f, a : f = [thread EXCEPT ![t].at = a] =>
                  Becomes(f, t, a, thread[t].said, thread[t].how, thread[t].todo, thread[t].slot)
           /\ \A f, a, k : f = [thread EXCEPT ![t].at = a, ![t].slot = k] =>
                  Becomes(f, t, a, thread[t].said, thread[t].how, thread[t].todo, k)
           /\ \A f, a, s, d : f = [thread EXCEPT ![t].at = a, ![t].said = s, ![t].todo = d] =>
                  Becomes(f, t, a, s, thread[t].how, d, thread[t].slot)
           /\ \A f, a, h, d : f = [thread EXCEPT ![t].at = a, ![t].how = h, ![t].todo = d] =>
                  Becomes(f, t, a, thread[t].said, h, d, thread[t].slot)
<1>0. thread[t] = [at |-> thread[t].at, said |-> thread[t].said, how |-> thread[t].how,
                   todo |-> thread[t].todo, slot |-> thread[t].slot]
    BY DEF ThreadShape
<1>1. PICK p, q, g, e, l : thread[t] = [at |-> p, said |-> q, how |-> g, todo |-> e, slot |-> l]
    BY <1>0, Zenon
<1>2. thread[t].at = p /\ thread[t].said = q /\ thread[t].how = g /\ thread[t].todo = e /\ thread[t].slot = l
    BY <1>1
<1>3. t \in DOMAIN thread
    BY DEF ThreadShape
<1>4. ASSUME NEW a, NEW s, NEW h, NEW d, NEW k, NEW f
      PROVE  /\ f = [thread EXCEPT ![t].at = a] => Becomes(f, t, a, q, g, e, l)
             /\ f = [thread EXCEPT ![t].at = a, ![t].slot = k] => Becomes(f, t, a, q, g, e, k)
             /\ f = [thread EXCEPT ![t].at = a, ![t].said = s, ![t].todo = d] => Becomes(f, t, a, s, g, d, l)
             /\ f = [thread EXCEPT ![t].at = a, ![t].how = h, ![t].todo = d] => Becomes(f, t, a, q, h, d, l)
    <2>4. [[at |-> p, said |-> q, how |-> g, todo |-> e, slot |-> l] EXCEPT !.at = a]
              = [at |-> a, said |-> q, how |-> g, todo |-> e, slot |-> l]
        OBVIOUS
    <2>5. [[at |-> a, said |-> q, how |-> g, todo |-> e, slot |-> l] EXCEPT !.slot = k]
              = [at |-> a, said |-> q, how |-> g, todo |-> e, slot |-> k]
        OBVIOUS
    <2>6. [[at |-> a, said |-> q, how |-> g, todo |-> e, slot |-> l] EXCEPT !.said = s]
              = [at |-> a, said |-> s, how |-> g, todo |-> e, slot |-> l]
        OBVIOUS
    <2>7. [[at |-> a, said |-> s, how |-> g, todo |-> e, slot |-> l] EXCEPT !.todo = d]
              = [at |-> a, said |-> s, how |-> g, todo |-> d, slot |-> l]
        OBVIOUS
    <2>8. [[at |-> a, said |-> q, how |-> g, todo |-> e, slot |-> l] EXCEPT !.how = h]
              = [at |-> a, said |-> q, how |-> h, todo |-> e, slot |-> l]
        OBVIOUS
    <2>9. [[at |-> a, said |-> q, how |-> h, todo |-> e, slot |-> l] EXCEPT !.todo = d]
              = [at |-> a, said |-> q, how |-> h, todo |-> d, slot |-> l]
        OBVIOUS
    <2> DEFINE one == [thread EXCEPT ![t] = [at |-> a, said |-> q, how |-> g, todo |-> e, slot |-> l]]
               said == [thread EXCEPT ![t] = [at |-> a, said |-> s, how |-> g, todo |-> e, slot |-> l]]
               how == [thread EXCEPT ![t] = [at |-> a, said |-> q, how |-> h, todo |-> e, slot |-> l]]
    <2>10. [thread EXCEPT ![t].at = a] = one
        BY <1>1, <1>3, <2>4
    <2>11. [one EXCEPT ![t].slot = k] = [thread EXCEPT ![t] = [at |-> a, said |-> q, how |-> g, todo |-> e, slot |-> k]]
        BY <1>3, <2>5
    <2>12. [one EXCEPT ![t].said = s] = said
        BY <1>3, <2>6
    <2>13. [said EXCEPT ![t].todo = d] = [thread EXCEPT ![t] = [at |-> a, said |-> s, how |-> g, todo |-> d, slot |-> l]]
        BY <1>3, <2>7
    <2>14. [one EXCEPT ![t].how = h] = how
        BY <1>3, <2>8
    <2>15. [how EXCEPT ![t].todo = d] = [thread EXCEPT ![t] = [at |-> a, said |-> q, how |-> h, todo |-> d, slot |-> l]]
        BY <1>3, <2>9
    <2>16. /\ [thread EXCEPT ![t].at = a, ![t].slot = k] = [[thread EXCEPT ![t].at = a] EXCEPT ![t].slot = k]
           /\ [thread EXCEPT ![t].at = a, ![t].said = s, ![t].todo = d]
                  = [[[thread EXCEPT ![t].at = a] EXCEPT ![t].said = s] EXCEPT ![t].todo = d]
           /\ [thread EXCEPT ![t].at = a, ![t].how = h, ![t].todo = d]
                  = [[[thread EXCEPT ![t].at = a] EXCEPT ![t].how = h] EXCEPT ![t].todo = d]
        OBVIOUS
    <2>17. ASSUME f = [thread EXCEPT ![t].at = a] PROVE Becomes(f, t, a, q, g, e, l)
        BY <2>10, <2>17, ThreadSet
    <2>18. ASSUME f = [thread EXCEPT ![t].at = a, ![t].slot = k] PROVE Becomes(f, t, a, q, g, e, k)
        <3>1. f = [thread EXCEPT ![t] = [at |-> a, said |-> q, how |-> g, todo |-> e, slot |-> k]]
            BY <2>10, <2>11, <2>16, <2>18
        <3> QED
            BY <3>1, ThreadSet
    <2>19. ASSUME f = [thread EXCEPT ![t].at = a, ![t].said = s, ![t].todo = d]
           PROVE  Becomes(f, t, a, s, g, d, l)
        <3>1. f = [thread EXCEPT ![t] = [at |-> a, said |-> s, how |-> g, todo |-> d, slot |-> l]]
            BY <2>10, <2>12, <2>13, <2>16, <2>19
        <3> QED
            BY <3>1, ThreadSet
    <2>20. ASSUME f = [thread EXCEPT ![t].at = a, ![t].how = h, ![t].todo = d]
           PROVE  Becomes(f, t, a, q, h, d, l)
        <3>1. f = [thread EXCEPT ![t] = [at |-> a, said |-> q, how |-> h, todo |-> d, slot |-> l]]
            BY <2>10, <2>14, <2>15, <2>16, <2>20
        <3> QED
            BY <3>1, ThreadSet
    <2> QED
        BY <2>17, <2>18, <2>19, <2>20
<1> QED
    BY <1>2, <1>4, Zenon

\* What the entry is that a thread writes, and what comes after it.
LEMMA Entries ==
    ASSUME NEW t \in Threads, ThreadOK(t), Writes(t)
    PROVE  /\ Entry(t).text.by = t /\ Entry(t).text # NoText /\ Entry(t).key # Free
           /\ thread[t].how \in Aborting => Entry(t).key \in Reported
           /\ Entry(t).key = "terminate_type" =>
                  Typed(t) /\ Entry(t) = TypeTag(t) /\ Tail(thread[t].todo) = <<MessageTag(t)>>
           /\ Entry(t).key # "terminate_type" => Tail(thread[t].todo) = <<>>
           /\ Entry(t).key # "terminate_type" /\ thread[t].how \in Aborting => Entry(t) = MessageTag(t)
           /\ thread[t].how \notin Aborting => Entry(t).text.kind = "said"
<1>1. Work(t)
    BY DEF ThreadOK
<1>2. t # Free /\ "abort_message" # Free /\ "terminate_type" # Free /\ \A key \in UserKeys : key # Free /\ key \notin {"abort_message", "terminate_type"}
    BY AnnotationsAssumption
<1>3. \A key, kind : Tag(key, t, kind).key = key /\ Tag(key, t, kind).text.by = t
                     /\ Tag(key, t, kind).text.kind = kind /\ Tag(key, t, kind).text # NoText
    BY <1>2 DEF Tag, Text, NoText
<1>4. CASE /\ thread[t].how = "none" /\ thread[t].said \in UserKeys \cup {"abort_message"}
           /\ thread[t].todo = <<Tag(thread[t].said, t, "said")>>
    <2>1. Entry(t) = Tag(thread[t].said, t, "said") /\ Tail(thread[t].todo) = <<>>
        BY <1>4 DEF Entry
    <2> QED
        BY <1>2, <1>3, <1>4, <2>1 DEF Aborting, Terminating
<1>5. CASE thread[t].how \in Aborting /\ thread[t].todo = <<MessageTag(t)>>
    <2>1. Entry(t) = MessageTag(t) /\ Tail(thread[t].todo) = <<>>
        BY <1>5 DEF Entry
    <2> QED
        BY <1>2, <1>3, <1>5, <2>1 DEF MessageTag, Reported
<1>6. CASE Typed(t) /\ thread[t].todo = <<TypeTag(t), MessageTag(t)>>
    <2>1. Entry(t) = TypeTag(t) /\ Tail(thread[t].todo) = <<MessageTag(t)>>
        BY <1>6 DEF Entry
    <2>2. thread[t].how \in Aborting
        BY <1>6 DEF Typed, Aborting, Terminating
    <2> QED
        BY <1>2, <1>3, <1>6, <2>1, <2>2 DEF TypeTag, Reported
<1> QED
    BY <1>1, <1>4, <1>5, <1>6 DEF Work

\* After a tag, the next one or the end of it.
LEMMA After ==
    ASSUME ThreadShape, NEW t \in Threads, ThreadOK(t), Writes(t),
           thread' = [thread EXCEPT ![t] = AfterTag(t)]
    PROVE  /\ ThreadShape' /\ \A u \in Threads \ {t} : thread'[u] = thread[u]
           /\ thread'[t].said = thread[t].said /\ thread'[t].how = thread[t].how
           /\ ThreadOK(t)'
           /\ Entry(t).key = "terminate_type" =>
                  thread'[t].at = "find" /\ Entry(t)' = MessageTag(t) /\ Writes(t)' 
           /\ Entry(t).key # "terminate_type" =>
                  thread'[t].at = IF thread[t].how = "none" THEN "run" ELSE "abort"
<1>0. thread[t] = [at |-> thread[t].at, said |-> thread[t].said, how |-> thread[t].how,
                   todo |-> thread[t].todo, slot |-> thread[t].slot]
    BY DEF ThreadShape
<1>1. PICK p, s, h, d, k : thread[t] = [at |-> p, said |-> s, how |-> h, todo |-> d, slot |-> k]
    BY <1>0, Zenon
<1>r. PICK rest : rest = Tail(thread[t].todo)
    OBVIOUS
<1>a. PICK a : a = IF rest # <<>> THEN "find" ELSE IF thread[t].how # "none" THEN "abort" ELSE "run"
    OBVIOUS
<1>2. AfterTag(t) = [thread[t] EXCEPT !.todo = rest, !.slot = 0, !.at = a]
    BY <1>r, <1>a DEF AfterTag
<1>c. AfterTag(t) = [at |-> a, said |-> s, how |-> h, todo |-> rest, slot |-> 0]
    <2> DEFINE w == [at |-> p, said |-> s, how |-> h, todo |-> d, slot |-> k]
               v == [at |-> p, said |-> s, how |-> h, todo |-> rest, slot |-> k]
    <2>1. [w EXCEPT !.todo = rest, !.slot = 0, !.at = a] = [[[w EXCEPT !.todo = rest] EXCEPT !.slot = 0] EXCEPT !.at = a]
        OBVIOUS
    <2>2. [w EXCEPT !.todo = rest] = v
        OBVIOUS
    <2>3. [v EXCEPT !.slot = 0] = [at |-> p, said |-> s, how |-> h, todo |-> rest, slot |-> 0]
        OBVIOUS
    <2>4. [[at |-> p, said |-> s, how |-> h, todo |-> rest, slot |-> 0] EXCEPT !.at = a]
              = [at |-> a, said |-> s, how |-> h, todo |-> rest, slot |-> 0]
        OBVIOUS
    <2> QED
        BY <1>1, <1>2, <2>1, <2>2, <2>3, <2>4
<1>b. thread[t].said = s /\ thread[t].how = h
    BY <1>1
<1>d. thread' = [thread EXCEPT ![t] = [at |-> a, said |-> s, how |-> h, todo |-> rest, slot |-> 0]]
    BY <1>c
<1>e. Becomes(thread', t, a, s, h, rest, 0)
    BY <1>d, ThreadSet
<1>3. /\ ThreadShape' /\ \A u \in Threads \ {t} : thread'[u] = thread[u]
      /\ thread'[t].at = a /\ thread'[t].said = thread[t].said /\ thread'[t].how = thread[t].how
      /\ thread'[t].todo = rest /\ thread'[t].slot = 0
    BY <1>b, <1>e DEF Becomes, ThreadShape, Shaped
<1>4. CASE Entry(t).key = "terminate_type"
    <2>1. Typed(t) /\ rest = <<MessageTag(t)>>
        BY <1>r, <1>4, Entries
    <2>2. a = "find" /\ thread[t].how \in Aborting
        BY <1>a, <2>1 DEF Typed, Aborting, Terminating
    <2>3. MessageTag(t)' = MessageTag(t)
        BY <1>3 DEF MessageTag
    <2>4. Entry(t)' = MessageTag(t)
        BY <1>3, <2>1 DEF Entry
    <2>5. Writes(t)' /\ Work(t)' /\ thread'[t].at = "find"
        BY <1>3, <2>1, <2>2, <2>3 DEF Writes, Work
    <2>6. ThreadOK(t)'
        BY <1>3, <2>2, <2>5 DEF ThreadOK
    <2> QED
        BY <1>3, <1>4, <2>4, <2>5, <2>6
<1>5. CASE Entry(t).key # "terminate_type"
    <2>1. rest = <<>>
        BY <1>r, <1>5, Entries
    <2>2. a = IF thread[t].how = "none" THEN "run" ELSE "abort"
        BY <1>a, <2>1
    <2>3. ThreadOK(t)'
        BY <1>3, <2>1, <2>2 DEF ThreadOK, Writes
    <2> QED
        BY <1>3, <1>5, <2>2, <2>3
<1> QED
    BY <1>4, <1>5

\* Who is undisturbed after a step was so before it, and no step of another
\* wrote to what the tombstone shows.
LEMMA StillSteady ==
    ASSUME NEW t \in Threads, \A u \in Threads \ {t} : thread'[u] = thread[u],
           thread[t].how \in {"none", thread'[t].how}, missed \subseteq missed', disturbed \subseteq disturbed',
           thread[t].at = "value" /\ Entry(t).key \in Reported =>
               \A u \in Threads \ {t} : thread[u].how \in Aborting => u \in disturbed'
    PROVE  /\ \A u \in Threads : Typed(u) => Typed(u)'
           /\ \A u \in Threads \ {t} : Steady(u)' =>
                  Steady(u) /\ ~(thread[t].at = "value" /\ Entry(t).key \in Reported)
           /\ Steady(t)' /\ thread[t].how # "none" => Steady(t)
<1>1. \A u \in Threads : Typed(u) => Typed(u)'
    BY DEF Typed
<1>2. \A u \in Threads \ {t} : Entry(u)' = Entry(u)
    BY DEF Entry
<1>3. ASSUME NEW u \in Threads \ {t}, Steady(u)'
      PROVE  Steady(u) /\ ~(thread[t].at = "value" /\ Entry(t).key \in Reported)
    <2>1. thread[u].how \in Aborting /\ u \notin missed \cup disturbed'
        BY <1>3 DEF Steady
    <2>2. ~(thread[t].at = "value" /\ Entry(t).key \in Reported)
        BY <2>1
    <2>3. \A v \in Threads \ {u, t} : ~(thread[v].at = "value" /\ Entry(v).key \in Reported)
        BY <1>2, <1>3 DEF Steady
    <2> QED
        BY <2>1, <2>2, <2>3 DEF Steady
<1>4. Steady(t)' /\ thread[t].how # "none" => Steady(t)
    BY <1>2 DEF Steady
<1> QED
    BY <1>1, <1>3, <1>4

\* A thread starts on a tag, fails, or drops a tag: the dictionary stays.
LEMMA QuietAnnot ==
    ASSUME AnnotInv, NEW t \in Threads, thread[t].at \in {"run", "find"},
           ThreadShape', \A u \in Threads \ {t} : thread'[u] = thread[u],
           UNCHANGED <<setup, slots, disturbed, clash>>, missed \subseteq missed', missed' \subseteq Threads,
           ThreadOK(t)', thread'[t].at \notin {"key", "value"},
           thread[t].how \in {"none", thread'[t].how},
           Turned(t)' => t \in missed',
           thread'[t].at = "abort" /\ thread'[t].how \in Aborting => t \in missed'
    PROVE  AnnotInv'
<1>1. \A u \in Threads : ThreadOK(u)'
    BY DEF AnnotInv, ThreadOK, Work, Writes, MessageTag, Typed
<1>2. /\ \A u \in Threads : Typed(u) => Typed(u)'
      /\ \A u \in Threads \ {t} : Steady(u)' => Steady(u)
    BY StillSteady
<1>3. \A u \in Threads \ {t} : Entry(u)' = Entry(u) /\ (Turned(u)' <=> Turned(u)) /\ MessageTag(u)' = MessageTag(u)
    BY DEF Entry, Turned, Typed, Writes, MessageTag
<1>4. ASSUME ~clash' PROVE Map'
    BY <1>3, <1>4 DEF AnnotInv, Map
<1>5. ASSUME ~clash' PROVE Types'
    <2>1. Types /\ slots' = slots
        BY <1>5 DEF AnnotInv
    <2>2. ASSUME NEW u \in Threads, Turned(u)', u \notin missed' PROVE HasType'
        <3>1. Turned(u) /\ u \notin missed
            BY <1>3, <2>2
        <3> QED
            BY <2>1, <3>1 DEF Types, HasType
    <2>3. ASSUME NEW u, Ended(u) PROVE Ended(u)'
        BY <1>2, <2>3 DEF Ended
    <2>4. \A i \in 1..Capacity :
              slots'[i].key = "abort_message" /\ slots'[i].text.kind \in {"what", "unhandled"} =>
                  Ended(slots[i].text.by)
        BY <2>1 DEF Types
    <2>5. ASSUME NEW i \in 1..Capacity, slots'[i].key = "abort_message",
                 slots'[i].text.kind \in {"what", "unhandled"}
          PROVE  Ended(slots[i].text.by)'
        <3>1. PICK u : u = slots[i].text.by
            OBVIOUS
        <3>2. Ended(u)'
            BY <2>3, <2>4, <2>5, <3>1
        <3> QED
            BY <2>1, <3>1, <3>2 DEF Ended
    <2>6. (\E i \in 1..Capacity : slots'[i].key = "terminate_type") => \E u \in Threads : Typed(u)'
        BY <1>2, <2>1 DEF Types
    <2> QED
        BY <2>2, <2>5, <2>6 DEF Types
<1>6. ASSUME ~clash', NEW u \in Threads, Steady(u)' PROVE Own(u)'
    <2>1. CASE u # t
        <3>1. Own(u) /\ slots' = slots
            BY <1>2, <1>6, <2>1 DEF AnnotInv
        <3> QED
            BY <1>3, <2>1, <3>1 DEF Own
    <2>2. CASE u = t
        BY <1>6, <2>2 DEF Own, Steady
    <2> QED
        BY <2>1, <2>2
<1> QED
    BY <1>1, <1>4, <1>5, <1>6 DEF AnnotInv, SlotShape

\* The program sets a tag.
LEMMA SetTagAnnot == ASSUME AnnotInv, NEW t \in Threads, SetTag(t) PROVE AnnotInv'
<1>1. PICK key \in UserKeys \cup {"abort_message"} :
          thread' = [thread EXCEPT ![t].at = "find", ![t].said = key, ![t].todo = <<Tag(key, t, "said")>>]
    BY DEF SetTag
<1>2. /\ thread[t].at = "run" /\ thread[t].said = Free /\ UNCHANGED <<setup, slots, missed, disturbed, clash>>
      /\ thread[t].how = "none" /\ thread[t].slot = 0 /\ ThreadShape
    BY SMTT(30) DEF SetTag, AnnotInv, ThreadOK
<1>3. Becomes(thread', t, "find", key, thread[t].how, <<Tag(key, t, "said")>>, thread[t].slot)
    BY <1>1, <1>2, Edits
<1>4. /\ ThreadShape' /\ \A u \in Threads \ {t} : thread'[u] = thread[u]
      /\ thread'[t].at = "find" /\ thread'[t].said = key /\ thread'[t].how = "none"
      /\ thread'[t].todo = <<Tag(key, t, "said")>> /\ thread'[t].slot = 0
    BY <1>2, <1>3 DEF Becomes, ThreadShape, Shaped
<1>7. ThreadOK(t)'
    BY <1>4 DEF ThreadOK, Writes, Work
<1>8. ~Turned(t)'
    BY <1>4 DEF Turned, Typed
<1> QED
    BY <1>2, <1>4, <1>7, <1>8, QuietAnnot DEF AnnotInv

\* A thread fails.
LEMMA FailAnnot == ASSUME AnnotInv, NEW t \in Threads, Fail(t) PROVE AnnotInv'
<1>1. PICK how \in Aborting \cup {"signal"} :
          LET work == CASE how = "assert" -> WriteAssertAnnotation(t)
                        [] how \in Terminating /\ setup = "hooked" -> WriteTerminateAnnotation(t, how)
                        [] OTHER -> <<>>
          IN /\ thread' = [thread EXCEPT ![t].at = IF work = <<>> THEN "abort" ELSE "find",
                                         ![t].how = how, ![t].todo = work]
             /\ missed' = IF how \in Aborting /\ work = <<>> THEN missed \cup {t} ELSE missed
    BY DEF Fail
<1>2. PICK work : work = CASE how = "assert" -> WriteAssertAnnotation(t)
                           [] how \in Terminating /\ setup = "hooked" -> WriteTerminateAnnotation(t, how)
                           [] OTHER -> <<>>
    OBVIOUS
<1>3. PICK at : at = IF work = <<>> THEN "abort" ELSE "find"
    OBVIOUS
<1>4. /\ thread' = [thread EXCEPT ![t].at = at, ![t].how = how, ![t].todo = work]
      /\ missed' = IF how \in Aborting /\ work = <<>> THEN missed \cup {t} ELSE missed
    BY <1>1, <1>2, <1>3, Zenon
<1>5. /\ thread[t].at = "run" /\ UNCHANGED <<setup, slots, disturbed, clash>>
      /\ thread[t].how = "none" /\ thread[t].slot = 0 /\ ThreadShape
    BY SMTT(30) DEF Fail, AnnotInv, ThreadOK
<1>6. Becomes(thread', t, at, thread[t].said, how, work, thread[t].slot)
    BY <1>4, <1>5, Edits
<1>9. /\ ThreadShape' /\ \A u \in Threads \ {t} : thread'[u] = thread[u]
      /\ thread'[t].at = at /\ thread'[t].said = thread[t].said /\ thread'[t].how = how
      /\ thread'[t].todo = work /\ thread'[t].slot = 0
    BY <1>5, <1>6 DEF Becomes, ThreadShape, Shaped
<1>10. MessageTag(t)' = Tag("abort_message", t, Message(how))
    BY <1>9 DEF MessageTag
<1>11. \/ work = <<>>
       \/ how \in Aborting /\ ~(how \in {"exception", "silent_exception"}) /\ work = <<MessageTag(t)'>>
       \/ how \in {"exception", "silent_exception"} /\ work = <<TypeTag(t), MessageTag(t)'>>
    <2>1. how \in {"exception", "silent_exception", "no_exception", "assert", "signal"}
        BY DEF Aborting, Terminating
    <2>2. CASE how = "assert"
        <3>1. work = <<Tag("abort_message", t, "reason")>>
            BY <1>2, <2>2 DEF WriteAssertAnnotation, Terminating
        <3> QED
            BY <1>10, <2>2, <3>1 DEF Message, Aborting
    <2>3. CASE how # "assert" /\ ~(how \in Terminating /\ setup = "hooked")
        BY <1>2, <2>3
    <2>4. CASE how = "no_exception" /\ setup = "hooked"
        <3>1. work = <<Tag("abort_message", t, "reason")>>
            BY <1>2, <2>4 DEF WriteTerminateAnnotation, Terminating
        <3> QED
            BY <1>10, <2>4, <3>1 DEF Message, Aborting, Terminating
    <2>5. CASE how \in {"exception", "silent_exception"} /\ setup = "hooked"
        <3>1. work = WriteTerminateAnnotation(t, how)
            BY <1>2, <2>5 DEF Terminating
        <3>2. work = <<TypeTag(t), Tag("abort_message", t, Message(how))>>
            BY <2>5, <3>1 DEF WriteTerminateAnnotation, CaptureCurrentExceptionMessage, TypeTag, Message
        <3> QED
            BY <1>10, <2>5, <3>2
    <2> QED
        BY <2>1, <2>2, <2>3, <2>4, <2>5 DEF Terminating
<1>12. CASE work = <<>>
    <2>1. at = "abort"
        BY <1>3, <1>12
    <2>2. ThreadOK(t)'
        BY <1>9, <1>12, <2>1 DEF ThreadOK, Writes, Aborting, Terminating
    <2>3. how \in Aborting => t \in missed'
        BY <1>4, <1>12
    <2>4. Turned(t)' => t \in missed'
        BY <1>9, <2>3 DEF Turned, Typed, Aborting, Terminating
    <2>5. missed \subseteq missed' /\ missed' \subseteq Threads
        BY <1>4 DEF AnnotInv
    <2> QED
        BY <1>5, <1>9, <2>1, <2>2, <2>3, <2>4, <2>5, QuietAnnot
<1>13. CASE work # <<>>
    <2>1. at = "find" /\ missed' = missed
        BY <1>3, <1>4, <1>13
    <2>2. Work(t)'
        BY <1>9, <1>11, <1>13 DEF Work, Typed, TypeTag
    <2>3. ThreadOK(t)'
        BY <1>9, <2>1, <2>2 DEF ThreadOK, Writes
    <2>4. ~Turned(t)'
        <3>1. CASE how \in {"exception", "silent_exception"}
            <4>1. Entry(t)' = TypeTag(t)
                BY <1>9, <1>11, <1>13, <3>1 DEF Entry
            <4> QED
                BY <1>9, <2>1, <4>1 DEF Turned, Writes, TypeTag, Tag
        <3>2. CASE how \notin {"exception", "silent_exception"}
            BY <1>9, <3>2 DEF Turned, Typed
        <3> QED
            BY <3>1, <3>2
    <2> QED
        BY <1>5, <1>9, <2>1, <2>3, <2>4, QuietAnnot DEF AnnotInv
<1> QED
    BY <1>12, <1>13

\* There is no dictionary or no room for the tag.
LEMMA DropAnnot ==
    ASSUME AnnotInv, NEW t \in Threads, thread[t].at = "find",
           thread' = [thread EXCEPT ![t] = AfterTag(t)], missed' = missed \cup {t},
           UNCHANGED <<setup, slots, disturbed, clash>>
    PROVE  AnnotInv'
<1>1. ThreadShape /\ ThreadOK(t) /\ Writes(t)
    BY DEF AnnotInv, Writes
<1>2. /\ ThreadShape' /\ \A u \in Threads \ {t} : thread'[u] = thread[u]
      /\ thread'[t].said = thread[t].said /\ thread'[t].how = thread[t].how /\ ThreadOK(t)'
      /\ thread'[t].at \in {"find", "run", "abort"}
    BY <1>1, After
<1> QED
    BY <1>2, QuietAnnot DEF AnnotInv

\* There is an entry for the tag, its own or the first free one.
LEMMA FoundAnnot ==
    ASSUME AnnotInv, NEW t \in Threads, thread[t].at = "find",
           EntriesOf(Entry(t).key) # {} \/ EntriesOf(Free) # {}, FindEntry(t), setup # "registered"
    PROVE  AnnotInv'
<1> DEFINE own == EntriesOf(Entry(t).key)
           free == EntriesOf(Free)
<1>1. PICK a : a = IF own # {} THEN "value" ELSE "key"
    OBVIOUS
<1>2. PICK k : k = First(IF own # {} THEN own ELSE free)
    OBVIOUS
<1>3. /\ thread' = [thread EXCEPT ![t].at = a, ![t].slot = k]
      /\ clash' = (clash \/ (own = {} /\ \E u \in Threads \ {t} : thread[u].at = "key" /\ thread[u].slot = First(free)))
      /\ UNCHANGED <<setup, slots, missed, disturbed>>
    BY <1>1, <1>2 DEF FindEntry, OwnEntry
<1>4. ThreadShape /\ ThreadOK(t) /\ Writes(t)
    BY SMTT(30) DEF AnnotInv, Writes
<1>5. Becomes(thread', t, a, thread[t].said, thread[t].how, thread[t].todo, k)
    BY <1>3, <1>4, Edits
<1>6. /\ ThreadShape' /\ \A u \in Threads \ {t} : thread'[u] = thread[u]
      /\ thread'[t].at = a /\ thread'[t].said = thread[t].said /\ thread'[t].how = thread[t].how
      /\ thread'[t].todo = thread[t].todo /\ thread'[t].slot = k
    BY <1>5 DEF Becomes, ThreadShape, Shaped
<1>7. Capacity \in Nat /\ own \subseteq 1..Capacity /\ free \subseteq 1..Capacity
    BY AnnotationsAssumption DEF EntriesOf
<1>8. /\ k \in 1..Capacity /\ a \in {"value", "key"}
      /\ a = "value" => slots[k].key = Entry(t).key
      /\ a = "key" => own = {} /\ slots[k].key = Free /\ k = First(free)
                      /\ \A i \in 1..Capacity : slots[i].key = Free => k <= i
    <2>1. CASE own # {}
        <3>1. k = First(own) /\ First(own) \in own /\ a = "value"
            BY <1>1, <1>2, <1>7, <2>1, FirstLeast
        <3> QED
            BY <1>7, <3>1 DEF EntriesOf
    <2>2. CASE own = {}
        <3>1. free # {} /\ k = First(free) /\ a = "key"
            BY <1>1, <1>2, <2>2
        <3>2. First(free) \in free /\ \A j \in free : First(free) <= j
            BY <1>7, <3>1, FirstLeast
        <3> QED
            BY <1>7, <2>2, <3>1, <3>2 DEF EntriesOf
    <2> QED
        BY <2>1, <2>2
<1>9. \A u \in Threads : Entry(u)' = Entry(u) /\ MessageTag(u)' = MessageTag(u)
                         /\ (Typed(u)' <=> Typed(u))
                         /\ (Writes(u)' <=> Writes(u)) /\ (Work(u)' <=> Work(u))
    BY <1>4, <1>6, <1>8 DEF Entry, MessageTag, Typed, Writes, Work
<1>10. \A u \in Threads : ThreadOK(u)'
    <2>1. ThreadOK(t)'
        BY <1>4, <1>6, <1>8, <1>9 DEF ThreadOK
    <2> QED
        BY <1>6, <1>9, <2>1 DEF AnnotInv, ThreadOK
<1>11. ASSUME ~clash' PROVE Map'
    <2>1. Map /\ ~clash
        BY <1>3, <1>11 DEF AnnotInv
    <2>2. ASSUME NEW u \in Threads, thread'[u].at = "value" PROVE slots'[thread'[u].slot].key = Entry(u)'.key
        <3>1. CASE u = t
            BY <1>3, <1>6, <1>8, <1>9, <2>2, <3>1
        <3>2. CASE u # t
            BY <1>3, <1>6, <1>9, <2>1, <2>2, <3>2 DEF Map
        <3> QED
            BY <3>1, <3>2
    <2>3. ASSUME NEW u \in Threads, thread'[u].at = "key"
          PROVE  /\ slots'[thread'[u].slot].key = Free
                 /\ \A i \in 1..Capacity : slots'[i].key = Free => thread'[u].slot <= i
                 /\ \A i \in 1..Capacity : slots'[i].key # Entry(u)'.key
        <3>1. CASE u = t
            <4>1. a = "key"
                BY <1>6, <2>3, <3>1
            <4>2. \A i \in 1..Capacity : slots[i].key # Entry(t).key
                BY <1>8, <4>1 DEF EntriesOf
            <4> QED
                BY <1>3, <1>6, <1>8, <1>9, <3>1, <4>1, <4>2
        <3>2. CASE u # t
            BY <1>3, <1>6, <1>9, <2>1, <2>3, <3>2, ZenonT(40) DEF Map
        <3> QED
            BY <3>1, <3>2
    <2>4. ASSUME NEW u \in Threads \ {t}, thread[u].at = "key", a = "key" PROVE FALSE
        <3>1. thread[u].slot \in 1..Capacity /\ slots[thread[u].slot].key = Free
              /\ \A i \in 1..Capacity : slots[i].key = Free => thread[u].slot <= i
            BY <2>1, <2>4 DEF Map, AnnotInv, ThreadOK
        <3>2. thread[u].slot <= k /\ k <= thread[u].slot
            BY <1>8, <2>4, <3>1
        <3>3. thread[u].slot = First(free)
            BY <1>7, <1>8, <2>4, <3>1, <3>2
        <3> QED
            BY <1>3, <1>8, <1>11, <2>4, <3>3
    <2>5. \A u, v \in Threads : thread'[u].at = "key" /\ thread'[v].at = "key" => u = v
        BY <1>6, <2>1, <2>4 DEF Map
    <2> QED
        BY <1>3, <2>1, <2>2, <2>3, <2>5 DEF Map
<1>12. ASSUME ~clash' PROVE Types'
    <2>1. Types /\ ~clash
        BY <1>3, <1>12 DEF AnnotInv
    <2>2. \A u \in Threads : Turned(u)' <=> Turned(u)
        BY <1>9 DEF Turned
    <2>3. HasType' <=> HasType
        BY <1>3 DEF HasType
    <2>4. ASSUME NEW u, Ended(u) PROVE Ended(u)'
        BY <1>6, <1>9, <2>4 DEF Ended
    <2>5. ASSUME NEW i \in 1..Capacity, slots[i].key = "abort_message",
                 slots[i].text.kind \in {"what", "unhandled"}
          PROVE  Ended(slots[i].text.by)'
        <3>1. PICK u : u = slots[i].text.by
            OBVIOUS
        <3>2. Ended(u)'
            BY <2>1, <2>4, <2>5, <3>1 DEF Types
        <3> QED
            BY <1>3, <3>1, <3>2 DEF Ended
    <2>6. (\E i \in 1..Capacity : slots'[i].key = "terminate_type") => \E u \in Threads : Typed(u)'
        BY <1>3, <1>9, <2>1 DEF Types
    <2> QED
        BY <1>3, <2>1, <2>2, <2>3, <2>5, <2>6 DEF Types
<1>13. ASSUME ~clash', NEW u \in Threads, Steady(u)' PROVE Own(u)'
    <2>1. /\ \A v \in Threads \ {t} : Steady(v)' => Steady(v)
          /\ Steady(t)' /\ thread[t].how # "none" => Steady(t)
        BY <1>3, <1>6, StillSteady
    <2>2. u = t => thread[t].how # "none"
        BY <1>6, <1>13 DEF Steady, Aborting, Terminating
    <2>3. Own(u) /\ slots' = slots
        BY <1>3, <1>13, <2>1, <2>2 DEF AnnotInv
    <2>4. (Turned(u)' <=> Turned(u)) /\ (thread'[u].at = "abort" => thread[u].at = "abort")
        BY <1>6, <1>8, <1>9 DEF Turned
    <2> QED
        BY <1>9, <2>3, <2>4 DEF Own
<1> QED
    BY <1>3, <1>6, <1>10, <1>11, <1>12, <1>13 DEF AnnotInv, SlotShape

\* A copy into an entry.
Copied(f, i, key, text) ==
    /\ f = [j \in 1..Capacity |-> f[j]] /\ f[i] = [key |-> f[i].key, text |-> f[i].text]
    /\ f[i].key = key /\ f[i].text = text
    /\ \A j \in (1..Capacity) \ {i} : f[j] = slots[j]

LEMMA SlotSet ==
    ASSUME SlotShape, NEW i \in 1..Capacity
    PROVE  /\ \A f, key : f = [slots EXCEPT ![i].key = key] => Copied(f, i, key, slots[i].text)
           /\ \A f, text : f = [slots EXCEPT ![i].text = text] => Copied(f, i, slots[i].key, text)
<1>1. DOMAIN slots = 1..Capacity /\ slots = [j \in 1..Capacity |-> slots[j]]
    BY DEF SlotShape
<1>2. slots[i] = [key |-> slots[i].key, text |-> slots[i].text]
    BY DEF SlotShape
<1>3. PICK c, x : slots[i] = [key |-> c, text |-> x]
    BY <1>2, Zenon
<1>4. slots[i].key = c /\ slots[i].text = x
    BY <1>3
<1>5. ASSUME NEW f, NEW d, NEW y, f = [slots EXCEPT ![i] = [key |-> d, text |-> y]]
      PROVE  Copied(f, i, d, y)
    <2>1. f[i] = [key |-> d, text |-> y]
        BY <1>1, <1>5
    <2>2. f[i].key = d /\ f[i].text = y /\ f[i] = [key |-> f[i].key, text |-> f[i].text]
        BY <2>1
    <2>3. f = [j \in 1..Capacity |-> f[j]] /\ \A j \in (1..Capacity) \ {i} : f[j] = slots[j]
        BY <1>1, <1>5
    <2> QED
        BY <2>2, <2>3 DEF Copied
<1>6. ASSUME NEW d, NEW y
      PROVE  /\ [slots EXCEPT ![i].key = d] = [slots EXCEPT ![i] = [key |-> d, text |-> x]]
             /\ [slots EXCEPT ![i].text = y] = [slots EXCEPT ![i] = [key |-> c, text |-> y]]
    <2>1. /\ [[key |-> c, text |-> x] EXCEPT !.key = d] = [key |-> d, text |-> x]
          /\ [[key |-> c, text |-> x] EXCEPT !.text = y] = [key |-> c, text |-> y]
        OBVIOUS
    <2> QED
        BY <1>1, <1>3, <2>1
<1>7. ASSUME NEW f, NEW d, f = [slots EXCEPT ![i].key = d] PROVE Copied(f, i, d, x)
    <2>1. f = [slots EXCEPT ![i] = [key |-> d, text |-> x]]
        BY <1>6, <1>7
    <2> QED
        BY <1>5, <2>1
<1>8. ASSUME NEW f, NEW y, f = [slots EXCEPT ![i].text = y] PROVE Copied(f, i, c, y)
    <2>1. f = [slots EXCEPT ![i] = [key |-> c, text |-> y]]
        BY <1>6, <1>8
    <2> QED
        BY <1>5, <2>1
<1> QED
    BY <1>4, <1>7, <1>8

\* A new key is written; without a clash nobody writes the same one.
LEMMA WriteKeyAnnot == ASSUME AnnotInv, NEW t \in Threads, WriteKey(t) PROVE AnnotInv'
<1>1. PICK k : k = thread[t].slot
    OBVIOUS
<1>2. PICK key \in {Entry(t).key} \cup (IF Rivals(t, "key") = {} THEN {} ELSE {Garbled}) :
          slots' = [slots EXCEPT ![k].key = key]
    BY <1>1 DEF WriteKey
<1>3. /\ thread[t].at = "key" /\ thread' = [thread EXCEPT ![t].at = "value"]
      /\ UNCHANGED <<setup, missed, disturbed, clash>>
    BY DEF WriteKey
<1>4. ThreadShape /\ SlotShape /\ ThreadOK(t) /\ Writes(t) /\ k \in 1..Capacity
    BY <1>1, <1>3 DEF AnnotInv, ThreadOK, Writes
<1>5. Becomes(thread', t, "value", thread[t].said, thread[t].how, thread[t].todo, thread[t].slot)
    BY <1>3, <1>4, Edits
<1>6. /\ ThreadShape' /\ \A u \in Threads \ {t} : thread'[u] = thread[u]
      /\ thread'[t].at = "value" /\ thread'[t].said = thread[t].said /\ thread'[t].how = thread[t].how
      /\ thread'[t].todo = thread[t].todo /\ thread'[t].slot = k
    BY <1>1, <1>5 DEF Becomes, ThreadShape, Shaped
<1>7. Copied(slots', k, key, slots[k].text)
    BY <1>2, <1>4, SlotSet
<1>8. /\ SlotShape' /\ slots'[k].key = key /\ slots'[k].text = slots[k].text
      /\ \A i \in (1..Capacity) \ {k} : slots'[i] = slots[i]
    BY <1>4, <1>7 DEF Copied, SlotShape
<1>9. \A u \in Threads : Entry(u)' = Entry(u) /\ MessageTag(u)' = MessageTag(u)
                         /\ (Typed(u)' <=> Typed(u))
                         /\ (Writes(u)' <=> Writes(u)) /\ (Work(u)' <=> Work(u))
    BY <1>4, <1>6 DEF Entry, MessageTag, Typed, Writes, Work
<1>10. \A u \in Threads : ThreadOK(u)'
    <2>1. ThreadOK(t)'
        BY <1>3, <1>4, <1>6, <1>9 DEF ThreadOK
    <2> QED
        BY <1>6, <1>9, <2>1 DEF AnnotInv, ThreadOK
<1>11. ASSUME ~clash'
       PROVE  /\ Map /\ Types /\ ~clash /\ key = Entry(t).key /\ key # Free
              /\ slots[k].key = Free /\ slots[k].text = NoText
              /\ \A u \in Threads : thread[u].at = "key" => u = t
    <2>1. Map /\ Types /\ ~clash
        BY <1>3, <1>11 DEF AnnotInv
    <2>2. \A u \in Threads : thread[u].at = "key" => u = t
        BY <1>3, <2>1 DEF Map
    <2>3. Rivals(t, "key") = {}
        BY <2>2 DEF Rivals
    <2>4. key = Entry(t).key /\ key # Free
        BY <1>2, <1>4, <2>3, Entries
    <2>5. slots[k].key = Free /\ slots[k].text = NoText
        BY <1>1, <1>3, <1>4, <2>1 DEF Map
    <2> QED
        BY <2>1, <2>2, <2>4, <2>5
<1>12. ASSUME ~clash' PROVE Map'
    <2>1. \A i \in 1..Capacity : slots[i].key # key
        BY <1>3, <1>11, <1>12 DEF Map
    <2>2. \A i, j \in 1..Capacity : slots'[i].key = slots'[j].key /\ slots'[i].key # Free => i = j
        BY <1>4, <1>8, <1>11, <1>12, <2>1 DEF Map
    <2>3. \A i \in 1..Capacity : slots'[i].key = Free => slots'[i].text = NoText
        BY <1>8, <1>11, <1>12 DEF Map
    <2>4. ASSUME NEW u \in Threads, thread'[u].at = "value" PROVE slots'[thread'[u].slot].key = Entry(u)'.key
        <3>1. CASE u = t
            BY <1>6, <1>8, <1>9, <1>11, <1>12, <3>1
        <3>2. CASE u # t
            <4>1. thread[u].at = "value" /\ thread[u].slot \in 1..Capacity /\ ThreadOK(u) /\ Writes(u)
                BY <1>6, <2>4, <3>2 DEF AnnotInv, ThreadOK, Writes
            <4>2. slots[thread[u].slot].key = Entry(u).key /\ Entry(u).key # Free
                BY <1>11, <1>12, <4>1, Entries DEF Map
            <4>3. thread[u].slot # k
                BY <1>11, <1>12, <4>2
            <4> QED
                BY <1>6, <1>8, <1>9, <3>2, <4>1, <4>2, <4>3
        <3> QED
            BY <3>1, <3>2
    <2>5. \A u \in Threads : thread'[u].at # "key"
        BY <1>6, <1>11, <1>12
    <2> QED
        BY <2>2, <2>3, <2>4, <2>5 DEF Map
<1>13. ASSUME ~clash' PROVE Types'
    <2>1. \A u \in Threads : Turned(u)' <=> Turned(u)
        BY <1>9 DEF Turned
    <2>2. HasType => HasType'
        BY <1>8, <1>11, <1>13 DEF HasType
    <2>3. ASSUME NEW u, Ended(u) PROVE Ended(u)'
        BY <1>3, <1>6, <1>9, <2>3 DEF Ended
    <2>4. ASSUME NEW i \in 1..Capacity, slots'[i].key = "abort_message",
                 slots'[i].text.kind \in {"what", "unhandled"}
          PROVE  Ended(slots[i].text.by)'
        <3>0. slots'[k].text.kind = ""
            <4>1. slots'[k].text = NoText
                BY <1>8, <1>11, <1>13
            <4>2. NoText.kind = ""
                BY DEF NoText
            <4> QED
                BY <4>1, <4>2
        <3>1. i # k
            BY <2>4, <3>0
        <3>2. slots'[i] = slots[i]
            BY <1>8, <3>1
        <3>3. PICK u : u = slots[i].text.by
            OBVIOUS
        <3>4. Ended(u)'
            BY <1>11, <1>13, <2>3, <2>4, <3>2, <3>3 DEF Types
        <3> QED
            BY <3>2, <3>3, <3>4 DEF Ended
    <2>5. (\E i \in 1..Capacity : slots'[i].key = "terminate_type") => \E u \in Threads : Typed(u)'
        <3> SUFFICES ASSUME NEW i \in 1..Capacity, slots'[i].key = "terminate_type"
                     PROVE  \E u \in Threads : Typed(u)'
            OBVIOUS
        <3>1. CASE i = k
            <4>1. Typed(t)
                BY <1>4, <1>8, <1>11, <1>13, <3>1, Entries
            <4> QED
                BY <1>9, <4>1
        <3>2. CASE i # k
            BY <1>8, <1>9, <1>11, <1>13, <3>2 DEF Types
        <3> QED
            BY <3>1, <3>2
    <2> QED
        BY <1>3, <1>11, <1>13, <2>1, <2>2, <2>4, <2>5 DEF Types
<1>14. ASSUME ~clash', NEW u \in Threads, Steady(u)' PROVE Own(u)'
    <2>1. /\ \A v \in Threads \ {t} : Steady(v)' => Steady(v)
          /\ Steady(t)' /\ thread[t].how # "none" => Steady(t)
        BY <1>3, <1>6, StillSteady
    <2>2. u = t => thread[t].how # "none"
        BY <1>6, <1>14 DEF Steady, Aborting, Terminating
    <2>3. Own(u)
        BY <1>3, <1>14, <2>1, <2>2 DEF AnnotInv
    <2>4. (Turned(u)' <=> Turned(u)) /\ (thread'[u].at = "abort" => thread[u].at = "abort")
        BY <1>6, <1>9 DEF Turned
    <2>5. \A i \in 1..Capacity : slots[i].key \in {"abort_message", "terminate_type"} => slots'[i] = slots[i]
        <3>1. slots[k].key \notin {"abort_message", "terminate_type"}
            BY <1>11, <1>14, AnnotationsAssumption
        <3> QED
            BY <1>8, <3>1
    <2>6. MessageTag(u)' = MessageTag(u)
        BY <1>9
    <2>7. ASSUME Turned(u)'
          PROVE  \E i \in 1..Capacity : slots'[i].key = "terminate_type" /\ slots'[i].text = Text(u, "type")
        BY <2>3, <2>4, <2>5, <2>7 DEF Own
    <2>8. ASSUME thread'[u].at = "abort"
          PROVE  \E i \in 1..Capacity : slots'[i].key = "abort_message" /\ slots'[i].text = MessageTag(u)'.text
        BY <2>3, <2>4, <2>5, <2>6, <2>8 DEF Own
    <2> QED
        BY <2>7, <2>8 DEF Own
<1> QED
    BY <1>3, <1>6, <1>8, <1>10, <1>12, <1>13, <1>14 DEF AnnotInv

\* The text of a tag is written; two may write at once only to the entry of a
\* tag that both set.
LEMMA WriteValueAnnot == ASSUME AnnotInv, NEW t \in Threads, WriteValue(t) PROVE AnnotInv'
<1>1. PICK k : k = thread[t].slot
    OBVIOUS
<1>2. PICK text \in {Entry(t).text} \cup (IF Rivals(t, "value") = {} THEN {} ELSE {Text(Garbled, "garbled")}) :
          slots' = [slots EXCEPT ![k].text = text]
    BY <1>1 DEF WriteValue
<1>3. /\ thread[t].at = "value" /\ thread' = [thread EXCEPT ![t] = AfterTag(t)]
      /\ UNCHANGED <<setup, missed, clash>>
      /\ disturbed' = IF Entry(t).key \in Reported
                      THEN disturbed \cup {u \in Threads \ {t} : thread[u].how \in Aborting}
                      ELSE disturbed
    BY DEF WriteValue
<1>4. ThreadShape /\ SlotShape /\ ThreadOK(t) /\ Writes(t) /\ k \in 1..Capacity
    BY <1>1, <1>3 DEF AnnotInv, ThreadOK, Writes
<1>5. /\ ThreadShape' /\ \A u \in Threads \ {t} : thread'[u] = thread[u]
      /\ thread'[t].said = thread[t].said /\ thread'[t].how = thread[t].how /\ ThreadOK(t)'
      /\ Entry(t).key = "terminate_type" => thread'[t].at = "find"
      /\ Entry(t).key # "terminate_type" =>
             thread'[t].at = IF thread[t].how = "none" THEN "run" ELSE "abort"
    BY <1>3, <1>4, After
<1>6. Copied(slots', k, slots[k].key, text)
    BY <1>2, <1>4, SlotSet
<1>7. /\ SlotShape' /\ slots'[k].text = text
      /\ \A i \in 1..Capacity : slots'[i].key = slots[i].key /\ (i # k => slots'[i] = slots[i])
    BY <1>4, <1>6 DEF Copied, SlotShape
<1>8. \A u \in Threads : MessageTag(u)' = MessageTag(u) /\ (Typed(u)' <=> Typed(u))
    BY <1>5 DEF MessageTag, Typed
<1>9. \A u \in Threads \ {t} : Entry(u)' = Entry(u) /\ (ThreadOK(u)' <=> ThreadOK(u)) /\ (Turned(u)' <=> Turned(u))
    BY <1>5, <1>8 DEF Entry, ThreadOK, Work, Writes, MessageTag, Typed, Turned
<1>10. text # NoText /\ Entry(t).key # Free
    <2>1. Entry(t).text # NoText /\ Entry(t).key # Free
        BY <1>4, Entries
    <2>2. Text(Garbled, "garbled").kind = "garbled" /\ NoText.kind = ""
        BY DEF Text, NoText
    <2> QED
        BY <1>2, <2>1, <2>2
<1>11. text.kind \in {"what", "unhandled"} /\ slots[k].key = "abort_message" /\ slots[k].key = Entry(t).key
           => text.by = t /\ Ended(t)'
    <2> SUFFICES ASSUME text.kind \in {"what", "unhandled"}, Entry(t).key = "abort_message"
                 PROVE  text.by = t /\ Ended(t)'
        OBVIOUS
    <2>1. text = Entry(t).text
        BY <1>2 DEF Text
    <2>2. thread[t].how \in Aborting /\ Entry(t) = MessageTag(t) /\ text.by = t
        BY <1>4, <2>1, Entries
    <2>3. text.kind = Message(thread[t].how)
        BY <2>1, <2>2 DEF MessageTag, Tag, Text
    <2>4. Typed(t)
        BY <2>3 DEF Message, Typed
    <2>5. thread'[t].at = "abort"
        BY <1>5, <2>4 DEF Typed
    <2> QED
        BY <1>8, <2>2, <2>4, <2>5 DEF Ended
<1>12. ASSUME ~clash' PROVE Map /\ Types /\ ~clash /\ slots[k].key = Entry(t).key
    BY <1>1, <1>3, <1>12 DEF AnnotInv, Map
<1>13. ASSUME ~clash' PROVE Map'
    <2>1. \A i \in 1..Capacity : slots'[i].key = Free => slots'[i].text = NoText
        BY <1>7, <1>10, <1>12, <1>13 DEF Map
    <2>2. thread'[t].at \notin {"key", "value"}
        BY <1>5
    <2>3. ASSUME NEW u \in Threads, thread'[u].at = "value" PROVE slots'[thread'[u].slot].key = Entry(u)'.key
        <3>1. u # t /\ thread[u].at = "value" /\ thread[u].slot \in 1..Capacity
            BY <1>5, <2>2, <2>3 DEF AnnotInv, ThreadOK
        <3>2. slots[thread[u].slot].key = Entry(u).key
            BY <1>12, <1>13, <3>1 DEF Map
        <3> QED
            BY <1>5, <1>7, <1>9, <3>1, <3>2
    <2>4. ASSUME NEW u \in Threads, thread'[u].at = "key"
          PROVE  /\ slots'[thread'[u].slot].key = Free
                 /\ \A i \in 1..Capacity : slots'[i].key = Free => thread'[u].slot <= i
                 /\ \A i \in 1..Capacity : slots'[i].key # Entry(u)'.key
        <3>1. u # t /\ thread[u].at = "key" /\ thread[u].slot \in 1..Capacity /\ thread'[u] = thread[u]
            BY <1>5, <2>2, <2>4 DEF AnnotInv, ThreadOK
        <3>2. /\ slots[thread[u].slot].key = Free
              /\ \A i \in 1..Capacity : slots[i].key = Free => thread[u].slot <= i
              /\ \A i \in 1..Capacity : slots[i].key # Entry(u).key
            BY <1>12, <1>13, <3>1 DEF Map
        <3> QED
            BY <1>7, <1>9, <3>1, <3>2
    <2>5. \A u, v \in Threads : thread'[u].at = "key" /\ thread'[v].at = "key" => u = v
        BY <1>5, <1>12, <1>13, <2>2 DEF Map
    <2>6. \A i, j \in 1..Capacity : slots'[i].key = slots'[j].key /\ slots'[i].key # Free => i = j
        BY <1>7, <1>12, <1>13 DEF Map
    <2> QED
        BY <2>1, <2>3, <2>4, <2>5, <2>6 DEF Map
<1>14. ASSUME ~clash' PROVE Types'
    <2>1. HasType => HasType'
        BY <1>7, <1>10 DEF HasType
    <2>2. ASSUME NEW u \in Threads, Turned(u)', u \notin missed' PROVE HasType'
        <3>1. CASE u = t /\ Entry(t).key = "terminate_type"
            BY <1>4, <1>7, <1>10, <1>12, <1>14, <3>1 DEF HasType
        <3>2. CASE u = t /\ Entry(t).key # "terminate_type"
            <4>1. Turned(t)
                BY <1>8, <2>2, <3>2 DEF Turned
            <4> QED
                BY <1>3, <1>12, <1>14, <2>1, <2>2, <3>2, <4>1 DEF Types
        <3>3. CASE u # t
            BY <1>3, <1>9, <1>12, <1>14, <2>1, <2>2, <3>3 DEF Types
        <3> QED
            BY <3>1, <3>2, <3>3
    <2>3. ASSUME NEW u, Ended(u) PROVE Ended(u)'
        BY <1>3, <1>5, <1>8, <2>3 DEF Ended
    <2>4. ASSUME NEW i \in 1..Capacity, slots'[i].key = "abort_message",
                 slots'[i].text.kind \in {"what", "unhandled"}
          PROVE  Ended(slots[i].text.by)'
        <3>1. PICK u : u = slots'[i].text.by
            OBVIOUS
        <3>2. CASE i = k
            <4>1. u = t /\ Ended(t)'
                BY <1>7, <1>11, <1>12, <1>14, <2>4, <3>1, <3>2
            <4> QED
                BY <3>1, <4>1 DEF Ended
        <3>3. CASE i # k
            <4>1. Ended(u)
                BY <1>7, <1>12, <1>14, <2>4, <3>1, <3>3 DEF Types
            <4>2. Ended(u)'
                BY <2>3, <4>1
            <4> QED
                BY <3>1, <4>2 DEF Ended
        <3> QED
            BY <3>2, <3>3
    <2>5. (\E i \in 1..Capacity : slots'[i].key = "terminate_type") => \E u \in Threads : Typed(u)'
        BY <1>7, <1>8, <1>12, <1>14 DEF Types
    <2> QED
        BY <2>2, <2>4, <2>5 DEF Types
<1>15. ASSUME ~clash', NEW u \in Threads, Steady(u)' PROVE Own(u)'
    <2>1. disturbed \subseteq disturbed' /\ (Entry(t).key \in Reported =>
              \A v \in Threads \ {t} : thread[v].how \in Aborting => v \in disturbed')
        BY <1>3
    <2>2. /\ \A v \in Threads \ {t} : Steady(v)' =>
                 Steady(v) /\ ~(thread[t].at = "value" /\ Entry(t).key \in Reported)
          /\ Steady(t)' /\ thread[t].how # "none" => Steady(t)
        BY <1>3, <1>5, <2>1, StillSteady
    <2>3. CASE u # t
        <3>1. Own(u) /\ slots[k].key \notin Reported
            BY <1>3, <1>12, <1>15, <2>2, <2>3 DEF AnnotInv
        <3>2. \A i \in 1..Capacity : slots[i].key \in {"abort_message", "terminate_type"} => slots'[i] = slots[i]
            BY <1>7, <3>1 DEF Reported
        <3>3. (Turned(u)' <=> Turned(u)) /\ thread'[u] = thread[u] /\ MessageTag(u)' = MessageTag(u)
            BY <1>5, <1>8, <1>9, <2>3
        <3>4. ASSUME Turned(u)'
              PROVE  \E i \in 1..Capacity : slots'[i].key = "terminate_type" /\ slots'[i].text = Text(u, "type")
            BY <3>1, <3>2, <3>3, <3>4 DEF Own
        <3>5. ASSUME thread'[u].at = "abort"
              PROVE  \E i \in 1..Capacity : slots'[i].key = "abort_message" /\ slots'[i].text = MessageTag(u)'.text
            BY <3>1, <3>2, <3>3, <3>5 DEF Own
        <3> QED
            BY <3>4, <3>5 DEF Own
    <2>4. CASE u = t
        <3>1. thread[t].how \in Aborting /\ thread[t].how # "none"
            BY <1>5, <1>15, <2>4 DEF Steady, Aborting, Terminating
        <3>2. Steady(t) /\ Own(t) /\ Entry(t).key \in Reported
            BY <1>3, <1>4, <1>15, <2>2, <2>4, <3>1, Entries DEF AnnotInv
        <3>3. ASSUME NEW v \in Rivals(t, "value") PROVE FALSE
            <4>1. v \in Threads /\ v # t /\ thread[v].at = "value" /\ thread[v].slot = k
                BY <1>1, <3>3 DEF Rivals
            <4>2. slots[k].key = Entry(v).key
                BY <1>12, <1>15, <4>1 DEF Map
            <4> QED
                BY <1>12, <1>15, <3>2, <4>1, <4>2 DEF Steady
        <3>4. text = Entry(t).text /\ slots'[k].text = text /\ slots'[k].key = Entry(t).key
            BY <1>2, <1>4, <1>7, <1>12, <1>15, <3>3
        <3>5. CASE Entry(t).key = "terminate_type"
            <4>1. Entry(t) = TypeTag(t) /\ thread'[t].at = "find"
                BY <1>4, <1>5, <3>5, Entries
            <4>2. Entry(t).text = Text(t, "type")
                BY <4>1 DEF TypeTag, Tag
            <4> QED
                BY <1>4, <2>4, <3>4, <3>5, <4>1, <4>2 DEF Own
        <3>6. CASE Entry(t).key # "terminate_type"
            <4>1. Entry(t) = MessageTag(t) /\ MessageTag(t)' = MessageTag(t) /\ Entry(t).key = "abort_message"
                BY <1>4, <1>8, <3>1, <3>6, Entries DEF MessageTag, Tag
            <4>2. ASSUME Turned(t)'
                  PROVE  \E i \in 1..Capacity : slots'[i].key = "terminate_type" /\ slots'[i].text = Text(t, "type")
                <5>1. Turned(t)
                    BY <1>8, <3>6, <4>2 DEF Turned
                <5>2. PICK i \in 1..Capacity : slots[i].key = "terminate_type" /\ slots[i].text = Text(t, "type")
                    BY <3>2, <5>1 DEF Own
                <5>3. i # k
                    BY <1>12, <1>15, <3>6, <5>2
                <5> QED
                    BY <1>7, <5>2, <5>3
            <4>3. \E i \in 1..Capacity : slots'[i].key = "abort_message" /\ slots'[i].text = MessageTag(t)'.text
                BY <1>4, <3>4, <4>1
            <4> QED
                BY <2>4, <4>2, <4>3 DEF Own
        <3> QED
            BY <3>5, <3>6
    <2> QED
        BY <2>3, <2>4
<1> QED
    BY <1>3, <1>5, <1>7, <1>9, <1>13, <1>14, <1>15 DEF AnnotInv

\* The reset state: nothing was written.
Reset ==
    /\ setup \in {"registered", "hooked"} /\ slots = Empty
    /\ thread = [t \in Threads |-> Idle] /\ missed = {} /\ disturbed = {} /\ clash = FALSE

LEMMA ResetAnnot == Reset => AnnotInv
<1> SUFFICES ASSUME Reset PROVE AnnotInv
    OBVIOUS
<1>1. \A t \in Threads : thread[t] = Idle
    BY DEF Reset
<1>2. /\ Idle.at = "run" /\ Idle.how = "none" /\ Idle.todo = <<>> /\ Idle.slot = 0 /\ Idle.said = Free
      /\ Shaped(Idle)
    BY DEF Idle, Shaped
<1>3. \A i \in 1..Capacity : slots[i] = [key |-> Free, text |-> NoText]
    BY DEF Reset, Empty
<1>4. \A i \in 1..Capacity : slots[i].key = Free /\ slots[i].text = NoText
    BY <1>3
<1>5. ThreadShape
    <2>1. \A t \in Threads : Shaped(thread[t])
        BY <1>1, <1>2
    <2>2. thread = [t \in Threads |-> thread[t]]
        BY DEF Reset
    <2> QED
        BY <2>1, <2>2 DEF ThreadShape, Shaped
<1>6. SlotShape
    <2>1. slots = [i \in 1..Capacity |-> slots[i]]
        BY DEF Reset, Empty
    <2>2. \A i \in 1..Capacity : slots[i] = [key |-> slots[i].key, text |-> slots[i].text]
        BY <1>3
    <2> QED
        BY <2>1, <2>2 DEF SlotShape
<1>7. \A t \in Threads : thread[t].at = "run" /\ thread[t].how = "none" /\ thread[t].todo = <<>> /\ thread[t].slot = 0
    BY <1>1, <1>2
<1>8. \A t \in Threads : ThreadOK(t) /\ ~Typed(t)
    BY <1>7 DEF ThreadOK, Writes, Typed
<1>9. Free \notin {"abort_message", "terminate_type"}
    BY AnnotationsAssumption
<1>10. Map
    BY <1>4, <1>7 DEF Map
<1>11. Types
    BY <1>4, <1>8, <1>9 DEF Types, Turned
<1>12. \A t \in Threads : ~Steady(t)
    BY <1>7 DEF Steady, Aborting, Terminating
<1> QED
    BY <1>5, <1>6, <1>8, <1>10, <1>11, <1>12 DEF AnnotInv, Reset

LEMMA InitAnnot == Init => AnnotInv
<1> SUFFICES ASSUME Init PROVE Reset
    BY ResetAnnot
<1> QED
    BY DEF Init, AnnotInit, Reset

\* What does not touch the annotations.
LEMMA SameAnnot == ASSUME AnnotInv, UNCHANGED annotVars PROVE AnnotInv'
<1>1. UNCHANGED <<setup, slots, thread, missed, disturbed, clash>>
    BY DEF annotVars
<1>2. \A t : /\ Entry(t)' = Entry(t) /\ (ThreadOK(t)' <=> ThreadOK(t)) /\ (Turned(t)' <=> Turned(t))
             /\ (Ended(t)' <=> Ended(t)) /\ (Steady(t)' <=> Steady(t)) /\ (Typed(t)' <=> Typed(t)) /\ (Own(t)' <=> Own(t))
    BY <1>1 DEF Entry, ThreadOK, Work, Writes, MessageTag, Typed, Turned, Ended, Steady, Own
<1>3. (ThreadShape' <=> ThreadShape) /\ (SlotShape' <=> SlotShape) /\ (HasType' <=> HasType)
    BY <1>1 DEF ThreadShape, SlotShape, HasType
<1>4. Map => Map'
    BY <1>1, <1>2 DEF Map
<1>5. Types => Types'
    BY <1>1, <1>2, <1>3 DEF Types
<1> QED
    BY <1>1, <1>2, <1>3, <1>4, <1>5 DEF AnnotInv

\* DoInit goes on.
LEMMA SetupAnnot == ASSUME AnnotInv, Setup PROVE AnnotInv'
<1>1. setup' \in {"attached", "hooked"} /\ UNCHANGED <<slots, thread, missed, disturbed, clash>>
    BY DEF Setup
<1>2. \A t : /\ Entry(t)' = Entry(t) /\ (ThreadOK(t)' <=> ThreadOK(t)) /\ (Turned(t)' <=> Turned(t))
             /\ (Ended(t)' <=> Ended(t)) /\ (Steady(t)' <=> Steady(t)) /\ (Typed(t)' <=> Typed(t)) /\ (Own(t)' <=> Own(t))
    BY <1>1 DEF Entry, ThreadOK, Work, Writes, MessageTag, Typed, Turned, Ended, Steady, Own
<1>3. (ThreadShape' <=> ThreadShape) /\ (SlotShape' <=> SlotShape) /\ (HasType' <=> HasType)
    BY <1>1 DEF ThreadShape, SlotShape, HasType
<1>4. Map => Map'
    BY <1>1, <1>2 DEF Map
<1>5. Types => Types'
    BY <1>1, <1>2, <1>3 DEF Types
<1> QED
    BY <1>1, <1>2, <1>3, <1>4, <1>5 DEF AnnotInv

\* Every step of the process.
LEMMA ProcessAnnot == ASSUME AnnotInv, AnnotNext PROVE AnnotInv'
<1>1. ASSUME NEW t \in Threads, FindEntry(t) PROVE AnnotInv'
    <2>1. CASE setup = "registered" \/ (EntriesOf(Entry(t).key) = {} /\ EntriesOf(Free) = {})
        BY <1>1, <2>1, DropAnnot DEF FindEntry, OwnEntry
    <2>2. CASE setup # "registered" /\ (EntriesOf(Entry(t).key) # {} \/ EntriesOf(Free) # {})
        <3>1. thread[t].at = "find"
            BY <1>1 DEF FindEntry
        <3> QED
            BY <1>1, <2>2, <3>1, FoundAnnot
    <2> QED
        BY <2>1, <2>2
<1> QED
    BY <1>1, SetupAnnot, SetTagAnnot, FailAnnot, WriteKeyAnnot, WriteValueAnnot DEF AnnotNext, ThreadStep

\* The annotations, and their reset when the process is gone.
LEMMA StepAnnot == AnnotInv /\ [Next]_vars => AnnotInv'
<1> SUFFICES ASSUME AnnotInv, [Next]_vars PROVE AnnotInv'
    OBVIOUS
<1>1. CASE Process
    BY <1>1, ProcessAnnot DEF Process
<1>2. ASSUME NEW t \in Threads, Capture(t) PROVE AnnotInv'
    <2>1. /\ setup' = "hooked" /\ slots' = Empty /\ thread' = [u \in Threads |-> Idle]
          /\ missed' = {} /\ disturbed' = {} /\ clash' = FALSE
        BY <1>2 DEF Capture
    <2>2. Reset'
        BY <2>1 DEF Reset, Empty, Idle, NoText
    <2>3. (Reset => AnnotInv)'
        BY ResetAnnot, PTL
    <2> QED
        BY <2>2, <2>3
<1>3. CASE Replace \/ Patch \/ Report \/ UNCHANGED vars
    <2>1. UNCHANGED annotVars
        BY <1>3, ReportKeeps DEF Replace, Patch, vars
    <2> QED
        BY <2>1, SameAnnot
<1> QED
    BY <1>1, <1>2, <1>3 DEF Next

--------------------------------------------------------------------------------
(* What is captured of them *)

\* No thread is in the middle of a text of the report if the one that crashes
\* was not disturbed.
LEMMA NothingTorn ==
    ASSUME AnnotInv, ~clash, NEW t \in Threads, thread[t].at = "abort", Steady(t),
           NEW key \in Reported, NEW text \in Captured(key)
    PROVE  \/ EntriesOf(key) = {} /\ text = NoText
           \/ \E i \in 1..Capacity : slots[i].key = key /\ text = slots[i].text
<1>1. ASSUME NEW u \in Threads, thread[u].at = "value", thread[u].slot \in EntriesOf(key) PROVE FALSE
    <2>1. slots[thread[u].slot].key = key /\ slots[thread[u].slot].key = Entry(u).key
        BY <1>1 DEF EntriesOf, AnnotInv, Map
    <2> QED
        BY <1>1, <2>1 DEF Steady
<1>2. CASE EntriesOf(key) = {}
    BY <1>2 DEF Captured
<1>3. CASE EntriesOf(key) # {}
    <2>1. text \in TextsOf(key)
        BY <1>3 DEF Captured
    <2>2. text \in {slots[i].text : i \in EntriesOf(key)}
        BY <1>1, <2>1 DEF TextsOf
    <2> QED
        BY <2>2 DEF EntriesOf
<1> QED
    BY <1>2, <1>3

\* What is owed is there.
LEMMA Promised ==
    ASSUME AnnotInv, NEW t \in Threads, thread[t].at = "abort", Owed(t) # "nothing",
           NEW message \in Captured("abort_message"), NEW type \in Captured("terminate_type")
    PROVE  /\ message.by = t /\ message.kind \in {"reason", "what", "unhandled"}
           /\ Owed(t) = "type" => type = Text(t, "type")
           /\ Owed(t) = "no type" => type = NoText
<1>1. thread[t].how \in Aborting /\ Undisturbed(t)
    BY DEF Owed
<1>2. Steady(t) /\ ~clash
    BY <1>1 DEF Undisturbed, Steady
<1>3. Own(t) /\ Map /\ Types
    BY <1>2 DEF AnnotInv
<1>4. /\ \/ EntriesOf("abort_message") = {} /\ message = NoText
         \/ \E i \in 1..Capacity : slots[i].key = "abort_message" /\ message = slots[i].text
      /\ \/ EntriesOf("terminate_type") = {} /\ type = NoText
         \/ \E i \in 1..Capacity : slots[i].key = "terminate_type" /\ type = slots[i].text
    BY <1>2, NothingTorn DEF Reported
<1>5. "abort_message" # Free /\ "terminate_type" # Free
    BY AnnotationsAssumption
<1>6. PICK i \in 1..Capacity : slots[i].key = "abort_message" /\ slots[i].text = MessageTag(t).text
    BY <1>3 DEF Own
<1>7. message = MessageTag(t).text
    BY <1>3, <1>4, <1>5, <1>6 DEF EntriesOf, Map
<1>8. message.by = t /\ message.kind = Message(thread[t].how)
    BY <1>7 DEF MessageTag, Tag, Text
<1>9. Message(thread[t].how) \in {"reason", "what", "unhandled"}
    BY DEF Message
<1>10. ASSUME Owed(t) = "type" PROVE type = Text(t, "type")
    <2>1. Typed(t)
        BY <1>1, <1>10 DEF Owed
    <2>2. Turned(t)
        BY <2>1 DEF Turned, Writes
    <2>3. PICK j \in 1..Capacity : slots[j].key = "terminate_type" /\ slots[j].text = Text(t, "type")
        BY <1>3, <2>2 DEF Own
    <2> QED
        BY <1>3, <1>4, <1>5, <2>3 DEF EntriesOf, Map
<1>11. ASSUME Owed(t) = "no type" PROVE type = NoText
    <2>1. ~\E u \in Threads : Typed(u)
        BY <1>1, <1>11 DEF Owed
    <2> QED
        BY <1>3, <1>4, <2>1 DEF Types
<1> QED
    BY <1>8, <1>9, <1>10, <1>11

\* The type of an exception is written before its message.
LEMMA TypeThere ==
    ASSUME AnnotInv, NEW message \in Captured("abort_message"), NEW type \in Captured("terminate_type"),
           Explained(message)
    PROVE  type # NoText
<1>0. Text(Garbled, "garbled").kind = "garbled" /\ NoText.kind = ""
    BY DEF Text, NoText
<1>1. message.kind \in {"what", "unhandled"} /\ message.by \notin missed /\ ~clash /\ Map /\ Types
    BY DEF Explained, AnnotInv
<1>2. message # NoText /\ message # Text(Garbled, "garbled")
    BY <1>0, <1>1
<1>3. PICK i \in 1..Capacity : slots[i].key = "abort_message" /\ message = slots[i].text
    BY <1>2 DEF Captured, TextsOf, EntriesOf
<1>4. Ended(message.by)
    BY <1>1, <1>3 DEF Types
<1>5. PICK u \in Threads : u = message.by /\ Ended(u)
    BY <1>4 DEF Ended
<1>6. Turned(u)
    BY <1>5 DEF Ended, Turned, Writes
<1>7. HasType
    BY <1>1, <1>5, <1>6 DEF Types
<1>8. PICK j \in 1..Capacity : slots[j].key = "terminate_type" /\ slots[j].text # NoText
    BY <1>7 DEF HasType
<1>9. "terminate_type" # Free
    BY AnnotationsAssumption
<1>10. \A l \in EntriesOf("terminate_type") : l = j
    BY <1>1, <1>8, <1>9 DEF EntriesOf, Map
<1>11. j \in EntriesOf("terminate_type")
    BY <1>8 DEF EntriesOf
<1>12. type \in TextsOf("terminate_type")
    BY <1>11 DEF Captured
<1>13. type = slots[j].text \/ type = Text(Garbled, "garbled")
    BY <1>10, <1>12 DEF TextsOf
<1> QED
    BY <1>0, <1>8, <1>13

LEMMA CaptureCrashInv == ASSUME AnnotInv, NEW t \in Threads, Capture(t) PROVE CrashInv'
<1>1. PICK message \in Captured("abort_message"), type \in Captured("terminate_type"), pc_ \in PCs :
          crash' = [by |-> t, pc |-> pc_, abort_message |-> message, terminate_type |-> type,
                    owed |-> Owed(t), explained |-> Explained(message)]
    BY DEF Capture
<1>2. thread[t].at = "abort"
    BY DEF Capture
<1>3. PICK owed, explained : owed = Owed(t) /\ explained = Explained(message)
    OBVIOUS
<1>4. /\ crash'.by = t /\ crash'.abort_message = message /\ crash'.terminate_type = type
      /\ crash'.owed = owed /\ crash'.explained = explained
    BY <1>1, <1>3
<1>5. owed # "nothing" =>
          /\ message.by = t /\ message.kind \in {"reason", "what", "unhandled"}
          /\ owed = "type" => type = Text(t, "type")
          /\ owed = "no type" => type = NoText
    BY <1>2, <1>3, Promised
<1>6. explained => message.kind \in {"what", "unhandled"} /\ type # NoText
    <2>1. Explained(message) => message.kind \in {"what", "unhandled"} /\ type # NoText
        BY TypeThere DEF Explained
    <2> QED
        BY <1>3, <2>1
<1> QED
    BY <1>4, <1>5, <1>6 DEF CrashInv

\* Nothing is captured twice.
LEMMA StepCrashInv == AnnotInv /\ CrashInv /\ [Next]_vars => CrashInv'
<1> SUFFICES ASSUME AnnotInv, CrashInv, [Next]_vars PROVE CrashInv'
    OBVIOUS
<1>1. CASE UNCHANGED crash
    BY <1>1 DEF CrashInv
<1> QED
    BY <1>1, CaptureCrashInv, ReportKeeps DEF Next, Process, Replace, Patch, vars

LEMMA InitCrashInv == Init => CrashInv
<1> SUFFICES ASSUME crash = NoCrash PROVE CrashInv
    BY DEF Init
<1>1. crash.owed = "nothing" /\ ~crash.explained
    BY DEF NoCrash
<1> QED
    BY <1>1 DEF CrashInv

--------------------------------------------------------------------------------
(* What the reader finds of it *)

LEMMA InitLineInv == Init => LineInv
BY DEF Init, LineInv

\* The second opening finds both texts, unless it is of a beginning.
LEMMA ExtractLineInv == ASSUME JInv, LineInv, ExtractCrashpadAnnotations PROVE LineInv'
<1>1. /\ reader' = "format" /\ UNCHANGED <<crash, tombstone>>
      /\ "file" \in cut => "seen" \in excused'
    BY DEF ExtractCrashpadAnnotations, Reads
<1>2. CASE "file" \in cut
    BY <1>1, <1>2 DEF LineInv
<1>3. CASE "file" \notin cut
    <2>1. info' = [info EXCEPT !.abort_message = crash.abort_message, !.terminate_type = crash.terminate_type]
        BY <1>3 DEF ExtractCrashpadAnnotations
    <2>2. info = [frame |-> info.frame, abort_message |-> info.abort_message,
                  terminate_type |-> info.terminate_type]
        BY DEF JInv, ReaderInv, InfoShape
    <2>3. PICK f, x, y : info = [frame |-> f, abort_message |-> x, terminate_type |-> y]
        BY <2>2, Zenon
    <2>4. info' = [frame |-> f, abort_message |-> crash.abort_message,
                   terminate_type |-> crash.terminate_type]
        BY <2>1, <2>3
    <2>5. info'.abort_message = crash.abort_message /\ info'.terminate_type = crash.terminate_type
        BY <2>4
    <2> QED
        BY <1>1, <2>5 DEF LineInv
<1> QED
    BY <1>2, <1>3

LEMMA FormatLineInv == ASSUME JInv, LineInv, FormatTombstone PROVE LineInv'
<1>1. /\ reader = "format" /\ reader' = "logged" /\ UNCHANGED <<crash, excused>>
      /\ tombstone'.line = IF info.abort_message.kind = "" THEN <<>>
                           ELSE <<info.terminate_type, info.abort_message>>
    BY DEF FormatTombstone, buildVars, patchVars
<1>2. \/ "seen" \in excused'
      \/ tombstone'.line = <<>> /\ crash.abort_message.kind = ""
      \/ tombstone'.line = <<crash.terminate_type, crash.abort_message>> /\ crash.abort_message.kind # ""
    BY <1>1 DEF LineInv
<1> QED
    BY <1>1, <1>2 DEF LineInv

LEMMA StepLineInv == JInv /\ LineInv /\ [Next]_vars => LineInv'
<1> SUFFICES ASSUME JInv, LineInv, [Next]_vars PROVE LineInv'
    OBVIOUS
<1>1. ASSUME excused \subseteq excused', UNCHANGED <<crash, reader, info, tombstone>> PROVE LineInv'
    BY <1>1 DEF LineInv
<1>2. CASE Process \/ Replace \/ UNCHANGED vars
    BY <1>1, <1>2 DEF Process, Replace, Upgrade, vars, buildVars, patchVars, reportVars
<1>3. ASSUME NEW t \in Threads, Capture(t) PROVE LineInv'
    <2>1. crash = NoCrash /\ reader' = reader
        BY <1>3 DEF Capture, reportVars
    <2>2. reader = "idle"
        BY <2>1 DEF JInv, BeforeCrash
    <2> QED
        BY <2>1, <2>2 DEF LineInv
<1>4. CASE Patch
    <2>1. PICK who \in Patchers : PatcherStep(who)
        BY <1>4 DEF Patch, Patchers
    <2>2. excused \subseteq excused'
        BY <2>1 DEF PatcherStep, ReadDump, PatchBuffer, Truncate, WriteBack, WriteFails
    <2> QED
        BY <1>1, <1>4, <2>2 DEF Patch, reportVars
<1>5. CASE OpenDump \/ ExtractModules \/ ExtractRegisters
    <2>1. reader' \in {"modules", "registers", "annotations", "unreadable"}
        BY <1>5 DEF OpenDump, ExtractModules, ExtractRegisters, Reads
    <2> QED
        BY <2>1 DEF LineInv
<1> QED
    BY <1>2, <1>3, <1>4, <1>5, ExtractLineInv, FormatLineInv DEF Next, Report

--------------------------------------------------------------------------------
\* The whole of it.
KInv == JInv /\ AnnotInv /\ CrashInv /\ LineInv

LEMMA InitKInv == Init => KInv
BY InitJInv, InitAnnot, InitCrashInv, InitLineInv DEF KInv

LEMMA StepKInv == KInv /\ [Next]_vars => KInv'
BY StepJInv, StepAnnot, StepCrashInv, StepLineInv DEF KInv

\* A thread that dies of an assertion or of std::terminate, and that no other has
\* written over since, is in the tombstone with what it said then
\* (WriteTerminateAnnotation to FormatTombstone).
THEOREM ReportMessageOfTheCrash == Spec => []MessageOfTheCrash
<1>1. ASSUME KInv PROVE MessageOfTheCrash
    <2> SUFFICES ASSUME reader = "logged", crash.owed # "nothing", "seen" \notin excused
                 PROVE  /\ tombstone.line # <<>>
                        /\ tombstone.line[2].by = crash.by /\ tombstone.line[2].kind # "said"
                        /\ crash.owed = "type" => tombstone.line[1] = Text(crash.by, "type")
                        /\ crash.owed = "no type" => tombstone.line[1] = NoText
        BY DEF MessageOfTheCrash, Logged
    <2>1. /\ crash.abort_message.by = crash.by
          /\ crash.abort_message.kind \in {"reason", "what", "unhandled"}
          /\ crash.owed = "type" => crash.terminate_type = Text(crash.by, "type")
          /\ crash.owed = "no type" => crash.terminate_type = NoText
        BY <1>1 DEF KInv, CrashInv
    <2>2. tombstone.line = <<crash.terminate_type, crash.abort_message>>
        BY <1>1, <2>1 DEF KInv, LineInv
    <2>3. PICK line, type, message : line = tombstone.line /\ type = crash.terminate_type
                                     /\ message = crash.abort_message
        OBVIOUS
    <2>4. line # <<>> /\ line[1] = type /\ line[2] = message
        BY <2>2, <2>3
    <2> QED
        BY <2>1, <2>3, <2>4
<1> QED
    BY InitKInv, StepKInv, <1>1, PTL DEF Spec

\* The message of an exception never comes without a type (the order of
\* WriteTerminateAnnotation).
THEOREM ReportTypeBeforeMessage == Spec => []TypeBeforeMessage
<1>1. ASSUME KInv PROVE TypeBeforeMessage
    <2> SUFFICES ASSUME reader = "logged", crash.explained, "seen" \notin excused
                 PROVE  tombstone.line[1] # NoText
        BY DEF TypeBeforeMessage, Logged
    <2>1. crash.abort_message.kind \in {"what", "unhandled"} /\ crash.terminate_type # NoText
        BY <1>1 DEF KInv, CrashInv
    <2>2. tombstone.line = <<crash.terminate_type, crash.abort_message>>
        BY <1>1, <2>1 DEF KInv, LineInv
    <2>3. tombstone.line[1] = crash.terminate_type
        BY <2>2
    <2> QED
        BY <2>1, <2>3
<1> QED
    BY InitKInv, StepKInv, <1>1, PTL DEF Spec

\* Type correctness, and that the dictionary is a map but for a clash of two
\* insertions (SetKeyValue).
THEOREM ReportTypeOK == Spec => []TypeOK
<1>1. ASSUME KInv PROVE TypeOK
    <2>1. ASSUME NEW t \in Threads
          PROVE  /\ thread[t].at \in {"run", "find", "key", "value", "abort"}
                 /\ (thread[t].at \in {"key", "value"}) = (thread[t].slot \in 1..Capacity)
                 /\ (thread[t].at \in {"run", "abort"}) = (thread[t].todo = <<>>)
        <3>1. ThreadOK(t)
            BY <1>1 DEF KInv, AnnotInv
        <3>2. Writes(t) => thread[t].todo # <<>>
            BY <3>1 DEF ThreadOK, Work
        <3>3. (thread[t].at \in {"key", "value"}) = (thread[t].slot \in 1..Capacity)
            BY <3>1, AnnotationsAssumption DEF ThreadOK
        <3> QED
            BY <3>1, <3>2, <3>3 DEF ThreadOK, Writes
    <2>2. AnnotTypeOK
        BY <1>1, <2>1 DEF KInv, AnnotInv, Map, AnnotTypeOK
    <2>3. dump = NoFile <=> crash = NoCrash
        BY <1>1 DEF KInv, JInv, BeforeCrash
    <2>4. dump \in Records \cup {NoFile}
        BY <1>1 DEF KInv, JInv, IInv, HonestDump
    <2> QED
        BY <1>1, <2>2, <2>3, <2>4 DEF KInv, JInv, IInv, BuildTypeOK, LineInv, TypeOK
<1> QED
    BY InitKInv, StepKInv, <1>1, PTL DEF Spec
================================================================================
