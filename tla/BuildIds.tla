------------------------------- MODULE BuildIds -------------------------------
(***************************************************************************)
(* Build ids in a dump on disk: the daemon's PatchMissingBuildIds          *)
(* (daemon/minidump_patcher.cpp) and the command crashomon-patchdmp        *)
(* (tools/crashomon_tools/patchdmp) both read the dump, look each module   *)
(* up on disk, and write the dump over itself, without a lock, while       *)
(* upgrades replace the modules.  A build id is the build it names:        *)
(* "loaded" is what the process had mapped.  While it is rewritten the     *)
(* file is the beginning of a dump, of any length; each patcher writes it  *)
(* with one write().                                                       *)
(***************************************************************************)
EXTENDS Naturals

CONSTANTS
    Modules,
    Noted,      \* modules linked with a build id note: Crashpad writes their BpEL record
    Fileless,   \* modules whose file is gone or no ELF
    TooLong,    \* <<module, build>>: the build's id is longer than the module's record
    Requests,   \* what crashomon-patchdmp may be asked for
    NoFile

Builds == {"loaded", "replaced", "wrong"}

\* A record without a build id (PDB70) is "none".
Records == [Modules -> Builds \cup {"none"}]

ASSUME BuildIdsAssumption ==
    /\ Noted \subseteq Modules /\ Fileless \subseteq Modules
    /\ \A pair \in TooLong : pair[1] \in Modules
    /\ NoFile \notin Records
    /\ \A r \in Requests : {r.override, r.sysroot} \subseteq Records /\ r.in_place \in BOOLEAN

Patchers == {"daemon", "tool"}

VARIABLES
    disk,      \* what the path of each module leads to: a build or "none"
    dump,      \* the records of the dump file, or NoFile
    pc, buf,   \* where each patcher is, and what it has read
    cut,       \* which of "file" and the patchers' buffers is only the beginning of a dump
    request,   \* what the command was asked for
    excused    \* observer: "overlap" if the patchers met, "failed" if a write did,
               \* "cut" if a patcher read a beginning, "seen" if the reader did

patchVars == <<dump, pc, buf, cut, request, excused>>
buildVars == <<disk, patchVars>>

Nothing == [m \in Modules |-> "none"]

BuildInit ==
    /\ disk = [m \in Modules |-> IF m \in Fileless THEN "none" ELSE "loaded"]
    /\ dump = NoFile
    /\ pc = [who \in Patchers |-> "idle"] /\ buf = [who \in Patchers |-> Nothing]
    /\ cut = {} /\ excused = {}
    /\ request \in Requests

Goes(who, label) == pc' = [pc EXCEPT ![who] = label]
Ends(who) == Goes(who, "done") /\ buf' = [buf EXCEPT ![who] = Nothing]

\* A package is upgraded or removed.
Upgrade(m) ==
    /\ disk[m] = "loaded"
    /\ \E build \in {"replaced", "none"} : disk' = [disk EXCEPT ![m] = build]
    /\ UNCHANGED patchVars

--------------------------------------------------------------------------------
\* The note, or else the hash of .text, both as dump_syms computes them: the
\* build whose file it is.  Without a file, or without either, there is none.
ComputeElfBuildId(m) == disk[m]

_lookup_override(m) == request.override[m]

\* The file under the sysroot, or else the path itself.
_resolve_elf(m) == IF request.sysroot[m] # "none" THEN request.sysroot[m] ELSE ComputeElfBuildId(m)

BuildIdFor(who, m) ==
    IF who = "daemon" THEN ComputeElfBuildId(m)
    ELSE IF _lookup_override(m) # "none" THEN _lookup_override(m) ELSE _resolve_elf(m)

Fits(m, build) == <<m, build>> \notin TooLong

\* Mutant: records that have a build id are patched as well.
PatchEveryRecord(who, m) ==
    LET build == BuildIdFor(who, m)
    IN IF build # "none" /\ Fits(m, build) THEN build ELSE buf[who][m]
PatchRecord(who, m) ==
    LET build == BuildIdFor(who, m)
    IN IF buf[who][m] = "none" /\ build # "none" /\ Fits(m, build) THEN build ELSE buf[who][m]

\* Who has truncated the file and not yet written it.
Writers == {who \in Patchers : pc[who] = "write"}

\* What one finds in the file while these write to it: of each record either
\* what was there or what one of them has read.
Overlaid(writers) ==
    {c \in Records : \A m \in Modules : c[m] \in {dump[m]} \cup {buf[who][m] : who \in writers}}

Met(who) == \E other \in Patchers \ {who} : pc[other] \notin {"idle", "done"}

\* Only the daemon asks for a whole header, and for as many bytes as there
\* were when it opened the file.
ReadDump(who) ==
    /\ pc[who] = "idle" /\ dump # NoFile
    /\ \/ /\ who = "daemon" /\ "file" \in cut
          /\ Ends(who)
          /\ UNCHANGED cut
       \/ /\ Goes(who, "patch")
          /\ \E found \in Overlaid(Writers) : buf' = [buf EXCEPT ![who] = found]
          /\ cut' = IF "file" \in cut THEN cut \cup {who} ELSE cut
    /\ excused' = excused \cup (IF Met(who) THEN {"overlap"} ELSE {})
                          \cup (IF "file" \in cut THEN {"cut"} ELSE {})
    /\ UNCHANGED <<disk, dump, request>>

\* The records of a beginning are patched as far as it goes.
Patched(who) ==
    {[m \in Modules |-> IF m \in reached THEN PatchRecord(who, m) ELSE buf[who][m]] :
        reached \in IF who \in cut THEN SUBSET Modules ELSE {Modules}}

\* The daemon writes only if it patched something; the command always does,
\* into the dump or another file, if it can make something of a beginning.
PatchBuffer(who) ==
    /\ pc[who] = "patch"
    /\ \/ /\ \E patched \in Patched(who) :
                /\ IF who = "daemon" THEN patched # buf[who] ELSE request.in_place
                /\ buf' = [buf EXCEPT ![who] = patched]
          /\ Goes(who, "truncate")
          /\ UNCHANGED cut
       \/ /\ IF who = "daemon" THEN buf[who] \in Patched(who) ELSE ~request.in_place \/ who \in cut
          /\ Ends(who) /\ cut' = cut \ {who}
    /\ UNCHANGED <<disk, dump, request, excused>>

Truncate(who) ==
    /\ pc[who] = "truncate"
    /\ dump' = buf[who] /\ cut' = cut \cup {"file"}
    /\ Goes(who, "write")
    /\ UNCHANGED <<disk, buf, request, excused>>

\* A whole dump replaces what there is, a beginning only as far as it goes.
\* Mutant: write() is called once and not checked.
WriteOnce(who) ==
    /\ pc[who] = "write"
    /\ dump' \in Overlaid({who}) /\ cut' \in {cut \ {who}, cut \ {who, "file"}}
    /\ Ends(who)
    /\ UNCHANGED <<disk, request, excused>>
WriteBack(who) ==
    /\ pc[who] = "write"
    /\ IF who \in cut
       THEN dump' \in Overlaid({who}) /\ cut' = cut \ {who}
       ELSE dump' = buf[who] /\ cut' = cut \ {"file"}
    /\ Ends(who)
    /\ UNCHANGED <<disk, request, excused>>

\* The disk is full, or the patcher is killed.
WriteFails(who) ==
    /\ pc[who] = "write"
    /\ dump' \in Overlaid({who}) /\ cut' = cut \ {who}
    /\ Ends(who)
    /\ excused' = excused \cup {"failed"}
    /\ UNCHANGED <<disk, request>>

PatcherStep(who) ==
    ReadDump(who) \/ PatchBuffer(who) \/ Truncate(who) \/ WriteBack(who) \/ WriteFails(who)
================================================================================
