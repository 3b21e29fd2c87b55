----------------------------- MODULE PruneMinidumps -----------------------------
(***************************************************************************)
(* PruneMinidumps (daemon/disk_manager.cpp) one system call at a time: the *)
(* listing of pending/, one removal after another, then the same for the   *)
(* export directory, while Crashpad renames new dumps into pending/, an    *)
(* operator removes files by hand, and the wall clock moves, forwards or   *)
(* back.  CrashPipeline takes from here what a pass has to remove once it  *)
(* has listed a directory; this module shows how the pass finds that out   *)
(* and what disturbs it.                                                   *)
(***************************************************************************)
EXTENDS DiskManager

CONSTANTS
    Files,       \* dumps and exports that may exist
    Exports,     \* those of the export directory
    Size,
    ExportSet,   \* export_path is not empty
    MaxClock     \* bound of the wall clock

ASSUME PruneAssumption ==
    /\ Exports \subseteq Files
    /\ Size \in [Files -> Nat]
    /\ ExportSet \in BOOLEAN /\ MaxClock \in Nat

VARIABLES
    there,    \* the files that exist
    mtime,
    missing,  \* directories that do not exist
    clock,    \* ::time(nullptr)
    pc,       \* where the pass is
    list,     \* the listing being walked
    next,     \* the index of the next entry
    total,    \* total_bytes
    now,      \* the clock when the walk began
    gone,     \* what this walk removed
    status    \* of the last completed call

walkVars == <<list, next, total, now, gone>>
vars == <<there, mtime, missing, clock, pc, walkVars, status>>

Walking == pc \in {"walk_pending", "walk_exports"}

Dirs == {"pending", "exports"}
In(dir) == {f \in there : (f \in Exports) = (dir = "exports")}

\* The locals of a walk end with it.
EndWalk == list' = <<>> /\ next' = 1 /\ total' = 0 /\ now' = 0 /\ gone' = <<>>

Init ==
    /\ there = {} /\ mtime = [f \in Files |-> 0]
    /\ missing \in SUBSET Dirs
    /\ clock \in 0..MaxClock
    /\ pc = "idle"
    /\ list = <<>> /\ next = 1 /\ total = 0 /\ now = 0 /\ gone = <<>>
    /\ status = "ok"

--------------------------------------------------------------------------------
(* The rest of the machine *)

Arrive(f) ==
    /\ f \notin there
    /\ Walking => f \notin ToSet(list)   \* every dump has a new name
    /\ (IF f \in Exports THEN "exports" ELSE "pending") \notin missing
    /\ f \in Exports => pc = "idle"      \* only the worker itself writes exports
    /\ there' = there \cup {f}
    /\ mtime' = [mtime EXCEPT ![f] = clock]
    /\ UNCHANGED <<missing, clock, pc, walkVars, status>>

RemovedByHand(f) ==
    /\ f \in there
    /\ there' = there \ {f}
    /\ UNCHANGED <<mtime, missing, clock, pc, walkVars, status>>

SetClock ==
    /\ clock' \in 0..MaxClock
    /\ UNCHANGED <<there, mtime, missing, pc, walkVars, status>>

--------------------------------------------------------------------------------
(* The pass *)

Call ==
    /\ pc = "idle"
    /\ pc' = "list_pending"
    /\ UNCHANGED <<there, mtime, missing, clock, walkVars, status>>

Return(result) ==
    /\ pc' = "idle" /\ status' = result
    /\ UNCHANGED <<there, mtime, missing, clock>>

\* The directories are pruned one after the other, and the export directory
\* only if there is one.
PendingDone ==
    IF ExportSet
    THEN pc' = "list_exports" /\ UNCHANGED <<there, mtime, missing, clock, status>>
    ELSE Return("ok")

\* Listing, total and clock: ListCrashReports or ListExportFiles and the lines
\* before the loop.  A file that cannot be looked at is not listed.
BeginWalk(dir) ==
    /\ \E files \in SUBSET In(dir) : list' \in OldestFirst(files, mtime)
    /\ next' = 1 /\ gone' = <<>>
    /\ total' = Bytes(list', Size)
    /\ now' = clock
    /\ pc' = IF dir = "pending" THEN "walk_pending" ELSE "walk_exports"
    /\ UNCHANGED <<there, mtime, missing, clock, status>>

\* The iteration over the directory ends with an error.
ListingFails == Return("internal") /\ EndWalk

\* Without limits, or without a pending/ directory, there is nothing to prune.
ListPending ==
    /\ pc = "list_pending"
    /\ IF NoLimits \/ "pending" \in missing
       THEN PendingDone /\ EndWalk
       ELSE BeginWalk("pending") \/ ListingFails

\* A missing export directory is an error.
ListExports ==
    /\ pc = "list_exports"
    /\ IF NoLimits \/ "exports" \in missing
       THEN Return(IF NoLimits THEN "ok" ELSE "not_found") /\ EndWalk
       ELSE BeginWalk("exports") \/ ListingFails

Over(f) == OverSize(total) \/ OverAge(now, mtime[f])

\* Mutants: a directory of exactly max_bytes is over the limit; the limits are
\* tested once, on the listing.
FitsStrictly(f) == ~(MaxBytes > 0 /\ total >= MaxBytes) /\ ~OverAge(now, mtime[f])
WithinLimitsAtStart(f) == ~OverSize(Bytes(list, Size)) /\ ~OverAge(now, mtime[f])
WithinLimits(f) == ~Over(f)

Keep ==
    /\ Walking /\ next <= Len(list) /\ WithinLimits(list[next])
    /\ next' = next + 1
    /\ UNCHANGED <<there, mtime, missing, clock, pc, list, total, now, gone, status>>

\* Mutant: the running total is updated by the removal and by the loop.
TotalTwiceWithout(f) == total - 2 * Size[f]
TotalWithout(f) == total - Size[f]

RemoveEntry(f) ==
    /\ there' = there \ {f}
    /\ total' = TotalWithout(f)
    /\ gone' = Append(gone, f)
    /\ next' = next + 1
    /\ UNCHANGED <<mtime, missing, clock, pc, list, now, status>>

\* Mutant: a removal that fails is logged and skipped.
SkipFailedRemoval ==
    /\ Walking /\ next <= Len(list) /\ ~WithinLimits(list[next])
    /\ \/ list[next] \in there /\ RemoveEntry(list[next])
       \/ /\ next' = next + 1
          /\ UNCHANGED <<there, mtime, missing, clock, pc, list, total, now, gone, status>>

\* remove() may fail, and one that finds the file gone is an error like any
\* other: the pass ends there.
WalkStep ==
    /\ Walking /\ next <= Len(list) /\ ~WithinLimits(list[next])
    /\ \/ list[next] \in there /\ RemoveEntry(list[next])
       \/ Return("internal") /\ EndWalk

WalkDone ==
    /\ Walking /\ next > Len(list)
    /\ IF pc = "walk_pending" THEN PendingDone ELSE Return("ok")
    /\ EndWalk

Pass == Call \/ ListPending \/ ListExports \/ Keep \/ WalkStep \/ WalkDone

Next == Pass \/ SetClock \/ \E f \in Files : Arrive(f) \/ RemovedByHand(f)

Spec == Init /\ [][Next]_vars

--------------------------------------------------------------------------------
(* Properties *)

\* Type invariant; total_bytes is unsigned.
TypeOK ==
    /\ there \subseteq Files /\ mtime \in [Files -> Nat] /\ missing \subseteq Dirs
    /\ clock \in Nat
    /\ pc \in {"idle", "list_pending", "walk_pending", "list_exports", "walk_exports"}
    /\ list \in Seq(Files) /\ next \in Nat \ {0} /\ total \in Nat /\ now \in Nat
    /\ gone \in Seq(Files)
    /\ status \in {"ok", "not_found", "internal"}

\* The files that must go, without a running total: a file is pruned if it is
\* over age, or if it and everything listed after it do not fit.
MustGo(i) ==
    \/ OverAge(now, mtime[list[i]])
    \/ MaxBytes > 0 /\ Bytes(SubSeq(list, i, Len(list)), Size) > MaxBytes

\* A walk has removed, of the entries it has passed, exactly those that must
\* go: the oldest ones, no file too many and none too few, even when a second
\* has several files or the clock was set back.
RemovesExactlyWhatMustGo ==
    Walking => ToSet(gone) = {list[i] : i \in {j \in 1..(next - 1) : MustGo(j)}}

\* A finished walk has removed what the operator says that gives CrashPipeline
\* its list of removals, whatever arrived, was removed or touched meanwhile.
WalkIsOnePass ==
    Walking /\ next > Len(list) => gone = Removed(list, Size, mtime, now)

LeftWithinLimits ==
    LET left == ToSet(list) \cap there
    IN /\ MaxBytes > 0 => SumFunctionOnSet(Size, left) <= MaxBytes
       /\ \A f \in left : ~OverAge(now, mtime[f])

\* When the pass reports success, what is left of the last listing fits in
\* max_bytes and is within max_age_seconds.
OkMeansWithinLimits ==
    [][Walking /\ pc' # pc /\ (pc' = "idle" => status' = "ok") => LeftWithinLimits]_vars
================================================================================
