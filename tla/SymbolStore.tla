------------------------------ MODULE SymbolStore ------------------------------
(***************************************************************************)
(* The Breakpad symbol store of one module, <module>/<build_id>/<module>.sym: *)
(* web/symbol_store.py, the symbol routes of web/app.py, and the same      *)
(* operations in crashomon-syms (tools/crashomon_tools/syms).  Requests of *)
(* the web service, CI runners and command lines work on the directory at  *)
(* the same time without a lock, one system call at a time: an upload      *)
(* truncates and writes, prune lists, stats, sorts and removes, a delete   *)
(* removes one version.  What a file contains is left out: a file that two *)
(* uploads write, or that an upload leaves half written, is a version.     *)
(***************************************************************************)
EXTENDS Integers, FiniteSets, Sequences, SequencesExt

CONSTANTS
    Builds,            \* build ids, in the order of their paths
    Jobs,              \* requests and commands that may run at a time
    Uploads,           \* what one upload brings: sequences of builds
    Invalid,           \* the entry of an archive without a valid MODULE line
    Keep,              \* --keep
    MaxClock           \* bound of the times of files

ASSUME StoreAssumption ==
    /\ Builds \subseteq Nat /\ Invalid \notin Builds
    /\ Uploads \subseteq Seq(Builds \cup {Invalid})
    /\ Keep \in Nat \ {0} /\ MaxClock \in Nat

VARIABLES
    dirs,     \* the builds with a directory
    sym,      \* the .sym file of each build: "none" or "stored", whole or not
    mtime,    \* 0 without a file
    writers,  \* the jobs that hold each of these files open
    pc, op,   \* where each job is, and what it is
    todo,     \* the builds it has still to do
    seen,     \* the versions a prune has found, with the time they had
    lone,     \* observer: the prune no other removal has run into, if any
    clock

storeVars == <<dirs, sym, mtime, writers>>
jobVars == <<pc, op, todo, seen, lone>>
vars == <<storeVars, jobVars, clock>>

Init ==
    /\ dirs = {} /\ sym = [b \in Builds |-> "none"]
    /\ mtime = [b \in Builds |-> 0] /\ writers = [b \in Builds |-> {}]
    /\ pc = [j \in Jobs |-> "idle"] /\ op = [j \in Jobs |-> "none"]
    /\ todo = [j \in Jobs |-> <<>>] /\ seen = [j \in Jobs |-> {}]
    /\ lone = {} /\ clock = 0

At(j, label) == pc[j] = label
Goes(j, label) == pc' = [pc EXCEPT ![j] = label]
Entry(j) == Head(todo[j])
NextEntry(j) == todo' = [todo EXCEPT ![j] = Tail(@)]

Begin(j, name, label, work) ==
    /\ At(j, "idle")
    /\ Goes(j, label)
    /\ op' = [op EXCEPT ![j] = name]
    /\ todo' = [todo EXCEPT ![j] = work]
    /\ UNCHANGED <<storeVars, seen, clock>>

\* A job returns, raises or is killed: its files are closed.
Ends(j) ==
    /\ Goes(j, "idle")
    /\ op' = [op EXCEPT ![j] = "none"]
    /\ todo' = [todo EXCEPT ![j] = <<>>]
    /\ seen' = [seen EXCEPT ![j] = {}]
    /\ lone' = lone \ {j}

--------------------------------------------------------------------------------
(* add_sym_text, _store_sym, add_archive *)

BeginUpload(j) ==
    /\ \E work \in Uploads : Begin(j, IF Len(work) = 1 THEN "add" ELSE "archive", "mkdir", work)
    /\ UNCHANGED lone

UploadDone(j) ==
    /\ At(j, "mkdir") /\ todo[j] = <<>>
    /\ Ends(j)
    /\ UNCHANGED <<storeVars, clock>>

\* Only an archive goes on after an entry that cannot be stored.
SkipEntry(j) ==
    IF op[j] = "archive" THEN Goes(j, "mkdir") /\ NextEntry(j) /\ UNCHANGED <<op, seen, lone>>
    ELSE Ends(j)

CloseFiles(j) == writers' = [b \in Builds |-> writers[b] \ {j}]

\* The MODULE line is no such line, or one of the calls fails: mkdir, open (also
\* because a removal took the directory), or a write, which leaves what there is.
EntryFails(j) ==
    /\ At(j, "open") \/ At(j, "write") \/ (At(j, "mkdir") /\ todo[j] # <<>>)
    /\ SkipEntry(j) /\ CloseFiles(j)
    /\ UNCHANGED <<dirs, sym, mtime, clock>>

MakeDir(j) ==
    /\ At(j, "mkdir") /\ todo[j] # <<>> /\ Entry(j) # Invalid
    /\ dirs' = dirs \cup {Entry(j)}
    /\ Goes(j, "open")
    /\ UNCHANGED <<sym, mtime, writers, op, todo, seen, lone, clock>>

\* write_text opens and truncates,
OpenSym(j) ==
    /\ At(j, "open") /\ Entry(j) \in dirs
    /\ sym' = [sym EXCEPT ![Entry(j)] = "stored"]
    /\ mtime' = [mtime EXCEPT ![Entry(j)] = clock]
    /\ writers' = [writers EXCEPT ![Entry(j)] = @ \cup {j}]
    /\ Goes(j, "write")
    /\ UNCHANGED <<dirs, op, todo, seen, lone, clock>>

\* and writes; a writer whose file was removed writes to no name.
WriteSym(j) ==
    /\ At(j, "write")
    /\ mtime' = IF j \in writers[Entry(j)] THEN [mtime EXCEPT ![Entry(j)] = clock] ELSE mtime
    /\ CloseFiles(j)
    /\ Goes(j, "mkdir") /\ NextEntry(j)
    /\ UNCHANGED <<dirs, sym, op, seen, lone, clock>>

--------------------------------------------------------------------------------
(* prune, cmd_prune, delete_symbol *)

Removing(k) == op[k] \in {"prune", "delete"}

BeginPrune(j) ==
    /\ \E listing \in SetToSeqs(dirs) : Begin(j, "prune", "exists", listing)
    /\ lone' = IF \E k \in Jobs : Removing(k) THEN {} ELSE {j}

\* A directory without its .sym file is no version.
LookAt(j) ==
    /\ At(j, "exists") /\ todo[j] # <<>>
    /\ IF Entry(j) \in dirs /\ sym[Entry(j)] # "none"
       THEN Goes(j, "stat") /\ UNCHANGED todo
       ELSE UNCHANGED pc /\ NextEntry(j)
    /\ UNCHANGED <<storeVars, op, seen, lone, clock>>

\* stat() raises if the file went since exists().
StatSym(j) ==
    /\ At(j, "stat")
    /\ IF sym[Entry(j)] # "none"
       THEN /\ seen' = [seen EXCEPT ![j] = @ \cup {[build |-> Entry(j), at |-> mtime[Entry(j)]]}]
            /\ Goes(j, "exists") /\ NextEntry(j)
            /\ UNCHANGED <<op, lone>>
       ELSE Ends(j)
    /\ UNCHANGED <<storeVars, clock>>

\* Mutant: a version is sorted by its path and not by its time.
PathFirst(v, w) == v.build < w.build
Before(v, w) == v.at < w.at \/ (v.at = w.at /\ v.build < w.build)

BeyondKeep(versions) ==
    {v \in versions : Cardinality({w \in versions : Before(v, w)}) >= Keep}

\* versions.sort(), and the slice of those beyond keep.
PlanRemovals(j) ==
    /\ At(j, "exists") /\ todo[j] = <<>>
    /\ \E plan \in SetToSeqs(BeyondKeep(seen[j])) :
          /\ \A i, k \in DOMAIN plan : i < k => Before(plan[i], plan[k])
          /\ todo' = [todo EXCEPT ![j] = [i \in DOMAIN plan |-> plan[i].build]]
    /\ Goes(j, "unlink")
    /\ UNCHANGED <<storeVars, op, seen, lone, clock>>

BeginDelete(j) ==
    /\ \E b \in dirs : Begin(j, "delete", "unlink", <<b>>)
    /\ lone' = {}

RemovalsDone(j) ==
    /\ At(j, "unlink") /\ todo[j] = <<>>
    /\ Ends(j)
    /\ UNCHANGED <<storeVars, clock>>

\* shutil.rmtree, first half.  It raises if the directory is gone, and may if
\* the file it listed is.
UnlinkSym(j) ==
    /\ At(j, "unlink") /\ todo[j] # <<>>
    /\ \/ /\ Entry(j) \in dirs
          /\ sym' = [sym EXCEPT ![Entry(j)] = "none"]
          /\ mtime' = [mtime EXCEPT ![Entry(j)] = 0]
          /\ writers' = [writers EXCEPT ![Entry(j)] = {}]
          /\ Goes(j, "rmdir")
          /\ UNCHANGED <<op, todo, seen, lone>>
       \/ /\ Entry(j) \notin dirs \/ sym[Entry(j)] = "none"
          /\ Ends(j)
          /\ UNCHANGED <<sym, mtime, writers>>
    /\ UNCHANGED <<dirs, clock>>

\* Mutant: the directory goes with what an upload has put there again.
RemoveDirBlindly(j) ==
    /\ At(j, "rmdir")
    /\ dirs' = dirs \ {Entry(j)}
    /\ Goes(j, "unlink") /\ NextEntry(j)
    /\ UNCHANGED <<sym, mtime, writers, op, seen, lone, clock>>

\* Second half: it raises if an upload has put a file there again.
RemoveDir(j) ==
    /\ At(j, "rmdir")
    /\ IF Entry(j) \in dirs /\ sym[Entry(j)] = "none"
       THEN /\ dirs' = dirs \ {Entry(j)}
            /\ Goes(j, "unlink") /\ NextEntry(j) /\ UNCHANGED <<op, seen, lone>>
       ELSE Ends(j) /\ UNCHANGED dirs
    /\ UNCHANGED <<sym, mtime, writers, clock>>

--------------------------------------------------------------------------------
\* A job is killed.
Die(j) ==
    /\ ~At(j, "idle")
    /\ Ends(j) /\ CloseFiles(j)
    /\ UNCHANGED <<dirs, sym, mtime, clock>>

\* Time goes on, or the clock is set back.
ClockMoves ==
    /\ clock' \in (0..MaxClock) \ {clock}
    /\ UNCHANGED <<storeVars, jobVars>>

Upload(j) == 
    \/ BeginUpload(j) \/ EntryFails(j) \/ MakeDir(j) \/ OpenSym(j) \/ WriteSym(j)
    \/ UploadDone(j)
Prune(j) == BeginPrune(j) \/ LookAt(j) \/ StatSym(j) \/ PlanRemovals(j)
Removal(j) == BeginDelete(j) \/ UnlinkSym(j) \/ RemoveDir(j) \/ RemovalsDone(j)

Next == ClockMoves \/ \E j \in Jobs : Upload(j) \/ Prune(j) \/ Removal(j) \/ Die(j)

Spec == Init /\ [][Next]_vars

--------------------------------------------------------------------------------
(* Properties *)

Versions == {b \in Builds : sym[b] # "none"}

\* Type invariant; a version has a directory, and only the jobs that are about
\* to write hold files open.
TypeOK ==
    /\ dirs \subseteq Builds /\ Versions \subseteq dirs
    /\ mtime \in [Builds -> 0..MaxClock]
    /\ \A b \in Builds : \A j \in writers[b] : At(j, "write") /\ Entry(j) = b
    /\ \A j \in Jobs : At(j, "idle") <=> op[j] = "none"

\* prune and cmd_prune remove only what they have found, and of each version they
\* remove, at least keep stay that were found no older: however uploads (also of
\* the version about to go) run into the listing, the stats and the removals,
\* whatever the clock does, and if no other prune or deletion runs into it.
PruneLeavesKeep ==
    [][\A j \in lone, b \in Builds :
          At(j, "unlink") /\ sym[b] # "none" /\ sym'[b] = "none" =>
              \E v \in seen[j] :
                  /\ v.build = b
                  /\ Cardinality({w \in seen[j] : w.at >= v.at /\ sym'[w.build] # "none"}) >= Keep]_vars
================================================================================
