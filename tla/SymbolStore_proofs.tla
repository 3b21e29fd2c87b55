--------------------------- MODULE SymbolStore_proofs ---------------------------
(***************************************************************************)
(* For any builds, archives and number of jobs: a prune that no other      *)
(* removal runs into removes only what it has found, and leaves the newest *)
(* of what it has found, whatever uploads, deaths of jobs and the clock do. *)
(***************************************************************************)
EXTENDS SymbolStore, FiniteSetTheorems, WellFoundedInduction, TLAPS

(* The jobs *)

Labels == {"idle", "mkdir", "open", "write", "exists", "stat", "unlink", "rmdir"}
Names == {"none", "add", "archive", "prune", "delete"}
Found == [build : Builds, at : 0..MaxClock]
FoundSets == {S \in SUBSET Found : IsFiniteSet(S)}

JobTypeOK(j) ==
    /\ pc[j] = "idle" <=> op[j] = "none"
    /\ pc[j] \in {"mkdir", "open", "write"} => op[j] \in {"add", "archive"}
    /\ pc[j] \in {"exists", "stat"} => op[j] = "prune"
    /\ pc[j] \in {"unlink", "rmdir"} => Removing(j)
    /\ pc[j] \in {"open", "write", "stat", "rmdir"} => todo[j] # <<>>
    /\ pc[j] \in {"open", "write"} => Entry(j) \in Builds
    /\ pc[j] \in {"exists", "stat", "unlink", "rmdir"} => todo[j] \in Seq(Builds)
    /\ pc[j] \notin {"exists", "stat", "unlink", "rmdir"} => seen[j] = {}

JobsTyped ==
    /\ pc \in [Jobs -> Labels] /\ op \in [Jobs -> Names]
    /\ todo \in [Jobs -> Seq(Builds \cup {Invalid})]
    /\ seen \in [Jobs -> FoundSets]

\* A file has a directory, and whoever holds it open is about to write it.
TInv ==
    /\ dirs \subseteq Builds /\ IsFiniteSet(dirs)
    /\ sym \in [Builds -> {"none", "stored"}]
    /\ mtime \in [Builds -> 0..MaxClock] /\ clock \in 0..MaxClock
    /\ writers \in [Builds -> SUBSET Jobs]
    /\ JobsTyped
    /\ \A j \in Jobs : JobTypeOK(j)
    /\ \A b \in Builds : sym[b] # "none" => b \in dirs
    /\ \A b \in Builds : writers[b] # {} => sym[b] # "none"
    /\ \A b \in Builds : \A j \in Jobs : j \in writers[b] => pc[j] = "write" /\ Entry(j) = b

LEMMA InitTInv == Init => TInv
<1> SUFFICES ASSUME Init PROVE TInv
    OBVIOUS
<1>1. IsFiniteSet(dirs)
    BY FS_EmptySet DEF Init
<1>2. JobsTyped
    <2>1. {} \in FoundSets
        BY FS_EmptySet DEF FoundSets
    <2> QED
        BY <2>1 DEF Init, JobsTyped, Labels, Names
<1>3. \A j \in Jobs : JobTypeOK(j)
    BY DEF Init, JobTypeOK
<1> QED
    BY <1>1, <1>2, <1>3, StoreAssumption DEF Init, TInv

\* The others stay as they are.
Apart(j) == \A k \in Jobs \ {j} : pc'[k] = pc[k] /\ op'[k] = op[k] /\ todo'[k] = todo[k] /\ seen'[k] = seen[k]

LEMMA OthersTyped ==
    ASSUME TInv, NEW j \in Jobs, Apart(j), JobTypeOK(j)'
    PROVE  \A k \in Jobs : JobTypeOK(k)'
BY SMTT(30) DEF TInv, Apart, JobTypeOK, Entry, Removing

\* A job moves and leaves the store; it holds no file.
LEMMA JobMoves ==
    ASSUME TInv, NEW j \in Jobs, Apart(j), JobsTyped', JobTypeOK(j)',
           UNCHANGED <<dirs, sym, mtime, writers, clock>>, \A b \in Builds : j \notin writers[b]
    PROVE  TInv'
<1>1. \A k \in Jobs : JobTypeOK(k)'
    BY OthersTyped
<1>2. \A k \in Jobs \ {j} : pc'[k] = pc[k] /\ Entry(k)' = Entry(k)
    BY DEF Apart, Entry
<1>3. \A b \in Builds : \A k \in Jobs : k \in writers'[b] => pc'[k] = "write" /\ Entry(k)' = b
    BY <1>2 DEF TInv
<1> QED
    BY <1>1, <1>3 DEF TInv

\* A job that does not write holds no file.
LEMMA HoldsNone ==
    ASSUME TInv, NEW j \in Jobs, pc[j] # "write"
    PROVE  \A b \in Builds : j \notin writers[b]
BY DEF TInv

\* The files of the others stay theirs.
LEMMA FilesKept ==
    ASSUME TInv, NEW j \in Jobs, Apart(j),
           \A b \in Builds : \A k \in Jobs : k \in writers'[b] => k \in writers[b] /\ k # j
    PROVE  \A b \in Builds : \A k \in Jobs : k \in writers'[b] => pc'[k] = "write" /\ Entry(k)' = b
BY DEF TInv, Apart, Entry

\* A job moves and closes its files.
LEMMA JobCloses ==
    ASSUME TInv, NEW j \in Jobs, Apart(j), JobsTyped', JobTypeOK(j)',
           UNCHANGED <<dirs, sym, mtime, clock>>, CloseFiles(j)
    PROVE  TInv'
<1>1. \A k \in Jobs : JobTypeOK(k)'
    BY OthersTyped
<1>2. writers' \in [Builds -> SUBSET Jobs] /\ \A b \in Builds : writers'[b] = writers[b] \ {j}
    BY DEF CloseFiles, TInv
<1>3. \A b \in Builds : writers'[b] # {} => sym'[b] # "none"
    BY <1>2 DEF TInv
<1>4. \A b \in Builds : \A k \in Jobs : k \in writers'[b] => pc'[k] = "write" /\ Entry(k)' = b
    BY <1>2, FilesKept
<1> QED
    BY <1>1, <1>2, <1>3, <1>4 DEF TInv

\* The end of a job.
LEMMA EndsTyped ==
    ASSUME TInv, NEW j \in Jobs, Ends(j)
    PROVE  Apart(j) /\ JobsTyped' /\ JobTypeOK(j)'
<1>1. /\ pc' = [pc EXCEPT ![j] = "idle"] /\ op' = [op EXCEPT ![j] = "none"]
      /\ todo' = [todo EXCEPT ![j] = <<>>] /\ seen' = [seen EXCEPT ![j] = {}]
    BY DEF Ends, Goes
<1>2. JobsTyped
    BY DEF TInv
<1>0. {} \in FoundSets
    BY FS_EmptySet DEF FoundSets
<1>3. Apart(j) /\ JobsTyped'
    BY <1>0, <1>1, <1>2 DEF Apart, JobsTyped, Labels, Names
<1>4. pc'[j] = "idle" /\ op'[j] = "none" /\ todo'[j] = <<>> /\ seen'[j] = {}
    BY <1>1, <1>2 DEF JobsTyped
<1>5. JobTypeOK(j)'
    BY <1>4 DEF JobTypeOK
<1> QED
    BY <1>3, <1>5

\* One step on: the label, and perhaps the entry.
LEMMA GoesTyped ==
    ASSUME TInv, NEW j \in Jobs, NEW label \in Labels, Goes(j, label), UNCHANGED <<op, seen>>,
           NEW work \in Seq(Builds \cup {Invalid}), todo' = [todo EXCEPT ![j] = work]
    PROVE  /\ Apart(j) /\ JobsTyped' /\ op'[j] = op[j] /\ seen'[j] = seen[j]
           /\ pc'[j] = label /\ todo'[j] = work
<1>1. pc' = [pc EXCEPT ![j] = label] /\ JobsTyped
    BY DEF Goes, TInv
<1> QED
    BY <1>1 DEF Apart, JobsTyped

\* A job is begun.
LEMMA BeginTyped ==
    ASSUME TInv, NEW j \in Jobs, NEW name \in Names, NEW label \in Labels,
           NEW work \in Seq(Builds \cup {Invalid}), Begin(j, name, label, work)
    PROVE  /\ Apart(j) /\ JobsTyped' /\ pc'[j] = label /\ op'[j] = name /\ todo'[j] = work
           /\ seen'[j] = {} /\ pc[j] = "idle" /\ op[j] = "none"
           /\ UNCHANGED <<dirs, sym, mtime, writers, clock>>
<1>1. /\ pc[j] = "idle" /\ pc' = [pc EXCEPT ![j] = label] /\ op' = [op EXCEPT ![j] = name]
      /\ todo' = [todo EXCEPT ![j] = work] /\ UNCHANGED <<dirs, sym, mtime, writers, seen, clock>>
    BY DEF Begin, At, Goes, storeVars
<1>2. JobsTyped /\ JobTypeOK(j)
    BY DEF TInv
<1> QED
    BY <1>1, <1>2 DEF Apart, JobsTyped, JobTypeOK

LEMMA Tails ==
    ASSUME NEW S, NEW s \in Seq(S), s # <<>>
    PROVE  Tail(s) \in Seq(S) /\ Head(s) \in S
OBVIOUS

\* An archive goes on, a single file does not.
LEMMA SkipTyped ==
    ASSUME TInv, NEW j \in Jobs, pc[j] \in {"mkdir", "open", "write"}, todo[j] # <<>>, SkipEntry(j)
    PROVE  Apart(j) /\ JobsTyped' /\ JobTypeOK(j)'
<1>1. CASE Ends(j)
    BY <1>1, EndsTyped
<1>2. CASE op[j] = "archive" /\ Goes(j, "mkdir") /\ NextEntry(j) /\ UNCHANGED <<op, seen, lone>>
    <2>1. JobsTyped /\ JobTypeOK(j)
        BY DEF TInv
    <2>2. todo[j] \in Seq(Builds \cup {Invalid})
        BY <2>1 DEF JobsTyped
    <2>3. PICK work \in Seq(Builds \cup {Invalid}) : work = Tail(todo[j])
        BY <2>2, Tails
    <2>4. todo' = [todo EXCEPT ![j] = work]
        BY <1>2, <2>3 DEF NextEntry
    <2>5. /\ Apart(j) /\ JobsTyped' /\ op'[j] = op[j] /\ seen'[j] = seen[j] /\ pc'[j] = "mkdir"
        BY <1>2, <2>4, GoesTyped DEF Labels
    <2> QED
        BY <1>2, <2>1, <2>5 DEF JobTypeOK
<1> QED
    BY <1>1, <1>2 DEF SkipEntry

--------------------------------------------------------------------------------
\* Uploads.
LEMMA UploadTInv == ASSUME TInv, NEW j \in Jobs, Upload(j) PROVE TInv'
<1>1. JobsTyped /\ JobTypeOK(j) /\ todo[j] \in Seq(Builds \cup {Invalid})
    BY DEF TInv, JobsTyped
<1>2. CASE BeginUpload(j)
    <2>1. PICK work \in Uploads : Begin(j, IF Len(work) = 1 THEN "add" ELSE "archive", "mkdir", work)
        BY <1>2 DEF BeginUpload
    <2>2. PICK name \in {"add", "archive"} : name = IF Len(work) = 1 THEN "add" ELSE "archive"
        OBVIOUS
    <2>3. work \in Seq(Builds \cup {Invalid}) /\ Begin(j, name, "mkdir", work)
        BY <2>1, <2>2, StoreAssumption
    <2>4. /\ Apart(j) /\ JobsTyped' /\ pc'[j] = "mkdir" /\ op'[j] = name /\ seen'[j] = {}
          /\ pc[j] = "idle" /\ UNCHANGED <<dirs, sym, mtime, writers, clock>>
        BY <2>3, BeginTyped DEF Labels, Names
    <2>5. JobTypeOK(j)'
        BY <2>4 DEF JobTypeOK
    <2> QED
        BY <2>4, <2>5, HoldsNone, JobMoves
<1>3. CASE UploadDone(j)
    <2>1. Ends(j) /\ pc[j] = "mkdir" /\ UNCHANGED <<dirs, sym, mtime, writers, clock>>
        BY <1>3 DEF UploadDone, At, storeVars
    <2> QED
        BY <2>1, EndsTyped, HoldsNone, JobMoves
<1>4. CASE EntryFails(j)
    <2>1. /\ SkipEntry(j) /\ CloseFiles(j) /\ UNCHANGED <<dirs, sym, mtime, clock>>
          /\ pc[j] \in {"mkdir", "open", "write"} /\ todo[j] # <<>>
        BY <1>1, <1>4 DEF EntryFails, At, JobTypeOK
    <2> QED
        BY <2>1, SkipTyped, JobCloses
<1>5. CASE MakeDir(j)
    <2>1. /\ pc[j] = "mkdir" /\ todo[j] # <<>> /\ Entry(j) # Invalid /\ dirs' = dirs \cup {Entry(j)}
          /\ Goes(j, "open") /\ UNCHANGED <<sym, mtime, writers, op, todo, seen, clock>>
        BY <1>5 DEF MakeDir, At
    <2>2. Entry(j) \in Builds
        BY <1>1, <2>1, Tails DEF Entry
    <2>3. dirs' \subseteq Builds /\ IsFiniteSet(dirs') /\ dirs \subseteq dirs'
        BY <2>1, <2>2, FS_AddElement DEF TInv
    <2>4. PICK work \in Seq(Builds \cup {Invalid}) : work = todo[j]
        BY <1>1
    <2>5. todo' = [todo EXCEPT ![j] = work]
        BY <1>1, <2>1, <2>4 DEF JobsTyped
    <2>6. /\ Apart(j) /\ JobsTyped' /\ op'[j] = op[j] /\ seen'[j] = seen[j]
          /\ pc'[j] = "open" /\ todo'[j] = todo[j]
        BY <2>1, <2>4, <2>5, GoesTyped DEF Labels
    <2>7. JobTypeOK(j)'
        BY <1>1, <2>1, <2>2, <2>6 DEF JobTypeOK, Entry
    <2>8. \A k \in Jobs : JobTypeOK(k)'
        BY <2>6, <2>7, OthersTyped
    <2>9. \A b \in Builds : \A k \in Jobs : k \in writers'[b] => pc'[k] = "write" /\ Entry(k)' = b
        BY <2>1, <2>6, HoldsNone DEF TInv, Apart, Entry
    <2> QED
        BY <2>1, <2>3, <2>6, <2>8, <2>9 DEF TInv
<1>6. CASE OpenSym(j)
    <2>1. pc[j] = "open" /\ todo[j] # <<>> /\ Entry(j) \in Builds
        BY <1>1, <1>6 DEF OpenSym, At, JobTypeOK
    <2>2. Entry(j) \in dirs
        BY <1>6 DEF OpenSym
    <2>3. PICK e \in Builds : e = Entry(j)
        BY <2>1
    <2>4. /\ sym' = [sym EXCEPT ![e] = "stored"] /\ mtime' = [mtime EXCEPT ![e] = clock]
          /\ writers' = [writers EXCEPT ![e] = writers[e] \cup {j}]
          /\ Goes(j, "write") /\ UNCHANGED <<dirs, op, todo, seen, clock>>
        BY <1>6, <2>3 DEF OpenSym
    <2>5. /\ sym' \in [Builds -> {"none", "stored"}]
          /\ mtime' \in [Builds -> 0..MaxClock] /\ writers' \in [Builds -> SUBSET Jobs]
          /\ \A b \in Builds : sym'[b] # "none" => b \in dirs
          /\ \A b \in Builds : writers'[b] # {} => sym'[b] # "none"
          /\ \A b \in Builds : \A k \in Jobs : k \in writers'[b] => k \in writers[b] \/ (k = j /\ b = e)
        BY <2>2, <2>3, <2>4 DEF TInv
    <2>6. PICK work \in Seq(Builds \cup {Invalid}) : work = todo[j]
        BY <1>1
    <2>7. todo' = [todo EXCEPT ![j] = work]
        BY <1>1, <2>4, <2>6 DEF JobsTyped
    <2>8. /\ Apart(j) /\ JobsTyped' /\ op'[j] = op[j] /\ seen'[j] = seen[j]
          /\ pc'[j] = "write" /\ todo'[j] = todo[j]
        BY <2>4, <2>6, <2>7, GoesTyped DEF Labels
    <2>9. JobTypeOK(j)'
        BY <1>1, <2>1, <2>8 DEF JobTypeOK, Entry
    <2>10. \A k \in Jobs : JobTypeOK(k)'
        BY <2>8, <2>9, OthersTyped
    <2>11. ASSUME NEW b \in Builds, NEW k \in Jobs, k \in writers'[b] PROVE pc'[k] = "write" /\ Entry(k)' = b
        <3>1. CASE k = j
            <4>1. b = e /\ Entry(j)' = Entry(j)
                BY <2>1, <2>5, <2>8, <2>11, <3>1, HoldsNone DEF Entry
            <4> QED
                BY <2>3, <2>8, <3>1, <4>1
        <3>2. CASE k # j
            <4>1. pc[k] = "write" /\ Entry(k) = b
                BY <2>5, <2>11, <3>2 DEF TInv
            <4>2. pc'[k] = pc[k] /\ Entry(k)' = Entry(k)
                BY <2>8, <3>2 DEF Apart, Entry
            <4> QED
                BY <4>1, <4>2
        <3> QED
            BY <3>1, <3>2
    <2> QED
        BY <2>4, <2>5, <2>8, <2>10, <2>11 DEF TInv
<1>7. CASE WriteSym(j)
    <2>1. /\ pc[j] = "write" /\ todo[j] # <<>> /\ Entry(j) \in Builds
          /\ Goes(j, "mkdir") /\ NextEntry(j) /\ UNCHANGED <<dirs, op, seen, clock>>
        BY <1>1, <1>7 DEF WriteSym, At, JobTypeOK
    <2>2. PICK work \in Seq(Builds \cup {Invalid}) : work = Tail(todo[j])
        BY <1>1, <2>1, Tails
    <2>3. todo' = [todo EXCEPT ![j] = work]
        BY <2>1, <2>2 DEF NextEntry
    <2>4. /\ Apart(j) /\ JobsTyped' /\ op'[j] = op[j] /\ seen'[j] = seen[j] /\ pc'[j] = "mkdir"
        BY <2>1, <2>3, GoesTyped DEF Labels
    <2>5. JobTypeOK(j)'
        BY <1>1, <2>1, <2>4 DEF JobTypeOK
    <2>6. mtime' \in [Builds -> 0..MaxClock]
        BY <1>7, <2>1 DEF WriteSym, TInv
    <2>7. /\ writers' \in [Builds -> SUBSET Jobs] /\ UNCHANGED sym
          /\ \A b \in Builds : writers'[b] = writers[b] \ {j}
        BY <1>7 DEF WriteSym, CloseFiles, TInv
    <2>8. \A b \in Builds : writers'[b] # {} => sym'[b] # "none"
        BY <2>7 DEF TInv
    <2>9. \A k \in Jobs : JobTypeOK(k)'
        BY <2>4, <2>5, OthersTyped
    <2>10. \A b \in Builds : \A k \in Jobs : k \in writers'[b] => pc'[k] = "write" /\ Entry(k)' = b
        BY <2>4, <2>7, FilesKept
    <2> QED
        BY <2>1, <2>4, <2>6, <2>7, <2>8, <2>9, <2>10 DEF TInv
<1> QED
    BY <1>2, <1>3, <1>4, <1>5, <1>6, <1>7 DEF Upload

--------------------------------------------------------------------------------
\* Prunes and deletions.
LEMMA Listings ==
    ASSUME NEW S, IsFiniteSet(S), NEW plan \in SetToSeqs(S)
    PROVE  /\ plan \in Seq(S) /\ DOMAIN plan = 1..Cardinality(S)
           /\ \A i, k \in DOMAIN plan : plan[i] = plan[k] => i = k
<1>1. Cardinality(S) \in Nat
    BY FS_CardinalityType
<1>2. PICK D : D = 1..Cardinality(S)
    OBVIOUS
<1>3. plan \in [D -> S] /\ \A i, k \in D : i # k => plan[i] # plan[k]
    BY <1>2 DEF SetToSeqs
<1> QED
    BY <1>1, <1>2, <1>3

LEMMA PruneTInv == ASSUME TInv, NEW j \in Jobs, Prune(j) PROVE TInv'
<1>1. JobsTyped /\ JobTypeOK(j) /\ todo[j] \in Seq(Builds \cup {Invalid})
    BY DEF TInv, JobsTyped
<1>2. CASE BeginPrune(j)
    <2>1. PICK listing \in SetToSeqs(dirs) : Begin(j, "prune", "exists", listing)
        BY <1>2 DEF BeginPrune
    <2>2. listing \in Seq(Builds) /\ listing \in Seq(Builds \cup {Invalid})
        BY <2>1, Listings DEF TInv
    <2>3. /\ Apart(j) /\ JobsTyped' /\ pc'[j] = "exists" /\ op'[j] = "prune" /\ seen'[j] = {}
          /\ todo'[j] = listing /\ pc[j] = "idle" /\ UNCHANGED <<dirs, sym, mtime, writers, clock>>
        BY <2>1, <2>2, BeginTyped DEF Labels, Names
    <2>4. JobTypeOK(j)'
        BY <2>2, <2>3 DEF JobTypeOK
    <2> QED
        BY <2>3, <2>4, HoldsNone, JobMoves
<1>3. CASE LookAt(j)
    <2>1. /\ pc[j] = "exists" /\ todo[j] # <<>> /\ UNCHANGED <<dirs, sym, mtime, writers, op, seen, clock>>
          /\ todo[j] \in Seq(Builds) /\ op[j] = "prune"
        BY <1>1, <1>3 DEF LookAt, At, storeVars, JobTypeOK
    <2>2. CASE Goes(j, "stat") /\ UNCHANGED todo
        <3>4. PICK work \in Seq(Builds \cup {Invalid}) : work = todo[j]
            BY <1>1
        <3>5. todo' = [todo EXCEPT ![j] = work]
            BY <1>1, <2>2, <3>4 DEF JobsTyped
        <3>6. /\ Apart(j) /\ JobsTyped' /\ op'[j] = op[j] /\ seen'[j] = seen[j]
              /\ pc'[j] = "stat" /\ todo'[j] = todo[j]
            BY <2>1, <2>2, <3>4, <3>5, GoesTyped DEF Labels
        <3>7. JobTypeOK(j)'
            BY <1>1, <2>1, <3>6 DEF JobTypeOK
        <3> QED
            BY <2>1, <3>6, <3>7, HoldsNone, JobMoves
    <2>3. CASE UNCHANGED pc /\ NextEntry(j)
        <3>1. Tail(todo[j]) \in Seq(Builds)
            BY <2>1, Tails
        <3>2. PICK work \in Seq(Builds \cup {Invalid}) : work = Tail(todo[j])
            BY <1>1, <2>1, Tails
        <3>3. todo' = [todo EXCEPT ![j] = work] /\ Goes(j, "exists")
            BY <1>1, <2>1, <2>3, <3>2 DEF NextEntry, Goes, JobsTyped
        <3>4. /\ Apart(j) /\ JobsTyped' /\ op'[j] = op[j] /\ seen'[j] = seen[j]
              /\ pc'[j] = "exists" /\ todo'[j] = work
            BY <2>1, <3>3, GoesTyped DEF Labels
        <3>5. JobTypeOK(j)'
            BY <1>1, <2>1, <3>1, <3>2, <3>4 DEF JobTypeOK
        <3> QED
            BY <2>1, <3>4, <3>5, HoldsNone, JobMoves
    <2> QED
        BY <1>3, <2>2, <2>3 DEF LookAt
<1>4. CASE StatSym(j)
    <2>1. /\ pc[j] = "stat" /\ todo[j] # <<>> /\ UNCHANGED <<dirs, sym, mtime, writers, clock>>
          /\ todo[j] \in Seq(Builds) /\ op[j] = "prune" /\ Entry(j) \in Builds
        BY <1>1, <1>4, Tails DEF StatSym, At, storeVars, JobTypeOK, Entry
    <2>2. CASE Ends(j)
        BY <2>1, <2>2, EndsTyped, HoldsNone, JobMoves
    <2>3. CASE ~Ends(j)
        <3>0. PICK v : v = [build |-> Entry(j), at |-> mtime[Entry(j)]]
            OBVIOUS
        <3>1. /\ seen' = [seen EXCEPT ![j] = seen[j] \cup {v}]
              /\ Goes(j, "exists") /\ NextEntry(j) /\ UNCHANGED op
            BY <1>4, <2>3, <3>0 DEF StatSym
        <3>2. seen[j] \cup {v} \in FoundSets
            <4>1. v \in Found
                BY <2>1, <3>0 DEF Found, TInv
            <4> QED
                BY <1>1, <4>1, FS_AddElement DEF FoundSets, JobsTyped
        <3>3. Tail(todo[j]) \in Seq(Builds) /\ Tail(todo[j]) \in Seq(Builds \cup {Invalid})
            BY <1>1, <2>1, Tails
        <3>4. Apart(j) /\ JobsTyped'
            BY <1>1, <3>1, <3>2, <3>3 DEF Apart, JobsTyped, Goes, NextEntry, Labels
        <3>5. pc'[j] = "exists" /\ op'[j] = "prune" /\ todo'[j] = Tail(todo[j])
            BY <1>1, <2>1, <3>1 DEF JobsTyped, Goes, NextEntry
        <3>6. JobTypeOK(j)'
            BY <3>3, <3>5 DEF JobTypeOK
        <3> QED
            BY <2>1, <3>4, <3>6, HoldsNone, JobMoves
    <2> QED
        BY <2>2, <2>3
<1>5. CASE PlanRemovals(j)
    <2>1. PICK plan \in SetToSeqs(BeyondKeep(seen[j])) :
              todo' = [todo EXCEPT ![j] = [i \in DOMAIN plan |-> plan[i].build]]
        BY <1>5 DEF PlanRemovals
    <2>2. /\ pc[j] = "exists" /\ Goes(j, "unlink")
          /\ UNCHANGED <<dirs, sym, mtime, writers, op, seen, clock>> /\ op[j] = "prune"
        BY <1>1, <1>5 DEF PlanRemovals, At, storeVars, JobTypeOK
    <2>3. BeyondKeep(seen[j]) \subseteq seen[j] /\ seen[j] \subseteq Found /\ IsFiniteSet(seen[j])
        BY <1>1 DEF BeyondKeep, JobsTyped, FoundSets
    <2>4. plan \in Seq(BeyondKeep(seen[j]))
        BY <2>1, <2>3, FS_Subset, Listings
    <2>5. plan \in Seq(Found)
        BY <2>3, <2>4
    <2>6. \A v \in Found : v.build \in Builds
        BY DEF Found
    <2>7. PICK work : work = [i \in DOMAIN plan |-> plan[i].build]
        OBVIOUS
    <2>8. work \in Seq(Builds) /\ work \in Seq(Builds \cup {Invalid})
        <3>1. \A i \in DOMAIN plan : plan[i].build \in Builds
            BY <2>5, <2>6
        <3> QED
            BY <2>5, <2>7, <3>1
    <2>9. Apart(j) /\ JobsTyped'
        BY <1>1, <2>1, <2>2, <2>7, <2>8 DEF Apart, JobsTyped, Goes, Labels
    <2>10. pc'[j] = "unlink" /\ op'[j] = "prune" /\ todo'[j] = work /\ seen'[j] = seen[j]
        BY <1>1, <2>1, <2>2, <2>7 DEF JobsTyped, Goes
    <2>11. JobTypeOK(j)'
        BY <2>8, <2>10 DEF JobTypeOK, Removing
    <2> QED
        BY <2>2, <2>9, <2>11, HoldsNone, JobMoves
<1> QED
    BY <1>2, <1>3, <1>4, <1>5 DEF Prune

LEMMA RemovalTInv == ASSUME TInv, NEW j \in Jobs, Removal(j) PROVE TInv'
<1>1. JobsTyped /\ JobTypeOK(j) /\ todo[j] \in Seq(Builds \cup {Invalid})
    BY DEF TInv, JobsTyped
<1>2. CASE BeginDelete(j)
    <2>1. PICK b \in dirs : Begin(j, "delete", "unlink", <<b>>)
        BY <1>2 DEF BeginDelete
    <2>2. <<b>> \in Seq(Builds) /\ <<b>> \in Seq(Builds \cup {Invalid})
        BY <2>1 DEF TInv
    <2>3. /\ Apart(j) /\ JobsTyped' /\ pc'[j] = "unlink" /\ op'[j] = "delete" /\ seen'[j] = {}
          /\ todo'[j] = <<b>> /\ pc[j] = "idle" /\ UNCHANGED <<dirs, sym, mtime, writers, clock>>
        BY <2>1, <2>2, BeginTyped DEF Labels, Names
    <2>4. JobTypeOK(j)'
        BY <2>2, <2>3 DEF JobTypeOK, Removing
    <2> QED
        BY <2>3, <2>4, HoldsNone, JobMoves
<1>3. CASE RemovalsDone(j)
    <2>1. Ends(j) /\ pc[j] = "unlink" /\ UNCHANGED <<dirs, sym, mtime, writers, clock>>
        BY <1>3 DEF RemovalsDone, At, storeVars
    <2> QED
        BY <2>1, EndsTyped, HoldsNone, JobMoves
<1>4. CASE UnlinkSym(j)
    <2>1. /\ pc[j] = "unlink" /\ todo[j] # <<>> /\ UNCHANGED <<dirs, clock>>
          /\ todo[j] \in Seq(Builds) /\ Removing(j) /\ Entry(j) \in Builds
        BY <1>1, <1>4, Tails DEF UnlinkSym, At, JobTypeOK, Entry
    <2>2. CASE Ends(j) /\ UNCHANGED <<sym, mtime, writers>>
        BY <2>1, <2>2, EndsTyped, HoldsNone, JobMoves
    <2>3. CASE ~(Ends(j) /\ UNCHANGED <<sym, mtime, writers>>)
        <3>1. PICK e \in Builds : e = Entry(j)
            BY <2>1
        <3>2. /\ sym' = [sym EXCEPT ![e] = "none"] /\ mtime' = [mtime EXCEPT ![e] = 0]
              /\ writers' = [writers EXCEPT ![e] = {}]
              /\ Goes(j, "rmdir") /\ UNCHANGED <<op, todo, seen>>
            BY <1>4, <2>3, <3>1 DEF UnlinkSym
        <3>3. /\ sym' \in [Builds -> {"none", "stored"}]
              /\ mtime' \in [Builds -> 0..MaxClock] /\ writers' \in [Builds -> SUBSET Jobs]
              /\ \A b \in Builds : sym'[b] # "none" => b \in dirs
              /\ \A b \in Builds : writers'[b] # {} => sym'[b] # "none"
              /\ \A b \in Builds : \A k \in Jobs : k \in writers'[b] => k \in writers[b]
            BY <3>1, <3>2, StoreAssumption DEF TInv
        <3>4. PICK work \in Seq(Builds \cup {Invalid}) : work = todo[j]
            BY <1>1
        <3>5. todo' = [todo EXCEPT ![j] = work]
            BY <1>1, <3>2, <3>4 DEF JobsTyped
        <3>6. /\ Apart(j) /\ JobsTyped' /\ op'[j] = op[j] /\ seen'[j] = seen[j]
              /\ pc'[j] = "rmdir" /\ todo'[j] = todo[j]
            BY <3>2, <3>4, <3>5, GoesTyped DEF Labels
        <3>7. JobTypeOK(j)'
            BY <1>1, <2>1, <3>6 DEF JobTypeOK, Removing
        <3>8. \A k \in Jobs : JobTypeOK(k)'
            BY <3>6, <3>7, OthersTyped
        <3>9. \A b \in Builds : \A k \in Jobs : k \in writers'[b] => k \in writers[b] /\ k # j
            BY <2>1, <3>3, HoldsNone
        <3>10. \A b \in Builds : \A k \in Jobs : k \in writers'[b] => pc'[k] = "write" /\ Entry(k)' = b
            BY <3>6, <3>9, FilesKept
        <3> QED
            BY <2>1, <3>3, <3>6, <3>8, <3>10 DEF TInv
    <2> QED
        BY <2>2, <2>3
<1>5. CASE RemoveDir(j)
    <2>1. /\ pc[j] = "rmdir" /\ todo[j] # <<>> /\ UNCHANGED <<sym, mtime, writers, clock>>
          /\ todo[j] \in Seq(Builds) /\ Removing(j) /\ Entry(j) \in Builds
        BY <1>1, <1>5, Tails DEF RemoveDir, At, JobTypeOK, Entry
    <2>2. CASE Ends(j) /\ UNCHANGED dirs
        BY <2>1, <2>2, EndsTyped, HoldsNone, JobMoves
    <2>3. CASE ~(Ends(j) /\ UNCHANGED dirs)
        <3>1. /\ sym[Entry(j)] = "none" /\ dirs' = dirs \ {Entry(j)}
              /\ Goes(j, "unlink") /\ NextEntry(j) /\ UNCHANGED <<op, seen>>
            BY <1>5, <2>3 DEF RemoveDir
        <3>2. dirs' \subseteq Builds /\ IsFiniteSet(dirs') /\ \A b \in Builds : sym[b] # "none" => b \in dirs'
            BY <3>1, FS_RemoveElement DEF TInv
        <3>3. Tail(todo[j]) \in Seq(Builds)
            BY <2>1, Tails
        <3>4. PICK work \in Seq(Builds \cup {Invalid}) : work = Tail(todo[j])
            BY <1>1, <2>1, Tails
        <3>5. todo' = [todo EXCEPT ![j] = work]
            BY <3>1, <3>4 DEF NextEntry
        <3>6. /\ Apart(j) /\ JobsTyped' /\ op'[j] = op[j] /\ seen'[j] = seen[j]
              /\ pc'[j] = "unlink" /\ todo'[j] = work
            BY <3>1, <3>5, GoesTyped DEF Labels
        <3>7. JobTypeOK(j)'
            BY <1>1, <2>1, <3>3, <3>4, <3>6 DEF JobTypeOK, Removing
        <3>8. \A k \in Jobs : JobTypeOK(k)'
            BY <3>6, <3>7, OthersTyped
        <3>9. \A b \in Builds : \A k \in Jobs : k \in writers'[b] => pc'[k] = "write" /\ Entry(k)' = b
            BY <2>1, <3>6, HoldsNone DEF TInv, Apart, Entry
        <3> QED
            BY <2>1, <3>2, <3>6, <3>8, <3>9 DEF TInv
    <2> QED
        BY <2>2, <2>3
<1> QED
    BY <1>2, <1>3, <1>4, <1>5 DEF Removal

\* A death closes the files of the job.
LEMMA DieTInv == ASSUME TInv, NEW j \in Jobs, Die(j) PROVE TInv'
BY EndsTyped, JobCloses DEF Die

LEMMA StepTInv == TInv /\ [Next]_vars => TInv'
<1> SUFFICES ASSUME TInv, [Next]_vars PROVE TInv'
    OBVIOUS
<1>1. CASE ClockMoves \/ UNCHANGED vars
    <2>1. UNCHANGED <<dirs, sym, mtime, writers, pc, op, todo, seen>> /\ clock' \in 0..MaxClock
        BY <1>1, StoreAssumption DEF ClockMoves, vars, storeVars, jobVars, TInv
    <2>2. JobsTyped' /\ \A j \in Jobs : JobTypeOK(j)' /\ Entry(j)' = Entry(j)
        BY <2>1 DEF TInv, JobsTyped, JobTypeOK, Entry, Removing
    <2> QED
        BY <2>1, <2>2 DEF TInv
<1> QED
    BY <1>1, UploadTInv, PruneTInv, RemovalTInv, DieTInv DEF Next

\* Type correctness of the store: no file without its directory, no file open
\* but for those about to write it.
THEOREM StoreTypeOK == Spec => []TypeOK
<1>1. TInv => TypeOK
    <2> SUFFICES ASSUME TInv PROVE TypeOK
        OBVIOUS
    <2>1. \A b \in Builds : \A j \in writers[b] : j \in Jobs
        BY DEF TInv
    <2> QED
        BY <2>1 DEF TInv, TypeOK, Versions, At, JobTypeOK
<1> QED
    BY InitTInv, StepTInv, <1>1, PTL DEF Spec

--------------------------------------------------------------------------------
(* What a prune leaves *)

\* Versions found no older than v that the removals still to come do not touch.
Staying(j, v) ==
    {w \in seen[j] : /\ w.at >= v.at /\ sym[w.build] # "none"
                     /\ \A i \in DOMAIN todo[j] : todo[j][i] # w.build}

\* A listing that no removal has run into: what it has found is there, once
\* each, and not what it has still to look at.
Listing(j) ==
    /\ \A v \in seen[j] : sym[v.build] # "none"
    /\ \A v, w \in seen[j] : v.build = w.build => v = w
    /\ \A v \in seen[j] : \A i \in DOMAIN todo[j] : todo[j][i] # v.build
    /\ \A i, k \in DOMAIN todo[j] : todo[j][i] = todo[j][k] => i = k

\* Each removal still to come is of a version found, with enough of the newer.
Planned(j) ==
    \A i \in DOMAIN todo[j] :
        \E v \in seen[j] : v.build = todo[j][i] /\ Cardinality(Staying(j, v)) >= Keep

LoneOK(j) ==
    /\ j \in Jobs /\ op[j] = "prune"
    /\ \A k \in Jobs \ {j} : ~Removing(k)
    /\ pc[j] \in {"exists", "stat"} => Listing(j)
    /\ pc[j] \in {"unlink", "rmdir"} => Planned(j)

LoneInv == \A j \in lone : LoneOK(j)

LEMMA InitLone == Init => LoneInv
BY DEF Init, LoneInv

\* Of finitely many, more are no fewer.
LEMMA MoreStay ==
    ASSUME NEW F, IsFiniteSet(F), NEW T, T \subseteq F, NEW S, S \subseteq T,
           NEW m \in Nat, Cardinality(S) >= m
    PROVE  Cardinality(T) >= m
<1>1. IsFiniteSet(T)
    BY FS_Subset
<1>2. IsFiniteSet(S) /\ Cardinality(S) <= Cardinality(T)
    BY <1>1, FS_Subset
<1>3. Cardinality(S) \in Nat /\ Cardinality(T) \in Nat
    BY <1>1, <1>2, FS_CardinalityType
<1> QED
    BY <1>2, <1>3

\* Of a version beyond those to keep, enough of the later ones stay: those after
\* the last version that goes.
LEMMA KeptEnough ==
    ASSUME NEW versions \in SUBSET Found, IsFiniteSet(versions), NEW u \in BeyondKeep(versions)
    PROVE  Cardinality({w \in versions \ BeyondKeep(versions) : Before(u, w)}) >= Keep
<1> DEFINE after(v) == {w \in versions : Before(v, w)}
           T == {after(v) : v \in BeyondKeep(versions)}
           R == StrictSubsetOrdering(versions)
<1>1. \A v \in Found : v.build \in Nat /\ v.at \in Nat
    <2>1. \A v \in Found : v.build \in Builds /\ v.at \in 0..MaxClock
        BY DEF Found
    <2>2. Builds \subseteq Nat /\ MaxClock \in Nat
        BY StoreAssumption
    <2>3. \A a \in 0..MaxClock : a \in Nat
        BY <2>2
    <2> QED
        BY <2>1, <2>2, <2>3
<1>2. BeyondKeep(versions) = {v \in versions : Cardinality(after(v)) >= Keep}
    BY DEF BeyondKeep
<1>3. \A v \in versions : after(v) \in SUBSET versions /\ v \notin after(v)
    BY <1>1 DEF Before
<1>4. \A v, w \in versions : Before(v, w) => after(w) \subseteq after(v)
    <2> SUFFICES ASSUME NEW v \in versions, NEW w \in versions, NEW x \in versions, Before(v, w), Before(w, x)
                 PROVE  Before(v, x)
        OBVIOUS
    <2>1. /\ v.build \in Nat /\ v.at \in Nat /\ w.build \in Nat /\ w.at \in Nat
          /\ x.build \in Nat /\ x.at \in Nat
        BY <1>1
    <2> QED
        BY <2>1 DEF Before
<1>5. IsWellFoundedOn(R, FiniteSubsetsOf(versions))
    BY FS_StrictSubsetOrderingWellFounded
<1>6. T \subseteq FiniteSubsetsOf(versions) /\ T # {}
    <2>1. \A v \in BeyondKeep(versions) : v \in versions
        BY <1>2
    <2>2. \A S \in SUBSET versions : S \in FiniteSubsetsOf(versions)
        BY FS_Subset DEF FiniteSubsetsOf
    <2> QED
        BY <1>3, <2>1, <2>2
<1>7. ASSUME NEW v \in versions, NEW w \in after(v) PROVE <<after(w), after(v)>> \in R
    <2>1. w \in versions /\ Before(v, w)
        BY <1>7
    <2>2. after(w) \in SUBSET versions /\ after(v) \in SUBSET versions /\ after(w) \subseteq after(v)
        BY <1>3, <1>4, <2>1
    <2>3. w \in after(v) /\ w \notin after(w)
        BY <1>3, <1>7, <2>1
    <2> HIDE DEF after
    <2> QED
        BY <2>2, <2>3 DEF StrictSubsetOrdering
<1> HIDE DEF R, T
<1>8. PICK low \in T : \A other \in T : ~ (<<other, low>> \in R)
    BY <1>5, <1>6, WFMin
<1>9. PICK last \in BeyondKeep(versions) : low = after(last)
    BY <1>8 DEF T
<1>10. \A w \in BeyondKeep(versions) : after(w) \in T
    BY DEF T
<1>11. last \in versions /\ Cardinality(after(last)) >= Keep
    BY <1>2
<1>12. after(last) \subseteq versions \ BeyondKeep(versions)
    <2> SUFFICES ASSUME NEW w \in after(last) PROVE w \in versions /\ w \notin BeyondKeep(versions)
        OBVIOUS
    <2>1. <<after(w), after(last)>> \in R
        BY <1>7, <1>11
    <2> QED
        BY <1>8, <1>9, <1>10, <2>1
<1>13. after(last) \subseteq after(u)
    <2>1. u \in versions /\ u.build \in Nat /\ u.at \in Nat /\ last.build \in Nat /\ last.at \in Nat
        BY <1>1, <1>2, <1>11
    <2>2. u = last \/ Before(u, last) \/ Before(last, u)
        <3>1. u.build = last.build /\ u.at = last.at => u = last
            BY <1>11, <2>1 DEF Found
        <3> QED
            BY <2>1, <3>1 DEF Before
    <2>3. ~Before(last, u)
        BY <1>12, <2>1
    <2> QED
        BY <1>4, <1>11, <2>1, <2>2, <2>3
<1>14. PICK T2 : T2 = {w \in versions \ BeyondKeep(versions) : Before(u, w)}
    OBVIOUS
<1>15. after(last) \subseteq T2 /\ T2 \subseteq versions
    BY <1>12, <1>13, <1>14
<1> HIDE DEF after
<1> QED
    BY <1>11, <1>14, <1>15, MoreStay, StoreAssumption

\* What stays is enough after a step that only shortens the plan and removes
\* nothing but its first.
LEMMA PlannedKept ==
    ASSUME TInv, NEW j \in Jobs, Planned(j), seen'[j] = seen[j],
           \A i \in DOMAIN todo'[j] : \E k \in DOMAIN todo[j] : todo'[j][i] = todo[j][k],
           \A b \in Builds : sym[b] # "none" /\ (\A i \in DOMAIN todo[j] : todo[j][i] # b) => sym'[b] # "none"
    PROVE  Planned(j)'
<1>1. seen[j] \subseteq Found /\ IsFiniteSet(seen[j])
    BY DEF TInv, JobsTyped, FoundSets
<1>2. ASSUME NEW i \in DOMAIN todo'[j]
      PROVE  \E v \in seen[j] : v.build = todo'[j][i] /\ Cardinality(Staying(j, v)') >= Keep
    <2>1. PICK k \in DOMAIN todo[j] : todo'[j][i] = todo[j][k]
        BY <1>2
    <2>2. PICK v \in seen[j] : v.build = todo[j][k] /\ Cardinality(Staying(j, v)) >= Keep
        BY DEF Planned
    <2>3. PICK S, T, F : S = Staying(j, v) /\ T = Staying(j, v)' /\ F = seen[j]
        OBVIOUS
    <2>4. \A w \in seen[j] : w.build \in Builds
        BY <1>1 DEF Found
    <2>5. S \subseteq T /\ T \subseteq F
        BY <2>3, <2>4 DEF Staying
    <2>6. Cardinality(T) >= Keep
        BY <1>1, <2>2, <2>3, <2>5, MoreStay, StoreAssumption
    <2> QED
        BY <2>1, <2>2, <2>3, <2>6
<1> QED
    BY <1>2 DEF Planned

\* A step of another job that removes nothing.
LEMMA LoneKept ==
    ASSUME TInv, TInv', NEW j, LoneOK(j), op'[j] = op[j], pc'[j] = pc[j], todo'[j] = todo[j],
           seen'[j] = seen[j], \A k \in Jobs \ {j} : op'[k] \notin {"prune", "delete"},
           \A b \in Builds : sym[b] # "none" => sym'[b] # "none"
    PROVE  LoneOK(j)'
<1>1. j \in Jobs /\ op'[j] = "prune" /\ \A k \in Jobs \ {j} : ~Removing(k)'
    BY DEF LoneOK, Removing
<1>2. ASSUME pc'[j] \in {"exists", "stat"} PROVE Listing(j)'
    <2>1. Listing(j)
        BY <1>2 DEF LoneOK
    <2>2. \A v \in seen[j] : v.build \in Builds
        BY <1>1 DEF TInv, JobsTyped, FoundSets, Found
    <2> QED
        BY <2>1, <2>2 DEF Listing
<1>3. ASSUME pc'[j] \in {"unlink", "rmdir"} PROVE Planned(j)'
    <2>1. Planned(j)
        BY <1>3 DEF LoneOK
    <2> QED
        BY <1>1, <2>1, PlannedKept
<1> QED
    BY <1>1, <1>2, <1>3 DEF LoneOK

LEMMA TailAt ==
    ASSUME NEW S, NEW s \in Seq(S), s # <<>>
    PROVE  /\ 1 \in DOMAIN s /\ Head(s) = s[1]
           /\ \A i \in DOMAIN Tail(s) : i \in Nat /\ i + 1 \in DOMAIN s /\ i + 1 # 1 /\ Tail(s)[i] = s[i + 1]
OBVIOUS

\* The prune itself lists and looks.
LEMMA LoneLists ==
    ASSUME TInv, NEW j \in Jobs, LoneOK(j) \/ BeginPrune(j), BeginPrune(j) \/ LookAt(j) \/ StatSym(j), j \in lone',
           pc'[j] \in {"exists", "stat"}
    PROVE  Listing(j)'
<1>1. JobsTyped /\ JobTypeOK(j)
    BY DEF TInv
<1>2. CASE BeginPrune(j)
    <2>1. PICK listing \in SetToSeqs(dirs) : Begin(j, "prune", "exists", listing)
        BY <1>2 DEF BeginPrune
    <2>2. todo'[j] = listing /\ seen'[j] = {}
        BY <1>1, <2>1 DEF Begin, At, JobsTyped, JobTypeOK
    <2>3. \A i, k \in DOMAIN listing : listing[i] = listing[k] => i = k
        BY <2>1, Listings DEF TInv
    <2> QED
        BY <2>2, <2>3 DEF Listing
<1>3. ASSUME LoneOK(j), LookAt(j) \/ StatSym(j)
      PROVE  Listing(j) /\ todo[j] \in Seq(Builds) /\ todo[j] # <<>> /\ UNCHANGED sym
    BY <1>1, <1>3 DEF LookAt, StatSym, At, LoneOK, JobTypeOK, storeVars
<1>4. ASSUME LoneOK(j), LookAt(j) \/ StatSym(j), todo'[j] = Tail(todo[j])
      PROVE  /\ \A i, k \in DOMAIN todo'[j] : todo'[j][i] = todo'[j][k] => i = k
             /\ \A i \in DOMAIN todo'[j] : todo'[j][i] # Entry(j)
             /\ \A v \in seen[j] : \A i \in DOMAIN todo'[j] : todo'[j][i] # v.build
    <2>1. Listing(j) /\ todo[j] \in Seq(Builds) /\ todo[j] # <<>>
        BY <1>3, <1>4
    <2>2. PICK s \in Seq(Builds) : s = todo[j]
        BY <2>1
    <2>3. /\ 1 \in DOMAIN s /\ Entry(j) = s[1]
          /\ \A i \in DOMAIN Tail(s) : i \in Nat /\ i + 1 \in DOMAIN s /\ i + 1 # 1 /\ Tail(s)[i] = s[i + 1]
        BY <2>1, <2>2, TailAt DEF Entry
    <2>4. /\ \A v \in seen[j] : \A i \in DOMAIN s : s[i] # v.build
          /\ \A i, k \in DOMAIN s : s[i] = s[k] => i = k
        BY <2>1, <2>2 DEF Listing
    <2>5. todo'[j] = Tail(s)
        BY <1>4, <2>2
    <2>6. ASSUME NEW i \in DOMAIN Tail(s), NEW k \in DOMAIN Tail(s), Tail(s)[i] = Tail(s)[k] PROVE i = k
        <3>1. i + 1 = k + 1 /\ i \in Nat /\ k \in Nat
            BY <2>3, <2>4, <2>6
        <3> QED
            BY <3>1
    <2>7. \A i \in DOMAIN Tail(s) : Tail(s)[i] # s[1]
        BY <2>3, <2>4
    <2>8. \A v \in seen[j] : \A i \in DOMAIN Tail(s) : Tail(s)[i] # v.build
        BY <2>3, <2>4
    <2> QED
        BY <2>3, <2>5, <2>6, <2>7, <2>8
<1>5. CASE LoneOK(j) /\ LookAt(j)
    <2>1. seen' = seen /\ UNCHANGED sym /\ Listing(j)
        BY <1>3, <1>5 DEF LookAt
    <2>2. CASE UNCHANGED todo
        BY <2>1, <2>2 DEF Listing
    <2>3. CASE NextEntry(j)
        <3>1. todo'[j] = Tail(todo[j])
            BY <1>1, <2>3 DEF NextEntry, JobsTyped
        <3> QED
            BY <1>4, <1>5, <2>1, <3>1 DEF Listing
    <2> QED
        BY <1>5, <2>2, <2>3 DEF LookAt
<1>6. CASE LoneOK(j) /\ StatSym(j)
    <2>1. ~Ends(j)
        BY DEF Ends
    <2>2. UNCHANGED sym /\ Listing(j) /\ sym[Entry(j)] # "none"
        BY <1>3, <1>6, <2>1 DEF StatSym
    <2>3. PICK v : v = [build |-> Entry(j), at |-> mtime[Entry(j)]]
        OBVIOUS
    <2>4. v.build = Entry(j)
        BY <2>3
    <2>5. seen'[j] = seen[j] \cup {v} /\ todo'[j] = Tail(todo[j])
        BY <1>1, <1>6, <2>1, <2>3 DEF StatSym, NextEntry, JobsTyped
    <2>6. \A w \in seen[j] : w.build # v.build
        <3>1. todo[j] \in Seq(Builds) /\ todo[j] # <<>>
            BY <1>3, <1>6
        <3>2. 1 \in DOMAIN todo[j] /\ Entry(j) = todo[j][1]
            BY <3>1, TailAt DEF Entry
        <3> QED
            BY <2>2, <2>4, <3>2 DEF Listing
    <2>7. \A w \in seen'[j] : sym'[w.build] # "none"
        BY <2>2, <2>4, <2>5 DEF Listing
    <2>8. \A w, x \in seen'[j] : w.build = x.build => w = x
        BY <2>2, <2>5, <2>6 DEF Listing
    <2>9. \A w \in seen'[j] : \A i \in DOMAIN todo'[j] : todo'[j][i] # w.build
        BY <1>4, <1>6, <2>4, <2>5
    <2>10. \A i, k \in DOMAIN todo'[j] : todo'[j][i] = todo'[j][k] => i = k
        BY <1>4, <1>6, <2>5
    <2> QED
        BY <2>7, <2>8, <2>9, <2>10 DEF Listing
<1> QED
    BY <1>2, <1>5, <1>6

\* The plan leaves enough of what is there.
LEMMA LonePlans ==
    ASSUME TInv, NEW j \in Jobs, LoneOK(j), PlanRemovals(j)
    PROVE  Planned(j)'
<1>1. /\ JobsTyped /\ JobTypeOK(j) /\ pc[j] = "exists" /\ Listing(j) /\ sym' = sym /\ seen' = seen
    BY DEF TInv, PlanRemovals, At, storeVars, LoneOK
<1>2. PICK versions : versions = seen[j]
    OBVIOUS
<1>3. PICK gone : gone = BeyondKeep(versions)
    OBVIOUS
<1>4. versions \in SUBSET Found /\ IsFiniteSet(versions) /\ gone \subseteq versions
    BY <1>1, <1>2, <1>3 DEF JobsTyped, FoundSets, BeyondKeep
<1>5. PICK plan \in SetToSeqs(gone) : todo' = [todo EXCEPT ![j] = [i \in DOMAIN plan |-> plan[i].build]]
    BY <1>2, <1>3 DEF PlanRemovals
<1>6. todo'[j] = [i \in DOMAIN plan |-> plan[i].build]
    BY <1>1, <1>5 DEF JobsTyped
<1>7. plan \in Seq(gone)
    BY <1>4, <1>5, FS_Subset, Listings
<1>8. ASSUME NEW u \in gone PROVE Cardinality(Staying(j, u)') >= Keep
    <2>1. PICK S : S = {w \in versions \ gone : Before(u, w)}
        OBVIOUS
    <2>2. Cardinality(S) >= Keep
        BY <1>3, <1>4, <2>1, KeptEnough
    <2>3. ASSUME NEW w \in S PROVE w \in Staying(j, u)'
        <3>1. w \in versions \ gone /\ Before(u, w)
            BY <2>1
        <3>2. sym'[w.build] # "none"
            BY <1>1, <1>2, <3>1 DEF Listing
        <3>3. ASSUME NEW i \in DOMAIN plan, plan[i].build = w.build PROVE FALSE
            <4>1. plan[i] \in gone
                BY <1>7, <3>3
            <4>2. plan[i] = w
                BY <1>1, <1>2, <1>4, <3>1, <3>3, <4>1 DEF Listing
            <4> QED
                BY <3>1, <4>1, <4>2
        <3>4. \A i \in DOMAIN todo'[j] : todo'[j][i] # w.build
            BY <1>6, <3>3
        <3>5. w.at >= u.at
            <4>1. w \in Found /\ u \in Found
                BY <1>4, <3>1
            <4>2. w.at \in Nat /\ u.at \in Nat
                BY <4>1, StoreAssumption DEF Found
            <4> QED
                BY <3>1, <4>2 DEF Before
        <3> QED
            BY <1>1, <1>2, <3>1, <3>2, <3>4, <3>5 DEF Staying
    <2>4. PICK T : T = Staying(j, u)'
        OBVIOUS
    <2>5. S \subseteq T /\ T \subseteq versions
        BY <1>1, <1>2, <2>3, <2>4 DEF Staying
    <2> QED
        BY <1>4, <2>2, <2>4, <2>5, MoreStay, StoreAssumption
<1>9. ASSUME NEW i \in DOMAIN todo'[j]
      PROVE  \E v \in seen'[j] : v.build = todo'[j][i] /\ Cardinality(Staying(j, v)') >= Keep
    <2>1. i \in DOMAIN plan /\ todo'[j][i] = plan[i].build
        BY <1>6, <1>9
    <2>2. plan[i] \in gone
        BY <1>7, <2>1
    <2> QED
        BY <1>1, <1>2, <1>4, <1>8, <2>1, <2>2
<1> QED
    BY <1>9 DEF Planned

\* A removal takes what was not to stay.
LEMMA LoneRemoves ==
    ASSUME TInv, NEW j \in Jobs, LoneOK(j), UnlinkSym(j) \/ RemoveDir(j), j \in lone'
    PROVE  Planned(j)'
<1>1. /\ JobsTyped /\ JobTypeOK(j) /\ pc[j] \in {"unlink", "rmdir"} /\ todo[j] # <<>>
      /\ todo[j] \in Seq(Builds)
    BY DEF TInv, UnlinkSym, RemoveDir, At, JobTypeOK
<1>2. Planned(j) /\ ~Ends(j)
    BY <1>1 DEF LoneOK, Ends
<1>3. /\ 1 \in DOMAIN todo[j] /\ Entry(j) = todo[j][1]
      /\ \A i \in DOMAIN Tail(todo[j]) : i + 1 \in DOMAIN todo[j] /\ Tail(todo[j])[i] = todo[j][i + 1]
    BY <1>1, TailAt DEF Entry
<1>4. CASE UnlinkSym(j)
    <2>1. todo' = todo /\ seen' = seen /\ \A c \in Builds : c # Entry(j) => sym'[c] = sym[c]
        BY <1>2, <1>4 DEF UnlinkSym, TInv
    <2> QED
        BY <1>2, <1>3, <2>1, PlannedKept
<1>5. CASE RemoveDir(j)
    <2>1. sym' = sym /\ seen' = seen /\ todo'[j] = Tail(todo[j])
        BY <1>1, <1>2, <1>5 DEF RemoveDir, NextEntry, JobsTyped
    <2> QED
        BY <1>2, <1>3, <2>1, PlannedKept
<1> QED
    BY <1>4, <1>5

\* Only a removal makes a version go.
LEMMA OnlyUnlink ==
    ASSUME TInv, NEW k \in Jobs, Upload(k) \/ Prune(k) \/ Removal(k) \/ Die(k), ~UnlinkSym(k)
    PROVE  \A b \in Builds : sym[b] # "none" => sym'[b] # "none"
<1>1. CASE OpenSym(k) \/ WriteSym(k)
    <2>1. PICK e : e = Entry(k)
        OBVIOUS
    <2>2. sym' = sym \/ sym' = [sym EXCEPT ![e] = "stored"]
        BY <1>1, <2>1 DEF OpenSym, WriteSym
    <2> QED
        BY <2>2 DEF TInv
<1>2. CASE Die(k)
    BY <1>2 DEF Die
<1>3. CASE BeginUpload(k) \/ EntryFails(k) \/ MakeDir(k) \/ UploadDone(k)
    BY <1>3 DEF BeginUpload, EntryFails, MakeDir, UploadDone, Begin, storeVars
<1>4. CASE Prune(k) \/ BeginDelete(k) \/ RemoveDir(k) \/ RemovalsDone(k)
    BY <1>4 DEF Prune, BeginPrune, LookAt, StatSym, PlanRemovals, BeginDelete, RemoveDir, RemovalsDone,
                Begin, storeVars
<1> QED
    BY <1>1, <1>2, <1>3, <1>4 DEF Upload, Removal

\* Steps of a job k leave the others, and end its being alone, if it begins to
\* remove something; it goes on from what it is to what it is or to nothing.
LEMMA JobShape ==
    ASSUME TInv, NEW k \in Jobs, Upload(k) \/ Prune(k) \/ Removal(k) \/ Die(k)
    PROVE  /\ Apart(k)
           /\ \/ op'[k] \in {op[k], "none", "add", "archive"} /\ lone' \subseteq lone
              \/ BeginPrune(k)
              \/ lone' = {}
<1>1. JobsTyped
    BY DEF TInv
<1>2. ASSUME Ends(k) PROVE Apart(k) /\ op'[k] = "none" /\ lone' \subseteq lone
    BY <1>1, <1>2 DEF Ends, Goes, Apart, JobsTyped
<1>3. ASSUME NEW name, NEW label, NEW work, Begin(k, name, label, work) PROVE Apart(k) /\ op'[k] = name
    BY <1>1, <1>3 DEF Begin, Goes, Apart, JobsTyped
<1>4. ASSUME SkipEntry(k) PROVE Apart(k) /\ op'[k] \in {op[k], "none"} /\ lone' \subseteq lone
    BY <1>1, <1>2, <1>4 DEF SkipEntry, Goes, NextEntry, Apart, JobsTyped
<1>5. CASE BeginUpload(k)
    <2>1. PICK work \in Uploads : Begin(k, IF Len(work) = 1 THEN "add" ELSE "archive", "mkdir", work)
        BY <1>5 DEF BeginUpload
    <2>2. PICK name \in {"add", "archive"} : name = IF Len(work) = 1 THEN "add" ELSE "archive"
        OBVIOUS
    <2> QED
        BY <1>3, <1>5, <2>1, <2>2 DEF BeginUpload
<1>6. CASE BeginPrune(k)
    BY <1>3, <1>6 DEF BeginPrune
<1>7. CASE BeginDelete(k)
    BY <1>3, <1>7 DEF BeginDelete
<1>8. CASE EntryFails(k) \/ OpenSym(k) \/ UploadDone(k) \/ Die(k) \/ RemovalsDone(k)
    <2>1. CASE SkipEntry(k) \/ Ends(k)
        BY <1>2, <1>4, <2>1
    <2>2. CASE ~(SkipEntry(k) \/ Ends(k))
        BY <1>1, <1>8, <2>2 DEF EntryFails, OpenSym, UploadDone, Die, RemovalsDone, Goes, Apart, JobsTyped
    <2> QED
        BY <2>1, <2>2
<1>9. CASE MakeDir(k) \/ WriteSym(k)
    BY <1>1, <1>9 DEF MakeDir, WriteSym, Goes, NextEntry, Apart, JobsTyped
<1>10. CASE LookAt(k) \/ StatSym(k)
    BY <1>1, <1>2, <1>10 DEF LookAt, StatSym, Goes, NextEntry, Apart, JobsTyped
<1>11. CASE PlanRemovals(k)
    <2>1. PICK work : todo' = [todo EXCEPT ![k] = work]
        BY <1>11 DEF PlanRemovals
    <2> QED
        BY <1>1, <1>11, <2>1 DEF PlanRemovals, Goes, Apart, JobsTyped
<1>12. CASE UnlinkSym(k) \/ RemoveDir(k)
    BY <1>1, <1>2, <1>12 DEF UnlinkSym, RemoveDir, Goes, NextEntry, Apart, JobsTyped
<1> QED
    BY <1>5, <1>6, <1>7, <1>8, <1>9, <1>10, <1>11, <1>12 DEF Upload, Prune, Removal

\* The prune that is alone goes on.
LEMMA LoneOwn ==
    ASSUME TInv, TInv', NEW j \in Jobs, LoneOK(j), j \in lone',
           Upload(j) \/ Prune(j) \/ Removal(j) \/ Die(j)
    PROVE  LoneOK(j)'
<1>1. op[j] = "prune" /\ JobTypeOK(j) /\ JobsTyped /\ \A k \in Jobs \ {j} : op[k] \notin {"prune", "delete"}
    BY DEF LoneOK, TInv, Removing
<1>2. ~Ends(j)
    BY DEF Ends
<1>3. pc[j] \notin {"idle", "mkdir", "open", "write"}
    BY <1>1 DEF JobTypeOK
<1>4. LookAt(j) \/ StatSym(j) \/ PlanRemovals(j) \/ UnlinkSym(j) \/ RemoveDir(j)
    <2>1. ~Upload(j)
        BY <1>3 DEF Upload, BeginUpload, EntryFails, MakeDir, OpenSym, WriteSym, UploadDone, Begin, At
    <2>2. ~BeginPrune(j) /\ ~BeginDelete(j)
        BY <1>3 DEF BeginPrune, BeginDelete, Begin, At
    <2>3. ~RemovalsDone(j) /\ ~Die(j)
        BY <1>2 DEF RemovalsDone, Die
    <2> QED
        BY <2>1, <2>2, <2>3 DEF Prune, Removal
<1>5. op' = op
    BY <1>2, <1>4 DEF LookAt, StatSym, PlanRemovals, UnlinkSym, RemoveDir
<1>6. /\ op'[j] = "prune" /\ \A k \in Jobs \ {j} : ~Removing(k)'
    BY <1>1, <1>5 DEF Removing
<1>7. CASE LookAt(j) \/ StatSym(j)
    <2>1. pc'[j] \in {"exists", "stat"}
        BY <1>1, <1>2, <1>7 DEF LookAt, StatSym, At, Goes, JobsTyped
    <2>2. Listing(j)'
        BY <1>7, <2>1, LoneLists
    <2> QED
        BY <1>6, <2>1, <2>2 DEF LoneOK
<1>8. CASE PlanRemovals(j) \/ UnlinkSym(j) \/ RemoveDir(j)
    <2>1. pc'[j] \in {"unlink", "rmdir"}
        BY <1>1, <1>2, <1>8 DEF PlanRemovals, UnlinkSym, RemoveDir, Goes, JobsTyped
    <2>2. Planned(j)'
        BY <1>8, LonePlans, LoneRemoves
    <2> QED
        BY <1>6, <2>1, <2>2 DEF LoneOK
<1> QED
    BY <1>4, <1>7, <1>8

LEMMA StepLone == TInv /\ LoneInv /\ [Next]_vars => LoneInv'
<1> SUFFICES ASSUME TInv, LoneInv, [Next]_vars, NEW j, j \in lone' PROVE LoneOK(j)'
    BY DEF LoneInv
<1>0. TInv'
    BY StepTInv
<1>1. CASE ClockMoves \/ UNCHANGED vars
    <2>1. UNCHANGED <<dirs, sym, mtime, writers, pc, op, todo, seen, lone>>
        BY <1>1 DEF ClockMoves, vars, storeVars, jobVars
    <2>2. LoneOK(j)
        BY <2>1 DEF LoneInv
    <2>3. \A k \in Jobs \ {j} : op'[k] \notin {"prune", "delete"}
        BY <2>1, <2>2 DEF LoneOK, Removing
    <2> QED
        BY <1>0, <2>1, <2>2, <2>3, LoneKept
<1>2. ASSUME NEW k \in Jobs, Upload(k) \/ Prune(k) \/ Removal(k) \/ Die(k) PROVE LoneOK(j)'
    <2>1. /\ Apart(k)
          /\ \/ op'[k] \in {op[k], "none", "add", "archive"} /\ lone' \subseteq lone
             \/ BeginPrune(k)
        BY <1>2, JobShape
    <2>2. CASE BeginPrune(k)
        <3>1. j = k /\ \A i \in Jobs : ~Removing(i)
            BY <2>2 DEF BeginPrune
        <3>2. PICK listing : Begin(j, "prune", "exists", listing)
            BY <2>2, <3>1 DEF BeginPrune
        <3>3. op'[j] = "prune" /\ pc'[j] = "exists"
            BY <3>1, <3>2 DEF Begin, Goes, TInv, JobsTyped
        <3>4. Listing(j)'
            BY <2>2, <3>1, <3>3, LoneLists
        <3>5. \A i \in Jobs \ {j} : ~Removing(i)'
            BY <2>1, <3>1 DEF Apart, Removing
        <3> QED
            BY <3>1, <3>3, <3>4, <3>5 DEF LoneOK
    <2>3. CASE ~BeginPrune(k)
        <3>1. LoneOK(j) /\ op'[k] \in {op[k], "none", "add", "archive"}
            BY <2>1, <2>3 DEF LoneInv
        <3>2. CASE k = j
            BY <1>0, <1>2, <3>1, <3>2, LoneOwn
        <3>3. CASE k # j
            <4>1. j \in Jobs /\ op[k] \notin {"prune", "delete"}
                BY <3>1, <3>3 DEF LoneOK, Removing
            <4>2. ~UnlinkSym(k)
                BY <4>1 DEF UnlinkSym, At, TInv, JobTypeOK, Removing
            <4>3. \A b \in Builds : sym[b] # "none" => sym'[b] # "none"
                BY <1>2, <4>2, OnlyUnlink
            <4>4. \A i \in Jobs \ {j} : op'[i] \notin {"prune", "delete"}
                BY <2>1, <3>1, <4>1 DEF LoneOK, Removing, Apart
            <4> QED
                BY <1>0, <2>1, <3>1, <3>3, <4>1, <4>3, <4>4, LoneKept DEF Apart
        <3> QED
            BY <3>2, <3>3
    <2> QED
        BY <2>2, <2>3
<1> QED
    BY <1>1, <1>2 DEF Next

\* A prune removes only what it has found, and leaves at least keep of what it
\* has found no older, whatever uploads run into it (prune, cmd_prune).
THEOREM StorePruneLeavesKeep == Spec => PruneLeavesKeep
<1>1. ASSUME TInv, TInv', LoneInv, [Next]_vars
      PROVE  [\A j \in lone, b \in Builds :
                 At(j, "unlink") /\ sym[b] # "none" /\ sym'[b] = "none" =>
                     \E v \in seen[j] :
                         /\ v.build = b
                         /\ Cardinality({w \in seen[j] : w.at >= v.at /\ sym'[w.build] # "none"}) >= Keep]_vars
    <2> SUFFICES ASSUME NEW j \in lone, NEW b \in Builds, At(j, "unlink"), sym[b] # "none", sym'[b] = "none"
                 PROVE  \E v \in seen[j] :
                            /\ v.build = b
                            /\ Cardinality({w \in seen[j] : w.at >= v.at /\ sym'[w.build] # "none"}) >= Keep
        OBVIOUS
    <2>1. PICK k \in Jobs : UnlinkSym(k)
        BY <1>1, OnlyUnlink DEF Next, ClockMoves, vars, storeVars
    <2>2. LoneOK(j) /\ j \in Jobs /\ pc[j] = "unlink"
        BY <1>1 DEF LoneInv, LoneOK, At
    <2>3. Removing(k) /\ todo[k] # <<>>
        BY <1>1, <2>1 DEF UnlinkSym, At, TInv, JobTypeOK
    <2>4. k = j
        BY <2>2, <2>3 DEF LoneOK
    <2>5. 1 \in DOMAIN todo[j] /\ Entry(j) = todo[j][1]
        <3>1. todo[j] \in Seq(Builds)
            BY <1>1, <2>2 DEF TInv, JobTypeOK
        <3> QED
            BY <2>3, <2>4, <3>1, TailAt DEF Entry
    <2>6. \A c \in Builds : c # Entry(j) => sym'[c] = sym[c]
        BY <1>1, <2>1, <2>4 DEF UnlinkSym, TInv
    <2>7. b = Entry(j)
        BY <2>6
    <2>8. PICK v \in seen[j] : v.build = b /\ Cardinality(Staying(j, v)) >= Keep
        BY <2>2, <2>5, <2>7 DEF LoneOK, Planned
    <2>9. PICK S, T, F : /\ S = Staying(j, v) /\ F = seen[j]
                         /\ T = {w \in seen[j] : w.at >= v.at /\ sym'[w.build] # "none"}
        OBVIOUS
    <2>10. seen[j] \subseteq Found /\ IsFiniteSet(seen[j])
        BY <1>1, <2>2 DEF TInv, JobsTyped, FoundSets
    <2>11. S \subseteq T
        <3>1. \A w \in seen[j] : w.build \in Builds
            BY <2>10 DEF Found
        <3> QED
            BY <2>5, <2>6, <2>9, <3>1 DEF Staying
    <2>12. Cardinality(T) >= Keep
        BY <2>8, <2>9, <2>10, <2>11, MoreStay, StoreAssumption
    <2> QED
        BY <2>8, <2>9, <2>12
<1> QED
    BY InitTInv, InitLone, StepTInv, StepLone, <1>1, PTL DEF Spec, PruneLeavesKeep
================================================================================
