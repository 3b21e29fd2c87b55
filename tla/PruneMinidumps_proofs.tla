-------------------------- MODULE PruneMinidumps_proofs --------------------------
(***************************************************************************)
(* For any files, sizes, times and limits: what a pass of the pruning loop *)
(* removes, and that its running total is never less than what it has      *)
(* still before it.                                                        *)
(***************************************************************************)
EXTENDS PruneMinidumps, DiskManager_proofs

--------------------------------------------------------------------------------
(* A pass while files come and go *)

\* While the loop walks: its total is at least what it has before it, and if it
\* is more, something was kept and from then on the rest fits.
WalkInv ==
    Walking =>
        /\ next \in 1..(Len(list) + 1) /\ ~NoLimits
        /\ total >= LeftFrom(list, Size, next)
        /\ total = LeftFrom(list, Size, next) \/ ~OverSize(total)

\* What is removed so far is what the uninterrupted pass has removed there.
SoFar ==
    Walking =>
        PrunePass(list, Size, mtime, now)[next - 1] = [total |-> total, removed |-> gone]

Gone ==
    Walking =>
        \A f : f \in ToSet(gone) <=> \E j \in 1..(next - 1) : MustGo(j) /\ f = list[j]

TInv == TypeOK /\ IsFiniteSet(there) /\ clock \in 0..MaxClock /\ WalkInv

IInv == TInv /\ SoFar /\ Gone

PassVars == <<there, mtime, missing, clock>>

\* No pass has begun.
LEMMA InitIInv == Init => IInv
<1> SUFFICES ASSUME Init PROVE IInv
    OBVIOUS
<1>1. IsFiniteSet(there)
    BY FS_EmptySet DEF Init
<1>2. ~Walking
    BY DEF Init, Walking
<1>3. TypeOK /\ clock \in 0..MaxClock
    BY PruneAssumption DEF Init, TypeOK
<1> QED
    BY <1>1, <1>2, <1>3 DEF IInv, TInv, WalkInv, SoFar, Gone

\* A pass that ends, or goes on with the other directory, leaves nothing behind.
LEMMA EndIInv ==
    ASSUME IInv, EndWalk, UNCHANGED PassVars, pc' \in {"idle", "list_exports"},
           status' \in {"ok", "not_found", "internal"}
    PROVE  IInv'
<1>1. ~Walking'
    BY DEF Walking
<1>2. TypeOK' /\ clock' \in 0..MaxClock /\ IsFiniteSet(there')
    BY DEF EndWalk, PassVars, IInv, TInv, TypeOK
<1> QED
    BY <1>1, <1>2 DEF IInv, TInv, WalkInv, SoFar, Gone

\* Files that come, go or are seen at another time, while the pass is wherever
\* it is: none of them changes what the pass has listed.
LEMMA OutsideIInv ==
    ASSUME IInv, SetClock \/ \E f \in Files : Arrive(f) \/ RemovedByHand(f)
    PROVE  IInv'
<1>1. /\ UNCHANGED <<missing, pc, list, next, total, now, gone, status>>
      /\ Walking' <=> Walking
    BY DEF SetClock, Arrive, RemovedByHand, walkVars, Walking
<1>2. TypeOK /\ IsFiniteSet(there) /\ clock \in 0..MaxClock
    BY DEF IInv, TInv
<1>3. /\ TypeOK' /\ IsFiniteSet(there') /\ clock' \in 0..MaxClock
      /\ Walking => \A i \in 1..Len(list) : mtime'[list[i]] = mtime[list[i]]
    <2>1. CASE SetClock
        BY <1>1, <1>2, <2>1, PruneAssumption DEF SetClock, TypeOK
    <2>2. ASSUME NEW f \in Files, Arrive(f)
          PROVE  /\ TypeOK' /\ IsFiniteSet(there') /\ clock' \in 0..MaxClock
                 /\ Walking => \A i \in 1..Len(list) : mtime'[list[i]] = mtime[list[i]]
        <3>1. /\ there' = there \cup {f} /\ mtime' = [mtime EXCEPT ![f] = clock]
              /\ clock' = clock /\ (Walking => f \notin ToSet(list))
            BY <2>2 DEF Arrive
        <3>2. IsFiniteSet(there')
            BY <1>2, <3>1, FS_AddElement
        <3>3. TypeOK'
            BY <1>1, <1>2, <3>1 DEF TypeOK
        <3>4. ASSUME Walking, NEW i \in 1..Len(list) PROVE mtime'[list[i]] = mtime[list[i]]
            <4>1. list[i] \in Files /\ list[i] \in ToSet(list)
                BY <1>2 DEF TypeOK, ToSet
            <4> QED
                BY <1>2, <3>1, <3>4, <4>1 DEF TypeOK
        <3> QED
            BY <1>2, <3>1, <3>2, <3>3, <3>4
    <2>3. ASSUME NEW f \in Files, RemovedByHand(f)
          PROVE  /\ TypeOK' /\ IsFiniteSet(there') /\ clock' \in 0..MaxClock
                 /\ Walking => \A i \in 1..Len(list) : mtime'[list[i]] = mtime[list[i]]
        <3>1. there' = there \ {f} /\ mtime' = mtime /\ clock' = clock
            BY <2>3 DEF RemovedByHand
        <3>2. IsFiniteSet(there')
            BY <1>2, <3>1, FS_RemoveElement
        <3> QED
            BY <1>1, <1>2, <3>1, <3>2 DEF TypeOK
    <2> QED
        BY <2>1, <2>2, <2>3
<1>4. WalkInv'
    BY <1>1 DEF IInv, TInv, WalkInv
<1>5. ASSUME Walking
      PROVE  /\ PrunePass(list, Size, mtime', now)[next - 1] = [total |-> total, removed |-> gone]
             /\ \A f : f \in ToSet(gone) <=> \E j \in 1..(next - 1) : MustGo(j)' /\ f = list[j]
    <2>1. list \in Seq(Files) /\ next - 1 \in 0..Len(list)
        BY <1>2, <1>5 DEF TypeOK, IInv, TInv, WalkInv
    <2>2. \A i \in 1..Len(list) : mtime'[list[i]] = mtime[list[i]]
        BY <1>3, <1>5
    <2>3. PrunePass(list, Size, mtime', now)[next - 1] = PrunePass(list, Size, mtime, now)[next - 1]
        BY <2>1, <2>2, PassOfStamps, PruneAssumption
    <2>4. \A j \in 1..(next - 1) : MustGo(j)' <=> MustGo(j)
        <3>1. \A j \in 1..(next - 1) : j \in 1..Len(list)
            BY <2>1
        <3> QED
            BY <1>1, <2>2, <3>1 DEF MustGo
    <2> QED
        BY <1>5, <2>3, <2>4 DEF IInv, SoFar, Gone
<1> QED
    BY <1>1, <1>3, <1>4, <1>5 DEF IInv, TInv, SoFar, Gone

\* The listing of a directory, its total, and nothing removed yet.
LEMMA BeginIInv ==
    ASSUME IInv, NEW dir, BeginWalk(dir), ~NoLimits
    PROVE  IInv'
<1>0. PICK S \in SUBSET In(dir) : list' \in OldestFirst(S, mtime)
    BY DEF BeginWalk
<1>1. /\ list' \in OldestFirst(S, mtime) /\ next' = 1 /\ gone' = <<>>
      /\ total' = Bytes(list', Size) /\ now' = clock
      /\ pc' \in {"walk_pending", "walk_exports"} /\ UNCHANGED <<there, mtime, missing, clock, status>>
    BY <1>0 DEF BeginWalk
<1>2. list' \in Seq(Files)
    <2>2. S \subseteq Files /\ IsFiniteSet(S)
        <3>1. S \subseteq there
            BY <1>0 DEF In
        <3> QED
            BY <3>1, FS_Subset DEF IInv, TInv, TypeOK
    <2>3. Cardinality(S) \in Nat
        BY <2>2, FS_CardinalityType
    <2>4. list' \in SetToSeqs(S)
        BY <1>1 DEF OldestFirst
    <2>5. PICK D : D = 1..Cardinality(S)
        OBVIOUS
    <2>6. list' \in [D -> S]
        BY <2>4, <2>5 DEF SetToSeqs
    <2> QED
        BY <2>2, <2>3, <2>5, <2>6
<1>3. PICK L : L = list'
    OBVIOUS
<1>4. LeftOK(L, Size) /\ Len(L) \in Nat
    BY <1>2, <1>3, LeftOf, PruneAssumption
<1>5. TypeOK' /\ clock' \in 0..MaxClock /\ IsFiniteSet(there')
    <2>1. total' \in Nat
        BY <1>1, <1>3, <1>4 DEF LeftOK
    <2>2. <<>> \in Seq(Files)
        OBVIOUS
    <2>3. clock \in Nat
        BY DEF IInv, TInv, TypeOK
    <2> QED
        BY <1>1, <1>2, <2>1, <2>2, <2>3 DEF IInv, TInv, TypeOK
<1>6. WalkInv'
    <2>1. total' = LeftFrom(L, Size, 1) /\ total' \in Nat
        BY <1>1, <1>3, <1>4 DEF LeftOK
    <2>2. total' >= LeftFrom(L, Size, 1)
        BY <2>1
    <2>3. next' \in 1..(Len(L) + 1)
        BY <1>1, <1>4
    <2>4. ~NoLimits'
        BY DEF NoLimits
    <2> QED
        BY <1>1, <1>3, <2>1, <2>2, <2>3, <2>4 DEF WalkInv
<1>7. SoFar'
    <2>1. PrunePass(L, Size, mtime', now')[0] = [total |-> Bytes(L, Size), removed |-> <<>>]
        BY <1>2, <1>3, PassOf, PruneAssumption DEF Passes
    <2>2. next' - 1 = 0
        BY <1>1
    <2> QED
        BY <1>1, <1>3, <2>1, <2>2 DEF SoFar
<1>8. Gone'
    <2>1. 1..(next' - 1) = {}
        BY <1>1
    <2>2. ToSet(gone') = {}
        BY <1>1 DEF ToSet
    <2> QED
        BY <2>1, <2>2 DEF Gone
<1> QED
    BY <1>5, <1>6, <1>7, <1>8 DEF IInv, TInv

\* Where the loop is before an entry: what the code tests is what the rest of
\* the listing says.
LEMMA AtEntry ==
    ASSUME IInv, Walking, next <= Len(list)
    PROVE  /\ list \in Seq(Files) /\ next \in 1..Len(list) /\ list[next] \in Files
           /\ LeftFrom(list, Size, next) = Size[list[next]] + LeftFrom(list, Size, next + 1)
           /\ LeftFrom(list, Size, next) \in Nat /\ LeftFrom(list, Size, next + 1) \in Nat
           /\ Size[list[next]] \in Nat /\ total \in Nat /\ gone \in Seq(Files)
           /\ MustGo(next) <=> ~WithinLimits(list[next])
<1>1. list \in Seq(Files) /\ next \in 1..Len(list) /\ total \in Nat /\ gone \in Seq(Files)
    BY DEF IInv, TInv, TypeOK
<1>2. list[next] \in Files
    BY <1>1
<1>3. LeftOK(list, Size)
    BY <1>1, LeftOf, PruneAssumption
<1>4. /\ LeftFrom(list, Size, next) = Size[list[next]] + LeftFrom(list, Size, next + 1)
      /\ LeftFrom(list, Size, next) = Bytes(SubSeq(list, next, Len(list)), Size)
      /\ Size[list[next]] \in Nat
    BY <1>1, <1>3 DEF LeftOK
<1>5. next \in 1..(Len(list) + 1) /\ next + 1 \in 1..(Len(list) + 1)
    BY <1>1
<1>6. LeftFrom(list, Size, next) \in Nat /\ LeftFrom(list, Size, next + 1) \in Nat
    BY <1>3, <1>5 DEF LeftOK
<1>7. /\ total >= LeftFrom(list, Size, next)
      /\ total = LeftFrom(list, Size, next) \/ ~OverSize(total)
    BY DEF IInv, TInv, WalkInv
<1>8. OverSize(total) <=> MaxBytes > 0 /\ LeftFrom(list, Size, next) > MaxBytes
    BY <1>1, <1>6, <1>7, DiskManagerAssumption DEF OverSize
<1>9. MustGo(next) <=> ~WithinLimits(list[next])
    BY <1>4, <1>8 DEF MustGo, WithinLimits, Over
<1> QED
    BY <1>1, <1>2, <1>4, <1>6, <1>9

\* An entry within the limits stays.
LEMMA KeepIInv == ASSUME IInv, Keep PROVE IInv'
<1>1. /\ Walking /\ next <= Len(list) /\ WithinLimits(list[next]) /\ next' = next + 1
      /\ UNCHANGED <<there, mtime, missing, clock, pc, list, total, now, gone, status>>
    BY DEF Keep
<1>2. /\ list \in Seq(Files) /\ next \in 1..Len(list) /\ list[next] \in Files
      /\ LeftFrom(list, Size, next) = Size[list[next]] + LeftFrom(list, Size, next + 1)
      /\ LeftFrom(list, Size, next) \in Nat /\ LeftFrom(list, Size, next + 1) \in Nat
      /\ Size[list[next]] \in Nat /\ total \in Nat /\ gone \in Seq(Files)
      /\ MustGo(next) <=> ~WithinLimits(list[next])
    BY <1>1, AtEntry
<1>3. TypeOK' /\ clock' \in 0..MaxClock /\ IsFiniteSet(there')
    BY <1>1 DEF IInv, TInv, TypeOK
<1>4. WalkInv'
    <2>1. next' \in 1..(Len(list) + 1)
        BY <1>1, <1>2
    <2>2. total >= LeftFrom(list, Size, next) /\ ~NoLimits
        BY <1>1 DEF IInv, TInv, WalkInv
    <2>3. total >= LeftFrom(list, Size, next + 1)
        BY <1>2, <2>2
    <2>4. ~OverSize(total)
        BY <1>1 DEF WithinLimits, Over
    <2> QED
        BY <1>1, <2>1, <2>2, <2>3, <2>4 DEF WalkInv, NoLimits, OverSize
<1>5. SoFar'
    <2>1. PICK after : after = PrunePass(list, Size, mtime, now)
        OBVIOUS
    <2>0. Passes(after, list, Size, mtime, now)
        BY <1>2, <2>1, PassOf, PruneAssumption
    <2>2. /\ after[next] = LoopBody(after[next - 1], list[next], Size, mtime, now)
          /\ after[next - 1] = [total |-> total, removed |-> gone]
        BY <1>1, <1>2, <2>0, <2>1 DEF Passes, IInv, SoFar
    <2>3. after[next] = [total |-> total, removed |-> gone]
        BY <1>1, <2>2 DEF LoopBody, WithinLimits, Over
    <2>4. next' - 1 = next
        BY <1>1, <1>2
    <2> QED
        BY <1>1, <2>1, <2>3, <2>4 DEF SoFar
<1>6. Gone'
    <2>1. /\ next' - 1 = next
          /\ \A j \in 1..next : j \in 1..(next - 1) \/ j = next
        BY <1>1, <1>2
    <2>2. \A j \in 1..next : MustGo(j)' <=> MustGo(j)
        BY <1>1 DEF MustGo
    <2>3. \A j \in 1..(next - 1) : j \in 1..next
        BY <1>2
    <2>4. ~MustGo(next)
        BY <1>1, <1>2
    <2>5. ASSUME NEW f
          PROVE  f \in ToSet(gone) <=> \E j \in 1..next : MustGo(j)' /\ f = list[j]
        <3>1. f \in ToSet(gone) <=> \E j \in 1..(next - 1) : MustGo(j) /\ f = list[j]
            BY <1>1 DEF IInv, Gone
        <3> QED
            BY <2>1, <2>2, <2>3, <2>4, <3>1
    <2> QED
        BY <1>1, <2>1, <2>5 DEF Gone
<1> QED
    BY <1>3, <1>4, <1>5, <1>6 DEF IInv, TInv

\* An entry over a limit goes, and its size off the total.
LEMMA RemoveIInv ==
    ASSUME IInv, Walking, next <= Len(list), ~WithinLimits(list[next]), RemoveEntry(list[next])
    PROVE  IInv'
<1>1. /\ there' = there \ {list[next]} /\ total' = total - Size[list[next]]
      /\ gone' = Append(gone, list[next]) /\ next' = next + 1
      /\ UNCHANGED <<mtime, missing, clock, pc, list, now, status>>
    BY DEF RemoveEntry, TotalWithout
<1>2. /\ list \in Seq(Files) /\ next \in 1..Len(list) /\ list[next] \in Files
      /\ LeftFrom(list, Size, next) = Size[list[next]] + LeftFrom(list, Size, next + 1)
      /\ LeftFrom(list, Size, next) \in Nat /\ LeftFrom(list, Size, next + 1) \in Nat
      /\ Size[list[next]] \in Nat /\ total \in Nat /\ gone \in Seq(Files)
      /\ MustGo(next) <=> ~WithinLimits(list[next])
    BY AtEntry
<1>3. /\ total >= LeftFrom(list, Size, next) /\ ~NoLimits
      /\ total = LeftFrom(list, Size, next) \/ ~OverSize(total)
    BY DEF IInv, TInv, WalkInv
<1>4. /\ total - Size[list[next]] \in Nat
      /\ total - Size[list[next]] >= LeftFrom(list, Size, next + 1)
      /\ total - Size[list[next]] <= total
    BY <1>2, <1>3
<1>5. TypeOK' /\ clock' \in 0..MaxClock /\ IsFiniteSet(there')
    <2>1. IsFiniteSet(there')
        BY <1>1, FS_RemoveElement DEF IInv, TInv
    <2>2. next' \in Nat \ {0} /\ gone' \in Seq(Files)
        BY <1>1, <1>2
    <2> QED
        BY <1>1, <1>4, <2>1, <2>2 DEF IInv, TInv, TypeOK
<1>6. WalkInv'
    <2>1. next' \in 1..(Len(list) + 1)
        BY <1>1, <1>2, SMTT(30)
    <2>2. total' = LeftFrom(list, Size, next + 1) \/ ~OverSize(total')
        <3>1. CASE total = LeftFrom(list, Size, next)
            BY <1>1, <1>2, <3>1
        <3>2. CASE ~OverSize(total)
            BY <1>1, <1>2, <1>4, <3>2, DiskManagerAssumption, SMTT(30) DEF OverSize
        <3> QED
            BY <1>3, <3>1, <3>2
    <2> QED
        BY <1>1, <1>3, <1>4, <2>1, <2>2 DEF WalkInv, NoLimits
<1>7. SoFar'
    <2>1. PICK after : after = PrunePass(list, Size, mtime, now)
        OBVIOUS
    <2>2. Passes(after, list, Size, mtime, now)
        BY <1>2, <2>1, PassOf, PruneAssumption
    <2>3. /\ after[next] = LoopBody(after[next - 1], list[next], Size, mtime, now)
          /\ after[next - 1] = [total |-> total, removed |-> gone]
        BY <1>2, <2>1, <2>2 DEF Passes, IInv, SoFar
    <2>4. OverSize(total) \/ OverAge(now, mtime[list[next]])
        BY DEF WithinLimits, Over
    <2>5. after[next] = [total |-> total - Size[list[next]], removed |-> Append(gone, list[next])]
        BY <2>3, <2>4 DEF LoopBody
    <2>6. next' - 1 = next
        BY <1>1, <1>2
    <2> QED
        BY <1>1, <2>1, <2>5, <2>6 DEF SoFar
<1>8. Gone'
    <2>1. ToSet(gone') = ToSet(gone) \cup {list[next]}
        <3>1. /\ Len(gone') = Len(gone) + 1 /\ Len(gone) \in Nat /\ gone'[Len(gone) + 1] = list[next]
              /\ \A i \in 1..Len(gone) : gone'[i] = gone[i]
              /\ DOMAIN gone = 1..Len(gone) /\ DOMAIN gone' = 1..(Len(gone) + 1)
            BY <1>1, <1>2
        <3> QED
            BY <3>1 DEF ToSet
    <2>2. /\ next' - 1 = next
          /\ \A j \in 1..next : j \in 1..(next - 1) \/ j = next
        BY <1>1, <1>2
    <2>3. \A j \in 1..next : MustGo(j)' <=> MustGo(j)
        BY <1>1 DEF MustGo
    <2>4. next \in 1..next /\ \A j \in 1..(next - 1) : j \in 1..next
        BY <1>2
    <2>5. MustGo(next)
        BY <1>2
    <2>6. ASSUME NEW f
          PROVE  f \in ToSet(gone') <=> \E j \in 1..next : MustGo(j)' /\ f = list[j]
        <3>1. f \in ToSet(gone) <=> \E j \in 1..(next - 1) : MustGo(j) /\ f = list[j]
            BY DEF IInv, Gone
        <3> QED
            BY <2>1, <2>2, <2>3, <2>4, <2>5, <3>1
    <2> QED
        BY <1>1, <2>2, <2>6 DEF Gone
<1> QED
    BY <1>5, <1>6, <1>7, <1>8 DEF IInv, TInv

\* Every call of the pass, and whatever happens around it.
LEMMA StepIInv == IInv /\ [Next]_vars => IInv'
<1> SUFFICES ASSUME IInv, [Next]_vars PROVE IInv'
    OBVIOUS
<1>0. status \in {"ok", "not_found", "internal"}
    BY DEF IInv, TInv, TypeOK
<1>1. CASE UNCHANGED vars
    BY <1>1 DEF vars, walkVars, IInv, TInv, TypeOK, WalkInv, SoFar, Gone, Walking, MustGo
<1>2. CASE SetClock \/ \E f \in Files : Arrive(f) \/ RemovedByHand(f)
    BY <1>2, OutsideIInv
<1>3. CASE Call
    <2>1. ~Walking /\ ~Walking'
        BY <1>3 DEF Call, Walking
    <2>2. TypeOK' /\ clock' \in 0..MaxClock /\ IsFiniteSet(there')
        BY <1>3 DEF Call, walkVars, IInv, TInv, TypeOK
    <2> QED
        BY <2>1, <2>2 DEF IInv, TInv, WalkInv, SoFar, Gone
<1>4. CASE ListPending
    <2>1. CASE NoLimits \/ "pending" \in missing
        BY <1>0, <1>4, <2>1, EndIInv DEF ListPending, PendingDone, Return, PassVars
    <2>2. CASE ~(NoLimits \/ "pending" \in missing) /\ BeginWalk("pending")
        BY <2>2, BeginIInv
    <2>3. CASE ListingFails
        BY <2>3, EndIInv DEF ListingFails, Return, PassVars
    <2> QED
        BY <1>4, <2>1, <2>2, <2>3 DEF ListPending
<1>5. CASE ListExports
    <2>1. CASE NoLimits \/ "exports" \in missing
        BY <1>5, <2>1, EndIInv DEF ListExports, Return, PassVars
    <2>2. CASE ~(NoLimits \/ "exports" \in missing) /\ BeginWalk("exports")
        BY <2>2, BeginIInv
    <2>3. CASE ListingFails
        BY <2>3, EndIInv DEF ListingFails, Return, PassVars
    <2> QED
        BY <1>5, <2>1, <2>2, <2>3 DEF ListExports
<1>6. CASE Keep
    BY <1>6, KeepIInv
<1>7. CASE WalkStep
    <2>1. CASE RemoveEntry(list[next])
        BY <1>7, <2>1, RemoveIInv DEF WalkStep
    <2>2. CASE Return("internal") /\ EndWalk
        BY <2>2, EndIInv DEF Return, PassVars
    <2> QED
        BY <1>7, <2>1, <2>2 DEF WalkStep
<1>8. CASE WalkDone
    BY <1>0, <1>8, EndIInv DEF WalkDone, PendingDone, Return, PassVars
<1> QED
    BY <1>1, <1>2, <1>3, <1>4, <1>5, <1>6, <1>7, <1>8 DEF Next, Pass

\* Every variable keeps to its values; the unsigned total_bytes never goes below
\* zero, whatever the pass meets.
THEOREM PruneTypeOK == Spec => []TypeOK
<1>1. IInv => TypeOK
    BY DEF IInv, TInv
<1> QED
    BY InitIInv, StepIInv, <1>1, PTL DEF Spec

\* The loop with its running total removes exactly the entries that are over
\* age or do not fit together with all that come after them.
THEOREM PruneRemovesExactlyWhatMustGo == Spec => []RemovesExactlyWhatMustGo
<1>1. IInv => RemovesExactlyWhatMustGo
    <2> SUFFICES ASSUME IInv, Walking
                 PROVE  ToSet(gone) = {list[i] : i \in {j \in 1..(next - 1) : MustGo(j)}}
        BY DEF RemovesExactlyWhatMustGo
    <2> HIDE DEF MustGo
    <2> QED
        BY DEF IInv, Gone
<1> QED
    BY InitIInv, StepIInv, <1>1, PTL DEF Spec

\* A walk that comes to the end of its listing has removed what the operator
\* says that CrashPipeline takes as one step, though files come, go and are
\* removed by others while it walks.
THEOREM PruneWalkIsOnePass == Spec => []WalkIsOnePass
<1>1. IInv => WalkIsOnePass
    <2> SUFFICES ASSUME IInv, Walking, next > Len(list)
                 PROVE  gone = Removed(list, Size, mtime, now)
        BY DEF WalkIsOnePass
    <2>1. next - 1 = Len(list) /\ ~NoLimits
        <3>1. next \in 1..(Len(list) + 1) /\ list \in Seq(Files) /\ ~NoLimits
            BY DEF IInv, TInv, WalkInv, TypeOK
        <3>2. Len(list) \in Nat
            BY <3>1
        <3> QED
            BY <3>1, <3>2
    <2>2. PrunePass(list, Size, mtime, now)[Len(list)] = [total |-> total, removed |-> gone]
        BY <2>1 DEF IInv, SoFar
    <2> QED
        BY <2>1, <2>2 DEF Removed
<1> QED
    BY InitIInv, StepIInv, <1>1, PTL DEF Spec

--------------------------------------------------------------------------------
(* What a pass leaves *)

\* Entries passed and not removed.
Kept == {list[j] : j \in 1..(next - 1)} \ ToSet(gone)

\* The listing names every file once, what is gone does not come back under its
\* name, and what is kept makes up the total with what is still to come.
KeptInv ==
    Walking =>
        /\ \A i, k \in 1..Len(list) : list[i] = list[k] => i = k
        /\ ToSet(gone) \cap there = {}
        /\ SumFunctionOnSet(Size, Kept) = total - LeftFrom(list, Size, next)

\* The sizes of a listing can be added in any order.
LEMMA SumsOfListed ==
    ASSUME IInv
    PROVE  SumAdds(Size, ToSet(list)) /\ IsFiniteSet(ToSet(list)) /\ ToSet(list) \subseteq Files
<1>1. list \in Seq(Files) /\ Len(list) \in Nat
    BY DEF IInv, TInv, TypeOK
<1>2. PICK D : D = 1..Len(list)
    OBVIOUS
<1>3. IsFiniteSet(D)
    BY <1>1, <1>2, FS_Interval
<1>4. ToSet(list) = {list[i] : i \in D} /\ ToSet(list) \subseteq Files
    BY <1>1, <1>2 DEF ToSet
<1>5. IsFiniteSet(ToSet(list))
    <2>1. PICK T : T = ToSet(list)
        OBVIOUS
    <2>2. list \in [D -> T]
        BY <1>1, <1>2, <1>4, <2>1
    <2>3. list \in Surjection(D, T)
        BY <1>4, <2>1, <2>2 DEF Surjection
    <2>4. IsFiniteSet(T)
        BY <1>3, <2>3, FS_Surjection
    <2> QED
        BY <2>1, <2>4
<1>6. Numbers(Size, ToSet(list))
    BY <1>4, PruneAssumption DEF Numbers
<1> QED
    BY <1>4, <1>5, <1>6, SumOf

\* What is gone was listed, and passed.
LEMMA GoneWasListed ==
    ASSUME IInv, Walking
    PROVE  /\ \A f \in ToSet(gone) : \E j \in 1..(next - 1) : f = list[j]
           /\ ToSet(gone) \subseteq ToSet(list) /\ Kept \subseteq ToSet(list)
<1>1. list \in Seq(Files) /\ Len(list) \in Nat /\ next \in 1..(Len(list) + 1)
    BY DEF IInv, TInv, TypeOK, WalkInv
<1>2. \A j \in 1..(next - 1) : list[j] \in ToSet(list)
    BY <1>1 DEF ToSet
<1>3. \A f \in ToSet(gone) : \E j \in 1..(next - 1) : f = list[j]
    BY DEF IInv, Gone
<1> QED
    BY <1>2, <1>3 DEF Kept

\* Nothing is kept or gone when a walk begins.
LEMMA BeginKept ==
    ASSUME IInv, NEW dir, BeginWalk(dir)
    PROVE  KeptInv'
<1>0. PICK S \in SUBSET In(dir) : list' \in OldestFirst(S, mtime)
    BY DEF BeginWalk
<1>1. /\ list' \in SetToSeqs(S) /\ next' = 1 /\ gone' = <<>> /\ total' = Bytes(list', Size)
      /\ there' = there
    BY <1>0 DEF BeginWalk, OldestFirst
<1>2. PICK L : L = list'
    OBVIOUS
<1>3. IsFiniteSet(S) /\ S \subseteq Files
    <2>1. S \subseteq there
        BY <1>0 DEF In
    <2> QED
        BY <2>1, FS_Subset DEF IInv, TInv, TypeOK
<1>4. Cardinality(S) \in Nat
    BY <1>3, FS_CardinalityType
<1>5. PICK D : D = 1..Cardinality(S)
    OBVIOUS
<1>6. L \in [D -> S] /\ \A i, k \in D : i # k => L[i] # L[k]
    BY <1>1, <1>2, <1>5 DEF SetToSeqs
<1>7. L \in Seq(Files) /\ \A i, k \in 1..Len(L) : L[i] = L[k] => i = k
    BY <1>3, <1>4, <1>5, <1>6
<1>8. ToSet(gone') = {}
    BY <1>1 DEF ToSet
<1>9. Kept' = {}
    <2>1. 1..(next' - 1) = {}
        BY <1>1
    <2> QED
        BY <2>1 DEF Kept
<1>10. total' - LeftFrom(L, Size, 1) = 0
    BY <1>1, <1>2, <1>7, LeftOf, PruneAssumption DEF LeftOK
<1>11. SumFunctionOnSet(Size, {}) = 0
    BY SumsOfListed DEF SumAdds
<1> QED
    BY <1>1, <1>2, <1>7, <1>8, <1>9, <1>10, <1>11 DEF KeptInv

\* The entry passed is kept, or gone.
LEMMA WalkKept ==
    ASSUME IInv, KeptInv, Keep \/ (WalkStep /\ RemoveEntry(list[next]))
    PROVE  KeptInv'
<1>1. /\ Walking /\ next <= Len(list) /\ next' = next + 1 /\ list' = list
    BY DEF Keep, WalkStep, RemoveEntry
<1>2. /\ list \in Seq(Files) /\ next \in 1..Len(list) /\ list[next] \in Files
      /\ LeftFrom(list, Size, next) = Size[list[next]] + LeftFrom(list, Size, next + 1)
      /\ LeftFrom(list, Size, next) \in Nat /\ LeftFrom(list, Size, next + 1) \in Nat
      /\ Size[list[next]] \in Nat /\ total \in Nat /\ gone \in Seq(Files)
    BY <1>1, AtEntry
<1>3. /\ \A i, k \in 1..Len(list) : list[i] = list[k] => i = k
      /\ ToSet(gone) \cap there = {}
      /\ SumFunctionOnSet(Size, Kept) = total - LeftFrom(list, Size, next)
    BY <1>1 DEF KeptInv
<1>4. /\ next' - 1 = next /\ next \in 1..next
      /\ \A j \in 1..next : j \in 1..(next - 1) \/ j = next
      /\ \A j \in 1..(next - 1) : j \in 1..next /\ j \in 1..Len(list) /\ j # next
    BY <1>1, <1>2
<1>5. {list[j] : j \in 1..next} = {list[j] : j \in 1..(next - 1)} \cup {list[next]}
    BY <1>4
<1>6. list[next] \notin {list[j] : j \in 1..(next - 1)}
    BY <1>2, <1>3, <1>4
<1>7. list[next] \notin ToSet(gone)
    BY <1>1, <1>6, GoneWasListed
<1>8. CASE Keep
    <2>1. total' = total /\ gone' = gone /\ there' = there
        BY <1>8 DEF Keep
    <2>2. PICK K, k : K = Kept /\ k = Kept'
        OBVIOUS
    <2>3. k = K \cup {list[next]} /\ list[next] \notin K
        <3>1. k = {list[j] : j \in 1..next} \ ToSet(gone)
            BY <1>1, <1>4, <2>1, <2>2 DEF Kept
        <3> QED
            BY <1>5, <1>6, <1>7, <2>2, <3>1 DEF Kept
    <2>4. k \subseteq ToSet(list) /\ K \subseteq ToSet(list)
        <3>1. list[next] \in ToSet(list)
            BY <1>2 DEF ToSet
        <3> QED
            BY <1>1, <2>2, <2>3, <3>1, GoneWasListed
    <2>5. k \ {list[next]} = K /\ list[next] \in k
        BY <2>3
    <2>6. /\ SumFunctionOnSet(Size, k) = Size[list[next]] + SumFunctionOnSet(Size, K)
          /\ SumFunctionOnSet(Size, K) \in Nat
        BY <2>4, <2>5, SumsOfListed DEF SumAdds
    <2>7. SumFunctionOnSet(Size, k) = total - LeftFrom(list, Size, next + 1)
        BY <1>2, <1>3, <2>2, <2>6, SMTT(30)
    <2> QED
        BY <1>1, <1>3, <2>1, <2>2, <2>7 DEF KeptInv
<1>9. CASE RemoveEntry(list[next])
    <2>1. /\ total' = total - Size[list[next]] /\ gone' = Append(gone, list[next])
          /\ there' = there \ {list[next]}
        BY <1>9 DEF RemoveEntry, TotalWithout
    <2>2. ToSet(gone') = ToSet(gone) \cup {list[next]}
        <3>1. /\ Len(gone') = Len(gone) + 1 /\ Len(gone) \in Nat /\ gone'[Len(gone) + 1] = list[next]
              /\ \A i \in 1..Len(gone) : gone'[i] = gone[i]
              /\ DOMAIN gone = 1..Len(gone) /\ DOMAIN gone' = 1..(Len(gone) + 1)
            BY <1>2, <2>1
        <3> QED
            BY <3>1 DEF ToSet
    <2>3. Kept' = Kept
        <3>1. Kept' = {list[j] : j \in 1..next} \ ToSet(gone')
            BY <1>1, <1>4 DEF Kept
        <3> QED
            BY <1>5, <1>6, <2>2, <3>1 DEF Kept
    <2>4. SumFunctionOnSet(Size, Kept) = total' - LeftFrom(list, Size, next + 1)
        BY <1>2, <1>3, <2>1, SMTT(30)
    <2>5. ToSet(gone') \cap there' = {}
        BY <1>3, <2>1, <2>2
    <2> QED
        BY <1>1, <1>3, <2>3, <2>4, <2>5 DEF KeptInv
<1> QED
    BY <1>8, <1>9

\* Every other step.
LEMMA StepKeptInv == IInv /\ KeptInv /\ [Next]_vars => KeptInv'
<1> SUFFICES ASSUME IInv, KeptInv, [Next]_vars PROVE KeptInv'
    OBVIOUS
<1>1. CASE UNCHANGED <<list, next, total, gone>> /\ (Walking' => Walking)
           /\ (Walking => there' \cap ToSet(list) \subseteq there)
    <2> SUFFICES ASSUME Walking' PROVE KeptInv'
        BY DEF KeptInv
    <2>1. ToSet(gone) \subseteq ToSet(list)
        BY <1>1, GoneWasListed
    <2>2. Kept' = Kept
        BY <1>1 DEF Kept
    <2>3. /\ \A i, k \in 1..Len(list) : list[i] = list[k] => i = k
          /\ ToSet(gone) \cap there = {}
          /\ SumFunctionOnSet(Size, Kept) = total - LeftFrom(list, Size, next)
        BY <1>1 DEF KeptInv
    <2>4. ToSet(gone) \cap there' = {}
        BY <1>1, <2>1, <2>3
    <2> QED
        BY <1>1, <2>2, <2>3, <2>4 DEF KeptInv
<1>2. CASE ~Walking'
    BY <1>2 DEF KeptInv
<1>3. CASE UNCHANGED vars
    BY <1>1, <1>3 DEF vars, walkVars, Walking
<1>4. CASE SetClock \/ \E f \in Files : Arrive(f) \/ RemovedByHand(f)
    BY <1>1, <1>4 DEF SetClock, Arrive, RemovedByHand, walkVars, Walking
<1>5. CASE Call
    BY <1>2, <1>5 DEF Call, Walking
<1>6. CASE ListPending \/ ListExports
    <2>1. CASE \E dir \in Dirs : BeginWalk(dir)
        BY <2>1, BeginKept
    <2>2. CASE ~(\E dir \in Dirs : BeginWalk(dir))
        BY <1>2, <1>6, <2>2 DEF ListPending, ListExports, ListingFails, PendingDone, Return, Walking, Dirs
    <2> QED
        BY <2>1, <2>2
<1>7. CASE Keep \/ WalkStep
    <2>1. CASE Keep \/ (WalkStep /\ RemoveEntry(list[next]))
        BY <2>1, WalkKept
    <2>2. CASE Return("internal")
        BY <1>2, <2>2 DEF Return, Walking
    <2> QED
        BY <1>7, <2>1, <2>2 DEF WalkStep
<1>8. CASE WalkDone
    BY <1>2, <1>8 DEF WalkDone, PendingDone, Return, Walking
<1> QED
    BY <1>3, <1>4, <1>5, <1>6, <1>7, <1>8 DEF Next, Pass

\* A walk that is through leaves no more than it has counted, and nothing over
\* age.
LEMMA WalkedThrough ==
    ASSUME IInv, KeptInv, Walking, next > Len(list)
    PROVE  LeftWithinLimits
<1>1. /\ list \in Seq(Files) /\ Len(list) \in Nat /\ next = Len(list) + 1 /\ total \in Nat
      /\ next - 1 = Len(list)
    BY DEF IInv, TInv, TypeOK, WalkInv
<1>2. LeftFrom(list, Size, next) = 0
    <2>1. Bytes(list, Size) \in Nat
        BY <1>1, LeftOf, PruneAssumption DEF LeftOK
    <2> QED
        BY <1>1, <2>1 DEF LeftFrom, Bytes
<1>3. SumFunctionOnSet(Size, Kept) = total
    BY <1>1, <1>2 DEF KeptInv
<1>4. PICK left : left = ToSet(list) \cap there
    OBVIOUS
<1>5. ToSet(list) = {list[j] : j \in 1..(next - 1)}
    BY <1>1 DEF ToSet
<1>6. left \subseteq Kept
    BY <1>4, <1>5 DEF KeptInv, Kept
<1>7. SumFunctionOnSet(Size, left) <= SumFunctionOnSet(Size, Kept)
    <2>1. IsFiniteSet(Kept) /\ Kept \subseteq Files
        BY GoneWasListed, SumsOfListed, FS_Subset
    <2>2. Numbers(Size, Kept)
        BY <2>1, PruneAssumption DEF Numbers
    <2> QED
        BY <1>6, <2>1, <2>2, SumGrows
<1>8. MaxBytes > 0 => total <= MaxBytes
    BY <1>1, <1>2, DiskManagerAssumption DEF IInv, TInv, WalkInv, OverSize
<1>9. SumFunctionOnSet(Size, left) \in Nat
    <2>1. left \in SUBSET ToSet(list)
        BY <1>4
    <2> QED
        BY <2>1, SumsOfListed DEF SumAdds
<1>10. MaxBytes > 0 => SumFunctionOnSet(Size, left) <= MaxBytes
    BY <1>1, <1>3, <1>7, <1>8, <1>9, DiskManagerAssumption
<1>11. ASSUME NEW f \in left PROVE ~OverAge(now, mtime[f])
    <2>1. f \notin ToSet(gone)
        BY <1>4 DEF KeptInv
    <2>2. PICK j \in 1..(next - 1) : f = list[j]
        BY <1>4, <1>5
    <2>3. ~MustGo(j)
        BY <2>1, <2>2 DEF IInv, Gone
    <2> QED
        BY <2>2, <2>3 DEF MustGo
<1> QED
    BY <1>4, <1>10, <1>11 DEF LeftWithinLimits

\* What PruneMinidumps says by returning OK: what is left of its last listing
\* fits, though files came and went meanwhile.
THEOREM PruneOkMeansWithinLimits == Spec => OkMeansWithinLimits
<1>1. Init => KeptInv
    BY DEF Init, KeptInv, Walking
<1>2. IInv /\ KeptInv /\ [Next]_vars =>
          [Walking /\ pc' # pc /\ (pc' = "idle" => status' = "ok") => LeftWithinLimits]_vars
    <2> SUFFICES ASSUME IInv, KeptInv, Next, Walking, pc' # pc, pc' = "idle" => status' = "ok"
                 PROVE  LeftWithinLimits
        BY DEF vars
    <2>1. WalkDone
        BY DEF Next, Pass, SetClock, Arrive, RemovedByHand, Call, ListPending, ListExports, Keep,
               WalkStep, RemoveEntry, Return, Walking
    <2> QED
        BY <2>1, WalkedThrough DEF WalkDone
<1> QED
    BY InitIInv, StepIInv, StepKeptInv, <1>1, <1>2, PTL DEF Spec, OkMeansWithinLimits
================================================================================
