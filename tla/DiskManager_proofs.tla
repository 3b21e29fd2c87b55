--------------------------- MODULE DiskManager_proofs ---------------------------
(***************************************************************************)
(* Lemmas about the operators of DiskManager, for listings of any length:  *)
(* the sums of sizes, the loop with its running total, and what it leaves. *)
(***************************************************************************)
EXTENDS DiskManager, FiniteSetTheorems, WellFoundedInduction, TLAPS

--------------------------------------------------------------------------------
(* Induction up to a number, and functions defined by it *)

Smallest(s, C) == s \in C /\ \A t \in C : t \subseteq s => t = s

\* Of the parts of a finite set some contain no other.
LEMMA SmallestPart ==
    ASSUME NEW U, IsFiniteSet(U), NEW C \in SUBSET SUBSET U, C # {}
    PROVE  \E s \in C : Smallest(s, C)
<1>1. IsWellFoundedOn(StrictSubsetOrdering(U), FiniteSubsetsOf(U))
    BY FS_StrictSubsetOrderingWellFounded
<1>2. C \subseteq FiniteSubsetsOf(U)
    BY FS_Subset DEF FiniteSubsetsOf
<1>3. PICK s \in C : \A t \in C : ~(<<t, s>> \in StrictSubsetOrdering(U))
    BY <1>1, <1>2, WFMin
<1>4. ASSUME NEW t \in C, t \subseteq s PROVE t = s
    <2>1. t \in SUBSET U /\ s \in SUBSET U
        OBVIOUS
    <2>2. t # s => <<t, s>> \in StrictSubsetOrdering(U)
        BY <1>4, <2>1 DEF StrictSubsetOrdering
    <2> QED
        BY <1>3, <2>2
<1>5. Smallest(s, C)
    BY <1>4 DEF Smallest
<1> QED
    BY <1>5

\* Of numbers there is a least.
LEMMA Least ==
    ASSUME NEW n \in Nat, NEW S \in SUBSET (0..n), S # {}
    PROVE  \E x \in S : \A y \in S : x <= y
<1> DEFINE below(x) == {y \in S : y < x}
           C == {below(x) : x \in S}
<1>1. C \in SUBSET SUBSET (0..n) /\ C # {}
    <2>1. \A x \in S : below(x) \in SUBSET (0..n)
        OBVIOUS
    <2> HIDE DEF below
    <2> QED
        BY <2>1
<1>0. IsFiniteSet(0..n)
    BY FS_Interval
<1> HIDE DEF C
<1>2. PICK s \in C : Smallest(s, C)
    BY <1>0, <1>1, SmallestPart
<1>3. PICK x \in S : s = below(x)
    BY <1>2 DEF C
<1>4. ASSUME NEW y \in S, y < x PROVE FALSE
    <2>1. \A z \in S : z < y => z < x
        <3>1. \A z \in S : z \in Nat
            OBVIOUS
        <3> QED
            BY <1>4, <3>1
    <2>2. below(y) \subseteq below(x)
        BY <2>1
    <2>4. y \in below(x) /\ y \notin below(y)
        <3>1. y \in Nat
            OBVIOUS
        <3> QED
            BY <1>4, <3>1
    <2>3. below(y) \in C
        BY DEF C
    <2> HIDE DEF below
    <2> QED
        BY <1>2, <1>3, <2>2, <2>3, <2>4 DEF Smallest
<1>5. \A y \in S : x <= y
    BY <1>4
<1> QED
    BY <1>5

\* A set that has 0 and, with every number below n, the next one has them all.
LEMMA Reaches ==
    ASSUME NEW n \in Nat, NEW S \in SUBSET (0..n), 0 \in S,
           \A i \in 1..n : i - 1 \in S => i \in S
    PROVE  S = 0..n
<1> SUFFICES ASSUME (0..n) \ S # {} PROVE FALSE
    OBVIOUS
<1> DEFINE C == (0..n) \ S
<1>1. C \in SUBSET (0..n) /\ C # {}
    OBVIOUS
<1> HIDE DEF C
<1>2. PICK x \in C : \A y \in C : x <= y
    BY <1>1, Least
<1>3. x \in 1..n /\ x \notin S
    BY <1>2 DEF C
<1>4. x - 1 \in 0..n /\ ~(x <= x - 1)
    BY <1>3
<1>5. x - 1 \in S
    BY <1>2, <1>4 DEF C
<1> QED
    BY <1>3, <1>5

Follow(f, first, n, step) == f[0] = first /\ \A i \in 1..n : f[i] = step[i][f[i - 1]]

\* Whoever says what comes first and what follows what has a sequence.
LEMMA StepsExist ==
    ASSUME NEW T, NEW first \in T, NEW n \in Nat, NEW step \in [1..n -> [T -> T]]
    PROVE  \E f \in [0..n -> T] : Follow(f, first, n, step)
<1> DEFINE Upto(k, f) == f[0] = first /\ \A i \in 1..k : f[i] = step[i][f[i - 1]]
           S == {k \in 0..n : \E f \in [0..n -> T] : Upto(k, f)}
<1>1. 0 \in S
    <2>1. [i \in 0..n |-> first] \in [0..n -> T] /\ Upto(0, [i \in 0..n |-> first])
        OBVIOUS
    <2>2. \E h \in [0..n -> T] : Upto(0, h)
        <3> HIDE DEF Upto
        <3> QED
            BY <2>1
    <2>3. 0 \in 0..n
        OBVIOUS
    <2> QED
        BY <2>2, <2>3
<1>2. ASSUME NEW k \in 1..n, k - 1 \in S PROVE k \in S
    <2>1. PICK f \in [0..n -> T] : Upto(k - 1, f)
        BY <1>2
    <2>2. k - 1 \in 0..n /\ f[k - 1] \in T /\ step[k][f[k - 1]] \in T
        BY <2>1
    <2>3. PICK g : g = [f EXCEPT ![k] = step[k][f[k - 1]]]
        OBVIOUS
    <2>4. g \in [0..n -> T]
        BY <2>2, <2>3
    <2>5. /\ g[k] = step[k][f[k - 1]]
          /\ \A i \in 0..n : i # k => g[i] = f[i]
        BY <2>3
    <2>6. g[0] = first
        BY <2>1, <2>5
    <2>7. ASSUME NEW i \in 1..k PROVE g[i] = step[i][g[i - 1]]
        <3>1. i - 1 \in 0..n /\ i - 1 # k /\ g[i - 1] = f[i - 1]
            BY <2>5
        <3>2. CASE i = k
            BY <2>5, <3>1, <3>2
        <3>3. CASE i # k
            <4>1. i \in 1..(k - 1) /\ i \in 0..n
                BY <3>3
            <4> QED
                BY <2>1, <2>5, <3>1, <3>3, <4>1
        <3> QED
            BY <3>2, <3>3
    <2>8. Upto(k, g)
        BY <2>6, <2>7
    <2>9. \E h \in [0..n -> T] : Upto(k, h)
        <3> HIDE DEF Upto
        <3> QED
            BY <2>4, <2>8
    <2>10. k \in 0..n
        OBVIOUS
    <2> QED
        BY <2>9, <2>10
<1>3. S \in SUBSET (0..n)
    OBVIOUS
<1> HIDE DEF S
<1>4. S = 0..n
    BY <1>1, <1>2, <1>3, Reaches
<1>5. n \in S
    BY <1>4
<1> QED
    BY <1>5 DEF S, Follow

--------------------------------------------------------------------------------
(* The operators of DiskManager *)

AddUp(sums, entries, size) ==
    /\ sums \in [0..Len(entries) -> Nat] /\ sums[0] = 0
    /\ \A i \in 1..Len(entries) : sums[i] = sums[i - 1] + size[entries[i]]

\* The sizes of a listing, as far as a position, and what comes after it.
LEMMA SumsOf ==
    ASSUME NEW F, NEW entries \in Seq(F), NEW size \in [F -> Nat]
    PROVE  AddUp(Sums(entries, size), entries, size)
<1> DEFINE n == Len(entries)
           step == [i \in 1..n |-> [v \in Nat |-> v + size[entries[i]]]]
<1>1. n \in Nat /\ \A i \in 1..n : entries[i] \in F /\ size[entries[i]] \in Nat
    OBVIOUS
<1>2. step \in [1..n -> [Nat -> Nat]]
    BY <1>1
<1>3. \A i \in 1..n : \A v \in Nat : step[i][v] = v + size[entries[i]]
    OBVIOUS
<1> HIDE DEF step
<1>4. PICK f \in [0..n -> Nat] : Follow(f, 0, n, step)
    <2>1. n \in Nat /\ 0 \in Nat
        BY <1>1
    <2> HIDE DEF n
    <2> QED
        BY <1>2, <2>1, StepsExist
<1>5. ASSUME NEW i \in 1..n PROVE f[i] = f[i - 1] + size[entries[i]]
    <2>1. i - 1 \in 0..n /\ f[i - 1] \in Nat
        BY <1>1, <1>5, SMTT(30)
    <2>2. f[i] = step[i][f[i - 1]]
        BY <1>4 DEF Follow
    <2> QED
        BY <1>3, <2>1, <2>2
<1>0. f[0] = 0
    BY <1>4 DEF Follow
<1>6. f = [i \in 0..n |-> IF i = 0 THEN 0 ELSE f[i - 1] + size[entries[i]]]
    BY <1>0, <1>5
<1>7. Sums(entries, size) = [i \in 0..n |-> IF i = 0 THEN 0 ELSE Sums(entries, size)[i - 1] + size[entries[i]]]
    BY <1>6 DEF Sums
<1> DEFINE S == {i \in 0..n : Sums(entries, size)[i] = f[i]}
<1>8. 0 \in S
    BY <1>0, <1>1, <1>7
<1>9. ASSUME NEW i \in 1..n, i - 1 \in S PROVE i \in S
    <2>1. i \in 0..n /\ i # 0
        OBVIOUS
    <2>2. Sums(entries, size)[i] = Sums(entries, size)[i - 1] + size[entries[i]]
        BY <1>7, <2>1
    <2> QED
        BY <1>5, <1>9, <2>1, <2>2
<1>10. S \in SUBSET (0..n)
    OBVIOUS
<1> HIDE DEF S
<1>11. S = 0..n
    BY <1>1, <1>8, <1>9, <1>10, Reaches
<1>12. \A i \in 0..n : Sums(entries, size)[i] = f[i]
    BY <1>11 DEF S
<1>13. Sums(entries, size) = f
    BY <1>4, <1>7, <1>12
<1> QED
    BY <1>0, <1>5, <1>13 DEF AddUp

\* The bytes of the rest of a listing are what the rest adds to the sum.
LEMMA BytesOfRest ==
    ASSUME NEW F, NEW entries \in Seq(F), NEW size \in [F -> Nat], NEW i \in 1..Len(entries)
    PROVE  Bytes(SubSeq(entries, i, Len(entries)), size) = Bytes(entries, size) - Sums(entries, size)[i - 1]
<1>0. PICK n, m, rest : n = Len(entries) /\ m = n - i + 1 /\ rest = SubSeq(entries, i, n)
    OBVIOUS
<1>1. /\ n \in Nat /\ m \in Nat /\ i \in 1..n /\ m = n - i + 1 /\ n = Len(entries)
      /\ rest \in Seq(F) /\ Len(rest) = m
      /\ \A k \in 1..m : rest[k] = entries[i + k - 1]
      /\ \A k \in 1..n : size[entries[k]] \in Nat
    BY <1>0
<1> DEFINE s == Sums(entries, size)
           t == Sums(rest, size)
<1>2. /\ s \in [0..n -> Nat]
      /\ \A k \in 1..n : s[k] = s[k - 1] + size[entries[k]]
    BY <1>1, SumsOf DEF AddUp
<1>3. /\ t \in [0..m -> Nat] /\ t[0] = 0
      /\ \A k \in 1..m : t[k] = t[k - 1] + size[rest[k]]
    <2>1. AddUp(Sums(rest, size), rest, size)
        BY <1>1, SumsOf
    <2> QED
        BY <1>1, <2>1 DEF AddUp
<1> HIDE DEF s, t
<1> DEFINE S == {k \in 0..m : t[k] = s[i + k - 1] - s[i - 1]}
<1>4. 0 \in S
    <2>1. i - 1 \in 0..n /\ i + 0 - 1 = i - 1
        BY <1>1
    <2>2. s[i - 1] \in Nat
        BY <1>2, <2>1
    <2>3. s[i - 1] - s[i - 1] = 0
        BY <2>2
    <2> QED
        BY <1>1, <1>3, <2>1, <2>3, SMTT(30)
<1>5. ASSUME NEW k \in 1..m, k - 1 \in S PROVE k \in S
    <2>1. /\ k \in 0..m /\ k - 1 \in 0..m /\ i + k - 1 \in 1..n /\ i + k - 1 - 1 \in 0..n
          /\ i - 1 \in 0..n /\ i + (k - 1) - 1 = i + k - 1 - 1
        BY <1>1
    <2>2. t[k] = t[k - 1] + size[entries[i + k - 1]] /\ t[k - 1] = s[i + k - 1 - 1] - s[i - 1]
        BY <1>1, <1>3, <1>5, <2>1
    <2>3. s[i + k - 1] = s[i + k - 1 - 1] + size[entries[i + k - 1]]
        BY <1>2, <2>1
    <2>4. /\ s[i - 1] \in Nat /\ s[i + k - 1 - 1] \in Nat /\ size[entries[i + k - 1]] \in Nat
        BY <1>1, <1>2, <2>1
    <2>5. PICK x, y, z, w : x = s[i - 1] /\ y = s[i + k - 1 - 1] /\ z = size[entries[i + k - 1]] /\ w = t[k - 1]
        OBVIOUS
    <2>6. t[k] = w + z /\ w = y - x /\ s[i + k - 1] = y + z /\ x \in Nat /\ y \in Nat /\ z \in Nat
        BY <2>2, <2>3, <2>4, <2>5
    <2>7. t[k] = s[i + k - 1] - s[i - 1]
        <3>1. (y - x) + z = (y + z) - x
            BY <2>6
        <3> QED
            BY <2>5, <2>6, <3>1
    <2> QED
        BY <2>1, <2>7
<1>6. S \in SUBSET (0..m)
    OBVIOUS
<1> HIDE DEF S
<1>7. S = 0..m
    BY <1>1, <1>4, <1>5, <1>6, Reaches
<1>8. t[m] = s[i + m - 1] - s[i - 1] /\ i + m - 1 = n
    <2>1. i + m - 1 = n /\ m \in 0..m
        BY <1>1
    <2>2. m \in S
        BY <1>7, <2>1
    <2> QED
        BY <2>1, <2>2 DEF S
<1> QED
    BY <1>0, <1>1, <1>8 DEF Bytes, s, t

LeftFrom(entries, size, i) == Bytes(entries, size) - Sums(entries, size)[i - 1]

LeftOK(entries, size) ==
    /\ LeftFrom(entries, size, 1) = Bytes(entries, size) /\ Bytes(entries, size) \in Nat
    /\ \A i \in 1..(Len(entries) + 1) : LeftFrom(entries, size, i) \in Nat
    /\ \A i \in 1..Len(entries) :
          /\ size[entries[i]] \in Nat
          /\ LeftFrom(entries, size, i) = size[entries[i]] + LeftFrom(entries, size, i + 1)
          /\ LeftFrom(entries, size, i) = Bytes(SubSeq(entries, i, Len(entries)), size)

\* What is left of a listing from a position on: the entry there and the rest.
LEMMA LeftOf ==
    ASSUME NEW F, NEW entries \in Seq(F), NEW size \in [F -> Nat]
    PROVE  LeftOK(entries, size)
<1>0. PICK n : n = Len(entries)
    OBVIOUS
<1>1. n \in Nat /\ \A i \in 1..n : entries[i] \in F /\ size[entries[i]] \in Nat
    BY <1>0
<1>2. PICK s : s = Sums(entries, size)
    OBVIOUS
<1>3. /\ s \in [0..n -> Nat] /\ s[0] = 0
      /\ \A i \in 1..n : s[i] = s[i - 1] + size[entries[i]]
    <2>1. AddUp(s, entries, size)
        BY <1>2, SumsOf
    <2> QED
        BY <1>0, <2>1 DEF AddUp
<1>4. Bytes(entries, size) = s[n] /\ s[n] \in Nat
    BY <1>0, <1>1, <1>2, <1>3 DEF Bytes
<1>5. \A i \in 1..(n + 1) : LeftFrom(entries, size, i) = s[n] - s[i - 1] /\ s[i - 1] \in Nat
    <2>1. ASSUME NEW i \in 1..(n + 1) PROVE i - 1 \in 0..n
        BY <1>1
    <2> QED
        BY <1>2, <1>3, <1>4, <2>1 DEF LeftFrom
<1>6. ASSUME NEW i \in 1..n
      PROVE  LeftFrom(entries, size, i) = size[entries[i]] + LeftFrom(entries, size, i + 1)
    <2>1. i \in 1..(n + 1) /\ i + 1 \in 1..(n + 1) /\ i + 1 - 1 = i
        BY <1>1
    <2>2. /\ LeftFrom(entries, size, i) = s[n] - s[i - 1] /\ s[i - 1] \in Nat
          /\ LeftFrom(entries, size, i + 1) = s[n] - s[i] /\ s[i] \in Nat
        BY <1>5, <2>1
    <2>3. s[i] = s[i - 1] + size[entries[i]]
        BY <1>3
    <2> QED
        BY <1>1, <1>4, <2>2, <2>3
<1>7. ASSUME NEW i \in 1..n
      PROVE  LeftFrom(entries, size, i) = Bytes(SubSeq(entries, i, Len(entries)), size)
    BY <1>0, BytesOfRest DEF LeftFrom
<1>8. ASSUME NEW i \in 1..(n + 1) PROVE LeftFrom(entries, size, i) \in Nat
    <2>1. CASE i = n + 1
        BY <1>1, <1>4, <1>5, <2>1
    <2>2. CASE i # n + 1
        <3>1. i \in 1..n
            BY <1>1, <2>2
        <3>2. PICK rest : rest = SubSeq(entries, i, Len(entries))
            OBVIOUS
        <3>3. rest \in Seq(F) /\ Len(rest) \in Nat
            BY <1>0, <3>1, <3>2
        <3>4. AddUp(Sums(rest, size), rest, size)
            BY <3>3, SumsOf
        <3>5. Bytes(rest, size) \in Nat
            BY <3>3, <3>4, SMTT(30) DEF AddUp, Bytes
        <3> QED
            BY <1>7, <3>1, <3>2, <3>5
    <2> QED
        BY <2>1, <2>2
<1>9. LeftFrom(entries, size, 1) = Bytes(entries, size)
    BY <1>1, <1>3, <1>4, <1>5
<1> QED
    BY <1>0, <1>1, <1>4, <1>6, <1>7, <1>8, <1>9 DEF LeftOK

PassStates(F) == [total : Int, removed : Seq(F)]

Passes(after, entries, size, stamp, at) ==
    /\ after[0] = [total |-> Bytes(entries, size), removed |-> <<>>]
    /\ \A i \in 1..Len(entries) :
          after[i] = LoopBody(after[i - 1], entries[i], size, stamp, at)

\* The loop has a state after every entry.
LEMMA PassOf ==
    ASSUME NEW F, NEW entries \in Seq(F), NEW size \in [F -> Nat], NEW stamp, NEW at
    PROVE  Passes(PrunePass(entries, size, stamp, at), entries, size, stamp, at)
<1>0. PICK n, T : n = Len(entries) /\ T = PassStates(F)
    OBVIOUS
<1>1. n \in Nat /\ \A i \in 1..n : entries[i] \in F /\ size[entries[i]] \in Nat
    BY <1>0
<1>2. PICK first : first = [total |-> Bytes(entries, size), removed |-> <<>>]
    OBVIOUS
<1>3. first \in T
    <2>1. Bytes(entries, size) \in Int
        BY LeftOf DEF LeftOK
    <2> QED
        BY <1>0, <1>2, <2>1 DEF PassStates
<1>4. ASSUME NEW acc \in T, NEW i \in 1..n PROVE LoopBody(acc, entries[i], size, stamp, at) \in T
    <2>1. acc.total \in Int /\ acc.removed \in Seq(F)
        BY <1>0 DEF PassStates
    <2>2. /\ acc.total - size[entries[i]] \in Int
          /\ Append(acc.removed, entries[i]) \in Seq(F)
        BY <1>1, <2>1
    <2> QED
        BY <1>0, <2>2 DEF LoopBody, PassStates
<1>5. PICK step : step = [i \in 1..n |-> [acc \in T |-> LoopBody(acc, entries[i], size, stamp, at)]]
    OBVIOUS
<1>6. step \in [1..n -> [T -> T]]
    BY <1>4, <1>5
<1>7. \A i \in 1..n : \A acc \in T : step[i][acc] = LoopBody(acc, entries[i], size, stamp, at)
    BY <1>5
<1>8. PICK f \in [0..n -> T] : Follow(f, first, n, step)
    BY <1>1, <1>3, <1>6, StepsExist
<1>9. ASSUME NEW i \in 1..n PROVE f[i] = LoopBody(f[i - 1], entries[i], size, stamp, at)
    <2>1. i - 1 \in 0..n /\ f[i - 1] \in T
        BY <1>1, <1>9
    <2>2. f[i] = step[i][f[i - 1]]
        BY <1>8 DEF Follow
    <2> QED
        BY <1>7, <2>1, <2>2
<1>10. f[0] = first
    BY <1>8 DEF Follow
<1>11. f = [i \in 0..n |-> IF i = 0 THEN first ELSE LoopBody(f[i - 1], entries[i], size, stamp, at)]
    BY <1>9, <1>10
<1>12. PICK after : after = PrunePass(entries, size, stamp, at)
    OBVIOUS
<1>13. after = [i \in 0..n |-> IF i = 0 THEN first ELSE LoopBody(after[i - 1], entries[i], size, stamp, at)]
    BY <1>0, <1>2, <1>11, <1>12 DEF PrunePass
<1>14. after[0] = first
    BY <1>1, <1>13
<1>15. \A i \in 1..n : after[i] = LoopBody(after[i - 1], entries[i], size, stamp, at)
    <2>1. \A i \in 1..n : i \in 0..n /\ i # 0
        OBVIOUS
    <2> QED
        BY <1>13, <2>1
<1> QED
    BY <1>0, <1>2, <1>12, <1>14, <1>15 DEF Passes

\* A pass asks for the time stamps of the files it lists only.
LEMMA PassOfStamps ==
    ASSUME NEW F, NEW entries \in Seq(F), NEW size \in [F -> Nat], NEW at,
           NEW stamp, NEW other, \A i \in 1..Len(entries) : stamp[entries[i]] = other[entries[i]],
           NEW k \in 0..Len(entries)
    PROVE  PrunePass(entries, size, stamp, at)[k] = PrunePass(entries, size, other, at)[k]
<1>0. PICK n, a, b : /\ n = Len(entries)
                     /\ a = PrunePass(entries, size, stamp, at)
                     /\ b = PrunePass(entries, size, other, at)
    OBVIOUS
<1>1. Passes(a, entries, size, stamp, at) /\ Passes(b, entries, size, other, at) /\ n \in Nat
    BY <1>0, PassOf
<1> DEFINE S == {i \in 0..n : a[i] = b[i]}
<1>2. 0 \in S
    BY <1>1 DEF Passes
<1>3. ASSUME NEW i \in 1..n, i - 1 \in S PROVE i \in S
    <2>1. /\ a[i] = LoopBody(a[i - 1], entries[i], size, stamp, at)
          /\ b[i] = LoopBody(b[i - 1], entries[i], size, other, at)
        BY <1>0, <1>1 DEF Passes
    <2>2. a[i - 1] = b[i - 1] /\ stamp[entries[i]] = other[entries[i]] /\ i \in 0..n
        BY <1>0, <1>3
    <2>3. a[i] = b[i]
        BY <2>1, <2>2 DEF LoopBody
    <2> QED
        BY <2>2, <2>3
<1>4. S \in SUBSET (0..n)
    OBVIOUS
<1> HIDE DEF S
<1>5. S = 0..n
    BY <1>1, <1>2, <1>3, <1>4, Reaches
<1>6. k \in S
    BY <1>0, <1>5
<1> QED
    BY <1>0, <1>6 DEF S

--------------------------------------------------------------------------------
(* Sums over sets *)

\* The recursion of a sum over the parts of a set, in the order CHOOSE has.
Unfolds(h, f, U) ==
    h = [s \in SUBSET U |-> IF s = {} THEN 0
                            ELSE f[CHOOSE x \in s : TRUE] + h[s \ {CHOOSE x \in s : TRUE}]]

Numbers(f, U) == \A x \in U : f[x] \in Nat

\* It has a solution: one that is right for the parts of less than i elements is
\* right, unfolded once more, for those of i.
LEMMA SolutionExists ==
    ASSUME NEW U, IsFiniteSet(U), NEW f, Numbers(f, U)
    PROVE  \E h \in [SUBSET U -> Nat] : Unfolds(h, f, U)
<1> DEFINE c(s) == CHOOSE x \in s : TRUE
           P == SUBSET U
           T == [P -> Nat]
           Once(g) == [s \in P |-> IF s = {} THEN 0 ELSE f[c(s)] + g[s \ {c(s)}]]
           n == Cardinality(U) + 1
           first == [s \in P |-> 0]
           step == [i \in 1..n |-> [g \in T |-> Once(g)]]
<1>1. n \in Nat \ {0}
    BY FS_CardinalityType
<1>2. \A s \in P : s # {} => c(s) \in s /\ f[c(s)] \in Nat /\ s \ {c(s)} \in P
    BY DEF Numbers
<1> HIDE DEF c
<1>3. ASSUME NEW g \in T PROVE Once(g) \in T
    <2>1. ASSUME NEW s \in P, s # {} PROVE f[c(s)] + g[s \ {c(s)}] \in Nat
        <3>1. g[s \ {c(s)}] \in Nat /\ f[c(s)] \in Nat
            BY <1>2, <2>1
        <3> QED
            BY <3>1
    <2> QED
        BY <2>1
<1>4. first \in T
    OBVIOUS
<1>5. step \in [1..n -> [T -> T]]
    BY <1>3
<1>6. \A i \in 1..n : \A g \in T : step[i][g] = Once(g)
    OBVIOUS
<1>7. first[{}] = 0 /\ \A g \in T : Once(g)[{}] = 0
    OBVIOUS
<1>8. \A g \in T : \A s \in P : s # {} => Once(g)[s] = f[c(s)] + g[s \ {c(s)}]
    OBVIOUS
<1> HIDE DEF T, step, first, n
<1>9. PICK G \in [0..n -> T] : Follow(G, first, n, step)
    BY <1>1, <1>4, <1>5, StepsExist
<1>10. \A i \in 1..n : i - 1 \in 0..n /\ G[i - 1] \in T /\ G[i] = Once(G[i - 1])
    <2>1. ASSUME NEW i \in 1..n PROVE i - 1 \in 0..n /\ G[i - 1] \in T /\ G[i] = Once(G[i - 1])
        <3>1. i - 1 \in 0..n /\ G[i - 1] \in T
            BY <1>1
        <3> QED
            BY <1>6, <1>9, <3>1 DEF Follow
    <2> QED
        BY <2>1
<1> HIDE DEF Once
<1>11. G[0] = first
    BY <1>9 DEF Follow
<1> DEFINE Agree(i) == \A s \in P : Cardinality(s) < i => G[i][s] = G[i - 1][s]
           Good == {i \in 0..n : i # 0 => Agree(i)}
<1>12. 0 \in Good
    BY <1>1
<1>13. \A s \in P : IsFiniteSet(s) /\ Cardinality(s) \in Nat
    BY FS_Subset, FS_CardinalityType
<1>14. ASSUME NEW i \in 1..n, i - 1 \in Good PROVE i \in Good
    <2>1. ASSUME NEW s \in P, Cardinality(s) < i PROVE G[i][s] = G[i - 1][s]
        <3>1. G[i] = Once(G[i - 1]) /\ G[i - 1] \in T
            BY <1>10
        <3>2. i = 1 => G[i - 1] = first
            BY <1>11
        <3>3. i # 1 => i - 1 \in 1..n /\ G[i - 1] = Once(G[i - 1 - 1]) /\ G[i - 1 - 1] \in T
            <4>1. i # 1 => i - 1 \in 1..n
                BY <1>1
            <4> QED
                BY <1>10, <4>1
        <3>4. CASE s = {}
            BY <1>7, <3>1, <3>2, <3>3, <3>4
        <3>5. CASE s # {}
            <4>1. PICK r : r = s \ {c(s)}
                OBVIOUS
            <4>2. r \in P /\ c(s) \in s
                BY <1>2, <3>5, <4>1
            <4>3. Cardinality(r) = Cardinality(s) - 1
                BY <1>13, <4>1, <4>2, FS_RemoveElement
            <4>4. Cardinality(r) \in Nat /\ Cardinality(r) < i - 1 /\ i # 1
                BY <1>13, <2>1, <4>2, <4>3
            <4>5. Agree(i - 1)
                BY <1>14, <3>3, <4>4
            <4>6. G[i - 1][r] = G[i - 1 - 1][r]
                BY <4>2, <4>4, <4>5
            <4> QED
                BY <1>8, <3>1, <3>3, <3>5, <4>1, <4>4, <4>6
        <3> QED
            BY <3>4, <3>5
    <2> QED
        BY <2>1
<1>15. Good \in SUBSET (0..n)
    OBVIOUS
<1> HIDE DEF Good
<1>16. Good = 0..n
    BY <1>1, <1>12, <1>14, <1>15, Reaches
<1>17. Agree(n) /\ n \in 1..n
    <2>1. n \in Good /\ n \in 1..n
        BY <1>1, <1>16
    <2> QED
        BY <1>1, <2>1 DEF Good
<1>18. \A s \in P : Cardinality(s) < n
    BY <1>1, <1>13, FS_Subset, FS_CardinalityType DEF n
<1>19. PICK h : h = G[n - 1]
    OBVIOUS
<1>20. h \in T /\ \A s \in P : Once(h)[s] = h[s]
    BY <1>10, <1>17, <1>18, <1>19
<1>21. Once(h) = h
    BY <1>20 DEF Once, T
<1>22. Unfolds(h, f, U)
    BY <1>21 DEF Once, Unfolds, c
<1> QED
    BY <1>20, <1>22 DEF T

Adds(h, f, U) ==
    /\ h[{}] = 0
    /\ \A s \in SUBSET U : h[s] \in Nat /\ \A x \in s : h[s] = f[x] + h[s \ {x}]

\* Whichever element is taken first.
LEMMA SolutionAdds ==
    ASSUME NEW U, IsFiniteSet(U), NEW f, Numbers(f, U), NEW h, Unfolds(h, f, U)
    PROVE  Adds(h, f, U)
<1> DEFINE c(s) == CHOOSE x \in s : TRUE
           OK(s) == h[s] \in Nat /\ \A x \in s : h[s] = f[x] + h[s \ {x}]
           Bad == {s \in SUBSET U : ~OK(s)}
<1>1. \A s \in SUBSET U : s # {} => c(s) \in s /\ f[c(s)] \in Nat /\ s \ {c(s)} \in SUBSET U
    BY DEF Numbers
<1>2. h[{}] = 0 /\ \A s \in SUBSET U : s # {} => h[s] = f[c(s)] + h[s \ {c(s)}]
    BY DEF Unfolds
<1> HIDE DEF c
<1>3. Bad = {}
    <2> SUFFICES ASSUME Bad # {} PROVE FALSE
        OBVIOUS
    <2>1. Bad \in SUBSET SUBSET U
        OBVIOUS
    <2> HIDE DEF Bad
    <2>2. PICK s \in Bad : Smallest(s, Bad)
        BY <2>1, SmallestPart
    <2>3. s \in SUBSET U /\ ~OK(s)
        BY <2>2 DEF Bad
    <2>4. s # {}
        <3> SUFFICES ASSUME s = {} PROVE FALSE
            OBVIOUS
        <3>1. h[s] = 0
            BY <1>2
        <3>2. \A x \in s : FALSE
            OBVIOUS
        <3> QED
            BY <2>3, <3>1, <3>2
    <2>5. c(s) \in s /\ f[c(s)] \in Nat /\ h[s] = f[c(s)] + h[s \ {c(s)}]
        BY <1>1, <1>2, <2>3, <2>4
    <2>6. ASSUME NEW x \in s PROVE OK(s \ {x})
        <3>1. s \ {x} \in SUBSET U /\ s \ {x} # s /\ s \ {x} \subseteq s
            BY <2>3
        <3>2. s \ {x} \notin Bad
            BY <2>2, <3>1 DEF Smallest
        <3> HIDE DEF OK
        <3> QED
            BY <3>1, <3>2 DEF Bad
    <2>7. h[s] \in Nat
        <3>1. h[s \ {c(s)}] \in Nat
            BY <2>5, <2>6
        <3> QED
            BY <2>5, <3>1
    <2>8. ASSUME NEW x \in s PROVE h[s] = f[x] + h[s \ {x}]
        <3>1. CASE x = c(s)
            BY <2>5, <3>1
        <3>2. CASE x # c(s)
            <4>1. PICK r : r = s \ {c(s), x}
                OBVIOUS
            <4>2. (s \ {c(s)}) \ {x} = r /\ (s \ {x}) \ {c(s)} = r
                BY <4>1
            <4>3. h[s \ {c(s)}] = f[x] + h[r]
                BY <2>5, <2>6, <3>2, <4>2
            <4>4. h[s \ {x}] = f[c(s)] + h[r]
                BY <2>5, <2>6, <3>2, <4>2
            <4>5. h[r] \in Nat
                <5>1. r \in SUBSET U /\ r \subseteq s /\ r # s
                    BY <2>3, <2>5, <4>1
                <5>2. r \notin Bad
                    BY <2>2, <5>1 DEF Smallest
                <5> QED
                    BY <5>1, <5>2 DEF Bad
            <4>6. f[x] \in Nat
                BY <2>3 DEF Numbers
            <4> QED
                BY <2>5, <4>3, <4>4, <4>5, <4>6
        <3> QED
            BY <3>1, <3>2
    <2> QED
        BY <2>3, <2>7, <2>8
<1>4. \A s \in SUBSET U : OK(s)
    <2> HIDE DEF OK
    <2> QED
        BY <1>3
<1> QED
    BY <1>2, <1>4 DEF Adds

\* There is only one such function, over any set that has the parts asked for.
LEMMA OneSum ==
    ASSUME NEW U, IsFiniteSet(U), NEW V \in SUBSET U, NEW f, NEW g, NEW h, Adds(g, f, V), Adds(h, f, U)
    PROVE  \A t \in SUBSET V : g[t] = h[t]
<1> DEFINE Bad == {s \in SUBSET V : g[s] # h[s]}
<1> SUFFICES ASSUME Bad # {} PROVE FALSE
    OBVIOUS
<1>1. Bad \in SUBSET SUBSET V /\ IsFiniteSet(V)
    BY FS_Subset
<1> HIDE DEF Bad
<1>2. PICK s \in Bad : Smallest(s, Bad)
    BY <1>1, SmallestPart
<1>3. s \in SUBSET V /\ s \in SUBSET U /\ g[s] # h[s]
    BY <1>2 DEF Bad
<1>4. s # {}
    BY <1>3 DEF Adds
<1>5. PICK x \in s : TRUE
    BY <1>4
<1>6. g[s] = f[x] + g[s \ {x}] /\ h[s] = f[x] + h[s \ {x}]
    BY <1>3, <1>5 DEF Adds
<1>7. s \ {x} \in SUBSET V /\ s \ {x} \subseteq s /\ s \ {x} # s
    BY <1>3, <1>5
<1>8. s \ {x} \notin Bad
    BY <1>2, <1>7 DEF Smallest
<1>9. g[s \ {x}] = h[s \ {x}]
    BY <1>7, <1>8 DEF Bad
<1> QED
    BY <1>3, <1>6, <1>9

SumAdds(f, U) ==
    /\ SumFunctionOnSet(f, {}) = 0
    /\ \A s \in SUBSET U :
          /\ SumFunctionOnSet(f, s) \in Nat
          /\ \A x \in s : SumFunctionOnSet(f, s) = f[x] + SumFunctionOnSet(f, s \ {x})

\* The sum the community modules fold is the sum.
LEMMA SumOf == ASSUME NEW U, IsFiniteSet(U), NEW f, Numbers(f, U) PROVE SumAdds(f, U)
<1>1. PICK h \in [SUBSET U -> Nat] : Unfolds(h, f, U)
    BY SolutionExists
<1>2. Adds(h, f, U)
    BY <1>1, SolutionAdds
<1>3. ASSUME NEW V \in SUBSET U PROVE SumFunctionOnSet(f, V) = h[V]
    <2>1. IsFiniteSet(V) /\ Numbers(f, V)
        BY FS_Subset DEF Numbers
    <2>2. \E g : Unfolds(g, f, V)
        BY <2>1, SolutionExists
    <2>3. PICK g : g = CHOOSE k : Unfolds(k, f, V)
        OBVIOUS
    <2>4. Unfolds(g, f, V)
        BY <2>2, <2>3
    <2>5. Adds(g, f, V)
        BY <2>1, <2>4, SolutionAdds
    <2>6. g[V] = h[V]
        <3>1. \A t \in SUBSET V : g[t] = h[t]
            BY <1>2, <2>5, OneSum
        <3>2. V \in SUBSET V
            OBVIOUS
        <3> QED
            BY <3>1, <3>2
    <2>7. SumFunctionOnSet(f, V) = g[V]
        BY <2>3 DEF SumFunctionOnSet, FoldFunctionOnSet, MapThenFoldSet, Unfolds
    <2> QED
        BY <2>6, <2>7
<1>4. {} \in SUBSET U /\ \A s \in SUBSET U : \A x \in s : s \ {x} \in SUBSET U
    OBVIOUS
<1> QED
    BY <1>2, <1>3, <1>4 DEF SumAdds, Adds

\* A part has no more than the whole.
LEMMA SumGrows ==
    ASSUME NEW U, IsFiniteSet(U), NEW f, Numbers(f, U), NEW s \in SUBSET U
    PROVE  SumFunctionOnSet(f, s) <= SumFunctionOnSet(f, U)
<1> DEFINE Bad == {t \in SUBSET U : s \subseteq t /\ ~(SumFunctionOnSet(f, s) <= SumFunctionOnSet(f, t))}
<1> SUFFICES ASSUME Bad # {} PROVE FALSE
    BY DEF Bad
<1>0. SumAdds(f, U)
    BY SumOf
<1>1. Bad \in SUBSET SUBSET U
    OBVIOUS
<1> HIDE DEF Bad
<1>2. PICK t \in Bad : Smallest(t, Bad)
    BY <1>1, SmallestPart
<1>3. t \in SUBSET U /\ s \subseteq t /\ ~(SumFunctionOnSet(f, s) <= SumFunctionOnSet(f, t))
    BY <1>2 DEF Bad
<1>4. SumFunctionOnSet(f, s) \in Nat
    BY <1>0 DEF SumAdds
<1>5. s # t
    BY <1>3, <1>4
<1>6. PICK x \in t : x \notin s
    BY <1>3, <1>5
<1>7. t \ {x} \in SUBSET U /\ s \subseteq t \ {x} /\ t \ {x} \subseteq t /\ t \ {x} # t
    BY <1>3, <1>6
<1>8. t \ {x} \notin Bad
    BY <1>2, <1>7 DEF Smallest
<1>9. SumFunctionOnSet(f, s) <= SumFunctionOnSet(f, t \ {x})
    BY <1>7, <1>8 DEF Bad
<1>10. /\ SumFunctionOnSet(f, t) = f[x] + SumFunctionOnSet(f, t \ {x})
       /\ SumFunctionOnSet(f, t \ {x}) \in Nat
    BY <1>0, <1>3, <1>6, <1>7 DEF SumAdds
<1>11. f[x] \in Nat
    BY <1>3, <1>6 DEF Numbers
<1> QED
    BY <1>3, <1>4, <1>9, <1>10, <1>11

\* The sum depends on the summands only.
LEMMA SameSum ==
    ASSUME NEW U, IsFiniteSet(U), NEW f, NEW g, Numbers(f, U), \A x \in U : g[x] = f[x]
    PROVE  SumFunctionOnSet(g, U) = SumFunctionOnSet(f, U)
<1>1. Numbers(g, U)
    BY DEF Numbers
<1>2. SumAdds(f, U) /\ SumAdds(g, U)
    BY <1>1, SumOf
<1>3. PICK h, k : /\ h = [s \in SUBSET U |-> SumFunctionOnSet(f, s)]
                  /\ k = [s \in SUBSET U |-> SumFunctionOnSet(g, s)]
    OBVIOUS
<1>4. /\ {} \in SUBSET U /\ U \in SUBSET U
      /\ \A s \in SUBSET U : h[s] = SumFunctionOnSet(f, s) /\ k[s] = SumFunctionOnSet(g, s)
      /\ \A s \in SUBSET U : \A x \in s : s \ {x} \in SUBSET U /\ g[x] = f[x]
    BY <1>3
<1>5. Adds(h, f, U) /\ Adds(k, f, U)
    BY <1>2, <1>4 DEF SumAdds, Adds
<1>6. \A s \in SUBSET U : h[s] = k[s]
    BY <1>4, <1>5, OneSum
<1> QED
    BY <1>4, <1>6

--------------------------------------------------------------------------------
(* What the loop leaves *)

\* A listing of a finite set names each of its elements once.
LEMMA Listed ==
    ASSUME NEW S, IsFiniteSet(S), NEW stamp, NEW entries \in OldestFirst(S, stamp)
    PROVE  /\ entries \in Seq(S) /\ ToSet(entries) = S
           /\ \A i, k \in 1..Len(entries) : entries[i] = entries[k] => i = k
           /\ \A i, k \in 1..Len(entries) : i < k => stamp[entries[i]] <= stamp[entries[k]]
<1>1. Cardinality(S) \in Nat
    BY FS_CardinalityType
<1>2. PICK D : D = 1..Cardinality(S)
    OBVIOUS
<1>3. /\ entries \in [D -> S] /\ \A i, k \in D : i # k => entries[i] # entries[k]
      /\ \A i, k \in D : i < k => stamp[entries[i]] <= stamp[entries[k]]
    BY <1>2 DEF OldestFirst, SetToSeqs
<1>4. entries \in Seq(S) /\ D = 1..Len(entries)
    BY <1>1, <1>2, <1>3
<1>5. ToSet(entries) = S
    <2>1. entries \in Injection(D, S)
        BY <1>3 DEF Injection, IsInjective
    <2>2. IsFiniteSet(D) /\ Cardinality(D) = Cardinality(S)
        BY <1>1, <1>2, FS_Interval
    <2>3. entries \in Surjection(D, S)
        BY <2>1, <2>2, FS_Injection
    <2> QED
        BY <1>3, <2>3 DEF Surjection, ToSet
<1> QED
    BY <1>3, <1>4, <1>5

\* What an entry that is not removed says of those after it: they are younger,
\* so none is over age, and the total no longer shrinks.
Stops(entries, size, stamp, at, m) ==
    ~OverSize(LeftFrom(entries, size, m + 1)) /\ ~OverAge(at, stamp[entries[m + 1]])

CutAt(after, entries, size, stamp, at, i, m) ==
    /\ after[i] = [total |-> LeftFrom(entries, size, m + 1), removed |-> SubSeq(entries, 1, m)]
    /\ m < i => Stops(entries, size, stamp, at, m)

\* Nothing is over age that is younger than something that is not.
LEMMA StaysYoung ==
    ASSUME NEW at \in Nat, NEW x \in Nat, NEW y \in Nat, x <= y, ~OverAge(at, x)
    PROVE  ~OverAge(at, y)
BY DiskManagerAssumption DEF OverAge

\* The loop removes the entries of a sorted listing up to one position.
LEMMA RemovedIsPrefix ==
    ASSUME NEW F, NEW entries \in Seq(F), NEW size \in [F -> Nat], NEW stamp, NEW at \in Nat,
           \A i \in 1..Len(entries) : stamp[entries[i]] \in Nat,
           \A i, k \in 1..Len(entries) : i < k => stamp[entries[i]] <= stamp[entries[k]]
    PROVE  \E m \in 0..Len(entries) :
              /\ Removed(entries, size, stamp, at) = SubSeq(entries, 1, m)
              /\ MaxBytes > 0 => LeftFrom(entries, size, m + 1) <= MaxBytes
<1>0. PICK n, a : n = Len(entries) /\ a = PrunePass(entries, size, stamp, at)
    OBVIOUS
<1>1. /\ n \in Nat /\ \A i \in 1..n : entries[i] \in F /\ stamp[entries[i]] \in Nat
      /\ \A i, k \in 1..n : i < k => stamp[entries[i]] <= stamp[entries[k]]
    BY <1>0
<1>2. MaxBytes \in Nat /\ MaxAge \in Nat
    BY DiskManagerAssumption
<1>3. Passes(a, entries, size, stamp, at)
    BY <1>0, PassOf
<1>4. LeftOK(entries, size) /\ LeftFrom(entries, size, n + 1) = 0
    <2>1. LeftOK(entries, size)
        BY LeftOf
    <2>2. Bytes(entries, size) \in Nat
        BY <2>1 DEF LeftOK
    <2> QED
        BY <1>0, <1>1, <2>1, <2>2 DEF LeftFrom, Bytes
<1>5. \A m \in 0..n : LeftFrom(entries, size, m + 1) \in Nat
    BY <1>0, <1>1, <1>4 DEF LeftOK
<1> DEFINE S == {i \in 0..n : \E m \in 0..i : CutAt(a, entries, size, stamp, at, i, m)}
<1>6. 0 \in S
    <2>1. SubSeq(entries, 1, 0) = <<>>
        OBVIOUS
    <2>2. a[0] = [total |-> LeftFrom(entries, size, 1), removed |-> SubSeq(entries, 1, 0)]
        BY <1>3, <1>4, <2>1 DEF Passes, LeftOK
    <2>3. CutAt(a, entries, size, stamp, at, 0, 0)
        BY <2>2 DEF CutAt
    <2> QED
        BY <1>1, <2>3
<1>7. ASSUME NEW i \in 1..n, i - 1 \in S PROVE i \in S
    <2>1. PICK m \in 0..(i - 1) : CutAt(a, entries, size, stamp, at, i - 1, m)
        BY <1>7
    <2>2. /\ a[i - 1].total = LeftFrom(entries, size, m + 1)
          /\ a[i - 1].removed = SubSeq(entries, 1, m)
          /\ m < i - 1 => Stops(entries, size, stamp, at, m)
        BY <2>1 DEF CutAt
    <2>3. a[i] = LoopBody(a[i - 1], entries[i], size, stamp, at)
        BY <1>0, <1>3 DEF Passes
    <2>4. i \in 0..n /\ m \in 0..i /\ m < i
        BY <1>1
    <2>5. CASE Stops(entries, size, stamp, at, m)
        <3>1. ~OverAge(at, stamp[entries[i]])
            <4>1. stamp[entries[m + 1]] <= stamp[entries[i]]
                <5>1. m + 1 \in 1..n /\ (m + 1 < i \/ m + 1 = i)
                    BY <1>1, <2>4
                <5>2. stamp[entries[i]] \in Nat
                    BY <1>1
                <5> QED
                    BY <1>1, <5>1, <5>2
            <4>2. stamp[entries[m + 1]] \in Nat /\ stamp[entries[i]] \in Nat
                BY <1>1, <2>4
            <4> QED
                BY <2>5, <4>1, <4>2, StaysYoung DEF Stops
        <3>2. a[i] = a[i - 1]
            BY <2>2, <2>3, <2>5, <3>1 DEF Stops, LoopBody
        <3>3. CutAt(a, entries, size, stamp, at, i, m)
            BY <2>1, <2>5, <3>2 DEF CutAt
        <3> QED
            BY <2>4, <3>3
    <2>6. CASE ~Stops(entries, size, stamp, at, m)
        <3>1. m = i - 1 /\ m + 1 = i
            BY <1>1, <2>2, <2>6
        <3>2. a[i] = [total |-> LeftFrom(entries, size, i) - size[entries[i]],
                      removed |-> Append(SubSeq(entries, 1, i - 1), entries[i])]
            BY <2>2, <2>3, <2>6, <3>1 DEF Stops, LoopBody
        <3>3. LeftFrom(entries, size, i) - size[entries[i]] = LeftFrom(entries, size, i + 1)
            <4>1. /\ LeftFrom(entries, size, i) = size[entries[i]] + LeftFrom(entries, size, i + 1)
                  /\ size[entries[i]] \in Nat
                BY <1>0, <1>4 DEF LeftOK
            <4>2. LeftFrom(entries, size, i + 1) \in Nat
                BY <1>5
            <4> QED
                BY <4>1, <4>2
        <3>4. Append(SubSeq(entries, 1, i - 1), entries[i]) = SubSeq(entries, 1, i)
            BY <1>0, <1>1
        <3>5. CutAt(a, entries, size, stamp, at, i, i)
            <4>1. a[i] = [total |-> LeftFrom(entries, size, i + 1), removed |-> SubSeq(entries, 1, i)]
                BY <3>2, <3>3, <3>4
            <4>2. ~(i < i)
                BY <1>1
            <4> QED
                BY <4>1, <4>2 DEF CutAt
        <3> QED
            BY <2>4, <3>5
    <2> QED
        BY <2>5, <2>6
<1>8. n \in S
    <2>1. S \in SUBSET (0..n)
        OBVIOUS
    <2> HIDE DEF S
    <2>2. S = 0..n
        BY <1>1, <1>6, <1>7, <2>1, Reaches
    <2> QED
        BY <1>1, <2>2
<1>9. PICK m \in 0..n : CutAt(a, entries, size, stamp, at, n, m)
    BY <1>8
<1>10. CASE NoLimits
    <2>1. Removed(entries, size, stamp, at) = SubSeq(entries, 1, 0) /\ ~(MaxBytes > 0)
        BY <1>2, <1>10 DEF Removed, NoLimits
    <2>2. 0 \in 0..Len(entries)
        OBVIOUS
    <2> QED
        BY <2>1, <2>2
<1>11. CASE ~NoLimits
    <2>1. Removed(entries, size, stamp, at) = SubSeq(entries, 1, m)
        BY <1>0, <1>9, <1>11 DEF Removed, CutAt
    <2>2. ASSUME MaxBytes > 0 PROVE LeftFrom(entries, size, m + 1) <= MaxBytes
        <3>1. CASE m = n
            BY <1>2, <1>4, <3>1
        <3>2. CASE m < n
            <4>1. ~OverSize(LeftFrom(entries, size, m + 1))
                BY <1>9, <3>2 DEF CutAt, Stops
            <4> QED
                BY <1>2, <1>5, <2>2, <4>1 DEF OverSize
        <3> QED
            BY <1>1, <3>1, <3>2
    <2> QED
        BY <1>0, <2>1, <2>2
<1> QED
    BY <1>10, <1>11

\* The sizes of the entries from a position on, as a sum over their set.
LEMMA SumOfRest ==
    ASSUME NEW F, NEW entries \in Seq(F), NEW size \in [F -> Nat], SumAdds(size, ToSet(entries)),
           \A i, k \in 1..Len(entries) : entries[i] = entries[k] => i = k,
           NEW i \in 1..(Len(entries) + 1)
    PROVE  SumFunctionOnSet(size, {entries[k] : k \in i..Len(entries)}) = LeftFrom(entries, size, i)
<1>0. PICK n : n = Len(entries)
    OBVIOUS
<1>1. n \in Nat /\ DOMAIN entries = 1..n /\ i \in 1..(n + 1)
    BY <1>0
<1> DEFINE Rest(k) == {entries[j] : j \in k..n}
           S == {d \in 0..n : SumFunctionOnSet(size, Rest(n + 1 - d)) = LeftFrom(entries, size, n + 1 - d)}
<1>2. LeftOK(entries, size) /\ LeftFrom(entries, size, n + 1) = 0
    <2>1. LeftOK(entries, size)
        BY LeftOf
    <2>2. Bytes(entries, size) \in Nat
        BY <2>1 DEF LeftOK
    <2> QED
        BY <1>0, <1>1, <2>1, <2>2 DEF LeftFrom, Bytes
<1>3. 0 \in S
    <2>1. n + 1 - 0 = n + 1 /\ (n + 1)..n = {}
        BY <1>1
    <2>2. Rest(n + 1) = {}
        BY <2>1
    <2>3. SumFunctionOnSet(size, {}) = 0
        BY DEF SumAdds
    <2> HIDE DEF Rest
    <2>4. SumFunctionOnSet(size, Rest(n + 1 - 0)) = LeftFrom(entries, size, n + 1 - 0)
        BY <1>2, <2>1, <2>2, <2>3
    <2> QED
        BY <1>1, <2>4
<1>4. ASSUME NEW d \in 1..n, d - 1 \in S PROVE d \in S
    <2>0. PICK k : k = n + 1 - d
        OBVIOUS
    <2>1. k \in 1..n /\ n + 1 - (d - 1) = k + 1 /\ d \in 0..n
        BY <1>1, <2>0
    <2>2. SumFunctionOnSet(size, Rest(k + 1)) = LeftFrom(entries, size, k + 1)
        BY <1>4, <2>1
    <2>3. Rest(k) \in SUBSET ToSet(entries) /\ entries[k] \in Rest(k)
        <3>1. \A j \in k..n : j \in 1..n
            BY <1>1, <2>1
        <3>2. k \in k..n
            BY <1>1, <2>1
        <3> QED
            BY <1>1, <3>1, <3>2 DEF ToSet
    <2>4. Rest(k) \ {entries[k]} = Rest(k + 1)
        <3>1. \A j \in k..n : j = k \/ j \in (k + 1)..n
            BY <1>1, <2>1
        <3>2. \A j \in (k + 1)..n : j \in k..n /\ j # k /\ j \in 1..n
            BY <1>1, <2>1
        <3>3. \A j \in (k + 1)..n : entries[j] # entries[k]
            BY <1>0, <2>1, <3>2
        <3> QED
            BY <3>1, <3>2, <3>3
    <2> HIDE DEF Rest
    <2>5. SumFunctionOnSet(size, Rest(k)) = size[entries[k]] + SumFunctionOnSet(size, Rest(k) \ {entries[k]})
        BY <2>3 DEF SumAdds
    <2>6. LeftFrom(entries, size, k) = size[entries[k]] + LeftFrom(entries, size, k + 1)
        BY <1>0, <1>2, <2>1 DEF LeftOK
    <2> QED
        BY <2>0, <2>1, <2>2, <2>4, <2>5, <2>6
<1>5. n + 1 - i \in S
    <2>1. S \in SUBSET (0..n)
        OBVIOUS
    <2> HIDE DEF S
    <2>2. S = 0..n
        BY <1>1, <1>3, <1>4, <2>1, Reaches
    <2>3. n + 1 - i \in 0..n
        BY <1>1
    <2> QED
        BY <2>2, <2>3
<1>6. n + 1 - (n + 1 - i) = i
    BY <1>1
<1> QED
    BY <1>0, <1>5, <1>6

\* A directory: some of the files of F, which have sizes and time stamps.
Directory(S, F, size, stamp) ==
    S \subseteq F /\ IsFiniteSet(S) /\ size \in [F -> Nat] /\ \A f \in S : stamp[f] \in Nat

\* Some of the files of S, none of them newer than one that is not among them.
AreOldest(taken, S, stamp) ==
    taken \in SUBSET S /\ \A f \in taken : \A g \in S \ taken : stamp[f] <= stamp[g]

\* What a pass over a directory, or its first removals, take away: the oldest
\* entries, and all that do not fit.
LEMMA PassLeaves ==
    ASSUME NEW F, NEW S, NEW size, NEW stamp, Directory(S, F, size, stamp), NEW at \in Nat,
           NEW entries \in OldestFirst(S, stamp), NEW removed, removed = Removed(entries, size, stamp, at),
           NEW k \in 0..Len(removed), NEW taken, taken = ToSet(SubSeq(removed, 1, k))
    PROVE  /\ removed \in Seq(S) /\ AreOldest(taken, S, stamp)
           /\ MaxBytes > 0 /\ k = Len(removed) => SumFunctionOnSet(size, S \ taken) <= MaxBytes
<1> USE DEF Directory
<1>1. /\ entries \in Seq(S) /\ ToSet(entries) = S
      /\ \A i, j \in 1..Len(entries) : entries[i] = entries[j] => i = j
      /\ \A i, j \in 1..Len(entries) : i < j => stamp[entries[i]] <= stamp[entries[j]]
    BY Listed
<1>0. PICK n : n = Len(entries)
    OBVIOUS
<1>2. n \in Nat /\ DOMAIN entries = 1..n /\ entries \in Seq(F) /\ \A i \in 1..n : entries[i] \in S
    BY <1>0, <1>1
<1>3. PICK m \in 0..n : /\ removed = SubSeq(entries, 1, m)
                        /\ MaxBytes > 0 => LeftFrom(entries, size, m + 1) <= MaxBytes
    BY <1>0, <1>1, <1>2, RemovedIsPrefix
<1>4. removed \in Seq(S) /\ Len(removed) = m /\ k \in 0..m
    BY <1>0, <1>1, <1>2, <1>3
<1>5. SubSeq(removed, 1, k) = SubSeq(entries, 1, k)
    BY <1>0, <1>1, <1>2, <1>3, <1>4
<1>6. taken = {entries[i] : i \in 1..k}
    <2>1. /\ DOMAIN SubSeq(entries, 1, k) = 1..k
          /\ \A i \in 1..k : SubSeq(entries, 1, k)[i] = entries[i]
        BY <1>0, <1>1, <1>2, <1>4
    <2> QED
        BY <1>5, <2>1 DEF ToSet
<1>7. 1..n = 1..k \cup (k + 1)..n /\ \A i \in 1..k : \A j \in (k + 1)..n : i < j /\ i \in 1..n /\ j \in 1..n
    BY <1>2, <1>4
<1>8. S \ taken = {entries[j] : j \in (k + 1)..n}
    <2>1. S = {entries[j] : j \in 1..n}
        BY <1>1, <1>2 DEF ToSet
    <2>2. \A i \in 1..k : \A j \in (k + 1)..n : entries[i] # entries[j]
        BY <1>0, <1>1, <1>2, <1>4, <1>7
    <2> QED
        BY <1>6, <1>7, <2>1, <2>2
<1>9. \A f \in taken : \A g \in S \ taken : stamp[f] <= stamp[g]
    BY <1>0, <1>1, <1>6, <1>7, <1>8
<1>10. ASSUME MaxBytes > 0, k = Len(removed) PROVE SumFunctionOnSet(size, S \ taken) <= MaxBytes
    <2>1. Numbers(size, S)
        BY DEF Numbers
    <2>2. SumAdds(size, ToSet(entries))
        BY <1>1, <2>1, SumOf
    <2>3. k + 1 \in 1..(n + 1) /\ k = m
        BY <1>2, <1>4, <1>10
    <2>4. SumFunctionOnSet(size, {entries[j] : j \in (k + 1)..n}) = LeftFrom(entries, size, k + 1)
        <3>1. PICK i : i = k + 1
            OBVIOUS
        <3>2. i \in 1..(Len(entries) + 1)
            BY <1>0, <2>3, <3>1
        <3>3. SumFunctionOnSet(size, {entries[j] : j \in i..Len(entries)}) = LeftFrom(entries, size, i)
            BY <1>1, <1>2, <2>2, <3>2, SumOfRest
        <3> QED
            BY <1>0, <3>1, <3>3
    <2> QED
        BY <1>3, <1>8, <1>10, <2>3, <2>4
<1>11. taken \in SUBSET S
    BY <1>2, <1>6, <1>7
<1> QED
    BY <1>4, <1>9, <1>10, <1>11 DEF AreOldest

\* A pass removes what it has listed.
LEMMA RemovedListed ==
    ASSUME NEW F, NEW S, NEW size, NEW stamp, Directory(S, F, size, stamp), NEW at \in Nat,
           NEW entries \in OldestFirst(S, stamp)
    PROVE  Removed(entries, size, stamp, at) \in Seq(S)
<1> USE DEF Directory
<1>1. /\ entries \in Seq(S) /\ \A i \in 1..Len(entries) : entries[i] \in S
      /\ \A i, k \in 1..Len(entries) : i < k => stamp[entries[i]] <= stamp[entries[k]]
    BY Listed
<1>2. entries \in Seq(F) /\ \A i \in 1..Len(entries) : stamp[entries[i]] \in Nat
    BY <1>1
<1>3. PICK m \in 0..Len(entries) : Removed(entries, size, stamp, at) = SubSeq(entries, 1, m)
    BY <1>1, <1>2, RemovedIsPrefix
<1> QED
    BY <1>1, <1>3
================================================================================
