-------------------------- MODULE CommandLine_proofs --------------------------
(***************************************************************************)
(* For every set of arguments, every command line, all factors and all     *)
(* widths: a daemon that runs has the limits it was asked for.             *)
(***************************************************************************)
EXTENDS CommandLine, TLAPS

\* A factor of at least one leaves a product in range only for a number that is
\* in range itself.
LEMMA FactorInRange ==
    ASSUME NEW n \in Int, NEW k \in Nat \ {0}, NEW w \in Nat \ {0}, n * k \in 0..(w - 1)
    PROVE  n \in 0..(w - 1)
<1>1. n >= 0
    <2>1. SUFFICES ASSUME n < 0 PROVE FALSE
        OBVIOUS
    <2>2. -n \in Nat /\ -n >= 1
        BY <2>1
    <2>3. (-n) * k >= 1
        BY <2>2
    <2>4. n * k = -((-n) * k)
        OBVIOUS
    <2> QED
        BY <2>3, <2>4
<1>2. n * k >= n
    <2>1. k = 1 + (k - 1) /\ k - 1 \in Nat
        OBVIOUS
    <2>2. n * (k - 1) >= 0
        BY <1>1, <2>1
    <2>3. n * k = n + n * (k - 1)
        OBVIOUS
    <2> QED
        BY <2>2, <2>3
<1> QED
    BY <1>1, <1>2

\* Such a number is its own remainder.
LEMMA ModInRange ==
    ASSUME NEW n \in Int, NEW w \in Nat \ {0}, n \in 0..(w - 1)
    PROVE  n % w = n
OBVIOUS

\* No suffix makes a number smaller.
LEMMA UnitsArePositive ==
    /\ \A u \in DOMAIN SizeUnits : SizeUnits[u] \in Nat \ {0}
    /\ \A u \in DOMAIN AgeUnits : AgeUnits[u] \in Nat \ {0}
<1>1. Kilo \in Nat \ {0} /\ Hour \in Nat \ {0} /\ Day \in Nat \ {0}
    BY CommandLineAssumption
<1>2. Kilo * Kilo \in Nat \ {0}
    BY <1>1
<1>3. Kilo * Kilo * Kilo \in Nat \ {0}
    BY <1>1, <1>2
<1>4. ASSUME NEW u \in DOMAIN SizeUnits PROVE SizeUnits[u] \in Nat \ {0}
    <2>1. SizeUnits[u] \in {1, Kilo, Kilo * Kilo, Kilo * Kilo * Kilo}
        BY <1>4 DEF SizeUnits
    <2> QED
        BY <1>1, <1>2, <1>3, <2>1
<1>5. ASSUME NEW u \in DOMAIN AgeUnits PROVE AgeUnits[u] \in Nat \ {0}
    <2>1. AgeUnits[u] \in {1, Hour, Day}
        BY <1>5 DEF AgeUnits
    <2> QED
        BY <1>1, <2>1
<1> QED
    BY <1>4, <1>5

\* A number that is in range with its suffix is parsed to what it means.
LEMMA SizeMeans ==
    ASSUME NEW text, text.num \in Int, Parses(text, SizeUnits),
           text.num * SizeUnits[text.unit] \in 0..(Width64 - 1)
    PROVE  ParseSize(text) = text.num * SizeUnits[text.unit]
<1> DEFINE unit == SizeUnits[text.unit]
<1>1. unit \in Nat \ {0}
    BY UnitsArePositive DEF Parses
<1>2. text.num \in 0..(Width64 - 1)
    <2> HIDE DEF unit
    <2>1. text.num * unit \in 0..(Width64 - 1)
        BY DEF unit
    <2> QED
        BY <1>1, <2>1, FactorInRange, CommandLineAssumption
<1>3. ToUnsigned(text.num) = text.num
    BY <1>2, ModInRange, CommandLineAssumption DEF ToUnsigned
<1>4. (text.num * unit) % Width64 = text.num * unit
    <2> HIDE DEF unit
    <2>1. text.num * unit \in 0..(Width64 - 1) /\ text.num * unit \in Int
        BY <1>1 DEF unit
    <2> QED
        BY <2>1, ModInRange, CommandLineAssumption
<1> QED
    BY <1>3, <1>4 DEF ParseSize

\* The same for ages, although the number is cut to 32 bits first.
LEMMA AgeMeans ==
    ASSUME NEW text, text.num \in Int, Parses(text, AgeUnits),
           text.num * AgeUnits[text.unit] \in 0..(Width32 - 1)
    PROVE  ParseAge(text) = text.num * AgeUnits[text.unit]
<1> DEFINE unit == AgeUnits[text.unit]
<1>1. unit \in Nat \ {0}
    BY UnitsArePositive DEF Parses
<1>2. text.num \in 0..(Width32 - 1)
    <2> HIDE DEF unit
    <2>1. text.num * unit \in 0..(Width32 - 1)
        BY DEF unit
    <2> QED
        BY <1>1, <2>1, FactorInRange, CommandLineAssumption
<1>3. ToUnsigned(text.num) % Width32 = text.num
    <2>1. ToUnsigned(text.num) = text.num
        BY <1>2, ModInRange, CommandLineAssumption DEF ToUnsigned
    <2> QED
        BY <1>2, <2>1, ModInRange, CommandLineAssumption
<1>4. (text.num * unit) % Width32 = text.num * unit
    <2> HIDE DEF unit
    <2>1. text.num * unit \in 0..(Width32 - 1) /\ text.num * unit \in Int
        BY <1>1 DEF unit
    <2> QED
        BY <2>1, ModInRange, CommandLineAssumption
<1> QED
    BY <1>3, <1>4 DEF ParseAge

\* Whatever the text, a limit is a natural number.
LEMMA LimitsAreNat ==
    ASSUME NEW arg \in Arguments
    PROVE  ParseSize(arg) \in Nat /\ ParseAge(arg) \in Nat
<1>1. CASE arg.num = NoDigits
    BY <1>1 DEF ParseSize, ParseAge, Parses
<1>2. CASE arg.num \in Int
    <2>1. ToUnsigned(arg.num) \in Nat
        BY <1>2, CommandLineAssumption DEF ToUnsigned
    <2>2. ASSUME Parses(arg, SizeUnits) PROVE ParseSize(arg) \in Nat
        <3>2. SizeUnits[arg.unit] \in Nat
            BY <2>2, UnitsArePositive DEF Parses
        <3>3. ToUnsigned(arg.num) * SizeUnits[arg.unit] \in Nat
            BY <2>1, <3>2
        <3> QED
            BY <2>2, <3>3, CommandLineAssumption DEF ParseSize
    <2>3. ASSUME Parses(arg, AgeUnits) PROVE ParseAge(arg) \in Nat
        <3>1. AgeUnits[arg.unit] \in Nat
            BY <2>3, UnitsArePositive DEF Parses
        <3>2. ToUnsigned(arg.num) % Width32 \in Nat
            BY <2>1, CommandLineAssumption
        <3>3. (ToUnsigned(arg.num) % Width32) * AgeUnits[arg.unit] \in Nat
            BY <3>1, <3>2
        <3> QED
            BY <2>3, <3>3, CommandLineAssumption DEF ParseAge
    <2> QED
        BY <2>2, <2>3 DEF ParseSize, ParseAge
<1> QED
    BY <1>1, <1>2, CommandLineAssumption

--------------------------------------------------------------------------------
(* The loop over the arguments *)

Said(key, i) == i \in 1..(next - 1) /\ given[i].key = key
Newest(key, i) == Said(key, i) /\ \A j \in (i + 1)..(next - 1) : ~Said(key, j)

BytesSoFar ==
    \/ config.max_bytes = 0 /\ \A i \in 1..(next - 1) : ~Said("--max-size", i)
    \/ \E i \in 1..(next - 1) : Newest("--max-size", i) /\ config.max_bytes = ParseSize(given[i])
AgeSoFar ==
    \/ config.max_age_seconds = 0 /\ \A i \in 1..(next - 1) : ~Said("--max-age", i)
    \/ \E i \in 1..(next - 1) : Newest("--max-age", i) /\ config.max_age_seconds = ParseAge(given[i])

\* A limit is what the newest argument of its kind says, and 0 before there is
\* one; a daemon that runs has read them all.
IInv ==
    /\ given \in Seq(Arguments) /\ next \in 1..(Len(given) + 1)
    /\ state = "running" => next = Len(given) + 1
    /\ config \in [max_bytes : Nat, max_age_seconds : Nat, patch_build_ids : BOOLEAN]
    /\ BytesSoFar /\ AgeSoFar

\* Before the first argument the limits are the defaults.
LEMMA InitIInv == Init => IInv
BY CommandLineAssumption DEF Init, IInv, BytesSoFar, AgeSoFar, Defaults, Said, Newest

\* An argument is the newest of its kind when it is taken.
LEMMA StepIInv == IInv /\ [Next]_vars => IInv'
<1> SUFFICES ASSUME IInv, [Next]_vars PROVE IInv'
    OBVIOUS
<1>1. CASE TakeArgument
    <2>1. CASE ~Accepted(given[next])
        <3>1. state' = "refused" /\ UNCHANGED <<config, next, given>>
            BY <1>1, <2>1 DEF TakeArgument
        <3> QED
            BY <3>1 DEF IInv, BytesSoFar, AgeSoFar, Said, Newest
    <2>2. CASE Accepted(given[next])
        <3>0. /\ config' = With(given[next]) /\ next' = next + 1 /\ next <= Len(given)
              /\ UNCHANGED <<given, state>> /\ state = "parsing"
            BY <1>1, <2>2 DEF TakeArgument
        <3>1. given[next] \in Arguments /\ next \in Nat \ {0}
            BY <3>0 DEF IInv
        <3>2. PICK arg \in Arguments, n \in Nat \ {0} : arg = given[next] /\ n = next
            BY <3>1
        <3>3. given' = given /\ n = next /\ arg = given[n] /\ next' = next + 1
              /\ next' \in 1..(Len(given') + 1) /\ state' = "parsing" /\ Len(given) \in Nat
              /\ given' \in Seq(Arguments)
            BY <3>0, <3>2 DEF IInv
        <3>4. ParseSize(arg) \in Nat /\ ParseAge(arg) \in Nat
            BY LimitsAreNat
        <3>5. config \in [max_bytes : Nat, max_age_seconds : Nat, patch_build_ids : BOOLEAN]
            BY DEF IInv
        <3>6. ASSUME NEW key, arg.key # key
              PROVE  \A i : (Said(key, i)' <=> Said(key, i)) /\ (Newest(key, i)' <=> Newest(key, i))
            <4>1. \A i : Said(key, i)' <=> Said(key, i)
                BY <3>3, <3>6 DEF Said
            <4> QED
                BY <3>3, <4>1 DEF Newest, Said
        <3>7. Newest(arg.key, n)' /\ n \in 1..(next' - 1)
            BY <3>3 DEF Newest, Said
        <3>8. arg.key # "--max-size" /\ config'.max_bytes = config.max_bytes => BytesSoFar'
            <4> SUFFICES ASSUME arg.key # "--max-size", config'.max_bytes = config.max_bytes
                         PROVE  BytesSoFar'
                OBVIOUS
            <4>1. CASE config.max_bytes = 0 /\ \A i \in 1..(next - 1) : ~Said("--max-size", i)
                <5>1. \A i : ~Said("--max-size", i)'
                    BY <4>1, <3>6 DEF Said
                <5> QED
                    BY <4>1, <5>1 DEF BytesSoFar
            <4>2. ASSUME NEW i \in 1..(next - 1), Newest("--max-size", i),
                         config.max_bytes = ParseSize(given[i])
                  PROVE  BytesSoFar'
                <5>1. Newest("--max-size", i)' /\ i \in 1..(next' - 1)
                    BY <4>2, <3>3, <3>6
                <5> QED
                    BY <4>2, <5>1, <3>3 DEF BytesSoFar
            <4> QED
                BY <4>1, <4>2 DEF IInv, BytesSoFar
        <3>9. arg.key # "--max-age" /\ config'.max_age_seconds = config.max_age_seconds => AgeSoFar'
            <4> SUFFICES ASSUME arg.key # "--max-age", config'.max_age_seconds = config.max_age_seconds
                         PROVE  AgeSoFar'
                OBVIOUS
            <4>1. CASE config.max_age_seconds = 0 /\ \A i \in 1..(next - 1) : ~Said("--max-age", i)
                <5>1. \A i : ~Said("--max-age", i)'
                    BY <4>1, <3>6 DEF Said
                <5> QED
                    BY <4>1, <5>1 DEF AgeSoFar
            <4>2. ASSUME NEW i \in 1..(next - 1), Newest("--max-age", i),
                         config.max_age_seconds = ParseAge(given[i])
                  PROVE  AgeSoFar'
                <5>1. Newest("--max-age", i)' /\ i \in 1..(next' - 1)
                    BY <4>2, <3>3, <3>6
                <5> QED
                    BY <4>2, <5>1, <3>3 DEF AgeSoFar
            <4> QED
                BY <4>1, <4>2 DEF IInv, AgeSoFar
        <3>10. config' \in [max_bytes : Nat, max_age_seconds : Nat, patch_build_ids : BOOLEAN]
            BY <3>0, <3>3, <3>4, <3>5 DEF With
        <3>11. BytesSoFar'
            <4>1. CASE arg.key = "--max-size"
                <5>1. config'.max_bytes = ParseSize(given'[n])
                    BY <3>0, <3>3, <3>5, <4>1 DEF With
                <5> QED
                    BY <3>3, <3>7, <4>1, <5>1 DEF BytesSoFar
            <4>2. CASE arg.key # "--max-size"
                <5>1. config'.max_bytes = config.max_bytes
                    BY <3>0, <3>3, <3>4, <3>5, <4>2 DEF With
                <5> QED
                    BY <3>8, <4>2, <5>1
            <4> QED
                BY <4>1, <4>2
        <3>12. AgeSoFar'
            <4>1. CASE arg.key = "--max-age"
                <5>1. config'.max_age_seconds = ParseAge(given'[n])
                    BY <3>0, <3>3, <3>5, <4>1 DEF With
                <5> QED
                    BY <3>3, <3>7, <4>1, <5>1 DEF AgeSoFar
            <4>2. CASE arg.key # "--max-age"
                <5>1. config'.max_age_seconds = config.max_age_seconds
                    BY <3>0, <3>3, <3>4, <3>5, <4>2 DEF With
                <5> QED
                    BY <3>9, <4>2, <5>1
            <4> QED
                BY <4>1, <4>2
        <3> QED
            BY <3>3, <3>10, <3>11, <3>12 DEF IInv
    <2> QED
        BY <2>1, <2>2
<1>2. CASE RunWatcher
    <2>1. UNCHANGED <<given, next, config>> /\ next > Len(given)
        BY <1>2 DEF RunWatcher
    <2>2. BytesSoFar' /\ AgeSoFar'
        BY <2>1 DEF IInv, BytesSoFar, AgeSoFar, Said, Newest
    <2>3. next = Len(given) + 1
        BY <2>1 DEF IInv
    <2> QED
        BY <2>1, <2>2, <2>3 DEF IInv
<1>3. CASE UNCHANGED vars
    BY <1>3 DEF vars, IInv, BytesSoFar, AgeSoFar, Said, Newest
<1> QED
    BY <1>1, <1>2, <1>3 DEF Next

\* A daemon that runs enforces the limits of the newest options that were given
\* (main, ParseSize and ParseAge), whenever these fit.
THEOREM CommandLineLimitsAsAsked == Spec => []LimitsAsAsked
<1>1. IInv => LimitsAsAsked
    <2> SUFFICES ASSUME IInv, state = "running" PROVE LimitsAsAsked
        BY DEF LimitsAsAsked
    <2>1. given \in Seq(Arguments) /\ next - 1 = Len(given) /\ Len(given) \in Nat
          /\ DOMAIN given = 1..Len(given)
        BY DEF IInv
    <2>2. Asked("--max-size", SizeUnits) \in 0..(Width64 - 1)
              => config.max_bytes = Asked("--max-size", SizeUnits)
        <3>1. CASE config.max_bytes = 0 /\ \A i \in 1..(next - 1) : ~Said("--max-size", i)
            BY <2>1, <3>1 DEF Asked, Said
        <3>2. ASSUME NEW i \in 1..(next - 1), Newest("--max-size", i),
                     config.max_bytes = ParseSize(given[i]),
                     Asked("--max-size", SizeUnits) \in 0..(Width64 - 1)
              PROVE  config.max_bytes = Asked("--max-size", SizeUnits)
            <4> DEFINE of == {k \in DOMAIN given : given[k].key = "--max-size"}
                       last == CHOOSE k \in of : \A j \in of : j <= k
            <4>1. i \in of /\ (\A j \in of : j <= i) /\ of \subseteq 1..Len(given)
                BY <2>1, <3>2 DEF Newest, Said
            <4>2. last = i
                <5>1. last \in of /\ i <= last
                    BY <4>1
                <5> QED
                    BY <4>1, <5>1
            <4>3. Asked("--max-size", SizeUnits) =
                      IF Parses(given[i], SizeUnits)
                      THEN given[i].num * SizeUnits[given[i].unit] ELSE 0
                BY <4>1, <4>2 DEF Asked
            <4>4. given[i] \in Arguments
                BY <2>1
            <4>5. CASE Parses(given[i], SizeUnits)
                BY <3>2, <4>3, <4>4, <4>5, SizeMeans, CommandLineAssumption DEF Parses
            <4>6. CASE ~Parses(given[i], SizeUnits)
                BY <3>2, <4>3, <4>6 DEF ParseSize
            <4> QED
                BY <4>5, <4>6
        <3> QED
            BY <3>1, <3>2, SMTT(30) DEF IInv, BytesSoFar
    <2>3. Asked("--max-age", AgeUnits) \in 0..(Width32 - 1)
              => config.max_age_seconds = Asked("--max-age", AgeUnits)
        <3>1. CASE config.max_age_seconds = 0 /\ \A i \in 1..(next - 1) : ~Said("--max-age", i)
            BY <2>1, <3>1 DEF Asked, Said
        <3>2. ASSUME NEW i \in 1..(next - 1), Newest("--max-age", i),
                     config.max_age_seconds = ParseAge(given[i]),
                     Asked("--max-age", AgeUnits) \in 0..(Width32 - 1)
              PROVE  config.max_age_seconds = Asked("--max-age", AgeUnits)
            <4> DEFINE of == {k \in DOMAIN given : given[k].key = "--max-age"}
                       last == CHOOSE k \in of : \A j \in of : j <= k
            <4>1. i \in of /\ (\A j \in of : j <= i) /\ of \subseteq 1..Len(given)
                BY <2>1, <3>2 DEF Newest, Said
            <4>2. last = i
                <5>1. last \in of /\ i <= last
                    BY <4>1
                <5> QED
                    BY <4>1, <5>1
            <4>3. Asked("--max-age", AgeUnits) =
                      IF Parses(given[i], AgeUnits)
                      THEN given[i].num * AgeUnits[given[i].unit] ELSE 0
                BY <4>1, <4>2 DEF Asked
            <4>4. given[i] \in Arguments
                BY <2>1
            <4>5. CASE Parses(given[i], AgeUnits)
                BY <3>2, <4>3, <4>4, <4>5, AgeMeans, CommandLineAssumption DEF Parses
            <4>6. CASE ~Parses(given[i], AgeUnits)
                BY <3>2, <4>3, <4>6 DEF ParseAge
            <4> QED
                BY <4>5, <4>6
        <3> QED
            BY <3>1, <3>2, SMTT(30) DEF IInv, AgeSoFar
    <2> QED
        BY <2>2, <2>3 DEF LimitsAsAsked
<1> QED
    BY InitIInv, StepIInv, <1>1, PTL DEF Spec
================================================================================
