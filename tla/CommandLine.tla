------------------------------ MODULE CommandLine ------------------------------
(***************************************************************************)
(* main() of crashomon-watcherd (daemon/main.cpp): the arguments are read  *)
(* one after the other, a later one replaces an earlier one of its kind,   *)
(* and what they say of sizes and ages is computed in unsigned integers.   *)
(* The widths and factors are constants, so that small ones can be checked.*)
(***************************************************************************)
EXTENDS Integers, Sequences

CONSTANTS
    Arguments,   \* what may be given: records [key, num, unit]
    MaxArgs,     \* bound of the command line
    NoDigits,    \* the number of a text that does not begin with one
    Kilo, Hour, Day,
    Width64,     \* 2^64, the range of uint64_t and of unsigned long
    Width32      \* 2^32, the range of uint32_t

ASSUME CommandLineAssumption ==
    /\ \A a \in Arguments : a.num \in Int \cup {NoDigits}
    /\ {MaxArgs, Kilo, Hour, Day, Width32, Width64} \subseteq Nat \ {0}
    /\ Width32 <= Width64

VARIABLES
    given,   \* the command line
    next,    \* the index of the next argument
    config,  \* what main() hands to RunWatcher
    state    \* "parsing", "running" or "refused"

vars == <<given, next, config, state>>

Defaults == [max_bytes |-> 0, max_age_seconds |-> 0, patch_build_ids |-> TRUE]

Init ==
    /\ \E n \in 0..MaxArgs : given \in [1..n -> Arguments]
    /\ next = 1 /\ config = Defaults /\ state = "parsing"

--------------------------------------------------------------------------------
\* strtoull and strtoul saturate; a minus sign negates in the unsigned type.
ToUnsigned(n) == IF n >= Width64 \/ n <= -Width64 THEN Width64 - 1 ELSE n % Width64

SizeUnits ==
    [u \in {"", "B", "K", "KB", "M", "MB", "G", "GB"} |->
        IF u \in {"K", "KB"} THEN Kilo ELSE IF u \in {"M", "MB"} THEN Kilo * Kilo
        ELSE IF u \in {"G", "GB"} THEN Kilo * Kilo * Kilo ELSE 1]
AgeUnits == [u \in {"", "s", "h", "d"} |-> IF u = "h" THEN Hour ELSE IF u = "d" THEN Day ELSE 1]

Parses(text, units) == text.num # NoDigits /\ text.unit \in DOMAIN units

ParseSize(text) ==
    IF Parses(text, SizeUnits)
    THEN (ToUnsigned(text.num) * SizeUnits[text.unit]) % Width64 ELSE 0

\* The number is cut to 32 bits before it is multiplied.
ParseAge(text) ==
    IF Parses(text, AgeUnits)
    THEN ((ToUnsigned(text.num) % Width32) * AgeUnits[text.unit]) % Width32 ELSE 0

Keys == {"--max-size", "--max-age", "--patch-build-ids", "path"}
Accepted(arg) ==
    /\ arg.key \in Keys
    /\ arg.key = "--patch-build-ids" => arg.unit \in {"auto", "never"}

\* Mutant: a limit of 0 is taken for an option that was not given.
WithNonzero(arg) ==
    CASE arg.key = "--max-size" /\ ParseSize(arg) # 0 -> [config EXCEPT !.max_bytes = ParseSize(arg)]
      [] arg.key = "--max-age" /\ ParseAge(arg) # 0 -> [config EXCEPT !.max_age_seconds = ParseAge(arg)]
      [] OTHER -> config

\* "auto" does not undo "never": it only is no error.  The three paths have no
\* effect on the rest.
With(arg) ==
    CASE arg.key = "--max-size" -> [config EXCEPT !.max_bytes = ParseSize(arg)]
      [] arg.key = "--max-age" -> [config EXCEPT !.max_age_seconds = ParseAge(arg)]
      [] arg.key = "--patch-build-ids" /\ arg.unit = "never" ->
             [config EXCEPT !.patch_build_ids = FALSE]
      [] OTHER -> config

TakeArgument ==
    /\ state = "parsing" /\ next <= Len(given)
    /\ IF Accepted(given[next])
       THEN config' = With(given[next]) /\ next' = next + 1 /\ UNCHANGED state
       ELSE state' = "refused" /\ UNCHANGED <<config, next>>
    /\ UNCHANGED given

RunWatcher ==
    /\ state = "parsing" /\ next > Len(given)
    /\ state' = "running"
    /\ UNCHANGED <<given, next, config>>

Next == TakeArgument \/ RunWatcher

Spec == Init /\ [][Next]_vars

--------------------------------------------------------------------------------
(* Properties *)

\* The number an operator means: that of the last option of this kind, without
\* regard to widths; 0 (unlimited) without one or for a text without meaning.
Asked(key, units) ==
    LET of == {i \in DOMAIN given : given[i].key = key}
        last == CHOOSE i \in of : \A j \in of : j <= i
    IN IF of = {} \/ ~Parses(given[last], units) THEN 0
       ELSE given[last].num * units[given[last].unit]

\* A daemon that runs enforces the limits it was asked for, whatever came
\* before on the command line, as long as they fit in uint64_t and uint32_t
\* (daemon/main.cpp, main, ParseSize and ParseAge).
LimitsAsAsked ==
    state = "running" =>
        LET size == Asked("--max-size", SizeUnits)  age == Asked("--max-age", AgeUnits)
        IN /\ size \in 0..(Width64 - 1) => config.max_bytes = size
           /\ age \in 0..(Width32 - 1) => config.max_age_seconds = age
================================================================================
