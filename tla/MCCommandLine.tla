----------------------------- MODULE MCCommandLine -----------------------------
(* Values for model checking CommandLine: small factors and widths, and numbers *)
(* that are just inside, beyond, and far beyond them.                           *)
EXTENDS CommandLine

Arg(key, num, unit) == [key |-> key, num |-> num, unit |-> unit]

MCArguments ==
    {Arg("--max-size", n, u) : n \in {-1, 0, 3, 5, 300}, u \in {"KB", "G"}}
    \cup {Arg("--max-size", 2, "g"), Arg("--max-size", NoDigits, "K")}
    \cup {Arg("--max-age", n, u) : n \in {0, 7, 8, 40}, u \in {"s", "d"}}
    \cup {Arg("--patch-build-ids", NoDigits, u) : u \in {"auto", "never", "maybe"}}
    \cup {Arg("path", NoDigits, ""), Arg("--verbose", NoDigits, "")}
================================================================================
