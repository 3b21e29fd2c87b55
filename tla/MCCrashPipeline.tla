---------------------------- MODULE MCCrashPipeline ----------------------------
(* Values for model checking CrashPipeline: three processes that crash once.  *)
EXTENDS CrashPipeline

CONSTANTS p1, p2, p3

MCProcs == {p1, p2, p3}
MCTwoProcs == {p1, p2}

\* p1 and p2 crash with the same signature, p3 in the same program elsewhere.
MCSignature == [p \in Procs |-> IF p = p3 THEN "other" ELSE "same"]
MCExportName == [p \in Procs |-> "app"]

\* With MaxBytes = 2: p1 fits, p3 fits exactly, both together do not, and p2 is
\* too large by itself, so that it goes although its rewriting made it newer than
\* a dump that is still to be renamed.
MCSize == [p \in Procs |-> CASE p = p1 -> 1 [] p = p2 -> 3 [] p = p3 -> 2]
================================================================================
