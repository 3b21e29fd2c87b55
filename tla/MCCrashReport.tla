----------------------------- MODULE MCCrashReport -----------------------------
(* Values for model checking CrashReport: a program linked without a build id    *)
(* note; mapped right behind it, a library with one whose file is gone; and a    *)
(* module with neither, whose record has no room for a long build id.            *)
EXTENDS CrashReport, TLC

MCModules == 1..3
MCBase == <<2, 4, 7>>
MCSize == <<2, 2, 1>>

MCTooLong == {<<3, "wrong">>}

Only(m, build) == [Nothing EXCEPT ![m] = build]
MCRequests ==
    {[override |-> [Only(2, "wrong") EXCEPT ![3] = "wrong"], sysroot |-> Nothing, in_place |-> TRUE],
     [override |-> Only(3, "loaded"), sysroot |-> Only(1, "replaced"), in_place |-> TRUE],
     [override |-> Only(1, "loaded"), sysroot |-> Nothing, in_place |-> FALSE]}

ThreadSymmetry == Permutations(Threads)
================================================================================
