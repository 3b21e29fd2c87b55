---------------------------- MODULE MCCrashUploads ----------------------------
(* Values for model checking CrashUploads: four requests, two of one file name. *)
EXTENDS CrashUploads

CONSTANTS form1, api1, api2, syms1

MCRequests == {form1, api1, api2, syms1}

\* api1 and the symbol upload have the same file name.
MCName == [r \in Requests |-> CASE r = form1 -> "a.dmp" [] r = api2 -> "b.dmp" [] OTHER -> "c.dmp"]

MCKind == [r \in Requests |-> CASE r = form1 -> "form" [] r = syms1 -> "symbols" [] OTHER -> "api"]
MCSignature == [r \in Requests |-> "segv"]
================================================================================
