----------------------------- MODULE MCRegistration -----------------------------
(* Values for model checking Registration: one process retries, one does not,   *)
(* as with CRASHOMON_CONNECT_TIMEOUT set to 0.                                  *)
EXTENDS Registration

CONSTANTS c1, c2

MCClients == {c1, c2}
MCRetries == [c \in Clients |-> IF c = c1 THEN 1 ELSE 0]
================================================================================
