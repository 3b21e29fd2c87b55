------------------------------ MODULE DumpDelivery ------------------------------
(***************************************************************************)
(* What the daemon promises about the minidumps that arrive in its         *)
(* database, without its threads and queues: each gets one fate, fates are *)
(* given in the order of arrival, a dump that arrives while the kernel's   *)
(* event queue is full is missed, and so is every dump still waiting when  *)
(* the daemon ends, whether it was killed or shut down: no daemon looks at *)
(* what it finds in pending/ when it starts.                               *)
(***************************************************************************)
EXTENDS Naturals

CONSTANT Dumps

Outcomes == {"tombstone", "suppressed", "unreadable"}

VARIABLES up,     \* whether a daemon runs
          fate,   \* of each dump
          rank,   \* 0, or the position of a dump in the order of arrival
          count   \* how many dumps have arrived

vars == <<up, fate, rank, count>>

Init ==
    /\ up = FALSE
    /\ fate = [d \in Dumps |-> "none"]
    /\ rank = [d \in Dumps |-> 0]
    /\ count = 0

StartUp ==
    /\ ~up /\ up' = TRUE
    /\ UNCHANGED <<fate, rank, count>>

Arrive(d) ==
    /\ up /\ fate[d] = "none"
    /\ count' = count + 1
    /\ rank' = [rank EXCEPT ![d] = count + 1]
    /\ \E f \in {"waiting", "missed"} : fate' = [fate EXCEPT ![d] = f]
    /\ UNCHANGED up

OldestWaiting(d) == \A e \in Dumps : fate[e] = "waiting" => rank[d] <= rank[e]

Settle(d) ==
    /\ up /\ fate[d] = "waiting" /\ OldestWaiting(d)
    /\ \E o \in Outcomes : fate' = [fate EXCEPT ![d] = o]
    /\ UNCHANGED <<up, rank, count>>

LeftMissed == [d \in Dumps |-> IF fate[d] = "waiting" THEN "missed" ELSE fate[d]]

End ==
    /\ up /\ up' = FALSE
    /\ fate' = LeftMissed
    /\ UNCHANGED <<rank, count>>

Next == StartUp \/ End \/ \E d \in Dumps : Arrive(d) \/ Settle(d)

Spec == Init /\ [][Next]_vars

--------------------------------------------------------------------------------
TypeOK ==
    /\ up \in BOOLEAN
    /\ fate \in [Dumps -> Outcomes \cup {"none", "waiting", "missed"}]
    /\ rank \in [Dumps -> Nat] /\ count \in Nat

\* A dump that arrived before a settled one is not waiting: reports come in the
\* order of arrival, through losses and restarts.
SettledInOrder ==
    \A d, e \in Dumps : fate[d] \in Outcomes /\ fate[e] = "waiting" => rank[d] < rank[e]

\* Nothing waits for a daemon that does not run.
NoneWaitsWhileDown == ~up => \A d \in Dumps : fate[d] # "waiting"

\* A settled or missed dump keeps its fate.
FatesAreFinal ==
    [][\A d \in Dumps : fate[d] \in Outcomes \cup {"missed"} => fate'[d] = fate[d]]_vars
================================================================================
