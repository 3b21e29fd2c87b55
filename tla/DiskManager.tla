------------------------------ MODULE DiskManager ------------------------------
(***************************************************************************)
(* The pruning rules of daemon/disk_manager.cpp as operators on data: how  *)
(* a directory is listed, when an entry is over one of the two limits, and *)
(* which entries one uninterrupted pass of the pruning loop removes.       *)
(* PruneMinidumps.tla models the same pass one system call at a time.      *)
(*                                                                         *)
(* Sizes and times are the natural numbers the code keeps in uint64_t and  *)
(* time_t: no sum of file sizes on a real disk reaches 2^64, and the only  *)
(* subtraction on total_bytes takes back a size that was added before.     *)
(***************************************************************************)
EXTENDS Integers, Sequences, SequencesExt

CONSTANTS MaxBytes,   \* DiskManagerConfig::max_bytes, 0 = no limit
          MaxAge      \* DiskManagerConfig::max_age_seconds, 0 = no limit

ASSUME DiskManagerAssumption == MaxBytes \in Nat /\ MaxAge \in Nat

NoLimits == MaxBytes = 0 /\ MaxAge = 0

\* Mutant: newest first.
NewestFirst(files, mtime) ==
    {list \in SetToSeqs(files) :
        \A i, j \in DOMAIN list : i < j => mtime[list[i]] >= mtime[list[j]]}

\* A directory listing is sorted by st_mtime, in seconds and not stably: files
\* of one second may come in any order.
OldestFirst(files, mtime) ==
    {list \in SetToSeqs(files) :
        \A i, j \in DOMAIN list : i < j => mtime[list[i]] <= mtime[list[j]]}

OverSize(total) == MaxBytes > 0 /\ total > MaxBytes

\* A file stamped in the future is never over age (the test now > mtime guards
\* the unsigned subtraction).
OverAge(now, stamp) == MaxAge > 0 /\ now > stamp /\ now - stamp > MaxAge

\* total_bytes after each entry of the listing.
Sums(list, size) ==
    LET sum[i \in 0..Len(list)] == IF i = 0 THEN 0 ELSE sum[i - 1] + size[list[i]]
    IN sum

Bytes(list, size) == Sums(list, size)[Len(list)]

\* The pruning loop: one walk over the listing, oldest first, that removes an
\* entry over either limit and takes its size off the running total.
LoopBody(acc, f, size, mtime, now) ==
    IF OverSize(acc.total) \/ OverAge(now, mtime[f])
    THEN [total |-> acc.total - size[f], removed |-> Append(acc.removed, f)]
    ELSE acc

PrunePass(list, size, mtime, now) ==
    LET after[i \in 0..Len(list)] ==
            IF i = 0 THEN [total |-> Bytes(list, size), removed |-> <<>>]
            ELSE LoopBody(after[i - 1], list[i], size, mtime, now)
    IN after

Removed(list, size, mtime, now) ==
    IF NoLimits THEN <<>> ELSE PrunePass(list, size, mtime, now)[Len(list)].removed
================================================================================
