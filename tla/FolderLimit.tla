---------------------------- MODULE FolderLimit ----------------------------
(***************************************************************************)
(* The folder size limit of limits.rs and the command plan-folder-limit,   *)
(* which decides which pending transfers a folder still has room for.      *)
(* Sizes are machine words: u64 is 0..MaxWord here, with the saturating    *)
(* operations of the code.                                                 *)
(*                                                                         *)
(* A pending transfer is its position in the argument list; plan_transfers *)
(* sorts by queued_at with a stable sort, so transfers queued at the same  *)
(* time keep their positions.                                              *)
(***************************************************************************)
EXTENDS Integers

CONSTANTS
  MaxWord,       \* u64::MAX
  MaxPercent,    \* u8::MAX
  MaxBytes,      \* the limits that are tried
  Percents,      \* the warning thresholds that are tried
  Sizes,         \* sizes of files, and bytes already used
  Times,         \* values of queued_at
  MaxTransfers   \* how many transfers a command names at most

ASSUME WordAssumption == MaxWord \in Nat /\ MaxPercent \in Nat
ASSUME InputAssumption ==
  /\ MaxBytes \subseteq 0..MaxWord
  /\ Percents \subseteq 0..MaxPercent
  /\ Sizes \subseteq 0..MaxWord
  /\ Times \subseteq Nat
  /\ MaxTransfers \in Nat

VARIABLES
  max_bytes,         \* FolderSizeLimit.max_bytes
  percent,           \* FolderSizeLimit.warning_threshold_percent
  used_bytes,        \* what the folder holds before the plan
  transfers,         \* transfers[i]: size_bytes and queued_at of the i-th argument
  pending,           \* positions plan_transfers has not looked at
  accepted,          \* FolderLimitPlan.accepted
  skipped,           \* FolderLimitPlan.skipped
  final_used_bytes,  \* FolderLimitPlan.final_used_bytes
  warning_reached,   \* FolderLimitPlan.warning_reached
  pc                 \* "new", "planning", "planned" or "refused"

vars == <<max_bytes, percent, used_bytes, transfers, pending, accepted, skipped,
          final_used_bytes, warning_reached, pc>>

PendingTransfer == [size_bytes : Sizes, queued_at : Times]

\* The lists of transfers a command may name.
FileArguments == UNION {[1..n -> PendingTransfer] : n \in 0..MaxTransfers}

Init ==
  /\ max_bytes \in MaxBytes
  /\ percent \in Percents
  /\ used_bytes \in Sizes
  /\ transfers \in FileArguments
  /\ pending = {}
  /\ accepted = {}
  /\ skipped = {}
  /\ final_used_bytes = 0
  /\ warning_reached = FALSE
  /\ pc = "new"

-----------------------------------------------------------------------------
saturating_add(a, b) == IF a + b > MaxWord THEN MaxWord ELSE a + b
saturating_sub(a, b) == IF a < b THEN 0 ELSE a - b
saturating_mul(a, b) == IF a * b > MaxWord THEN MaxWord ELSE a * b

\* FolderSizeLimit::new accepts no other limits.
Valid(bytes, threshold) == bytes # 0 /\ threshold \in 1..100

remaining_bytes(used) == saturating_sub(max_bytes, used)

\* Mutant of is_warning_reached: divides first, so that no product saturates.
DividesFirst(used) == used >= percent * ((max_bytes \div 100) + 1)

is_warning_reached(used) == used >= saturating_mul(max_bytes, percent) \div 100

\* FolderSizeLimit::new, then the sort of plan_transfers.
NewLimit ==
  /\ pc = "new"
  /\ \/ /\ ~Valid(max_bytes, percent)
        /\ pc' = "refused"
        /\ UNCHANGED <<pending, final_used_bytes>>
     \/ /\ Valid(max_bytes, percent)
        /\ pc' = "planning"
        /\ pending' = DOMAIN transfers
        /\ final_used_bytes' = used_bytes
  /\ UNCHANGED <<max_bytes, percent, used_bytes, transfers, accepted, skipped, warning_reached>>

\* The order of the stable sort by queued_at.
Earlier(i, j) ==
  \/ transfers[i].queued_at < transfers[j].queued_at
  \/ transfers[i].queued_at = transfers[j].queued_at /\ i < j

\* Mutant of IsNext: the newest transfer comes first.
NewestNext(i) == i \in pending /\ \A j \in pending \ {i} : Earlier(j, i)

IsNext(i) == i \in pending /\ \A j \in pending \ {i} : Earlier(i, j)

\* Mutant of Fits: compares with the whole limit.
FitsEmptyFolder(i) == transfers[i].size_bytes <= max_bytes

\* Mutant of Fits: the last byte may not be used.
FitsBelow(i) == transfers[i].size_bytes < remaining_bytes(final_used_bytes)

Fits(i) == transfers[i].size_bytes <= remaining_bytes(final_used_bytes)

\* Mutant of Accept: counts the room that is left, not the bytes in use.
CountsDown(i) ==
  /\ pc = "planning"
  /\ IsNext(i)
  /\ Fits(i)
  /\ final_used_bytes' = final_used_bytes - transfers[i].size_bytes
  /\ accepted' = accepted \cup {i}
  /\ pending' = pending \ {i}
  /\ UNCHANGED <<max_bytes, percent, used_bytes, transfers, skipped, warning_reached, pc>>

Accept(i) ==
  /\ pc = "planning"
  /\ IsNext(i)
  /\ Fits(i)
  /\ final_used_bytes' = saturating_add(final_used_bytes, transfers[i].size_bytes)
  /\ accepted' = accepted \cup {i}
  /\ pending' = pending \ {i}
  /\ UNCHANGED <<max_bytes, percent, used_bytes, transfers, skipped, warning_reached, pc>>

Skip(i) ==
  /\ pc = "planning"
  /\ IsNext(i)
  /\ ~Fits(i)
  /\ skipped' = skipped \cup {i}
  /\ pending' = pending \ {i}
  /\ UNCHANGED <<max_bytes, percent, used_bytes, transfers, accepted, final_used_bytes,
                 warning_reached, pc>>

EndPlan ==
  /\ pc = "planning"
  /\ pending = {}
  /\ warning_reached' = is_warning_reached(final_used_bytes)
  /\ pc' = "planned"
  /\ UNCHANGED <<max_bytes, percent, used_bytes, transfers, pending, accepted, skipped,
                 final_used_bytes>>

Next == NewLimit \/ EndPlan \/ \E i \in DOMAIN transfers : Accept(i) \/ Skip(i)

Spec == Init /\ [][Next]_vars

-----------------------------------------------------------------------------
(* Properties *)

TypeOK ==
  /\ max_bytes \in MaxBytes /\ percent \in Percents /\ used_bytes \in Sizes
  /\ transfers \in FileArguments
  /\ pending \subseteq DOMAIN transfers
  /\ accepted \subseteq DOMAIN transfers
  /\ skipped \subseteq DOMAIN transfers
  /\ final_used_bytes \in 0..MaxWord
  /\ warning_reached \in BOOLEAN
  /\ pc \in {"new", "planning", "planned", "refused"}

\* The size of a set of the listed transfers, in numbers that do not saturate:
\* its running sum over the positions.
TotalSize(list, set) ==
  LET share == [n \in 1..MaxTransfers |-> IF n \in set THEN list[n].size_bytes ELSE 0]
      sum[n \in 0..MaxTransfers] == IF n = 0 THEN 0 ELSE sum[n - 1] + share[n]
  IN sum[MaxTransfers]

\* The sum that plan_transfers keeps is exact: saturating_add never saturates.
SumIsExact ==
  pc \in {"planning", "planned"} => final_used_bytes = used_bytes + TotalSize(transfers, accepted)

\* What is accepted fits: a plan ends over the limit only if the folder was over
\* it before, and then only files without content are accepted.
AcceptedFit ==
  pc \in {"planning", "planned"} /\ final_used_bytes > max_bytes => final_used_bytes = used_bytes

\* The plan is maximal: once it is made, no transfer it skipped would still fit.
NothingThatFitsIsSkipped ==
  pc \in {"planning", "planned"} =>
    \A i \in skipped : final_used_bytes + transfers[i].size_bytes > max_bytes

\* Oldest first: a skipped transfer did not fit beside the older ones that were
\* accepted, so it never gave way to a newer one.
OldestFirst ==
  \A i \in skipped :
    LET older == {j \in accepted : Earlier(j, i)}
    IN used_bytes + TotalSize(transfers, older) + transfers[i].size_bytes > max_bytes

\* The warning is never late, and unless the product saturates it is early by
\* less than a byte: the rounding of the division is all it adds.
WarningAccurate ==
  pc = "planned" =>
    /\ 100 * final_used_bytes >= max_bytes * percent => warning_reached
    /\ warning_reached /\ max_bytes * percent <= MaxWord
         => 100 * (final_used_bytes + 1) > max_bytes * percent
=============================================================================
