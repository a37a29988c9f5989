------------------------- MODULE FolderLimitProofs -------------------------
(***************************************************************************)
(* The plan of a folder limit, for every word width, limit, threshold and  *)
(* list of transfers.  What sums of sizes add up to is proved by induction *)
(* over the positions, as a least counterexample that cannot be.           *)
(***************************************************************************)
EXTENDS FolderLimit, WellFoundedInduction, TLAPS

\* The inductive invariant: the properties, and that nothing is skipped before
\* the limit has been checked.
IInv ==
  /\ TypeOK
  /\ AcceptedFit
  /\ NothingThatFitsIsSkipped
  /\ WarningAccurate
  /\ pc \in {"new", "refused"} => skipped = {}

-----------------------------------------------------------------------------
\* The threshold: with the division rounding down, a byte count reaches it when
\* it reaches the exact percentage, and otherwise misses that by less than one.
LEMMA RoundedDown ==
  ASSUME NEW n \in Nat, NEW used \in Nat
  PROVE  /\ 100 * used >= n => used >= n \div 100
         /\ used >= n \div 100 => 100 * (used + 1) > n
  OBVIOUS

\* The same for a product that may have saturated.
LEMMA Rounding ==
  ASSUME NEW m \in Nat, NEW n \in Nat, n <= m, NEW used \in Nat
  PROVE  /\ 100 * used >= m => used >= n \div 100
         /\ used >= n \div 100 /\ n = m => 100 * (used + 1) > m
  BY RoundedDown

\* saturating_mul never exceeds the exact product and is exact below the bound.
LEMMA Saturated ==
  ASSUME NEW a \in Nat, NEW b \in Nat
  PROVE  /\ a * b \in Nat
         /\ saturating_mul(a, b) \in Nat
         /\ saturating_mul(a, b) <= a * b
         /\ a * b <= MaxWord => saturating_mul(a, b) = a * b
  <1>1. a * b \in Nat
    OBVIOUS
  <1> DEFINE m == a * b
  <1>2. m \in Nat
    BY <1>1
  <1> HIDE DEF m
  <1>3. /\ (IF m > MaxWord THEN MaxWord ELSE m) \in Nat
        /\ (IF m > MaxWord THEN MaxWord ELSE m) <= m
        /\ m <= MaxWord => (IF m > MaxWord THEN MaxWord ELSE m) = m
    BY <1>2, WordAssumption
  <1> QED
    BY <1>1, <1>3 DEF saturating_mul, m

\* The sizes among a command's arguments are words.
LEMMA ArgumentSizes ==
  ASSUME NEW list \in FileArguments, NEW i \in DOMAIN list
  PROVE  list[i].size_bytes \in Sizes
  <1>1. PICK n \in 0..MaxTransfers : list \in [1..n -> PendingTransfer]
    BY DEF FileArguments
  <1>2. list[i] \in PendingTransfer
    BY <1>1
  <1> QED
    BY <1>2 DEF PendingTransfer

\* The words of a state that TypeOK describes, as numbers.
LEMMA Words ==
  ASSUME TypeOK
  PROVE  /\ MaxWord \in Nat
         /\ max_bytes \in Nat /\ max_bytes <= MaxWord
         /\ used_bytes \in 0..MaxWord
         /\ percent \in Nat
         /\ final_used_bytes \in Nat /\ final_used_bytes <= MaxWord
         /\ \A i \in DOMAIN transfers : transfers[i].size_bytes \in Nat
  <1>1. \A i \in DOMAIN transfers : transfers[i].size_bytes \in Sizes
    BY ArgumentSizes DEF TypeOK
  <1>2. max_bytes \in 0..MaxWord /\ used_bytes \in 0..MaxWord /\ percent \in 0..MaxPercent
    BY InputAssumption DEF TypeOK
  <1>3. \A i \in DOMAIN transfers : transfers[i].size_bytes \in 0..MaxWord
    BY <1>1, InputAssumption
  <1>4. final_used_bytes \in 0..MaxWord
    BY DEF TypeOK
  <1> QED
    BY <1>2, <1>3, <1>4, WordAssumption

\* A transfer that fits is added exactly, and keeps within the limit unless it
\* has no content; one that does not fit goes beyond it.
LEMMA Fitting ==
  ASSUME TypeOK, NEW i \in DOMAIN transfers
  PROVE  LET size == transfers[i].size_bytes
             sum == saturating_add(final_used_bytes, size)
         IN  /\ Fits(i) => /\ sum = final_used_bytes + size
                           /\ sum \in 0..MaxWord
                           /\ sum <= max_bytes \/ sum = final_used_bytes
             /\ ~Fits(i) => final_used_bytes + size > max_bytes
  BY Words DEF Fits, remaining_bytes, saturating_sub, saturating_add

-----------------------------------------------------------------------------
LEMMA InitIInv == Init => IInv
  <1> SUFFICES ASSUME Init PROVE IInv
    OBVIOUS
  <1>1. 0 \in 0..MaxWord
    BY WordAssumption
  <1>2. TypeOK
    BY <1>1 DEF Init, TypeOK
  <1> QED
    BY <1>2 DEF Init, IInv, AcceptedFit, NothingThatFitsIsSkipped, WarningAccurate

LEMMA NewLimitStep == IInv /\ NewLimit => IInv'
  <1> SUFFICES ASSUME IInv, NewLimit PROVE IInv'
    OBVIOUS
  <1>1. used_bytes \in 0..MaxWord
    BY Words DEF IInv
  <1>2. TypeOK'
    BY <1>1 DEF IInv, TypeOK, NewLimit
  <1>3. (AcceptedFit /\ WarningAccurate)'
    BY DEF NewLimit, AcceptedFit, WarningAccurate
  <1>4. NothingThatFitsIsSkipped'
    BY DEF NewLimit, IInv, NothingThatFitsIsSkipped
  <1>5. (pc \in {"new", "refused"} => skipped = {})'
    BY DEF NewLimit, IInv
  <1> QED
    BY <1>2, <1>3, <1>4, <1>5 DEF IInv

LEMMA AcceptStep == ASSUME IInv, NEW i \in DOMAIN transfers, Accept(i) PROVE IInv'
  <1> DEFINE size == transfers[i].size_bytes
  <1>1. /\ final_used_bytes' = final_used_bytes + size
        /\ final_used_bytes' \in 0..MaxWord
        /\ final_used_bytes' <= max_bytes \/ final_used_bytes' = final_used_bytes
    BY Fitting DEF Accept, IInv
  <1>2. TypeOK'
    BY <1>1 DEF IInv, TypeOK, Accept
  <1>3. AcceptedFit'
    BY <1>1, Words DEF IInv, AcceptedFit, Accept
  <1>4. NothingThatFitsIsSkipped'
    <2>1. \A j \in skipped : final_used_bytes + transfers[j].size_bytes > max_bytes
      BY DEF IInv, NothingThatFitsIsSkipped, Accept
    <2>2. \A j \in skipped : transfers[j].size_bytes \in Nat
      BY Words DEF IInv, TypeOK
    <2>3. \A j \in skipped : final_used_bytes' + transfers[j].size_bytes > max_bytes
      BY <1>1, <2>1, <2>2, Words DEF IInv
    <2> QED
      BY <2>3 DEF NothingThatFitsIsSkipped, Accept
  <1>5. WarningAccurate'
    BY DEF Accept, WarningAccurate
  <1> QED
    BY <1>2, <1>3, <1>4, <1>5 DEF IInv, Accept

LEMMA SkipStep == ASSUME IInv, NEW i \in DOMAIN transfers, Skip(i) PROVE IInv'
  <1>1. final_used_bytes + transfers[i].size_bytes > max_bytes
    BY Fitting DEF Skip, IInv
  <1>2. TypeOK'
    BY DEF IInv, TypeOK, Skip
  <1>3. (AcceptedFit /\ WarningAccurate)'
    BY DEF IInv, Skip, AcceptedFit, WarningAccurate
  <1>4. NothingThatFitsIsSkipped'
    BY <1>1 DEF IInv, Skip, NothingThatFitsIsSkipped
  <1> QED
    BY <1>2, <1>3, <1>4 DEF IInv, Skip

LEMMA EndPlanStep == IInv /\ EndPlan => IInv'
  <1> SUFFICES ASSUME IInv, EndPlan PROVE IInv'
    OBVIOUS
  <1>1. TypeOK'
    <2>1. warning_reached' \in BOOLEAN
      BY DEF EndPlan, is_warning_reached
    <2> QED
      BY <2>1 DEF IInv, TypeOK, EndPlan
  <1>2. AcceptedFit' /\ NothingThatFitsIsSkipped'
    BY DEF IInv, EndPlan, AcceptedFit, NothingThatFitsIsSkipped
  <1>3. WarningAccurate'
    <2> DEFINE m == max_bytes * percent
               n == saturating_mul(max_bytes, percent)
    <2>1. /\ m \in Nat /\ n \in Nat /\ n <= m
          /\ m <= MaxWord => n = m
      BY Saturated, Words DEF IInv
    <2>2. /\ 100 * final_used_bytes >= m => final_used_bytes >= n \div 100
          /\ final_used_bytes >= n \div 100 /\ n = m => 100 * (final_used_bytes + 1) > m
      <3> HIDE DEF m, n
      <3> QED
        BY <2>1, Rounding, Words DEF IInv
    <2>3. warning_reached' = (final_used_bytes >= n \div 100)
      BY DEF EndPlan, is_warning_reached
    <2>4. /\ 100 * final_used_bytes >= m => warning_reached'
          /\ warning_reached' /\ m <= MaxWord => 100 * (final_used_bytes + 1) > m
      <3> HIDE DEF m, n
      <3> QED
        BY <2>1, <2>2, <2>3
    <2> QED
      BY <2>4 DEF EndPlan, WarningAccurate
  <1> QED
    BY <1>1, <1>2, <1>3 DEF IInv, EndPlan

LEMMA StepIInv == IInv /\ [Next]_vars => IInv'
  <1> SUFFICES ASSUME IInv, [Next]_vars PROVE IInv'
    OBVIOUS
  <1>1. CASE UNCHANGED vars
    BY <1>1 DEF vars, IInv, TypeOK, AcceptedFit, NothingThatFitsIsSkipped, WarningAccurate
  <1>2. CASE NewLimit
    BY <1>2, NewLimitStep
  <1>3. CASE EndPlan
    BY <1>3, EndPlanStep
  <1>4. ASSUME NEW i \in DOMAIN transfers, Accept(i) \/ Skip(i) PROVE IInv'
    BY <1>4, AcceptStep, SkipStep
  <1> QED
    BY <1>1, <1>2, <1>3, <1>4 DEF Next

LEMMA Inductive == Spec => []IInv
  BY InitIInv, StepIInv, PTL DEF Spec

-----------------------------------------------------------------------------
\* plan_folder_limit stays within its machine words.
THEOREM TypeCorrect == Spec => []TypeOK
  BY Inductive, PTL DEF IInv

\* plan_transfers never takes a folder over its limit.
THEOREM PlanFits == Spec => []AcceptedFit
  BY Inductive, PTL DEF IInv

\* plan_transfers skips nothing that the finished plan has room for.
THEOREM PlanMaximal == Spec => []NothingThatFitsIsSkipped
  BY Inductive, PTL DEF IInv

\* is_warning_reached is never late, and early only by rounding or saturation.
THEOREM WarningRight == Spec => []WarningAccurate
  BY Inductive, PTL DEF IInv
-----------------------------------------------------------------------------
(* Sums *)

\* A set of natural numbers that is not empty has a least member.
LEMMA Least ==
  ASSUME NEW T \in SUBSET Nat, T # {}
  PROVE  \E m \in T : \A k \in T : m <= k
<1> DEFINE R == {pair \in Nat \X Nat : pair[1] < pair[2]}
<1>1. R = OpToRel(<, Nat)
  BY DEF OpToRel
<1>2. IsWellFoundedOn(R, Nat)
  BY <1>1, NatLessThanWellFounded
<1> HIDE DEF R
<1>3. PICK m \in T : \A k \in T : ~(<<k, m>> \in R)
  BY <1>2, WFMin
<1>4. \A k \in T : ~(k < m)
  BY <1>3 DEF R
<1> QED
  BY <1>4

\* Induction over the positions: T holds the counterexamples.
LEMMA PositionInduction ==
  ASSUME NEW T \in SUBSET (0..MaxTransfers), 0 \notin T,
         \A k \in 1..MaxTransfers : k - 1 \notin T => k \notin T
  PROVE  T = {}
<1>0. MaxTransfers \in Nat
  BY InputAssumption
<1> SUFFICES ASSUME T # {} PROVE FALSE
  OBVIOUS
<1>1. T \in SUBSET Nat
  BY <1>0
<1>2. PICK k \in T : \A j \in T : k <= j
  BY <1>1, Least
<1>3. k \in 1..MaxTransfers
  BY <1>0
<1>4. k - 1 \notin T
  BY <1>2, <1>3
<1> QED
  BY <1>3, <1>4

\* The running sum that TotalSize defines.
Sums(share) ==
  CHOOSE sum : sum = [n \in 0..MaxTransfers |-> IF n = 0 THEN 0 ELSE sum[n - 1] + share[n]]

\* g sums up share to position m.
SumsTo(share, m, g) == g[0] = 0 /\ \A n \in 1..m : g[n] = g[n - 1] + share[n]

\* There is such a function up to every position.
LEMMA SumsExist ==
  ASSUME NEW share \in [1..MaxTransfers -> Nat]
  PROVE  \A m \in 0..MaxTransfers : \E g \in [0..m -> Nat] : SumsTo(share, m, g)
<1>0. MaxTransfers \in Nat
  BY InputAssumption
<1> DEFINE T == {k \in 0..MaxTransfers : ~\E g \in [0..k -> Nat] : SumsTo(share, k, g)}
<1>1. 0 \notin T
  <2>1. [n \in 0..0 |-> 0] \in [0..0 -> Nat] /\ SumsTo(share, 0, [n \in 0..0 |-> 0])
    BY DEF SumsTo
  <2> QED
    BY <2>1
<1>2. ASSUME NEW k \in 1..MaxTransfers, k - 1 \notin T PROVE k \notin T
  <2>1. k \in Nat /\ k # 0 /\ k \in 0..MaxTransfers /\ k - 1 \in 0..MaxTransfers
    BY <1>0
  <2>2. PICK g \in [0..(k - 1) -> Nat] : SumsTo(share, k - 1, g)
    BY <1>2, <2>1
  <2> DEFINE h == [n \in 0..k |-> IF n = k THEN g[k - 1] + share[k] ELSE g[n]]
  <2>3. g[k - 1] \in Nat /\ share[k] \in Nat
    BY <2>1
  <2>4. \A n \in 0..k : n # k => n \in 0..(k - 1) /\ g[n] \in Nat
    BY <2>1
  <2>5. h \in [0..k -> Nat]
    BY <2>3, <2>4
  <2>6. h[0] = 0
    BY <2>1, <2>2 DEF SumsTo
  <2>7. ASSUME NEW n \in 1..k PROVE h[n] = h[n - 1] + share[n]
    <3>1. n \in 0..k /\ n - 1 \in 0..k /\ n - 1 # k /\ h[n - 1] = g[n - 1]
      BY <2>1
    <3>2. CASE n = k
      BY <3>1, <3>2
    <3>3. CASE n # k
      <4>1. n \in 1..(k - 1) /\ h[n] = g[n]
        BY <2>1, <3>1, <3>3
      <4> QED
        BY <2>2, <3>1, <4>1 DEF SumsTo
    <3> QED
      BY <3>2, <3>3
  <2>8. SumsTo(share, k, h)
    BY <2>6, <2>7 DEF SumsTo
  <2> HIDE DEF h
  <2> QED
    BY <2>5, <2>8
<1>3. T = {}
  <2>1. T \in SUBSET (0..MaxTransfers)
    OBVIOUS
  <2> HIDE DEF T
  <2> QED
    BY <1>1, <1>2, <2>1, PositionInduction
<1> QED
  BY <1>3

\* The running sum is well defined.
LEMMA SumsDefined ==
  ASSUME NEW share \in [1..MaxTransfers -> Nat]
  PROVE  Sums(share) \in [0..MaxTransfers -> Nat] /\ SumsTo(share, MaxTransfers, Sums(share))
<1>0. MaxTransfers \in Nat
  BY InputAssumption
<1> DEFINE s == Sums(share)
<1>1. s = [n \in 0..MaxTransfers |-> IF n = 0 THEN 0 ELSE s[n - 1] + share[n]]
  <2>1. PICK g \in [0..MaxTransfers -> Nat] : SumsTo(share, MaxTransfers, g)
    <3>1. MaxTransfers \in 0..MaxTransfers
      BY <1>0
    <3> QED
      BY <3>1, SumsExist
  <2>2. g = [n \in 0..MaxTransfers |-> IF n = 0 THEN 0 ELSE g[n - 1] + share[n]]
    BY <1>0, <2>1 DEF SumsTo
  <2> QED
    BY <2>2 DEF Sums
<1> HIDE DEF s
<1>2. SumsTo(share, MaxTransfers, s)
  <2>1. \A n \in 1..MaxTransfers : n \in 0..MaxTransfers /\ n # 0
    BY <1>0
  <2>2. 0 \in 0..MaxTransfers
    BY <1>0
  <2> QED
    BY <1>1, <2>1, <2>2 DEF SumsTo
<1>3. \A n \in 0..MaxTransfers : s[n] \in Nat
  <2> DEFINE T == {n \in 0..MaxTransfers : s[n] \notin Nat}
  <2>1. T \in SUBSET (0..MaxTransfers) /\ 0 \notin T
    BY <1>2 DEF SumsTo
  <2>2. ASSUME NEW k \in 1..MaxTransfers, k - 1 \notin T PROVE k \notin T
    <3>1. k - 1 \in 0..MaxTransfers
      BY <1>0
    <3>2. s[k - 1] \in Nat /\ share[k] \in Nat /\ s[k] = s[k - 1] + share[k]
      BY <1>2, <2>2, <3>1 DEF SumsTo
    <3> QED
      BY <3>2
  <2>3. T = {}
    <3> HIDE DEF T
    <3> QED
      BY <2>1, <2>2, PositionInduction
  <2> QED
    BY <2>3
<1>4. s \in [0..MaxTransfers -> Nat]
  BY <1>1, <1>3
<1> QED
  BY <1>2, <1>4 DEF s

\* Raising one share raises the sums from there on.
LEMMA SumsRaised ==
  ASSUME NEW share \in [1..MaxTransfers -> Nat], NEW more \in [1..MaxTransfers -> Nat],
         NEW i \in 1..MaxTransfers, NEW size \in Nat, more[i] = share[i] + size,
         \A n \in 1..MaxTransfers : n # i => more[n] = share[n]
  PROVE  Sums(more)[MaxTransfers] = Sums(share)[MaxTransfers] + size
<1>0. MaxTransfers \in Nat
  BY InputAssumption
<1> DEFINE s == Sums(share)
           t == Sums(more)
           raise(n) == IF n >= i THEN size ELSE 0
<1>1. /\ s \in [0..MaxTransfers -> Nat] /\ SumsTo(share, MaxTransfers, s)
      /\ t \in [0..MaxTransfers -> Nat] /\ SumsTo(more, MaxTransfers, t)
  BY SumsDefined
<1> HIDE DEF s, t
<1> DEFINE T == {n \in 0..MaxTransfers : t[n] # s[n] + raise(n)}
<1>2. 0 \notin T
  BY <1>0, <1>1 DEF SumsTo
<1>3. ASSUME NEW k \in 1..MaxTransfers, k - 1 \notin T PROVE k \notin T
  <2>1. k - 1 \in 0..MaxTransfers /\ k \in 0..MaxTransfers
    BY <1>0
  <2>2. t[k - 1] = s[k - 1] + raise(k - 1)
    BY <1>3, <2>1
  <2>3. t[k] = t[k - 1] + more[k] /\ s[k] = s[k - 1] + share[k]
    BY <1>1 DEF SumsTo
  <2>4. s[k - 1] \in Nat /\ share[k] \in Nat /\ more[k] \in Nat
    BY <1>1, <2>1
  <2>5. more[k] = share[k] + (IF k = i THEN size ELSE 0)
    BY <2>4
  <2>6. /\ raise(k) = raise(k - 1) + (IF k = i THEN size ELSE 0)
        /\ raise(k - 1) \in Nat /\ raise(k) \in Nat
    BY <1>0
  <2>7. t[k] = s[k] + raise(k)
    <3> HIDE DEF raise
    <3> QED
      BY <2>2, <2>3, <2>4, <2>5, <2>6
  <2> QED
    BY <2>7
<1>4. T = {}
  <2>1. T \in SUBSET (0..MaxTransfers)
    OBVIOUS
  <2> HIDE DEF T
  <2> QED
    BY <1>2, <1>3, <2>1, PositionInduction
<1>5. MaxTransfers \in 0..MaxTransfers /\ raise(MaxTransfers) = size
  BY <1>0
<1> QED
  BY <1>4, <1>5 DEF s, t

\* What the members of a set contribute, position by position.
Share(list, set) == [n \in 1..MaxTransfers |-> IF n \in set THEN list[n].size_bytes ELSE 0]

\* The shares are natural numbers.
LEMMA ShareTyped ==
  ASSUME NEW list \in FileArguments, NEW set \in SUBSET DOMAIN list
  PROVE  /\ Share(list, set) \in [1..MaxTransfers -> Nat]
         /\ DOMAIN list \subseteq 1..MaxTransfers
         /\ \A n \in DOMAIN list : list[n].size_bytes \in Nat
<1>1. PICK n \in 0..MaxTransfers : list \in [1..n -> PendingTransfer]
  BY DEF FileArguments
<1>2. DOMAIN list \subseteq 1..MaxTransfers
  BY <1>1, InputAssumption
<1>3. \A k \in DOMAIN list : list[k].size_bytes \in Nat
  <2>1. \A k \in DOMAIN list : list[k].size_bytes \in Sizes
    BY ArgumentSizes
  <2>2. Sizes \subseteq Nat
    BY InputAssumption, WordAssumption
  <2> QED
    BY <2>1, <2>2
<1> QED
  BY <1>2, <1>3 DEF Share

\* TotalSize is the last of these sums.
LEMMA TotalIsSum ==
  ASSUME NEW list, NEW set
  PROVE  TotalSize(list, set) = Sums(Share(list, set))[MaxTransfers]
  BY DEF TotalSize, Sums, Share

\* Nothing has no size.
LEMMA TotalOfNone ==
  ASSUME NEW list \in FileArguments
  PROVE  TotalSize(list, {}) = 0
<1>0. MaxTransfers \in Nat
  BY InputAssumption
<1> DEFINE share == Share(list, {})
           s == Sums(share)
<1>1. share \in [1..MaxTransfers -> Nat] /\ \A n \in 1..MaxTransfers : share[n] = 0
  BY ShareTyped DEF Share
<1> HIDE DEF share
<1>2. s \in [0..MaxTransfers -> Nat] /\ SumsTo(share, MaxTransfers, s)
  BY <1>1, SumsDefined
<1> HIDE DEF s
<1> DEFINE T == {n \in 0..MaxTransfers : s[n] # 0}
<1>3. T = {}
  <2>1. T \in SUBSET (0..MaxTransfers) /\ 0 \notin T
    BY <1>2 DEF SumsTo
  <2>2. ASSUME NEW k \in 1..MaxTransfers, k - 1 \notin T PROVE k \notin T
    <3>1. k - 1 \in 0..MaxTransfers
      BY <1>0
    <3> QED
      BY <1>1, <1>2, <2>2, <3>1 DEF SumsTo
  <2> HIDE DEF T
  <2> QED
    BY <2>1, <2>2, PositionInduction
<1>4. MaxTransfers \in 0..MaxTransfers
  BY <1>0
<1>5. s[MaxTransfers] = 0
  BY <1>3, <1>4
<1> QED
  BY <1>5, TotalIsSum DEF s, share

\* One more transfer adds its size.
LEMMA TotalWithOneMore ==
  ASSUME NEW list \in FileArguments, NEW set \in SUBSET DOMAIN list,
         NEW i \in DOMAIN list, i \notin set
  PROVE  /\ TotalSize(list, set) \in Nat
         /\ TotalSize(list, set \cup {i}) = TotalSize(list, set) + list[i].size_bytes
<1>0. MaxTransfers \in Nat
  BY InputAssumption
<1> DEFINE share == Share(list, set)
           more == Share(list, set \cup {i})
           size == list[i].size_bytes
<1>1. share \in [1..MaxTransfers -> Nat] /\ more \in [1..MaxTransfers -> Nat]
  BY ShareTyped
<1>2. i \in 1..MaxTransfers /\ size \in Nat
  BY ShareTyped
<1>3. more[i] = share[i] + size
  BY <1>2 DEF Share
<1>4. \A n \in 1..MaxTransfers : n # i => more[n] = share[n]
  BY DEF Share
<1> HIDE DEF share, more, size
<1>5. Sums(more)[MaxTransfers] = Sums(share)[MaxTransfers] + size
  BY <1>1, <1>2, <1>3, <1>4, SumsRaised
<1>6. Sums(share)[MaxTransfers] \in Nat
  BY <1>0, <1>1, SumsDefined
<1> QED
  BY <1>5, <1>6, TotalIsSum DEF share, more, size

-----------------------------------------------------------------------------
(* The order of the plan *)

\* Whatever has been decided was queued before whatever has not.
Ordered == \A i \in pending, j \in accepted \cup skipped : Earlier(j, i)

PlanInv ==
  /\ Ordered
  /\ SumIsExact
  /\ OldestFirst
  /\ pc \in {"new", "refused"} => accepted = {}

\* queued_at and the position order any two transfers one way.
LEMMA EarlierIsStrict ==
  ASSUME TypeOK, NEW i \in DOMAIN transfers, NEW j \in DOMAIN transfers, Earlier(i, j)
  PROVE  ~Earlier(j, i)
<1>1. PICK n \in 0..MaxTransfers : transfers \in [1..n -> PendingTransfer]
  BY DEF TypeOK, FileArguments
<1>2. transfers[i].queued_at \in Times /\ transfers[j].queued_at \in Times
  BY <1>1 DEF PendingTransfer
<1>3. transfers[i].queued_at \in Nat /\ transfers[j].queued_at \in Nat
  BY <1>2, InputAssumption
<1>4. i \in Nat /\ j \in Nat
  BY <1>1
<1> QED
  BY <1>3, <1>4 DEF Earlier

\* Before the limit is checked nothing is decided.
LEMMA InitPlanInv == Init => PlanInv
  BY DEF Init, PlanInv, Ordered, SumIsExact, OldestFirst

\* The plan begins with every transfer pending.
LEMMA NewLimitPlan == ASSUME IInv, PlanInv, NewLimit PROVE PlanInv'
<1>1. accepted' = {} /\ skipped' = {} /\ UNCHANGED <<transfers, used_bytes>>
  BY DEF NewLimit, PlanInv, IInv
<1>2. Ordered' /\ OldestFirst'
  BY <1>1 DEF Ordered, OldestFirst
<1>3. SumIsExact'
  <2>1. TotalSize(transfers', accepted') = 0 /\ used_bytes \in Nat
    BY <1>1, TotalOfNone, Words DEF IInv, TypeOK
  <2> QED
    BY <1>1, <2>1 DEF SumIsExact, NewLimit
<1> QED
  BY <1>1, <1>2, <1>3 DEF PlanInv

\* An accepted transfer is later than every skipped one.
LEMMA AcceptPlan == ASSUME IInv, PlanInv, NEW i \in DOMAIN transfers, Accept(i) PROVE PlanInv'
<1>0. /\ TypeOK /\ i \in pending /\ UNCHANGED <<transfers, used_bytes, max_bytes, skipped, pc>>
      /\ accepted' = accepted \cup {i} /\ pending' = pending \ {i} /\ pc = "planning"
  BY DEF IInv, Accept, IsNext
<1>1. i \notin accepted
  <2>1. ~Earlier(i, i)
    BY <1>0, EarlierIsStrict
  <2> QED
    BY <1>0, <2>1 DEF PlanInv, Ordered
<1>2. Ordered'
  <2>1. \A k \in pending' : Earlier(i, k)
    BY <1>0 DEF Accept, IsNext
  <2> QED
    BY <1>0, <2>1 DEF PlanInv, Ordered, Earlier
<1>3. SumIsExact'
  <2>1. /\ TotalSize(transfers, accepted) \in Nat
        /\ TotalSize(transfers, accepted \cup {i}) =
             TotalSize(transfers, accepted) + transfers[i].size_bytes
    BY <1>0, <1>1, TotalWithOneMore DEF TypeOK
  <2>2. final_used_bytes' = final_used_bytes + transfers[i].size_bytes
    BY Fitting DEF IInv, Accept
  <2>3. final_used_bytes = used_bytes + TotalSize(transfers, accepted)
    BY <1>0 DEF PlanInv, SumIsExact
  <2>4. used_bytes \in Nat /\ transfers[i].size_bytes \in Nat
    BY <1>0, Words
  <2>5. final_used_bytes' = used_bytes + TotalSize(transfers, accepted \cup {i})
    BY <2>1, <2>2, <2>3, <2>4
  <2> QED
    BY <1>0, <2>5 DEF SumIsExact
<1>4. OldestFirst'
  <2> SUFFICES ASSUME NEW k \in skipped
               PROVE  {j \in accepted \cup {i} : Earlier(j, k)} = {j \in accepted : Earlier(j, k)}
    BY <1>0 DEF PlanInv, OldestFirst, Earlier
  <2>1. Earlier(k, i) /\ k \in DOMAIN transfers
    BY <1>0 DEF PlanInv, Ordered, TypeOK
  <2>2. ~Earlier(i, k)
    BY <1>0, <2>1, EarlierIsStrict
  <2> QED
    BY <2>2
<1> QED
  BY <1>0, <1>2, <1>3, <1>4 DEF PlanInv

\* A skipped transfer is later than every accepted one so far.
LEMMA SkipPlan == ASSUME IInv, PlanInv, NEW i \in DOMAIN transfers, Skip(i) PROVE PlanInv'
<1>0. /\ TypeOK /\ i \in pending /\ pc = "planning" /\ skipped' = skipped \cup {i}
      /\ UNCHANGED <<transfers, used_bytes, max_bytes, accepted, pc, final_used_bytes>>
      /\ pending' = pending \ {i}
  BY DEF IInv, Skip, IsNext
<1>1. Ordered'
  <2>1. \A k \in pending' : Earlier(i, k)
    BY <1>0 DEF Skip, IsNext
  <2> QED
    BY <1>0, <2>1 DEF PlanInv, Ordered, Earlier
<1>2. SumIsExact'
  BY <1>0 DEF PlanInv, SumIsExact
<1>3. OldestFirst'
  <2>1. {j \in accepted : Earlier(j, i)} = accepted
    BY <1>0 DEF PlanInv, Ordered
  <2>2. used_bytes + TotalSize(transfers, accepted) + transfers[i].size_bytes > max_bytes
    <3>1. final_used_bytes = used_bytes + TotalSize(transfers, accepted)
      BY <1>0 DEF PlanInv, SumIsExact
    <3>2. final_used_bytes + transfers[i].size_bytes > max_bytes
      BY Fitting DEF Skip, IInv
    <3> QED
      BY <3>1, <3>2
  <2> QED
    BY <1>0, <2>1, <2>2 DEF PlanInv, OldestFirst, Earlier
<1> QED
  BY <1>0, <1>1, <1>2, <1>3 DEF PlanInv

\* Every step keeps the order and the sum.
LEMMA StepPlanInv == IInv /\ PlanInv /\ [Next]_vars => PlanInv'
<1> SUFFICES ASSUME IInv, PlanInv, [Next]_vars PROVE PlanInv'
  OBVIOUS
<1>1. CASE UNCHANGED vars \/ EndPlan
  <2>1. UNCHANGED <<transfers, used_bytes, max_bytes, accepted, skipped, pending, final_used_bytes>>
    BY <1>1 DEF vars, EndPlan
  <2>2. /\ pc' \in {"planning", "planned"} => pc \in {"planning", "planned"}
        /\ pc' \in {"new", "refused"} => pc \in {"new", "refused"}
    BY <1>1 DEF vars, EndPlan
  <2> QED
    BY <2>1, <2>2 DEF PlanInv, Ordered, SumIsExact, OldestFirst, Earlier
<1>2. CASE NewLimit
  BY <1>2, NewLimitPlan
<1>3. ASSUME NEW i \in DOMAIN transfers, Accept(i) \/ Skip(i) PROVE PlanInv'
  BY <1>3, AcceptPlan, SkipPlan
<1> QED
  BY <1>1, <1>2, <1>3 DEF Next

\* The order and the sum hold in every state.
LEMMA PlanInductive == Spec => []PlanInv
  BY Inductive, InitPlanInv, StepPlanInv, PTL DEF Spec

\* The running total of plan_transfers is the exact sum of what was there and
\* what was accepted: saturating_add never saturates.
THEOREM SumExact == Spec => []SumIsExact
  BY PlanInductive, PTL DEF PlanInv

\* plan_transfers gives room to the oldest transfers first: a skipped one did
\* not fit beside those that were queued before it.
THEOREM OldestServedFirst == Spec => []OldestFirst
  BY PlanInductive, PTL DEF PlanInv
=============================================================================
