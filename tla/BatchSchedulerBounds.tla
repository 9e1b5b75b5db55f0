------------------------ MODULE BatchSchedulerBounds ------------------------
(***************************************************************************)
(* The capacities.  bundles and the transactions past their first check    *)
(* never outgrow theirs, unchecked_tx does by at most one drain of what    *)
(* arrived uncounted, and making room for arrivals always finds something  *)
(* to evict.  The cost in flight is what executes, to the unit.            *)
(*                                                                         *)
(* The argument rests on what an eviction removes: pop_first takes exactly *)
(* one element, and the loop of drain_tpu exactly as many as it is short.  *)
(***************************************************************************)
EXTENDS BatchSchedulerOwnership, FiniteSetTheorems

(***************************************************************************)
(* Evictions.                                                              *)
(***************************************************************************)
\* A set of natural numbers that is not empty has a least element.
LEMMA LeastNatural ==
    ASSUME NEW T \in SUBSET Nat, T # {}
    PROVE  \E x \in T : \A y \in T : x <= y
<1>1. \E x \in T : \A y \in T : ~ (<<y, x>> \in OpToRel(<, Nat))
  BY NatLessThanWellFounded, WFMin
<1>2. PICK x \in T : \A y \in T : ~ (<<y, x>> \in OpToRel(<, Nat))
  BY <1>1
<1>3. \A y \in T : <<y, x>> \in OpToRel(<, Nat) <=> y < x
  BY DEF OpToRel
<1>4. \A y \in T : ~(y < x)
  BY <1>2, <1>3
<1> QED BY <1>4

\* pop_first on a container that is not empty removes exactly one element.
LEMMA LowestIsOne ==
    ASSUME NEW S \in SUBSET (Tx \cup Bundle), S # {}
    PROVE  \E x \in S : Lowest(S) = {x}
<1> DEFINE ranks == {Rank[x] : x \in S}
<1>1. \A x \in S : Rank[x] \in Nat
  BY OrderAssumption
<1>2. ranks \in SUBSET Nat /\ ranks # {}
  BY <1>1
<1>3. PICK r \in ranks : \A q \in ranks : r <= q
  <2> HIDE DEF ranks
  <2> QED BY <1>2, LeastNatural
<1>4. PICK x \in S : Rank[x] = r
  BY <1>3
<1>5. \A y \in S : Rank[x] <= Rank[y]
  BY <1>3, <1>4
<1>6. ASSUME NEW z \in Lowest(S) PROVE z = x
  <2>1. z \in S /\ Rank[z] <= Rank[x]
    BY <1>6 DEF Lowest
  <2>2. Rank[z] = Rank[x]
    BY <2>1, <1>1, <1>5
  <2> QED BY <2>1, <2>2, OrderAssumption
<1>7. x \in Lowest(S)
  BY <1>5 DEF Lowest
<1>8. Lowest(S) = {x}
  BY <1>6, <1>7
<1> QED BY <1>8

\* n calls of pop_first remove n elements, if there are that many.  The number of
\* lower elements numbers S from 0 to Cardinality(S) - 1 without a gap.
LEMMA BottomHolds ==
    ASSUME NEW S \in SUBSET (Tx \cup Bundle), IsFiniteSet(S), NEW n \in Nat,
           n <= Cardinality(S)
    PROVE  IsFiniteSet(Bottom(S, n)) /\ n <= Cardinality(Bottom(S, n))
<1> DEFINE below(x) == {y \in S : Rank[y] < Rank[x]}
           place == [x \in S |-> Cardinality(below(x))]
           low == Bottom(S, n)
           first == [x \in low |-> place[x]]
           N == Cardinality(S)
<1>1. \A x \in S : Rank[x] \in Nat
  BY OrderAssumption
<1>2. N \in Nat
  BY FS_CardinalityType
<1>3. ASSUME NEW x \in S
      PROVE  IsFiniteSet(below(x)) /\ Cardinality(below(x)) \in 0..(N - 1)
  <2>1. below(x) \in SUBSET (S \ {x})
    BY <1>1
  <2>2. IsFiniteSet(S \ {x}) /\ Cardinality(S \ {x}) = N - 1
    BY FS_RemoveElement
  <2>3. IsFiniteSet(below(x)) /\ Cardinality(below(x)) <= N - 1
    <3> HIDE DEF below
    <3> QED BY <2>1, <2>2, FS_Subset
  <2>4. Cardinality(below(x)) \in Nat
    <3> HIDE DEF below
    <3> QED BY <2>3, FS_CardinalityType
  <2> QED BY <2>3, <2>4, <1>2
<1>4. ASSUME NEW x \in S, NEW y \in S, Rank[x] < Rank[y] PROVE place[x] # place[y]
  <2>1. below(x) \in SUBSET below(y)
    BY <1>1, <1>4
  <2>2. x \in below(y) /\ x \notin below(x)
    BY <1>1, <1>4
  <2>3. below(x) # below(y) /\ IsFiniteSet(below(y))
    BY <2>2, <1>3
  <2>4. Cardinality(below(y)) # Cardinality(below(x))
    <3> HIDE DEF below
    <3> QED BY <2>1, <2>3, FS_Subset
  <2> QED BY <2>4
<1>5. place \in Injection(S, 0..(N - 1))
  <2>1. place \in [S -> 0..(N - 1)]
    BY <1>3
  <2>2. ASSUME NEW x \in S, NEW y \in S, place[x] = place[y] PROVE x = y
    <3>1. ~(Rank[x] < Rank[y]) /\ ~(Rank[y] < Rank[x])
      BY <2>2, <1>4
    <3>2. Rank[x] = Rank[y]
      BY <3>1, <1>1
    <3> QED BY <3>2, OrderAssumption
  <2> HIDE DEF place
  <2> QED BY <2>1, <2>2 DEF Injection, IsInjective
<1>6. IsFiniteSet(0..(N - 1)) /\ Cardinality(0..(N - 1)) = N
  <2>1. 0 \in Int /\ N - 1 \in Int
    BY <1>2
  <2> HIDE DEF N
  <2>2. IsFiniteSet(0..(N - 1)) /\ Cardinality(0..(N - 1)) = IF 0 > N - 1 THEN 0 ELSE (N - 1) - 0 + 1
    BY <2>1, FS_Interval
  <2> QED BY <2>2, <1>2
<1>7. place \in Surjection(S, 0..(N - 1))
  <2> HIDE DEF place
  <2> QED BY <1>5, <1>6, FS_Injection
<1>8. first \in Surjection(low, 0..(n - 1))
  <2>1. \A x \in S : x \in low <=> place[x] < n
    BY DEF Bottom
  <2>2. \A x \in S : place[x] \in 0..(N - 1)
    BY <1>3
  <2>3. first \in [low -> 0..(n - 1)]
    <3>1. low \subseteq S
      BY DEF Bottom
    <3> HIDE DEF place, low
    <3> QED BY <2>1, <2>2, <3>1, <1>2
  <2>4. ASSUME NEW i \in 0..(n - 1) PROVE \E x \in low : first[x] = i
    <3>1. i \in 0..(N - 1) /\ i < n
      BY <1>2
    <3>2. PICK x \in S : place[x] = i
      <4> HIDE DEF place
      <4> QED BY <3>1, <1>7 DEF Surjection
    <3>3. x \in low
      BY <2>1, <3>1, <3>2
    <3> QED BY <3>2, <3>3
  <2> HIDE DEF first, low
  <2> QED BY <2>3, <2>4 DEF Surjection
<1>9. IsFiniteSet(low)
  <2>1. low \in SUBSET S
    BY DEF Bottom
  <2> HIDE DEF low
  <2> QED BY <2>1, FS_Subset
<1>10. Cardinality(0..(n - 1)) <= Cardinality(low)
  <2> HIDE DEF first, low
  <2> QED BY <1>8, <1>9, FS_Surjection
<1>11. Cardinality(0..(n - 1)) = n
  BY FS_Interval
<1> QED BY <1>9, <1>10, <1>11

(***************************************************************************)
(* Transactions past their first check.                                    *)
(***************************************************************************)
Pending == checked_tx \cup deferred_tx \cup (executing_tx \cap Tx)
PendingBounded == Cardinality(Pending) <= CheckedCapacity

\* All containers are finite.
LEMMA ContainersFinite ==
    ASSUME TypeOK
    PROVE  /\ IsFiniteSet(unchecked_tx) /\ IsFiniteSet(checked_tx) /\ IsFiniteSet(deferred_tx)
           /\ IsFiniteSet(executing_tx) /\ IsFiniteSet(bundles) /\ IsFiniteSet(Pending)
<1>1. IsFiniteSet(Key)
  BY FiniteAssumption, FS_Union DEF Key
<1>2. Pending \in SUBSET Tx
  BY DEF TypeOK, Pending
<1> QED BY <1>1, <1>2, FiniteAssumption, FS_Subset DEF TypeOK

\* The containers being disjoint, the sum that CheckedBounded bounds is the size
\* of Pending, and no more than pending_len, which counts bundle keys too.
LEMMA PendingCount ==
    ASSUME TypeOK, OneContainer
    PROVE  /\ Cardinality(Pending) = Cardinality(checked_tx) + Cardinality(deferred_tx)
                                       + Cardinality(executing_tx \cap Tx)
           /\ Cardinality(Pending) <= pending_len
           /\ Cardinality(Pending) \in Nat /\ pending_len \in Nat
<1> DEFINE C == checked_tx
           D == deferred_tx
           E == executing_tx \cap Tx
<1>1. IsFiniteSet(C) /\ IsFiniteSet(D) /\ IsFiniteSet(executing_tx) /\ IsFiniteSet(Pending)
  BY ContainersFinite
<1>2. IsFiniteSet(E) /\ Cardinality(E) <= Cardinality(executing_tx)
  BY <1>1, FS_Intersection
<1>3. /\ Cardinality(C) \in Nat /\ Cardinality(D) \in Nat /\ Cardinality(E) \in Nat
      /\ Cardinality(executing_tx) \in Nat /\ Cardinality(Pending) \in Nat
  BY <1>1, <1>2, FS_CardinalityType
<1>4. C \cap D = {} /\ (C \cup D) \cap E = {}
  BY DEF OneContainer
<1>5. IsFiniteSet(C \cup D) /\ Cardinality(C \cup D) = Cardinality(C) + Cardinality(D)
  <2>1. IsFiniteSet(C \cup D)
        /\ Cardinality(C \cup D) = Cardinality(C) + Cardinality(D) - Cardinality(C \cap D)
    BY <1>1, FS_Union
  <2>2. Cardinality(C \cap D) = 0
    BY <1>4, FS_EmptySet
  <2> QED BY <2>1, <2>2, <1>3
<1>6. Cardinality((C \cup D) \cup E) = Cardinality(C \cup D) + Cardinality(E)
  <2>1. Cardinality((C \cup D) \cup E)
          = Cardinality(C \cup D) + Cardinality(E) - Cardinality((C \cup D) \cap E)
    BY <1>2, <1>5, FS_Union
  <2>2. Cardinality((C \cup D) \cap E) = 0
    BY <1>4, FS_EmptySet
  <2> QED BY <2>1, <2>2, <1>3, <1>5
<1>7. Pending = (C \cup D) \cup E
  BY DEF Pending
<1>8. pending_len = Cardinality(C) + Cardinality(executing_tx) + Cardinality(D)
  BY DEF pending_len
<1> QED BY <1>2, <1>3, <1>5, <1>6, <1>7, <1>8

\* Apart from a first check that passes, a step only moves transactions inside
\* Pending or out of it.
LEMMA PendingShrinks ==
    ASSUME TypeOK, Ownership, Next, ~ \E k \in Tx : CheckPassed(k)
    PROVE  Pending' \subseteq Pending
<1>1. ASSUME UNCHANGED <<checked_tx, deferred_tx, executing_tx>>
      PROVE  Pending' \subseteq Pending
  BY <1>1 DEF Pending
<1>2. ASSUME NEW site, Panics(site) PROVE Pending' \subseteq Pending
  BY <1>1, <1>2 DEF Panics, store
<1>3. ASSUME NEW v \in View, CheckSlotRoll(v) PROVE Pending' \subseteq Pending
  BY <1>3, RollStore DEF CheckSlotRoll, Pending
<1>4. ASSUME NEW v \in View, NEW p \in TipPair,
             BecomeTipReceiver(v, p) \/ TipLocksRefused(v, p)
      PROVE  Pending' \subseteq Pending
  <2>1. RollSlot(v) /\ executing_tx' \cap Tx = executing_tx \cap Tx
    BY <1>4, KeyFacts DEF BecomeTipReceiver, TipLocksRefused
  <2> QED BY <2>1, RollStore DEF Pending
<1>5. ASSUME NEW m \in execMsgs, ExecuteAnswer(m) PROVE Pending' \subseteq Pending
  <2>1. m.key \in executing_tx /\ executing_tx' = executing_tx \ {m.key}
    BY <1>5 DEF ExecuteAnswer, Unprocessed, ExecuteFinal, ExecuteRetry, Answered, Ownership,
                RequestsMatchExecuting
  <2>2. /\ checked_tx' \subseteq checked_tx \cup ({m.key} \cap Tx)
        /\ deferred_tx' \subseteq deferred_tx \cup ({m.key} \cap Tx)
    BY <1>5 DEF ExecuteAnswer, Unprocessed, ExecuteFinal, ExecuteRetry
  <2> QED BY <2>1, <2>2 DEF Pending
<1>6. ASSUME NEW k \in Tx, CheckAnswer(k) PROVE Pending' \subseteq Pending
  <2>1. CheckIgnored(k) \/ CheckFailed(k) \/ EvictCheckedMissing(k)
    BY <1>6 DEF CheckAnswer
  <2>2. CASE CheckIgnored(k) \/ CheckFailed(k)
    BY <2>2 DEF CheckIgnored, CheckFailed, CheckAnswered, Pending
  <2> QED BY <2>1, <2>2, <1>2 DEF EvictCheckedMissing
<1>7. ASSUME Ingest PROVE Pending' \subseteq Pending
  <2>1. (\E site : Panics(site)) \/ UNCHANGED <<checked_tx, deferred_tx, executing_tx>>
    BY <1>7 DEF Ingest, DrainTpuDropExpired, JitoTipConfig, OnPacket, OnBundle, store
  <2> QED BY <2>1, <1>1, <1>2
<1>8. ASSUME ScheduleChecks \/ ChecksDone \/ SkipWorker \/ EndPoll \/ Validator \/ Halted
      PROVE  Pending' \subseteq Pending
  <2>1. UNCHANGED <<checked_tx, deferred_tx, executing_tx>>
    BY <1>8, GroupsOfVars
       DEF ScheduleChecks, ChecksDone, SkipWorker, EndPoll, Validator, CheckWorkerTakes,
           BankAdvances, ExecWorkerTakes, BundleExpires, Halted, store
  <2> QED BY <2>1, <1>1
<1>9. ASSUME NEW k \in Tx, TryScheduleTransaction(k) PROVE Pending' \subseteq Pending
  BY <1>9, KeyFacts DEF TryScheduleTransaction, Send, KeysOf, Pending
<1>10. ASSUME NEW b \in Bundle, TryScheduleBundle(b) PROVE Pending' \subseteq Pending
  BY <1>10, KeyFacts DEF TryScheduleBundle, Send, KeysOf, Pending
<1>11. ASSUME Roll \/ Disconnected PROVE Pending' \subseteq Pending
  BY <1>11, <1>2, <1>3, <1>4 DEF Roll, TipConfigMissing, Disconnected
<1>12. ASSUME Schedule PROVE Pending' \subseteq Pending
  BY <1>12, <1>2, <1>8, <1>9, <1>10 DEF Schedule, LockedTwice
<1> QED BY <1>5, <1>6, <1>7, <1>8, <1>11, <1>12 DEF Next, Scheduler

\* A first check that passes at capacity evicts one transaction for the one that
\* enters; below capacity pending_len leaves room for one.
LEMMA PendingChecked ==
    ASSUME TypeOK, Ownership, PendingBounded, NEW k \in Tx, CheckPassed(k)
    PROVE  PendingBounded'
<1>1. /\ Cardinality(Pending) \in Nat /\ pending_len \in Nat
      /\ Cardinality(Pending) <= pending_len
  BY PendingCount DEF Ownership, TransactionsAccounted
<1>2. IsFiniteSet(Pending) /\ checked_tx \in SUBSET (Tx \cup Bundle) /\ CheckedCapacity \in Nat
  BY ContainersFinite, BoundsAssumption DEF TypeOK
<1>3. UNCHANGED <<executing_tx, deferred_tx>>
  BY DEF CheckPassed, FirstCheck, CheckAnswered
<1>4. CASE AtCapacity
  <2>1. checked_tx # {} /\ checked_tx' = (checked_tx \ Lowest(checked_tx)) \cup {k}
    BY <1>4 DEF CheckPassed
  <2>2. PICK x \in checked_tx : Lowest(checked_tx) = {x}
    BY <2>1, <1>2, LowestIsOne
  <2>3. x \in Pending /\ x \notin deferred_tx /\ x \notin executing_tx
    BY <2>2 DEF Pending, Ownership, TransactionsAccounted, OneContainer
  <2> DEFINE rest == Pending \ {x}
  <2>4. Pending' = rest \cup {k}
    BY <2>1, <2>2, <2>3, <1>3 DEF Pending
  <2>5. IsFiniteSet(rest) /\ Cardinality(rest) = Cardinality(Pending) - 1
    BY <2>3, <1>2, FS_RemoveElement
  <2>6. /\ IsFiniteSet(rest \cup {k})
        /\ Cardinality(rest \cup {k}) = IF k \in rest THEN Cardinality(rest) ELSE Cardinality(rest) + 1
    <3> HIDE DEF rest
    <3> QED BY <2>5, FS_AddElement
  <2>7. Cardinality(Pending') <= Cardinality(Pending)
    <3> HIDE DEF rest
    <3> QED BY <2>4, <2>5, <2>6, <1>1
  <2>8. Cardinality(Pending') \in Nat
    BY <2>4, <2>6, FS_CardinalityType
  <2> QED BY <2>7, <2>8, <1>1, <1>2 DEF PendingBounded
<1>5. CASE ~AtCapacity
  <2>1. Pending' = Pending \cup {k}
    BY <1>3, <1>5 DEF CheckPassed, Pending
  <2>2. Cardinality(Pending) < CheckedCapacity
    BY <1>1, <1>2, <1>5 DEF AtCapacity
  <2>3. /\ Cardinality(Pending \cup {k}) = IF k \in Pending THEN Cardinality(Pending)
                                           ELSE Cardinality(Pending) + 1
        /\ IsFiniteSet(Pending \cup {k})
    BY <1>2, FS_AddElement
  <2>4. Cardinality(Pending \cup {k}) \in Nat
    BY <2>3, <1>1
  <2> QED BY <2>1, <2>2, <2>3, <2>4, <1>1, <1>2 DEF PendingBounded
<1> QED BY <1>4, <1>5

\* Steps that let no transaction in.
LEMMA PendingFewer ==
    ASSUME TypeOK, PendingBounded, Pending' \subseteq Pending
    PROVE  PendingBounded'
<1>1. IsFiniteSet(Pending) /\ Pending' \in SUBSET Pending
  BY ContainersFinite
<1>2. /\ IsFiniteSet(Pending') /\ Cardinality(Pending') <= Cardinality(Pending)
  BY <1>1, FS_Subset
<1>3. Cardinality(Pending) \in Nat /\ Cardinality(Pending') \in Nat
  BY <1>1, <1>2, FS_CardinalityType
<1> QED BY <1>2, <1>3, BoundsAssumption DEF PendingBounded

\* Every step.
LEMMA PendingStep ==
    ASSUME TypeOK, Ownership, PendingBounded, [Next]_vars
    PROVE  PendingBounded'
<1>1. CASE \E k \in Tx : CheckPassed(k)
  BY <1>1, PendingChecked
<1>2. CASE Next /\ ~ \E k \in Tx : CheckPassed(k)
  BY <1>2, PendingShrinks, PendingFewer
<1>3. CASE UNCHANGED vars
  <2>1. Pending' = Pending
    BY <1>3, GroupsOfVars DEF Pending
  <2> QED BY <2>1, PendingFewer
<1> QED BY <1>1, <1>2, <1>3

LEMMA PendingAtFirst == ASSUME Init PROVE PendingBounded
<1>1. Pending = {} /\ CheckedCapacity \in Nat
  BY BoundsAssumption DEF Init, Pending
<1> QED BY <1>1, FS_EmptySet DEF PendingBounded

\* The transactions past their first check never exceed checked_capacity, however
\* checks, retries, evictions and slots interleave.
LEMMA CheckedBoundedCorrect == Spec => []CheckedBounded
<1>1. Init => PendingBounded
  BY PendingAtFirst
<1>2. TypeOK /\ Ownership /\ PendingBounded /\ [Next]_vars => PendingBounded'
  BY PendingStep
<1>3. TypeOK /\ Ownership /\ PendingBounded => CheckedBounded
  BY PendingCount DEF Ownership, TransactionsAccounted, PendingBounded, CheckedBounded
<1> QED BY <1>1, <1>2, <1>3, TypeCorrect, OwnershipCorrect, PTL DEF Spec

(***************************************************************************)
(* unchecked_tx and bundles.                                               *)
(***************************************************************************)
\* One element of a container at capacity n makes room for one more.
LEMMA RoomForOne ==
    ASSUME NEW S \in SUBSET (Tx \cup Bundle), IsFiniteSet(S), NEW n \in Nat,
           Cardinality(S) <= n, NEW e, NEW new,
           Cardinality(S) = n => S # {} /\ e = Lowest(S),
           Cardinality(S) # n => e = {}
    PROVE  Cardinality((S \ e) \cup {new}) <= n
<1>1. Cardinality(S) \in Nat
  BY FS_CardinalityType
<1> DEFINE rest == S \ e
<1>2. IsFiniteSet(rest) /\ Cardinality(rest) < n /\ Cardinality(rest) \in Nat
  <2>1. CASE Cardinality(S) = n
    <3>1. PICK x \in S : e = {x}
      BY <2>1, LowestIsOne
    <3>2. IsFiniteSet(S \ {x}) /\ Cardinality(S \ {x}) = Cardinality(S) - 1
      BY FS_RemoveElement
    <3>3. Cardinality(S \ {x}) \in Nat
      BY <3>2, FS_CardinalityType
    <3> QED BY <2>1, <3>1, <3>2, <3>3, <1>1
  <2>2. CASE Cardinality(S) # n
    <3>1. rest = S
      BY <2>2
    <3> QED BY <2>2, <3>1, <1>1
  <2> QED BY <2>1, <2>2
<1> HIDE DEF rest
<1>3. Cardinality(rest \cup {new}) = IF new \in rest THEN Cardinality(rest)
                                     ELSE Cardinality(rest) + 1
  BY <1>2, FS_AddElement
<1>4. Cardinality(rest \cup {new}) <= n
  BY <1>2, <1>3
<1> QED BY <1>4 DEF rest

\* The loop of drain_tpu pops as many as the counted arrivals are short of, so
\* that what stays is within the capacity however much had gathered.
LEMMA KeptByDrain ==
    ASSUME NEW S \in SUBSET (Tx \cup Bundle), IsFiniteSet(S), NEW n \in Nat,
           NEW counted \in Nat, NEW short, short = SatSub(Cardinality(S) + counted, n),
           short <= Cardinality(S)
    PROVE  /\ IsFiniteSet(S \ Bottom(S, short))
           /\ Cardinality(S \ Bottom(S, short)) <= n
<1> DEFINE low == Bottom(S, short)
<1>1. Cardinality(S) \in Nat
  BY FS_CardinalityType
<1>2. short \in Nat /\ Cardinality(S) + counted - short <= n
  BY <1>1 DEF SatSub
<1>3. IsFiniteSet(low) /\ short <= Cardinality(low) /\ low \in SUBSET S
  BY <1>2, BottomHolds, Selections
<1> HIDE DEF low
<1>4. IsFiniteSet(S \ low) /\ Cardinality(S \ low) = Cardinality(S) - Cardinality(low)
  <2>1. S \cap low = low
    BY <1>3
  <2>2. IsFiniteSet(S \ low) /\ Cardinality(S \ low) = Cardinality(S) - Cardinality(S \cap low)
    BY FS_Difference
  <2> QED BY <2>1, <2>2
<1>5. Cardinality(low) \in Nat
  BY <1>3, FS_CardinalityType
<1>6. Cardinality(S \ low) <= n
  BY <1>1, <1>2, <1>3, <1>4, <1>5
<1> QED BY <1>4, <1>6 DEF low

\* A container that only loses elements stays within its capacity n.
LEMMA StaysWithin ==
    ASSUME NEW S, IsFiniteSet(S), NEW T \in SUBSET S, NEW n \in Nat, Cardinality(S) <= n
    PROVE  Cardinality(T) <= n
<1>1. IsFiniteSet(T) /\ Cardinality(T) <= Cardinality(S)
  BY FS_Subset
<1>2. Cardinality(S) \in Nat /\ Cardinality(T) \in Nat
  BY <1>1, FS_CardinalityType
<1> QED BY <1>1, <1>2

\* Every step that is not an arrival only takes out of unchecked_tx and bundles.
LEMMA OnlyIngestAdmits ==
    ASSUME TypeOK, [Next]_vars, ~Ingest
    PROVE  unchecked_tx' \subseteq unchecked_tx /\ bundles' \subseteq bundles
<1>1. ASSUME Roll \/ Disconnected
      PROVE  unchecked_tx' \subseteq unchecked_tx /\ bundles' \subseteq bundles
  BY <1>1 DEF Roll, Disconnected, CheckSlotRoll, BecomeTipReceiver, TipLocksRefused, RollSlot,
              TipConfigMissing, Panics, store
<1>2. ASSUME NEW m, ExecuteAnswer(m)
      PROVE  unchecked_tx' \subseteq unchecked_tx /\ bundles' \subseteq bundles
  BY <1>2 DEF ExecuteAnswer, Unprocessed, ExecuteFinal, ExecuteRetry, Answered
<1>3. ASSUME NEW k, CheckAnswer(k)
      PROVE  unchecked_tx' \subseteq unchecked_tx /\ bundles' \subseteq bundles
  BY <1>3 DEF CheckAnswer, CheckIgnored, CheckFailed, CheckPassed, FirstCheck, CheckAnswered,
              EvictCheckedMissing, Panics, store
<1>4. ASSUME Schedule
      PROVE  unchecked_tx' \subseteq unchecked_tx /\ bundles' \subseteq bundles
  BY <1>4 DEF Schedule, ScheduleChecks, ChecksDone, SkipWorker, EndPoll, Send,
              TryScheduleTransaction, TryScheduleBundle, LockedTwice, Panics, store
<1>5. ASSUME Validator \/ Halted \/ UNCHANGED vars
      PROVE  unchecked_tx' \subseteq unchecked_tx /\ bundles' \subseteq bundles
  BY <1>5, GroupsOfVars DEF Validator, CheckWorkerTakes, BankAdvances, ExecWorkerTakes,
                            BundleExpires, Halted, store
<1> QED BY <1>1, <1>2, <1>3, <1>4, <1>5 DEF Next, Scheduler

\* on_bundle makes room before it inserts; nothing else inserts into bundles.
LEMMA BundlesStep == ASSUME TypeOK, BundlesBounded, [Next]_vars PROVE BundlesBounded'
<1>1. /\ IsFiniteSet(bundles) /\ bundles \in SUBSET (Tx \cup Bundle)
      /\ BundleCapacity \in Nat /\ Cardinality(bundles) <= BundleCapacity
  BY ContainersFinite, BoundsAssumption DEF TypeOK, BundlesBounded
<1>2. ASSUME bundles' \subseteq bundles PROVE BundlesBounded'
  BY <1>1, <1>2, StaysWithin DEF BundlesBounded
<1>3. ASSUME NEW b \in Bundle, NEW good \in BOOLEAN, OnBundle(b, good) PROVE BundlesBounded'
  <2> DEFINE full == Cardinality(bundles) = BundleCapacity
             evicted == IF full /\ good THEN Lowest(bundles) ELSE {}
  <2>1. CASE full /\ good /\ bundles = {}
    BY <1>2, <1>3, <2>1 DEF OnBundle, Panics, store
  <2>2. CASE ~(full /\ good /\ bundles = {})
    <3>1. bundles' = IF good THEN (bundles \ evicted) \cup {b} ELSE bundles
      BY <1>3, <2>2 DEF OnBundle
    <3>2. CASE good
      <4>1. /\ Cardinality(bundles) = BundleCapacity
                 => bundles # {} /\ evicted = Lowest(bundles)
            /\ Cardinality(bundles) # BundleCapacity => evicted = {}
        BY <2>2, <3>2
      <4>2. Cardinality((bundles \ evicted) \cup {b}) <= BundleCapacity
        <5> HIDE DEF evicted
        <5> QED BY <1>1, <4>1, RoomForOne
      <4> QED BY <3>1, <3>2, <4>2 DEF BundlesBounded
    <3>3. CASE ~good
      BY <1>2, <3>1, <3>3
    <3> QED BY <3>2, <3>3
  <2> QED BY <2>1, <2>2
<1>4. ASSUME Ingest, ~ \E b \in Bundle, good \in BOOLEAN : OnBundle(b, good)
      PROVE  bundles' \subseteq bundles
  BY <1>4 DEF Ingest, DrainTpuDropExpired, OnPacket, JitoTipConfig, Panics, store
<1> QED BY <1>2, <1>3, <1>4, OnlyIngestAdmits

\* bundles never exceeds its capacity.
LEMMA BundlesBoundedCorrect == Spec => []BundlesBounded
<1>1. Init => BundlesBounded
  BY BoundsAssumption, FS_EmptySet DEF Init, BundlesBounded
<1>2. TypeOK /\ BundlesBounded /\ [Next]_vars => BundlesBounded'
  BY BundlesStep
<1> QED BY <1>1, <1>2, TypeCorrect, PTL DEF Spec

\* Both capacities hold, whatever they are.
THEOREM CapacitiesCorrect == Spec => []CapacitiesKept
<1>1. CheckedBounded /\ BundlesBounded => CapacitiesKept
  BY DEF CapacitiesKept
<1> QED BY <1>1, CheckedBoundedCorrect, BundlesBoundedCorrect, PTL

\* Only drain_tpu goes from the drained responses to the Jito channel.
LEMMA OnlyDrainEnters ==
    ASSUME Next, pc = "drain", pc' = "jito"
    PROVE  \E arrived \in SUBSET Tx :
             \E good \in SUBSET arrived, counted \in 0..Cardinality(arrived) :
               DrainTpuDropExpired(counted, arrived, good)
<1>1. ASSUME Roll \/ Disconnected PROVE FALSE
  BY <1>1 DEF Roll, Disconnected, CheckSlotRoll, BecomeTipReceiver, TipLocksRefused, RollSlot,
              TipConfigMissing
<1>2. ASSUME NEW m, ExecuteAnswer(m) PROVE FALSE
  BY <1>2 DEF ExecuteAnswer, Unprocessed, ExecuteFinal, ExecuteRetry, Answered, control
<1>3. ASSUME NEW k, CheckAnswer(k) PROVE FALSE
  BY <1>3 DEF CheckAnswer, CheckIgnored, CheckFailed, CheckPassed, FirstCheck, CheckAnswered,
              EvictCheckedMissing, Panics, control
<1>4. ASSUME Schedule PROVE FALSE
  BY <1>4 DEF Schedule, ScheduleChecks, ChecksDone, SkipWorker, EndPoll, Send, AtWorker,
              TryScheduleTransaction, TryScheduleBundle, LockedTwice
<1>5. ASSUME Validator \/ Halted PROVE FALSE
  BY <1>5 DEF Validator, CheckWorkerTakes, BankAdvances, ExecWorkerTakes, BundleExpires,
              Halted, vars, control
<1>6. CASE Ingest
  BY <1>6 DEF Ingest, JitoTipConfig, OnPacket, OnBundle
<1> QED BY <1>1, <1>2, <1>3, <1>4, <1>5, <1>6 DEF Next, Scheduler

\* drain_tpu keeps at most the capacity and adds at most its limit.
LEMMA DrainStep ==
    ASSUME TypeOK, Ownership, NEW arrived \in SUBSET Tx, NEW good \in SUBSET arrived,
           NEW counted \in 0..Cardinality(arrived),
           DrainTpuDropExpired(counted, arrived, good), pc' = "jito"
    PROVE  /\ Cardinality(unchecked_tx \cap unchecked_tx') <= UncheckedCapacity
           /\ Cardinality(unchecked_tx') <= UncheckedCapacity + TpuLimit
<1> DEFINE short == SatSub(Cardinality(unchecked_tx) + counted, UncheckedCapacity)
           rest == unchecked_tx \ Bottom(unchecked_tx, short)
<1>1. /\ IsFiniteSet(unchecked_tx) /\ unchecked_tx \in SUBSET (Tx \cup Bundle)
      /\ UncheckedCapacity \in Nat /\ Cardinality(unchecked_tx) \in Nat
  BY ContainersFinite, BoundsAssumption, FS_CardinalityType DEF TypeOK
<1>2. IsFiniteSet(arrived) /\ IsFiniteSet(good) /\ Cardinality(good) <= Cardinality(arrived)
  BY FiniteAssumption, FS_Subset
<1>3. Cardinality(arrived) \in Nat /\ Cardinality(good) \in Nat /\ counted \in Nat
  BY <1>2, FS_CardinalityType
<1>4. ~(short > Cardinality(unchecked_tx))
  BY DEF DrainTpuDropExpired, Panics, control
<1>5. short <= Cardinality(unchecked_tx)
  BY <1>1, <1>3, <1>4 DEF SatSub
<1>6. unchecked_tx' = rest \cup good /\ Fresh(arrived) /\ Cardinality(arrived) <= TpuLimit
  BY <1>4 DEF DrainTpuDropExpired
<1>7. IsFiniteSet(rest) /\ Cardinality(rest) <= UncheckedCapacity
  BY <1>1, <1>3, <1>5, KeptByDrain
<1>8. good \cap unchecked_tx = {}
  BY <1>6 DEF Fresh, Ownership, TransactionsAccounted, HeldAreLive, Held
<1>9. unchecked_tx \cap unchecked_tx' = rest
  BY <1>6, <1>8
<1>10. TpuLimit \in Nat
  BY BoundsAssumption DEF TpuLimit
<1> HIDE DEF rest
<1>11. /\ IsFiniteSet(rest \cap good)
       /\ Cardinality(rest \cup good)
            = Cardinality(rest) + Cardinality(good) - Cardinality(rest \cap good)
  BY <1>2, <1>7, FS_Union, FS_Intersection
<1>12. Cardinality(rest) \in Nat /\ Cardinality(rest \cap good) \in Nat
  BY <1>7, <1>11, FS_CardinalityType
<1>13. Cardinality(unchecked_tx') <= UncheckedCapacity + TpuLimit
  BY <1>1, <1>2, <1>3, <1>6, <1>7, <1>10, <1>11, <1>12
<1> QED BY <1>7, <1>9, <1>13

\* Every other step keeps a container that is within its capacity within it.
LEMMA OthersStayWithin ==
    ASSUME TypeOK, Next, ~(pc = "drain" /\ pc' = "jito"),
           Cardinality(unchecked_tx) <= UncheckedCapacity
    PROVE  Cardinality(unchecked_tx') <= UncheckedCapacity
<1>1. /\ IsFiniteSet(unchecked_tx) /\ unchecked_tx \in SUBSET (Tx \cup Bundle)
      /\ UncheckedCapacity \in Nat
  BY ContainersFinite, BoundsAssumption DEF TypeOK
<1>2. ASSUME unchecked_tx' \subseteq unchecked_tx
      PROVE  Cardinality(unchecked_tx') <= UncheckedCapacity
  BY <1>1, <1>2, StaysWithin
<1>3. ASSUME NEW k \in Tx, NEW good \in BOOLEAN, OnPacket(k, good)
      PROVE  Cardinality(unchecked_tx') <= UncheckedCapacity
  <2> DEFINE full == Cardinality(unchecked_tx) = UncheckedCapacity
             evicted == IF full /\ good THEN Lowest(unchecked_tx) ELSE {}
  <2>1. CASE full /\ good /\ unchecked_tx = {}
    BY <1>2, <1>3, <2>1 DEF OnPacket, Panics, store
  <2>2. CASE ~(full /\ good /\ unchecked_tx = {})
    <3>1. unchecked_tx' = IF good THEN (unchecked_tx \ evicted) \cup {k} ELSE unchecked_tx
      BY <1>3, <2>2 DEF OnPacket
    <3>2. CASE good
      <4>1. /\ Cardinality(unchecked_tx) = UncheckedCapacity
                 => unchecked_tx # {} /\ evicted = Lowest(unchecked_tx)
            /\ Cardinality(unchecked_tx) # UncheckedCapacity => evicted = {}
        BY <2>2, <3>2
      <4>2. Cardinality((unchecked_tx \ evicted) \cup {k}) <= UncheckedCapacity
        <5> HIDE DEF evicted
        <5> QED BY <1>1, <4>1, RoomForOne
      <4> QED BY <3>1, <3>2, <4>2
    <3>3. CASE ~good
      BY <1>2, <3>1, <3>3
    <3> QED BY <3>2, <3>3
  <2> QED BY <2>1, <2>2
<1>4. ASSUME NEW counted, NEW arrived, NEW good, DrainTpuDropExpired(counted, arrived, good)
      PROVE  unchecked_tx' \subseteq unchecked_tx
  BY <1>4 DEF DrainTpuDropExpired, Panics, store
<1>5. ASSUME JitoTipConfig \/ \E b \in Bundle, good \in BOOLEAN : OnBundle(b, good)
      PROVE  unchecked_tx' \subseteq unchecked_tx
  BY <1>5 DEF JitoTipConfig, OnBundle, Panics, store
<1>6. CASE Ingest
  BY <1>2, <1>3, <1>4, <1>5, <1>6 DEF Ingest
<1> QED BY <1>2, <1>6, OnlyIngestAdmits

\* What OverfillOnlyByDrain says of one step.
OverfillStep ==
    IF pc = "drain" /\ pc' = "jito"
    THEN /\ Cardinality(unchecked_tx \cap unchecked_tx') <= UncheckedCapacity
         /\ Cardinality(unchecked_tx') <= UncheckedCapacity + TpuLimit
    ELSE Cardinality(unchecked_tx) <= UncheckedCapacity
           => Cardinality(unchecked_tx') <= UncheckedCapacity

LEMMA EveryOverfillStep == ASSUME TypeOK, Ownership, Next PROVE OverfillStep
BY OnlyDrainEnters, DrainStep, OthersStayWithin DEF OverfillStep

\* unchecked_tx outgrows its capacity only by what reaches the TPU queue between
\* drain_tpu's count and its drain, at most one drain's limit, and drain_tpu takes
\* back every earlier excess.
THEOREM OverfillCorrect == Spec => OverfillOnlyByDrain
<1>1. TypeOK /\ Ownership /\ [Next]_vars => [OverfillStep]_vars
  BY EveryOverfillStep
<1> QED BY <1>1, TypeCorrect, OwnershipCorrect, PTL DEF Spec, OverfillOnlyByDrain, OverfillStep

\* Every step finds what it evicts on the way in, if one drain takes at most
\* unchecked_capacity and no capacity is zero.
LEMMA EvictionStep ==
    ASSUME DrainLeader <= UncheckedCapacity, DrainFollower <= UncheckedCapacity,
           UncheckedCapacity > 0, BundleCapacity > 0,
           TypeOK, IngestEvictionsFind, [Next]_vars
    PROVE  IngestEvictionsFind'
<1>1. ASSUME UNCHANGED panic PROVE IngestEvictionsFind'
  BY <1>1 DEF IngestEvictionsFind
<1>2. ASSUME panic' \in {"none", "assert", "tip_config", "disconnected", "evict_checked",
                        "locked_twice"}
      PROVE  IngestEvictionsFind'
  BY <1>2 DEF IngestEvictionsFind
<1>3. ASSUME NEW arrived \in SUBSET Tx, NEW good \in SUBSET arrived,
             NEW counted \in 0..Cardinality(arrived),
             DrainTpuDropExpired(counted, arrived, good)
      PROVE  UNCHANGED panic
  <2>1. Cardinality(arrived) <= UncheckedCapacity /\ IsFiniteSet(arrived)
    <3>1. IsFiniteSet(arrived)
      BY FiniteAssumption, FS_Subset
    <3>2. Cardinality(arrived) \in Nat
      BY <3>1, FS_CardinalityType
    <3> QED BY <1>3, <3>1, <3>2, BoundsAssumption DEF DrainTpuDropExpired, TpuLimit
  <2>2. Cardinality(unchecked_tx) \in Nat /\ Cardinality(arrived) \in Nat
    BY <2>1, ContainersFinite, FS_CardinalityType
  <2>3. ~(SatSub(Cardinality(unchecked_tx) + counted, UncheckedCapacity)
            > Cardinality(unchecked_tx))
    BY <2>1, <2>2, BoundsAssumption DEF SatSub
  <2> QED BY <1>3, <2>3 DEF DrainTpuDropExpired
<1>4. ASSUME NEW k \in Tx, NEW good \in BOOLEAN, OnPacket(k, good) PROVE UNCHANGED panic
  <2>1. unchecked_tx = {} => Cardinality(unchecked_tx) # UncheckedCapacity
    BY FS_EmptySet, BoundsAssumption
  <2> QED BY <1>4, <2>1 DEF OnPacket
<1>5. ASSUME NEW b \in Bundle, NEW good \in BOOLEAN, OnBundle(b, good) PROVE UNCHANGED panic
  <2>1. bundles = {} => Cardinality(bundles) # BundleCapacity
    BY FS_EmptySet, BoundsAssumption
  <2> QED BY <1>5, <2>1 DEF OnBundle
<1>6. ASSUME Ingest PROVE UNCHANGED panic
  BY <1>3, <1>4, <1>5, <1>6 DEF Ingest, JitoTipConfig
<1>7. ASSUME Roll \/ Disconnected PROVE IngestEvictionsFind'
  BY <1>2, <1>7 DEF Roll, Disconnected, CheckSlotRoll, BecomeTipReceiver, TipLocksRefused,
                    TipConfigMissing, Asserts, Panics
<1>8. ASSUME NEW m, ExecuteAnswer(m) PROVE IngestEvictionsFind'
  BY <1>2, <1>8 DEF ExecuteAnswer, Unprocessed, ExecuteFinal, ExecuteRetry, Asserts
<1>9. ASSUME NEW k, CheckAnswer(k) PROVE IngestEvictionsFind'
  BY <1>1, <1>2, <1>9 DEF CheckAnswer, CheckIgnored, CheckFailed, CheckPassed,
                          EvictCheckedMissing, Panics
<1>10. ASSUME Schedule PROVE IngestEvictionsFind'
  BY <1>1, <1>2, <1>10 DEF Schedule, ScheduleChecks, ChecksDone, SkipWorker, EndPoll, Send,
                           TryScheduleTransaction, TryScheduleBundle, LockedTwice, Asserts, Panics
<1>11. ASSUME Validator \/ Halted \/ UNCHANGED vars PROVE IngestEvictionsFind'
  BY <1>1, <1>11, GroupsOfVars DEF Validator, CheckWorkerTakes, BankAdvances,
                                   ExecWorkerTakes, BundleExpires, Halted
<1> QED BY <1>1, <1>6, <1>7, <1>8, <1>9, <1>10, <1>11 DEF Next, Scheduler

\* drain_tpu, on_packet and on_bundle never pop from an empty container, if one
\* drain takes at most unchecked_capacity and no capacity is zero: this is what
\* the configured capacities have to satisfy, and all they have to.
THEOREM IngestEvictionsCorrect ==
    ASSUME DrainLeader <= UncheckedCapacity, DrainFollower <= UncheckedCapacity,
           UncheckedCapacity > 0, BundleCapacity > 0
    PROVE  Spec => []IngestEvictionsFind
<1>1. Init => IngestEvictionsFind
  BY DEF Init, IngestEvictionsFind
<1>2. TypeOK /\ IngestEvictionsFind /\ [Next]_vars => IngestEvictionsFind'
  BY EvictionStep
<1> QED BY <1>1, <1>2, TypeCorrect, PTL DEF Spec

(***************************************************************************)
(* The cost in flight.  A sum over a set of keys is the number of its units*)
(* of cost, so that no induction over the set is needed.                   *)
(***************************************************************************)
CostExact == IsFiniteSet(CostUnits(executing_tx)) /\ CostMatchesExecuting

\* One key carries its cost.
LEMMA UnitsOfKey ==
    ASSUME NEW k \in Key
    PROVE  IsFiniteSet(CostUnits({k})) /\ Cardinality(CostUnits({k})) = MetaCost(k)
<1> DEFINE c == MetaCost(k)
<1>1. c \in Nat
  BY MetaCostType
<1>2. CostUnits({k}) = {k} \X (1..c)
  BY DEF CostUnits
<1> HIDE DEF c
<1>3. IsFiniteSet(1..c) /\ Cardinality(1..c) = c
  BY <1>1, FS_Interval
<1>4. IsFiniteSet({k}) /\ Cardinality({k}) = 1
  BY FS_Singleton
<1>5. IsFiniteSet({k} \X (1..c)) /\ Cardinality({k} \X (1..c)) = 1 * c
  <2> DEFINE one == {k}
             units == 1..c
  <2>1. IsFiniteSet(one) /\ Cardinality(one) = 1 /\ IsFiniteSet(units) /\ Cardinality(units) = c
    BY <1>3, <1>4
  <2> HIDE DEF one, units
  <2>2. IsFiniteSet(one \X units) /\ Cardinality(one \X units) = Cardinality(one) * Cardinality(units)
    BY <2>1, FS_Product
  <2> QED BY <2>1, <2>2, Zenon DEF one, units
<1>6. 1 * c = c
  BY <1>1
<1>7. IsFiniteSet(CostUnits({k})) /\ Cardinality(CostUnits({k})) = c
  BY <1>2, <1>5, <1>6, Zenon
<1> QED BY <1>7 DEF c

\* The units of two sets of keys.
LEMMA UnitsOfUnion ==
    ASSUME NEW S, NEW T, S \cap T = {}
    PROVE  /\ CostUnits(S \cup T) = CostUnits(S) \cup CostUnits(T)
           /\ CostUnits(S) \cap CostUnits(T) = {}
BY DEF CostUnits

\* A transaction or a bundle that is sent carries its cost: of a bundle's keys
\* only the first does.
LEMMA UnitsOfSent ==
    ASSUME NEW x \in Tx \cup Bundle
    PROVE  /\ IsFiniteSet(CostUnits(KeysOf(x)))
           /\ Cardinality(CostUnits(KeysOf(x))) = Cost[x]
<1>1. CASE x \in Tx
  <2>1. KeysOf(x) = {x} /\ x \in Key /\ MetaCost(x) = Cost[x]
    BY <1>1, KeyFacts DEF KeysOf, MetaCost
  <2> QED BY <2>1, UnitsOfKey
<1>2. CASE x \in Bundle
  <2> DEFINE f == First[x]
  <2>1. KeysOf(x) = Member[x] /\ f \in Member[x] /\ Member[x] \subseteq Key
    BY <1>2, KeyFacts, KeysAssumption DEF KeysOf
  <2>2. \A b \in Bundle : \A k \in Member[x] : k = First[b] => b = x
    BY <1>2, KeyFacts, KeysAssumption
  <2>3. \A k \in Member[x] : k \notin Tx
    BY <1>2, KeyFacts
  <2>4. MetaCost(f) = Cost[x]
    <3>1. (CHOOSE b \in Bundle : f = First[b]) = x
      BY <1>2, <2>1, <2>2
    <3> QED BY <1>2, <2>1, <2>3, <3>1 DEF MetaCost
  <2>5. \A k \in Member[x] : k # f => MetaCost(k) = 0
    BY <2>2, <2>3 DEF MetaCost
  <2>6. CostUnits(Member[x]) = CostUnits({f})
    <3>1. \A k \in Member[x] : k # f => 1..MetaCost(k) = {}
      BY <2>5
    <3> HIDE DEF f
    <3> QED BY <2>1, <3>1 DEF CostUnits
  <2> HIDE DEF f
  <2> QED BY <2>1, <2>4, <2>6, UnitsOfKey
<1> QED BY <1>1, <1>2

\* The tip transactions cost nothing.
LEMMA UnitsOfTips ==
    ASSUME NEW p \in TipPair
    PROVE  CostUnits(Member[p]) = {}
<1>1. \A k \in Member[p] : MetaCost(k) = 0
  BY KeyFacts, KeysAssumption DEF MetaCost
<1>2. \A k \in Member[p] : 1..MetaCost(k) = {}
  BY <1>1
<1> QED BY <1>2 DEF CostUnits

\* Keys that begin to execute are charged.
LEMMA CostCharged ==
    ASSUME TypeOK, CostExact, NEW K, K \cap executing_tx = {}, IsFiniteSet(CostUnits(K)),
           executing_tx' = executing_tx \cup K,
           in_flight_cus' = in_flight_cus + Cardinality(CostUnits(K))
    PROVE  CostExact'
<1> DEFINE old == CostUnits(executing_tx)
           new == CostUnits(K)
<1>1. CostUnits(executing_tx)' = old \cup new /\ old \cap new = {}
  <2>1. CostUnits(executing_tx)' = CostUnits(executing_tx')
    BY DEF CostUnits, MetaCost
  <2>2. executing_tx \cap K = {}
    OBVIOUS
  <2>3. CostUnits(executing_tx \cup K) = old \cup new /\ old \cap new = {}
    BY <2>2, UnitsOfUnion, Zenon
  <2> QED BY <2>1, <2>3
<1>2. IsFiniteSet(old) /\ IsFiniteSet(new) /\ in_flight_cus = Cardinality(old)
  BY DEF CostExact, CostMatchesExecuting
<1>3. in_flight_cus' = Cardinality(old) + Cardinality(new)
  BY <1>2
<1> HIDE DEF old, new
<1>4. /\ IsFiniteSet(old \cup new)
      /\ Cardinality(old \cup new) = Cardinality(old) + Cardinality(new) - Cardinality({})
  BY <1>1, <1>2, FS_Union
<1>5. Cardinality(old) \in Nat /\ Cardinality(new) \in Nat /\ Cardinality({}) = 0
  BY <1>2, FS_CardinalityType, FS_EmptySet
<1>6. in_flight_cus' = Cardinality(old \cup new)
  BY <1>3, <1>4, <1>5
<1> QED BY <1>1, <1>4, <1>6, Zenon DEF CostExact, CostMatchesExecuting

\* A key that was executing gives its cost back.
LEMMA CostReturned ==
    ASSUME TypeOK, CostExact, NEW k \in executing_tx,
           executing_tx' = executing_tx \ {k}, in_flight_cus' = in_flight_cus - MetaCost(k)
    PROVE  CostExact'
<1> DEFINE old == CostUnits(executing_tx)
           left == CostUnits(executing_tx \ {k})
           one == CostUnits({k})
<1>1. CostUnits(executing_tx)' = left
  BY DEF CostUnits, MetaCost
<1>2. old = left \cup one /\ left \cap one = {}
  <2>1. executing_tx = (executing_tx \ {k}) \cup {k} /\ (executing_tx \ {k}) \cap {k} = {}
    OBVIOUS
  <2> QED BY <2>1, UnitsOfUnion
<1>3. k \in Key
  BY DEF TypeOK
<1>4. IsFiniteSet(old) /\ in_flight_cus = Cardinality(old)
  BY DEF CostExact, CostMatchesExecuting
<1>5. IsFiniteSet(one) /\ Cardinality(one) = MetaCost(k)
  BY <1>3, UnitsOfKey
<1>6. in_flight_cus' = Cardinality(old) - Cardinality(one)
  BY <1>4, <1>5
<1> HIDE DEF old, left, one
<1>7. IsFiniteSet(left)
  <2>1. left \in SUBSET old
    BY <1>2
  <2> QED BY <1>4, <2>1, FS_Subset
<1>8. Cardinality(old) = Cardinality(left) + Cardinality(one) - Cardinality({})
  BY <1>2, <1>5, <1>7, FS_Union
<1>9. /\ Cardinality(left) \in Nat /\ Cardinality(one) \in Nat /\ Cardinality({}) = 0
  BY <1>5, <1>7, FS_CardinalityType, FS_EmptySet
<1> QED BY <1>1, <1>6, <1>7, <1>8, <1>9 DEF CostExact, CostMatchesExecuting

\* Steps that neither start nor end an execution.
LEMMA CostFrame ==
    ASSUME CostExact, UNCHANGED <<executing_tx, in_flight_cus>>
    PROVE  CostExact'
BY DEF CostExact, CostMatchesExecuting, CostUnits, MetaCost

\* Every step keeps the cost exact.
LEMMA CostStep == ASSUME TypeOK, Ownership, CostExact, [Next]_vars PROVE CostExact'
<1>1. ASSUME NEW v \in View, NEW p \in TipPair, BecomeTipReceiver(v, p) PROVE CostExact'
  <2> DEFINE K == Member[p]
  <2>1. /\ executing_tx' = executing_tx \cup K /\ in_flight_cus' = in_flight_cus
    BY <1>1 DEF BecomeTipReceiver
  <2>2. K \cap executing_tx = {}
    BY <1>1, KeyFacts DEF BecomeTipReceiver, Ownership, TipKeysFresh, TransactionsAccounted,
                          HeldAreLive, Held
  <2>3. /\ IsFiniteSet(CostUnits(K)) /\ Cardinality(CostUnits(K)) = 0
    BY UnitsOfTips, FS_EmptySet
  <2>4. in_flight_cus' = in_flight_cus + Cardinality(CostUnits(K))
    BY <2>1, <2>3 DEF TypeOK
  <2> HIDE DEF K
  <2> QED BY <2>1, <2>2, <2>3, <2>4, CostCharged
<1>2. ASSUME NEW m \in execMsgs, ExecuteAnswer(m) PROVE CostExact'
  <2>1. /\ executing_tx' = executing_tx \ {m.key}
        /\ in_flight_cus' = in_flight_cus - MetaCost(m.key)
    BY <1>2 DEF ExecuteAnswer, Unprocessed, ExecuteFinal, ExecuteRetry, Answered
  <2>2. m.key \in executing_tx
    BY <1>2 DEF Ownership, RequestsMatchExecuting
  <2> QED BY <2>1, <2>2, CostReturned
<1>3. ASSUME NEW x \in Tx \cup Bundle, Send(x), x \in checked_tx \/ x \in bundles
      PROVE  CostExact'
  <2>1. KeysOf(x) \cap executing_tx = {}
    BY <1>3, KeyFacts DEF KeysOf, Ownership, TransactionsAccounted, OneContainer,
                          BundlesAccounted, TypeOK
  <2>2. /\ executing_tx' = executing_tx \cup KeysOf(x)
        /\ in_flight_cus' = in_flight_cus + Cost[x]
    BY <1>3 DEF Send
  <2> QED BY <2>1, <2>2, UnitsOfSent, CostCharged
<1>4. ASSUME NEW site, Panics(site) PROVE CostExact'
  BY <1>4, CostFrame DEF Panics, locks, store
<1>5. ASSUME Roll \/ Disconnected PROVE CostExact'
  <2>1. ASSUME NEW v \in View, NEW p \in TipPair, TipLocksRefused(v, p) PROVE CostExact'
    BY <2>1, CostFrame DEF TipLocksRefused, locks
  <2>2. ASSUME NEW v \in View, CheckSlotRoll(v) PROVE CostExact'
    BY <2>2, CostFrame DEF CheckSlotRoll, locks
  <2> QED BY <1>1, <1>4, <1>5, <2>1, <2>2 DEF Roll, TipConfigMissing, Disconnected
<1>6. ASSUME NEW k \in Tx, CheckAnswer(k) PROVE CostExact'
  <2>1. Panics("evict_checked") \/ UNCHANGED <<locks, executing_tx>>
    BY <1>6 DEF CheckAnswer, CheckIgnored, CheckFailed, CheckPassed, EvictCheckedMissing,
                FirstCheck, CheckAnswered
  <2> QED BY <2>1, <1>4, CostFrame DEF locks
<1>7. ASSUME Ingest PROVE CostExact'
  <2>1. (\E site : Panics(site)) \/ UNCHANGED <<locks, executing_tx>>
    BY <1>7 DEF Ingest, DrainTpuDropExpired, JitoTipConfig, OnPacket, OnBundle, store
  <2> QED BY <2>1, <1>4, CostFrame DEF locks
<1>8. ASSUME ScheduleChecks \/ ChecksDone \/ SkipWorker \/ EndPoll \/ Validator
             \/ UNCHANGED vars
      PROVE  CostExact'
  <2>1. UNCHANGED <<locks, executing_tx>>
    BY <1>8 DEF ScheduleChecks, ChecksDone, SkipWorker, EndPoll, Validator, CheckWorkerTakes,
                BankAdvances, ExecWorkerTakes, BundleExpires, vars, store
  <2> QED BY <2>1, CostFrame DEF locks
<1>9. ASSUME Schedule PROVE CostExact'
  BY <1>9, <1>3, <1>4, <1>8
     DEF Schedule, TryScheduleTransaction, TryScheduleBundle, LockedTwice
<1> QED BY <1>2, <1>5, <1>6, <1>7, <1>8, <1>9 DEF Next, Scheduler, Halted

LEMMA CostAtFirst == ASSUME Init PROVE CostExact
<1>1. CostUnits(executing_tx) = {} /\ in_flight_cus = 0
  BY DEF Init, CostUnits
<1> QED BY <1>1, FS_EmptySet DEF CostExact, CostMatchesExecuting

\* in_flight_cus is the cost of what executes, to the unit, for all costs: a
\* bundle charged as a whole is given back by the key that carries its cost, and
\* the subtraction of on_execute never goes below zero.
THEOREM CostCorrect == Spec => []CostMatchesExecuting
<1>1. TypeOK /\ Ownership /\ CostExact /\ [Next]_vars => CostExact'
  BY CostStep
<1>2. Init => CostExact
  BY CostAtFirst
<1>3. CostExact => CostMatchesExecuting
  BY DEF CostExact
<1> QED BY <1>1, <1>2, <1>3, TypeCorrect, OwnershipCorrect, PTL DEF Spec
=============================================================================
