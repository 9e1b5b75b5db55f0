---------------------- MODULE BatchSchedulerExclusion ----------------------
(***************************************************************************)
(* Locks and assertions.  in_flight_locks holds exactly the locks of the   *)
(* executing keys, so can_lock keeps conflicting keys apart, and an        *)
(* assertion about the containers or the locks fails only for a bundle     *)
(* whose transaction names an account twice (LockedTwice).                 *)
(***************************************************************************)
EXTENDS BatchSchedulerOwnership

\* NoConflictInFlight said of the executing keys instead of their requests.
Apart == \A j, k \in executing_tx : j # k /\ Conflict(j, k) => SameGroup(j, k)
Locked == LocksMatchExecuting /\ Apart

\* can_lock has seen every lock of every executing key.
LEMMA GrantedApart ==
    ASSUME TypeOK, LocksMatchExecuting, NEW j \in Key, CanLock(j), NEW k \in executing_tx
    PROVE  ~Conflict(j, k) /\ ~Conflict(k, j)
<1>1. \A a \in Account : /\ writers[a] = {i \in executing_tx : a \in Writes[i]}
                         /\ readers[a] = {i \in executing_tx : a \in Reads[i]}
  BY DEF LocksMatchExecuting
<1>2. \A i \in Key : Writes[i] \subseteq Account /\ Reads[i] \subseteq Account
  BY LocksAssumption
<1>3. \A a \in Writes[j] : a \notin Writes[k] /\ a \notin Reads[k]
  BY <1>1, <1>2 DEF CanLock
<1>4. \A a \in Reads[j] : a \notin Writes[k]
  BY <1>1, <1>2 DEF CanLock
<1> QED BY <1>3, <1>4 DEF Conflict

\* Taking the locks of K: a conflict can only be inside K.
LEMMA LockStep ==
    ASSUME TypeOK, Locked, NEW K \in SUBSET Key, \A k \in K : CanLock(k), Lock(K),
           \A j, k \in K : j # k => SameGroup(j, k),
           executing_tx' = executing_tx \cup K
    PROVE  Locked'
<1>1. \A a \in Account : /\ writers[a] = {k \in executing_tx : a \in Writes[k]}
                         /\ readers[a] = {k \in executing_tx : a \in Reads[k]}
  BY DEF Locked, LocksMatchExecuting
<1>2. LocksMatchExecuting'
  <2> SUFFICES ASSUME NEW a \in Account
               PROVE  /\ writers'[a] = {k \in executing_tx' : a \in Writes[k]}
                      /\ readers'[a] = {k \in executing_tx' : a \in Reads[k]}
    BY DEF LocksMatchExecuting
  <2>1. /\ writers'[a] = writers[a] \cup {k \in K : a \in Writes[k]}
        /\ readers'[a] = readers[a] \cup {k \in K : a \in Reads[k]}
    BY DEF Lock
  <2> QED BY <2>1, <1>1
<1>3. \A j \in K, k \in executing_tx : ~Conflict(j, k) /\ ~Conflict(k, j)
  BY GrantedApart DEF Locked
<1>4. Apart'
  <2> SUFFICES ASSUME NEW j \in executing_tx', NEW k \in executing_tx', j # k, Conflict(j, k)
               PROVE  SameGroup(j, k)
    BY DEF Apart
  <2>1. CASE j \in executing_tx /\ k \in executing_tx
    BY <2>1 DEF Locked, Apart
  <2>2. CASE j \in K /\ k \in K
    BY <2>2
  <2> QED BY <2>1, <2>2, <1>3
<1> QED BY <1>2, <1>4 DEF Locked

\* Giving back the locks of k.
LEMMA UnlockStep ==
    ASSUME TypeOK, Locked, NEW k \in Key, Unlock(k), executing_tx' = executing_tx \ {k}
    PROVE  Locked'
<1>1. LocksMatchExecuting'
  <2> SUFFICES ASSUME NEW a \in Account
               PROVE  /\ writers'[a] = {j \in executing_tx' : a \in Writes[j]}
                      /\ readers'[a] = {j \in executing_tx' : a \in Reads[j]}
    BY DEF LocksMatchExecuting
  <2>1. /\ writers[a] = {j \in executing_tx : a \in Writes[j]}
        /\ readers[a] = {j \in executing_tx : a \in Reads[j]}
    BY DEF Locked, LocksMatchExecuting
  <2>2. /\ writers'[a] = IF a \in Writes[k] THEN writers[a] \ {k} ELSE writers[a]
        /\ readers'[a] = IF a \in Reads[k] THEN readers[a] \ {k} ELSE readers[a]
    BY DEF Unlock
  <2>3. writers'[a] = {j \in executing_tx' : a \in Writes[j]}
    BY <2>1, <2>2
  <2>4. readers'[a] = {j \in executing_tx' : a \in Reads[j]}
    BY <2>1, <2>2
  <2> QED BY <2>3, <2>4
<1>2. Apart'
  BY DEF Locked, Apart
<1> QED BY <1>1, <1>2 DEF Locked

\* Members of one group belong together; the keys of a transaction are one.
LEMMA KeysTogether ==
    ASSUME NEW x \in Tx \cup Bundle
    PROVE  KeysOf(x) \in SUBSET Key /\ \A j, k \in KeysOf(x) : j # k => SameGroup(j, k)
BY KeyFacts DEF KeysOf, SameGroup, Group

\* Steps that take or give no lock.
LEMMA LockedFrame ==
    ASSUME Locked, UNCHANGED <<writers, readers, executing_tx>>
    PROVE  Locked'
BY DEF Locked, LocksMatchExecuting, Apart

\* Every step preserves Locked.
LEMMA LockedStep == ASSUME TypeOK, Ownership, Locked, Next PROVE Locked'
<1>1. ASSUME NEW v \in View, CheckSlotRoll(v) PROVE Locked'
  BY <1>1, LockedFrame DEF CheckSlotRoll, locks
<1>2. ASSUME NEW v \in View, NEW p \in TipPair, BecomeTipReceiver(v, p) PROVE Locked'
  <2> DEFINE K == Member[p]
  <2>1. /\ \A k \in K : CanLock(k)
        /\ Lock(K) /\ executing_tx' = executing_tx \cup K
    BY <1>2 DEF BecomeTipReceiver
  <2>2. K \in SUBSET Key /\ \A j, k \in K : SameGroup(j, k)
    BY KeyFacts DEF SameGroup
  <2> HIDE DEF K
  <2> QED BY <2>1, <2>2, LockStep
<1>3. ASSUME NEW v \in View, NEW p \in TipPair, TipLocksRefused(v, p) PROVE Locked'
  BY <1>3, LockedFrame DEF TipLocksRefused, locks
<1>4. ASSUME NEW site, Panics(site) PROVE Locked'
  BY <1>4, LockedFrame DEF Panics, locks, store
<1>5. ASSUME NEW m \in execMsgs, ExecuteAnswer(m) PROVE Locked'
  <2>1. Unlock(m.key) /\ executing_tx' = executing_tx \ {m.key}
    BY <1>5 DEF ExecuteAnswer, Unprocessed, ExecuteFinal, ExecuteRetry, Answered
  <2>2. m.key \in Key
    BY <1>5 DEF TypeOK, ExecMsg
  <2> QED BY <2>1, <2>2, UnlockStep
<1>6. ASSUME NEW k \in Tx, CheckAnswer(k) PROVE Locked'
  <2>1. CASE EvictCheckedMissing(k)
    BY <2>1, <1>4 DEF EvictCheckedMissing
  <2>2. CASE CheckIgnored(k) \/ CheckFailed(k) \/ CheckPassed(k)
    BY <2>2, LockedFrame DEF CheckIgnored, CheckFailed, CheckPassed, FirstCheck,
                             CheckAnswered, locks
  <2> QED BY <1>6, <2>1, <2>2 DEF CheckAnswer
<1>7. ASSUME Ingest PROVE Locked'
  <2>1. (\E site : Panics(site)) \/ UNCHANGED <<locks, executing_tx>>
    BY <1>7 DEF Ingest, DrainTpuDropExpired, JitoTipConfig, OnPacket, OnBundle, store
  <2> QED BY <2>1, <1>4, LockedFrame DEF locks
<1>8. ASSUME ScheduleChecks \/ ChecksDone \/ SkipWorker \/ EndPoll \/ Validator
             \/ UNCHANGED vars
      PROVE  Locked'
  <2>1. UNCHANGED <<locks, executing_tx>>
    BY <1>8 DEF ScheduleChecks, ChecksDone, SkipWorker, EndPoll, Validator, CheckWorkerTakes,
                BankAdvances, ExecWorkerTakes, BundleExpires, vars, store
  <2> QED BY <2>1, LockedFrame DEF locks
<1>9. ASSUME NEW x \in Tx \cup Bundle, Send(x) PROVE Locked'
  <2> DEFINE K == KeysOf(x)
  <2>1. (\A k \in K : CanLock(k)) /\ Lock(K) /\ executing_tx' = executing_tx \cup K
    BY <1>9 DEF Send, Fits
  <2>2. K \in SUBSET Key /\ \A j, k \in K : j # k => SameGroup(j, k)
    BY KeysTogether
  <2> HIDE DEF K
  <2> QED BY <2>1, <2>2, LockStep
<1>10. ASSUME Roll \/ Disconnected PROVE Locked'
  BY <1>10, <1>1, <1>2, <1>3, <1>4 DEF Roll, TipConfigMissing, Disconnected
<1>11. ASSUME Schedule PROVE Locked'
  BY <1>11, <1>4, <1>8, <1>9
     DEF Schedule, TryScheduleTransaction, TryScheduleBundle, LockedTwice
<1> QED BY <1>5, <1>6, <1>7, <1>8, <1>10, <1>11 DEF Next, Scheduler, Halted

\* Locked holds in every reachable state.
THEOREM LockedCorrect == Spec => []Locked
<1>1. Init => Locked
  BY DEF Init, Locked, LocksMatchExecuting, Apart
<1>2. TypeOK /\ Ownership /\ Locked /\ [Next]_vars => Locked'
  <2>1. ASSUME Locked, UNCHANGED vars PROVE Locked'
    BY <2>1, GroupsOfVars, LockedFrame
  <2> QED BY <2>1, LockedStep
<1> QED BY <1>1, <1>2, TypeCorrect, OwnershipCorrect, PTL DEF Spec

\* in_flight_locks never leaks a lock and never misses one.
THEOREM LocksCorrect == Spec => []LocksMatchExecuting
<1>1. Locked => LocksMatchExecuting
  BY DEF Locked
<1> QED BY <1>1, LockedCorrect, PTL

\* Workers never hold conflicting requests, except those of one bundle or pair.
THEOREM ConflictsCorrect == Spec => []NoConflictInFlight
<1>1. Locked /\ Ownership => NoConflictInFlight
  BY DEF Locked, Apart, Ownership, RequestsMatchExecuting, NoConflictInFlight
<1> QED BY <1>1, LockedCorrect, OwnershipCorrect, PTL

(***************************************************************************)
(* The assertions.                                                         *)
(***************************************************************************)
\* Keys that are not executing hold no lock.
LEMMA NotLocked ==
    ASSUME TypeOK, Locked, NEW K \in SUBSET Key, K \cap executing_tx = {} PROVE LockFree(K)
BY LocksAssumption DEF LockFree, Locked, LocksMatchExecuting

\* Keys that are executing hold all of theirs.
LEMMA AllLocked ==
    ASSUME TypeOK, Locked, NEW k \in executing_tx PROVE LockHeld(k)
BY LocksAssumption DEF LockHeld, Locked, LocksMatchExecuting, TypeOK

\* No step makes an assertion fail.
LEMMA AssertionStep ==
    ASSUME TypeOK, Ownership, Locked, AssertionsHold, Next PROVE AssertionsHold'
<1>1. ASSUME NEW v \in View, NEW p \in TipPair,
             TipLocksRefused(v, p) \/ BecomeTipReceiver(v, p)
      PROVE  AssertionsHold'
  <2>1. RollAsserts(v)
    BY DEF RollAsserts, Ownership, TransactionsAccounted, OneContainer
  <2>2. CASE BecomeTipReceiver(v, p)
    <3>1. Member[p] \cap executing_tx = {} /\ Member[p] \in SUBSET Key
      BY <2>2, KeyFacts DEF BecomeTipReceiver, Ownership, TipKeysFresh,
                            TransactionsAccounted, HeldAreLive, Held
    <3>2. LockFree(Member[p])
      BY <3>1, NotLocked
    <3> QED BY <2>1, <2>2, <3>1, <3>2 DEF BecomeTipReceiver, Asserts, AssertionsHold
  <2>3. CASE TipLocksRefused(v, p)
    BY <2>1, <2>3 DEF TipLocksRefused, Asserts, AssertionsHold
  <2> QED BY <1>1, <2>2, <2>3
<1>2. ASSUME NEW v \in View, CheckSlotRoll(v) PROVE AssertionsHold'
  <2>1. RollAsserts(v)
    BY DEF RollAsserts, Ownership, TransactionsAccounted, OneContainer
  <2> QED BY <1>2, <2>1 DEF CheckSlotRoll, Asserts, AssertionsHold
<1>3. ASSUME NEW m \in execMsgs, ExecuteAnswer(m) PROVE AssertionsHold'
  <2>1. m.key \in executing_tx /\ m.key \notin checked_tx /\ m.key \notin deferred_tx
    BY <1>3 DEF Ownership, RequestsMatchExecuting, TransactionsAccounted, OneContainer
  <2>2. AnswerAsserts(m)
    BY <2>1, AllLocked DEF AnswerAsserts
  <2>3. CASE Unprocessed(m)
    BY <2>2, <2>3 DEF Unprocessed, Asserts, AssertionsHold
  <2>4. ASSUME NEW reason \in Reason, ExecuteFinal(m, reason) PROVE AssertionsHold'
    BY <2>2, <2>4 DEF ExecuteFinal, Asserts, AssertionsHold
  <2>5. ASSUME NEW reason \in Reason, NEW at \in Slot, ExecuteRetry(m, reason, at)
        PROVE  AssertionsHold'
    BY <2>1, <2>2, <2>5 DEF ExecuteRetry, Asserts, AssertionsHold
  <2> QED BY <1>3, <2>3, <2>4, <2>5 DEF ExecuteAnswer
<1>4. ASSUME NEW x \in Tx \cup Bundle, Send(x), x \in checked_tx \/ x \in bundles
      PROVE  AssertionsHold'
  <2>1. KeysOf(x) \cap executing_tx = {}
    BY <1>4, KeyFacts DEF KeysOf, Ownership, TransactionsAccounted, OneContainer,
                          BundlesAccounted, TypeOK
  <2>2. LockFree(KeysOf(x))
    BY <2>1, KeysTogether, NotLocked
  <2> QED BY <1>4, <2>1, <2>2 DEF Send, Asserts, AssertionsHold
<1>5. ASSUME NEW site \in PanicSite \ {"assert"}, Panics(site) PROVE AssertionsHold'
  BY <1>5 DEF Panics, AssertionsHold
<1>6. ASSUME NEW k \in Tx, CheckAnswer(k) PROVE AssertionsHold'
  <2>1. Panics("evict_checked") \/ UNCHANGED panic
    BY <1>6 DEF CheckAnswer, CheckIgnored, CheckFailed, CheckPassed, EvictCheckedMissing
  <2> QED BY <2>1, <1>5 DEF PanicSite, AssertionsHold
<1>7. ASSUME Ingest PROVE AssertionsHold'
  <2>1. Panics("evict_unchecked") \/ Panics("evict_bundle") \/ UNCHANGED panic
    BY <1>7 DEF Ingest, DrainTpuDropExpired, JitoTipConfig, OnPacket, OnBundle
  <2> QED BY <2>1, <1>5 DEF PanicSite, AssertionsHold
<1>8. ASSUME ScheduleChecks \/ ChecksDone \/ SkipWorker \/ EndPoll \/ Validator \/ Halted
      PROVE  AssertionsHold'
  BY <1>8, GroupsOfVars DEF ScheduleChecks, ChecksDone, SkipWorker, EndPoll, Validator,
     CheckWorkerTakes, BankAdvances, ExecWorkerTakes, BundleExpires, Halted, AssertionsHold
<1>9. ASSUME Schedule PROVE AssertionsHold'
  BY <1>9, <1>4, <1>5, <1>8
     DEF Schedule, TryScheduleTransaction, TryScheduleBundle, LockedTwice, PanicSite
<1>10. ASSUME Roll \/ Disconnected PROVE AssertionsHold'
  BY <1>10, <1>1, <1>2, <1>5 DEF Roll, TipConfigMissing, Disconnected, PanicSite
<1> QED BY <1>3, <1>6, <1>7, <1>8, <1>9, <1>10 DEF Next, Scheduler

\* The assertions in on_execute, on_check, check_slot_roll, AccountLockers and the
\* scheduling functions hold in every run, for every value of the constants, with
\* one exception that the model keeps apart (LockedTwice): a bundle's transaction
\* that names an account twice, which no check has refused, fails the assertion of
\* AccountLockers::insert.  Accounts both written and read are covered.
THEOREM AssertionsCorrect == Spec => []AssertionsHold
<1>1. Init => AssertionsHold
  BY DEF Init, AssertionsHold
<1>2. TypeOK /\ Ownership /\ Locked /\ AssertionsHold /\ [Next]_vars => AssertionsHold'
  <2>1. ASSUME AssertionsHold, UNCHANGED vars PROVE AssertionsHold'
    BY <2>1, GroupsOfVars DEF AssertionsHold
  <2> QED BY <2>1, AssertionStep
<1> QED BY <1>1, <1>2, TypeCorrect, OwnershipCorrect, LockedCorrect, PTL DEF Spec
=============================================================================
