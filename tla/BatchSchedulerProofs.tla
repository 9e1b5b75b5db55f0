------------------------ MODULE BatchSchedulerProofs ------------------------
(***************************************************************************)
(* Theorems about BatchScheduler for every value of its constants.         *)
(***************************************************************************)
EXTENDS BatchScheduler, TLAPS

(***************************************************************************)
(* The operators the actions are built from.                               *)
(***************************************************************************)
\* The cost a key is scheduled with is a natural number.
LEMMA MetaCostType == ASSUME NEW k \in Key PROVE MetaCost(k) \in Nat
<1>1. CASE k \in Tx
  BY <1>1, CostAssumption DEF MetaCost
<1>2. CASE k \notin Tx /\ \E b \in Bundle : k = First[b]
  <2>1. (CHOOSE b \in Bundle : k = First[b]) \in Bundle
    BY <1>2
  <2> QED BY <1>2, <2>1, CostAssumption DEF MetaCost
<1>3. CASE k \notin Tx /\ ~ \E b \in Bundle : k = First[b]
  BY <1>3 DEF MetaCost
<1> QED BY <1>1, <1>2, <1>3

\* The budget of schedule_execute is never negative, and never more than what the
\* limit leaves.
LEMMA BudgetType ==
    ASSUME view \in View, in_flight_cus \in Int
    PROVE  /\ SatSub(BudgetLimit, CostUsed) \in Nat
           /\ BudgetLimit \in Nat /\ CostUsed \in Int
           /\ SatSub(MaxBlockUnits, view.remaining) \in Nat
           /\ SatSub(BudgetLimit, CostUsed) > 0
                 => CostUsed + SatSub(BudgetLimit, CostUsed) <= BudgetLimit
<1>1. view.progress \in Nat /\ view.remaining \in Nat
  <2>1. view.progress \in Progress \cup {0} /\ view.remaining \in Remaining \cup {0}
    BY DEF View
  <2>2. Progress \cup {0} \subseteq Nat
    BY CostAssumption
  <2>3. Remaining \cup {0} \subseteq Nat
    BY CostAssumption
  <2> QED BY <2>1, <2>2, <2>3
<1>2. BudgetPercentage \in Nat
  BY <1>1, CostAssumption DEF BudgetPercentage
<1>3. MaxBlockUnits * BudgetPercentage \in Nat
  BY <1>2, CostAssumption
<1>4. BudgetLimit \in Nat
  BY <1>3 DEF BudgetLimit
<1>5. SatSub(MaxBlockUnits, view.remaining) \in Nat
  BY <1>1, CostAssumption DEF SatSub
<1>6. CostUsed \in Int
  BY <1>5 DEF CostUsed
<1> QED BY <1>4, <1>5, <1>6 DEF SatSub

\* Selections from a set stay in it.
LEMMA Selections ==
    ASSUME NEW S, NEW n
    PROVE  /\ Highest(S) \subseteq S /\ Lowest(S) \subseteq S
           /\ Top(S, n) \subseteq S /\ Bottom(S, n) \subseteq S
BY DEF Highest, Lowest, Top, Bottom

\* The groups of variables that an action leaves alone.
LEMMA GroupsOfVars ==
    ASSUME UNCHANGED vars
    PROVE  UNCHANGED <<pc, turn, budget, slot, was_leader_ready, view, unchecked_tx,
             checked_tx, executing_tx, deferred_tx, bundles, writers, readers,
             in_flight_cus, checkQ, checking, execMsgs, tipSlot, tip_config,
             next_recheck, life, bankSlot, expired, panic>>
BY DEF vars, control, clock, store, locks, messages

(***************************************************************************)
(* Type correctness.                                                       *)
(***************************************************************************)
\* check_slot_roll leaves the slot, the view, the transactions and the cursor well typed.
LEMMA RollSlotType ==
    ASSUME TypeOK, NEW v \in View, RollSlot(v)
    PROVE  /\ pc' = "drain" /\ slot' \in Slot /\ view' \in View /\ view'.slot = slot'
           /\ (view'.leader => slot' > 0)
           /\ checked_tx' \subseteq Tx /\ deferred_tx' \subseteq Tx
           /\ next_recheck' \subseteq Tx
           /\ UNCHANGED <<turn, budget, unchecked_tx, bundles, checkQ, tip_config,
                          bankSlot, expired>>
<1>1. v.slot \in Slot
  BY DEF View
<1>2. checked_tx' \subseteq Tx /\ deferred_tx' \subseteq Tx
  BY DEF RollSlot, TypeOK
<1>3. Highest(checked_tx') \subseteq Tx
  BY <1>2, Selections
<1>4. next_recheck' \subseteq Tx
  BY <1>3 DEF RollSlot, TypeOK, OrElse
<1>5. v.leader => v.slot > 0
  BY DEF RollSlot, Drained, TypeOK
<1> QED BY <1>1, <1>2, <1>4, <1>5 DEF RollSlot

\* The recheck cursor that schedule_checks leaves behind is a transaction or none.
LEMMA CursorType == ASSUME TypeOK PROVE NextCursor \subseteq Tx
BY Selections DEF NextCursor, TypeOK

\* Sending a transaction or a bundle to a worker keeps the types of what it changes;
\* the budget stays a natural number because the cost was compared with it first.
LEMMA SendType ==
    ASSUME TypeOK, NEW x \in Tx \cup Bundle, Send(x)
    PROVE  /\ pc' = "execute" /\ turn' \in 1..(NumExecWorkers + 1) /\ budget' \in Nat
           /\ executing_tx' \subseteq Key /\ execMsgs' \subseteq ExecMsg
           /\ in_flight_cus' \in Int
           /\ writers' \in [Account -> SUBSET Key] /\ readers' \in [Account -> SUBSET Key]
           /\ panic' \in PanicSite
           /\ UNCHANGED <<slot, was_leader_ready, view, unchecked_tx, deferred_tx, checkQ,
                          checking, tipSlot, tip_config, next_recheck, life, bankSlot,
                          expired>>
<1>1. KeysOf(x) \subseteq Key
  BY DEF KeysOf, Key, GroupKey, Group
<1>2. Cost[x] \in Nat
  BY CostAssumption
<1>3. turn \in Worker /\ turn' = turn + 1 /\ pc' = "execute"
  BY DEF Send, AtWorker
<1>4. turn' \in 1..(NumExecWorkers + 1)
  BY <1>3, BoundsAssumption DEF Worker
<1>5. budget' \in Nat /\ in_flight_cus' \in Int
  BY <1>2 DEF Send, Fits, TypeOK
<1>6. view.slot + 1 \in Nat /\ 0 \in Slot
  BY BoundsAssumption DEF TypeOK, Slot
<1>7. execMsgs' \subseteq ExecMsg
  BY <1>1, <1>3, <1>6 DEF Send, ExecMsg, TypeOK
<1>8. writers' \in [Account -> SUBSET Key] /\ readers' \in [Account -> SUBSET Key]
  BY <1>1 DEF Send, Lock, TypeOK
<1> QED BY <1>1, <1>3, <1>4, <1>5, <1>7, <1>8 DEF Send, Asserts, PanicSite, clock, TypeOK

\* Every step of the scheduler and of the validator preserves TypeOK.
LEMMA TypeStep == ASSUME TypeOK, Next PROVE TypeOK'
<1>1. ASSUME NEW v \in View, CheckSlotRoll(v) PROVE TypeOK'
  BY <1>1, RollSlotType DEF CheckSlotRoll, Asserts, PanicSite, locks, TypeOK
<1>2. ASSUME NEW v \in View, NEW p \in TipPair, BecomeTipReceiver(v, p) PROVE TypeOK'
  <2>1. Member[p] \subseteq Key
    BY DEF Key, GroupKey, Group
  <2>2. v.slot + 4 \in Nat /\ 1 \in Worker /\ 0 \in Slot /\ v.slot \in Slot
    BY BoundsAssumption DEF View, Worker, Slot
  <2>3. execMsgs' \subseteq ExecMsg
    BY <1>2, <2>1, <2>2 DEF BecomeTipReceiver, ExecMsg, TypeOK
  <2> QED BY <1>2, <2>1, <2>2, <2>3, RollSlotType
          DEF BecomeTipReceiver, Asserts, Lock, Admit, PanicSite, TypeOK
<1>3. ASSUME NEW v \in View, NEW p \in TipPair, TipLocksRefused(v, p) PROVE TypeOK'
  <2>1. v.slot \in Slot
    BY DEF View
  <2> QED BY <1>3, <2>1, RollSlotType DEF TipLocksRefused, Asserts, Drop, locks, PanicSite, TypeOK
<1>4. ASSUME NEW site \in PanicSite, Panics(site) PROVE TypeOK'
  BY <1>4 DEF Panics, control, clock, store, locks, messages, TypeOK
<1>5. ASSUME NEW m \in execMsgs, Unprocessed(m) PROVE TypeOK'
  BY <1>5, MetaCostType DEF Unprocessed, Answered, Unlock, Asserts, Drop, ExecMsg, control, clock, PanicSite, TypeOK
<1>6. ASSUME NEW m \in execMsgs, NEW reason \in Reason, ExecuteFinal(m, reason) PROVE TypeOK'
  BY <1>6, MetaCostType DEF ExecuteFinal, Answered, Unlock, Asserts, Drop, ExecMsg, control, clock, PanicSite, TypeOK
<1>7. ASSUME NEW m \in execMsgs, NEW reason \in Reason, NEW at \in Slot, ExecuteRetry(m, reason, at) PROVE TypeOK'
  BY <1>7, MetaCostType, Selections DEF ExecuteRetry, Answered, Unlock, Asserts, Drop, ExecMsg, control, clock, PanicSite, TypeOK
<1>8. ASSUME NEW k \in Tx, CheckIgnored(k) PROVE TypeOK'
  BY <1>8 DEF CheckIgnored, CheckAnswered, control, clock, locks, TypeOK
<1>9. ASSUME NEW k \in Tx, CheckFailed(k) PROVE TypeOK'
  BY <1>9 DEF CheckFailed, CheckAnswered, Drop, control, clock, locks, TypeOK
<1>10. ASSUME NEW k \in Tx, CheckPassed(k) PROVE TypeOK'
  BY <1>10, Selections DEF CheckPassed, FirstCheck, CheckAnswered, control, clock, locks, TypeOK
<1>11. ASSUME NEW counted, NEW arrived \in SUBSET Tx, NEW good \in SUBSET arrived,
              DrainTpuDropExpired(counted, arrived, good)
       PROVE  TypeOK'
  BY <1>11 DEF DrainTpuDropExpired, Panics, PanicSite, control, clock, store, locks,
               messages, TypeOK
<1>12. ASSUME JitoTipConfig PROVE TypeOK'
  BY <1>12 DEF JitoTipConfig, control, clock, store, locks, messages, TypeOK
<1>13. ASSUME NEW k \in Tx, NEW good \in BOOLEAN, OnPacket(k, good) PROVE TypeOK'
  BY <1>13 DEF OnPacket, Panics, PanicSite, control, clock, store, locks, messages, TypeOK
<1>14. ASSUME NEW b \in Bundle, NEW good \in BOOLEAN, OnBundle(b, good) PROVE TypeOK'
  BY <1>14 DEF OnBundle, Panics, PanicSite, control, clock, store, locks, messages, TypeOK
<1>15. ASSUME ScheduleChecks PROVE TypeOK'
  <2>1. CheckBatch \subseteq Tx
    BY Selections DEF CheckBatch, FromUnchecked, FromChecked, AtOrBelow, TypeOK
  <2>2. checkQ' \in Seq(SUBSET Tx)
    BY <1>15, <2>1 DEF ScheduleChecks, TypeOK
  <2> QED BY <1>15, <2>2, CursorType DEF ScheduleChecks, clock, locks, TypeOK
<1>16. ASSUME ChecksDone PROVE TypeOK'
  BY <1>16, CursorType, BudgetType, BoundsAssumption
     DEF ChecksDone, clock, store, locks, messages, TypeOK
<1>17. ASSUME SkipWorker PROVE TypeOK'
  BY <1>17, BoundsAssumption
     DEF SkipWorker, AtWorker, Worker, clock, store, locks, messages, TypeOK
<1>18. ASSUME NEW k \in Tx, TryScheduleTransaction(k) PROVE TypeOK'
  BY <1>18, SendType DEF TryScheduleTransaction, TypeOK
<1>19. ASSUME NEW b \in Bundle, TryScheduleBundle(b) PROVE TypeOK'
  BY <1>19, SendType DEF TryScheduleBundle, TypeOK
<1>20. ASSUME EndPoll PROVE TypeOK'
  <2>1. Highest(checked_tx) \subseteq Tx
    BY Selections DEF TypeOK
  <2>2. next_recheck' \subseteq Tx
    BY <1>20, <2>1 DEF EndPoll, OrElse, TypeOK
  <2>3. 1 \in 1..(NumExecWorkers + 1)
    BY BoundsAssumption
  <2> QED BY <1>20, <2>2, <2>3 DEF EndPoll, clock, store, locks, messages, TypeOK
<1>21. ASSUME CheckWorkerTakes PROVE TypeOK'
  <2>1. checkQ' \in Seq(SUBSET Tx)
    BY <1>21 DEF CheckWorkerTakes, TypeOK
  <2>2. checking' \in [Tx -> Nat]
    BY <1>21 DEF CheckWorkerTakes, TypeOK
  <2> QED BY <1>21, <2>1, <2>2
          DEF CheckWorkerTakes, control, clock, store, locks, TypeOK
<1>22. ASSUME NEW m \in execMsgs, ExecWorkerTakes(m) PROVE TypeOK'
  <2>1. BatchOf(m) \subseteq ExecMsg /\ bankSlot \in Slot
    BY DEF BatchOf, TypeOK
  <2>2. \A n \in BatchOf(m) : [n EXCEPT !.from = bankSlot] \in ExecMsg
    BY <2>1 DEF ExecMsg
  <2>3. execMsgs' \subseteq ExecMsg
    BY <1>22, <2>2 DEF ExecWorkerTakes, TypeOK
  <2> QED BY <1>22, <2>3 DEF ExecWorkerTakes, control, clock, store, locks, TypeOK
<1>23. ASSUME BankAdvances PROVE TypeOK'
  <2>1. bankSlot' \in Slot
    BY <1>23, BoundsAssumption DEF BankAdvances, Slot, TypeOK
  <2> QED BY <1>23, <2>1
          DEF BankAdvances, control, clock, store, locks, messages, TypeOK
<1>24. ASSUME NEW b \in Bundle, BundleExpires(b) PROVE TypeOK'
  BY <1>24 DEF BundleExpires, control, clock, store, locks, messages, TypeOK
<1>25. ASSUME UNCHANGED vars PROVE TypeOK'
  BY <1>25, GroupsOfVars DEF TypeOK
<1>26. ASSUME \/ \E v \in View : TipConfigMissing(v)
              \/ Disconnected
              \/ \E k \in Tx : EvictCheckedMissing(k)
              \/ \E b \in Bundle : LockedTwice(b)
       PROVE TypeOK'
  BY <1>26, <1>4 DEF TipConfigMissing, Disconnected, EvictCheckedMissing, LockedTwice, PanicSite
<1> QED
  BY <1>1, <1>2, <1>3, <1>5, <1>6, <1>7, <1>8, <1>9, <1>10, <1>11, <1>12, <1>13, <1>14,
     <1>15, <1>16, <1>17, <1>18, <1>19, <1>20, <1>21, <1>22, <1>23, <1>24, <1>25, <1>26
     DEF Next, Scheduler, Validator, Halted, Roll, ExecuteAnswer, CheckAnswer, Ingest,
         Schedule

\* The scheduler starts well typed.
LEMMA InitTyped == ASSUME Init PROVE TypeOK
<1>1. 0 \in Slot /\ 1 \in Slot /\ 1 \in 1..(NumExecWorkers + 1)
  BY BoundsAssumption DEF Slot
<1>2. view \in View /\ view.slot = 0
  BY <1>1 DEF Init, View
<1>3. checkQ \in Seq(SUBSET Tx) /\ checking \in [Tx -> Nat] /\ execMsgs \subseteq ExecMsg
  BY DEF Init
<1>4. tipSlot \in [TipPair -> Slot]
  BY <1>1 DEF Init
<1>5. /\ writers \in [Account -> SUBSET Key] /\ readers \in [Account -> SUBSET Key]
      /\ life \in [Key -> {"fresh", "live", "dropped"}]
  BY DEF Init
<1>6. /\ unchecked_tx \subseteq Tx /\ checked_tx \subseteq Tx /\ deferred_tx \subseteq Tx
      /\ executing_tx \subseteq Key /\ bundles \subseteq Bundle /\ expired \subseteq Bundle
      /\ next_recheck \subseteq Tx /\ panic \in PanicSite
  BY DEF Init, PanicSite
<1>7. /\ pc \in {"roll", "drain", "jito", "checks", "execute"}
      /\ turn \in 1..(NumExecWorkers + 1) /\ budget \in Nat /\ in_flight_cus \in Int
      /\ slot \in Slot /\ bankSlot \in Slot /\ view.slot = slot
  BY <1>1, <1>2, SMT DEF Init
<1>8. view.leader => slot > 0
  BY DEF Init
<1>9. was_leader_ready \in BOOLEAN /\ tip_config \in BOOLEAN
  BY Zenon DEF Init
<1> QED BY <1>2, <1>3, <1>4, <1>5, <1>6, <1>7, <1>8, <1>9 DEF TypeOK

\* TypeOK holds in every reachable state, for every value of the constants.
THEOREM TypeCorrect == Spec => []TypeOK
<1>1. Init => TypeOK
  BY InitTyped
<1>2. TypeOK /\ [Next]_vars => TypeOK'
  <2>1. ASSUME TypeOK, UNCHANGED vars PROVE TypeOK'
    BY <2>1, GroupsOfVars DEF TypeOK
  <2> QED BY <2>1, TypeStep
<1> QED BY <1>1, <1>2, PTL DEF Spec

(***************************************************************************)
(* Tip transactions are made at most once for a slot.  The strengthening   *)
(* is TipsUpToSlot: no pair is of a later slot, and was_leader_ready is set*)
(* whenever the current slot has one.                                      *)
(***************************************************************************)
\* The scheduler's slot never goes back: progress is drained in order.
LEMMA SlotForward ==
    ASSUME TypeOK, NEW v \in View, Drained(v)
    PROVE  v.slot \in Nat /\ slot \in Nat /\ slot <= v.slot
<1>1. v.slot \in Slot /\ slot \in Slot /\ bankSlot \in Slot /\ view.slot = slot
  BY DEF View, TypeOK
<1>2. Slot \subseteq Nat
  BY BoundsAssumption DEF Slot
<1>3. v = view \/ v.slot \in view.slot..bankSlot
  BY DEF Drained
<1> QED BY <1>1, <1>2, <1>3

\* Only check_slot_roll writes the slot, was_leader_ready and the tip history.
LEMMA OnlyRollTips ==
    ASSUME Next, ~ \E v \in View :
                     \/ CheckSlotRoll(v)
                     \/ \E p \in TipPair : BecomeTipReceiver(v, p) \/ TipLocksRefused(v, p)
    PROVE  UNCHANGED <<slot, was_leader_ready, tipSlot>>
<1>1. ASSUME NEW site, Panics(site) PROVE UNCHANGED <<slot, was_leader_ready, tipSlot>>
  BY <1>1 DEF Panics, clock
<1>2. ASSUME NEW m, ExecuteAnswer(m) PROVE UNCHANGED <<slot, was_leader_ready, tipSlot>>
  BY <1>2 DEF ExecuteAnswer, Unprocessed, ExecuteFinal, ExecuteRetry, Answered, clock
<1>3. ASSUME NEW k, CheckAnswer(k) PROVE UNCHANGED <<slot, was_leader_ready, tipSlot>>
  BY <1>1, <1>3 DEF CheckAnswer, CheckIgnored, CheckFailed, CheckPassed, FirstCheck,
                    CheckAnswered, EvictCheckedMissing, clock
<1>4. ASSUME Ingest PROVE UNCHANGED <<slot, was_leader_ready, tipSlot>>
  BY <1>1, <1>4 DEF Ingest, DrainTpuDropExpired, JitoTipConfig, OnPacket, OnBundle, clock
<1>5. ASSUME Schedule PROVE UNCHANGED <<slot, was_leader_ready, tipSlot>>
  BY <1>1, <1>5 DEF Schedule, ScheduleChecks, ChecksDone, SkipWorker, EndPoll, Send,
                    TryScheduleTransaction, TryScheduleBundle, LockedTwice, clock
<1>6. ASSUME Validator PROVE UNCHANGED <<slot, was_leader_ready, tipSlot>>
  BY <1>6 DEF Validator, CheckWorkerTakes, BankAdvances, ExecWorkerTakes, BundleExpires,
              clock
<1>7. ASSUME Halted PROVE UNCHANGED <<slot, was_leader_ready, tipSlot>>
  BY <1>7, GroupsOfVars DEF Halted
<1>8. ASSUME Disconnected \/ \E v \in View : TipConfigMissing(v)
      PROVE  UNCHANGED <<slot, was_leader_ready, tipSlot>>
  BY <1>1, <1>8 DEF Disconnected, TipConfigMissing
<1> QED BY <1>2, <1>3, <1>4, <1>5, <1>6, <1>7, <1>8 DEF Next, Scheduler, Roll

\* A step that makes the pair p: the current slot has no pair yet, because one
\* would have set was_leader_ready, and the new slot then belongs to p alone.
LEMMA TipsMade ==
    ASSUME TypeOK, TipsTracked, NEW v \in View, NEW p \in TipPair,
           Drained(v), NewLeader(v), tipSlot[p] = 0, slot' = v.slot,
           was_leader_ready' = TRUE, tipSlot' = [tipSlot EXCEPT ![p] = v.slot]
    PROVE  TipsTracked'
<1>1. v.slot \in Nat /\ slot \in Nat /\ slot <= v.slot /\ ~was_leader_ready
  BY SlotForward DEF NewLeader
<1>2. \A q \in TipPair : tipSlot[q] \in Nat
  BY BoundsAssumption DEF TypeOK, Slot
<1>3. \A q \in TipPair : tipSlot'[q] = IF q = p THEN v.slot ELSE tipSlot[q]
  BY DEF TypeOK
<1>4. \A q \in TipPair : tipSlot[q] <= slot /\ ~(tipSlot[q] = slot /\ slot > 0)
  BY <1>1 DEF TipsTracked, TipsUpToSlot
<1>5. \A q \in TipPair : q # p => tipSlot[q] < v.slot \/ tipSlot[q] = 0
  BY <1>1, <1>2, <1>4
<1>6. TipsUpToSlot'
  BY <1>1, <1>2, <1>3, <1>4 DEF TipsUpToSlot
<1>7. TipsOncePerSlot'
  <2> SUFFICES ASSUME NEW q \in TipPair, NEW r \in TipPair, q # r, tipSlot'[q] > 0
               PROVE  tipSlot'[q] # tipSlot'[r]
    BY DEF TipsOncePerSlot
  <2>1. CASE q = p
    BY <2>1, <1>1, <1>2, <1>3, <1>5
  <2>2. CASE r = p
    BY <2>2, <1>1, <1>2, <1>3, <1>5
  <2>3. CASE q # p /\ r # p
    BY <2>3, <1>3 DEF TipsTracked, TipsOncePerSlot
  <2> QED BY <2>1, <2>2, <2>3
<1> QED BY <1>6, <1>7 DEF TipsTracked

\* Every step preserves TipsTracked.
LEMMA TipsStep == ASSUME TypeOK, TipsTracked, Next PROVE TipsTracked'
<1>1. ASSUME NEW v \in View, CheckSlotRoll(v) PROVE TipsTracked'
  <2>1. /\ Drained(v) /\ slot' = v.slot /\ tipSlot' = tipSlot
        /\ was_leader_ready' = (was_leader_ready /\ v.slot = slot)
    BY <1>1 DEF CheckSlotRoll, RollSlot
  <2>2. v.slot \in Nat /\ slot \in Nat /\ slot <= v.slot
    BY <2>1, SlotForward
  <2>3. \A p \in TipPair : tipSlot[p] \in Nat
    BY BoundsAssumption DEF TypeOK, Slot
  <2>4. CASE v.slot = slot
    BY <2>1, <2>4 DEF TipsTracked, TipsUpToSlot, TipsOncePerSlot
  <2>5. CASE v.slot # slot
    <3>1. \A p \in TipPair : tipSlot[p] < v.slot
      BY <2>2, <2>3, <2>5 DEF TipsTracked, TipsUpToSlot
    <3> QED BY <2>1, <2>2, <2>3, <3>1 DEF TipsTracked, TipsUpToSlot, TipsOncePerSlot
  <2> QED BY <2>4, <2>5
<1>2. ASSUME NEW v \in View, NEW p \in TipPair,
             BecomeTipReceiver(v, p) \/ TipLocksRefused(v, p)
      PROVE  TipsTracked'
  BY <1>2, TipsMade DEF BecomeTipReceiver, TipLocksRefused, RollSlot
<1>3. CASE ~ \E v \in View :
               \/ CheckSlotRoll(v)
               \/ \E p \in TipPair : BecomeTipReceiver(v, p) \/ TipLocksRefused(v, p)
  BY <1>3, OnlyRollTips DEF TipsTracked, TipsUpToSlot, TipsOncePerSlot
<1> QED BY <1>1, <1>2, <1>3

\* The strengthening holds in every reachable state.
LEMMA TipsInvariant == Spec => []TipsTracked
<1>1. Init => TipsTracked
  BY BoundsAssumption DEF Init, TipsTracked, TipsUpToSlot, TipsOncePerSlot
<1>2. TypeOK /\ TipsTracked /\ [Next]_vars => TipsTracked'
  <2>1. ASSUME TipsTracked, UNCHANGED vars PROVE TipsTracked'
    BY <2>1, GroupsOfVars DEF TipsTracked, TipsUpToSlot, TipsOncePerSlot
  <2> QED BY <2>1, TipsStep
<1> QED BY <1>1, <1>2, TypeCorrect, PTL DEF Spec

\* become_tip_receiver runs at most once for a slot, whatever leadership,
\* progress messages and lock failures do.
THEOREM TipsCorrect == Spec => []TipsOncePerSlot
<1>1. TipsTracked => TipsOncePerSlot
  BY DEF TipsTracked
<1> QED BY <1>1, TipsInvariant, PTL

(***************************************************************************)
(* The budget.  It is computed when schedule_execute starts and lowered by *)
(* every send; answers, which free cost, only come in another phase.       *)
(***************************************************************************)
\* A charge that the budget covers.
LEMMA ChargeCovered ==
    ASSUME TypeOK, BudgetTracked, NEW x \in Tx \cup Bundle,
           pc = "execute", budget > 0, Cost[x] <= budget, UNCHANGED <<pc, view>>,
           budget' = budget - Cost[x], in_flight_cus' = in_flight_cus + Cost[x]
    PROVE  /\ BudgetTracked'
           /\ in_flight_cus' \in Int /\ CostUsed' <= BudgetLimit
<1>1. /\ Cost[x] \in Nat /\ budget \in Nat /\ in_flight_cus \in Int
      /\ pc = "execute" /\ budget > 0 /\ Cost[x] <= budget
      /\ budget' = budget - Cost[x] /\ in_flight_cus' = in_flight_cus + Cost[x]
      /\ pc' = pc /\ view' = view
  BY CostAssumption DEF TypeOK
<1>2. /\ BudgetLimit \in Nat /\ CostUsed \in Int
      /\ SatSub(MaxBlockUnits, view.remaining) \in Nat
  BY BudgetType DEF TypeOK
<1>3. BudgetLimit' = BudgetLimit
  BY <1>1 DEF BudgetLimit, BudgetPercentage
<1>4. CostUsed' = CostUsed + Cost[x]
  <2>1. CostUsed' = SatSub(MaxBlockUnits, view.remaining) + in_flight_cus'
    BY <1>1 DEF CostUsed, SatSub
  <2>2. CostUsed = SatSub(MaxBlockUnits, view.remaining) + in_flight_cus
    BY DEF CostUsed
  <2> QED BY <1>1, <1>2, <2>1, <2>2
<1>5. CostUsed + budget <= BudgetLimit
  BY <1>1 DEF BudgetTracked
<1>6. CostUsed' + budget' <= BudgetLimit'
  BY <1>1, <1>2, <1>3, <1>4, <1>5
<1> QED BY <1>1, <1>2, <1>3, <1>4, <1>5, <1>6 DEF BudgetTracked

\* A send charges a cost that the budget covers.
LEMMA SendCharges ==
    ASSUME TypeOK, BudgetTracked, NEW x \in Tx \cup Bundle, Send(x)
    PROVE  /\ BudgetTracked'
           /\ in_flight_cus' \in Int /\ CostUsed' <= BudgetLimit
BY ChargeCovered DEF Send, AtWorker, Fits, clock

\* No other step raises the cost in flight.
LEMMA OnlySendCharges ==
    ASSUME TypeOK, BudgetTracked, Next, ~ \E x \in Tx \cup Bundle : Send(x)
    PROVE  BudgetTracked' /\ in_flight_cus' <= in_flight_cus
<1>1. in_flight_cus \in Int /\ budget \in Nat
  BY DEF TypeOK
<1>2. ASSUME UNCHANGED <<pc, budget, view, in_flight_cus>>
      PROVE  BudgetTracked' /\ in_flight_cus' <= in_flight_cus
  BY <1>1, <1>2 DEF BudgetTracked, CostUsed, BudgetLimit, BudgetPercentage, SatSub
<1>3. ASSUME budget' = 0, in_flight_cus' <= in_flight_cus
      PROVE  BudgetTracked' /\ in_flight_cus' <= in_flight_cus
  BY <1>3 DEF BudgetTracked
<1>4. ASSUME Roll PROVE BudgetTracked' /\ in_flight_cus' <= in_flight_cus
  <2>1. ASSUME pc = "roll", UNCHANGED <<budget, in_flight_cus>>
        PROVE  budget' = 0 /\ in_flight_cus' <= in_flight_cus
    BY <1>1, <2>1 DEF BudgetTracked
  <2>2. pc = "roll" /\ UNCHANGED <<budget, in_flight_cus>>
    BY <1>4 DEF Roll, CheckSlotRoll, BecomeTipReceiver, TipLocksRefused, TipConfigMissing,
                Panics, RollSlot, control, locks
  <2> QED BY <2>1, <2>2, <1>3
<1>5. ASSUME NEW m \in execMsgs, ExecuteAnswer(m)
      PROVE  BudgetTracked' /\ in_flight_cus' <= in_flight_cus
  <2>1. /\ pc = "drain" /\ budget' = budget
        /\ in_flight_cus' = in_flight_cus - MetaCost(m.key)
    BY <1>5 DEF ExecuteAnswer, Unprocessed, ExecuteFinal, ExecuteRetry, Answered, control
  <2>2. MetaCost(m.key) \in Nat
    BY <1>5, MetaCostType DEF TypeOK, ExecMsg
  <2> QED BY <1>1, <1>3, <2>1, <2>2 DEF BudgetTracked
<1>6. ASSUME NEW k \in Tx, CheckAnswer(k)
      PROVE  BudgetTracked' /\ in_flight_cus' <= in_flight_cus
  BY <1>2, <1>6 DEF CheckAnswer, CheckIgnored, CheckFailed, CheckPassed, FirstCheck,
                    EvictCheckedMissing, CheckAnswered, Panics, control, clock, locks
<1>7. ASSUME Ingest PROVE BudgetTracked' /\ in_flight_cus' <= in_flight_cus
  <2>1. pc # "execute" /\ UNCHANGED <<budget, in_flight_cus>>
    BY <1>7 DEF Ingest, DrainTpuDropExpired, JitoTipConfig, OnPacket, OnBundle, Panics,
                control, locks
  <2> QED BY <1>1, <1>3, <2>1 DEF BudgetTracked
<1>8. ASSUME ScheduleChecks PROVE BudgetTracked' /\ in_flight_cus' <= in_flight_cus
  BY <1>1, <1>3, <1>8 DEF ScheduleChecks, BudgetTracked, locks
<1>9. ASSUME ChecksDone PROVE BudgetTracked' /\ in_flight_cus' <= in_flight_cus
  <2>1. UNCHANGED <<view, in_flight_cus>>
    BY <1>9 DEF ChecksDone, clock, locks
  <2>2. CASE ~view.leader
    BY <1>1, <1>3, <1>9, <2>1, <2>2 DEF ChecksDone
  <2>3. CASE view.leader
    <3>1. pc' = "execute" /\ budget' = SatSub(BudgetLimit, CostUsed)
      BY <1>9, <2>3 DEF ChecksDone
    <3>2. CostUsed' = CostUsed /\ BudgetLimit' = BudgetLimit
      BY <2>1 DEF CostUsed, BudgetLimit, BudgetPercentage, SatSub
    <3>3. budget' > 0 => CostUsed' + budget' <= BudgetLimit'
      BY <3>1, <3>2, BudgetType DEF TypeOK
    <3> QED BY <1>1, <2>1, <3>1, <3>3 DEF BudgetTracked
  <2> QED BY <2>2, <2>3
<1>10. ASSUME \/ SkipWorker \/ Validator \/ Halted \/ Disconnected
              \/ \E b \in Bundle : LockedTwice(b)
       PROVE  BudgetTracked' /\ in_flight_cus' <= in_flight_cus
  BY <1>2, <1>10, GroupsOfVars
     DEF SkipWorker, Validator, CheckWorkerTakes, BankAdvances, ExecWorkerTakes,
         BundleExpires, Halted, Disconnected, LockedTwice, Panics, control, clock, locks
<1>11. ASSUME EndPoll PROVE BudgetTracked' /\ in_flight_cus' <= in_flight_cus
  BY <1>1, <1>3, <1>11 DEF EndPoll, locks
<1> QED BY <1>4, <1>5, <1>6, <1>7, <1>8, <1>9, <1>10, <1>11
        DEF Next, Scheduler, Schedule, TryScheduleTransaction, TryScheduleBundle

\* A step keeps the budget, and what it puts in flight is within the limit.
LEMMA BudgetStep ==
    ASSUME TypeOK, BudgetTracked, [Next]_vars
    PROVE  BudgetTracked' /\ (in_flight_cus' > in_flight_cus => CostUsed' <= BudgetLimit)
<1>1. CASE \E x \in Tx \cup Bundle : Send(x)
  BY <1>1, SendCharges
<1>2. CASE Next /\ ~ \E x \in Tx \cup Bundle : Send(x)
  <2>1. TypeOK'
    BY <1>2, TypeStep
  <2>2. in_flight_cus \in Int /\ in_flight_cus' \in Int
    BY <2>1 DEF TypeOK
  <2> QED BY <1>2, <2>2, OnlySendCharges
<1>3. CASE UNCHANGED vars
  <2>1. UNCHANGED <<pc, budget, view, in_flight_cus>> /\ in_flight_cus \in Int
    BY <1>3, GroupsOfVars DEF TypeOK
  <2> QED BY <2>1 DEF BudgetTracked, CostUsed, BudgetLimit, BudgetPercentage, SatSub
<1> QED BY <1>1, <1>2, <1>3

\* schedule_execute never puts more cost in flight than the block's share allows,
\* however sends, answers and progress interleave.
THEOREM BudgetCorrect == Spec => BudgetRespected
<1>1. Init => BudgetTracked
  BY DEF Init, BudgetTracked
<1>2. TypeOK /\ BudgetTracked /\ [Next]_vars =>
         BudgetTracked' /\ (in_flight_cus' > in_flight_cus => CostUsed' <= BudgetLimit)
  BY BudgetStep
<1>3. [](TypeOK /\ BudgetTracked) /\ [][Next]_vars
        => [][in_flight_cus' > in_flight_cus => CostUsed' <= BudgetLimit]_vars
  BY <1>2, PTL
<1> QED BY <1>1, <1>2, <1>3, TypeCorrect, PTL DEF Spec, BudgetRespected
=============================================================================
