--------------------------- MODULE AuctionProofs ----------------------------
(***************************************************************************)
(* Theorems about Priority and AuctionScheduler for every value of their   *)
(* constants.  The marker of bundles is never a transaction's priority,    *)
(* whatever the word size, the multiplier and the float format, so a       *)
(* transaction that comes back unprocessed is kept.  A step of the auction *)
(* scheduler is one of the batch scheduler's that touches no lock, or one  *)
(* of its own: the batch scheduler's lemmas carry its invariants over the  *)
(* first kind, and the second is proved here.  What the lock manager grants*)
(* is proved anew, with the tip transaction that may run without it.       *)
(***************************************************************************)
EXTENDS AuctionScheduler, BatchSchedulerExclusion, BatchSchedulerBounds

(***************************************************************************)
(* Priorities.                                                             *)
(***************************************************************************)
PriorityId == [priority : Word, cost : Word, key : Nat]

\* calculate_priority never gives a transaction the marker of bundles, whatever
\* its reward and cost saturate to.
THEOREM BatchPriorityBelowMarker ==
    \A cost, reward \in Word : CalculatePriority(cost, reward) \in 0..(BUNDLE_MARKER - 1)
<1> SUFFICES ASSUME NEW cost \in Word, NEW reward \in Word
             PROVE  CalculatePriority(cost, reward) \in 0..(BUNDLE_MARKER - 1)
  OBVIOUS
<1> DEFINE num == Saturate(reward * Multiplier)
           den == Saturate(cost + 1)
           priority == num \div den
<1>1. WordMax \in Nat /\ WordMax > 0 /\ Multiplier \in Nat /\ cost \in Nat /\ reward \in Nat
  BY FloatAssumption DEF Word
<1>2. reward * Multiplier \in Nat
  BY <1>1
<1>3. num \in Nat
  <2>1. \A n \in Nat : Saturate(n) \in Nat
    BY <1>1 DEF Saturate
  <2> QED BY <1>2, <2>1
<1>4. den \in Nat /\ den > 0
  BY <1>1 DEF Saturate
<1>5. priority \in Nat
  <2> HIDE DEF num, den
  <2> QED BY <1>3, <1>4
<1>6. CalculatePriority(cost, reward)
        = IF priority < BUNDLE_MARKER - 1 THEN priority ELSE BUNDLE_MARKER - 1
  BY DEF CalculatePriority
<1> HIDE DEF priority
<1> QED BY <1>1, <1>5, <1>6 DEF BUNDLE_MARKER

\* score_with_auction never gives a transaction the marker of bundles: a surplus
\* that passes the rounded comparison is below the bound itself.
THEOREM AuctionPriorityBelowMarker ==
    \A scaled \in Float : AuctionPriority(scaled) \in 0..(BUNDLE_MARKER - 1)
<1> SUFFICES ASSUME NEW scaled \in Float
             PROVE  AuctionPriority(scaled) \in 0..(BUNDLE_MARKER - 1)
  OBVIOUS
<1>1. WordMax \in Nat /\ WordMax > 0 /\ scaled \in Nat /\ BUNDLE_MARKER - 1 \in Word
  BY FloatAssumption DEF Word, BUNDLE_MARKER
<1>2. ToFloat(BUNDLE_MARKER - 1) \in Nat
  BY <1>1, FloatAssumption
<1>3. BUNDLE_MARKER - 1 <= scaled => ToFloat(BUNDLE_MARKER - 1) <= scaled
  BY <1>1, FloatAssumption
<1>4. CASE scaled >= ToFloat(BUNDLE_MARKER - 1)
  BY <1>4, <1>1 DEF AuctionPriority, BUNDLE_MARKER
<1>5. CASE ~(scaled >= ToFloat(BUNDLE_MARKER - 1))
  <2>1. ~(BUNDLE_MARKER - 1 <= scaled)
    BY <1>5, <1>3, <1>2, <1>1
  <2>2. AuctionPriority(scaled) = Saturate(scaled)
    BY <1>5 DEF AuctionPriority
  <2> QED BY <2>1, <2>2, <1>1 DEF Saturate, BUNDLE_MARKER
<1> QED BY <1>4, <1>5

\* Two PriorityIds of different keys are ordered one way and not the other, and
\* the order is transitive: checked_tx has one first and one last element, which
\* is what Rank assumes of it.
THEOREM PriorityIdOrdered ==
    /\ \A a, b \in PriorityId : a.key # b.key => (IdLess(a, b) <=> ~IdLess(b, a))
    /\ \A a \in PriorityId : ~IdLess(a, a)
    /\ \A a, b, c \in PriorityId : IdLess(a, b) /\ IdLess(b, c) => IdLess(a, c)
<1>1. \A a \in PriorityId : a.priority \in Int /\ a.cost \in Int /\ a.key \in Int
  BY FloatAssumption DEF PriorityId, Word
<1>2. \A a, b \in PriorityId : a.key # b.key => (IdLess(a, b) <=> ~IdLess(b, a))
  BY <1>1 DEF IdLess
<1>3. \A a \in PriorityId : ~IdLess(a, a)
  BY <1>1 DEF IdLess
<1>4. \A a, b, c \in PriorityId : IdLess(a, b) /\ IdLess(b, c) => IdLess(a, c)
  BY <1>1 DEF IdLess
<1> QED BY <1>2, <1>3, <1>4

(***************************************************************************)
(* Unprocessed transactions return.                                        *)
(***************************************************************************)
\* The types of what the requests in flight are stamped with.
RequestsStamped ==
    /\ turn \in Nat /\ bankSlot \in Nat /\ view \in View
    /\ execMsgs \subseteq [key : Key, worker : Nat, until : Nat, from : Nat]

\* What UnprocessedReturns says of one step.
LateOnesReturn ==
    \A m \in execMsgs \ execMsgs' :
        m.key \in Tx /\ m.from > m.until => m.key \in checked_tx'

\* An answer never takes a transaction for a bundle, however large its surplus.
LEMMA TransactionsTold == ASSUME NEW k \in Tx PROVE ~IsBundle(k)
<1>1. k \in Key /\ Scaled[k] \in Float
  BY ScaledAssumption DEF Key
<1>2. AuctionPriority(Scaled[k]) \in 0..(BUNDLE_MARKER - 1)
  BY <1>1, AuctionPriorityBelowMarker
<1>3. AuctionPriority(Scaled[k]) # BUNDLE_MARKER
  BY <1>2, FloatAssumption DEF BUNDLE_MARKER
<1>4. MetaPriority[k] = AuctionPriority(Scaled[k])
  BY <1>1 DEF MetaPriority
<1> QED BY <1>3, <1>4 DEF IsBundle

\* Steps that leave the requests alone: rolling, checking, ingesting, skipping.
LEMMA QuietStep ==
    ASSUME RequestsStamped, execMsgs' = execMsgs,
           turn' \in Nat, bankSlot' \in Nat, view' \in View
    PROVE  RequestsStamped' /\ LateOnesReturn
BY DEF RequestsStamped, LateOnesReturn

\* Steps that send requests: K to a worker, to be run up to slot u.
LEMMA SendingStep ==
    ASSUME RequestsStamped, NEW K \in SUBSET Key, NEW w \in Nat, NEW u \in Nat,
           execMsgs' = execMsgs \cup
             {[key |-> k, worker |-> w, until |-> u, from |-> 0] : k \in K},
           turn' \in Nat, bankSlot' = bankSlot, view' \in View
    PROVE  RequestsStamped' /\ LateOnesReturn
BY DEF RequestsStamped, LateOnesReturn

\* check_slot_roll: the view is the progress message that was drained.
LEMMA RollFrame ==
    ASSUME RequestsStamped, NEW v \in View, RollSlot(v)
    PROVE  turn' \in Nat /\ bankSlot' = bankSlot /\ bankSlot' \in Nat /\ view' = v
BY DEF RollSlot, RequestsStamped

LEMMA SlotNatural == ASSUME NEW v \in View PROVE v.slot \in Nat
BY BoundsAssumption DEF View, Slot

\* A step of check_slot_roll.
LEMMA RollStep ==
    ASSUME RequestsStamped, AuctionRoll
    PROVE  RequestsStamped' /\ LateOnesReturn
<1>1. PICK v \in View :
        \/ AuctionSlotRoll(v)
        \/ \E p \in TipPair : AuctionBecomeTipReceiver(v, p) \/ AuctionTipRefused(v, p)
        \/ TipConfigMissing(v)
  BY DEF AuctionRoll
<1>2. CASE AuctionSlotRoll(v)
  <2>1. RollSlot(v) /\ execMsgs' = execMsgs
    BY <1>2 DEF AuctionSlotRoll
  <2> QED BY <2>1, RollFrame, QuietStep
<1>3. ASSUME NEW p \in TipPair, AuctionBecomeTipReceiver(v, p)
      PROVE  RequestsStamped' /\ LateOnesReturn
  <2> DEFINE K == Member[p]
             u == v.slot + 4
  <2>1. /\ RollSlot(v)
        /\ execMsgs' = execMsgs \cup
             {[key |-> k, worker |-> 1, until |-> u, from |-> 0] : k \in K}
    BY <1>3 DEF AuctionBecomeTipReceiver
  <2>2. K \in SUBSET Key
    BY DEF Key, GroupKey, Group
  <2>3. u \in Nat
    BY SlotNatural
  <2> HIDE DEF K, u
  <2>4. turn' \in Nat /\ bankSlot' = bankSlot /\ view' \in View
    BY <2>1, RollFrame
  <2> QED BY <2>1, <2>2, <2>3, <2>4, SendingStep
<1>4. ASSUME NEW p \in TipPair, AuctionTipRefused(v, p)
      PROVE  RequestsStamped' /\ LateOnesReturn
  <2>1. RollSlot(v) /\ execMsgs' = execMsgs
    BY <1>4 DEF AuctionTipRefused
  <2> QED BY <2>1, RollFrame, QuietStep
<1>5. CASE TipConfigMissing(v)
  BY <1>5, QuietStep DEF TipConfigMissing, Panics, control, clock, messages, RequestsStamped
<1> QED BY <1>1, <1>2, <1>3, <1>4, <1>5

\* Answers to execute requests.  One that comes too late to have been executed is
\* unprocessed, and its transaction is not taken for a bundle.
LEMMA AnswerStep ==
    ASSUME RequestsStamped, NEW m \in execMsgs, AuctionUnprocessed(m) \/ AuctionOnExecute(m)
    PROVE  RequestsStamped' /\ LateOnesReturn
<1>1. AuctionAnswered(m)
  BY DEF AuctionUnprocessed, AuctionOnExecute, AuctionExecuteFinal, AuctionExecuteRetry
<1>2. execMsgs' = execMsgs \ {m} /\ UNCHANGED <<turn, bankSlot, view>>
  BY <1>1 DEF AuctionAnswered, control, clock
<1>3. RequestsStamped'
  BY <1>2 DEF RequestsStamped
<1>4. m.from \in Nat /\ m.until \in Nat /\ bankSlot \in Nat
  BY DEF RequestsStamped
<1>5. ASSUME m.key \in Tx, m.from > m.until PROVE m.key \in checked_tx'
  <2>1. ~AuctionOnExecute(m)
    <3>1. ASSUME NEW reason, AuctionExecuteFinal(m, reason) PROVE FALSE
      BY <3>1, <1>4, <1>5 DEF AuctionExecuteFinal
    <3>2. ASSUME NEW reason, NEW at \in Slot, AuctionExecuteRetry(m, reason, at) PROVE FALSE
      <4>1. at \in m.from..bankSlot /\ at <= m.until
        BY <3>2 DEF AuctionExecuteRetry
      <4> QED BY <4>1, <1>4, <1>5
    <3> QED BY <3>1, <3>2 DEF AuctionOnExecute
  <2>2. AuctionUnprocessed(m) /\ ~IsBundle(m.key)
    BY <2>1, <1>5, TransactionsTold
  <2> QED BY <2>2 DEF AuctionUnprocessed
<1> QED BY <1>2, <1>3, <1>5 DEF LateOnesReturn

\* Answers to checks.
LEMMA CheckStep ==
    ASSUME RequestsStamped, NEW k \in Tx, AuctionOnCheck(k)
    PROVE  RequestsStamped' /\ LateOnesReturn
<1>1. UNCHANGED <<turn, bankSlot, view, execMsgs>>
  BY DEF AuctionOnCheck, CheckAnswer, CheckIgnored, CheckFailed, CheckPassed, FirstCheck,
         CheckAnswered, EvictCheckedMissing, Panics, control, clock, messages
<1> QED BY <1>1, QuietStep DEF RequestsStamped

\* drain_tpu, drop_expired_bundles and drain_jito.
LEMMA AuctionIngestStep ==
    ASSUME RequestsStamped, AuctionIngest
    PROVE  RequestsStamped' /\ LateOnesReturn
<1>1. ASSUME NEW counted, NEW arrived, NEW good, DrainTpuDropExpired(counted, arrived, good)
      PROVE  UNCHANGED <<turn, bankSlot, view, execMsgs>>
  BY <1>1 DEF DrainTpuDropExpired, Panics, control, clock, messages
<1>2. ASSUME NEW k, NEW good, OnPacket(k, good)
      PROVE  UNCHANGED <<turn, bankSlot, view, execMsgs>>
  BY <1>2 DEF OnPacket, Panics, control, clock, messages
<1>3. ASSUME NEW b, NEW good, OnBundle(b, good)
      PROVE  UNCHANGED <<turn, bankSlot, view, execMsgs>>
  BY <1>3 DEF OnBundle, Panics, control, clock, messages
<1>4. ASSUME JitoTipConfig PROVE UNCHANGED <<turn, bankSlot, view, execMsgs>>
  BY <1>4 DEF JitoTipConfig, control, clock, messages
<1>5. UNCHANGED <<turn, bankSlot, view, execMsgs>>
  BY <1>1, <1>2, <1>3, <1>4
     DEF AuctionIngest, AuctionDrainTpu, AuctionOnPacket, AuctionOnBundle
<1> QED BY <1>5, QuietStep DEF RequestsStamped

\* schedule_checks and schedule_execute.
LEMMA ScheduleStep ==
    ASSUME RequestsStamped, AuctionSchedule
    PROVE  RequestsStamped' /\ LateOnesReturn
<1>1. CASE AuctionScheduleChecks \/ AuctionChecksDone \/ RecheckSpins \/ AuctionSkipWorker
             \/ AuctionEndPoll
  <2>1. UNCHANGED <<bankSlot, view, execMsgs>> /\ turn' \in {turn, 1, turn + 1}
    BY <1>1 DEF AuctionScheduleChecks, ScheduleChecks, AuctionChecksDone, ChecksDone,
       RecheckSpins, AuctionSkipWorker, SkipWorker, AuctionEndPoll, vars, control, clock, messages
  <2> QED BY <2>1, QuietStep DEF RequestsStamped
<1>2. ASSUME NEW x \in Tx \cup Bundle, AuctionSend(x)
      PROVE  RequestsStamped' /\ LateOnesReturn
  <2>1. KeysOf(x) \in SUBSET Key
    BY KeysAssumption DEF KeysOf, Key, GroupKey, Group
  <2>2. /\ execMsgs' = execMsgs \cup
             {[key |-> k, worker |-> turn, until |-> view.slot + 1, from |-> 0] : k \in KeysOf(x)}
        /\ turn' = turn + 1 /\ bankSlot' = bankSlot /\ view' = view
    BY <1>2 DEF AuctionSend, clock
  <2>3. turn \in Nat /\ turn' \in Nat /\ view' \in View /\ view \in View
    BY <2>2 DEF RequestsStamped
  <2>4. view.slot + 1 \in Nat
    BY <2>3, SlotNatural
  <2> QED BY <2>1, <2>2, <2>3, <2>4, SendingStep
<1>3. ASSUME NEW k \in Tx, AuctionTryTransaction(k) PROVE AuctionSend(k)
  BY <1>3 DEF AuctionTryTransaction
<1>4. ASSUME NEW b \in Bundle, AuctionTryBundle(b) PROVE AuctionSend(b)
  BY <1>4 DEF AuctionTryBundle
<1> QED BY <1>1, <1>2, <1>3, <1>4 DEF AuctionSchedule

\* The validator: a worker stamps the requests it takes, and a transaction it
\* takes is a batch of its own that nobody took before.
LEMMA ValidatorStep ==
    ASSUME RequestsStamped, Validator
    PROVE  RequestsStamped' /\ LateOnesReturn
<1>1. ASSUME NEW m \in execMsgs, ExecWorkerTakes(m)
      PROVE  RequestsStamped' /\ LateOnesReturn
  <2>1. /\ m.from = 0 /\ UNCHANGED <<turn, bankSlot, view>>
        /\ execMsgs' = (execMsgs \ BatchOf(m)) \cup
                         {[n EXCEPT !.from = bankSlot] : n \in BatchOf(m)}
    BY <1>1 DEF ExecWorkerTakes, control, clock
  <2>2. BatchOf(m) \subseteq execMsgs
    BY DEF BatchOf
  <2>3. RequestsStamped'
    BY <2>1, <2>2 DEF RequestsStamped
  <2>4. ASSUME NEW n \in execMsgs \ execMsgs', n.key \in Tx PROVE n = m
    <3>1. n \in BatchOf(m)
      BY <2>1, <2>4
    <3>2. \A b \in Bundle : n.key \notin Member[b]
      BY <2>4, KeysAssumption DEF GroupKey, Group
    <3> QED BY <3>1, <3>2 DEF BatchOf
  <2>5. ~(m.from > m.until)
    BY <2>1 DEF RequestsStamped
  <2> QED BY <2>3, <2>4, <2>5 DEF LateOnesReturn
<1>2. CASE CheckWorkerTakes
  <2>1. UNCHANGED <<turn, bankSlot, view, execMsgs>>
    BY <1>2 DEF CheckWorkerTakes, control, clock
  <2> QED BY <2>1, QuietStep DEF RequestsStamped
<1>3. CASE BankAdvances
  <2>1. UNCHANGED <<turn, view, execMsgs>> /\ bankSlot' = bankSlot + 1
    BY <1>3 DEF BankAdvances, control, clock, messages
  <2> QED BY <2>1, QuietStep DEF RequestsStamped
<1>4. ASSUME NEW b \in Bundle, BundleExpires(b)
      PROVE  RequestsStamped' /\ LateOnesReturn
  <2>1. UNCHANGED <<turn, bankSlot, view, execMsgs>>
    BY <1>4 DEF BundleExpires, control, clock, messages
  <2> QED BY <2>1, QuietStep DEF RequestsStamped
<1> QED BY <1>1, <1>2, <1>3, <1>4 DEF Validator

\* Every step of the specification.
LEMMA AuctionStep ==
    ASSUME RequestsStamped, [AuctionNext]_vars
    PROVE  RequestsStamped' /\ LateOnesReturn
<1>1. CASE AuctionPoll
  <2>1. CASE Disconnected
    BY <2>1, QuietStep DEF Disconnected, Panics, control, clock, messages, RequestsStamped
  <2> QED BY <1>1, <2>1, RollStep, AuctionIngestStep, ScheduleStep, AnswerStep, CheckStep DEF AuctionPoll
<1>2. CASE Validator
  BY <1>2, ValidatorStep
<1>3. CASE Halted \/ UNCHANGED vars
  <2>1. UNCHANGED <<turn, bankSlot, view, execMsgs>>
    BY <1>3 DEF Halted, vars, control, clock, messages
  <2> QED BY <2>1, QuietStep DEF RequestsStamped
<1> QED BY <1>1, <1>2, <1>3 DEF AuctionNext

\* A transaction that a worker took after its last slot is back in checked_tx with
\* the answer, for every number of slots, keys and workers and every surplus: the
\* priority that drain_worker_responses compares with BUNDLE_MARKER is never it.
THEOREM UnprocessedReturnsCorrect == AuctionSpec => UnprocessedReturns
<1>1. Init => RequestsStamped
  <2> SUFFICES ASSUME Init PROVE RequestsStamped
    OBVIOUS
  <2>1. turn \in Nat /\ bankSlot \in Nat /\ execMsgs = {}
    BY DEF Init
  <2>2. view \in View
    BY BoundsAssumption DEF Init, View, Slot
  <2> QED BY <2>1, <2>2 DEF RequestsStamped
<1>2. RequestsStamped /\ [AuctionNext]_vars => RequestsStamped'
  BY AuctionStep
<1>3. RequestsStamped /\ [AuctionNext]_vars
        => [\A m \in execMsgs \ execMsgs' :
              m.key \in Tx /\ m.from > m.until => m.key \in checked_tx']_vars
  BY AuctionStep DEF LateOnesReturn
<1> QED BY <1>1, <1>2, <1>3, PTL DEF AuctionSpec, UnprocessedReturns

(***************************************************************************)
(* The steps the two schedulers share.  A step of the auction scheduler is *)
(* one of the batch scheduler, which takes and gives no lock, or one of    *)
(* its own; TypeOK and Ownership then need only its own.                   *)
(***************************************************************************)
AuctionOnly ==
    \/ \E v \in View : \E p \in TipPair : AuctionBecomeTipReceiver(v, p)
    \/ \E m \in execMsgs : AuctionUnprocessed(m) \/ AuctionOnExecute(m)
    \/ AuctionEndPoll
    \/ \E k \in Tx : AuctionTryTransaction(k)
    \/ \E b \in Bundle : AuctionTryBundle(b)
SharedStep ==
    Next /\ UNCHANGED <<writers, readers, executing_tx>> /\ AssertionsHold'

\* Every step is one or the other.  The assertions that the fork dropped hold in
\* the batch scheduler too, so a step without them is a step with them.
LEMMA StepKinds ==
    ASSUME TypeOK, Ownership, AuctionNext
    PROVE  AuctionOnly \/ SharedStep \/ UNCHANGED vars
<1>1. CASE Halted
  BY <1>1 DEF Halted
<1>2. CASE panic = "none" /\ (AuctionPoll \/ Validator)
  <2>1. ASSUME NEW v \in View, AuctionSlotRoll(v) PROVE SharedStep
    <3>1. RollAsserts(v)
      BY DEF RollAsserts, Ownership, TransactionsAccounted, OneContainer
    <3>2. CheckSlotRoll(v)
      BY <1>2, <2>1, <3>1 DEF AuctionSlotRoll, CheckSlotRoll, Asserts
    <3> QED BY <1>2, <2>1, <3>2
            DEF AuctionSlotRoll, SharedStep, AssertionsHold, Next, Scheduler, Roll, locks
  <2>2. ASSUME NEW v \in View, NEW p \in TipPair, AuctionTipRefused(v, p) PROVE SharedStep
    <3>1. RollAsserts(v)
      BY DEF RollAsserts, Ownership, TransactionsAccounted, OneContainer
    <3>2. InitTip[p] \in Member[p] /\ ~CanLock(InitTip[p])
      BY <2>2, InitTipAssumption DEF AuctionTipRefused, TryAcquire
    <3>3. TipLocksRefused(v, p)
      BY <1>2, <2>2, <3>1, <3>2 DEF AuctionTipRefused, TipLocksRefused, Asserts
    <3> QED BY <1>2, <2>2, <3>3
            DEF AuctionTipRefused, SharedStep, AssertionsHold, Next, Scheduler, Roll, locks
  <2>3. ASSUME NEW v \in View, TipConfigMissing(v) PROVE SharedStep
    BY <1>2, <2>3 DEF TipConfigMissing, Panics, SharedStep, AssertionsHold, Next, Scheduler,
                      Roll, locks, store
  <2>4. ASSUME Disconnected PROVE SharedStep
    BY <1>2, <2>4 DEF Disconnected, Panics, SharedStep, AssertionsHold, Next, Scheduler,
                      locks, store
  <2>5. ASSUME NEW k \in Tx, AuctionOnCheck(k) PROVE SharedStep
    <3>1. CheckAnswer(k)
      BY <2>5 DEF AuctionOnCheck
    <3>2. UNCHANGED <<writers, readers, executing_tx>> /\ panic' \in {panic, "evict_checked"}
      BY <3>1 DEF CheckAnswer, CheckIgnored, CheckFailed, CheckPassed, FirstCheck,
                  CheckAnswered, EvictCheckedMissing, Panics, locks, store
    <3> QED BY <1>2, <3>1, <3>2 DEF SharedStep, AssertionsHold, Next, Scheduler
  <2>6. ASSUME AuctionIngest PROVE SharedStep
    <3>1. Ingest
      BY <2>6 DEF AuctionIngest, AuctionDrainTpu, AuctionOnPacket, AuctionOnBundle, Ingest
    <3>2. /\ UNCHANGED <<writers, readers, executing_tx>>
          /\ panic' \in {panic, "evict_unchecked", "evict_bundle"}
      BY <3>1 DEF Ingest, DrainTpuDropExpired, JitoTipConfig, OnPacket, OnBundle, Panics,
                  locks, store
    <3> QED BY <1>2, <3>1, <3>2 DEF SharedStep, AssertionsHold, Next, Scheduler
  <2>7. ASSUME AuctionScheduleChecks \/ AuctionChecksDone \/ AuctionSkipWorker
        PROVE  SharedStep
    <3>1. ScheduleChecks \/ ChecksDone \/ SkipWorker
      BY <2>7 DEF AuctionScheduleChecks, AuctionChecksDone, AuctionSkipWorker
    <3>2. UNCHANGED <<writers, readers, executing_tx, panic>>
      BY <3>1 DEF ScheduleChecks, ChecksDone, SkipWorker, locks, store
    <3> QED BY <1>2, <3>1, <3>2 DEF SharedStep, AssertionsHold, Next, Scheduler, Schedule
  <2>8. ASSUME Validator PROVE SharedStep
    <3>1. UNCHANGED <<writers, readers, executing_tx, panic>>
      BY <2>8 DEF Validator, CheckWorkerTakes, BankAdvances, ExecWorkerTakes, BundleExpires,
                  locks, store
    <3> QED BY <1>2, <2>8, <3>1 DEF SharedStep, AssertionsHold, Next
  <2>9. ASSUME AuctionRoll PROVE AuctionOnly \/ SharedStep
    BY <2>9, <2>1, <2>2, <2>3 DEF AuctionRoll, AuctionOnly
  <2>10. ASSUME AuctionSchedule PROVE AuctionOnly \/ SharedStep \/ UNCHANGED vars
    BY <2>10, <2>7 DEF AuctionSchedule, AuctionOnly, RecheckSpins
  <2>11. ASSUME AuctionPoll PROVE AuctionOnly \/ SharedStep \/ UNCHANGED vars
    BY <2>11, <2>4, <2>5, <2>6, <2>9, <2>10 DEF AuctionPoll, AuctionOnly
  <2> QED BY <1>2, <2>8, <2>11
<1> QED BY <1>1, <1>2 DEF AuctionNext

\* What the engine picks for a worker is within the budget, free of every lock in
\* flight, and its keys do not conflict with each other.
LEMMA ChoiceFits ==
    ASSUME TypeOK, NEW x \in Choice
    PROVE  /\ x \in checked_tx \cup bundles /\ x \in Tx \cup Bundle
           /\ Cost[x] <= budget
           /\ KeysOf(x) \in SUBSET Key /\ \A k \in KeysOf(x) : CanLock(k)
           /\ \A j, k \in KeysOf(x) : j # k => ~Conflict(j, k)
<1>1. Highest(Fitting) \subseteq Fitting /\ Highest(bundles) \subseteq bundles
  BY Selections
<1>2. CASE x \in Fitting
  <2>1. x \in Tx /\ x \in checked_tx /\ Cost[x] <= budget /\ CanLock(x)
    BY <1>2 DEF Fitting, TryAcquire, TypeOK
  <2>2. KeysOf(x) = {x} /\ x \in Key
    BY <2>1, KeyFacts DEF KeysOf
  <2> QED BY <2>1, <2>2
<1>3. CASE x \in bundles /\ BundleFits(x)
  <2>1. x \in Bundle /\ KeysOf(x) = Member[x] /\ Member[x] \subseteq Key
    BY <1>3, KeyFacts DEF KeysOf, TypeOK
  <2> QED BY <1>3, <2>1 DEF BundleFits, TryAcquire, Excludes
<1> QED BY <1>1, <1>2, <1>3 DEF Choice

\* An answer names a bundle's or a tip pair's key by its priority, and only those.
LEMMA BundlesTold == ASSUME NEW k \in Key PROVE IsBundle(k) <=> k \notin Tx
BY TransactionsTold DEF IsBundle, MetaPriority

(***************************************************************************)
(* Type correctness and ownership.                                         *)
(***************************************************************************)
\* schedule_execute keeps the types.
LEMMA AuctionSendType ==
    ASSUME TypeOK, NEW x \in Tx \cup Bundle, AuctionSend(x),
           checked_tx' \subseteq checked_tx, bundles' \subseteq bundles
    PROVE  TypeOK'
<1>1. x \in Choice /\ turn \in Worker /\ turn' = turn + 1 /\ pc' = "execute"
  BY DEF AuctionSend, AtWorker
<1>2. KeysOf(x) \subseteq Key /\ Cost[x] <= budget /\ Cost[x] \in Nat
  BY <1>1, ChoiceFits, CostAssumption
<1>3. turn' \in 1..(NumExecWorkers + 1)
  BY <1>1, BoundsAssumption DEF Worker
<1>4. budget' \in Nat /\ in_flight_cus' \in Int
  BY <1>2 DEF AuctionSend, TypeOK
<1>5. view.slot + 1 \in Nat /\ 0 \in Slot
  BY BoundsAssumption DEF TypeOK, Slot
<1>6. execMsgs' \subseteq ExecMsg
  BY <1>1, <1>2, <1>5 DEF AuctionSend, ExecMsg, TypeOK
<1>7. writers' \in [Account -> SUBSET Key] /\ readers' \in [Account -> SUBSET Key]
  BY <1>2 DEF AuctionSend, Acquire, Lock, TypeOK
<1>8. executing_tx' \subseteq Key /\ panic' \in PanicSite
  BY <1>2 DEF AuctionSend, Asserts, PanicSite, TypeOK
<1>9. UNCHANGED <<slot, was_leader_ready, view, unchecked_tx, deferred_tx, checkQ, checking,
                  tipSlot, tip_config, next_recheck, life, bankSlot, expired>>
  BY DEF AuctionSend, clock
<1> QED BY <1>1, <1>3, <1>4, <1>6, <1>7, <1>8, <1>9 DEF TypeOK

\* So does every other step of its own.
LEMMA AuctionTypeStep == ASSUME TypeOK, AuctionOnly PROVE TypeOK'
<1>1. ASSUME NEW v \in View, NEW p \in TipPair, AuctionBecomeTipReceiver(v, p) PROVE TypeOK'
  <2>1. Member[p] \subseteq Key /\ Granted(p) \subseteq Key
    BY InitTipAssumption DEF Key, GroupKey, Group, Granted
  <2>2. v.slot + 4 \in Nat /\ 1 \in Worker /\ 0 \in Slot /\ v.slot \in Slot
    BY BoundsAssumption DEF View, Worker, Slot
  <2>3. execMsgs' \subseteq ExecMsg
    BY <1>1, <2>1, <2>2 DEF AuctionBecomeTipReceiver, ExecMsg, TypeOK
  <2>4. writers' \in [Account -> SUBSET Key] /\ readers' \in [Account -> SUBSET Key]
    BY <1>1, <2>1 DEF AuctionBecomeTipReceiver, Acquire, Lock, TypeOK
  <2> QED BY <1>1, <2>1, <2>2, <2>3, <2>4, RollSlotType
          DEF AuctionBecomeTipReceiver, Asserts, Admit, PanicSite, TypeOK
<1>2. ASSUME NEW m \in execMsgs, AuctionUnprocessed(m) PROVE TypeOK'
  <2>1. m.key \in Key /\ MetaCost(m.key) \in Nat
    BY <1>2, MetaCostType DEF TypeOK, ExecMsg
  <2>2. IsBundle(m.key) \/ m.key \in Tx
    BY <2>1, BundlesTold
  <2> QED BY <1>2, <2>1, <2>2 DEF AuctionUnprocessed, AuctionAnswered, Release, Unlock, Drop,
                                  control, clock, TypeOK
<1>3. ASSUME NEW m \in execMsgs, NEW reason \in Reason, AuctionExecuteFinal(m, reason)
      PROVE  TypeOK'
  BY <1>3, MetaCostType DEF AuctionExecuteFinal, AuctionAnswered, Release, Unlock, Asserts,
     Drop, ExecMsg, control, clock, PanicSite, TypeOK
<1>4. ASSUME NEW m \in execMsgs, NEW reason \in Reason, NEW at \in Slot,
             AuctionExecuteRetry(m, reason, at)
      PROVE  TypeOK'
  <2>1. m.key \in Key /\ MetaCost(m.key) \in Nat
    BY <1>4, MetaCostType DEF TypeOK, ExecMsg
  <2>2. m.key \in Tx
    BY <1>4, <2>1, BundlesTold DEF AuctionExecuteRetry
  <2> QED BY <1>4, <2>1, <2>2, Selections
          DEF AuctionExecuteRetry, AuctionAnswered, Release, Unlock, Asserts, Drop, control,
              clock, PanicSite, TypeOK
<1>5. ASSUME NEW k \in Tx, AuctionTryTransaction(k) PROVE TypeOK'
  BY <1>5, AuctionSendType DEF AuctionTryTransaction
<1>6. ASSUME NEW b \in Bundle, AuctionTryBundle(b) PROVE TypeOK'
  BY <1>6, AuctionSendType DEF AuctionTryBundle
<1>7. ASSUME AuctionEndPoll PROVE TypeOK'
  <2>1. Highest(checked_tx) \subseteq Tx
    BY Selections DEF TypeOK
  <2>2. next_recheck' \subseteq Tx
    BY <1>7, <2>1 DEF AuctionEndPoll, OrElse, TypeOK
  <2>3. 1 \in 1..(NumExecWorkers + 1)
    BY BoundsAssumption
  <2> QED BY <1>7, <2>2, <2>3 DEF AuctionEndPoll, clock, store, locks, messages, TypeOK
<1> QED BY <1>1, <1>2, <1>3, <1>4, <1>5, <1>6, <1>7 DEF AuctionOnly, AuctionOnExecute

\* Every step of its own moves keys as the batch scheduler's does.
LEMMA AuctionOwnStep == ASSUME TypeOK, Ownership, AuctionOnly PROVE Ownership'
<1>1. ASSUME NEW v \in View, NEW p \in TipPair, AuctionBecomeTipReceiver(v, p)
      PROVE  Ownership'
  BY <1>1, OwnPair DEF AuctionBecomeTipReceiver
<1>2. ASSUME NEW m \in execMsgs, AuctionAnswered(m)
      PROVE  /\ m.key \in Key
             /\ execMsgs' = execMsgs \ {m} /\ executing_tx' = executing_tx \ {m.key}
             /\ UNCHANGED <<unchecked_tx, bundles, checkQ, tipSlot>>
  BY <1>2 DEF AuctionAnswered, TypeOK, ExecMsg
<1>3. ASSUME NEW m \in execMsgs, AuctionUnprocessed(m) PROVE Ownership'
  <2>1. AuctionAnswered(m) /\ UNCHANGED deferred_tx
    BY <1>3 DEF AuctionUnprocessed
  <2>2. CASE IsBundle(m.key)
    BY <1>2, <1>3, <2>1, <2>2, OwnDropped DEF AuctionUnprocessed
  <2>3. CASE ~IsBundle(m.key)
    <3>1. m.key \in Tx
      BY <1>2, <2>1, <2>3, BundlesTold
    <3> QED BY <1>2, <1>3, <2>1, <2>3, <3>1, OwnBack DEF AuctionUnprocessed
  <2> QED BY <2>2, <2>3
<1>4. ASSUME NEW m \in execMsgs, NEW reason \in Reason, AuctionExecuteFinal(m, reason)
      PROVE  Ownership'
  BY <1>2, <1>4, OwnDropped DEF AuctionExecuteFinal
<1>5. ASSUME NEW m \in execMsgs, NEW reason \in Reason, NEW at \in Slot,
             AuctionExecuteRetry(m, reason, at)
      PROVE  Ownership'
  <2> DEFINE defer == at = slot /\ reason # "in_use"
             kept == IF defer THEN checked_tx ELSE checked_tx \cup {m.key}
             parked == IF defer THEN deferred_tx \cup {m.key} ELSE deferred_tx
             over == Cardinality(kept) + Cardinality(executing_tx \ {m.key})
                       + Cardinality(parked) > CheckedCapacity
             gone == IF over THEN Lowest(kept) ELSE {}
  <2>1. /\ AuctionAnswered(m) /\ ~IsBundle(m.key)
        /\ deferred_tx' = parked /\ checked_tx' = kept \ gone /\ Drop(gone)
    BY <1>5 DEF AuctionExecuteRetry
  <2>2. m.key \in Tx
    BY <1>2, <2>1, BundlesTold
  <2>3. /\ gone \in SUBSET kept
        /\ \/ kept = checked_tx /\ deferred_tx' = deferred_tx \cup {m.key}
           \/ kept = checked_tx \cup {m.key} /\ deferred_tx' = deferred_tx
    BY <2>1, Selections
  <2> HIDE DEF defer, kept, parked, over, gone
  <2> QED BY <1>2, <2>1, <2>2, <2>3, OwnRetried
<1>6. ASSUME NEW x \in Tx \cup Bundle, AuctionSend(x),
             \/ x \in checked_tx /\ checked_tx' = checked_tx \ {x} /\ bundles' = bundles
             \/ x \in bundles /\ checked_tx' = checked_tx /\ bundles' = bundles \ {x}
      PROVE  Ownership'
  <2>1. /\ executing_tx' = executing_tx \cup KeysOf(x)
        /\ execMsgs' = execMsgs \cup
             {[key |-> k, worker |-> turn, until |-> view.slot + 1, from |-> 0] : k \in KeysOf(x)}
        /\ UNCHANGED <<unchecked_tx, deferred_tx, checkQ, checking, tipSlot, life>>
    BY <1>6 DEF AuctionSend
  <2> QED BY <1>6, <2>1, OwnSent
<1>7. ASSUME NEW k \in Tx, AuctionTryTransaction(k) PROVE Ownership'
  BY <1>6, <1>7 DEF AuctionTryTransaction
<1>8. ASSUME NEW b \in Bundle, AuctionTryBundle(b) PROVE Ownership'
  BY <1>6, <1>8 DEF AuctionTryBundle
<1>9. ASSUME AuctionEndPoll PROVE Ownership'
  BY <1>9, OwnFrame DEF AuctionEndPoll, store, messages
<1> QED BY <1>1, <1>3, <1>4, <1>5, <1>7, <1>8, <1>9 DEF AuctionOnly, AuctionOnExecute

\* Both together are inductive: that a step is shared rests on Ownership.
LEMMA AuctionOwnership == AuctionSpec => [](TypeOK /\ Ownership)
<1>1. Init => TypeOK /\ Ownership
  BY InitTyped, InitOwned
<1>2. TypeOK /\ Ownership /\ [AuctionNext]_vars => TypeOK' /\ Ownership'
  <2> SUFFICES ASSUME TypeOK, Ownership, [AuctionNext]_vars PROVE TypeOK' /\ Ownership'
    OBVIOUS
  <2>1. CASE AuctionOnly
    BY <2>1, AuctionTypeStep, AuctionOwnStep
  <2>2. CASE SharedStep
    BY <2>2, TypeStep, OwnStep DEF SharedStep
  <2>3. CASE UNCHANGED vars
    BY <2>3, GroupsOfVars, OwnQuiet DEF TypeOK
  <2> QED BY <2>1, <2>2, <2>3, StepKinds
<1> QED BY <1>1, <1>2, PTL DEF AuctionSpec

\* The auction scheduler loses no transaction either, although it passes over those
\* that do not fit and drops or returns the rest by their priority.
THEOREM AuctionTransactionsCorrect == AuctionSpec => []TransactionsAccounted
<1>1. TypeOK /\ Ownership => TransactionsAccounted
  BY DEF Ownership
<1> QED BY <1>1, AuctionOwnership, PTL

\* Nor a key of a bundle, nor one of a tip pair whose second lock was refused.
THEOREM AuctionBundlesCorrect == AuctionSpec => []BundlesAccounted
<1>1. TypeOK /\ Ownership => BundlesAccounted
  BY DEF Ownership
<1> QED BY <1>1, AuctionOwnership, PTL

\* Every key it has given a worker has exactly one request outstanding.
THEOREM AuctionRequestsCorrect == AuctionSpec => []RequestsMatchExecuting
<1>1. TypeOK /\ Ownership => RequestsMatchExecuting
  BY DEF Ownership
<1> QED BY <1>1, AuctionOwnership, PTL

(***************************************************************************)
(* The lock manager.  LocksOfExecuting is inductive with two more parts:   *)
(* a key holds only the locks it names, so that release_locks finds them   *)
(* all, and executing keys conflict only with a second tip transaction.    *)
(***************************************************************************)
OwnLocksOnly ==
    \A a \in Account : /\ \A k \in writers[a] : a \in Writes[k]
                       /\ \A k \in readers[a] : a \in Reads[k]
TipApart ==
    \A j, k \in executing_tx : j # k /\ Conflict(j, k) => {j, k} \cap ChangeTip # {}
AuctionLocked == LocksOfExecuting /\ OwnLocksOnly /\ TipApart

\* A granted key conflicts with no executing key that holds its locks.
LEMMA AuctionGranted ==
    ASSUME TypeOK, LocksOfExecuting, NEW j \in Key, CanLock(j), NEW k \in executing_tx \ ChangeTip
    PROVE  ~Conflict(j, k) /\ ~Conflict(k, j)
<1>1. /\ Writes[j] \subseteq Account /\ Reads[j] \subseteq Account
      /\ Writes[k] \subseteq Account /\ Reads[k] \subseteq Account
  BY LocksAssumption DEF TypeOK
<1>2. /\ \A a \in Writes[j] : writers[a] = {} /\ readers[a] = {}
      /\ \A a \in Reads[j] : writers[a] = {}
  BY DEF CanLock
<1>3. \A a \in Account : (a \in Writes[k] => k \in writers[a]) /\ (a \in Reads[k] => k \in readers[a])
  BY DEF LocksOfExecuting
<1> QED BY <1>1, <1>2, <1>3 DEF Conflict

\* Sending the keys K with the locks of held granted: all but a second tip
\* transaction are granted theirs.
LEMMA AuctionLockStep ==
    ASSUME TypeOK, AuctionLocked, NEW K \in SUBSET Key, NEW held \in SUBSET K,
           \A k \in K \ ChangeTip : k \in held /\ CanLock(k),
           \A j, k \in K : j # k /\ Conflict(j, k) => {j, k} \cap ChangeTip # {},
           Lock(held), executing_tx' = executing_tx \cup K
    PROVE  AuctionLocked'
<1>1. \A a \in Account : /\ writers'[a] = writers[a] \cup {k \in held : a \in Writes[k]}
                         /\ readers'[a] = readers[a] \cup {k \in held : a \in Reads[k]}
  BY DEF Lock
<1>2. LocksOfExecuting'
  BY <1>1 DEF AuctionLocked, LocksOfExecuting
<1>3. OwnLocksOnly'
  BY <1>1 DEF AuctionLocked, OwnLocksOnly
<1>4. TipApart'
  <2> SUFFICES ASSUME NEW j \in executing_tx', NEW k \in executing_tx', j # k, Conflict(j, k),
                      j \notin ChangeTip, k \notin ChangeTip
               PROVE  FALSE
    BY DEF TipApart
  <2>1. CASE j \in executing_tx /\ k \in executing_tx
    BY <2>1 DEF AuctionLocked, TipApart
  <2>2. CASE j \in K /\ k \in K
    BY <2>2
  <2>3. CASE j \in K /\ k \in executing_tx
    BY <2>3, AuctionGranted DEF AuctionLocked
  <2>4. CASE k \in K /\ j \in executing_tx
    BY <2>4, AuctionGranted DEF AuctionLocked
  <2> QED BY <2>1, <2>2, <2>3, <2>4
<1> QED BY <1>2, <1>3, <1>4 DEF AuctionLocked

\* An answer releases every lock its key holds.
LEMMA AuctionUnlockStep ==
    ASSUME TypeOK, AuctionLocked, NEW k \in Key, Unlock(k), executing_tx' = executing_tx \ {k}
    PROVE  AuctionLocked'
<1>1. \A a \in Account :
        /\ writers'[a] = IF a \in Writes[k] THEN writers[a] \ {k} ELSE writers[a]
        /\ readers'[a] = IF a \in Reads[k] THEN readers[a] \ {k} ELSE readers[a]
  BY DEF Unlock
<1>2. \A a \in Account : writers'[a] = writers[a] \ {k} /\ readers'[a] = readers[a] \ {k}
  <2> TAKE a \in Account
  <2>1. a \notin Writes[k] => k \notin writers[a]
    BY DEF AuctionLocked, OwnLocksOnly
  <2>2. a \notin Reads[k] => k \notin readers[a]
    BY DEF AuctionLocked, OwnLocksOnly
  <2>3. writers'[a] = writers[a] \ {k}
    BY <1>1, <2>1
  <2>4. readers'[a] = readers[a] \ {k}
    BY <1>1, <2>2
  <2> QED BY <2>3, <2>4
<1>3. LocksOfExecuting'
  BY <1>2 DEF AuctionLocked, LocksOfExecuting
<1>4. OwnLocksOnly'
  BY <1>2 DEF AuctionLocked, OwnLocksOnly
<1>5. TipApart'
  BY DEF AuctionLocked, TipApart
<1> QED BY <1>3, <1>4, <1>5 DEF AuctionLocked

\* Steps that take or give no lock.
LEMMA AuctionLockedFrame ==
    ASSUME AuctionLocked, UNCHANGED <<writers, readers, executing_tx>>
    PROVE  AuctionLocked'
BY DEF AuctionLocked, LocksOfExecuting, OwnLocksOnly, TipApart

\* Every step preserves AuctionLocked.
LEMMA AuctionLockedStep ==
    ASSUME TypeOK, Ownership, AuctionLocked, [AuctionNext]_vars PROVE AuctionLocked'
<1>1. ASSUME NEW v \in View, NEW p \in TipPair, AuctionBecomeTipReceiver(v, p)
      PROVE  AuctionLocked'
  <2> DEFINE K == Member[p]
             held == Granted(p)
  <2>1. CanLock(InitTip[p]) /\ Lock(held) /\ executing_tx' = executing_tx \cup K
    BY <1>1 DEF AuctionBecomeTipReceiver, TryAcquire, Acquire
  <2>2. K \in SUBSET Key /\ held \in SUBSET K /\ InitTip[p] \in held
    BY KeyFacts, InitTipAssumption DEF Granted
  <2>3. \A k \in K : k = InitTip[p] \/ k \in ChangeTip
    BY DEF ChangeTip
  <2> HIDE DEF K, held
  <2>4. \A k \in K \ ChangeTip : k \in held /\ CanLock(k)
    BY <2>1, <2>2, <2>3
  <2>5. \A j, k \in K : j # k => {j, k} \cap ChangeTip # {}
    BY <2>3
  <2> QED BY <2>1, <2>2, <2>4, <2>5, AuctionLockStep
<1>2. ASSUME NEW m \in execMsgs, AuctionUnprocessed(m) \/ AuctionOnExecute(m)
      PROVE  AuctionLocked'
  <2>1. AuctionAnswered(m)
    BY <1>2 DEF AuctionUnprocessed, AuctionOnExecute, AuctionExecuteFinal, AuctionExecuteRetry
  <2>2. m.key \in Key /\ Unlock(m.key) /\ executing_tx' = executing_tx \ {m.key}
    BY <2>1 DEF AuctionAnswered, Release, TypeOK, ExecMsg
  <2> QED BY <2>2, AuctionUnlockStep
<1>3. ASSUME NEW x \in Tx \cup Bundle, AuctionSend(x) PROVE AuctionLocked'
  <2> DEFINE K == KeysOf(x)
  <2>1. x \in Choice /\ Lock(K) /\ executing_tx' = executing_tx \cup K
    BY <1>3 DEF AuctionSend, Acquire
  <2>2. /\ K \in SUBSET Key /\ \A k \in K : CanLock(k)
        /\ \A j, k \in K : j # k => ~Conflict(j, k)
    BY <2>1, ChoiceFits
  <2> HIDE DEF K
  <2>3. /\ \A k \in K \ ChangeTip : k \in K /\ CanLock(k)
        /\ \A j, k \in K : j # k /\ Conflict(j, k) => {j, k} \cap ChangeTip # {}
    BY <2>2
  <2> QED BY <2>1, <2>2, <2>3, AuctionLockStep
<1>4. ASSUME AuctionEndPoll \/ UNCHANGED vars PROVE AuctionLocked'
  BY <1>4, GroupsOfVars, AuctionLockedFrame DEF AuctionEndPoll, locks, store
<1>5. CASE AuctionOnly
  BY <1>5, <1>1, <1>2, <1>3, <1>4 DEF AuctionOnly, AuctionTryTransaction, AuctionTryBundle
<1>6. CASE SharedStep
  BY <1>6, AuctionLockedFrame DEF SharedStep
<1> QED BY <1>4, <1>5, <1>6, StepKinds

\* AuctionLocked holds in every reachable state.
LEMMA AuctionLockedCorrect == AuctionSpec => []AuctionLocked
<1>1. Init => AuctionLocked
  BY DEF Init, AuctionLocked, LocksOfExecuting, OwnLocksOnly, TipApart
<1>2. TypeOK /\ Ownership /\ AuctionLocked /\ [AuctionNext]_vars => AuctionLocked'
  BY AuctionLockedStep
<1> QED BY <1>1, <1>2, AuctionOwnership, PTL DEF AuctionSpec

\* The LockManager leaks no lock, although release_locks checks nothing, and only
\* a second tip transaction runs without its own.
THEOREM AuctionLocksCorrect == AuctionSpec => []LocksOfExecuting
<1>1. AuctionLocked => LocksOfExecuting
  BY DEF AuctionLocked
<1> QED BY <1>1, AuctionLockedCorrect, PTL

\* Requests in flight conflict only with a second tip transaction: the keys of a
\* bundle, locked one after the other, never conflict with each other.
THEOREM AuctionConflictsCorrect == AuctionSpec => []ConflictsOnlyWithTip
<1>1. TypeOK /\ Ownership /\ AuctionLocked => ConflictsOnlyWithTip
  BY DEF AuctionLocked, TipApart, Ownership, RequestsMatchExecuting, ConflictsOnlyWithTip
<1> QED BY <1>1, AuctionLockedCorrect, AuctionOwnership, PTL

(***************************************************************************)
(* Assertions, budget and cost.                                            *)
(***************************************************************************)
\* No step makes an assertion fail.
LEMMA AuctionAssertionStep ==
    ASSUME TypeOK, Ownership, AssertionsHold, [AuctionNext]_vars PROVE AssertionsHold'
<1>1. ASSUME NEW v \in View, NEW p \in TipPair, AuctionBecomeTipReceiver(v, p)
      PROVE  AssertionsHold'
  <2>1. Member[p] \cap executing_tx = {}
    BY <1>1, KeyFacts DEF AuctionBecomeTipReceiver, Ownership, TipKeysFresh,
                          TransactionsAccounted, HeldAreLive, Held
  <2> QED BY <1>1, <2>1 DEF AuctionBecomeTipReceiver, Asserts, AssertionsHold
<1>2. ASSUME NEW m \in execMsgs, AuctionUnprocessed(m) \/ AuctionOnExecute(m)
      PROVE  AssertionsHold'
  <2>1. m.key \in executing_tx /\ m.key \notin deferred_tx
    BY DEF Ownership, RequestsMatchExecuting, TransactionsAccounted, OneContainer
  <2>2. CASE AuctionUnprocessed(m)
    BY <2>2 DEF AuctionUnprocessed, AssertionsHold
  <2>3. ASSUME NEW reason \in Reason, AuctionExecuteFinal(m, reason) PROVE AssertionsHold'
    BY <2>1, <2>3 DEF AuctionExecuteFinal, Asserts, AssertionsHold
  <2>4. ASSUME NEW reason \in Reason, NEW at \in Slot, AuctionExecuteRetry(m, reason, at)
        PROVE  AssertionsHold'
    BY <2>1, <2>4 DEF AuctionExecuteRetry, Asserts, AssertionsHold
  <2> QED BY <1>2, <2>2, <2>3, <2>4 DEF AuctionOnExecute
<1>3. ASSUME NEW x \in Tx \cup Bundle, AuctionSend(x), x \in checked_tx \cup bundles
      PROVE  AssertionsHold'
  <2>1. KeysOf(x) \cap executing_tx = {}
    BY <1>3, KeyFacts DEF KeysOf, Ownership, TransactionsAccounted, OneContainer,
                          BundlesAccounted, TypeOK
  <2> QED BY <1>3, <2>1 DEF AuctionSend, Asserts, AssertionsHold
<1>4. ASSUME AuctionEndPoll \/ UNCHANGED vars PROVE AssertionsHold'
  BY <1>4, GroupsOfVars DEF AuctionEndPoll, AssertionsHold
<1>5. CASE AuctionOnly
  BY <1>5, <1>1, <1>2, <1>3, <1>4 DEF AuctionOnly, AuctionTryTransaction, AuctionTryBundle
<1>6. CASE SharedStep
  BY <1>6 DEF SharedStep
<1> QED BY <1>4, <1>5, <1>6, StepKinds

\* The assertions the fork kept hold in every run, for every value of the constants.
THEOREM AuctionAssertionsCorrect == AuctionSpec => []AssertionsHold
<1>1. Init => AssertionsHold
  BY DEF Init, AssertionsHold
<1>2. TypeOK /\ Ownership /\ AssertionsHold /\ [AuctionNext]_vars => AssertionsHold'
  BY AuctionAssertionStep
<1> QED BY <1>1, <1>2, AuctionOwnership, PTL DEF AuctionSpec

\* A step keeps the budget, and what it puts in flight is within the limit.
LEMMA AuctionBudgetStep ==
    ASSUME TypeOK, Ownership, BudgetTracked, [AuctionNext]_vars
    PROVE  BudgetTracked' /\ (in_flight_cus' > in_flight_cus => CostUsed' <= BudgetLimit)
<1> DEFINE Kept == BudgetTracked' /\ (in_flight_cus' > in_flight_cus => CostUsed' <= BudgetLimit)
<1>1. in_flight_cus \in Int /\ budget \in Nat
  BY DEF TypeOK
<1>2. ASSUME budget' = 0, in_flight_cus' \in Int, in_flight_cus' <= in_flight_cus PROVE Kept
  BY <1>1, <1>2 DEF BudgetTracked
<1>3. ASSUME NEW v \in View, NEW p \in TipPair, AuctionBecomeTipReceiver(v, p) PROVE Kept
  <2>1. pc = "roll" /\ UNCHANGED <<budget, in_flight_cus>>
    BY <1>3 DEF AuctionBecomeTipReceiver, RollSlot
  <2> QED BY <1>1, <1>2, <2>1 DEF BudgetTracked
<1>4. ASSUME NEW m \in execMsgs, AuctionUnprocessed(m) \/ AuctionOnExecute(m) PROVE Kept
  <2>1. AuctionAnswered(m)
    BY <1>4 DEF AuctionUnprocessed, AuctionOnExecute, AuctionExecuteFinal, AuctionExecuteRetry
  <2>2. /\ pc = "drain" /\ budget' = budget
        /\ in_flight_cus' = in_flight_cus - MetaCost(m.key)
    BY <2>1 DEF AuctionAnswered, control
  <2>3. MetaCost(m.key) \in Nat
    BY MetaCostType DEF TypeOK, ExecMsg
  <2> QED BY <1>1, <1>2, <2>2, <2>3 DEF BudgetTracked
<1>5. ASSUME NEW x \in Tx \cup Bundle, AuctionSend(x) PROVE Kept
  <2>1. /\ pc = "execute" /\ budget > 0 /\ x \in Choice /\ UNCHANGED <<pc, view>>
        /\ budget' = budget - Cost[x] /\ in_flight_cus' = in_flight_cus + Cost[x]
    BY <1>5 DEF AuctionSend, AtWorker, clock
  <2>2. Cost[x] <= budget
    BY <2>1, ChoiceFits
  <2> QED BY <2>1, <2>2, ChargeCovered
<1>6. ASSUME AuctionEndPoll PROVE Kept
  BY <1>1, <1>2, <1>6 DEF AuctionEndPoll, locks
<1>7. CASE AuctionOnly
  BY <1>7, <1>3, <1>4, <1>5, <1>6 DEF AuctionOnly, AuctionTryTransaction, AuctionTryBundle
<1>8. CASE SharedStep \/ UNCHANGED vars
  BY <1>8, BudgetStep DEF SharedStep
<1> QED BY <1>7, <1>8, StepKinds

\* The auction scheduler, which passes over what does not fit instead of stopping,
\* never puts more cost in flight than the block's share allows.
THEOREM AuctionBudgetCorrect == AuctionSpec => BudgetRespected
<1>1. Init => BudgetTracked
  BY DEF Init, BudgetTracked
<1>2. TypeOK /\ Ownership /\ BudgetTracked /\ [AuctionNext]_vars =>
         BudgetTracked' /\ (in_flight_cus' > in_flight_cus => CostUsed' <= BudgetLimit)
  BY AuctionBudgetStep
<1>3. [](TypeOK /\ Ownership /\ BudgetTracked) /\ [][AuctionNext]_vars
        => [][in_flight_cus' > in_flight_cus => CostUsed' <= BudgetLimit]_vars
  BY <1>2, PTL
<1> QED BY <1>1, <1>2, <1>3, AuctionOwnership, PTL DEF AuctionSpec, BudgetRespected

\* A step of its own keeps the cost exact.
LEMMA AuctionCostStep ==
    ASSUME TypeOK, Ownership, CostExact, AuctionOnly PROVE CostExact'
<1>1. ASSUME NEW v \in View, NEW p \in TipPair, AuctionBecomeTipReceiver(v, p)
      PROVE  CostExact'
  <2> DEFINE K == Member[p]
  <2>1. /\ executing_tx' = executing_tx \cup K /\ in_flight_cus' = in_flight_cus
    BY <1>1 DEF AuctionBecomeTipReceiver
  <2>2. K \cap executing_tx = {}
    BY <1>1, KeyFacts DEF AuctionBecomeTipReceiver, Ownership, TipKeysFresh,
                          TransactionsAccounted, HeldAreLive, Held
  <2>3. /\ IsFiniteSet(CostUnits(K)) /\ Cardinality(CostUnits(K)) = 0
    BY UnitsOfTips, FS_EmptySet
  <2>4. in_flight_cus' = in_flight_cus + Cardinality(CostUnits(K))
    BY <2>1, <2>3 DEF TypeOK
  <2> HIDE DEF K
  <2> QED BY <2>1, <2>2, <2>3, <2>4, CostCharged
<1>2. ASSUME NEW m \in execMsgs, AuctionUnprocessed(m) \/ AuctionOnExecute(m)
      PROVE  CostExact'
  <2>1. AuctionAnswered(m)
    BY <1>2 DEF AuctionUnprocessed, AuctionOnExecute, AuctionExecuteFinal, AuctionExecuteRetry
  <2>2. /\ m.key \in executing_tx /\ executing_tx' = executing_tx \ {m.key}
        /\ in_flight_cus' = in_flight_cus - MetaCost(m.key)
    BY <2>1 DEF AuctionAnswered, Ownership, RequestsMatchExecuting
  <2> QED BY <2>2, CostReturned
<1>3. ASSUME NEW x \in Tx \cup Bundle, AuctionSend(x), x \in checked_tx \cup bundles
      PROVE  CostExact'
  <2>1. KeysOf(x) \cap executing_tx = {}
    BY <1>3, KeyFacts DEF KeysOf, Ownership, TransactionsAccounted, OneContainer,
                          BundlesAccounted, TypeOK
  <2>2. /\ executing_tx' = executing_tx \cup KeysOf(x)
        /\ in_flight_cus' = in_flight_cus + Cost[x]
    BY <1>3 DEF AuctionSend
  <2> QED BY <2>1, <2>2, UnitsOfSent, CostCharged
<1>4. ASSUME AuctionEndPoll PROVE CostExact'
  BY <1>4, CostFrame DEF AuctionEndPoll, locks, store
<1> QED BY <1>1, <1>2, <1>3, <1>4 DEF AuctionOnly, AuctionTryTransaction, AuctionTryBundle

\* in_flight_cus is the cost of what executes in the auction scheduler too, also
\* for a bundle that was locked key by key.
THEOREM AuctionCostCorrect == AuctionSpec => []CostMatchesExecuting
<1>1. Init => CostExact
  BY CostAtFirst
<1>2. TypeOK /\ Ownership /\ CostExact /\ [AuctionNext]_vars => CostExact'
  <2>1. ASSUME TypeOK, Ownership, CostExact, UNCHANGED vars PROVE CostExact'
    BY <2>1, CostStep
  <2> QED BY <2>1, StepKinds, CostStep, AuctionCostStep DEF SharedStep
<1>3. CostExact => CostMatchesExecuting
  BY DEF CostExact
<1> QED BY <1>1, <1>2, <1>3, AuctionOwnership, PTL DEF AuctionSpec

(***************************************************************************)
(* Capacities and tips, as in the batch scheduler.                         *)
(***************************************************************************)
\* A step of its own admits nothing and lets no transaction past its check.
LEMMA AuctionOnlyMoves ==
    ASSUME TypeOK, Ownership, AuctionOnly
    PROVE  /\ Pending' \subseteq Pending
           /\ unchecked_tx' \subseteq unchecked_tx /\ bundles' \subseteq bundles
<1>1. ASSUME NEW v \in View, NEW p \in TipPair, AuctionBecomeTipReceiver(v, p)
      PROVE  /\ Pending' \subseteq Pending
             /\ unchecked_tx' \subseteq unchecked_tx /\ bundles' \subseteq bundles
  <2>1. RollSlot(v) /\ executing_tx' = executing_tx \cup Member[p] /\ Member[p] \cap Tx = {}
    BY <1>1, KeyFacts DEF AuctionBecomeTipReceiver
  <2> QED BY <2>1, RollStore DEF Pending
<1>2. ASSUME NEW m \in execMsgs, AuctionUnprocessed(m) \/ AuctionOnExecute(m)
      PROVE  /\ Pending' \subseteq Pending
             /\ unchecked_tx' \subseteq unchecked_tx /\ bundles' \subseteq bundles
  <2>1. AuctionAnswered(m)
    BY <1>2 DEF AuctionUnprocessed, AuctionOnExecute, AuctionExecuteFinal, AuctionExecuteRetry
  <2>2. /\ m.key \in executing_tx /\ m.key \in Key
        /\ executing_tx' = executing_tx \ {m.key} /\ UNCHANGED <<unchecked_tx, bundles>>
    BY <2>1 DEF AuctionAnswered, Ownership, RequestsMatchExecuting, TypeOK, ExecMsg
  <2>3. IsBundle(m.key) \/ m.key \in Tx
    BY <2>2, BundlesTold
  <2>4. /\ checked_tx' \subseteq checked_tx \cup ({m.key} \cap Tx)
        /\ deferred_tx' \subseteq deferred_tx \cup ({m.key} \cap Tx)
    BY <1>2, <2>3 DEF AuctionUnprocessed, AuctionOnExecute, AuctionExecuteFinal,
                      AuctionExecuteRetry
  <2> QED BY <2>2, <2>4 DEF Pending
<1>3. ASSUME NEW k \in Tx, AuctionTryTransaction(k)
      PROVE  /\ Pending' \subseteq Pending
             /\ unchecked_tx' \subseteq unchecked_tx /\ bundles' \subseteq bundles
  BY <1>3, KeyFacts DEF AuctionTryTransaction, AuctionSend, KeysOf, Pending
<1>4. ASSUME NEW b \in Bundle, AuctionTryBundle(b)
      PROVE  /\ Pending' \subseteq Pending
             /\ unchecked_tx' \subseteq unchecked_tx /\ bundles' \subseteq bundles
  BY <1>4, KeyFacts DEF AuctionTryBundle, AuctionSend, KeysOf, Pending
<1>5. ASSUME AuctionEndPoll
      PROVE  /\ Pending' \subseteq Pending
             /\ unchecked_tx' \subseteq unchecked_tx /\ bundles' \subseteq bundles
  BY <1>5 DEF AuctionEndPoll, store, Pending
<1> QED BY <1>1, <1>2, <1>3, <1>4, <1>5 DEF AuctionOnly

\* The transactions past their first check never exceed checked_capacity.
LEMMA AuctionCheckedBounded == AuctionSpec => []CheckedBounded
<1>1. Init => PendingBounded
  BY PendingAtFirst
<1>2. TypeOK /\ Ownership /\ PendingBounded /\ [AuctionNext]_vars => PendingBounded'
  BY StepKinds, PendingStep, AuctionOnlyMoves, PendingFewer DEF SharedStep
<1>3. TypeOK /\ Ownership /\ PendingBounded => CheckedBounded
  BY PendingCount DEF Ownership, TransactionsAccounted, PendingBounded, CheckedBounded
<1> QED BY <1>1, <1>2, <1>3, AuctionOwnership, PTL DEF AuctionSpec

\* Nor does bundles exceed its capacity.
LEMMA AuctionBundlesBounded == AuctionSpec => []BundlesBounded
<1>1. Init => BundlesBounded
  BY BoundsAssumption, FS_EmptySet DEF Init, BundlesBounded
<1>2. TypeOK /\ Ownership /\ BundlesBounded /\ [AuctionNext]_vars => BundlesBounded'
  <2>1. ASSUME TypeOK, BundlesBounded, bundles' \subseteq bundles PROVE BundlesBounded'
    BY <2>1, ContainersFinite, BoundsAssumption, StaysWithin DEF BundlesBounded
  <2> QED BY <2>1, StepKinds, BundlesStep, AuctionOnlyMoves DEF SharedStep
<1> QED BY <1>1, <1>2, AuctionOwnership, PTL DEF AuctionSpec

\* Both capacities hold, whatever they are.
THEOREM AuctionCapacities == AuctionSpec => []CapacitiesKept
<1>1. CheckedBounded /\ BundlesBounded => CapacitiesKept
  BY DEF CapacitiesKept
<1> QED BY <1>1, AuctionCheckedBounded, AuctionBundlesBounded, PTL

\* A step of its own is not the drain and admits nothing.
LEMMA AuctionOnlyStaysWithin == ASSUME TypeOK, Ownership, AuctionOnly PROVE OverfillStep
<1>1. ~(pc = "drain" /\ pc' = "jito")
  <2>1. ASSUME NEW v \in View, NEW p \in TipPair, AuctionBecomeTipReceiver(v, p)
        PROVE  pc = "roll"
    BY <2>1 DEF AuctionBecomeTipReceiver, RollSlot
  <2>2. ASSUME NEW m \in execMsgs, AuctionUnprocessed(m) \/ AuctionOnExecute(m)
        PROVE  pc' = pc
    <3>1. AuctionAnswered(m)
      BY <2>2 DEF AuctionUnprocessed, AuctionOnExecute, AuctionExecuteFinal, AuctionExecuteRetry
    <3> QED BY <3>1 DEF AuctionAnswered, control
  <2>3. ASSUME NEW x \in Tx \cup Bundle, AuctionSend(x) PROVE pc = "execute"
    BY <2>3 DEF AuctionSend, AtWorker
  <2>4. ASSUME AuctionEndPoll PROVE pc = "execute"
    BY <2>4 DEF AuctionEndPoll
  <2> QED BY <2>1, <2>2, <2>3, <2>4 DEF AuctionOnly, AuctionTryTransaction, AuctionTryBundle
<1>2. unchecked_tx' \in SUBSET unchecked_tx /\ IsFiniteSet(unchecked_tx) /\ UncheckedCapacity \in Nat
  BY AuctionOnlyMoves, ContainersFinite, BoundsAssumption
<1> QED BY <1>1, <1>2, StaysWithin DEF OverfillStep

\* unchecked_tx outgrows its capacity only by what reaches the TPU queue between
\* drain_tpu's count and its drain, at most one drain's limit, and drain_tpu takes
\* back every earlier excess.
THEOREM AuctionOverfill == AuctionSpec => OverfillOnlyByDrain
<1>1. TypeOK /\ Ownership /\ [AuctionNext]_vars => [OverfillStep]_vars
  BY StepKinds, EveryOverfillStep, AuctionOnlyStaysWithin DEF SharedStep
<1> QED BY <1>1, AuctionOwnership, PTL DEF AuctionSpec, OverfillOnlyByDrain, OverfillStep

\* Evictions on the way in find something to evict, on the same condition as in the
\* batch scheduler.
THEOREM AuctionIngestEvictions ==
    ASSUME DrainLeader <= UncheckedCapacity, DrainFollower <= UncheckedCapacity,
           UncheckedCapacity > 0, BundleCapacity > 0
    PROVE  AuctionSpec => []IngestEvictionsFind
<1>1. Init => IngestEvictionsFind
  BY DEF Init, IngestEvictionsFind
<1>2. TypeOK /\ Ownership /\ IngestEvictionsFind /\ [AuctionNext]_vars => IngestEvictionsFind'
  <2>1. ASSUME IngestEvictionsFind, AuctionOnly PROVE IngestEvictionsFind'
    <3>1. ASSUME NEW P, Asserts(P) PROVE panic' \in {panic, "none", "assert"}
      BY <3>1 DEF Asserts
    <3>2. ASSUME NEW v \in View, NEW p \in TipPair, AuctionBecomeTipReceiver(v, p)
          PROVE  panic' \in {panic, "none", "assert"}
      BY <3>1, <3>2, Zenon DEF AuctionBecomeTipReceiver
    <3>3. ASSUME NEW m \in execMsgs, AuctionUnprocessed(m) \/ AuctionOnExecute(m)
          PROVE  panic' \in {panic, "none", "assert"}
      BY <3>1, <3>3, Zenon DEF AuctionUnprocessed, AuctionOnExecute, AuctionExecuteFinal,
                               AuctionExecuteRetry
    <3>4. ASSUME NEW x \in Tx \cup Bundle, AuctionSend(x) PROVE panic' \in {panic, "none", "assert"}
      BY <3>1, <3>4, Zenon DEF AuctionSend
    <3>5. ASSUME AuctionEndPoll PROVE panic' \in {panic, "none", "assert"}
      BY <3>5 DEF AuctionEndPoll
    <3>6. panic' \in {panic, "none", "assert"}
      BY <2>1, <3>2, <3>3, <3>4, <3>5 DEF AuctionOnly, AuctionTryTransaction, AuctionTryBundle
    <3> QED BY <2>1, <3>6 DEF IngestEvictionsFind
  <2> QED BY <2>1, StepKinds, EvictionStep DEF SharedStep
<1> QED BY <1>1, <1>2, AuctionOwnership, PTL DEF AuctionSpec

\* The tip transactions are made at most once for a slot, whichever of their locks
\* are refused.
THEOREM AuctionTipsCorrect == AuctionSpec => []TipsOncePerSlot
<1>1. Init => TipsTracked
  BY BoundsAssumption DEF Init, TipsTracked, TipsUpToSlot, TipsOncePerSlot
<1>2. TypeOK /\ Ownership /\ TipsTracked /\ [AuctionNext]_vars => TipsTracked'
  <2>1. ASSUME TipsTracked, UNCHANGED <<slot, was_leader_ready, tipSlot>> PROVE TipsTracked'
    BY <2>1 DEF TipsTracked, TipsUpToSlot, TipsOncePerSlot
  <2>2. ASSUME TypeOK, TipsTracked, NEW v \in View, NEW p \in TipPair,
               AuctionBecomeTipReceiver(v, p)
        PROVE  TipsTracked'
    BY <2>2, TipsMade DEF AuctionBecomeTipReceiver, RollSlot
  <2>3. ASSUME AuctionOnly, ~ \E v \in View : \E p \in TipPair : AuctionBecomeTipReceiver(v, p)
        PROVE  UNCHANGED <<slot, was_leader_ready, tipSlot>>
    <3>1. ASSUME NEW m, AuctionUnprocessed(m) \/ AuctionOnExecute(m)
          PROVE  UNCHANGED <<slot, was_leader_ready, tipSlot>>
      <4>1. AuctionAnswered(m)
        BY <3>1 DEF AuctionUnprocessed, AuctionOnExecute, AuctionExecuteFinal,
                    AuctionExecuteRetry
      <4> QED BY <4>1 DEF AuctionAnswered, clock
    <3>2. ASSUME NEW x, AuctionSend(x) PROVE UNCHANGED <<slot, was_leader_ready, tipSlot>>
      BY <3>2 DEF AuctionSend, clock
    <3>3. ASSUME AuctionEndPoll PROVE UNCHANGED <<slot, was_leader_ready, tipSlot>>
      BY <3>3 DEF AuctionEndPoll, clock
    <3> QED BY <2>3, <3>1, <3>2, <3>3 DEF AuctionOnly, AuctionTryTransaction, AuctionTryBundle
  <2>4. ASSUME TypeOK, TipsTracked, AuctionOnly PROVE TipsTracked'
    BY <2>1, <2>2, <2>3, <2>4
  <2>5. ASSUME TypeOK, TipsTracked, SharedStep PROVE TipsTracked'
    BY <2>5, TipsStep DEF SharedStep
  <2>6. ASSUME TipsTracked, UNCHANGED vars PROVE TipsTracked'
    BY <2>1, <2>6, GroupsOfVars
  <2> QED BY <2>4, <2>5, <2>6, StepKinds
<1>3. TipsTracked => TipsOncePerSlot
  BY DEF TipsTracked
<1> QED BY <1>1, <1>2, <1>3, AuctionOwnership, PTL DEF AuctionSpec
=============================================================================
