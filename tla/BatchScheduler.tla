--------------------------- MODULE BatchScheduler ---------------------------
(***************************************************************************)
(* The batch scheduler (schedulers/batch-scheduler/src/lib.rs): the poll   *)
(* loop that moves transactions and bundles between its containers, and    *)
(* the validator side it talks to through SchedulerBindingsBridge.         *)
(*                                                                         *)
(* One poll is the sequence of phases that pc names.  The scheduler is one *)
(* thread, so a phase is a step, except where the validator's workers can  *)
(* act inside it: responses are drained one by one, check batches and      *)
(* execute batches are sent one by one.  Consecutive phases that touch only*)
(* the scheduler's own state are one step.  An Option is a set of at most one *)
(* element.  A transaction key is used once.                               *)
(*                                                                         *)
(* Beside a few definitions stands a variant with a plausible slip in it   *)
(* (CanLockIgnoresReaders beside CanLock): not part of the model, it shows *)
(* that the properties would notice the slip.                              *)
(***************************************************************************)
EXTENDS Integers, Sequences, FiniteSets

CONSTANTS
    Tx,               \* keys of single transactions (TPU or Jito packets)
    Bundle,           \* Jito bundles
    TipPair,          \* (init_tip_distribution, change_tip_receiver) pairs
    Member,           \* the keys of each bundle and tip pair
    First,            \* the key that carries a bundle's whole cost
    Account,
    Writes, Reads,    \* the accounts each key locks
    Twice,            \* keys that name an account twice in the same way
    Cost,             \* cost of each transaction and each bundle
    Rank,             \* the order of checked_tx and bundles by priority
    NumExecWorkers,   \* execute workers, 1 is EXECUTE_WORKER_START
    UncheckedCapacity, CheckedCapacity, BundleCapacity,
    BatchSize,        \* transactions per check batch (64)
    MaxCheckBatches,
    DrainLeader, DrainFollower,   \* drain_tpu limits (128, 1024)
    MaxBlockUnits, BlockFillCutoff,
    Progress, Remaining,          \* values a progress message may carry
    MaxSlot,          \* bound: slots the validator goes through
    MaxTaken          \* bound: checks of one key held by the check worker

Group == Bundle \cup TipPair
GroupKey == UNION {Member[g] : g \in Group}
Key == Tx \cup GroupKey
Worker == 1..NumExecWorkers
Slot == 0..MaxSlot

ASSUME KeysAssumption ==
    /\ Bundle \cap TipPair = {} /\ Tx \cap Group = {} /\ Tx \cap GroupKey = {}
    /\ \A g, h \in Group : g # h => Member[g] \cap Member[h] = {}
    /\ \A b \in Bundle : First[b] \in Member[b]

\* Keys are slots of a slot map, of which there are finitely many.
ASSUME FiniteAssumption == IsFiniteSet(Tx) /\ IsFiniteSet(Bundle) /\ IsFiniteSet(GroupKey)

\* The check refuses a transaction that names an account twice.  Transactions of
\* bundles skip it: they may write and read the same account, or name one twice.
ASSUME LocksAssumption ==
    /\ Writes \in [Key -> SUBSET Account]
    /\ Reads \in [Key -> SUBSET Account]
    /\ Twice \subseteq UNION {Member[b] : b \in Bundle}

ASSUME OrderAssumption ==
    /\ Rank \in [Tx \cup Bundle -> Nat]
    /\ \A i, j \in Tx \cup Bundle : Rank[i] = Rank[j] => i = j

ASSUME CostAssumption ==
    /\ Cost \in [Tx \cup Bundle -> Nat]
    /\ MaxBlockUnits \in Nat
    /\ BlockFillCutoff \in 0..255
    /\ Progress \subseteq 0..255 /\ Remaining \subseteq Nat

ASSUME BoundsAssumption ==
    /\ NumExecWorkers \in Nat \ {0}
    /\ UncheckedCapacity \in Nat /\ CheckedCapacity \in Nat
    /\ BundleCapacity \in Nat
    /\ BatchSize \in Nat \ {0} /\ MaxCheckBatches \in Nat
    /\ DrainLeader \in Nat /\ DrainFollower \in Nat
    /\ MaxSlot \in Nat \ {0} /\ MaxTaken \in Nat

VARIABLES
    pc,               \* phase of BatchScheduler::poll
    turn,             \* worker the loop of schedule_execute is at
    budget,           \* the budget of that loop
    slot, was_leader_ready, tip_config,
    unchecked_tx, checked_tx, executing_tx, deferred_tx, bundles,
    next_recheck, in_flight_cus,
    writers, readers, \* in_flight_locks: AccountLockers of each account
    view,             \* bridge.progress(): the last drained progress
    life,             \* the bridge's store: fresh, live or dropped keys
    checkQ,           \* check batches in the check worker's queue
    checking,         \* checks taken and not yet answered, per key
    execMsgs,         \* execute requests not yet answered
    bankSlot,         \* the slot of the validator's bank
    expired,          \* bundles older than bundle_expiry
    tipSlot,          \* history: slot a tip pair was made in, 0 if none
    panic             \* the assertion or unwrap that failed, or "none"

control == <<pc, turn, budget>>
clock == <<slot, was_leader_ready, view>>
store == <<unchecked_tx, checked_tx, executing_tx, deferred_tx, bundles>>
locks == <<writers, readers, in_flight_cus>>
messages == <<checkQ, checking, execMsgs>>
vars == <<control, clock, store, locks, messages, tipSlot, tip_config,
          next_recheck, life, bankSlot, expired, panic>>

(***************************************************************************)
(* Order, locks and cost.                                                  *)
(***************************************************************************)
Highest(S) == {x \in S : \A y \in S : Rank[y] <= Rank[x]}
Lowest(S) == {x \in S : \A y \in S : Rank[x] <= Rank[y]}
Top(S, n) == {x \in S : Cardinality({y \in S : Rank[y] > Rank[x]}) < n}
BottomShort(S, n) == {x \in S : Cardinality({y \in S : Rank[y] < Rank[x]}) < n - 1}
Bottom(S, n) == {x \in S : Cardinality({y \in S : Rank[y] < Rank[x]}) < n}
SatSubWraps(a, b) == (a - b) % 2^16
SatSub(a, b) == IF a > b THEN a - b ELSE 0

\* The cost in the PriorityId a key is scheduled with: a bundle's first key
\* carries the cost of the bundle, the tip transactions cost 0.
MetaCostEach(k) ==
    IF k \in Tx THEN Cost[k]
    ELSE IF \E b \in Bundle : k \in Member[b]
         THEN Cost[CHOOSE b \in Bundle : k \in Member[b]] ELSE 0
MetaCost(k) ==
    IF k \in Tx THEN Cost[k]
    ELSE IF \E b \in Bundle : k = First[b]
         THEN Cost[CHOOSE b \in Bundle : k = First[b]] ELSE 0

CanLockIgnoresReaders(k) == \A a \in Writes[k] \cup Reads[k] : writers[a] = {}
CanLock(k) ==
    /\ \A a \in Writes[k] : writers[a] = {} /\ readers[a] = {}
    /\ \A a \in Reads[k] : writers[a] = {}

\* AccountLockers::insert asserts that the key is new.
LockFree(K) == \A k \in K : /\ \A a \in Writes[k] : k \notin writers[a]
                            /\ \A a \in Reads[k] : k \notin readers[a]
LockWritesOnly(K) ==
    /\ writers' = [a \in Account |-> writers[a] \cup {k \in K : a \in Writes[k]}]
    /\ UNCHANGED readers
Lock(K) ==
    /\ writers' = [a \in Account |-> writers[a] \cup {k \in K : a \in Writes[k]}]
    /\ readers' = [a \in Account |-> readers[a] \cup {k \in K : a \in Reads[k]}]

\* AccountLockers::remove asserts that the key holds the lock.
LockHeld(k) == /\ \A a \in Writes[k] : k \in writers[a]
               /\ \A a \in Reads[k] : k \in readers[a]
UnlockWritersOnly(k) ==
    /\ writers' = [a \in Account |->
                     IF a \in Writes[k] THEN writers[a] \ {k} ELSE writers[a]]
    /\ UNCHANGED readers
Unlock(k) ==
    /\ writers' = [a \in Account |->
                     IF a \in Writes[k] THEN writers[a] \ {k} ELSE writers[a]]
    /\ readers' = [a \in Account |->
                     IF a \in Reads[k] THEN readers[a] \ {k} ELSE readers[a]]

pending_len == Cardinality(checked_tx) + Cardinality(executing_tx)
               + Cardinality(deferred_tx)

\* is_retryable keeps seven of the not_included reasons, ACCOUNT_IN_USE among
\* them; NONE and every other reason is final.
Reason == {"none", "in_use", "limit", "fatal"}
is_retryable(reason) == reason \in {"in_use", "limit"}

(***************************************************************************)
(* The bridge's store.  The bridge answers nothing for a dropped key.      *)
(***************************************************************************)
Drop(K) ==
    /\ life' = [k \in Key |-> IF k \in K THEN "dropped" ELSE life[k]]
    /\ checking' = [k \in Tx |-> IF k \in K THEN 0 ELSE checking[k]]
Admit(K) == life' = [k \in Key |-> IF k \in K THEN "live" ELSE life[k]]

\* An internal assertion: its failure ends the process.
Asserts(cond) == panic' = IF cond THEN "none" ELSE "assert"
Panics(site) == /\ panic' = site
                /\ UNCHANGED <<control, clock, store, locks, messages, tipSlot,
                               tip_config, next_recheck, life, bankSlot, expired>>

(***************************************************************************)
(* check_slot_roll.  v is the progress the bridge holds after the drain:   *)
(* a new message, or the old one when none has arrived.                    *)
(***************************************************************************)
View == [slot : Slot, leader : BOOLEAN, progress : Progress \cup {0},
         remaining : Remaining \cup {0}]
OrElse(opt, other) == IF opt # {} THEN opt ELSE other

Drained(v) ==
    \/ v = view
    \/ /\ v.slot \in view.slot..bankSlot /\ v.slot > 0
       /\ v.progress \in Progress /\ v.remaining \in Remaining
NewLeaderAlways(v) == v.leader
NewLeader(v) == v.leader /\ ~was_leader_ready

RollSlotKeepsDeferred(v) ==
    /\ pc = "roll" /\ Drained(v)
    /\ pc' = "drain" /\ view' = v /\ slot' = v.slot
    /\ next_recheck' = IF v.slot # slot THEN OrElse(next_recheck, Highest(checked_tx))
                       ELSE next_recheck
    /\ UNCHANGED <<turn, budget, checked_tx, deferred_tx, unchecked_tx, bundles,
                   checkQ, tip_config, bankSlot, expired>>
\* Deferred transactions return to checked_tx when the slot has changed.
RollSlot(v) ==
    /\ pc = "roll" /\ Drained(v)
    /\ pc' = "drain" /\ view' = v /\ slot' = v.slot
    /\ IF v.slot # slot
       THEN /\ checked_tx' = checked_tx \cup deferred_tx
            /\ deferred_tx' = {}
            /\ next_recheck' = OrElse(next_recheck, Highest(checked_tx'))
       ELSE UNCHANGED <<checked_tx, deferred_tx, next_recheck>>
    /\ UNCHANGED <<turn, budget, unchecked_tx, bundles, checkQ, tip_config, bankSlot, expired>>
RollAsserts(v) == v.slot # slot => checked_tx \cap deferred_tx = {}

CheckSlotRoll(v) ==
    /\ RollSlot(v) /\ ~NewLeader(v)
    /\ was_leader_ready' = (was_leader_ready /\ v.slot = slot)
    /\ Asserts(RollAsserts(v))
    /\ UNCHANGED <<executing_tx, locks, checking, execMsgs, tipSlot, life>>

\* was_leader_ready is read before the roll clears it.  Both transactions of
\* the pair are checked against the locks in flight and not against each
\* other; they go to the first execute worker as two batches.
BecomeTipReceiver(v, p) ==
    /\ RollSlot(v) /\ NewLeader(v) /\ tip_config
    /\ tipSlot[p] = 0
    /\ \A k \in Member[p] : CanLock(k)
    /\ was_leader_ready' = TRUE
    /\ Asserts(RollAsserts(v) /\ LockFree(Member[p])
              /\ Member[p] \cap executing_tx = {})
    /\ Lock(Member[p])
    /\ executing_tx' = executing_tx \cup Member[p]
    /\ execMsgs' = execMsgs \cup
         {[key |-> k, worker |-> 1, until |-> v.slot + 4, from |-> 0] : k \in Member[p]}
    /\ tipSlot' = [tipSlot EXCEPT ![p] = v.slot]
    /\ Admit(Member[p])
    /\ UNCHANGED <<in_flight_cus, checking>>

\* The locks are taken: both transactions are dropped, and not tried again in
\* this slot because was_leader_ready is already set.
TipLocksRefused(v, p) ==
    /\ RollSlot(v) /\ NewLeader(v) /\ tip_config
    /\ tipSlot[p] = 0
    /\ \E k \in Member[p] : ~CanLock(k)
    /\ was_leader_ready' = TRUE
    /\ Asserts(RollAsserts(v))
    /\ tipSlot' = [tipSlot EXCEPT ![p] = v.slot]
    /\ Drop(Member[p])
    /\ UNCHANGED <<executing_tx, locks, execMsgs>>

\* tip_config.unwrap() with no TipConfig received yet.
TipConfigMissing(v) ==
    pc = "roll" /\ Drained(v) /\ NewLeader(v) /\ ~tip_config /\ Panics("tip_config")

\* No progress for progress_timeout.
Disconnected == pc = "roll" /\ Panics("disconnected")

(***************************************************************************)
(* drain_worker_responses: one response a step.  The phase ends with every *)
(* response published so far drained; which ones are published is up to    *)
(* the workers.                                                            *)
(***************************************************************************)
Answered(m) ==
    /\ pc = "drain" /\ m.from > 0 /\ life[m.key] = "live"
    /\ execMsgs' = execMsgs \ {m}
    /\ executing_tx' = executing_tx \ {m.key}
    /\ in_flight_cus' = in_flight_cus - MetaCost(m.key)
    /\ Unlock(m.key)
    /\ UNCHANGED <<control, clock, unchecked_tx, bundles, checkQ, tipSlot,
                   tip_config, next_recheck, bankSlot, expired>>
AnswerAsserts(m) == m.key \in executing_tx /\ LockHeld(m.key)

\* WorkerAction::Unprocessed: the bank is past max_working_slot.
Unprocessed(m) ==
    /\ Answered(m) /\ bankSlot > m.until
    /\ m.key \in executing_tx
    /\ Asserts(AnswerAsserts(m))
    /\ IF m.key \in Tx
       THEN /\ checked_tx' = checked_tx \cup {m.key}
            /\ UNCHANGED <<life, checking>>
       ELSE /\ Drop({m.key})
            /\ UNCHANGED checked_tx
    /\ UNCHANGED deferred_tx

\* on_execute for a bundle or a tip transaction, or a final result.
ExecuteFinal(m, reason) ==
    /\ Answered(m) /\ m.from <= m.until
    /\ m.key \notin Tx \/ ~is_retryable(reason)
    /\ Asserts(AnswerAsserts(m))
    /\ Drop({m.key})
    /\ UNCHANGED <<checked_tx, deferred_tx>>

\* on_execute for a retryable failure in slot at: deferred when it was
\* attempted in the scheduler's slot, unless it was a lock conflict; then one
\* eviction when over capacity and checked_tx has something to evict.
ExecuteRetry(m, reason, at) ==
    LET k == m.key
        defer == at = slot /\ reason # "in_use"
        kept == IF defer THEN checked_tx ELSE checked_tx \cup {k}
        parked == IF defer THEN deferred_tx \cup {k} ELSE deferred_tx
        over == Cardinality(kept) + Cardinality(executing_tx \ {k})
                  + Cardinality(parked) > CheckedCapacity
        evicted == IF over THEN Lowest(kept) ELSE {}
    IN  /\ Answered(m) /\ at \in m.from..bankSlot /\ at <= m.until
        /\ k \in Tx /\ is_retryable(reason)
        /\ Asserts(AnswerAsserts(m) /\ k \notin (IF defer THEN deferred_tx ELSE checked_tx))
        /\ deferred_tx' = parked
        /\ checked_tx' = kept \ evicted
        /\ Drop(evicted)

CheckAnswered(k) ==
    /\ pc = "drain" /\ checking[k] > 0
    /\ UNCHANGED <<control, clock, unchecked_tx, executing_tx, deferred_tx, bundles,
                   locks, checkQ, execMsgs, tipSlot, tip_config, next_recheck,
                   bankSlot, expired>>

\* on_check: the answer to a recheck that changes nothing, because the
\* transaction is executing or deferred, or still checked and still good.
CheckIgnored(k) ==
    /\ CheckAnswered(k)
    /\ k \in executing_tx \cup deferred_tx \cup checked_tx
    /\ checking' = [checking EXCEPT ![k] = @ - 1]
    /\ UNCHANGED <<checked_tx, life, panic>>

CheckFailedAlways(k) ==
    /\ CheckAnswered(k)
    /\ checked_tx' = checked_tx \ {k}
    /\ Drop({k})
    /\ UNCHANGED panic
\* on_check: a failed check, or a first check whose lookup tables name a
\* filtered account.
CheckFailed(k) ==
    /\ CheckAnswered(k)
    /\ k \notin executing_tx \cup deferred_tx
    /\ checked_tx' = checked_tx \ {k}
    /\ Drop({k})
    /\ UNCHANGED panic

\* on_check: a first check that passes.
AtCapacityLate == pending_len > CheckedCapacity
AtCapacity == pending_len >= CheckedCapacity
FirstCheck(k) == CheckAnswered(k) /\ k \notin executing_tx \cup deferred_tx \cup checked_tx
CheckPassedForgets(k) ==
    /\ FirstCheck(k) /\ ~AtCapacity
    /\ checking' = [checking EXCEPT ![k] = @ - 1]
    /\ UNCHANGED <<checked_tx, life, panic>>
CheckPassed(k) ==
    LET evicted == IF AtCapacity THEN Lowest(checked_tx) ELSE {}
    IN  /\ FirstCheck(k)
        /\ AtCapacity => checked_tx # {}
        /\ checked_tx' = (checked_tx \ evicted) \cup {k}
        /\ life' = [j \in Key |-> IF j \in evicted THEN "dropped" ELSE life[j]]
        /\ checking' = [j \in Tx |-> IF j \in evicted THEN 0
                                     ELSE IF j = k THEN checking[j] - 1 ELSE checking[j]]
        /\ UNCHANGED panic
\* pop_first().unwrap() on an empty checked_tx.
EvictCheckedMissing(k) ==
    /\ pc = "drain" /\ checking[k] > 0
    /\ k \notin executing_tx \cup deferred_tx \cup checked_tx
    /\ AtCapacity /\ checked_tx = {}
    /\ Panics("evict_checked")

(***************************************************************************)
(* Ingest: drain_tpu, drop_expired_bundles, drain_jito.                    *)
(***************************************************************************)
Fresh(K) == \A k \in K : life[k] = "fresh"

\* The end of the drain, then drain_tpu and drop_expired_bundles.  arrived is
\* what drain_tpu takes, good the part that parses and passes the filter.  Room
\* is made for counted, the length of the queue before anything is taken: the
\* validator fills it meanwhile, so that more may arrive.
TpuLimit == IF view.leader THEN DrainLeader ELSE DrainFollower
DrainTpuDropExpired(counted, arrived, good) ==
    LET shortfall == SatSub(Cardinality(unchecked_tx) + counted, UncheckedCapacity)
        evicted == Bottom(unchecked_tx, shortfall)
        stale == UNION {Member[b] : b \in bundles \cap expired}
    IN  /\ pc = "drain"
        /\ Fresh(arrived) /\ good \subseteq arrived /\ Cardinality(arrived) <= TpuLimit
        /\ IF shortfall > Cardinality(unchecked_tx)
           THEN Panics("evict_unchecked")
           ELSE /\ pc' = "jito"
                /\ unchecked_tx' = (unchecked_tx \ evicted) \cup good
                /\ bundles' = bundles \ expired
                /\ life' = [k \in Key |->
                              IF k \in good THEN "live"
                              ELSE IF k \in arrived \cup evicted \cup stale THEN "dropped"
                              ELSE life[k]]
                /\ UNCHANGED <<turn, budget, clock, checked_tx, executing_tx,
                               deferred_tx, locks, messages, tipSlot, tip_config,
                               next_recheck, bankSlot, expired, panic>>

\* One message of the Jito channel a step.  BuilderConfig is ignored, and the
\* blockhash only goes into the tip transactions.
JitoTipConfig ==
    /\ pc = "jito" /\ tip_config' = TRUE
    /\ UNCHANGED <<control, clock, store, locks, messages, tipSlot,
                   next_recheck, life, bankSlot, expired, panic>>

OnPacketLate(k, good) ==
    LET full == Cardinality(unchecked_tx) > UncheckedCapacity
        evicted == IF full /\ good THEN Lowest(unchecked_tx) ELSE {}
    IN  /\ pc = "jito" /\ Fresh({k})
        /\ unchecked_tx' = IF good THEN (unchecked_tx \ evicted) \cup {k} ELSE unchecked_tx
        /\ life' = [j \in Key |->
                      IF j = k THEN (IF good THEN "live" ELSE "dropped")
                      ELSE IF j \in evicted THEN "dropped" ELSE life[j]]
        /\ UNCHANGED <<control, clock, checked_tx, executing_tx, deferred_tx, bundles, locks,
                       messages, tipSlot, tip_config, next_recheck, bankSlot, expired, panic>>
\* The test is for the exact capacity: beyond it nothing is evicted.
OnPacket(k, good) ==
    LET full == Cardinality(unchecked_tx) = UncheckedCapacity
        evicted == IF full /\ good THEN Lowest(unchecked_tx) ELSE {}
    IN  /\ pc = "jito" /\ Fresh({k})
        /\ IF full /\ good /\ unchecked_tx = {}
           THEN Panics("evict_unchecked")
           ELSE /\ unchecked_tx' = IF good THEN (unchecked_tx \ evicted) \cup {k}
                                   ELSE unchecked_tx
                /\ life' = [j \in Key |->
                              IF j = k THEN (IF good THEN "live" ELSE "dropped")
                              ELSE IF j \in evicted THEN "dropped" ELSE life[j]]
                /\ UNCHANGED <<control, clock, checked_tx, executing_tx, deferred_tx,
                               bundles, locks, messages, tipSlot, tip_config,
                               next_recheck, bankSlot, expired, panic>>

\* A bundle with one bad transaction is dropped whole.
OnBundle(b, good) ==
    LET full == Cardinality(bundles) = BundleCapacity
        evicted == IF full /\ good THEN Lowest(bundles) ELSE {}
        gone == UNION {Member[e] : e \in evicted}
    IN  /\ pc = "jito" /\ Fresh(Member[b])
        /\ IF full /\ good /\ bundles = {}
           THEN Panics("evict_bundle")
           ELSE /\ bundles' = IF good THEN (bundles \ evicted) \cup {b} ELSE bundles
                /\ life' = [k \in Key |->
                              IF k \in Member[b] THEN (IF good THEN "live" ELSE "dropped")
                              ELSE IF k \in gone THEN "dropped" ELSE life[k]]
                /\ UNCHANGED <<control, clock, unchecked_tx, checked_tx, executing_tx,
                               deferred_tx, locks, messages, tipSlot, tip_config,
                               next_recheck, bankSlot, expired, panic>>

(***************************************************************************)
(* schedule_checks, entered when the Jito channel is empty: unchecked      *)
(* transactions first, then the recheck cursor, which walks down           *)
(* checked_tx and skips what left it.                                      *)
(***************************************************************************)
FromUnchecked == Top(unchecked_tx, BatchSize)
RecheckRoom == SatSub(BatchSize, Cardinality(unchecked_tx))
AtOrBelow(cursor) ==
    {k \in checked_tx \ executing_tx : \E c \in cursor : Rank[k] <= Rank[c]}
FromChecked == Top(AtOrBelow(next_recheck), RecheckRoom)
CheckBatch == FromUnchecked \cup FromChecked
NextCursor ==
    IF RecheckRoom = 0 THEN next_recheck
    ELSE IF Cardinality(FromChecked) < RecheckRoom THEN {}
    ELSE Highest({k \in checked_tx : \A j \in FromChecked : Rank[k] < Rank[j]})
CheckQueueFull == Len(checkQ) >= MaxCheckBatches

ScheduleChecks ==
    /\ pc \in {"jito", "checks"} /\ ~CheckQueueFull /\ CheckBatch # {}
    /\ pc' = "checks"
    /\ checkQ' = Append(checkQ, CheckBatch)
    /\ unchecked_tx' = unchecked_tx \ FromUnchecked
    /\ next_recheck' = NextCursor
    /\ UNCHANGED <<turn, budget, clock, checked_tx, executing_tx, deferred_tx,
                   bundles, locks, checking, execMsgs, tipSlot, tip_config, life,
                   bankSlot, expired, panic>>

(***************************************************************************)
(* schedule_execute.  The percentage is a u8 sum, which wraps.             *)
(***************************************************************************)
BudgetPercentage ==
    LET sum == (view.progress + BlockFillCutoff) % 256
    IN  IF sum < 100 THEN sum ELSE 100
BudgetLimit == (MaxBlockUnits * BudgetPercentage) \div 100
CostUsed == SatSub(MaxBlockUnits, view.remaining) + in_flight_cus

ChecksDoneSpins ==
    /\ pc \in {"jito", "checks"} /\ (CheckQueueFull \/ (CheckBatch = {} /\ next_recheck = {}))
    /\ pc' = IF view.leader THEN "execute" ELSE "roll"
    /\ turn' = 1
    /\ budget' = IF view.leader THEN SatSub(BudgetLimit, CostUsed) ELSE 0
    /\ UNCHANGED <<clock, store, locks, messages, tipSlot, tip_config, next_recheck,
                   life, bankSlot, expired, panic>>
ChecksDoneForgetsInFlight ==
    /\ pc \in {"jito", "checks"} /\ (CheckQueueFull \/ CheckBatch = {})
    /\ next_recheck' = IF CheckQueueFull THEN next_recheck ELSE NextCursor
    /\ pc' = IF view.leader THEN "execute" ELSE "roll"
    /\ turn' = 1
    /\ budget' = IF view.leader THEN SatSub(BudgetLimit, SatSub(MaxBlockUnits, view.remaining))
                 ELSE 0
    /\ UNCHANGED <<clock, store, locks, messages, tipSlot, tip_config, life,
                   bankSlot, expired, panic>>
\* The queue is full or there is nothing to check; an empty batch has used the
\* cursor up.  A leader goes on to schedule_execute.
ChecksDone ==
    /\ pc \in {"jito", "checks"} /\ (CheckQueueFull \/ CheckBatch = {})
    /\ next_recheck' = IF CheckQueueFull THEN next_recheck ELSE NextCursor
    /\ pc' = IF view.leader THEN "execute" ELSE "roll"
    /\ turn' = 1
    /\ budget' = IF view.leader THEN SatSub(BudgetLimit, CostUsed) ELSE 0
    /\ UNCHANGED <<clock, store, locks, messages, tipSlot, tip_config, life,
                   bankSlot, expired, panic>>

WorkerBusy(w) == \E m \in execMsgs : m.worker = w /\ m.from = 0
AtWorker == pc = "execute" /\ turn \in Worker /\ budget > 0
Best == Highest(checked_tx \cup bundles)
KeysOf(x) == IF x \in Bundle THEN Member[x] ELSE {x}
FitsIgnoresCost(x) == \A k \in KeysOf(x) : CanLock(k)
Fits(x) == Cost[x] <= budget /\ \A k \in KeysOf(x) : CanLock(k)

SkipWorker ==
    /\ AtWorker /\ WorkerBusy(turn)
    /\ turn' = turn + 1
    /\ UNCHANGED <<pc, budget, clock, store, locks, messages, tipSlot,
                   tip_config, next_recheck, life, bankSlot, expired, panic>>

\* What scheduling a transaction and scheduling a bundle have in common: the
\* keys of a bundle are checked against the locks in flight, not against each
\* other, and go out as one batch.
Send(x) ==
    /\ AtWorker /\ ~WorkerBusy(turn) /\ x \in Best /\ Fits(x)
    /\ Asserts(LockFree(KeysOf(x)) /\ KeysOf(x) \cap executing_tx = {})
    /\ Lock(KeysOf(x))
    /\ executing_tx' = executing_tx \cup KeysOf(x)
    /\ execMsgs' = execMsgs \cup
         {[key |-> k, worker |-> turn, until |-> view.slot + 1, from |-> 0] : k \in KeysOf(x)}
    /\ budget' = budget - Cost[x]
    /\ in_flight_cus' = in_flight_cus + Cost[x]
    /\ turn' = turn + 1
    /\ UNCHANGED <<pc, clock, unchecked_tx, deferred_tx, checkQ, checking, tipSlot,
                   tip_config, next_recheck, life, bankSlot, expired>>

TryScheduleTransactionKeeps(k) ==
    /\ k \in checked_tx /\ Send(k)
    /\ UNCHANGED <<checked_tx, bundles>>
TryScheduleTransaction(k) ==
    /\ k \in checked_tx /\ Send(k)
    /\ checked_tx' = checked_tx \ {k}
    /\ UNCHANGED bundles

TryScheduleBundleKeeps(b) ==
    /\ b \in bundles /\ Send(b)
    /\ UNCHANGED <<checked_tx, bundles>>
TryScheduleBundle(b) ==
    /\ b \in bundles /\ Member[b] \cap Twice = {} /\ Send(b)
    /\ bundles' = bundles \ {b}
    /\ UNCHANGED checked_tx
\* AccountLockers::insert of an account that the same transaction has locked.
LockedTwice(b) ==
    /\ AtWorker /\ ~WorkerBusy(turn) /\ b \in bundles \cap Best /\ Fits(b)
    /\ Member[b] \cap Twice # {}
    /\ Panics("locked_twice")

\* The loop ends after the last worker, with the budget spent, or when the
\* best candidate does not fit.  A leader restarts a finished recheck.
EndPoll ==
    /\ pc = "execute"
    /\ \/ turn \notin Worker \/ budget = 0
       \/ ~WorkerBusy(turn) /\ \A x \in Best : ~Fits(x)
    /\ pc' = "roll" /\ turn' = 1 /\ budget' = 0
    /\ next_recheck' = OrElse(next_recheck, Highest(checked_tx))
    /\ UNCHANGED <<clock, store, locks, messages, tipSlot, tip_config, life,
                   bankSlot, expired, panic>>

(***************************************************************************)
(* The validator's side, which is not in this repository.                  *)
(***************************************************************************)
CheckWorkerTakes ==
    /\ checkQ # <<>>
    /\ \A k \in Head(checkQ) : checking[k] < MaxTaken
    /\ checkQ' = Tail(checkQ)
    /\ checking' = [k \in Tx |-> IF k \in Head(checkQ) /\ life[k] = "live"
                                 THEN checking[k] + 1 ELSE checking[k]]
    /\ UNCHANGED <<control, clock, store, locks, execMsgs, tipSlot, tip_config,
                   next_recheck, life, bankSlot, expired, panic>>

\* The messages of one batch: a bundle's keys travel together.
BatchOf(m) ==
    {n \in execMsgs : n = m \/ \E b \in Bundle : {n.key, m.key} \subseteq Member[b]}
ExecWorkerTakes(m) ==
    /\ m.from = 0
    /\ execMsgs' = (execMsgs \ BatchOf(m)) \cup
                     {[n EXCEPT !.from = bankSlot] : n \in BatchOf(m)}
    /\ UNCHANGED <<control, clock, store, locks, checkQ, checking, tipSlot,
                   tip_config, next_recheck, life, bankSlot, expired, panic>>

BankAdvances ==
    /\ bankSlot < MaxSlot /\ bankSlot' = bankSlot + 1
    /\ UNCHANGED <<control, clock, store, locks, messages, tipSlot, tip_config,
                   next_recheck, life, expired, panic>>

BundleExpires(b) ==
    /\ b \in bundles \ expired
    /\ expired' = expired \cup {b}
    /\ UNCHANGED <<control, clock, store, locks, messages, tipSlot, tip_config,
                   next_recheck, life, bankSlot, panic>>

(***************************************************************************)
(* The specification.                                                      *)
(***************************************************************************)
Init ==
    /\ pc = "roll" /\ turn = 1 /\ budget = 0
    /\ slot = 0 /\ was_leader_ready = FALSE /\ tip_config = FALSE
    /\ unchecked_tx = {} /\ checked_tx = {} /\ executing_tx = {}
    /\ deferred_tx = {} /\ bundles = {}
    /\ next_recheck = {} /\ in_flight_cus = 0
    /\ writers = [a \in Account |-> {}] /\ readers = [a \in Account |-> {}]
    /\ view = [slot |-> 0, leader |-> FALSE, progress |-> 0, remaining |-> 0]
    /\ life = [k \in Key |-> "fresh"]
    /\ checkQ = <<>> /\ checking = [k \in Tx |-> 0] /\ execMsgs = {}
    /\ bankSlot = 1 /\ expired = {}
    /\ tipSlot = [p \in TipPair |-> 0]
    /\ panic = "none"

Roll ==
    \E v \in View :
        \/ CheckSlotRoll(v)
        \/ \E p \in TipPair : BecomeTipReceiver(v, p) \/ TipLocksRefused(v, p)
        \/ TipConfigMissing(v)
ExecuteAnswer(m) ==
    \/ Unprocessed(m)
    \/ \E reason \in Reason :
        \/ ExecuteFinal(m, reason)
        \/ \E at \in Slot : ExecuteRetry(m, reason, at)
CheckAnswer(k) ==
    CheckIgnored(k) \/ CheckFailed(k) \/ CheckPassed(k) \/ EvictCheckedMissing(k)
Ingest ==
    \/ \E arrived \in SUBSET Tx :
        \E good \in SUBSET arrived, counted \in 0..Cardinality(arrived) :
            DrainTpuDropExpired(counted, arrived, good)
    \/ JitoTipConfig
    \/ \E good \in BOOLEAN :
        (\E k \in Tx : OnPacket(k, good)) \/ (\E b \in Bundle : OnBundle(b, good))
Schedule ==
    \/ ScheduleChecks \/ ChecksDone \/ SkipWorker \/ EndPoll
    \/ \E k \in Tx : TryScheduleTransaction(k)
    \/ \E b \in Bundle : TryScheduleBundle(b) \/ LockedTwice(b)
Scheduler ==
    \/ Roll \/ Disconnected
    \/ \E m \in execMsgs : ExecuteAnswer(m)
    \/ \E k \in Tx : CheckAnswer(k)
    \/ Ingest \/ Schedule
Validator ==
    \/ CheckWorkerTakes \/ BankAdvances
    \/ \E m \in execMsgs : ExecWorkerTakes(m)
    \/ \E b \in Bundle : BundleExpires(b)

\* After a panic the process is gone.
Halted == panic # "none" /\ UNCHANGED vars
Next == (panic = "none" /\ (Scheduler \/ Validator)) \/ Halted
Spec == Init /\ [][Next]_vars

(***************************************************************************)
(* Properties.                                                             *)
(***************************************************************************)
PanicSite == {"none", "assert", "tip_config", "disconnected", "evict_checked",
              "evict_unchecked", "evict_bundle", "locked_twice"}
ExecMsg == [key : Key, worker : Worker, until : Nat, from : Slot]

\* The types of the scheduler's fields and of the messages in flight.
TypeOK ==
    /\ pc \in {"roll", "drain", "jito", "checks", "execute"}
    /\ turn \in 1..(NumExecWorkers + 1) /\ budget \in Nat
    /\ slot \in Slot /\ was_leader_ready \in BOOLEAN /\ tip_config \in BOOLEAN
    /\ unchecked_tx \subseteq Tx /\ checked_tx \subseteq Tx /\ deferred_tx \subseteq Tx
    /\ executing_tx \subseteq Key /\ bundles \subseteq Bundle /\ expired \subseteq Bundle
    /\ next_recheck \subseteq Tx /\ in_flight_cus \in Int
    /\ writers \in [Account -> SUBSET Key] /\ readers \in [Account -> SUBSET Key]
    /\ view \in View /\ view.slot = slot /\ (view.leader => slot > 0) /\ bankSlot \in Slot
    /\ life \in [Key -> {"fresh", "live", "dropped"}]
    /\ checkQ \in Seq(SUBSET Tx) /\ checking \in [Tx -> Nat]
    /\ execMsgs \subseteq ExecMsg
    /\ tipSlot \in [TipPair -> Slot]
    /\ panic \in PanicSite

\* Keys whose first check, or a recheck, has been requested and not answered.
Requested == {k \in Tx : checking[k] > 0 \/ \E i \in DOMAIN checkQ : k \in checkQ[i]}

\* None of the assertions the code makes about its own bookkeeping (inserts
\* that must be new, removes that must find, locks that must be held) ever fails,
\* but for the insert of a lock that a bundle's transaction asks for twice.
AssertionsHold == panic # "assert"

\* The parts of TransactionsAccounted.
OneContainer ==
    /\ unchecked_tx \cap checked_tx = {} /\ unchecked_tx \cap executing_tx = {}
    /\ unchecked_tx \cap deferred_tx = {} /\ checked_tx \cap executing_tx = {}
    /\ checked_tx \cap deferred_tx = {} /\ executing_tx \cap deferred_tx = {}
Held == unchecked_tx \cup checked_tx \cup executing_tx \cup deferred_tx
HeldAreLive == \A k \in Held : life[k] = "live"
NeverLost == \A k \in Tx : life[k] = "live" => k \in Held \cup Requested

\* A transaction is in at most one container, in none once it is dropped, and
\* never lost: a live one is in a container or waits for its first check.
TransactionsAccounted == OneContainer /\ HeldAreLive /\ NeverLost

\* The same for the keys of bundles: live exactly while their bundle waits or
\* they execute; the keys of a waiting bundle are all live.
BundlesAccounted ==
    /\ \A b \in bundles : \A k \in Member[b] : life[k] = "live" /\ k \notin executing_tx
    /\ \A k \in GroupKey : life[k] = "live" =>
          k \in executing_tx \/ \E b \in bundles : k \in Member[b]

\* Every executing key has one request outstanding, and every request is for
\* an executing key: no key runs twice at once, none waits for an answer that
\* will not come.
RequestsMatchExecuting ==
    /\ executing_tx = {m.key : m \in execMsgs}
    /\ \A m, n \in execMsgs : m.key = n.key => m = n

\* in_flight_locks holds the locks of the executing keys and nothing else.
LocksMatchExecuting ==
    \A a \in Account :
        /\ writers[a] = {k \in executing_tx : a \in Writes[k]}
        /\ readers[a] = {k \in executing_tx : a \in Reads[k]}

\* Two requests held by workers at the same time that conflict on an account
\* belong to the same bundle or tip pair.
Conflict(j, k) == Writes[j] \cap (Writes[k] \cup Reads[k]) # {}
SameGroup(j, k) == \E g \in Group : {j, k} \subseteq Member[g]
NoConflictInFlight ==
    \A m, n \in execMsgs : m.key # n.key /\ Conflict(m.key, n.key) => SameGroup(m.key, n.key)

\* The in-flight cost is the cost of the executing keys, however a bundle's cost
\* is charged at once and given back answer by answer: as many units as the keys
\* carry together.
CostUnits(S) == UNION {{k} \X (1..MetaCost(k)) : k \in S}
CostMatchesExecuting == in_flight_cus = Cardinality(CostUnits(executing_tx))

\* The parts of CapacitiesKept.
CheckedBounded ==
    Cardinality(checked_tx) + Cardinality(deferred_tx)
      + Cardinality(executing_tx \cap Tx) <= CheckedCapacity
BundlesBounded == Cardinality(bundles) <= BundleCapacity

\* Single transactions past their first check, deferred and executing ones
\* included, stay within checked_capacity, and bundles within its own, however
\* checks, retries, arrivals and expiry interleave.
CapacitiesKept == CheckedBounded /\ BundlesBounded

\* unchecked_tx outgrows its capacity only by what reaches the TPU queue between
\* drain_tpu's count and its drain.  However much had gathered, drain_tpu keeps no
\* more than the capacity of it and adds at most its limit, and no other step
\* takes a container within its capacity beyond it.
OverfillOnlyByDrain ==
    [][IF pc = "drain" /\ pc' = "jito"
       THEN /\ Cardinality(unchecked_tx \cap unchecked_tx') <= UncheckedCapacity
            /\ Cardinality(unchecked_tx') <= UncheckedCapacity + TpuLimit
       ELSE Cardinality(unchecked_tx) <= UncheckedCapacity
              => Cardinality(unchecked_tx') <= UncheckedCapacity]_vars

\* Making room for arrivals always finds something to evict: the shortfall of
\* drain_tpu never exceeds what unchecked_tx holds, and a full unchecked_tx or
\* bundles is not empty.  Holds when a drain takes at most unchecked_capacity
\* and no capacity is zero.
IngestEvictionsFind == panic \notin {"evict_unchecked", "evict_bundle"}

\* The tip transactions are made at most once for a slot.
TipsOncePerSlot ==
    \A p, q \in TipPair : p # q /\ tipSlot[p] > 0 => tipSlot[p] # tipSlot[q]

\* on_check makes room in checked_tx whenever it is at capacity: its
\* pop_first().unwrap() always finds something to evict.
EvictionFinds == panic # "evict_checked"

\* A step that puts cost in flight keeps what the block has used and what is in
\* flight within the share of the block that its progress allows.
BudgetRespected == [][in_flight_cus' > in_flight_cus => CostUsed' <= BudgetLimit]_vars

(***************************************************************************)
(* The strengthening that makes the safety properties inductive.           *)
(***************************************************************************)
\* An unanswered check is of a key that was admitted and has left unchecked_tx,
\* and the check worker's answers are for live keys.
ChecksTracked ==
    /\ \A k \in Tx : checking[k] > 0 => life[k] = "live" /\ k \notin unchecked_tx
    /\ \A i \in DOMAIN checkQ : \A k \in checkQ[i] : life[k] # "fresh" /\ k \notin unchecked_tx

\* The keys of a tip pair are fresh until the pair is made.
TipKeysFresh ==
    \A p \in TipPair : tipSlot[p] = 0 => \A k \in Member[p] : life[k] = "fresh"

\* Pairs are made in the current slot or before, and was_leader_ready remembers
\* this slot's.
TipsUpToSlot ==
    \A p \in TipPair : tipSlot[p] <= slot /\ (tipSlot[p] = slot /\ slot > 0 => was_leader_ready)

Ownership ==
    /\ TransactionsAccounted /\ BundlesAccounted /\ RequestsMatchExecuting
    /\ ChecksTracked /\ TipKeysFresh
Exclusion == LocksMatchExecuting /\ NoConflictInFlight
TipsTracked == TipsUpToSlot /\ TipsOncePerSlot

\* What is left of the budget of schedule_execute is really left in the block.
BudgetTracked ==
    /\ pc # "execute" => budget = 0
    /\ budget > 0 => CostUsed + budget <= BudgetLimit
Inv == TypeOK /\ Ownership /\ Exclusion /\ TipsTracked /\ BudgetTracked /\ AssertionsHold

(***************************************************************************)
(* Liveness.  The scheduler's thread polls for ever.  Workers take what is *)
(* queued and answer it, and each poll drains every answer published: an   *)
(* answer that could be drained in poll after poll is drained (SF).        *)
(* Progress keeps coming, or check_slot_roll would assert.                 *)
(***************************************************************************)
Poll == panic = "none" /\ (Roll \/ Ingest \/ Schedule)
RollToBank == panic = "none" /\ \E v \in View :
    v.slot = bankSlot /\ (CheckSlotRoll(v) \/ TipConfigMissing(v)
        \/ \E p \in TipPair : BecomeTipReceiver(v, p) \/ TipLocksRefused(v, p))
TakeOf(k) == panic = "none" /\ \E m \in execMsgs : m.key = k /\ ExecWorkerTakes(m)
AnswerOf(k) == panic = "none" /\ \E m \in execMsgs : m.key = k /\ ExecuteAnswer(m)
Fairness ==
    /\ WF_vars(Poll)
    /\ SF_vars(RollToBank)
    /\ WF_vars(panic = "none" /\ CheckWorkerTakes)
    /\ \A k \in Key : WF_vars(TakeOf(k)) /\ SF_vars(AnswerOf(k))
    /\ \A k \in Tx : SF_vars(panic = "none" /\ CheckAnswer(k))
FairSpec == Spec /\ Fairness

Stopped == panic # "none"

\* Every poll comes to its end: no loop of a phase runs for ever.
PollsComplete == []<>(pc = "roll" \/ Stopped)

\* Nothing stays in flight for ever: an executing key is answered, so its locks
\* and its share of the budget come back.
ExecutionsEnd == \A k \in Key : k \in executing_tx ~> (k \notin executing_tx \/ Stopped)

\* A transaction taken out of unchecked_tx is checked or dropped in the end.
FirstCheckAnswered ==
    \A k \in Tx :
        life[k] = "live" /\ k \notin unchecked_tx \cup checked_tx \cup executing_tx \cup deferred_tx
            ~> (k \in checked_tx \/ life[k] = "dropped" \/ Stopped)

\* A deferred transaction comes back when the bank has gone on to a later slot.
DeferredReturns ==
    \A k \in Tx : k \in deferred_tx /\ bankSlot > slot ~> (k \notin deferred_tx \/ Stopped)
=============================================================================
