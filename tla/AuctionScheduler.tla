-------------------------- MODULE AuctionScheduler --------------------------
(***************************************************************************)
(* The auction scheduler                                                   *)
(* (schedulers/auction-batch-scheduler/src/lib.rs), a fork of the batch    *)
(* scheduler with the same containers, the same bridge and the same phases *)
(* of a poll.  What the fork left as it was is named here and taken from   *)
(* BatchScheduler; what it changed is defined here:                        *)
(*                                                                         *)
(*  - locks live in the auction engine's LockManager, whose acquire_locks  *)
(*    refuses a conflicting key and whose release_locks asserts nothing;   *)
(*  - a bundle acquires its locks key by key, so its keys are also tested  *)
(*    against each other;                                                  *)
(*  - a transaction that does not fit is passed over for a lower one;      *)
(*  - the recheck cursor stays on a transaction that has left checked_tx.  *)
(*                                                                         *)
(* Prices and queue depths only feed the surplus that a transaction gets   *)
(* when it arrives.  Scaled stands for whatever surplus they produce, and  *)
(* Rank for the order that follows.                                        *)
(***************************************************************************)
EXTENDS BatchScheduler, Priority

CONSTANTS
    InitTip,          \* the init_tip_distribution key of each pair
    Scaled            \* scaled_surplus of each transaction

ASSUME InitTipAssumption == \A p \in TipPair : InitTip[p] \in Member[p]

\* Not assured by the code for the transactions of bundles, which no check has
\* seen: the lock manager keeps one mode for a key and an account, the last one
\* named, and keys that both write and read an account are left out.
ASSUME OneModeAssumption == \A k \in Key : Writes[k] \cap Reads[k] = {}

ASSUME ScaledAssumption ==
    /\ Scaled \in [Tx -> Float]
    /\ \A j, k \in Tx :
          AuctionPriority(Scaled[j]) < AuctionPriority(Scaled[k]) => Rank[j] < Rank[k]

\* The change_tip_receiver keys.
ChangeTip == UNION {Member[p] \ {InitTip[p]} : p \in TipPair}

\* The priority in the PriorityId a key is scheduled with, and what an answer
\* takes it for.
MetaPriority ==
    [k \in Key |-> IF k \in Tx THEN AuctionPriority(Scaled[k]) ELSE BUNDLE_MARKER]
IsBundle(k) == MetaPriority[k] = BUNDLE_MARKER

(***************************************************************************)
(* The engine's LockManager.  account_locks keeps, for each account, the   *)
(* keys that hold it and how; writers and readers are the two halves.      *)
(***************************************************************************)
TryAcquire(k) == CanLock(k)
Acquire(K) == Lock(K)
Release(k) == Unlock(k)

\* Keys that cannot both be granted their locks.
Excludes(j, k) == Conflict(j, k) \/ Conflict(k, j)

(***************************************************************************)
(* check_slot_roll.  Deferred transactions return through insert_checked,  *)
(* which asserts nothing.                                                  *)
(***************************************************************************)
AuctionSlotRoll(v) ==
    /\ RollSlot(v) /\ ~NewLeader(v)
    /\ was_leader_ready' = (was_leader_ready /\ v.slot = slot)
    /\ UNCHANGED <<executing_tx, locks, checking, execMsgs, tipSlot, life, panic>>

\* What lock() leaves locked of a pair: acquire_locks refuses the second key
\* when it conflicts with the first or with a lock in flight, and lock() does
\* not look at the answer.
Granted(p) ==
    {InitTip[p]} \cup
    {k \in Member[p] : TryAcquire(k) /\ ~Excludes(k, InitTip[p])}

\* Only the first transaction of the pair is tested, and both are sent.
AuctionBecomeTipReceiver(v, p) ==
    /\ RollSlot(v) /\ NewLeader(v) /\ tip_config
    /\ tipSlot[p] = 0
    /\ TryAcquire(InitTip[p])
    /\ was_leader_ready' = TRUE
    /\ Asserts(Member[p] \cap executing_tx = {})
    /\ Acquire(Granted(p))
    /\ executing_tx' = executing_tx \cup Member[p]
    /\ execMsgs' = execMsgs \cup
         {[key |-> k, worker |-> 1, until |-> v.slot + 4, from |-> 0] : k \in Member[p]}
    /\ tipSlot' = [tipSlot EXCEPT ![p] = v.slot]
    /\ Admit(Member[p])
    /\ UNCHANGED <<in_flight_cus, checking>>

AuctionTipRefused(v, p) ==
    /\ RollSlot(v) /\ NewLeader(v) /\ tip_config
    /\ tipSlot[p] = 0
    /\ ~TryAcquire(InitTip[p])
    /\ was_leader_ready' = TRUE
    /\ tipSlot' = [tipSlot EXCEPT ![p] = v.slot]
    /\ Drop(Member[p])
    /\ UNCHANGED <<executing_tx, locks, execMsgs, panic>>

(***************************************************************************)
(* drain_worker_responses.  unlock() releases what the key holds, if any.  *)
(***************************************************************************)
AuctionAnswered(m) ==
    /\ pc = "drain" /\ m.from > 0 /\ life[m.key] = "live"
    /\ execMsgs' = execMsgs \ {m}
    /\ executing_tx' = executing_tx \ {m.key}
    /\ in_flight_cus' = in_flight_cus - MetaCost(m.key)
    /\ Release(m.key)
    /\ UNCHANGED <<control, clock, unchecked_tx, bundles, checkQ, tipSlot,
                   tip_config, next_recheck, bankSlot, expired>>

AuctionUnprocessed(m) ==
    /\ AuctionAnswered(m) /\ bankSlot > m.until
    /\ m.key \in executing_tx
    /\ IF IsBundle(m.key)
       THEN /\ Drop({m.key})
            /\ UNCHANGED checked_tx
       ELSE /\ checked_tx' = checked_tx \cup {m.key}
            /\ UNCHANGED <<life, checking>>
    /\ UNCHANGED <<deferred_tx, panic>>

AuctionExecuteFinal(m, reason) ==
    /\ AuctionAnswered(m) /\ m.from <= m.until
    /\ IsBundle(m.key) \/ ~is_retryable(reason)
    /\ Asserts(m.key \in executing_tx)
    /\ Drop({m.key})
    /\ UNCHANGED <<checked_tx, deferred_tx>>

\* The same rule as in the batch scheduler; the insert into deferred_tx is
\* asserted to be new, the one into checked_tx is not.
AuctionExecuteRetry(m, reason, at) ==
    LET k == m.key
        defer == at = slot /\ reason # "in_use"
        kept == IF defer THEN checked_tx ELSE checked_tx \cup {k}
        parked == IF defer THEN deferred_tx \cup {k} ELSE deferred_tx
        over == Cardinality(kept) + Cardinality(executing_tx \ {k})
                  + Cardinality(parked) > CheckedCapacity
        evicted == IF over THEN Lowest(kept) ELSE {}
    IN  /\ AuctionAnswered(m) /\ at \in m.from..bankSlot /\ at <= m.until
        /\ ~IsBundle(k) /\ is_retryable(reason)
        /\ Asserts(k \in executing_tx /\ (defer => k \notin deferred_tx))
        /\ deferred_tx' = parked
        /\ checked_tx' = kept \ evicted
        /\ Drop(evicted)

AuctionOnExecute(m) ==
    \E reason \in Reason :
        \/ AuctionExecuteFinal(m, reason)
        \/ \E at \in Slot : AuctionExecuteRetry(m, reason, at)

\* on_check is the batch scheduler's, its unwrapped eviction included.
AuctionOnCheck(k) == CheckAnswer(k)

(***************************************************************************)
(* Ingest, as in the batch scheduler: a bundle with a transaction that     *)
(* cannot be inserted, costed or scored, or that is filtered, is dropped   *)
(* whole.                                                                  *)
(***************************************************************************)
AuctionDrainTpu ==
    \E arrived \in SUBSET Tx :
        \E good \in SUBSET arrived, counted \in 0..Cardinality(arrived) :
            DrainTpuDropExpired(counted, arrived, good)
AuctionOnPacket(k) == \E good \in BOOLEAN : OnPacket(k, good)
AuctionOnBundle(b) == \E good \in BOOLEAN : OnBundle(b, good)

(***************************************************************************)
(* schedule_checks.  pop_next reaches the cursor once unchecked_tx is used *)
(* up.  If its transaction is no longer in checked_tx the loop sets the    *)
(* cursor back to it and goes round again, with nothing changed.           *)
(***************************************************************************)
RecheckStuck ==
    RecheckRoom > 0 /\ \E c \in next_recheck : c \notin checked_tx \ executing_tx
RecheckSpins ==
    /\ pc \in {"jito", "checks"} /\ ~CheckQueueFull /\ RecheckStuck
    /\ UNCHANGED vars
AuctionScheduleChecks == ScheduleChecks /\ ~RecheckStuck
AuctionChecksDone == ChecksDone /\ (CheckQueueFull \/ ~RecheckStuck)

(***************************************************************************)
(* schedule_execute.                                                       *)
(***************************************************************************)
\* The transactions try_schedule_transaction may pick from.
FittingIgnoresCost == {k \in checked_tx : TryAcquire(k)}
Fitting == {k \in checked_tx : Cost[k] <= budget /\ TryAcquire(k)}

BundleFitsSeparately(b) ==
    /\ Cost[b] <= budget
    /\ \A k \in Member[b] : TryAcquire(k)
\* Every key of the bundle can be locked, the ones before it being locked.
BundleFits(b) ==
    /\ Cost[b] <= budget
    /\ \A k \in Member[b] : TryAcquire(k)
    /\ \A j, k \in Member[b] : j # k => ~Excludes(j, k)

\* The best transaction is worth at least the best bundle.
TransactionFirst ==
    /\ checked_tx # {}
    /\ \A b \in Highest(bundles) : \A k \in Highest(checked_tx) : Rank[k] >= Rank[b]

\* What this worker is given: the best transaction that fits, or the best
\* bundle if it is worth more or if no transaction fits.
Choice ==
    (IF TransactionFirst THEN Highest(Fitting) ELSE {})
      \cup {b \in Highest(bundles) : BundleFits(b) /\ (TransactionFirst => Fitting = {})}

AuctionSkipWorker == SkipWorker

AuctionSendKeepsBudget(x) ==
    /\ AtWorker /\ ~WorkerBusy(turn) /\ x \in Choice
    /\ Asserts(KeysOf(x) \cap executing_tx = {})
    /\ Acquire(KeysOf(x))
    /\ executing_tx' = executing_tx \cup KeysOf(x)
    /\ execMsgs' = execMsgs \cup
         {[key |-> k, worker |-> turn, until |-> view.slot + 1, from |-> 0] : k \in KeysOf(x)}
    /\ in_flight_cus' = in_flight_cus + Cost[x]
    /\ turn' = turn + 1
    /\ UNCHANGED <<pc, budget, clock, unchecked_tx, deferred_tx, checkQ, checking, tipSlot,
                   tip_config, next_recheck, life, bankSlot, expired>>
AuctionSend(x) ==
    /\ AtWorker /\ ~WorkerBusy(turn) /\ x \in Choice
    /\ Asserts(KeysOf(x) \cap executing_tx = {})
    /\ Acquire(KeysOf(x))
    /\ executing_tx' = executing_tx \cup KeysOf(x)
    /\ execMsgs' = execMsgs \cup
         {[key |-> k, worker |-> turn, until |-> view.slot + 1, from |-> 0] : k \in KeysOf(x)}
    /\ budget' = budget - Cost[x]
    /\ in_flight_cus' = in_flight_cus + Cost[x]
    /\ turn' = turn + 1
    /\ UNCHANGED <<pc, clock, unchecked_tx, deferred_tx, checkQ, checking, tipSlot,
                   tip_config, next_recheck, life, bankSlot, expired>>

AuctionTryTransactionKeeps(k) ==
    /\ k \in checked_tx /\ AuctionSend(k)
    /\ UNCHANGED <<checked_tx, bundles>>
AuctionTryTransaction(k) ==
    /\ k \in checked_tx /\ AuctionSend(k)
    /\ checked_tx' = checked_tx \ {k}
    /\ UNCHANGED bundles

AuctionTryBundleKeeps(b) ==
    /\ b \in bundles /\ AuctionSend(b)
    /\ UNCHANGED <<checked_tx, bundles>>
AuctionTryBundle(b) ==
    /\ b \in bundles /\ AuctionSend(b)
    /\ bundles' = bundles \ {b}
    /\ UNCHANGED checked_tx

AuctionEndPoll ==
    /\ pc = "execute"
    /\ turn \notin Worker \/ budget = 0 \/ (~WorkerBusy(turn) /\ Choice = {})
    /\ pc' = "roll" /\ turn' = 1 /\ budget' = 0
    /\ next_recheck' = OrElse(next_recheck, Highest(checked_tx))
    /\ UNCHANGED <<clock, store, locks, messages, tipSlot, tip_config, life,
                   bankSlot, expired, panic>>

(***************************************************************************)
(* The specification.                                                      *)
(***************************************************************************)
AuctionRoll ==
    \E v \in View :
        \/ AuctionSlotRoll(v)
        \/ \E p \in TipPair : AuctionBecomeTipReceiver(v, p) \/ AuctionTipRefused(v, p)
        \/ TipConfigMissing(v)
AuctionIngest ==
    \/ AuctionDrainTpu \/ JitoTipConfig
    \/ \E k \in Tx : AuctionOnPacket(k)
    \/ \E b \in Bundle : AuctionOnBundle(b)
AuctionSchedule ==
    \/ AuctionScheduleChecks \/ AuctionChecksDone \/ RecheckSpins
    \/ AuctionSkipWorker \/ AuctionEndPoll
    \/ \E k \in Tx : AuctionTryTransaction(k)
    \/ \E b \in Bundle : AuctionTryBundle(b)
AuctionPoll ==
    \/ AuctionRoll \/ Disconnected \/ AuctionIngest \/ AuctionSchedule
    \/ \E m \in execMsgs : AuctionUnprocessed(m) \/ AuctionOnExecute(m)
    \/ \E k \in Tx : AuctionOnCheck(k)

AuctionNext == (panic = "none" /\ (AuctionPoll \/ Validator)) \/ Halted
AuctionSpec == Init /\ [][AuctionNext]_vars

\* The scheduler's thread keeps polling.
AuctionFairSpec ==
    AuctionSpec /\ WF_vars(panic = "none" /\ (AuctionRoll \/ AuctionIngest \/ AuctionSchedule))

(***************************************************************************)
(* Properties of its own; the others are the batch scheduler's.            *)
(***************************************************************************)
\* The lock manager holds no lock of a key that is not executing, and every
\* executing key holds all of its locks, but for the second tip transaction.
LocksOfExecuting ==
    \A a \in Account :
        /\ writers[a] \cup readers[a] \subseteq executing_tx
        /\ \A k \in executing_tx \ ChangeTip :
              (a \in Writes[k] => k \in writers[a]) /\ (a \in Reads[k] => k \in readers[a])

\* A transaction that a worker took too late, so that it comes back unprocessed,
\* is in checked_tx again with the answer: however large its surplus, it is
\* never taken for a bundle and dropped.
UnprocessedReturns ==
    [][\A m \in execMsgs \ execMsgs' :
          m.key \in Tx /\ m.from > m.until => m.key \in checked_tx']_vars

\* Requests that conflict on an account are in flight together only if one of
\* them is a second tip transaction: the keys of a bundle never conflict.
ConflictsOnlyWithTip ==
    \A m, n \in execMsgs :
        m.key # n.key /\ Conflict(m.key, n.key) => {m.key, n.key} \cap ChangeTip # {}
=============================================================================
