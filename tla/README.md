# Verification of sched-archive

sched-archive is an external transaction scheduler for an Agave validator. The
validator hands it transactions, checks and executes what it is told to, and
reports progress; a Jito block engine sends it bundles and packets. This
directory holds TLA+ models of the program, the TLC runs that check them on
small instances and TLAPS proofs of what matters most for every instance.

Short names for files: **B** `schedulers/batch-scheduler/src/lib.rs`, **A**
`schedulers/auction-batch-scheduler/src/lib.rs`, **EN**
`schedulers/auction-batch-scheduler/src/auction_engine.rs`, **J**
`schedulers/common/src/jito/jito_thread.rs`, **IV**
`schedulers/common/src/interval_stream.rs`, **S**
`external-scheduler/src/scheduler_thread.rs`, **MA**
`external-scheduler/src/main.rs`, **EV** and **EM** `model.rs` and `emitter.rs` of
`schedulers/common/src/events`, **SH** `schedulers/common/src/shared.rs`.

## 1. The system

| Component | State | Operations | Talks to |
|---|---|---|---|
| Batch scheduler (B) | `unchecked_tx`, `checked_tx`, `executing_tx`, `deferred_tx`, `bundles`, `in_flight_locks`, `in_flight_cus`, `next_recheck`, slot and leadership | one `poll`: roll the slot and send tip transactions, drain worker answers, ingest TPU transactions, drop expired bundles, drain Jito, send checks, send executions | the bridge, the Jito channel |
| Bridge and validator (external) | key store, progress, a queue per worker | insert, drop, drain, schedule; workers take and answer batches; the bank moves on | the scheduler |
| Auction scheduler (A) | the same containers; locks and queue depths in the engine | the same poll, other locking, scheduling and rechecking | the bridge, the engine, the Jito channel |
| Auction engine (EN) | `LockManager`, queue depths, prices, entropy | acquire, release, queue, dequeue, price, build batches | called by A |
| Jito thread (J), interval stream (IV) | a connection, streams, a blockhash request in progress | connect, ask for the builder config, subscribe, stream, sleep, start over | sends into a bounded channel |
| Scheduler thread and main (S, MA) | threads, cancellation token, exit result | set up, poll until cancelled, await shutdown, report | all threads |
| Events (EV, EM) and the exporter task (S) | a bounded channel, a connection to a log server | emit, drop when full; connect, write, reconnect | the schedulers emit, the log server reads |
| Configuration store, tip program, costs, arguments, protobuf, benches | data | | |

What is hard about it:

* **Order.** Check and execute answers arrive in any order, one by one, after
  the transaction they are about was evicted, deferred, sent or dropped; an
  answer can overtake the progress message of its slot.
* **Bookkeeping over many steps.** One transaction passes through a dozen
  handlers. Four containers, two lock tables, an in-flight cost and the worker
  queues have to agree at every step, and the code asserts it (a failed
  assertion ends the process).
* **Limits.** Three capacities with three ways of evicting, a budget that is
  computed once per poll and spent over several sends, a channel of 1024
  messages with an `unwrap` behind it, an event channel that drops, a `u64`
  priority whose largest value means something else.
* **Several actors.** Workers take batches while a poll sends more; the bank
  moves on meanwhile. Two threads, two async tasks, a signal and an abort race
  at shutdown.
* **Wake-ups and loops.** A recheck cursor, a drain loop and a hand-written
  stream must each make progress.

What makes a component correct: for the schedulers, that no transaction is
lost, leaked, duplicated or run beside one it conflicts with, that budget and
capacities hold, that assertions never fail and that everything in flight comes
back; for the process, that its verdict is true, that set-up finds what it
waits for, and that it ends when told to; for the events, that they tell what
happened to a transaction and that they get out again after a failure. The list of hazards, each at its
line and with the properties aimed at it, is in `PROJECT.json`.

## 2. Modules

| Module | Models |
|---|---|
| `BatchScheduler` | B and, as external code, the bridge, the workers and the bank |
| `TxLifecycle` | the abstract specification: phases a key goes through, whatever the containers |
| `BatchSchedulerRefinement` | the mapping from containers to phases |
| `EventLog` | the events B's handlers emit; extends `BatchScheduler` |
| `Priority` | the priorities of both schedulers and the order of `PriorityId`, as operators |
| `AuctionScheduler` | A and the engine's lock manager; extends `BatchScheduler` and `Priority`, redefining what the fork changed |
| `JitoThread` | J and IV |
| `Process` | S, MA, the scheduler's thread and the Jito thread together |
| `EventExport` | EM's channel and the exporter task of S, composed with `Process` |
| `BatchSchedulerProofs`, `BatchSchedulerOwnership`, `BatchSchedulerExclusion`, `BatchSchedulerBounds` | proofs about `BatchScheduler` |
| `LifecycleProofs` | the refinement of `TxLifecycle` |
| `EventLogProofs` | proofs about `EventLog` |
| `AuctionProofs` | proofs about `Priority` and `AuctionScheduler` |
| `ProcessProofs` | proofs about `Process` and `EventExport` |
| `MCBatchScheduler`, `MCEventLog`, `MCRetryHistory`, `MCAuctionScheduler` | instances for TLC |

### BatchScheduler

`pc` names the phases of one `poll`. The scheduler is a single thread, so a
phase is one step, except where workers can act inside it: answers are drained
one by one and batches are sent one by one. Phases in a row that touch only the
scheduler's own state are one step (`DrainTpuDropExpired`, `ChecksDone`). The
containers have the code's names. `writers` and `readers` are the two halves of
`in_flight_locks`. An `Option` is a set of at most one element. `life` is the
bridge's key store; a key is used once, so a new transaction is a new key.

The validator fills the TPU queue while `drain_tpu` runs. The code makes room for
the length the queue has before the drain (B:459) and then takes up to its limit
(B:481), so `DrainTpuDropExpired` has both: room for `counted`, and the keys that
`arrived`, at least as many. `unchecked_tx` can therefore outgrow its capacity, and
the tests for the exact capacity (B:554) evict nothing while it does; the next
`drain_tpu` takes the excess back. `OverfillOnlyByDrain` says how far this goes.

* *Data kept abstract.* A transaction is its key, its accounts (`Writes`,
  `Reads`), its cost and its rank. `Rank` is injective, because `PriorityId`
  breaks ties by cost and key. The not-included reasons are reduced to four
  classes: included, account in use, another retryable one, a final one.
* *Panics.* Every `assert!` and `unwrap` that concerns state is kept. A failed
  one sets `panic` and the process stops. `AssertionsHold` says the
  bookkeeping ones never fail; the `unwrap` sites have names of their own
  (`tip_config`, `evict_checked`, ...). Transactions of bundles skip the check
  that refuses repeated accounts. The TODO at B:686-687 says that overlapping
  keys of theirs panic. They do when an account is named twice in the same way,
  by the assertion of `AccountLockers::insert` (B:1396): the constant `Twice`
  says which keys do, and sending their bundle is a panic site of its own
  (`LockedTwice`), the one exception to `AssertionsHold`. An account that is both
  written and read does not panic: the key is held in both sets and released
  from both.
* *Arithmetic.* The block share is a `u8` sum and is taken modulo 256. The
  release profile wraps silently; the subtractions of `in_flight_cus` are
  therefore over the integers and `CostMatchesExecuting` says they stay exact.
* *What the bridge is assumed to do:* it answers nothing for a dropped key,
  answers each request once, and gives every worker its batches in order. A
  batch is unprocessed only if the bank is past its `max_working_slot`. These
  follow from how B uses it and are marked external in the map.

Beside some definitions stands a variant with a slip (`CanLockIgnoresReaders`
before `CanLock`). No specification uses it; it is there to show that the
property aimed at that code notices.

### TxLifecycle and the refinement

A key is absent, waiting, ready, running, parked or gone. The abstract
specification says which moves are allowed, that keys which exclude each other
never run together, that one answer moves one running key and makes room for at
most one, and that parked keys become ready exactly when the slot moves.
`BatchSchedulerRefinement` derives the phase of a key from the containers.

### EventLog

A handler of the log is the scheduler's handler together with what it emits:
`log` keeps the last event of every key and `stats` the last `SlotStats`. A step
that moves several keys emits for each of them, and an eviction is a key's last
event. Votes, expired bundles, passed rechecks, tip transactions that are sent
and transactions found filtered after their check are silent in the code and in
the model. `LogTellsPlace` says what a reader of the events may conclude
nevertheless, `LeaderSlotsReported` that the leadership flag in the statistics is
the one of the slot they are about, which the code manages by emitting them in
the middle of `check_slot_roll`.

### Priority

Both schedulers mark the keys of bundles with the priority `u64::MAX` and later
tell a bundle by it (B:430, B:997, A:474, A:1100). `CalculatePriority` and
`AuctionPriority` are the two computations with their saturation and clamping.
Floats are reduced to their integer parts; all that is assumed of `as f64` is
that it rounds monotonically. `AuctionScheduler` uses the result to decide as
the code does (`IsBundle`); `BatchScheduler` tells bundles by their keys, which
the theorem `BatchPriorityBelowMarker` justifies.

### AuctionScheduler

What A left as it was is taken from `BatchScheduler` under a name of its own
(`AuctionOnCheck == CheckAnswer`), after comparing the two sources line by line.
Redefined are: locks that assert nothing, tip transactions of which only the
first is tested, bundles locked key by key, transactions passed over when they
do not fit, and the recheck loop. Prices only feed the surplus a transaction
gets on arrival, so `Scaled` stands for any surplus they produce and `Rank` for an
order that agrees with it.
`Granted` is what the code leaves locked of a tip pair: `acquire_locks` may
refuse the second transaction and nobody looks. The lock properties of this
module therefore state the exception, `ChangeTip`, and hold for everything else:
they do not catch the tip transaction that runs unlocked (section 5), they show
that nothing else suffers from it. The lockers of an account keep one mode for a
key (EN:59-61), so that a transaction which writes and reads an account would hold
only the mode it names last. `OneModeAssumption` leaves such transactions out. The
check refuses them, but nothing does for the transactions of bundles, so the
lock results of this module are about bundles without them.

### JitoThread and Process

`JitoThread` is one future on a single-threaded runtime. `task` says whether it
was woken, runs or is parked, which is what the interval stream is about: a
future that returns pending without having registered anything is not woken.
A run can also end because the runtime makes it yield (`Parks` to `woken`).
`Process` adds main's select, the task that sets up and awaits shutdown, and
the scheduler's thread, whose poll is reduced to its use of the channel and to
whether it panics. With the constant `Auction` a poll may also be caught in
`schedule_checks` for good, as `auction_recheck_spin` shows. A message or a reply
the Jito thread cannot take (J:155, J:228-231, J:251) panics it (`Malformed`).
Aborting a task takes effect where it awaits, dropping the
runtime waits for the blocking tasks that join the threads: both are tokio's
documented behaviour, external to this repository.

### EventExport

The exporter runs beside the threads and tasks of `Process`. Its loop looks at the
cancellation token only at its head and after an event, so it is often found
waiting for an event that never comes; the runtime drops it there. `linked` says
whether a log server is still behind the connection: without one a write fails
sooner or later, and before that disappears. Events are counted, not told apart.

## 3. Runs

| Run | Question | Instance |
|---|---|---|
| `transactions` | Is a transaction lost, leaked, sent twice or run beside a conflict, are tips made twice? | 2 contending transactions, 2 tip pairs, 2 slots, two progress values |
| `capacity` | Do evictions keep the capacities, find what they pop and leak nothing, and do the events tell where everything is? | 3 transactions, one a vote, or 2 bundles, one naming an account twice; a tip pair; every capacity 1; 3 slots |
| `bundles` | Do keys, locks and cost of a bundle stay exact, do the assertions hold, is the budget kept with something in flight and used, and is every step one of `TxLifecycle`? | a bundle that shares an account with itself and with a transaction, or one that can run beside the transaction; a tip pair, 2 workers, 3 slots, a block that is unused or partly used |
| `liveness` | Do polls end, answers come, deferred ones return? | one transaction, a tip pair, 2 slots |
| `auction_transactions` | Does the auction scheduler lose, duplicate, overspend or take a transaction for a bundle? | 2 transactions that can run together, one with a saturated surplus and in contention with a tip pair, 2 workers, two progress values, a block that is unused or partly used, 3 slots |
| `auction_bundles` | Do its locks and its cost follow what executes, does a conflict run? | a lockable bundle, one whose keys conflict, a transaction, a tip pair, 3 slots |
| `process` | Is the verdict true, the builder config first, does shutdown complete, does the exporter stay and reconnect? | both channels of capacity 1, the auction scheduler's loop included |
| `eviction_panic`, `same_slot_retry`, `auction_recheck_spin`, `shutdown_spin`, `blockhash_wakeup` | the disagreements of section 5 | the smallest instance that shows them |

Between them the passing runs take every action of the models. Each property
of a passing run is paired with a slip in the code it is about, under which TLC
finds it violated.

**Bounds.** `MaxSlot` is the number of slots the bank goes through (1 to 3:
`max_working_slot` is one slot ahead of the first leader slot, so three slots
give on-time, late and unprocessed answers, two give retries and deferral). `MaxTaken` bounds the checks of one key held by the check
worker at one time (1); further ones wait in the queue. Capacities of 1 and 2
against two or three transactions make every eviction happen. Keys are not
reused. `capacity` has two bounds of its own: bundles and single transactions
arrive in different behaviours (`OneKind`; `bundles` mixes them), and the third
transaction arrives only in the first slot while nothing executes
(`ThirdEarly`), where it overfills `unchecked_tx` behind a full check queue. In
`bundles` a behaviour has one bundle (`OneBundle`): the one that contends with the
transaction goes through three slots with the whole block left; the one that does
not goes through one slot, where both are in flight together and progress may
report a third of the block as used. In `auction_transactions` the partly used
block is seen in the first slot (`UsedEarly`) and the third slot has one
transaction (`ThirdSlotAlone`). `Twice` is empty but in `capacity`. In `capacity` and
`bundles` the two transactions of a tip pair are interchangeable, which TLC uses as
a symmetry; elsewhere `Rank` or `InitTip` tells keys apart. A channel of capacity 1
in `process` makes the full channel the common case; what the run checks of the
channel's order is proved for every capacity. The words of the auction runs have four bits and
the floats a significand of two, so that the largest priority rounds up to a
float beyond the word as `u64::MAX - 1` does.

**Fairness.**
* `BatchScheduler`, `FairSpec`: the scheduler's thread polls for ever (weak
  fairness of its own steps); workers take what is queued; an answer that can be
  drained in poll after poll is drained (strong fairness: the drain loop goes on
  until the queue is empty); the progress of the bank's slot is seen in the end,
  otherwise `check_slot_roll` asserts after `progress_timeout`.
* `AuctionFairSpec`: only that the thread polls.
* `Process`, `FairSpec`: threads and tasks run, timers fire, an RPC call that
  was made is answered. Nothing says that a signal comes, a connection fails or
  another stream has a message.
* `EventExport`, `ExportFairSpec`, adds: the exporter's awaits return while the
  process lives; a write to a dead peer that is tried again and again fails once
  (TCP gives up); a log server that is tried again and again is up once. Nothing
  says that it stays up.

## 4. Proofs

All theorems hold for every value of the constants under the named assumptions
of the modules: the kinds of keys are disjoint, only keys of bundles name an
account twice (and, for the auction scheduler, none names one in both ways), ranks
are injective, keys are finitely many (but as many
as one likes), costs and capacities are natural numbers, channels have a capacity above zero, rounding is monotone. TLC evaluates the assumptions in
the runs.

* `BatchSchedulerProofs` proves `TypeOK`. `TipsOncePerSlot` needs
  `TipsUpToSlot`: pairs are made in the current slot or before, and
  `was_leader_ready` remembers the current one although it is cleared late.
  `BudgetRespected` needs `BudgetTracked`: what is left of the loop's budget is
  really left in the block, and only sending raises the in-flight cost.
* `BatchSchedulerOwnership` proves `Ownership`. `TransactionsAccounted`,
  `BundlesAccounted` and `RequestsMatchExecuting` depend on each other, and none
  is inductive without `ChecksTracked` (an unanswered check is of a key that was
  admitted and has left `unchecked_tx`) and `TipKeysFresh` (a pair's keys are
  fresh until it is made). One lemma proves each shape of step (admission,
  check, send, answer, roll) for arbitrary sets of keys, and an action's lemma
  says which sets they are.
* `BatchSchedulerExclusion` proves, from ownership, `LocksMatchExecuting` and
  `Apart` (executing keys that conflict are of one group) together: a key that
  passes `CanLock` conflicts with none whose locks are recorded. From both
  follow `NoConflictInFlight` and `AssertionsHold`, that is, none of B's
  assertions about containers and locks can fail, except when a bundle with a
  key of `Twice` is sent. Keys that write and read one account are included.
* `BatchSchedulerBounds` proves `CheckedBounded` and `BundlesBounded`, together
  `CapacitiesKept`, and `OverfillOnlyByDrain`, `IngestEvictionsFind` and
  `CostMatchesExecuting`. For the first, what is past its check is one set
  (`Pending`: ownership makes its three containers disjoint), and every eviction
  at capacity removes exactly one key, since ranks are injective. The second is
  the same argument for one container. For the third, `drain_tpu` evicts the
  shortfall, which is at least the excess over the capacity, and the lowest n of a
  set with at least n elements are n (`BottomHolds`: ranks within the set number it
  without a gap); no other step lets a container that is not overfull become so.
  The fourth holds when a drain takes at most `unchecked_capacity` and no capacity
  is zero; the theorem states this as its hypothesis, because the code does not
  enforce it. For the fifth, a sum of costs over a set of keys is stated as the
  number of its units (`CostUnits`): charging keys adds disjoint units and an answer
  takes those of one key away, so that the cardinality theorems do what an induction
  over the set would.
* `LifecycleProofs` proves `ImplementsLifecycle`: an initial state maps to an
  initial one, and a step to one move of `TxLifecycle` or to none. The mapping is
  a function because ownership puts a key in one container; that keys which
  exclude each other never run together comes from the locks. A lemma per kind
  of step (ingest, check, send, answer, roll) names the move.
* `EventLogProofs` proves `LogTellsPlace` and `LeaderSlotsReported`. A log behaves as
  the scheduler does (`LogRefines`), so that ownership may be used. The first needs
  `PhaseLogged`: for every phase of a key, the events it may have last emitted,
  silent moves included. The second needs `StatsTracked`: statistics are about an
  earlier slot, and a set `was_leader_ready` means that the current slot has its
  pair.
* `AuctionProofs` proves first that neither computation yields the marker, for
  every word size and float format: a float below the rounded bound is below the
  bound itself, by the contrapositive of monotone rounding. `PriorityIdOrdered` is
  what the injective `Rank` of the other modules rests on. From the marker follows
  `UnprocessedReturns`: a late answer (`from > until`) can only be an unprocessed
  one, and its handler returns the transaction to `checked_tx`.
  Then it carries the batch scheduler's results over. `StepKinds` says that every
  step of the fork is one of its own (tips, sending, answers, the end of a poll) or a step
  of `BatchScheduler` that touches no lock, so its lemmas apply as they are. For the steps
  of its own, the shape lemmas of ownership are used with the sets the fork
  moves. This gives `TransactionsAccounted`, `BundlesAccounted`,
  `RequestsMatchExecuting`, `AssertionsHold`, `BudgetRespected`,
  `CostMatchesExecuting`, `CapacitiesKept`,
  `OverfillOnlyByDrain`, `IngestEvictionsFind` and `TipsOncePerSlot` of the auction
  scheduler. `LocksOfExecuting` and `ConflictsOnlyWithTip` are proved together
  (`AuctionLocked`): a key holds no lock it did not ask for, and what executes is
  apart from everything but a second tip transaction.
* `ProcessProofs` proves one invariant: a thread that ended without a panic was
  told to; until `await_shutdown` has left its select only a signal cancels;
  `exit` is true of the threads; during set-up the channel is empty or begins
  with the builder config, and the Jito thread streams only in the second case.
  `TypeOK`, `BuilderConfigFirst`, `DisconnectMeansPanic`, `VerdictTrue` and
  `FirstErrorKept` follow. The invariant is split into a control half and a
  channel half so that reasoning about sequences stays in a few lemmas. The
  exporter's steps leave the process alone (`ExportRefines`), so that the
  safety properties hold beside it too; `ExporterOutlasts` needs that main leaves
  only once the token is cancelled.

Only model-checked is liveness (`PollsComplete`, `ExecutionsEnd`,
`FirstCheckAnswered`, `DeferredReturns`, `ShutdownCompletesOrSpins`,
`ExporterReconnects`): fairness is out of the prover's reach. Only proved is that the
first error is kept (`FirstErrorKept`). Every invariant and
action property of the passing runs is also a theorem.

## 5. What disagrees with the code's own words

1. `eviction_panic`: `on_check` evicts with `pop_first().unwrap()` at a capacity
   that also counts executing and deferred keys; with `checked_tx` empty it
   panics (B:935; A:1038 is the same).
2. `same_slot_retry`: an answer that overtakes the progress message of its slot
   is retried at once in the slot it was attempted in (B:1005).
3. `auction_recheck_spin`: a cursor on a transaction that has left `checked_tx` is
   put back, and `schedule_checks` never ends (A:845).
4. `shutdown_spin`: `drain_jito` does not leave its loop on a disconnected channel,
   so a shutdown at that moment never completes (B:533, A:581). The run
   `process` shows that this is the only obstacle for the batch scheduler, and that
   the auction scheduler has one more, the loop of item 3.
5. `blockhash_wakeup`: a due tick makes a request that nothing polls until another
   stream wakes the task (IV:50).

Without a run of their own: the second tip transaction of the auction scheduler
runs without its locks when they are refused (A:422, against the comment at
A:420; the exception in `ConflictsOnlyWithTip`), and queue depths are raised twice
and lowered once for a transaction that executes (A:1190), so that they count
transactions that are gone until they decay. The comment on `unlock` says "Panics
if the transaction doesn't hold the expected locks." (A:1349), but neither it nor
the lock manager asserts anything; that the locks of what executes are held is
what `LocksOfExecuting` says instead. The comment in `drain_tpu` that "we are
evicting more than we need to" (B:463) is not always so: when the queue fills after
it was counted, too little is evicted.

## 6. Not modelled

* `set_runtime_config` and `update_base_prices`: nothing in the repository calls
  them with another configuration. A capacity lowered at run time would reach
  the `== capacity` tests of `on_packet` and `on_bundle`.
* Queue depths, prices, entropy and compute-unit allocation of the engine:
  floating point, and they only order transactions. The remaining compute units
  of A:1364 are computed and ignored by their only reader. The engine's
  batch-building functions: nothing calls them.
* Metrics, and the counters of `SlotStats` besides `was_leader_ready`: no decision
  reads them.
* The configuration store: the scheduler reads it at every poll, but nothing
  writes to it after start-up. The tip program (pure encoding), costs (a pure
  estimate), arguments, protobuf, benches.
* Which flags of a check fail together (B:872) is the validator's doing; the
  model has one kind of failed check. Bundles have a first key, since the Jito
  thread filters out the empty ones (J:254).

## 7. Plan

Order of work so far: the batch scheduler with its proofs, the abstract
lifecycle, the auction scheduler as a variant, the process, the events inside
the scheduler and on their way out, the priorities; then the refinement, the
capacities, the event log, the auction scheduler and the exporter as theorems.
Next:

1. the share of the block as a theorem about numbers: what `BudgetPercentage` allows
   when the `u8` sum does not wrap, so that `BudgetRespected` bounds the block;
2. run-time reconfiguration as an action of the schedulers, once something
   writes the configuration store.
