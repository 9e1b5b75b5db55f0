--------------------------- MODULE EventLogProofs ----------------------------
(***************************************************************************)
(* The events and the slot statistics tell the truth for every value of    *)
(* the constants.                                                          *)
(*                                                                         *)
(* EventLog only adds to the steps of BatchScheduler, so its invariants    *)
(* are those of BatchScheduler and more.  What the last event of a key may *)
(* be depends on the phase TxLifecycle gives it (PhaseLogged), and the     *)
(* phases a step moves keys between are known from LifecycleProofs.        *)
(***************************************************************************)
EXTENDS EventLog, LifecycleProofs

\* EventLog adds to the batch scheduler's steps and takes none away.
LEMMA LogRefines == LogSpec => Spec
<1>1. LogInit => Init
  BY DEF LogInit
<1>2. [LogNext]_logVars => [Next]_vars
  <2>1. LoggedScheduler => Scheduler
    BY DEF LoggedScheduler, LoggedRoll, LoggedUnprocessed, LoggedExecute, LoggedCheck,
           LoggedIngest, LoggedSchedule, Scheduler, ExecuteAnswer, CheckAnswer
  <2>2. LogNext => Next
    BY <2>1 DEF LogNext, Next
  <2>3. UNCHANGED logVars => UNCHANGED vars
    BY DEF logVars
  <2> QED BY <2>2, <2>3
<1> QED BY <1>1, <1>2, PTL DEF LogSpec, Spec

(***************************************************************************)
(* SlotStats.  A SlotStats is of a slot that has ended, so no pair is made *)
(* in that slot any more; and was_leader_ready is set exactly when the     *)
(* current slot has its pair.                                              *)
(***************************************************************************)
StatsTracked ==
    /\ stats \in [slot : Nat, ready : BOOLEAN]
    /\ stats.slot > 0 => stats.slot < slot
    /\ was_leader_ready => \E p \in TipPair : tipSlot[p] = slot

\* The slots of the tip pairs after check_slot_roll.
LEMMA RollTips ==
    ASSUME TypeOK, NEW v \in View,
           \/ CheckSlotRoll(v)
           \/ \E p \in TipPair : BecomeTipReceiver(v, p) \/ TipLocksRefused(v, p)
    PROVE  /\ slot \in Nat /\ slot' \in Nat /\ slot <= slot'
           /\ \A p \in TipPair : \/ tipSlot'[p] = tipSlot[p]
                                 \/ tipSlot[p] = 0 /\ tipSlot'[p] = slot'
           /\ was_leader_ready' => \/ was_leader_ready /\ slot' = slot /\ tipSlot' = tipSlot
                                   \/ \E p \in TipPair : tipSlot'[p] = slot'
<1>1. RollSlot(v)
  BY DEF CheckSlotRoll, BecomeTipReceiver, TipLocksRefused
<1>2. slot \in Nat /\ slot' \in Nat /\ slot <= slot' /\ slot' = v.slot
  BY <1>1, SlotForward DEF RollSlot
<1>3. CASE CheckSlotRoll(v)
  <2>1. tipSlot' = tipSlot /\ (was_leader_ready' => was_leader_ready /\ slot' = slot)
    BY <1>3, <1>2 DEF CheckSlotRoll
  <2> QED BY <2>1, <1>2
<1>4. ASSUME NEW p \in TipPair, BecomeTipReceiver(v, p) \/ TipLocksRefused(v, p)
      PROVE  /\ \A q \in TipPair : \/ tipSlot'[q] = tipSlot[q]
                                   \/ tipSlot[q] = 0 /\ tipSlot'[q] = slot'
             /\ \E q \in TipPair : tipSlot'[q] = slot'
  <2>1. tipSlot[p] = 0 /\ tipSlot' = [tipSlot EXCEPT ![p] = slot'] /\ tipSlot \in [TipPair -> Slot]
    BY <1>2, <1>4 DEF BecomeTipReceiver, TipLocksRefused, TypeOK
  <2>2. tipSlot'[p] = slot' /\ \A q \in TipPair : q # p => tipSlot'[q] = tipSlot[q]
    BY <2>1
  <2> QED BY <2>1, <2>2
<1> QED BY <1>2, <1>3, <1>4

\* A step of check_slot_roll and the SlotStats it emits.
LEMMA StatsRoll ==
    ASSUME TypeOK, TipsTracked, StatsTracked, LeaderSlotsReported, LoggedRoll
    PROVE  StatsTracked' /\ LeaderSlotsReported'
<1>1. CASE \E v \in View : TipConfigMissing(v)
  <2>1. UNCHANGED <<slot, was_leader_ready, tipSlot>>
    BY <1>1 DEF TipConfigMissing, Panics, clock
  <2>2. stats' = stats
    BY <2>1 DEF LoggedRoll
  <2> QED BY <2>1, <2>2 DEF StatsTracked, LeaderSlotsReported
<1>2. ASSUME NEW v \in View,
             \/ CheckSlotRoll(v)
             \/ \E p \in TipPair : BecomeTipReceiver(v, p) \/ TipLocksRefused(v, p)
      PROVE  StatsTracked' /\ LeaderSlotsReported'
  <2>1. /\ slot \in Nat /\ slot' \in Nat /\ slot <= slot'
        /\ \A p \in TipPair : tipSlot'[p] = tipSlot[p] \/ (tipSlot[p] = 0 /\ tipSlot'[p] = slot')
        /\ was_leader_ready' => \/ was_leader_ready /\ slot' = slot /\ tipSlot' = tipSlot
                                \/ \E p \in TipPair : tipSlot'[p] = slot'
    BY <1>2, RollTips
  <2>2. was_leader_ready' => \E p \in TipPair : tipSlot'[p] = slot'
    BY <2>1 DEF StatsTracked
  <2>3. ASSUME NEW s \in Nat, s > 0, s < slot'
        PROVE  (\E p \in TipPair : tipSlot'[p] = s) <=> \E p \in TipPair : tipSlot[p] = s
    BY <2>1, <2>3
  <2>4. stats' = IF slot' # slot /\ slot # 0 THEN SlotStats ELSE stats
    BY DEF LoggedRoll
  <2>5. CASE slot' # slot /\ slot # 0
    <3>1. stats' = [slot |-> slot, ready |-> was_leader_ready]
      BY <2>4, <2>5 DEF SlotStats
    <3>2. slot > 0 /\ slot < slot' /\ was_leader_ready \in BOOLEAN
      BY <2>1, <2>5 DEF TypeOK
    <3>3. was_leader_ready <=> \E p \in TipPair : tipSlot[p] = slot
      BY <3>2 DEF StatsTracked, TipsTracked, TipsUpToSlot
    <3>4. was_leader_ready <=> \E p \in TipPair : tipSlot'[p] = slot
      BY <3>2, <3>3, <2>3, <2>1
    <3>5. stats'.slot = slot /\ stats'.ready = was_leader_ready
          /\ stats' \in [slot : Nat, ready : BOOLEAN]
      BY <3>1, <3>2, <2>1
    <3> QED BY <3>2, <3>4, <3>5, <2>2 DEF StatsTracked, LeaderSlotsReported
  <2>6. CASE ~(slot' # slot /\ slot # 0)
    <3>1. stats' = stats /\ stats.slot \in Nat /\ (stats.slot > 0 => stats.slot < slot)
      BY <2>4, <2>6 DEF StatsTracked
    <3>2. stats.slot > 0 => stats.slot < slot'
      BY <3>1, <2>1
    <3>3. StatsTracked'
      BY <3>1, <3>2, <2>2 DEF StatsTracked
    <3> QED BY <3>1, <3>2, <3>3, <2>3 DEF LeaderSlotsReported
  <2> QED BY <2>5, <2>6
<1> QED BY <1>1, <1>2 DEF LoggedRoll, Roll

\* Every step.
LEMMA StatsStep ==
    ASSUME TypeOK, TipsTracked, StatsTracked, LeaderSlotsReported, [LogNext]_logVars
    PROVE  StatsTracked' /\ LeaderSlotsReported'
<1>1. CASE LoggedRoll
  BY <1>1, StatsRoll
<1>2. CASE LogNext /\ ~LoggedRoll
  <2>1. UNCHANGED stats
    BY <1>2 DEF LogNext, LoggedScheduler
  <2>2. UNCHANGED <<slot, was_leader_ready, tipSlot>>
    <3>1. ASSUME NEW site, Panics(site) PROVE UNCHANGED <<slot, was_leader_ready, tipSlot>>
      BY <3>1 DEF Panics, clock
    <3>2. ASSUME NEW m, LoggedUnprocessed(m) \/ LoggedExecute(m)
          PROVE  UNCHANGED <<slot, was_leader_ready, tipSlot>>
      BY <3>2 DEF LoggedUnprocessed, LoggedExecute, Unprocessed, ExecuteFinal, ExecuteRetry,
                  Answered, clock
    <3>3. ASSUME NEW k, LoggedCheck(k) PROVE UNCHANGED <<slot, was_leader_ready, tipSlot>>
      BY <3>1, <3>3 DEF LoggedCheck, CheckIgnored, CheckFailed, CheckPassed, FirstCheck,
                        CheckAnswered, EvictCheckedMissing, clock
    <3>4. ASSUME LoggedIngest PROVE UNCHANGED <<slot, was_leader_ready, tipSlot>>
      BY <3>1, <3>4 DEF LoggedIngest, Ingest, DrainTpuDropExpired, JitoTipConfig, OnPacket,
                        OnBundle, clock
    <3>5. ASSUME LoggedSchedule PROVE UNCHANGED <<slot, was_leader_ready, tipSlot>>
      BY <3>1, <3>5 DEF LoggedSchedule, Schedule, ScheduleChecks, ChecksDone, SkipWorker,
                        EndPoll, Send, TryScheduleTransaction, TryScheduleBundle, LockedTwice,
                        clock
    <3>6. ASSUME Validator PROVE UNCHANGED <<slot, was_leader_ready, tipSlot>>
      BY <3>6 DEF Validator, CheckWorkerTakes, BankAdvances, ExecWorkerTakes, BundleExpires,
                  clock
    <3>7. ASSUME Halted PROVE UNCHANGED <<slot, was_leader_ready, tipSlot>>
      BY <3>7, GroupsOfVars DEF Halted
    <3> QED BY <1>2, <3>1, <3>2, <3>3, <3>4, <3>5, <3>6, <3>7
               DEF LogNext, LoggedScheduler, Disconnected
  <2> QED BY <2>1, <2>2 DEF StatsTracked, LeaderSlotsReported
<1>3. CASE UNCHANGED logVars
  BY <1>3, GroupsOfVars DEF logVars, StatsTracked, LeaderSlotsReported
<1> QED BY <1>1, <1>2, <1>3

\* SlotStats names a slot as a leader slot exactly when its tip transactions were
\* made, in every run: was_leader_ready is read for it before the roll clears it.
THEOREM LeaderSlotsCorrect == LogSpec => []LeaderSlotsReported
<1>1. LogInit => StatsTracked /\ LeaderSlotsReported
  BY DEF LogInit, Init, StatsTracked, LeaderSlotsReported
<1>2. TypeOK /\ TipsTracked /\ StatsTracked /\ LeaderSlotsReported /\ [LogNext]_logVars
        => StatsTracked' /\ LeaderSlotsReported'
  BY StatsStep
<1> QED BY <1>1, <1>2, LogRefines, TypeCorrect, TipsInvariant, PTL DEF LogSpec

(***************************************************************************)
(* Events.                                                                 *)
(***************************************************************************)
\* What the last event of a key may be, phase by phase.  A transaction or bundle
\* that nobody has seen has none.
TxLogged(k) ==
    /\ phase[k] = "absent" => log[k] = "none"
    /\ phase[k] = "waiting" => log[k] = "ingest"
    /\ phase[k] = "ready" => log[k] \in {"check_ok", "err", "unprocessed"}
    /\ phase[k] = "running" => log[k] = "req"
    /\ phase[k] = "parked" => log[k] = "err"
    /\ phase[k] = "gone" => log[k] \in {"none", "ingest", "check_err", "ok", "err", "evict"}
BundleKeyLogged(k) ==
    /\ phase[k] = "absent" => log[k] = "none"
    /\ phase[k] = "ready" => log[k] = "ingest"
    /\ phase[k] = "running" => log[k] = "req"
TipKeyLogged(k) ==
    /\ phase[k] \in {"absent", "running", "gone"}
    /\ phase[k] # "gone" => log[k] = "none"
    /\ phase[k] = "gone" => log[k] \in {"none", "ok", "err"}
PhaseLogged ==
    /\ \A k \in Reported : TxLogged(k)
    /\ \A k \in BundleKey : BundleKeyLogged(k)
    /\ \A k \in TipKey : TipKeyLogged(k)
    /\ VotesSilent

\* The kinds of keys are disjoint.
LEMMA KeyKinds ==
    /\ Reported \subseteq Tx /\ Vote \subseteq Tx /\ Reported \cap Vote = {}
    /\ BundleKey \subseteq GroupKey /\ TipKey \subseteq GroupKey
    /\ BundleKey \cap TipKey = {}
    /\ Tx \subseteq Key /\ GroupKey \subseteq Key /\ Tx \cap GroupKey = {}
<1>1. BundleKey \cap TipKey = {}
  BY KeyFacts DEF BundleKey, TipKey
<1> QED BY <1>1, KeyFacts, VoteAssumption DEF Reported, BundleKey, TipKey

\* A live key that is dropped leaves its phase for "gone", and so on.
LEMMA LifeOfPhase ==
    ASSUME TypeOK, TypeOK', NEW k \in Key
    PROVE  /\ phase[k] = "absent" <=> life[k] = "fresh"
           /\ phase[k] = "gone" <=> life[k] = "dropped"
           /\ phase'[k] = "absent" <=> life'[k] = "fresh"
           /\ phase'[k] = "gone" <=> life'[k] = "dropped"
<1>1. life[k] \in {"fresh", "live", "dropped"} /\ life'[k] \in {"fresh", "live", "dropped"}
  BY DEF TypeOK
<1> QED BY <1>1, PhaseValues

\* After a step as before it, a tip key has not been made, executes or is gone: it
\* is made and started in one step, and never returns.
LEMMA TipPhases ==
    ASSUME TypeOK', Ownership', NEW k \in TipKey
    PROVE  phase'[k] \in {"absent", "running", "gone"}
<1>1. k \in GroupKey /\ k \in Key /\ \A b \in bundles' : k \notin Member[b]
  BY KeyFacts DEF TipKey, TypeOK
<1>2. life'[k] = "live" => k \in executing_tx'
  BY <1>1 DEF Ownership, BundlesAccounted
<1>3. life'[k] \in {"fresh", "live", "dropped"}
  BY <1>1 DEF TypeOK
<1> QED BY <1>1, <1>2, <1>3, PhaseValues

\* A single transaction that this step throws out.
ThrownOut(k) == k \in Tx /\ phase[k] \notin {"absent", "gone"} /\ phase'[k] = "gone"

\* What EmitAndEvict does to the last event of each key.
LEMMA EvictLogs ==
    ASSUME TypeOK, TypeOK', NEW K, NEW event, EmitAndEvict(K, event, Removed), NEW k \in Key
    PROVE  /\ k \in Vote => log'[k] = log[k]
           /\ k \notin Vote /\ ThrownOut(k) => log'[k] = "evict"
           /\ k \notin Vote /\ ~ThrownOut(k) /\ k \in K => log'[k] = event
           /\ ~ThrownOut(k) /\ k \notin K => log'[k] = log[k]
<1>1. life[k] \in {"fresh", "live", "dropped"}
  BY DEF TypeOK
<1>2. k \in Removed <=> ThrownOut(k)
  BY <1>1, LifeOfPhase, KeyFacts DEF Removed, ThrownOut
<1> QED BY <1>2 DEF EmitAndEvict

\* What Emit does.
LEMMA EmitLogs ==
    ASSUME NEW K, NEW event, Emit(K, event), NEW k \in Key
    PROVE  log'[k] = IF k \in K \ Vote THEN event ELSE log[k]
BY DEF Emit

\* A step that moves no key and says nothing.
LEMMA LogQuiet ==
    ASSUME PhaseLogged, \A k \in Key : log'[k] = log[k] /\ phase'[k] = phase[k]
    PROVE  PhaseLogged'
BY KeyKinds DEF PhaseLogged, TxLogged, BundleKeyLogged, TipKeyLogged, VotesSilent

\* drain_tpu, drop_expired_bundles and drain_jito.
LEMMA LogIngest ==
    ASSUME TypeOK, TypeOK', Ownership, Ownership', PhaseLogged, LoggedIngest
    PROVE  PhaseLogged'
<1>1. \A k \in Key :
        /\ k \in Vote => log'[k] = log[k]
        /\ k \notin Vote /\ ThrownOut(k) => log'[k] = "evict"
        /\ k \notin Vote /\ ~ThrownOut(k) /\ k \in Added => log'[k] = "ingest"
        /\ ~ThrownOut(k) /\ k \notin Added => log'[k] = log[k]
  BY EvictLogs DEF LoggedIngest
<1>2. \A k \in Key : k \in Added <=> phase[k] = "absent" /\ phase'[k] \notin {"absent", "gone"}
  <2> SUFFICES ASSUME NEW k \in Key
               PROVE  k \in Added <=> phase[k] = "absent" /\ phase'[k] \notin {"absent", "gone"}
    OBVIOUS
  <2>1. life'[k] \in {"fresh", "live", "dropped"}
    BY DEF TypeOK
  <2> QED BY <2>1, LifeOfPhase DEF Added
<1>3. CASE UNCHANGED L!vars
  <2>1. phase' = phase
    BY <1>3 DEF L!vars
  <2>2. \A k \in Key : log'[k] = log[k]
    BY <2>1, <1>1, <1>2 DEF ThrownOut
  <2> QED BY <2>1, <2>2, LogQuiet
<1>4. CASE L!Ingest
  <2>1. \A k \in Key :
          phase'[k] # phase[k] =>
            \/ phase[k] = "absent" /\ phase'[k] \in {"waiting", "ready", "gone"}
            \/ phase[k] \in {"waiting", "ready"} /\ phase'[k] = "gone"
    BY <1>4 DEF L!Ingest, L!Others
  <2>2. \A k \in Tx : phase[k] = "absent" => phase'[k] # "ready"
    BY <1>4, KeyFacts DEF L!Ingest, L!In
  <2>3. ASSUME NEW k \in Reported PROVE TxLogged(k)'
    <3>1. k \in Tx /\ k \in Key /\ k \notin Vote /\ TxLogged(k)
      BY <2>3, KeyKinds DEF PhaseLogged
    <3>2. CASE phase'[k] = phase[k]
      BY <3>1, <3>2, <1>1, <1>2 DEF TxLogged, ThrownOut
    <3>3. CASE phase[k] = "absent" /\ phase'[k] = "waiting"
      BY <3>1, <3>3, <1>1, <1>2 DEF TxLogged, ThrownOut
    <3>4. CASE phase[k] = "absent" /\ phase'[k] = "gone"
      BY <3>1, <3>4, <1>1, <1>2 DEF TxLogged, ThrownOut
    <3>5. CASE phase[k] \in {"waiting", "ready"} /\ phase'[k] = "gone"
      BY <3>1, <3>5, <1>1 DEF TxLogged, ThrownOut
    <3> QED BY <3>1, <3>2, <3>3, <3>4, <3>5, <2>1, <2>2
  <2>4. ASSUME NEW k \in BundleKey PROVE BundleKeyLogged(k)'
    <3>1. k \in Key /\ k \notin Vote /\ ~ThrownOut(k) /\ BundleKeyLogged(k)
      BY <2>4, KeyKinds DEF PhaseLogged, ThrownOut
    <3> QED BY <3>1, <1>1, <1>2, <2>1 DEF BundleKeyLogged
  <2>5. ASSUME NEW k \in TipKey PROVE TipKeyLogged(k)'
    <3>1. k \in Key /\ k \notin Vote /\ ~ThrownOut(k) /\ TipKeyLogged(k)
      BY <2>5, KeyKinds DEF PhaseLogged, ThrownOut
    <3>2. phase'[k] \in {"absent", "running", "gone"}
      BY TipPhases
    <3> QED BY <3>1, <3>2, <1>1, <1>2, <2>1 DEF TipKeyLogged
  <2>6. VotesSilent'
    BY <1>1, KeyKinds DEF PhaseLogged, VotesSilent
  <2> QED BY <2>3, <2>4, <2>5, <2>6 DEF PhaseLogged
<1> QED BY <1>3, <1>4, ImplementsIngest DEF LoggedIngest

\* A step that moves one single transaction, reports it as event and evicts.
LEMMA LogOneMoves ==
    ASSUME TypeOK, TypeOK', Ownership, Ownership', PhaseLogged,
           NEW key \in Tx, NEW event, L!MakeRoom({key}),
           EmitAndEvict({key}, event, Removed),
           phase[key] \notin {"absent", "gone"},
           \/ phase'[key] = "ready" /\ event \in {"check_ok", "err"}
           \/ phase'[key] = "parked" /\ event = "err"
           \/ phase'[key] = "gone"
    PROVE  PhaseLogged'
<1>1. \A k \in Key :
        /\ k \in Vote => log'[k] = log[k]
        /\ k \notin Vote /\ ThrownOut(k) => log'[k] = "evict"
        /\ k \notin Vote /\ ~ThrownOut(k) /\ k = key => log'[k] = event
        /\ ~ThrownOut(k) /\ k # key => log'[k] = log[k]
  BY EvictLogs
<1>2. \A k \in Key : k # key /\ phase'[k] # phase[k] => phase[k] = "ready" /\ phase'[k] = "gone"
  BY DEF L!MakeRoom, L!Others
<1>3. ASSUME NEW k \in Reported PROVE TxLogged(k)'
  <2>1. k \in Tx /\ k \in Key /\ k \notin Vote /\ TxLogged(k)
    BY <1>3, KeyKinds DEF PhaseLogged
  <2>2. CASE k = key
    BY <2>1, <2>2, <1>1 DEF TxLogged, ThrownOut
  <2>3. CASE k # key /\ phase'[k] = phase[k]
    BY <2>1, <2>3, <1>1 DEF TxLogged, ThrownOut
  <2>4. CASE k # key /\ phase'[k] # phase[k]
    BY <2>1, <2>4, <1>1, <1>2 DEF TxLogged, ThrownOut
  <2> QED BY <2>2, <2>3, <2>4
<1>4. ASSUME NEW k \in BundleKey PROVE BundleKeyLogged(k)'
  <2>1. k \in Key /\ k \notin Vote /\ ~ThrownOut(k) /\ BundleKeyLogged(k) /\ k # key
    BY <1>4, KeyKinds DEF PhaseLogged, ThrownOut
  <2> QED BY <2>1, <1>1, <1>2 DEF BundleKeyLogged
<1>5. ASSUME NEW k \in TipKey PROVE TipKeyLogged(k)'
  <2>1. k \in Key /\ k \notin Vote /\ ~ThrownOut(k) /\ TipKeyLogged(k) /\ k # key
    BY <1>5, KeyKinds DEF PhaseLogged, ThrownOut
  <2> QED BY <2>1, <1>1, <1>2 DEF TipKeyLogged
<1>6. VotesSilent'
  BY <1>1, KeyKinds DEF PhaseLogged, VotesSilent
<1> QED BY <1>3, <1>4, <1>5, <1>6 DEF PhaseLogged

\* A step that drops one key, or returns a transaction to checked_tx, and evicts
\* nothing.
LEMMA LogOneAnswered ==
    ASSUME PhaseLogged, NEW key \in Key,
           \A k \in Key : k # key => phase'[k] = phase[k] /\ log'[k] = log[k],
           key \in Vote => log'[key] = log[key],
           phase[key] # "absent",
           \/ /\ phase'[key] = "gone"
              /\ key \in TipKey => log'[key] \in {"none", "ok", "err"}
              /\ key \in Reported => log'[key] \in {"ingest", "check_err", "ok", "err"}
           \/ phase'[key] = "ready" /\ key \in Tx /\ (key \notin Vote => log'[key] = "unprocessed")
    PROVE  PhaseLogged'
<1>1. ASSUME NEW k \in Reported PROVE TxLogged(k)'
  <2>1. k \in Key /\ k \in Tx /\ k \notin Vote /\ k \notin TipKey /\ TxLogged(k)
    BY <1>1, KeyKinds DEF PhaseLogged
  <2> QED BY <2>1, <1>1 DEF TxLogged
<1>2. ASSUME NEW k \in BundleKey PROVE BundleKeyLogged(k)'
  <2>1. k \in Key /\ k \notin Tx /\ BundleKeyLogged(k)
    BY <1>2, KeyKinds DEF PhaseLogged
  <2> QED BY <2>1 DEF BundleKeyLogged
<1>3. ASSUME NEW k \in TipKey PROVE TipKeyLogged(k)'
  <2>1. k \in Key /\ k \notin Tx /\ TipKeyLogged(k)
    BY <1>3, KeyKinds DEF PhaseLogged
  <2> QED BY <2>1, <1>3 DEF TipKeyLogged
<1>4. VotesSilent'
  BY KeyKinds DEF PhaseLogged, VotesSilent
<1> QED BY <1>1, <1>2, <1>3, <1>4 DEF PhaseLogged

\* on_check.
LEMMA LogCheck ==
    ASSUME TypeOK, TypeOK', Ownership, Ownership', PhaseLogged, NEW k \in Tx, LoggedCheck(k)
    PROVE  PhaseLogged'
<1>0. k \in Key
  BY KeyFacts
<1>1. CASE (CheckIgnored(k) \/ EvictCheckedMissing(k)) /\ UNCHANGED log
  <2>1. UNCHANGED <<life, executing_tx, deferred_tx, checked_tx, slot>>
    BY <1>1 DEF CheckIgnored, CheckAnswered, EvictCheckedMissing, Panics, store, clock
  <2>2. phase' = phase
    BY <2>1, PhasesKept DEF L!vars
  <2> QED BY <1>1, <2>2, LogQuiet
<1>2. CASE /\ CheckFailed(k)
           /\ Emit({k}, "check_err") \/ (k \notin checked_tx /\ UNCHANGED log)
  <2>1. /\ checking[k] > 0 /\ k \notin executing_tx /\ k \notin deferred_tx
        /\ checked_tx' = checked_tx \ {k} /\ Drop({k})
        /\ UNCHANGED <<executing_tx, deferred_tx>>
    BY <1>2 DEF CheckFailed, CheckAnswered
  <2>2. life[k] = "live" /\ k \notin GroupKey
    BY <2>1, KeyFacts DEF Ownership, ChecksTracked
  <2>3. \A j \in Key : j # k => phase'[j] = phase[j]
    BY <2>1, PhaseKept DEF Drop
  <2>4. life'[k] = "dropped"
    BY <2>1, <1>0 DEF Drop
  <2>5. phase'[k] = "gone"
    BY <2>4, <1>0, PhaseValues
  <2>6. phase[k] # "absent" /\ (k \notin checked_tx => phase[k] = "waiting")
    BY <2>1, <2>2, <1>0, PhaseValues
  <2>7. \A j \in Key : j # k => log'[j] = log[j]
    BY <1>2, EmitLogs
  <2>8. k \in Vote => log'[k] = log[k]
    BY <1>0, <1>2, EmitLogs
  <2>9. k \in Reported => log'[k] \in {"ingest", "check_err"}
    BY <1>0, <1>2, <2>6, EmitLogs, KeyKinds DEF PhaseLogged, TxLogged
  <2>10. k \notin TipKey
    BY KeyKinds
  <2> QED BY <1>0, <2>3, <2>5, <2>6, <2>7, <2>8, <2>9, <2>10, LogOneAnswered
<1>3. CASE CheckPassed(k) /\ EmitAndEvict({k}, "check_ok", Removed)
  <2>1. /\ checking[k] > 0 /\ k \notin executing_tx \cup deferred_tx \cup checked_tx
        /\ k \in checked_tx' /\ UNCHANGED <<executing_tx, deferred_tx>>
    BY <1>3 DEF CheckPassed, FirstCheck, CheckAnswered
  <2>2. life[k] = "live" /\ k \notin GroupKey
    BY <2>1, KeyFacts DEF Ownership, ChecksTracked
  <2>3. phase[k] = "waiting"
    BY <2>1, <2>2, <1>0, PhaseValues
  <2>4. life'[k] = "live"
    BY <2>1 DEF Ownership, TransactionsAccounted, HeldAreLive, Held
  <2>5. phase'[k] = "ready"
    BY <2>1, <2>4, <1>0, PhaseValues
  <2>6. L!Verify(k)
    <3>1. L!Verify(k) \/ L!Ingest \/ UNCHANGED L!vars
      BY <1>3, ImplementsVerify DEF CheckAnswer
    <3>2. ~L!Ingest
      BY <2>3, <2>5, <1>0 DEF L!Ingest, L!Others
    <3>3. ~UNCHANGED L!vars
      BY <2>3, <2>5 DEF L!vars
    <3> QED BY <3>1, <3>2, <3>3
  <2>7. L!MakeRoom({k})
    BY <2>6 DEF L!Verify
  <2> QED BY <1>3, <2>3, <2>5, <2>7, LogOneMoves
<1> QED BY <1>1, <1>2, <1>3 DEF LoggedCheck

\* Unprocessed responses and on_execute.
LEMMA LogAnswer ==
    ASSUME TypeOK, TypeOK', Ownership, Ownership', PhaseLogged, NEW m \in execMsgs,
           LoggedUnprocessed(m) \/ LoggedExecute(m)
    PROVE  PhaseLogged'
<1> DEFINE key == m.key
<1>1. key \in executing_tx /\ key \in Key /\ phase[key] = "running"
  BY PhaseOfContainer DEF Ownership, RequestsMatchExecuting
<1>2. executing_tx' = executing_tx \ {key}
  BY DEF LoggedUnprocessed, LoggedExecute, Unprocessed, ExecuteFinal, ExecuteRetry, Answered
<1>3. CASE LoggedUnprocessed(m)
  <2>1. /\ IF key \in Tx THEN checked_tx' = checked_tx \cup {key} /\ life' = life
                         ELSE Drop({key}) /\ checked_tx' = checked_tx
        /\ deferred_tx' = deferred_tx
    BY <1>3 DEF LoggedUnprocessed, Unprocessed
  <2>2. \A j \in Key : j # key => phase'[j] = phase[j]
    BY <1>2, <2>1, PhaseKept DEF Drop
  <2>3. \A j \in Key : log'[j] = IF j \in ({key} \cap Tx) \ Vote THEN "unprocessed" ELSE log[j]
    BY <1>3, EmitLogs DEF LoggedUnprocessed
  <2>4. life[key] = "live" /\ key \notin deferred_tx
    BY <1>1 DEF Ownership, TransactionsAccounted, OneContainer, HeldAreLive, Held
  <2>5. CASE key \in Tx
    <3>1. phase'[key] = "ready"
      BY <1>1, <1>2, <2>1, <2>4, <2>5, PhaseValues
    <3> QED BY <1>1, <2>2, <2>3, <2>5, <3>1, LogOneAnswered
  <2>6. CASE key \notin Tx
    <3>1. life'[key] = "dropped"
      BY <1>1, <2>1, <2>6 DEF Drop
    <3>2. phase'[key] = "gone"
      BY <1>1, <3>1, PhaseValues
    <3>3. key \in TipKey => log'[key] \in {"none", "ok", "err"}
      BY <1>1, <2>3, <2>6 DEF PhaseLogged, TipKeyLogged
    <3>4. key \notin Reported /\ key \notin Vote
      BY <2>6, KeyKinds
    <3>5. \A k \in Key : k # key => phase'[k] = phase[k] /\ log'[k] = log[k]
      BY <2>2, <2>3
    <3> QED BY <1>1, <3>2, <3>3, <3>4, <3>5, LogOneAnswered
  <2> QED BY <2>5, <2>6
<1>4. ASSUME NEW reason \in Reason, ExecuteFinal(m, reason),
             Emit({key}, IF reason = "none" THEN "ok" ELSE "err")
      PROVE  PhaseLogged'
  <2>1. Drop({key}) /\ checked_tx' = checked_tx /\ deferred_tx' = deferred_tx
    BY <1>4 DEF ExecuteFinal
  <2>2. life'[key] = "dropped"
    BY <1>1, <2>1 DEF Drop
  <2>3. phase'[key] = "gone"
    BY <1>1, <2>2, PhaseValues
  <2>4. \A j \in Key : log'[j] = IF j \in {key} \ Vote
                                 THEN (IF reason = "none" THEN "ok" ELSE "err") ELSE log[j]
    BY <1>4, EmitLogs
  <2>5. \A k \in Key : k # key => phase'[k] = phase[k] /\ log'[k] = log[k]
    BY <1>2, <2>1, <2>4, PhaseKept DEF Drop
  <2>6. key \notin Vote => log'[key] \in {"ok", "err"}
    BY <1>1, <2>4
  <2>7. key \in Vote => log'[key] = log[key]
    BY <1>1, <2>4
  <2> QED BY <1>1, <2>3, <2>5, <2>6, <2>7, KeyKinds, LogOneAnswered
<1>5. ASSUME NEW reason \in Reason, NEW at \in Slot, ExecuteRetry(m, reason, at),
             EmitAndEvict({key}, "err", Removed)
      PROVE  PhaseLogged'
  <2>1. L!Finish(key)
    BY <1>5, ImplementsFinish DEF ExecuteAnswer
  <2>2. key \in Tx
    BY <1>5 DEF ExecuteRetry
  <2>3. phase'[key] \in {"ready", "parked", "gone"} /\ L!MakeRoom({key})
    BY <2>1 DEF L!Finish
  <2> HIDE DEF key
  <2> QED BY <1>1, <1>5, <2>2, <2>3, LogOneMoves
<1> QED BY <1>3, <1>4, <1>5 DEF LoggedExecute

\* schedule_checks and schedule_execute.
LEMMA LogSchedule ==
    ASSUME TypeOK, TypeOK', Ownership, Ownership', Locked, PhaseLogged, LoggedSchedule
    PROVE  PhaseLogged'
<1>1. \A k \in Key : log'[k] = IF k \in (executing_tx' \ executing_tx) \ Vote THEN "req"
                               ELSE log[k]
  BY EmitLogs DEF LoggedSchedule
<1>2. CASE \/ ScheduleChecks \/ ChecksDone \/ SkipWorker \/ EndPoll
           \/ \E b \in Bundle : LockedTwice(b)
  <2>1. UNCHANGED <<life, executing_tx, deferred_tx, checked_tx, slot>>
    BY <1>2 DEF ScheduleChecks, ChecksDone, SkipWorker, EndPoll, LockedTwice, Panics, store,
                clock
  <2>2. phase' = phase
    BY <2>1, PhasesKept DEF L!vars
  <2> QED BY <1>1, <2>1, <2>2, LogQuiet
<1>3. ASSUME NEW x \in Tx \cup Bundle,
             (x \in Tx /\ TryScheduleTransaction(x)) \/ (x \in Bundle /\ TryScheduleBundle(x))
      PROVE  PhaseLogged'
  <2> DEFINE K == KeysOf(x)
  <2>1. L!Start(K)
    BY <1>3, ImplementsStart
  <2>2. executing_tx' = executing_tx \cup K
    BY <1>3 DEF TryScheduleTransaction, TryScheduleBundle, Send
  <2> HIDE DEF K
  <2>3. /\ \A k \in K : k \in Key /\ phase[k] = "ready" /\ phase'[k] = "running"
        /\ \A k \in Key : k \notin K => phase'[k] = phase[k]
    BY <2>1 DEF L!Start, L!Others, L!In
  <2>4. K \cap executing_tx = {}
    BY <2>3, PhaseOfContainer
  <2>5. \A k \in Key : log'[k] = IF k \in K \ Vote THEN "req" ELSE log[k]
    BY <1>1, <2>2, <2>4
  <2>6. ASSUME NEW k \in Reported PROVE TxLogged(k)'
    <3>1. k \in Key /\ k \notin Vote /\ TxLogged(k)
      BY <2>6, KeyKinds DEF PhaseLogged
    <3> QED BY <3>1, <2>3, <2>5 DEF TxLogged
  <2>7. ASSUME NEW k \in BundleKey PROVE BundleKeyLogged(k)'
    <3>1. k \in Key /\ k \notin Vote /\ BundleKeyLogged(k)
      BY <2>7, KeyKinds DEF PhaseLogged
    <3> QED BY <3>1, <2>3, <2>5 DEF BundleKeyLogged
  <2>8. ASSUME NEW k \in TipKey PROVE TipKeyLogged(k)'
    <3>1. k \in Key /\ TipKeyLogged(k)
      BY <2>8, KeyKinds DEF PhaseLogged
    <3>2. k \notin K
      BY <3>1, <2>3 DEF TipKeyLogged
    <3> QED BY <3>1, <3>2, <2>3, <2>5 DEF TipKeyLogged
  <2>9. VotesSilent'
    BY <2>5, KeyKinds DEF PhaseLogged, VotesSilent
  <2> QED BY <2>6, <2>7, <2>8, <2>9 DEF PhaseLogged
<1> QED BY <1>2, <1>3 DEF LoggedSchedule, Schedule

\* check_slot_roll says nothing of the keys: the tip transactions start unheard,
\* and what returns from deferred_tx has its error on record.
LEMMA LogRoll ==
    ASSUME TypeOK, Ownership, Locked, PhaseLogged, LoggedRoll
    PROVE  PhaseLogged'
<1>1. log' = log
  BY DEF LoggedRoll
<1>2. CASE UNCHANGED L!vars
  <2>1. phase' = phase
    BY <1>2 DEF L!vars
  <2> QED BY <1>1, <2>1, LogQuiet
<1>3. ASSUME NEW K \in Urgent \cup {{}}, L!Roll(K) PROVE PhaseLogged'
  <2>1. K \subseteq TipKey
    BY <1>3 DEF Urgent, TipKey
  <2>2. /\ \A k \in K : k \in Key /\ phase[k] = "absent" /\ phase'[k] \in {"running", "gone"}
        /\ \A k \in Key : k \notin K /\ phase'[k] # phase[k]
                            => phase[k] = "parked" /\ phase'[k] = "ready"
    BY <1>3 DEF L!Roll, L!Others, L!In, L!Moves
  <2>3. ASSUME NEW k \in Reported PROVE TxLogged(k)'
    <3>1. k \in Key /\ k \notin K /\ TxLogged(k)
      BY <2>1, <2>3, KeyKinds DEF PhaseLogged
    <3> QED BY <3>1, <2>2, <1>1 DEF TxLogged
  <2>4. ASSUME NEW k \in BundleKey PROVE BundleKeyLogged(k)'
    <3>1. k \in Key /\ k \notin K /\ BundleKeyLogged(k)
      BY <2>1, <2>4, KeyKinds DEF PhaseLogged
    <3>2. phase[k] # "parked"
      <4>1. k \notin deferred_tx
        BY <2>4, KeyKinds DEF TypeOK
      <4> QED BY <3>1, <4>1, PhaseValues
    <3> QED BY <3>1, <3>2, <2>2, <1>1 DEF BundleKeyLogged
  <2>5. ASSUME NEW k \in TipKey PROVE TipKeyLogged(k)'
    <3>1. k \in Key /\ TipKeyLogged(k)
      BY <2>5, KeyKinds DEF PhaseLogged
    <3> QED BY <3>1, <2>2, <1>1 DEF TipKeyLogged
  <2>6. VotesSilent'
    BY <1>1 DEF PhaseLogged, VotesSilent
  <2> QED BY <2>3, <2>4, <2>5, <2>6 DEF PhaseLogged
<1> QED BY <1>2, <1>3, ImplementsRoll DEF LoggedRoll

\* Every step keeps the events in step with the phases.
LEMMA LogStep ==
    ASSUME TypeOK, TypeOK', Ownership, Ownership', Locked, PhaseLogged, [LogNext]_logVars
    PROVE  PhaseLogged'
<1>1. CASE \/ Validator /\ UNCHANGED <<log, stats>>
           \/ Halted /\ UNCHANGED <<log, stats>>
           \/ Disconnected /\ UNCHANGED log
           \/ UNCHANGED logVars
  <2>1. UNCHANGED <<life, executing_tx, deferred_tx, checked_tx, slot>>
    <3>1. CASE Validator \/ Disconnected
      BY <3>1 DEF Validator, CheckWorkerTakes, BankAdvances, ExecWorkerTakes, BundleExpires,
                  Disconnected, Panics, store, clock
    <3>2. CASE UNCHANGED vars
      BY <3>2, GroupsOfVars
    <3> QED BY <1>1, <3>1, <3>2 DEF Halted, logVars
  <2>2. phase' = phase
    BY <2>1, PhasesKept DEF L!vars
  <2>3. log' = log
    BY <1>1 DEF logVars
  <2> QED BY <2>2, <2>3, LogQuiet
<1>2. ASSUME LoggedScheduler, ~(Disconnected /\ UNCHANGED log) PROVE PhaseLogged'
  BY <1>2, LogRoll, LogAnswer, LogCheck, LogIngest, LogSchedule DEF LoggedScheduler
<1> QED BY <1>1, <1>2 DEF LogNext

\* What the phases say of the last events is what LogTellsPlace says of them.
LEMMA PhasesTell == ASSUME TypeOK, Ownership, PhaseLogged PROVE LogTellsPlace
<1>1. ASSUME NEW k \in Reported
      PROVE  /\ log[k] = "none" => life[k] # "live"
             /\ k \in unchecked_tx => log[k] = "ingest"
             /\ k \in checked_tx => log[k] \in {"check_ok", "err", "unprocessed"}
             /\ k \in executing_tx => log[k] = "req"
             /\ k \in deferred_tx => log[k] = "err"
             /\ life[k] = "live" /\ k \notin Held => log[k] = "ingest"
             /\ log[k] \in {"check_err", "ok", "evict"} => life[k] = "dropped"
             /\ life[k] = "dropped" =>
                  log[k] \in {"none", "ingest", "check_err", "ok", "err", "evict"}
  <2>1. k \in Key /\ k \in Tx /\ k \notin GroupKey /\ TxLogged(k)
    BY <1>1, KeyKinds DEF PhaseLogged
  <2>2. life[k] \in {"fresh", "live", "dropped"}
    BY <2>1 DEF TypeOK
  <2>3. /\ life[k] = "fresh" <=> phase[k] = "absent"
        /\ life[k] = "dropped" <=> phase[k] = "gone"
        /\ k \in checked_tx => phase[k] = "ready"
        /\ k \in executing_tx => phase[k] = "running"
        /\ k \in deferred_tx => phase[k] = "parked"
    BY <2>1, <2>2, PhaseValues, PhaseOfContainer
  <2>4. k \in unchecked_tx => phase[k] = "waiting"
    <3>1. k \in unchecked_tx => /\ life[k] = "live" /\ k \notin executing_tx
                                /\ k \notin deferred_tx /\ k \notin checked_tx
      BY DEF Ownership, TransactionsAccounted, OneContainer, HeldAreLive, Held
    <3> QED BY <2>1, <3>1, PhaseValues
  <2>5. life[k] = "live" /\ k \notin Held => phase[k] = "waiting"
    BY <2>1, PhaseValues DEF Held
  <2>6. phase[k] \in {"absent", "waiting", "ready", "running", "parked", "gone"}
    BY <2>1, PhaseValues
  <2>7. log[k] = "none" => phase[k] \in {"absent", "gone"}
    BY <2>1, <2>6 DEF TxLogged
  <2>8. log[k] \in {"check_err", "ok", "evict"} => phase[k] = "gone"
    BY <2>1, <2>6 DEF TxLogged
  <2> QED BY <2>1, <2>3, <2>4, <2>5, <2>7, <2>8 DEF TxLogged
<1>2. ASSUME NEW b \in bundles, NEW k \in Member[b] PROVE log[k] = "ingest"
  <2>1. k \in BundleKey /\ phase[k] = "ready"
    BY <1>2, PhaseOfContainer DEF BundleKey, TypeOK
  <2> QED BY <2>1 DEF PhaseLogged, BundleKeyLogged
<1>3. ASSUME NEW k \in BundleKey, k \in executing_tx PROVE log[k] = "req"
  BY <1>3, PhaseOfContainer DEF PhaseLogged, BundleKeyLogged
<1>4. ASSUME NEW k \in TipKey
      PROVE  log[k] \in {"none", "ok", "err"} /\ (life[k] = "live" => log[k] = "none")
  <2>1. TipKeyLogged(k) /\ k \in Key
    BY <1>4, KeyKinds DEF PhaseLogged
  <2>2. life[k] = "live" => phase[k] # "gone"
    BY <2>1, PhaseValues
  <2> QED BY <2>1, <2>2 DEF TipKeyLogged
<1>5. TxPlaceLogged /\ TxEndLogged
  BY <1>1 DEF TxPlaceLogged, TxEndLogged
<1>6. BundlePlaceLogged
  BY <1>2, <1>3, <1>4 DEF BundlePlaceLogged
<1> QED BY <1>5, <1>6 DEF LogTellsPlace, PhaseLogged

\* A reader of the events knows where every transaction and bundle is, through
\* evictions, retries, ignored rechecks and silent tip transactions.
THEOREM LogCorrect == LogSpec => []LogTellsPlace
<1>1. LogInit => PhaseLogged
  <2> SUFFICES ASSUME LogInit PROVE PhaseLogged
    OBVIOUS
  <2>1. \A k \in Key : phase[k] = "absent" /\ log[k] = "none"
    BY PhaseValues DEF LogInit, Init
  <2> QED BY <2>1, KeyKinds DEF PhaseLogged, TxLogged, BundleKeyLogged, TipKeyLogged, VotesSilent
<1>2. TypeOK /\ TypeOK' /\ Ownership /\ Ownership' /\ Locked /\ PhaseLogged
        /\ [LogNext]_logVars => PhaseLogged'
  BY LogStep
<1>3. TypeOK /\ Ownership /\ PhaseLogged => LogTellsPlace
  BY PhasesTell
<1> QED
  BY <1>1, <1>2, <1>3, LogRefines, TypeCorrect, OwnershipCorrect, LockedCorrect, PTL
     DEF LogSpec
=============================================================================
