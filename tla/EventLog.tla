------------------------------ MODULE EventLog ------------------------------
(***************************************************************************)
(* What the batch scheduler tells the outside about itself: the events it  *)
(* emits while it moves transactions (emit_tx_event), and the SlotStats it *)
(* emits when a slot ends.  The module runs beside BatchScheduler and adds *)
(* to each of its handlers the events that handler emits.                  *)
(*                                                                         *)
(* log[k] is the last event emitted for a key, "none" before the first.    *)
(* The actions of model.rs keep their kind; the source of an Ingest, the   *)
(* reasons of CheckErr, ExecuteErr and Evict and the time stamps are left  *)
(* out.  Of the counters of SlotStats only was_leader_ready is kept, the   *)
(* one the scheduler itself reads.                                         *)
(***************************************************************************)
EXTENDS BatchScheduler

CONSTANT Vote         \* transactions that are simple votes

ASSUME VoteAssumption == Vote \subseteq Tx

VARIABLES
    log,              \* the last event of each key
    stats             \* the last SlotStats: its slot and was_leader_ready

logVars == <<vars, log, stats>>

TransactionAction == {"ingest", "check_ok", "check_err", "req", "ok", "err",
                      "unprocessed", "evict"}

(***************************************************************************)
(* emit_tx_event: nothing is emitted for votes.  A handler that evicts     *)
(* emits the Evict last but one key at a time, so the keys' last events    *)
(* are those of EmitAndEvict, in which an eviction wins.                   *)
(***************************************************************************)
Emit(K, event) ==
    log' = [k \in Key |-> IF k \in K \ Vote THEN event ELSE log[k]]
EmitNoEviction(K, event, evicted) == Emit(K, event)
EmitAndEvict(K, event, evicted) ==
    log' = [k \in Key |-> IF k \in Vote THEN log[k]
                          ELSE IF k \in evicted THEN "evict"
                          ELSE IF k \in K THEN event ELSE log[k]]

\* The single transactions this step takes out of the store, and the keys it
\* puts in.  Bundles are evicted and expire without an event.
Removed == {k \in Tx : life[k] = "live" /\ life'[k] = "dropped"}
Added == {k \in Key : life[k] = "fresh" /\ life'[k] = "live"}

(***************************************************************************)
(* check_slot_roll: the statistics of the slot that ended are taken and    *)
(* emitted before was_leader_ready is touched.  The tip transactions are   *)
(* sent without an event.                                                  *)
(***************************************************************************)
SlotStatsLate == [slot |-> slot, ready |-> was_leader_ready']
SlotStats == [slot |-> slot, ready |-> was_leader_ready]
LoggedRoll ==
    /\ Roll
    /\ stats' = IF slot' # slot /\ slot # 0 THEN SlotStats ELSE stats
    /\ UNCHANGED log

\* drain_worker_responses: an unprocessed bundle or tip key goes silently.
LoggedUnprocessed(m) == Unprocessed(m) /\ Emit({m.key} \cap Tx, "unprocessed")

\* on_execute emits its event before it decides what becomes of the key.
LoggedExecute(m) ==
    \E reason \in Reason :
        \/ /\ ExecuteFinal(m, reason)
           /\ Emit({m.key}, IF reason = "none" THEN "ok" ELSE "err")
        \/ \E at \in Slot :
             ExecuteRetry(m, reason, at) /\ EmitAndEvict({m.key}, "err", Removed)

\* on_check: a recheck that passes is silent, and so is a first check whose
\* lookup tables name a filtered account.
LoggedCheck(k) ==
    \/ CheckIgnored(k) /\ UNCHANGED log
    \/ CheckFailed(k) /\ (Emit({k}, "check_err") \/ (k \notin checked_tx /\ UNCHANGED log))
    \/ CheckPassed(k) /\ EmitAndEvict({k}, "check_ok", Removed)
    \/ EvictCheckedMissing(k) /\ UNCHANGED log

\* drain_tpu, on_packet and on_bundle: what fails to parse is silent.
LoggedIngest == Ingest /\ EmitAndEvict(Added, "ingest", Removed)

\* schedule_execute emits ExecuteReq for every key of the batch it sent.
LoggedSchedule == Schedule /\ Emit(executing_tx' \ executing_tx, "req")

LogInit == Init /\ log = [k \in Key |-> "none"] /\ stats = [slot |-> 0, ready |-> FALSE]
LoggedScheduler ==
    \/ LoggedRoll
    \/ /\ UNCHANGED stats
       /\ \/ \E m \in execMsgs : LoggedUnprocessed(m) \/ LoggedExecute(m)
          \/ \E k \in Tx : LoggedCheck(k)
          \/ LoggedIngest \/ LoggedSchedule
          \/ Disconnected /\ UNCHANGED log
LogNext ==
    \/ panic = "none" /\ LoggedScheduler
    \/ panic = "none" /\ Validator /\ UNCHANGED <<log, stats>>
    \/ Halted /\ UNCHANGED <<log, stats>>
LogSpec == LogInit /\ [][LogNext]_logVars

(***************************************************************************)
(* Properties.                                                             *)
(***************************************************************************)
Reported == Tx \ Vote
BundleKey == UNION {Member[b] : b \in Bundle}
TipKey == UNION {Member[p] : p \in TipPair}

\* The last event of a transaction tells where it is: a reader of the events
\* can follow every transaction without seeing the scheduler, through evictions,
\* retries and ignored rechecks.
TxPlaceLogged ==
    \A k \in Reported :
        /\ log[k] = "none" => life[k] # "live"
        /\ k \in unchecked_tx => log[k] = "ingest"
        /\ k \in checked_tx => log[k] \in {"check_ok", "err", "unprocessed"}
        /\ k \in executing_tx => log[k] = "req"
        /\ k \in deferred_tx => log[k] = "err"
        /\ life[k] = "live" /\ k \notin Held => log[k] = "ingest"

\* Once the last word on a transaction is out it is gone, and one that is gone
\* had such an event, was refused on arrival or was filtered after its check.
TxEndLogged ==
    \A k \in Reported :
        /\ log[k] \in {"check_err", "ok", "evict"} => life[k] = "dropped"
        /\ life[k] = "dropped" =>
              log[k] \in {"none", "ingest", "check_err", "ok", "err", "evict"}

\* A bundle's keys are announced on arrival and when sent; its tip transactions
\* appear only with their result.
BundlePlaceLogged ==
    /\ \A b \in bundles : \A k \in Member[b] : log[k] = "ingest"
    /\ \A k \in BundleKey : k \in executing_tx => log[k] = "req"
    /\ \A k \in TipKey : log[k] \in {"none", "ok", "err"} /\ (life[k] = "live" => log[k] = "none")

\* emit_tx_event says nothing of votes, in whatever handler.
VotesSilent == \A k \in Vote : log[k] = "none"

\* The events tell where every transaction and bundle is and what became of it:
\* the four parts above.
LogTellsPlace == TxPlaceLogged /\ TxEndLogged /\ BundlePlaceLogged /\ VotesSilent

\* SlotStats says of the slot that ended that the node was its leader exactly
\* when the tip transactions were made in that slot.
LeaderSlotsReported ==
    stats.slot > 0 => (stats.ready <=> \E p \in TipPair : tipSlot[p] = stats.slot)
=============================================================================
