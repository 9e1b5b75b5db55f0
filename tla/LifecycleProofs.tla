--------------------------- MODULE LifecycleProofs ---------------------------
(***************************************************************************)
(* The batch scheduler implements TxLifecycle for every value of the       *)
(* constants: the first state maps to the first state of TxLifecycle, and  *)
(* every step to one of its steps or to none.  Ownership says that the     *)
(* container a key is in determines its phase, Locked that what is started *)
(* is compatible with what runs.                                           *)
(***************************************************************************)
EXTENDS BatchSchedulerExclusion, BatchSchedulerRefinement

(***************************************************************************)
(* The phase of a key.                                                     *)
(***************************************************************************)
\* The phases before and after a step, key by key.
LEMMA PhaseValues ==
    /\ phase \in [Key -> L!Phase] /\ phase' \in [Key -> L!Phase]
    /\ \A k \in Key :
         phase[k] = IF life[k] = "fresh" THEN "absent"
                    ELSE IF life[k] = "dropped" THEN "gone"
                    ELSE IF k \in executing_tx THEN "running"
                    ELSE IF k \in deferred_tx THEN "parked"
                    ELSE IF k \in checked_tx \/ k \in GroupKey THEN "ready" ELSE "waiting"
    /\ \A k \in Key :
         phase'[k] = IF life'[k] = "fresh" THEN "absent"
                     ELSE IF life'[k] = "dropped" THEN "gone"
                     ELSE IF k \in executing_tx' THEN "running"
                     ELSE IF k \in deferred_tx' THEN "parked"
                     ELSE IF k \in checked_tx' \/ k \in GroupKey THEN "ready" ELSE "waiting"
<1>1. phase \in [Key -> L!Phase] /\ phase' \in [Key -> L!Phase]
  BY DEF phase, L!Phase
<1>2. \A k \in Key :
        phase[k] = IF life[k] = "fresh" THEN "absent"
                   ELSE IF life[k] = "dropped" THEN "gone"
                   ELSE IF k \in executing_tx THEN "running"
                   ELSE IF k \in deferred_tx THEN "parked"
                   ELSE IF k \in checked_tx \/ k \in GroupKey THEN "ready" ELSE "waiting"
  BY DEF phase
<1>3. \A k \in Key :
        phase'[k] = IF life'[k] = "fresh" THEN "absent"
                    ELSE IF life'[k] = "dropped" THEN "gone"
                    ELSE IF k \in executing_tx' THEN "running"
                    ELSE IF k \in deferred_tx' THEN "parked"
                    ELSE IF k \in checked_tx' \/ k \in GroupKey THEN "ready" ELSE "waiting"
  BY DEF phase
<1> QED BY <1>1, <1>2, <1>3

\* A key that changes neither its life nor its container keeps its phase.
LEMMA PhaseKept ==
    ASSUME NEW k \in Key, life'[k] = life[k], k \in executing_tx' <=> k \in executing_tx,
           k \in deferred_tx' <=> k \in deferred_tx, k \in checked_tx' <=> k \in checked_tx
    PROVE  phase'[k] = phase[k]
BY PhaseValues

\* Steps that change no key's life or container are stuttering steps.
LEMMA PhasesKept ==
    ASSUME UNCHANGED <<life, executing_tx, deferred_tx, checked_tx, slot>>
    PROVE  UNCHANGED L!vars
<1>1. phase' = phase
  BY DEF phase
<1> QED BY <1>1 DEF L!vars

\* The container of a key tells its phase.
LEMMA PhaseOfContainer ==
    ASSUME TypeOK, Ownership
    PROVE  /\ \A k \in executing_tx : k \in Key /\ phase[k] = "running"
           /\ \A k \in deferred_tx : k \in Key /\ phase[k] = "parked"
           /\ \A k \in checked_tx : k \in Key /\ phase[k] = "ready"
           /\ \A b \in bundles : \A k \in Member[b] : k \in Key /\ phase[k] = "ready"
           /\ \A k \in Key : phase[k] = "running" => k \in executing_tx
<1>1. \A k \in executing_tx \cup deferred_tx \cup checked_tx : k \in Key /\ life[k] = "live"
  BY KeyFacts DEF TypeOK, Ownership, TransactionsAccounted, HeldAreLive, Held
<1>2. \A b \in bundles : \A k \in Member[b] :
         k \in GroupKey /\ life[k] = "live" /\ k \notin executing_tx /\ k \notin deferred_tx
  BY KeyFacts DEF TypeOK, Ownership, BundlesAccounted
<1>3. \A k \in deferred_tx : k \notin executing_tx
  BY DEF Ownership, TransactionsAccounted, OneContainer
<1>4. \A k \in checked_tx : k \notin executing_tx /\ k \notin deferred_tx
  BY DEF Ownership, TransactionsAccounted, OneContainer
<1>5. \A k \in executing_tx : k \in Key /\ phase[k] = "running"
  BY <1>1, PhaseValues
<1>6. \A k \in deferred_tx : k \in Key /\ phase[k] = "parked"
  BY <1>1, <1>3, PhaseValues
<1>7. \A k \in checked_tx : k \in Key /\ phase[k] = "ready"
  BY <1>1, <1>4, PhaseValues
<1>8. \A b \in bundles : \A k \in Member[b] : k \in Key /\ phase[k] = "ready"
  BY <1>2, PhaseValues, KeyFacts
<1>9. \A k \in Key : phase[k] = "running" => k \in executing_tx
  BY PhaseValues
<1> QED BY <1>5, <1>6, <1>7, <1>8, <1>9

\* Keys whose locks are granted exclude no running key.
LEMMA GrantedCompatible ==
    ASSUME TypeOK, Ownership, Locked, NEW K \in SUBSET Key, \A k \in K : CanLock(k)
    PROVE  L!Compatible(K)
<1> SUFFICES ASSUME NEW j \in K, NEW k \in L!In("running")
             PROVE  <<j, k>> \notin Exclusive /\ <<k, j>> \notin Exclusive
  BY DEF L!Compatible
<1>1. k \in executing_tx
  BY PhaseOfContainer DEF L!In
<1>2. ~Conflict(j, k) /\ ~Conflict(k, j)
  BY <1>1, GrantedApart DEF Locked
<1> QED BY <1>2 DEF Exclusive

\* Eviction takes at most one: no two keys have the same priority.
LEMMA LowestAtMostOne ==
    ASSUME NEW S \in SUBSET Tx, NEW i \in Lowest(S), NEW j \in Lowest(S)
    PROVE  i = j
<1>1. i \in Tx /\ j \in Tx /\ Rank[i] <= Rank[j] /\ Rank[j] <= Rank[i]
  BY DEF Lowest
<1>2. Rank[i] \in Nat /\ Rank[j] \in Nat
  BY <1>1, OrderAssumption
<1>3. Rank[i] = Rank[j]
  BY <1>1, <1>2
<1> QED BY <1>1, <1>3, OrderAssumption

(***************************************************************************)
(* The shapes of the scheduler's steps.                                    *)
(***************************************************************************)
\* Keys are admitted, refused or thrown out, none of them running or parked.
LEMMA IngestShape ==
    ASSUME TypeOK, Ownership, UNCHANGED <<executing_tx, deferred_tx, slot>>,
           \A k \in Key :
             \/ life'[k] = life[k] /\ (k \in checked_tx' <=> k \in checked_tx)
             \/ /\ life[k] = "fresh" /\ life'[k] \in {"live", "dropped"}
                /\ k \notin checked_tx'
             \/ life'[k] = "dropped" /\ life[k] = "live" /\ k \notin executing_tx \cup deferred_tx
    PROVE  L!Ingest
<1> DEFINE moves == {<<"absent", "waiting">>, <<"absent", "ready">>, <<"absent", "gone">>,
                     <<"waiting", "gone">>, <<"ready", "gone">>}
<1>1. ASSUME NEW k \in Key, phase'[k] # phase[k]
      PROVE  /\ <<phase[k], phase'[k]>> \in moves
             /\ k \in Tx /\ phase[k] = "absent" => phase'[k] # "ready"
  <2>1. CASE life[k] = "fresh" /\ life'[k] \in {"live", "dropped"} /\ k \notin checked_tx'
    <3>1. k \notin executing_tx /\ k \notin deferred_tx
      BY <2>1 DEF Ownership, TransactionsAccounted, HeldAreLive, Held
    <3>2. phase[k] = "absent" /\ phase'[k] \in {"waiting", "ready", "gone"}
      BY <2>1, <3>1, PhaseValues
    <3>3. k \in Tx => phase'[k] # "ready"
      BY <2>1, <3>1, PhaseValues, KeyFacts
    <3> QED BY <3>2, <3>3
  <2>2. CASE /\ life'[k] = "dropped" /\ life[k] = "live"
             /\ k \notin executing_tx \cup deferred_tx
    <3>1. phase[k] \in {"waiting", "ready"} /\ phase'[k] = "gone"
      BY <2>2, PhaseValues
    <3> QED BY <3>1
  <2> QED BY <1>1, <2>1, <2>2, PhaseKept
<1>2. \A k \in Tx \cap L!In("absent") : phase'[k] # "ready"
  <2> SUFFICES ASSUME NEW k \in Tx, k \in Key, phase[k] = "absent" PROVE phase'[k] # "ready"
    BY DEF L!In
  <2> QED BY <1>1
<1>3. L!Others({}, moves)
  BY <1>1, PhaseValues DEF L!Others
<1> HIDE DEF moves
<1> QED BY <1>2, <1>3 DEF L!Ingest, moves

\* One key moves, and at most one of the others, out of checked_tx to the grave.
LEMMA RoomShape ==
    ASSUME TypeOK, Ownership, NEW key \in Key, NEW gone \in SUBSET checked_tx,
           \A i, j \in gone \ {key} : i = j,
           \A k \in Key : k # key =>
             /\ life'[k] = IF k \in gone THEN "dropped" ELSE life[k]
             /\ k \in executing_tx' <=> k \in executing_tx
             /\ k \in deferred_tx' <=> k \in deferred_tx
             /\ k \notin gone => (k \in checked_tx' <=> k \in checked_tx)
    PROVE  L!MakeRoom({key})
<1>1. ASSUME NEW k \in Key \ {key}, phase'[k] # phase[k]
      PROVE  k \in gone /\ <<phase[k], phase'[k]>> \in {<<"ready", "gone">>}
  <2>1. k \in gone
    BY <1>1, PhaseKept
  <2>2. phase[k] = "ready"
    BY <2>1, PhaseOfContainer
  <2>3. phase'[k] = "gone"
    BY <2>1, <1>1, PhaseValues
  <2> QED BY <2>1, <2>2, <2>3
<1>2. L!Others({key}, {<<"ready", "gone">>})
  BY <1>1, PhaseValues DEF L!Others
<1>3. \A i, j \in Key \ {key} : phase'[i] # phase[i] /\ phase'[j] # phase[j] => i = j
  BY <1>1
<1> QED BY <1>2, <1>3 DEF L!MakeRoom

(***************************************************************************)
(* Ingest.                                                                 *)
(***************************************************************************)
\* Fresh keys are in no container.
LEMMA FreshNotHeld == ASSUME Ownership, NEW k, life[k] = "fresh" PROVE k \notin Held
BY DEF Ownership, TransactionsAccounted, HeldAreLive

\* drain_tpu, drop_expired_bundles, on_packet and on_bundle.
LEMMA ImplementsIngest ==
    ASSUME TypeOK, Ownership, Ingest
    PROVE  L!Ingest \/ UNCHANGED L!vars
<1>1. ASSUME NEW arrived \in SUBSET Tx, NEW good \in SUBSET arrived, NEW counted,
             DrainTpuDropExpired(counted, arrived, good), ~ \E site : Panics(site)
      PROVE  L!Ingest
  <2> DEFINE shortfall == SatSub(Cardinality(unchecked_tx) + counted, UncheckedCapacity)
             gone == Bottom(unchecked_tx, shortfall)
             stale == UNION {Member[b] : b \in bundles \cap expired}
  <2>1. /\ Fresh(arrived)
        /\ life' = [k \in Key |->
                      IF k \in good THEN "live"
                      ELSE IF k \in arrived \cup gone \cup stale THEN "dropped" ELSE life[k]]
        /\ UNCHANGED <<checked_tx, executing_tx, deferred_tx, slot>>
    BY <1>1 DEF DrainTpuDropExpired, clock
  <2>2. gone \subseteq unchecked_tx
    BY Selections
  <2>3. \A k \in stale : k \in Key /\ life[k] = "live" /\ k \notin executing_tx \cup deferred_tx
    BY KeyFacts DEF TypeOK, Ownership, BundlesAccounted
  <2>4. \A k \in unchecked_tx : life[k] = "live" /\ k \notin executing_tx \cup deferred_tx
    BY DEF Ownership, TransactionsAccounted, OneContainer, HeldAreLive, Held
  <2>5. \A k \in arrived : life[k] = "fresh" /\ k \notin checked_tx
    BY <2>1, FreshNotHeld DEF Fresh, Held
  <2> HIDE DEF gone, stale
  <2>6. \A k \in Key :
          \/ life'[k] = life[k] /\ (k \in checked_tx' <=> k \in checked_tx)
          \/ /\ life[k] = "fresh" /\ life'[k] \in {"live", "dropped"}
             /\ k \notin checked_tx'
          \/ life'[k] = "dropped" /\ life[k] = "live" /\ k \notin executing_tx \cup deferred_tx
    BY <2>1, <2>2, <2>3, <2>4, <2>5
  <2> QED BY <2>1, <2>6, IngestShape
<1>2. ASSUME NEW k \in Tx, NEW good \in BOOLEAN, OnPacket(k, good), ~ \E site : Panics(site)
      PROVE  L!Ingest
  <2> DEFINE full == Cardinality(unchecked_tx) = UncheckedCapacity
             gone == IF full /\ good THEN Lowest(unchecked_tx) ELSE {}
  <2>1. /\ life[k] = "fresh"
        /\ life' = [j \in Key |->
                      IF j = k THEN (IF good THEN "live" ELSE "dropped")
                      ELSE IF j \in gone THEN "dropped" ELSE life[j]]
        /\ UNCHANGED <<checked_tx, executing_tx, deferred_tx, slot>>
    BY <1>2 DEF OnPacket, clock, Fresh
  <2>2. gone \subseteq unchecked_tx
    BY Selections
  <2>3. \A j \in unchecked_tx : life[j] = "live" /\ j \notin executing_tx \cup deferred_tx
    BY DEF Ownership, TransactionsAccounted, OneContainer, HeldAreLive, Held
  <2>4. k \notin checked_tx
    BY <2>1, FreshNotHeld DEF Held
  <2> HIDE DEF gone
  <2>5. \A j \in Key :
          \/ life'[j] = life[j] /\ (j \in checked_tx' <=> j \in checked_tx)
          \/ /\ life[j] = "fresh" /\ life'[j] \in {"live", "dropped"}
             /\ j \notin checked_tx'
          \/ life'[j] = "dropped" /\ life[j] = "live" /\ j \notin executing_tx \cup deferred_tx
    BY <2>1, <2>2, <2>3, <2>4
  <2> QED BY <2>1, <2>5, IngestShape
<1>3. ASSUME NEW b \in Bundle, NEW good \in BOOLEAN, OnBundle(b, good),
             ~ \E site : Panics(site)
      PROVE  L!Ingest
  <2> DEFINE full == Cardinality(bundles) = BundleCapacity
             evicted == IF full /\ good THEN Lowest(bundles) ELSE {}
             gone == UNION {Member[e] : e \in evicted}
  <2>1. /\ Fresh(Member[b])
        /\ life' = [k \in Key |->
                      IF k \in Member[b] THEN (IF good THEN "live" ELSE "dropped")
                      ELSE IF k \in gone THEN "dropped" ELSE life[k]]
        /\ UNCHANGED <<checked_tx, executing_tx, deferred_tx, slot>>
    BY <1>3 DEF OnBundle, clock
  <2>2. evicted \subseteq bundles
    BY Selections
  <2> HIDE DEF evicted
  <2>3. \A k \in gone : k \in Key /\ life[k] = "live" /\ k \notin executing_tx \cup deferred_tx
    BY <2>2, KeyFacts DEF TypeOK, Ownership, BundlesAccounted
  <2>4. \A k \in Member[b] : life[k] = "fresh" /\ k \notin checked_tx
    BY <2>1, FreshNotHeld DEF Fresh, Held
  <2> HIDE DEF gone
  <2>5. \A k \in Key :
          \/ life'[k] = life[k] /\ (k \in checked_tx' <=> k \in checked_tx)
          \/ /\ life[k] = "fresh" /\ life'[k] \in {"live", "dropped"}
             /\ k \notin checked_tx'
          \/ life'[k] = "dropped" /\ life[k] = "live" /\ k \notin executing_tx \cup deferred_tx
    BY <2>1, <2>3, <2>4
  <2> QED BY <2>1, <2>5, IngestShape
<1>4. ASSUME JitoTipConfig \/ \E site : Panics(site) PROVE UNCHANGED L!vars
  BY <1>4, PhasesKept DEF JitoTipConfig, Panics, store, clock
<1> QED BY <1>1, <1>2, <1>3, <1>4 DEF Ingest

(***************************************************************************)
(* Answers.                                                                *)
(***************************************************************************)
\* on_check.
LEMMA ImplementsVerify ==
    ASSUME TypeOK, Ownership, NEW k \in Tx, CheckAnswer(k)
    PROVE  L!Verify(k) \/ L!Ingest \/ UNCHANGED L!vars
<1>1. CASE CheckIgnored(k)
  BY <1>1, PhasesKept DEF CheckIgnored, CheckAnswered, clock
<1>2. CASE CheckFailed(k)
  <2>1. /\ checking[k] > 0 /\ k \notin executing_tx \cup deferred_tx
        /\ checked_tx' = checked_tx \ {k} /\ Drop({k})
        /\ UNCHANGED <<executing_tx, deferred_tx, slot>>
    BY <1>2 DEF CheckFailed, CheckAnswered, clock
  <2>2. life[k] = "live"
    BY <2>1 DEF Ownership, ChecksTracked
  <2>3. \A j \in Key :
          \/ life'[j] = life[j] /\ (j \in checked_tx' <=> j \in checked_tx)
          \/ /\ life[j] = "fresh" /\ life'[j] \in {"live", "dropped"}
             /\ j \notin checked_tx'
          \/ life'[j] = "dropped" /\ life[j] = "live" /\ j \notin executing_tx \cup deferred_tx
    BY <2>1, <2>2 DEF Drop
  <2> QED BY <2>1, <2>3, IngestShape
<1>3. CASE CheckPassed(k)
  <2> DEFINE gone == IF AtCapacity THEN Lowest(checked_tx) ELSE {}
  <2>1. /\ checking[k] > 0 /\ k \notin executing_tx \cup deferred_tx \cup checked_tx
        /\ checked_tx' = (checked_tx \ gone) \cup {k}
        /\ life' = [j \in Key |-> IF j \in gone THEN "dropped" ELSE life[j]]
        /\ UNCHANGED <<executing_tx, deferred_tx, slot>>
    BY <1>3 DEF CheckPassed, FirstCheck, CheckAnswered, clock
  <2>2. gone \in SUBSET checked_tx /\ \A i, j \in gone : i = j
    BY Selections, LowestAtMostOne DEF TypeOK
  <2>3. life[k] = "live" /\ k \in Key /\ k \notin GroupKey
    BY <2>1, KeyFacts DEF Ownership, ChecksTracked
  <2> HIDE DEF gone
  <2>4. phase[k] = "waiting"
    BY <2>1, <2>3, PhaseValues
  <2>5. phase'[k] = "ready"
    BY <2>1, <2>2, <2>3, PhaseValues
  <2>6. L!MakeRoom({k})
    BY <2>1, <2>2, <2>3, RoomShape
  <2> QED BY <2>1, <2>4, <2>5, <2>6 DEF L!Verify
<1>4. CASE EvictCheckedMissing(k)
  BY <1>4, PhasesKept DEF EvictCheckedMissing, Panics, store, clock
<1> QED BY <1>1, <1>2, <1>3, <1>4 DEF CheckAnswer

\* The answer to an execute request: its key returns to checked_tx, is deferred
\* or is dropped, and gone is dropped with it.
LEMMA FinishShape ==
    ASSUME TypeOK, Ownership, NEW m \in execMsgs,
           NEW gone \in SUBSET (checked_tx \cup {m.key}), \A i, j \in gone \ {m.key} : i = j,
           \A k \in Key : life'[k] = IF k \in gone THEN "dropped" ELSE life[k],
           executing_tx' = executing_tx \ {m.key},
           \A k \in Key : k # m.key =>
             /\ k \in deferred_tx' <=> k \in deferred_tx
             /\ k \notin gone => (k \in checked_tx' <=> k \in checked_tx),
           m.key \in gone \cup checked_tx' \cup deferred_tx', UNCHANGED slot
    PROVE  L!Finish(m.key) /\ m.key \in Key
<1> DEFINE key == m.key
<1>1. key \in executing_tx /\ key \in Key /\ phase[key] = "running" /\ life[key] = "live"
  BY PhaseOfContainer DEF Ownership, RequestsMatchExecuting, TransactionsAccounted,
                          HeldAreLive, Held
<1>2. phase'[key] \in {"ready", "parked", "gone"}
  BY <1>1, PhaseValues
<1>3. L!MakeRoom({key})
  <2> DEFINE others == gone \ {key}
  <2>1. others \in SUBSET checked_tx /\ \A i, j \in others \ {key} : i = j
    OBVIOUS
  <2>2. \A k \in Key : k # key =>
           /\ life'[k] = IF k \in others THEN "dropped" ELSE life[k]
           /\ k \in executing_tx' <=> k \in executing_tx
           /\ k \in deferred_tx' <=> k \in deferred_tx
           /\ k \notin others => (k \in checked_tx' <=> k \in checked_tx)
    OBVIOUS
  <2> HIDE DEF others, key
  <2> QED BY <1>1, <2>1, <2>2, RoomShape
<1> QED BY <1>1, <1>2, <1>3 DEF L!Finish

\* Unprocessed responses and on_execute.
LEMMA ImplementsFinish ==
    ASSUME TypeOK, Ownership, NEW m \in execMsgs, ExecuteAnswer(m)
    PROVE  L!Finish(m.key) /\ m.key \in Key
<1>1. executing_tx' = executing_tx \ {m.key} /\ UNCHANGED slot
  BY DEF ExecuteAnswer, Unprocessed, ExecuteFinal, ExecuteRetry, Answered, clock
<1>2. CASE Unprocessed(m)
  <2> DEFINE gone == IF m.key \in Tx THEN {} ELSE {m.key}
  <2>1. /\ \A k \in Key : life'[k] = IF k \in gone THEN "dropped" ELSE life[k]
        /\ checked_tx' = IF m.key \in Tx THEN checked_tx \cup {m.key} ELSE checked_tx
        /\ deferred_tx' = deferred_tx
    BY <1>2 DEF Unprocessed, Drop
  <2>2. /\ gone \in SUBSET (checked_tx \cup {m.key}) /\ \A i, j \in gone \ {m.key} : i = j
        /\ m.key \in gone \cup checked_tx' \cup deferred_tx'
    BY <2>1
  <2> HIDE DEF gone
  <2> QED BY <1>1, <2>1, <2>2, FinishShape
<1>3. ASSUME NEW reason \in Reason, ExecuteFinal(m, reason)
      PROVE  L!Finish(m.key) /\ m.key \in Key
  <2> DEFINE gone == {m.key}
  <2>1. /\ \A k \in Key : life'[k] = IF k \in gone THEN "dropped" ELSE life[k]
        /\ checked_tx' = checked_tx /\ deferred_tx' = deferred_tx
    BY <1>3 DEF ExecuteFinal, Drop
  <2>2. /\ gone \in SUBSET (checked_tx \cup {m.key}) /\ \A i, j \in gone \ {m.key} : i = j
        /\ m.key \in gone \cup checked_tx' \cup deferred_tx'
    OBVIOUS
  <2> HIDE DEF gone
  <2> QED BY <1>1, <2>1, <2>2, FinishShape
<1>4. ASSUME NEW reason \in Reason, NEW at \in Slot, ExecuteRetry(m, reason, at)
      PROVE  L!Finish(m.key) /\ m.key \in Key
  <2> DEFINE defer == at = slot /\ reason # "in_use"
             kept == IF defer THEN checked_tx ELSE checked_tx \cup {m.key}
             parked == IF defer THEN deferred_tx \cup {m.key} ELSE deferred_tx
             over == Cardinality(kept) + Cardinality(executing_tx \ {m.key})
                       + Cardinality(parked) > CheckedCapacity
             gone == IF over THEN Lowest(kept) ELSE {}
  <2>1. /\ m.key \in Tx /\ deferred_tx' = parked /\ checked_tx' = kept \ gone /\ Drop(gone)
    BY <1>4 DEF ExecuteRetry
  <2>2. /\ kept \subseteq checked_tx \cup {m.key} /\ checked_tx \subseteq kept
        /\ parked \subseteq deferred_tx \cup {m.key} /\ deferred_tx \subseteq parked
        /\ m.key \in kept \cup parked
    OBVIOUS
  <2> HIDE DEF defer, kept, parked, over
  <2>3. kept \in SUBSET Tx
    BY <2>1, <2>2 DEF TypeOK
  <2>4. gone \subseteq kept /\ \A i, j \in gone : i = j
    BY <2>3, Selections, LowestAtMostOne
  <2> HIDE DEF gone
  <2>5. \A k \in Key : life'[k] = IF k \in gone THEN "dropped" ELSE life[k]
    BY <2>1 DEF Drop
  <2>6. /\ gone \in SUBSET (checked_tx \cup {m.key}) /\ \A i, j \in gone \ {m.key} : i = j
        /\ m.key \in gone \cup checked_tx' \cup deferred_tx'
        /\ \A k \in Key : k # m.key =>
             /\ k \in deferred_tx' <=> k \in deferred_tx
             /\ k \notin gone => (k \in checked_tx' <=> k \in checked_tx)
    BY <2>1, <2>2, <2>4
  <2> QED BY <1>1, <2>5, <2>6, FinishShape
<1> QED BY <1>2, <1>3, <1>4 DEF ExecuteAnswer

(***************************************************************************)
(* schedule_execute and check_slot_roll.                                   *)
(***************************************************************************)
\* try_schedule_transaction and try_schedule_bundle start what is ready and
\* excludes nothing that runs.
LEMMA ImplementsStart ==
    ASSUME TypeOK, Ownership, Locked, NEW x \in Tx \cup Bundle,
           (x \in Tx /\ TryScheduleTransaction(x)) \/ (x \in Bundle /\ TryScheduleBundle(x))
    PROVE  L!Start(KeysOf(x)) /\ KeysOf(x) \in Together
<1> DEFINE K == KeysOf(x)
<1>1. /\ executing_tx' = executing_tx \cup K /\ \A k \in K : CanLock(k)
      /\ UNCHANGED <<deferred_tx, life, slot>>
  BY DEF TryScheduleTransaction, TryScheduleBundle, Send, Fits, clock
<1>2. \/ /\ x \in Tx /\ x \in checked_tx /\ K = {x} /\ checked_tx' = checked_tx \ {x}
      \/ /\ x \in Bundle /\ x \in bundles /\ K = Member[x] /\ checked_tx' = checked_tx
  BY KeyFacts DEF TryScheduleTransaction, TryScheduleBundle, KeysOf
<1>3. K \in Together
  BY <1>2 DEF Together
<1> HIDE DEF K
<1>4. \A k \in K : k \in Key /\ phase[k] = "ready" /\ life[k] = "live"
  BY <1>2, PhaseOfContainer DEF Ownership, TransactionsAccounted, HeldAreLive, Held,
                                BundlesAccounted
<1>5. K \subseteq L!In("ready") /\ K \in SUBSET Key
  BY <1>4 DEF L!In
<1>6. L!Compatible(K)
  BY <1>1, <1>5, GrantedCompatible
<1>7. \A k \in K : phase'[k] = "running"
  BY <1>1, <1>4, PhaseValues
<1>8. \A k \in Key \ K : phase'[k] = phase[k]
  BY <1>1, <1>2, PhaseKept
<1>9. L!Others(K, {})
  BY <1>8, PhaseValues DEF L!Others
<1> QED BY <1>1, <1>3, <1>5, <1>6, <1>7, <1>9 DEF L!Start, K

\* What every outcome of check_slot_roll does to the slot and to the keys that
\* are not tip transactions: parked keys are ready when the slot moves.
LEMMA RollShape ==
    ASSUME TypeOK, Ownership, NEW v \in View, RollSlot(v), NEW K \in SUBSET Key,
           \A k \in K : life[k] = "fresh",
           \A k \in Key : k \notin K => life'[k] = life[k],
           \A k \in Key : k \notin K => (k \in executing_tx' <=> k \in executing_tx)
    PROVE  /\ slot' \in Nat /\ slot' >= slot
           /\ slot' # slot => \A k \in Key : phase'[k] # "parked"
           /\ K \subseteq L!In("absent")
           /\ L!Others(K, L!Moves)
<1>1. slot' = v.slot /\ slot' \in Nat /\ slot' >= slot
  BY SlotForward DEF RollSlot
<1>2. \/ slot' = slot /\ UNCHANGED <<checked_tx, deferred_tx>>
      \/ slot' # slot /\ checked_tx' = checked_tx \cup deferred_tx /\ deferred_tx' = {}
  BY DEF RollSlot
<1>3. slot' # slot => \A k \in Key : phase'[k] # "parked"
  BY <1>2, PhaseValues
<1>4. K \subseteq L!In("absent")
  BY PhaseValues DEF L!In
<1>5. ASSUME NEW k \in Key \ K, phase'[k] # phase[k]
      PROVE  <<phase[k], phase'[k]>> \in L!Moves
  <2>1. k \in deferred_tx /\ slot' # slot /\ deferred_tx' = {} /\ k \in checked_tx'
    BY <1>2, <1>5, PhaseKept
  <2>2. phase[k] = "parked"
    BY <2>1, PhaseOfContainer
  <2>3. life[k] = "live" /\ k \notin executing_tx
    BY <2>1 DEF Ownership, TransactionsAccounted, OneContainer, HeldAreLive, Held
  <2>4. phase'[k] = "ready"
    BY <2>1, <2>3, <1>5, PhaseValues
  <2> QED BY <2>1, <2>2, <2>4 DEF L!Moves
<1>6. L!Others(K, L!Moves)
  BY <1>5, PhaseValues DEF L!Others
<1> QED BY <1>1, <1>3, <1>4, <1>6

\* check_slot_roll and become_tip_receiver.
LEMMA ImplementsRoll ==
    ASSUME TypeOK, Ownership, Locked, Roll
    PROVE  (\E K \in Urgent \cup {{}} : L!Roll(K)) \/ UNCHANGED L!vars
<1>1. ASSUME NEW v \in View, CheckSlotRoll(v) PROVE L!Roll({})
  <2> DEFINE K == {}
  <2>1. RollSlot(v) /\ UNCHANGED <<life, executing_tx>>
    BY <1>1 DEF CheckSlotRoll
  <2>2. /\ K \in SUBSET Key /\ \A k \in K : life[k] = "fresh"
        /\ \A k \in Key : k \notin K => life'[k] = life[k]
        /\ \A k \in Key : k \notin K => (k \in executing_tx' <=> k \in executing_tx)
    BY <2>1
  <2>3. \A k \in K : phase'[k] = "gone"
    OBVIOUS
  <2> HIDE DEF K
  <2>4. L!Roll(K)
    BY <2>1, <2>2, <2>3, RollShape DEF L!Roll
  <2> QED BY <2>4 DEF K
<1>2. ASSUME NEW v \in View, NEW p \in TipPair, BecomeTipReceiver(v, p) \/ TipLocksRefused(v, p)
      PROVE  L!Roll(Member[p])
  <2> DEFINE K == Member[p]
  <2>1. RollSlot(v) /\ tipSlot[p] = 0
    BY <1>2 DEF BecomeTipReceiver, TipLocksRefused
  <2>2. K \in SUBSET Key /\ \A k \in K : life[k] = "fresh"
    BY <2>1, KeyFacts DEF Ownership, TipKeysFresh
  <2>3. \/ /\ executing_tx' = executing_tx \cup K /\ Admit(K) /\ \A k \in K : CanLock(k)
        \/ executing_tx' = executing_tx /\ Drop(K)
    BY <1>2 DEF BecomeTipReceiver, TipLocksRefused
  <2> HIDE DEF K
  <2>4. /\ \A k \in Key : k \notin K => life'[k] = life[k]
        /\ \A k \in Key : k \notin K => (k \in executing_tx' <=> k \in executing_tx)
    BY <2>3 DEF Admit, Drop
  <2>5. CASE executing_tx' = executing_tx \cup K /\ Admit(K) /\ \A k \in K : CanLock(k)
    <3>1. L!Compatible(K)
      BY <2>2, <2>5, GrantedCompatible
    <3>2. \A k \in K : phase'[k] = "running"
      BY <2>2, <2>5, PhaseValues DEF Admit
    <3> QED BY <2>1, <2>2, <2>4, <3>1, <3>2, RollShape DEF L!Roll, K
  <2>6. CASE executing_tx' = executing_tx /\ Drop(K)
    <3>1. \A k \in K : phase'[k] = "gone"
      BY <2>2, <2>6, PhaseValues DEF Drop
    <3> QED BY <2>1, <2>2, <2>4, <3>1, RollShape DEF L!Roll, K
  <2> QED BY <2>3, <2>5, <2>6
<1>3. ASSUME NEW v \in View, TipConfigMissing(v) PROVE UNCHANGED L!vars
  BY <1>3, PhasesKept DEF TipConfigMissing, Panics, store, clock
<1>4. {} \in Urgent \cup {{}} /\ \A p \in TipPair : Member[p] \in Urgent \cup {{}}
  BY DEF Urgent
<1> QED BY <1>1, <1>2, <1>3, <1>4 DEF Roll

(***************************************************************************)
(* The whole of Next.                                                      *)
(***************************************************************************)
\* Every step of the scheduler and of the validator is a step of TxLifecycle or
\* changes nothing that TxLifecycle sees.
LEMMA LifecycleStep ==
    ASSUME TypeOK, Ownership, Locked, Next
    PROVE  L!Next \/ UNCHANGED L!vars
<1>1. ASSUME NEW m \in execMsgs, ExecuteAnswer(m) PROVE L!Next
  BY <1>1, ImplementsFinish DEF L!Next
<1>2. ASSUME NEW k \in Tx, CheckAnswer(k) PROVE L!Next \/ UNCHANGED L!vars
  BY <1>2, ImplementsVerify, KeyFacts DEF L!Next
<1>3. ASSUME \/ \E k \in Tx : TryScheduleTransaction(k)
             \/ \E b \in Bundle : TryScheduleBundle(b)
      PROVE  L!Next
  BY <1>3, ImplementsStart DEF L!Next
<1>4. ASSUME \/ ScheduleChecks \/ ChecksDone \/ SkipWorker \/ EndPoll \/ Disconnected \/ Validator
             \/ \E b \in Bundle : LockedTwice(b)
      PROVE  UNCHANGED L!vars
  BY <1>4, PhasesKept DEF ScheduleChecks, ChecksDone, SkipWorker, EndPoll, Disconnected,
     LockedTwice, Panics, Validator, CheckWorkerTakes, BankAdvances, ExecWorkerTakes, BundleExpires,
     store, clock
<1>5. ASSUME Halted PROVE UNCHANGED L!vars
  BY <1>5, GroupsOfVars, PhasesKept DEF Halted
<1>6. ASSUME Roll PROVE L!Next \/ UNCHANGED L!vars
  BY <1>6, ImplementsRoll DEF L!Next
<1>7. ASSUME Ingest PROVE L!Next \/ UNCHANGED L!vars
  BY <1>7, ImplementsIngest DEF L!Next
<1> QED BY <1>1, <1>2, <1>3, <1>4, <1>5, <1>6, <1>7 DEF Next, Scheduler, Schedule

\* The batch scheduler implements TxLifecycle.
THEOREM LifecycleImplemented == Spec => ImplementsLifecycle
<1>1. Init => L!Init
  BY DEF Init, L!Init, phase
<1>2. TypeOK /\ Ownership /\ Locked /\ [Next]_vars => [L!Next]_(L!vars)
  <2>1. UNCHANGED vars => UNCHANGED L!vars
    BY GroupsOfVars, PhasesKept
  <2> QED BY <2>1, LifecycleStep
<1> QED
  BY <1>1, <1>2, TypeCorrect, OwnershipCorrect, LockedCorrect, PTL
     DEF Spec, ImplementsLifecycle, L!Spec
=============================================================================
