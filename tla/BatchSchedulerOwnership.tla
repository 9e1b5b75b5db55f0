---------------------- MODULE BatchSchedulerOwnership ----------------------
(***************************************************************************)
(* Ownership is inductive: every key is in the container its lifecycle says*)
(* it is in, and every executing key has exactly one request outstanding.  *)
(*                                                                         *)
(* The actions come in a few shapes (a key is admitted, checked, sent,     *)
(* answered).  One lemma proves each shape for arbitrary sets of keys; the *)
(* lemma of an action then only says which sets they are.                  *)
(***************************************************************************)
EXTENDS BatchSchedulerProofs

\* How the kinds of keys are related.
LEMMA KeyFacts ==
    /\ Tx \subseteq Key /\ GroupKey \subseteq Key /\ Tx \cap GroupKey = {}
    /\ Bundle \subseteq Group /\ TipPair \subseteq Group /\ Bundle \cap TipPair = {}
    /\ Tx \cap Bundle = {}
    /\ \A g \in Group : Member[g] \subseteq GroupKey
    /\ \A g, h \in Group : \A k \in Member[g] : k \in Member[h] => g = h
BY KeysAssumption DEF Key, GroupKey, Group

\* What Append does to a queue of check batches.
LEMMA QueueAppend ==
    ASSUME NEW q \in Seq(SUBSET Tx), NEW e \in SUBSET Tx
    PROVE  /\ \A i \in DOMAIN q : i \in DOMAIN Append(q, e) /\ Append(q, e)[i] = q[i]
           /\ \E i \in DOMAIN Append(q, e) : Append(q, e)[i] = e
           /\ \A i \in DOMAIN Append(q, e) :
                 Append(q, e)[i] = e \/ \E j \in DOMAIN q : Append(q, e)[i] = q[j]
<1>1. /\ DOMAIN q = 1..Len(q) /\ Len(q) \in Nat
      /\ DOMAIN Append(q, e) = 1..(Len(q) + 1)
  OBVIOUS
<1>2. /\ \A i \in 1..Len(q) : Append(q, e)[i] = q[i]
      /\ Append(q, e)[Len(q) + 1] = e
  OBVIOUS
<1>3. \A i \in 1..(Len(q) + 1) : i \in 1..Len(q) \/ i = Len(q) + 1
  BY <1>1
<1> QED BY <1>1, <1>2, <1>3

\* What Tail does to a queue of check batches.
LEMMA QueueTail ==
    ASSUME NEW q \in Seq(SUBSET Tx), q # <<>>
    PROVE  /\ 1 \in DOMAIN q /\ Head(q) = q[1] /\ Head(q) \in SUBSET Tx
           /\ \A i \in DOMAIN Tail(q) : \E j \in DOMAIN q : Tail(q)[i] = q[j]
           /\ \A j \in DOMAIN q : q[j] = Head(q) \/ \E i \in DOMAIN Tail(q) : Tail(q)[i] = q[j]
<1>1. /\ DOMAIN q = 1..Len(q) /\ Len(q) \in Nat /\ Len(q) > 0 /\ Head(q) = q[1]
      /\ DOMAIN Tail(q) = 1..(Len(q) - 1)
  OBVIOUS
<1>2. \A i \in 1..(Len(q) - 1) : Tail(q)[i] = q[i + 1]
  OBVIOUS
<1>3. \A i \in 1..(Len(q) - 1) : i + 1 \in 1..Len(q)
  BY <1>1
<1>4. \A j \in 1..Len(q) : j = 1 \/ (j - 1 \in 1..(Len(q) - 1) /\ (j - 1) + 1 = j)
  BY <1>1
<1>5. 1 \in DOMAIN q /\ Head(q) \in SUBSET Tx
  BY <1>1
<1>6. \A i \in DOMAIN Tail(q) : \E j \in DOMAIN q : Tail(q)[i] = q[j]
  BY <1>1, <1>2, <1>3
<1>7. \A j \in DOMAIN q : q[j] = Head(q) \/ \E i \in DOMAIN Tail(q) : Tail(q)[i] = q[j]
  <2> TAKE j \in DOMAIN q
  <2>1. CASE j = 1
    BY <2>1, <1>1
  <2>2. CASE j # 1
    <3>1. j - 1 \in DOMAIN Tail(q) /\ Tail(q)[j - 1] = q[j]
      BY <2>2, <1>1, <1>2, <1>4
    <3> QED BY <3>1
  <2> QED BY <2>1, <2>2
<1> QED BY <1>1, <1>5, <1>6, <1>7

\* A step that leaves the containers, the messages and the store alone.
LEMMA OwnFrame ==
    ASSUME Ownership, UNCHANGED <<unchecked_tx, checked_tx, executing_tx, deferred_tx,
                                  bundles, checkQ, checking, execMsgs, life, tipSlot>>
    PROVE  Ownership'
BY DEF Ownership, TransactionsAccounted, OneContainer, HeldAreLive, NeverLost, Held,
       Requested, BundlesAccounted, RequestsMatchExecuting, ChecksTracked, TipKeysFresh

(***************************************************************************)
(* Admission: new arrives, good of it is kept, gone is evicted to make room*)
(* and the bundles old are dropped.                                        *)
(***************************************************************************)
\* drain_tpu, drop_expired_bundles and on_packet preserve Ownership: what they
\* drop is in no other container and has no check outstanding.
LEMMA OwnAdmission ==
    ASSUME TypeOK, Ownership,
           NEW new \in SUBSET Tx, NEW good \in SUBSET new,
           NEW gone \in SUBSET unchecked_tx, NEW old \in SUBSET bundles,
           Fresh(new),
           unchecked_tx' = (unchecked_tx \ gone) \cup good,
           bundles' = bundles \ old,
           life' = [k \in Key |->
                      IF k \in good THEN "live"
                      ELSE IF k \in new \cup gone \cup UNION {Member[b] : b \in old}
                           THEN "dropped" ELSE life[k]],
           UNCHANGED <<checked_tx, executing_tx, deferred_tx, checkQ, checking, execMsgs,
                       tipSlot>>
    PROVE  Ownership'
<1> DEFINE stale == UNION {Member[b] : b \in old}
<1>1. new \cap Held = {}
  BY DEF Ownership, TransactionsAccounted, HeldAreLive, Fresh
<1>2. gone \subseteq Tx /\ gone \cap (checked_tx \cup executing_tx \cup deferred_tx) = {}
  BY DEF Ownership, TransactionsAccounted, OneContainer, TypeOK
<1>3. stale \subseteq GroupKey /\ stale \cap executing_tx = {} /\ stale \cap Tx = {}
  BY KeyFacts DEF Ownership, BundlesAccounted, TypeOK
<1>4. \A k \in Key : /\ k \in good => life'[k] = "live"
                     /\ k \notin good /\ k \in new \cup gone \cup stale => life'[k] = "dropped"
                     /\ k \notin new \cup gone \cup stale => life'[k] = life[k]
  OBVIOUS
<1>5. OneContainer'
  BY <1>1 DEF Ownership, TransactionsAccounted, OneContainer, Held
<1>6. HeldAreLive'
  <2> SUFFICES ASSUME NEW k \in Held' PROVE life'[k] = "live"
    BY DEF HeldAreLive
  <2>1. k \in Key /\ (k \in good \/ k \in Held \ gone)
    BY <1>2, KeyFacts DEF Held, TypeOK
  <2>2. k \in Held => k \notin new \cup stale /\ life[k] = "live"
    BY <1>1, <1>3 DEF Held, Ownership, TransactionsAccounted, HeldAreLive, TypeOK
  <2> QED BY <2>1, <2>2, <1>4
<1>7. NeverLost'
  <2> SUFFICES ASSUME NEW k \in Tx, life'[k] = "live" PROVE k \in Held' \cup Requested'
    BY DEF NeverLost
  <2>1. k \in good \/ (k \notin gone /\ life[k] = "live")
    BY <1>4, KeyFacts
  <2>2. Requested' = Requested
    BY DEF Requested
  <2>3. life[k] = "live" => k \in Held \cup Requested
    BY DEF Ownership, TransactionsAccounted, NeverLost
  <2> QED BY <2>1, <2>2, <2>3 DEF Held
<1>8. BundlesAccounted'
  <2>1. ASSUME NEW b \in bundles', NEW k \in Member[b]
        PROVE  life'[k] = "live" /\ k \notin executing_tx'
    <3>1. b \in bundles /\ b \notin old /\ k \in GroupKey
      BY <2>1, KeyFacts DEF TypeOK
    <3>2. k \notin stale
      BY <3>1, <2>1, KeyFacts DEF TypeOK
    <3>3. k \notin new \cup gone
      BY <3>1, <1>2, KeyFacts
    <3> QED BY <2>1, <3>1, <3>2, <3>3, <1>4, KeyFacts DEF Ownership, BundlesAccounted
  <2>2. ASSUME NEW k \in GroupKey, life'[k] = "live"
        PROVE  k \in executing_tx' \/ \E b \in bundles' : k \in Member[b]
    <3>1. k \notin stale /\ life[k] = "live"
      BY <2>2, <1>4, KeyFacts
    <3> QED BY <2>2, <3>1 DEF Ownership, BundlesAccounted
  <2> QED BY <2>1, <2>2 DEF BundlesAccounted
<1>9. RequestsMatchExecuting'
  BY DEF Ownership, RequestsMatchExecuting
<1>10. ChecksTracked'
  <2>1. ASSUME NEW k \in Tx, checking'[k] > 0 PROVE life'[k] = "live" /\ k \notin unchecked_tx'
    <3>1. life[k] = "live" /\ k \notin unchecked_tx
      BY <2>1 DEF Ownership, ChecksTracked
    <3>2. k \notin new \cup gone \cup stale
      BY <2>1, <3>1, <1>3 DEF Fresh
    <3> QED BY <2>1, <3>1, <3>2, <1>4, KeyFacts
  <2>2. ASSUME NEW i \in DOMAIN checkQ', NEW k \in checkQ'[i]
        PROVE  life'[k] # "fresh" /\ k \notin unchecked_tx'
    <3>1. k \in Tx /\ life[k] # "fresh" /\ k \notin unchecked_tx
      BY <2>2 DEF Ownership, ChecksTracked, TypeOK
    <3>2. k \notin new
      BY <3>1 DEF Fresh
    <3> QED BY <3>1, <3>2, <1>4, KeyFacts
  <2> QED BY <2>1, <2>2 DEF ChecksTracked
<1>11. TipKeysFresh'
  <2> SUFFICES ASSUME NEW p \in TipPair, tipSlot[p] = 0, NEW k \in Member[p]
               PROVE  life'[k] = "fresh"
    BY DEF TipKeysFresh
  <2>1. k \in GroupKey /\ k \notin Tx /\ life[k] = "fresh"
    BY KeyFacts DEF Ownership, TipKeysFresh
  <2>2. k \notin stale
    BY KeyFacts DEF TypeOK
  <2> QED BY <2>1, <2>2, <1>2, <1>4, KeyFacts
<1> QED BY <1>5, <1>6, <1>7, <1>8, <1>9, <1>10, <1>11 DEF Ownership, TransactionsAccounted

\* The step of drain_tpu and drop_expired_bundles.
LEMMA OwnTpu ==
    ASSUME TypeOK, Ownership, NEW counted, NEW arrived \in SUBSET Tx,
           NEW good \in SUBSET arrived, DrainTpuDropExpired(counted, arrived, good)
    PROVE  Ownership'
<1> DEFINE shortfall == SatSub(Cardinality(unchecked_tx) + counted, UncheckedCapacity)
           gone == Bottom(unchecked_tx, shortfall)
           old == bundles \cap expired
<1>1. CASE Panics("evict_unchecked")
  BY <1>1, OwnFrame DEF Panics, store, messages
<1>2. CASE ~Panics("evict_unchecked")
  <2>1. /\ Fresh(arrived)
        /\ unchecked_tx' = (unchecked_tx \ gone) \cup good
        /\ bundles' = bundles \ expired
        /\ life' = [k \in Key |->
                      IF k \in good THEN "live"
                      ELSE IF k \in arrived \cup gone \cup UNION {Member[b] : b \in old}
                           THEN "dropped" ELSE life[k]]
        /\ UNCHANGED <<checked_tx, executing_tx, deferred_tx, messages, tipSlot>>
    BY <1>2 DEF DrainTpuDropExpired
  <2>2. bundles' = bundles \ old
    BY <2>1
  <2>3. gone \in SUBSET unchecked_tx /\ old \in SUBSET bundles
    BY Selections
  <2> HIDE DEF gone, old
  <2> QED BY <2>1, <2>2, <2>3, OwnAdmission DEF messages
<1> QED BY <1>1, <1>2

\* The step of on_packet.
LEMMA OwnPacket ==
    ASSUME TypeOK, Ownership, NEW k \in Tx, NEW good \in BOOLEAN, OnPacket(k, good)
    PROVE  Ownership'
<1> DEFINE full == Cardinality(unchecked_tx) = UncheckedCapacity
           gone == IF full /\ good THEN Lowest(unchecked_tx) ELSE {}
           kept == IF good THEN {k} ELSE {}
           new == {k}
           old == {}
<1>1. CASE Panics("evict_unchecked")
  BY <1>1, OwnFrame DEF Panics, store, messages
<1>2. CASE ~Panics("evict_unchecked")
  <2>1. /\ Fresh({k})
        /\ unchecked_tx' = IF good THEN (unchecked_tx \ gone) \cup {k} ELSE unchecked_tx
        /\ life' = [j \in Key |->
                      IF j = k THEN (IF good THEN "live" ELSE "dropped")
                      ELSE IF j \in gone THEN "dropped" ELSE life[j]]
        /\ UNCHANGED <<checked_tx, executing_tx, deferred_tx, bundles, messages, tipSlot>>
    BY <1>2 DEF OnPacket
  <2>2. gone \in SUBSET unchecked_tx /\ kept \in SUBSET {k} /\ (~good => gone = {})
    BY Selections
  <2>3. unchecked_tx' = (unchecked_tx \ gone) \cup kept
    BY <2>1, <2>2
  <2>4. /\ kept = {k} \/ (kept = {} /\ ~good)
        /\ kept = {k} => good
    OBVIOUS
  <2>5. life' = [j \in Key |->
                   IF j \in kept THEN "live"
                   ELSE IF j \in new \cup gone \cup UNION {Member[b] : b \in old}
                        THEN "dropped" ELSE life[j]]
    <3>1. UNION {Member[b] : b \in old} = {}
      OBVIOUS
    <3> HIDE DEF gone, kept, old
    <3> QED BY <2>1, <2>4, <3>1
  <2>6. /\ bundles' = bundles \ old /\ old \in SUBSET bundles /\ new \in SUBSET Tx
        /\ Fresh(new) /\ kept \in SUBSET new
    BY <2>1
  <2>7. /\ gone \in SUBSET unchecked_tx
        /\ UNCHANGED <<checked_tx, executing_tx, deferred_tx, checkQ, checking, execMsgs,
                       tipSlot>>
    BY <2>1, <2>2 DEF messages
  <2> HIDE DEF gone, kept, new, old
  <2> QED BY <2>3, <2>5, <2>6, <2>7, OwnAdmission
<1> QED BY <1>1, <1>2

(***************************************************************************)
(* Bundles arrive.                                                         *)
(***************************************************************************)
\* The step of on_bundle: the keys of the new bundle are in no container, and
\* those of an evicted one are not executing.
LEMMA OwnBundle ==
    ASSUME TypeOK, Ownership, NEW b \in Bundle, NEW good \in BOOLEAN, OnBundle(b, good)
    PROVE  Ownership'
<1> DEFINE full == Cardinality(bundles) = BundleCapacity
           evicted == IF full /\ good THEN Lowest(bundles) ELSE {}
           gone == UNION {Member[e] : e \in evicted}
<1>1. CASE Panics("evict_bundle")
  BY <1>1, OwnFrame DEF Panics, store, messages
<1>2. CASE ~Panics("evict_bundle")
  <2>1. /\ Fresh(Member[b])
        /\ bundles' = IF good THEN (bundles \ evicted) \cup {b} ELSE bundles
        /\ life' = [k \in Key |->
                      IF k \in Member[b] THEN (IF good THEN "live" ELSE "dropped")
                      ELSE IF k \in gone THEN "dropped" ELSE life[k]]
        /\ UNCHANGED <<unchecked_tx, checked_tx, executing_tx, deferred_tx, messages,
                       tipSlot>>
    BY <1>2 DEF OnBundle
  <2>2. evicted \subseteq bundles /\ (~good => evicted = {})
    BY Selections
  <2>3. Member[b] \subseteq GroupKey /\ Member[b] \cap Held = {} /\ Member[b] \cap Tx = {}
    BY <2>1, KeyFacts DEF Fresh, Ownership, TransactionsAccounted, HeldAreLive
  <2>4. gone \subseteq GroupKey /\ gone \cap executing_tx = {} /\ gone \cap Tx = {}
    <3> HIDE DEF evicted
    <3> QED BY <2>2, KeyFacts DEF Ownership, BundlesAccounted, TypeOK
  <2>5. \A k \in Key : /\ k \notin Member[b] \cup gone => life'[k] = life[k]
                       /\ k \in Member[b] => life'[k] = IF good THEN "live" ELSE "dropped"
                       /\ k \notin Member[b] /\ k \in gone => life'[k] = "dropped"
    <3> HIDE DEF evicted, gone
    <3> QED BY <2>1
  <2>6. \A k \in Tx : life'[k] = life[k]
    <3> HIDE DEF evicted, gone
    <3> QED BY <2>3, <2>4, <2>5, KeyFacts
  <2>7. b \notin bundles \/ Member[b] = {}
    BY <2>1 DEF Fresh, Ownership, BundlesAccounted
  <2>8. OneContainer' /\ NeverLost' /\ RequestsMatchExecuting'
    BY <2>1, <2>6 DEF messages, Ownership, TransactionsAccounted, OneContainer, NeverLost,
                      Held, Requested, RequestsMatchExecuting
  <2>9. HeldAreLive'
    <3> SUFFICES ASSUME NEW k \in Held PROVE life'[k] = "live"
      BY <2>1 DEF HeldAreLive, Held
    <3>1. k \in Key /\ k \notin Member[b] \cup gone
      <4> HIDE DEF evicted, gone
      <4> QED BY <2>3, <2>4, KeyFacts DEF Held, TypeOK
    <3> HIDE DEF evicted, gone
    <3> QED BY <3>1, <2>5 DEF Ownership, TransactionsAccounted, HeldAreLive
  <2>10. BundlesAccounted'
    <3>1. ASSUME NEW c \in bundles', NEW k \in Member[c]
          PROVE  life'[k] = "live" /\ k \notin executing_tx'
      <4>1. CASE c = b /\ good
        BY <3>1, <4>1, <2>1, <2>3, <2>5, KeyFacts DEF Held
      <4>2. CASE c # b \/ ~good
        <5>1. c \in bundles /\ c \notin evicted
          BY <3>1, <4>2, <2>1, <2>2
        <5>2. k \notin gone
          <6> HIDE DEF evicted
          <6> QED BY <3>1, <5>1, <2>2, KeyFacts DEF TypeOK
        <5>3. life[k] = "live" /\ k \notin executing_tx /\ k \in Key
          BY <3>1, <5>1, KeyFacts DEF Ownership, BundlesAccounted, TypeOK
        <5>4. k \notin Member[b]
          BY <5>3, <2>1 DEF Fresh
        <5> HIDE DEF evicted, gone
        <5> QED BY <2>1, <2>5, <5>2, <5>3, <5>4
      <4> QED BY <4>1, <4>2
    <3>2. ASSUME NEW k \in GroupKey, life'[k] = "live"
          PROVE  k \in executing_tx' \/ \E c \in bundles' : k \in Member[c]
      <4>1. CASE k \in Member[b]
        <5>1. good
          BY <3>2, <4>1, <2>5, KeyFacts
        <5> QED BY <4>1, <5>1, <2>1
      <4>2. CASE k \notin Member[b]
        <5>1. k \notin gone /\ life[k] = "live"
          <6> HIDE DEF evicted, gone
          <6> QED BY <3>2, <4>2, <2>5, KeyFacts
        <5>2. k \in executing_tx \/ \E c \in bundles : k \in Member[c]
          BY <5>1 DEF Ownership, BundlesAccounted
        <5>3. \A c \in bundles : k \in Member[c] => c \notin evicted
          <6> HIDE DEF evicted
          <6> QED BY <5>1
        <5> HIDE DEF evicted, gone
        <5> QED BY <5>2, <5>3, <2>1
      <4> QED BY <4>1, <4>2
    <3> QED BY <3>1, <3>2 DEF BundlesAccounted
  <2>11. ChecksTracked'
    <3>1. \A i \in DOMAIN checkQ : checkQ[i] \subseteq Tx
      BY DEF TypeOK
    <3> HIDE DEF evicted, gone
    <3> QED BY <2>1, <2>6, <3>1 DEF messages, Ownership, ChecksTracked
  <2>12. TipKeysFresh'
    <3> SUFFICES ASSUME NEW p \in TipPair, tipSlot[p] = 0, NEW k \in Member[p]
                 PROVE  life'[k] = "fresh"
      BY <2>1 DEF TipKeysFresh
    <3>1. k \in Key /\ life[k] = "fresh" /\ k \notin Member[b]
      BY KeyFacts DEF Ownership, TipKeysFresh
    <3>2. k \notin gone
      <4> HIDE DEF evicted
      <4> QED BY <2>2, KeyFacts DEF TypeOK
    <3> HIDE DEF evicted, gone
    <3> QED BY <2>5, <3>1, <3>2
  <2> QED BY <2>8, <2>9, <2>10, <2>11, <2>12 DEF Ownership, TransactionsAccounted
<1> QED BY <1>1, <1>2

(***************************************************************************)
(* Answers: the key of m leaves executing_tx, back of it returns to        *)
(* checked_tx, parked of it is deferred, gone is dropped.                  *)
(***************************************************************************)
\* An answer to an execute request preserves Ownership, wherever its key goes.
LEMMA OwnReturn ==
    ASSUME TypeOK, Ownership, NEW m \in execMsgs,
           NEW back \in SUBSET Tx, NEW parked \in SUBSET Tx,
           NEW gone \in SUBSET (checked_tx \cup {m.key}),
           back \subseteq {m.key}, parked \subseteq {m.key}, back \cap parked = {},
           m.key \in back \cup parked \cup gone, gone \cap parked = {},
           execMsgs' = execMsgs \ {m}, executing_tx' = executing_tx \ {m.key},
           checked_tx' = (checked_tx \cup back) \ gone,
           deferred_tx' = deferred_tx \cup parked,
           \A k \in Key : life'[k] = IF k \in gone THEN "dropped" ELSE life[k],
           \A k \in Tx : checking'[k] = IF k \in gone THEN 0 ELSE checking[k],
           UNCHANGED <<unchecked_tx, bundles, checkQ, tipSlot>>
    PROVE  Ownership'
<1> DEFINE key == m.key
<1>1. key \in executing_tx /\ key \in Key /\ life[key] = "live"
  BY DEF Ownership, RequestsMatchExecuting, TransactionsAccounted, HeldAreLive, Held,
         TypeOK, ExecMsg
<1>2. key \notin unchecked_tx /\ key \notin checked_tx /\ key \notin deferred_tx
  BY <1>1 DEF Ownership, TransactionsAccounted, OneContainer
<1>3. \A b \in bundles : key \notin Member[b]
  BY <1>1 DEF Ownership, BundlesAccounted
<1>4. gone \subseteq Key /\ gone \cap (unchecked_tx \cup deferred_tx) = {}
      /\ gone \cap executing_tx \subseteq {key}
  BY <1>1, <1>2, KeyFacts DEF Ownership, TransactionsAccounted, OneContainer, TypeOK
<1>5. OneContainer'
  BY <1>1, <1>2 DEF Ownership, TransactionsAccounted, OneContainer
<1>6. HeldAreLive'
  <2> SUFFICES ASSUME NEW k \in Held' PROVE life'[k] = "live"
    BY DEF HeldAreLive
  <2>1. k \in Held /\ k \in Key /\ k \notin gone
    BY <1>1, <1>4, KeyFacts DEF Held, TypeOK
  <2> QED BY <2>1 DEF Ownership, TransactionsAccounted, HeldAreLive
<1>7. NeverLost'
  <2> SUFFICES ASSUME NEW k \in Tx, life'[k] = "live" PROVE k \in Held' \cup Requested'
    BY DEF NeverLost
  <2>1. k \notin gone /\ life[k] = "live"
    BY KeyFacts
  <2>2. k \in Held \cup Requested
    BY <2>1 DEF Ownership, TransactionsAccounted, NeverLost
  <2>3. k \in Held => k \in Held'
    BY <2>1 DEF Held
  <2>4. k \in Requested => k \in Requested'
    BY <2>1 DEF Requested
  <2> QED BY <2>2, <2>3, <2>4
<1>8. BundlesAccounted'
  <2>1. ASSUME NEW b \in bundles, NEW k \in Member[b]
        PROVE  life'[k] = "live" /\ k \notin executing_tx'
    <3>1. k \in Key /\ k \notin Tx /\ k # key
      BY <2>1, <1>3, KeyFacts DEF TypeOK
    <3>2. k \notin gone
      BY <3>1 DEF TypeOK
    <3> QED BY <2>1, <3>1, <3>2 DEF Ownership, BundlesAccounted
  <2>2. ASSUME NEW k \in GroupKey, life'[k] = "live"
        PROVE  k \in executing_tx' \/ \E b \in bundles : k \in Member[b]
    <3>1. k \notin gone /\ life[k] = "live" /\ k \notin Tx
      BY <2>2, KeyFacts
    <3>2. k # key
      BY <3>1
    <3> QED BY <2>2, <3>1, <3>2 DEF Ownership, BundlesAccounted
  <2> QED BY <2>1, <2>2 DEF BundlesAccounted
<1>9. RequestsMatchExecuting'
  <2>1. \A n \in execMsgs : n.key = key => n = m
    BY DEF Ownership, RequestsMatchExecuting
  <2>2. executing_tx' = {n.key : n \in execMsgs'}
    BY <2>1 DEF Ownership, RequestsMatchExecuting
  <2> QED BY <2>2 DEF Ownership, RequestsMatchExecuting
<1>10. ChecksTracked'
  <2>1. ASSUME NEW k \in Tx, checking'[k] > 0 PROVE life'[k] = "live" /\ k \notin unchecked_tx'
    <3>1. k \notin gone
      BY <2>1
    <3> QED BY <2>1, <3>1, KeyFacts DEF Ownership, ChecksTracked
  <2>2. ASSUME NEW i \in DOMAIN checkQ, NEW k \in checkQ[i]
        PROVE  life'[k] # "fresh" /\ k \notin unchecked_tx'
    <3>1. k \in Tx
      BY <2>2 DEF TypeOK
    <3> QED BY <2>2, <3>1, KeyFacts DEF Ownership, ChecksTracked
  <2> QED BY <2>1, <2>2 DEF ChecksTracked
<1>11. TipKeysFresh'
  <2> SUFFICES ASSUME NEW p \in TipPair, tipSlot[p] = 0, NEW k \in Member[p]
               PROVE  life'[k] = "fresh"
    BY DEF TipKeysFresh
  <2>1. k \in Key /\ k \notin Tx /\ life[k] = "fresh"
    BY KeyFacts DEF Ownership, TipKeysFresh
  <2>2. k \notin gone
    BY <2>1, <1>1 DEF TypeOK
  <2> QED BY <2>1, <2>2
<1> QED BY <1>5, <1>6, <1>7, <1>8, <1>9, <1>10, <1>11 DEF Ownership, TransactionsAccounted

\* The key of the answer is dropped.
LEMMA OwnDropped ==
    ASSUME TypeOK, Ownership, NEW m \in execMsgs,
           execMsgs' = execMsgs \ {m}, executing_tx' = executing_tx \ {m.key}, Drop({m.key}),
           UNCHANGED <<unchecked_tx, checked_tx, deferred_tx, bundles, checkQ, tipSlot>>
    PROVE  Ownership'
<1> DEFINE back == {}
           parked == {}
           gone == {m.key}
<1>1. /\ back \in SUBSET Tx /\ parked \in SUBSET Tx /\ gone \in SUBSET (checked_tx \cup {m.key})
      /\ back \subseteq {m.key} /\ parked \subseteq {m.key} /\ back \cap parked = {}
      /\ m.key \in back \cup parked \cup gone /\ gone \cap parked = {}
  OBVIOUS
<1>2. m.key \notin checked_tx
  BY DEF Ownership, RequestsMatchExecuting, TransactionsAccounted, OneContainer
<1>3. checked_tx' = (checked_tx \cup back) \ gone /\ deferred_tx' = deferred_tx \cup parked
  BY <1>2
<1>4. /\ \A k \in Key : life'[k] = IF k \in gone THEN "dropped" ELSE life[k]
      /\ \A k \in Tx : checking'[k] = IF k \in gone THEN 0 ELSE checking[k]
  BY DEF Drop
<1> HIDE DEF back, parked, gone
<1> QED BY <1>1, <1>3, <1>4, OwnReturn

\* The key of the answer is a transaction and returns to checked_tx.
LEMMA OwnBack ==
    ASSUME TypeOK, Ownership, NEW m \in execMsgs, m.key \in Tx,
           execMsgs' = execMsgs \ {m}, executing_tx' = executing_tx \ {m.key},
           checked_tx' = checked_tx \cup {m.key},
           UNCHANGED <<unchecked_tx, deferred_tx, bundles, checkQ, tipSlot, life, checking>>
    PROVE  Ownership'
<1> DEFINE back == {m.key}
           parked == {}
           gone == {}
<1>1. /\ back \in SUBSET Tx /\ parked \in SUBSET Tx /\ gone \in SUBSET (checked_tx \cup {m.key})
      /\ back \subseteq {m.key} /\ parked \subseteq {m.key} /\ back \cap parked = {}
      /\ m.key \in back \cup parked \cup gone /\ gone \cap parked = {}
  OBVIOUS
<1>2. checked_tx' = (checked_tx \cup back) \ gone /\ deferred_tx' = deferred_tx \cup parked
  OBVIOUS
<1>3. /\ \A k \in Key : life'[k] = IF k \in gone THEN "dropped" ELSE life[k]
      /\ \A k \in Tx : checking'[k] = IF k \in gone THEN 0 ELSE checking[k]
  OBVIOUS
<1> HIDE DEF back, parked, gone
<1> QED BY <1>1, <1>2, <1>3, OwnReturn

\* The key of the answer is a transaction and is kept, deferred or in checked_tx,
\* from which some, the key itself included, may be evicted.
LEMMA OwnRetried ==
    ASSUME TypeOK, Ownership, NEW m \in execMsgs, m.key \in Tx,
           NEW kept, NEW gone \in SUBSET kept,
           \/ kept = checked_tx /\ deferred_tx' = deferred_tx \cup {m.key}
           \/ kept = checked_tx \cup {m.key} /\ deferred_tx' = deferred_tx,
           execMsgs' = execMsgs \ {m}, executing_tx' = executing_tx \ {m.key},
           checked_tx' = kept \ gone,
           Drop(gone), UNCHANGED <<unchecked_tx, bundles, checkQ, tipSlot>>
    PROVE  Ownership'
<1> DEFINE back == kept \ checked_tx
           parked == {m.key} \ kept
<1>1. m.key \notin checked_tx
  BY DEF Ownership, RequestsMatchExecuting, TransactionsAccounted, OneContainer
<1>2. /\ back \in SUBSET Tx /\ parked \in SUBSET Tx
      /\ back \subseteq {m.key} /\ parked \subseteq {m.key} /\ back \cap parked = {}
      /\ m.key \in back \cup parked \cup gone
      /\ gone \in SUBSET (checked_tx \cup {m.key}) /\ gone \cap parked = {}
  BY <1>1
<1>3. deferred_tx' = deferred_tx \cup parked /\ checked_tx' = (checked_tx \cup back) \ gone
  BY <1>1
<1>4. /\ \A k \in Key : life'[k] = IF k \in gone THEN "dropped" ELSE life[k]
      /\ \A k \in Tx : checking'[k] = IF k \in gone THEN 0 ELSE checking[k]
  BY DEF Drop
<1> HIDE DEF back, parked
<1> QED BY <1>2, <1>3, <1>4, OwnReturn

\* An Unprocessed answer: a transaction returns to checked_tx, a bundle's or a
\* tip pair's key is dropped.
LEMMA OwnUnprocessed ==
    ASSUME TypeOK, Ownership, NEW m \in execMsgs, Unprocessed(m)
    PROVE  Ownership'
<1>1. /\ execMsgs' = execMsgs \ {m} /\ executing_tx' = executing_tx \ {m.key}
      /\ UNCHANGED <<unchecked_tx, deferred_tx, bundles, checkQ, tipSlot>>
  BY DEF Unprocessed, Answered
<1>2. CASE m.key \in Tx
  BY <1>1, <1>2, OwnBack DEF Unprocessed
<1>3. CASE m.key \notin Tx
  BY <1>1, <1>3, OwnDropped DEF Unprocessed
<1> QED BY <1>2, <1>3

\* A final answer drops its key.
LEMMA OwnFinal ==
    ASSUME TypeOK, Ownership, NEW m \in execMsgs, NEW reason \in Reason,
           ExecuteFinal(m, reason)
    PROVE  Ownership'
BY OwnDropped DEF ExecuteFinal, Answered

\* A retryable failure.
LEMMA OwnRetry ==
    ASSUME TypeOK, Ownership, NEW m \in execMsgs, NEW reason \in Reason, NEW at \in Slot,
           ExecuteRetry(m, reason, at)
    PROVE  Ownership'
<1> DEFINE defer == at = slot /\ reason # "in_use"
           kept == IF defer THEN checked_tx ELSE checked_tx \cup {m.key}
           parked == IF defer THEN deferred_tx \cup {m.key} ELSE deferred_tx
           over == Cardinality(kept) + Cardinality(executing_tx \ {m.key})
                     + Cardinality(parked) > CheckedCapacity
           gone == IF over THEN Lowest(kept) ELSE {}
<1>1. m.key \in Tx /\ deferred_tx' = parked /\ checked_tx' = kept \ gone /\ Drop(gone)
  BY DEF ExecuteRetry
<1>2. /\ execMsgs' = execMsgs \ {m} /\ executing_tx' = executing_tx \ {m.key}
      /\ UNCHANGED <<unchecked_tx, bundles, checkQ, tipSlot>>
  BY DEF ExecuteRetry, Answered
<1>3. /\ gone \in SUBSET kept
      /\ \/ kept = checked_tx /\ deferred_tx' = deferred_tx \cup {m.key}
         \/ kept = checked_tx \cup {m.key} /\ deferred_tx' = deferred_tx
  BY <1>1, Selections
<1> HIDE DEF defer, kept, parked, over, gone
<1> QED BY <1>1, <1>2, <1>3, OwnRetried

(***************************************************************************)
(* Check answers: add enters checked_tx, gone is dropped, and a check of k *)
(* is answered.                                                            *)
(***************************************************************************)
\* An answered check preserves Ownership when its key is afterwards in a
\* container or dropped: nothing else accounts for a key whose check is answered.
LEMMA OwnChecked ==
    ASSUME TypeOK, Ownership, NEW k \in Tx, checking[k] > 0,
           NEW add \in SUBSET {k}, NEW gone \in SUBSET (checked_tx \cup {k}),
           k \in add \cup gone \cup checked_tx \cup executing_tx \cup deferred_tx,
           k \in add \cup gone => k \notin executing_tx \cup deferred_tx,
           checked_tx' = (checked_tx \cup add) \ gone,
           \A j \in Key : life'[j] = IF j \in gone THEN "dropped" ELSE life[j],
           \A j \in Tx : j \in gone => checking'[j] = 0,
           \A j \in Tx : j # k /\ j \notin gone => checking'[j] = checking[j],
           UNCHANGED <<unchecked_tx, executing_tx, deferred_tx, bundles, checkQ, execMsgs,
                       tipSlot>>
    PROVE  Ownership'
<1>1. life[k] = "live" /\ k \notin unchecked_tx
  BY DEF Ownership, ChecksTracked
<1>2. gone \subseteq Tx /\ gone \cap (unchecked_tx \cup executing_tx \cup deferred_tx) = {}
  BY <1>1 DEF Ownership, TransactionsAccounted, OneContainer, TypeOK
<1>3. \A j \in Key : j \notin gone => life'[j] = life[j]
  OBVIOUS
<1>4. OneContainer'
  BY <1>1 DEF Ownership, TransactionsAccounted, OneContainer
<1>5. HeldAreLive'
  <2> SUFFICES ASSUME NEW j \in Held' PROVE life'[j] = "live"
    BY DEF HeldAreLive
  <2>1. j \in Key /\ j \notin gone /\ (j = k \/ j \in Held)
    BY <1>2, KeyFacts DEF Held, TypeOK
  <2> QED BY <2>1, <1>1, <1>3 DEF Ownership, TransactionsAccounted, HeldAreLive
<1>6. NeverLost'
  <2> SUFFICES ASSUME NEW j \in Tx, life'[j] = "live" PROVE j \in Held' \cup Requested'
    BY DEF NeverLost
  <2>1. j \notin gone /\ life[j] = "live"
    BY KeyFacts
  <2>2. CASE j = k
    BY <2>1, <2>2 DEF Held
  <2>3. CASE j # k
    <3>1. j \in Held \cup Requested
      BY <2>1 DEF Ownership, TransactionsAccounted, NeverLost
    <3>2. j \in Held => j \in Held'
      BY <2>1 DEF Held
    <3>3. j \in Requested => j \in Requested'
      BY <2>1, <2>3 DEF Requested
    <3> QED BY <3>1, <3>2, <3>3
  <2> QED BY <2>2, <2>3
<1>7. BundlesAccounted' /\ TipKeysFresh'
  <2>1. \A j \in GroupKey : life'[j] = life[j]
    BY <1>2, <1>3, KeyFacts
  <2>2. \A g \in Group : \A j \in Member[g] : life'[j] = life[j]
    BY <2>1, KeyFacts
  <2> QED BY <2>1, <2>2, KeyFacts DEF Ownership, BundlesAccounted, TipKeysFresh, TypeOK
<1>8. RequestsMatchExecuting'
  BY DEF Ownership, RequestsMatchExecuting
<1>9. ChecksTracked'
  <2>1. ASSUME NEW j \in Tx, checking'[j] > 0 PROVE life'[j] = "live" /\ j \notin unchecked_tx'
    <3>1. j \notin gone
      BY <2>1
    <3>2. j = k \/ checking[j] > 0
      BY <2>1, <3>1
    <3> QED BY <2>1, <3>1, <3>2, <1>1, <1>3, KeyFacts DEF Ownership, ChecksTracked
  <2>2. ASSUME NEW i \in DOMAIN checkQ, NEW j \in checkQ[i]
        PROVE  life'[j] # "fresh" /\ j \notin unchecked_tx'
    <3>1. j \in Tx
      BY <2>2 DEF TypeOK
    <3> QED BY <2>2, <3>1, KeyFacts DEF Ownership, ChecksTracked
  <2> QED BY <2>1, <2>2 DEF ChecksTracked
<1> QED BY <1>4, <1>5, <1>6, <1>7, <1>8, <1>9 DEF Ownership, TransactionsAccounted

\* A recheck that changes nothing.
LEMMA OwnIgnored == ASSUME TypeOK, Ownership, NEW k \in Tx, CheckIgnored(k) PROVE Ownership'
<1> DEFINE add == {}
           gone == {}
<1>1. /\ add \in SUBSET {k} /\ gone \in SUBSET (checked_tx \cup {k}) /\ checking[k] > 0
      /\ k \in add \cup gone \cup checked_tx \cup executing_tx \cup deferred_tx
      /\ k \in add \cup gone => k \notin executing_tx \cup deferred_tx
      /\ checked_tx' = (checked_tx \cup add) \ gone
      /\ UNCHANGED <<unchecked_tx, executing_tx, deferred_tx, bundles, checkQ, execMsgs,
                     tipSlot>>
  BY DEF CheckIgnored, CheckAnswered
<1>2. /\ \A j \in Key : life'[j] = IF j \in gone THEN "dropped" ELSE life[j]
      /\ \A j \in Tx : j \in gone => checking'[j] = 0
      /\ \A j \in Tx : j # k /\ j \notin gone => checking'[j] = checking[j]
  BY DEF CheckIgnored, TypeOK
<1> HIDE DEF add, gone
<1> QED BY <1>1, <1>2, OwnChecked

\* A failed check drops its key, unless the key executes or is deferred.
LEMMA OwnFailed == ASSUME TypeOK, Ownership, NEW k \in Tx, CheckFailed(k) PROVE Ownership'
<1> DEFINE add == {}
           gone == {k}
<1>1. /\ add \in SUBSET {k} /\ gone \in SUBSET (checked_tx \cup {k}) /\ checking[k] > 0
      /\ k \in add \cup gone \cup checked_tx \cup executing_tx \cup deferred_tx
      /\ k \in add \cup gone => k \notin executing_tx \cup deferred_tx
      /\ checked_tx' = (checked_tx \cup add) \ gone
      /\ UNCHANGED <<unchecked_tx, executing_tx, deferred_tx, bundles, checkQ, execMsgs,
                     tipSlot>>
  BY DEF CheckFailed, CheckAnswered
<1>2. /\ \A j \in Key : life'[j] = IF j \in gone THEN "dropped" ELSE life[j]
      /\ \A j \in Tx : j \in gone => checking'[j] = 0
      /\ \A j \in Tx : j # k /\ j \notin gone => checking'[j] = checking[j]
  BY DEF CheckFailed, Drop
<1> HIDE DEF add, gone
<1> QED BY <1>1, <1>2, OwnChecked

\* A first check that passes puts its key in checked_tx, and may evict another.
LEMMA OwnPassed == ASSUME TypeOK, Ownership, NEW k \in Tx, CheckPassed(k) PROVE Ownership'
<1> DEFINE add == {k}
           gone == IF AtCapacity THEN Lowest(checked_tx) ELSE {}
<1>1. gone \subseteq checked_tx /\ k \notin checked_tx /\ k \notin gone
  BY Selections DEF CheckPassed, FirstCheck
<1>2. /\ checked_tx' = (checked_tx \ gone) \cup {k}
      /\ life' = [j \in Key |-> IF j \in gone THEN "dropped" ELSE life[j]]
      /\ checking' = [j \in Tx |-> IF j \in gone THEN 0
                                   ELSE IF j = k THEN checking[j] - 1 ELSE checking[j]]
  BY DEF CheckPassed
<1>3. /\ checking[k] > 0 /\ k \notin executing_tx \cup deferred_tx
      /\ UNCHANGED <<unchecked_tx, executing_tx, deferred_tx, bundles, checkQ, execMsgs,
                     tipSlot>>
  BY DEF CheckPassed, FirstCheck, CheckAnswered
<1> HIDE DEF gone
<1>4. /\ add \in SUBSET {k} /\ gone \in SUBSET (checked_tx \cup {k})
      /\ k \in add \cup gone \cup checked_tx \cup executing_tx \cup deferred_tx
      /\ k \in add \cup gone => k \notin executing_tx \cup deferred_tx
      /\ checked_tx' = (checked_tx \cup add) \ gone
  BY <1>1, <1>2, <1>3
<1>5. /\ \A j \in Key : life'[j] = IF j \in gone THEN "dropped" ELSE life[j]
      /\ \A j \in Tx : j \in gone => checking'[j] = 0
      /\ \A j \in Tx : j # k /\ j \notin gone => checking'[j] = checking[j]
  BY <1>2
<1> HIDE DEF add
<1> QED BY <1>3, <1>4, <1>5, OwnChecked

\* A check batch holds unchecked transactions, which leave unchecked_tx, and
\* checked ones, which stay where they are.
LEMMA OwnScheduleChecks == ASSUME TypeOK, Ownership, ScheduleChecks PROVE Ownership'
<1> DEFINE batch == CheckBatch
<1>1. FromUnchecked \subseteq unchecked_tx /\ batch \ FromUnchecked \subseteq checked_tx
  BY Selections DEF CheckBatch, FromUnchecked, FromChecked, AtOrBelow
<1>2. batch \in SUBSET Tx
  BY <1>1 DEF TypeOK
<1>3. /\ checkQ' = Append(checkQ, batch) /\ unchecked_tx' = unchecked_tx \ FromUnchecked
      /\ UNCHANGED <<checked_tx, executing_tx, deferred_tx, bundles, checking, execMsgs,
                     tipSlot, life>>
  BY DEF ScheduleChecks
<1> HIDE DEF batch
<1>4. /\ \A i \in DOMAIN checkQ : i \in DOMAIN checkQ' /\ checkQ'[i] = checkQ[i]
      /\ \E i \in DOMAIN checkQ' : checkQ'[i] = batch
      /\ \A i \in DOMAIN checkQ' : checkQ'[i] = batch \/ \E j \in DOMAIN checkQ : checkQ'[i] = checkQ[j]
  <2>1. checkQ \in Seq(SUBSET Tx)
    BY DEF TypeOK
  <2>2. checkQ' = Append(checkQ, batch)
    BY <1>3
  <2> QED BY <1>2, <2>1, <2>2, QueueAppend
<1>5. OneContainer' /\ HeldAreLive' /\ BundlesAccounted' /\ RequestsMatchExecuting'
      /\ TipKeysFresh'
  BY <1>3 DEF Ownership, TransactionsAccounted, OneContainer, HeldAreLive, Held,
              BundlesAccounted, RequestsMatchExecuting, TipKeysFresh
<1>6. NeverLost'
  <2> SUFFICES ASSUME NEW k \in Tx, life[k] = "live" PROVE k \in Held' \cup Requested'
    BY <1>3 DEF NeverLost
  <2>1. k \in Held \cup Requested
    BY DEF Ownership, TransactionsAccounted, NeverLost
  <2>2. k \in Requested \/ k \in batch => k \in Requested'
    BY <1>3, <1>4 DEF Requested
  <2>3. k \in Held => k \in Held' \/ k \in FromUnchecked
    BY <1>3 DEF Held
  <2>4. FromUnchecked \subseteq batch
    BY DEF batch, CheckBatch
  <2> QED BY <2>1, <2>2, <2>3, <2>4
<1>7. ChecksTracked'
  <2>1. \A k \in batch : life[k] = "live" /\ k \notin unchecked_tx'
    BY <1>1, <1>3 DEF Ownership, TransactionsAccounted, OneContainer, HeldAreLive, Held
  <2> QED BY <2>1, <1>3, <1>4 DEF Ownership, ChecksTracked
<1> QED BY <1>5, <1>6, <1>7 DEF Ownership, TransactionsAccounted

\* The check worker takes a batch: each live key of it is still requested.
LEMMA OwnCheckWorker == ASSUME TypeOK, Ownership, CheckWorkerTakes PROVE Ownership'
<1>1. /\ checkQ # <<>> /\ checkQ' = Tail(checkQ)
      /\ \A k \in Tx : checking'[k] = IF k \in Head(checkQ) /\ life[k] = "live"
                                      THEN checking[k] + 1 ELSE checking[k]
      /\ UNCHANGED <<store, execMsgs, tipSlot, life>>
  BY DEF CheckWorkerTakes
<1>2. /\ 1 \in DOMAIN checkQ /\ Head(checkQ) = checkQ[1]
      /\ \A i \in DOMAIN checkQ' : \E j \in DOMAIN checkQ : checkQ'[i] = checkQ[j]
      /\ \A j \in DOMAIN checkQ : checkQ[j] = Head(checkQ) \/ \E i \in DOMAIN checkQ' : checkQ'[i] = checkQ[j]
  BY <1>1, QueueTail DEF TypeOK
<1>3. \A k \in Tx : checking[k] \in Nat
  BY DEF TypeOK
<1>4. OneContainer' /\ HeldAreLive' /\ BundlesAccounted' /\ RequestsMatchExecuting'
      /\ TipKeysFresh'
  BY <1>1 DEF store, Ownership, TransactionsAccounted, OneContainer, HeldAreLive, Held,
              BundlesAccounted, RequestsMatchExecuting, TipKeysFresh
<1>5. NeverLost'
  <2> SUFFICES ASSUME NEW k \in Tx, life[k] = "live" PROVE k \in Held' \cup Requested'
    BY <1>1 DEF NeverLost
  <2>1. k \in Held \cup Requested /\ (k \in Held => k \in Held')
    BY <1>1 DEF store, Held, Ownership, TransactionsAccounted, NeverLost
  <2>2. checking[k] > 0 => checking'[k] > 0
    BY <1>1, <1>3
  <2>3. k \in Head(checkQ) => checking'[k] > 0
    BY <1>1, <1>3
  <2>4. ASSUME NEW j \in DOMAIN checkQ, k \in checkQ[j]
        PROVE  checking'[k] > 0 \/ \E i \in DOMAIN checkQ' : k \in checkQ'[i]
    BY <2>3, <2>4, <1>2
  <2>5. k \in Requested => k \in Requested'
    BY <2>2, <2>4 DEF Requested
  <2> QED BY <2>1, <2>5
<1>6. ChecksTracked'
  <2>1. ASSUME NEW k \in Tx, checking'[k] > 0 PROVE life'[k] = "live" /\ k \notin unchecked_tx'
    <3>1. checking[k] > 0 \/ (k \in Head(checkQ) /\ life[k] = "live")
      BY <2>1, <1>1
    <3> QED BY <3>1, <1>1, <1>2 DEF store, Ownership, ChecksTracked
  <2>2. \A i \in DOMAIN checkQ' : \A k \in checkQ'[i] : life'[k] # "fresh" /\ k \notin unchecked_tx'
    BY <1>1, <1>2 DEF store, Ownership, ChecksTracked
  <2> QED BY <2>1, <2>2 DEF ChecksTracked
<1> QED BY <1>4, <1>5, <1>6 DEF Ownership, TransactionsAccounted

(***************************************************************************)
(* Execute requests.                                                       *)
(***************************************************************************)
\* One request for each key of K, none of which was executing, keeps requests
\* and executing_tx in step.
OneRequestEach(K, sent) ==
    /\ \A m \in sent : m.key \in K
    /\ \A k \in K : \E m \in sent : m.key = k
    /\ \A m, n \in sent : m.key = n.key => m = n
Begins(K, sent) ==
    /\ K \cap executing_tx = {}
    /\ executing_tx' = executing_tx \cup K /\ execMsgs' = execMsgs \cup sent
LEMMA RequestsSent ==
    ASSUME RequestsMatchExecuting, NEW K, NEW sent, OneRequestEach(K, sent), Begins(K, sent)
    PROVE  RequestsMatchExecuting'
<1> USE DEF OneRequestEach, Begins
<1>1. \A m \in execMsgs : m.key \in executing_tx
  BY DEF RequestsMatchExecuting
<1>2. \A k \in executing_tx : \E m \in execMsgs : m.key = k
  BY DEF RequestsMatchExecuting
<1>3. executing_tx' = {m.key : m \in execMsgs'}
  BY <1>1, <1>2
<1>4. ASSUME NEW m \in execMsgs', NEW n \in execMsgs', m.key = n.key PROVE m = n
  <2>1. CASE m \in execMsgs /\ n \in execMsgs
    BY <1>4, <2>1 DEF RequestsMatchExecuting
  <2>2. CASE m \in sent /\ n \in sent
    BY <1>4, <2>2
  <2>3. ~(m \in execMsgs /\ n \in sent) /\ ~(m \in sent /\ n \in execMsgs)
    BY <1>4, <1>1
  <2> QED BY <1>4, <2>1, <2>2, <2>3
<1> QED BY <1>3, <1>4 DEF RequestsMatchExecuting

\* Scheduling a transaction or a bundle moves its keys to executing_tx.
LEMMA OwnSent ==
    ASSUME TypeOK, Ownership, NEW x \in Tx \cup Bundle,
           \/ x \in checked_tx /\ checked_tx' = checked_tx \ {x} /\ bundles' = bundles
           \/ x \in bundles /\ checked_tx' = checked_tx /\ bundles' = bundles \ {x},
           executing_tx' = executing_tx \cup KeysOf(x),
           execMsgs' = execMsgs \cup
             {[key |-> k, worker |-> turn, until |-> view.slot + 1, from |-> 0] : k \in KeysOf(x)},
           UNCHANGED <<unchecked_tx, deferred_tx, checkQ, checking, tipSlot, life>>
    PROVE  Ownership'
<1> DEFINE K == KeysOf(x)
<1>1. /\ executing_tx' = executing_tx \cup K
      /\ execMsgs' = execMsgs \cup {[key |-> k, worker |-> turn, until |-> view.slot + 1, from |-> 0] : k \in K}
      /\ UNCHANGED <<unchecked_tx, deferred_tx, checkQ, checking, tipSlot, life>>
  OBVIOUS
<1>2. \/ /\ x \in Tx /\ x \in checked_tx /\ K = {x}
         /\ checked_tx' = checked_tx \ {x} /\ bundles' = bundles
      \/ /\ x \in Bundle /\ x \in bundles /\ K = Member[x]
         /\ checked_tx' = checked_tx /\ bundles' = bundles \ {x}
  BY KeyFacts DEF TypeOK, KeysOf
<1> HIDE DEF K
<1>3. K \cap executing_tx = {} /\ \A k \in K : life[k] = "live"
  BY <1>2 DEF Ownership, TransactionsAccounted, OneContainer, HeldAreLive, Held,
              BundlesAccounted
<1>4. RequestsMatchExecuting'
  <2> DEFINE Request(k) == [key |-> k, worker |-> turn, until |-> view.slot + 1, from |-> 0]
             sent == {Request(k) : k \in K}
  <2>1. /\ \A m \in sent : m.key \in K
        /\ \A k \in K : Request(k) \in sent /\ Request(k).key = k
        /\ \A m, n \in sent : m.key = n.key => m = n
    OBVIOUS
  <2>2. execMsgs' = execMsgs \cup sent
    BY <1>1
  <2>3. \A k \in K : \E m \in sent : m.key = k
    BY <2>1
  <2>4. K \cap executing_tx = {} /\ executing_tx' = executing_tx \cup K /\ RequestsMatchExecuting
    BY <1>1, <1>3 DEF Ownership
  <2>5. (\A m \in sent : m.key \in K) /\ (\A m, n \in sent : m.key = n.key => m = n)
    BY <2>1
  <2> HIDE DEF sent, Request
  <2>6. OneRequestEach(K, sent)
    BY <2>3, <2>5, Zenon DEF OneRequestEach
  <2>7. RequestsMatchExecuting /\ Begins(K, sent)
    BY <2>2, <2>4, Zenon DEF Begins
  <2> QED BY <2>6, <2>7, RequestsSent
<1>5. OneContainer'
  <2>1. CASE x \in Tx
    BY <2>1, <1>1, <1>2, KeyFacts DEF Ownership, TransactionsAccounted, OneContainer
  <2>2. CASE x \in Bundle
    <3>1. K \cap Tx = {} /\ checked_tx' = checked_tx
      BY <2>2, <1>2, KeyFacts
    <3> QED BY <3>1, <1>1 DEF Ownership, TransactionsAccounted, OneContainer, TypeOK
  <2> QED BY <2>1, <2>2
<1>6. HeldAreLive'
  BY <1>1, <1>2, <1>3 DEF Ownership, TransactionsAccounted, HeldAreLive, Held
<1>7. NeverLost'
  BY <1>1, <1>2 DEF Ownership, TransactionsAccounted, NeverLost, Held, Requested
<1>8. BundlesAccounted'
  <2>1. ASSUME NEW b \in bundles', NEW k \in Member[b] PROVE life[k] = "live" /\ k \notin executing_tx'
    <3>1. b \in bundles /\ k \in GroupKey /\ b \in Group
      BY <2>1, <1>2, KeyFacts DEF TypeOK
    <3>2. k \notin K
      BY <2>1, <3>1, <1>2, KeyFacts
    <3> QED BY <2>1, <3>1, <3>2, <1>1 DEF Ownership, BundlesAccounted
  <2>2. ASSUME NEW k \in GroupKey, life[k] = "live"
        PROVE  k \in executing_tx' \/ \E b \in bundles' : k \in Member[b]
    BY <2>2, <1>1, <1>2 DEF Ownership, BundlesAccounted
  <2> QED BY <2>1, <2>2, <1>1 DEF BundlesAccounted
<1>9. ChecksTracked' /\ TipKeysFresh'
  BY <1>1 DEF Ownership, ChecksTracked, TipKeysFresh
<1> QED BY <1>4, <1>5, <1>6, <1>7, <1>8, <1>9 DEF Ownership, TransactionsAccounted

\* try_schedule_transaction and try_schedule_bundle.
LEMMA OwnSend ==
    ASSUME TypeOK, Ownership, NEW x \in Tx \cup Bundle,
           (x \in Tx /\ TryScheduleTransaction(x)) \/ (x \in Bundle /\ TryScheduleBundle(x))
    PROVE  Ownership'
<1>1. \/ x \in checked_tx /\ checked_tx' = checked_tx \ {x} /\ bundles' = bundles
      \/ x \in bundles /\ checked_tx' = checked_tx /\ bundles' = bundles \ {x}
  BY DEF TryScheduleTransaction, TryScheduleBundle
<1>2. /\ executing_tx' = executing_tx \cup KeysOf(x)
      /\ execMsgs' = execMsgs \cup
           {[key |-> k, worker |-> turn, until |-> view.slot + 1, from |-> 0] : k \in KeysOf(x)}
      /\ UNCHANGED <<unchecked_tx, deferred_tx, checkQ, checking, tipSlot, life>>
  BY DEF TryScheduleTransaction, TryScheduleBundle, Send
<1> QED BY <1>1, <1>2, OwnSent

\* An execute worker takes a batch: only the slot it was taken in changes.
LEMMA OwnExecWorker ==
    ASSUME TypeOK, Ownership, NEW m \in execMsgs, ExecWorkerTakes(m)
    PROVE  Ownership'
<1> DEFINE batch == BatchOf(m)
           Taken(n) == [n EXCEPT !.from = bankSlot]
<1>1. /\ execMsgs' = (execMsgs \ batch) \cup {Taken(n) : n \in batch}
      /\ UNCHANGED <<store, checkQ, checking, tipSlot, life>>
  BY DEF ExecWorkerTakes
<1>2. batch \subseteq execMsgs
  BY DEF BatchOf
<1>3. \A n \in batch : Taken(n).key = n.key
  BY <1>2 DEF TypeOK, ExecMsg
<1> HIDE DEF batch, Taken
<1>4. \A n \in execMsgs' : \E o \in execMsgs :
         o.key = n.key /\ ((o \notin batch /\ n = o) \/ (o \in batch /\ n = Taken(o)))
  BY <1>1, <1>2, <1>3
<1>5. \A o \in execMsgs : \E n \in execMsgs' : n.key = o.key
  BY <1>1, <1>3
<1>6. RequestsMatchExecuting'
  <2>1. executing_tx' = {n.key : n \in execMsgs'}
    BY <1>1, <1>4, <1>5 DEF store, Ownership, RequestsMatchExecuting
  <2>2. ASSUME NEW n \in execMsgs', NEW o \in execMsgs', n.key = o.key PROVE n = o
    BY <2>2, <1>4 DEF Ownership, RequestsMatchExecuting
  <2> QED BY <2>1, <2>2 DEF RequestsMatchExecuting
<1>7. TransactionsAccounted' /\ BundlesAccounted' /\ ChecksTracked' /\ TipKeysFresh'
  BY <1>1 DEF store, Ownership, TransactionsAccounted, OneContainer, HeldAreLive, Held,
              NeverLost, Requested, BundlesAccounted, ChecksTracked, TipKeysFresh
<1> QED BY <1>6, <1>7 DEF Ownership

(***************************************************************************)
(* Slot rolls.                                                             *)
(***************************************************************************)
\* A roll moves transactions from deferred_tx to checked_tx and nowhere else.
LEMMA RollStore ==
    ASSUME Ownership, NEW v \in View, RollSlot(v)
    PROVE  /\ checked_tx' \cup deferred_tx' = checked_tx \cup deferred_tx
           /\ checked_tx' \cap deferred_tx' = {}
           /\ UNCHANGED <<unchecked_tx, bundles, checkQ>>
BY DEF RollSlot, Ownership, TransactionsAccounted, OneContainer

\* check_slot_roll without a new leader slot.
LEMMA OwnRoll ==
    ASSUME TypeOK, Ownership, NEW v \in View, CheckSlotRoll(v)
    PROVE  Ownership'
<1>1. /\ checked_tx' \cup deferred_tx' = checked_tx \cup deferred_tx
      /\ checked_tx' \cap deferred_tx' = {}
      /\ UNCHANGED <<unchecked_tx, bundles, checkQ, executing_tx, checking, execMsgs,
                     tipSlot, life>>
  BY RollStore DEF CheckSlotRoll
<1>2. OneContainer' /\ Held' = Held
  BY <1>1 DEF Ownership, TransactionsAccounted, OneContainer, Held
<1>3. HeldAreLive' /\ NeverLost'
  BY <1>1, <1>2 DEF Ownership, TransactionsAccounted, HeldAreLive, NeverLost, Requested
<1>4. BundlesAccounted' /\ RequestsMatchExecuting' /\ ChecksTracked' /\ TipKeysFresh'
  BY <1>1 DEF Ownership, BundlesAccounted, RequestsMatchExecuting, ChecksTracked,
              TipKeysFresh
<1> QED BY <1>2, <1>3, <1>4 DEF Ownership, TransactionsAccounted

\* Both outcomes of become_tip_receiver: the pair's keys, which no one has used,
\* are all executing or all dropped.
LEMMA OwnPair ==
    ASSUME TypeOK, Ownership, NEW v \in View, NEW p \in TipPair,
           RollSlot(v), NewLeader(v), tipSlot[p] = 0,
           tipSlot' = [tipSlot EXCEPT ![p] = v.slot],
           \/ /\ executing_tx' = executing_tx \cup Member[p] /\ Admit(Member[p])
              /\ checking' = checking
              /\ execMsgs' = execMsgs \cup
                   {[key |-> k, worker |-> 1, until |-> v.slot + 4, from |-> 0] : k \in Member[p]}
           \/ UNCHANGED <<executing_tx, execMsgs>> /\ Drop(Member[p])
    PROVE  Ownership'
<1> DEFINE K == Member[p]
<1>1. /\ tipSlot[p] = 0 /\ K \subseteq GroupKey /\ K \cap Tx = {}
      /\ \A k \in K : life[k] = "fresh"
  BY KeyFacts DEF Ownership, TipKeysFresh
<1>2. K \cap Held = {} /\ \A b \in bundles : K \cap Member[b] = {}
  BY <1>1, KeyFacts DEF Ownership, TransactionsAccounted, HeldAreLive, BundlesAccounted, TypeOK
<1>3. /\ checked_tx' \cup deferred_tx' = checked_tx \cup deferred_tx
      /\ checked_tx' \cap deferred_tx' = {}
      /\ UNCHANGED <<unchecked_tx, bundles, checkQ>>
  BY RollStore
<1>4. \/ /\ executing_tx' = executing_tx \cup K /\ Admit(K)
      \/ /\ executing_tx' = executing_tx /\ Drop(K)
  OBVIOUS
<1>5. /\ \A k \in Key : k \notin K => life'[k] = life[k]
      /\ \A k \in K : \/ life'[k] = "live" /\ executing_tx' = executing_tx \cup K
                      \/ life'[k] = "dropped" /\ executing_tx' = executing_tx
  BY <1>1, <1>4, KeyFacts DEF Admit, Drop
<1>6. \A k \in Tx : checking'[k] = checking[k]
  BY <1>1 DEF Drop
<1>7. RequestsMatchExecuting'
  <2>1. CASE executing_tx' = executing_tx \cup K /\ ~UNCHANGED <<executing_tx, execMsgs>>
    <3> DEFINE Request(k) == [key |-> k, worker |-> 1, until |-> v.slot + 4, from |-> 0]
               sent == {Request(k) : k \in K}
    <3>1. executing_tx' = executing_tx \cup K /\ execMsgs' = execMsgs \cup sent
      BY <2>1
    <3>2. /\ \A m \in sent : m.key \in K
          /\ \A k \in K : Request(k) \in sent /\ Request(k).key = k
          /\ \A m, n \in sent : m.key = n.key => m = n
      OBVIOUS
    <3>3. \A k \in K : \E m \in sent : m.key = k
      BY <3>2
    <3>4. K \cap executing_tx = {} /\ RequestsMatchExecuting
      BY <1>2 DEF Held, Ownership
    <3> HIDE DEF K, sent, Request
    <3>5. OneRequestEach(K, sent)
      BY <3>2, <3>3, Zenon DEF OneRequestEach
    <3>6. RequestsMatchExecuting /\ Begins(K, sent)
      BY <3>1, <3>4, Zenon DEF Begins
    <3> QED BY <3>5, <3>6, RequestsSent
  <2>2. CASE UNCHANGED <<executing_tx, execMsgs>>
    BY <2>2 DEF Ownership, RequestsMatchExecuting
  <2> QED BY <2>1, <2>2
<1>8. tipSlot'[p] = v.slot /\ \A q \in TipPair : q # p => tipSlot'[q] = tipSlot[q]
  BY DEF TypeOK
<1> HIDE DEF K
<1>9. OneContainer'
  BY <1>1, <1>2, <1>3, <1>4 DEF Ownership, TransactionsAccounted, OneContainer, Held, TypeOK
<1>10. Held \subseteq Held' /\ Held' \subseteq Held \cup K
  BY <1>3, <1>4 DEF Held
<1>11. HeldAreLive'
  <2> SUFFICES ASSUME NEW k \in Held' PROVE life'[k] = "live"
    BY DEF HeldAreLive
  <2>1. CASE k \in Held
    <3>1. k \in Key /\ k \notin K
      BY <2>1, <1>2, KeyFacts DEF Held, TypeOK
    <3> QED BY <2>1, <3>1, <1>5 DEF Ownership, TransactionsAccounted, HeldAreLive
  <2>2. CASE k \in K
    <3>1. k \in executing_tx' \/ k \in unchecked_tx \cup checked_tx \cup deferred_tx
      BY <1>3 DEF Held
    <3>2. k \notin Held
      BY <2>2, <1>2
    <3>3. executing_tx' # executing_tx
      BY <3>1, <3>2 DEF Held
    <3> QED BY <2>2, <3>3, <1>5
  <2> QED BY <2>1, <2>2, <1>10
<1>12. NeverLost'
  <2>1. Requested' = Requested
    BY <1>3, <1>6 DEF Requested
  <2>2. \A k \in Tx : life'[k] = life[k]
    BY <1>1, <1>5, KeyFacts
  <2> QED BY <2>1, <2>2, <1>10 DEF Ownership, TransactionsAccounted, NeverLost
<1>13. BundlesAccounted'
  <2>1. ASSUME NEW b \in bundles, NEW k \in Member[b] PROVE life'[k] = "live" /\ k \notin executing_tx'
    <3>1. k \in Key /\ k \notin K
      BY <2>1, <1>2, KeyFacts DEF TypeOK
    <3> QED BY <2>1, <3>1, <1>4, <1>5 DEF Ownership, BundlesAccounted
  <2>2. ASSUME NEW k \in GroupKey, life'[k] = "live"
        PROVE  k \in executing_tx' \/ \E b \in bundles : k \in Member[b]
    <3>1. CASE k \in K
      BY <2>2, <3>1, <1>5
    <3>2. CASE k \notin K
      BY <2>2, <3>2, <1>4, <1>5, KeyFacts DEF Ownership, BundlesAccounted
    <3> QED BY <3>1, <3>2
  <2> QED BY <2>1, <2>2, <1>3 DEF BundlesAccounted
<1>14. ChecksTracked'
  <2>1. \A k \in Tx : life'[k] = life[k]
    BY <1>1, <1>5, KeyFacts
  <2>2. \A i \in DOMAIN checkQ : checkQ[i] \subseteq Tx
    BY DEF TypeOK
  <2> QED BY <2>1, <2>2, <1>3, <1>6 DEF Ownership, ChecksTracked
<1>15. TipKeysFresh'
  <2> SUFFICES ASSUME NEW q \in TipPair, tipSlot'[q] = 0, NEW k \in Member[q]
               PROVE  life'[k] = "fresh"
    BY DEF TipKeysFresh
  <2>1. q # p
    <3>1. Drained(v) /\ NewLeader(v)
      BY DEF RollSlot
    <3>2. v.slot > 0
      BY <3>1 DEF Drained, NewLeader, TypeOK
    <3> QED BY <3>2, <1>8
  <2>2. k \in Key /\ k \notin K /\ life[k] = "fresh"
    BY <2>1, <1>8, KeyFacts DEF K, Ownership, TipKeysFresh
  <2> QED BY <2>2, <1>5
<1> QED BY <1>7, <1>9, <1>11, <1>12, <1>13, <1>14, <1>15 DEF Ownership, TransactionsAccounted

\* become_tip_receiver.
LEMMA OwnTips ==
    ASSUME TypeOK, Ownership, NEW v \in View, NEW p \in TipPair,
           BecomeTipReceiver(v, p) \/ TipLocksRefused(v, p)
    PROVE  Ownership'
BY OwnPair DEF BecomeTipReceiver, TipLocksRefused

(***************************************************************************)
(* The whole of Next.                                                      *)
(***************************************************************************)
\* The actions that touch none of the containers, messages or keys.
LEMMA OwnQuiet ==
    ASSUME Ownership,
           \/ \E site : Panics(site)
           \/ JitoTipConfig \/ ChecksDone \/ SkipWorker \/ EndPoll
           \/ BankAdvances \/ \E b : BundleExpires(b)
           \/ UNCHANGED vars
    PROVE  Ownership'
<1>1. UNCHANGED <<store, messages, life, tipSlot>>
  BY DEF Panics, JitoTipConfig, ChecksDone, SkipWorker, EndPoll, BankAdvances,
         BundleExpires, vars
<1> QED BY <1>1, OwnFrame DEF store, messages

\* Every step of the scheduler and of the validator preserves Ownership.
LEMMA OwnStep == ASSUME TypeOK, Ownership, Next PROVE Ownership'
<1>1. ASSUME Roll PROVE Ownership'
  BY <1>1, OwnRoll, OwnTips, OwnQuiet DEF Roll, TipConfigMissing
<1>2. ASSUME NEW m \in execMsgs, ExecuteAnswer(m) PROVE Ownership'
  BY <1>2, OwnUnprocessed, OwnFinal, OwnRetry DEF ExecuteAnswer
<1>3. ASSUME NEW k \in Tx, CheckAnswer(k) PROVE Ownership'
  BY <1>3, OwnIgnored, OwnFailed, OwnPassed, OwnQuiet DEF CheckAnswer, EvictCheckedMissing
<1>4. ASSUME Ingest PROVE Ownership'
  BY <1>4, OwnTpu, OwnPacket, OwnBundle, OwnQuiet DEF Ingest
<1>5. ASSUME Schedule PROVE Ownership'
  BY <1>5, OwnScheduleChecks, OwnSend, OwnQuiet DEF Schedule, LockedTwice
<1>6. ASSUME Validator PROVE Ownership'
  BY <1>6, OwnCheckWorker, OwnExecWorker, OwnQuiet DEF Validator
<1>7. ASSUME Disconnected \/ Halted PROVE Ownership'
  BY <1>7, OwnQuiet DEF Disconnected, Halted
<1> QED BY <1>1, <1>2, <1>3, <1>4, <1>5, <1>6, <1>7 DEF Next, Scheduler

\* The scheduler starts with nothing.
LEMMA InitOwned == ASSUME Init PROVE Ownership
BY KeyFacts DEF Init, Ownership, TransactionsAccounted, OneContainer, HeldAreLive, Held,
                NeverLost, Requested, BundlesAccounted, RequestsMatchExecuting,
                ChecksTracked, TipKeysFresh

\* Ownership holds in every reachable state.
THEOREM OwnershipCorrect == Spec => []Ownership
<1>1. Init => Ownership
  BY InitOwned
<1>2. TypeOK /\ Ownership /\ [Next]_vars => Ownership'
  BY OwnStep, OwnQuiet
<1> QED BY <1>1, <1>2, TypeCorrect, PTL DEF Spec

\* No single transaction is ever lost, in two containers at once, or in one after
\* it is dropped.
THEOREM TransactionsCorrect == Spec => []TransactionsAccounted
<1>1. Ownership => TransactionsAccounted
  BY DEF Ownership
<1> QED BY <1>1, OwnershipCorrect, PTL

\* No key of a bundle is ever lost or leaked.
THEOREM BundlesCorrect == Spec => []BundlesAccounted
<1>1. Ownership => BundlesAccounted
  BY DEF Ownership
<1> QED BY <1>1, OwnershipCorrect, PTL

\* Every executing key has exactly one request outstanding.
THEOREM RequestsCorrect == Spec => []RequestsMatchExecuting
<1>1. Ownership => RequestsMatchExecuting
  BY DEF Ownership
<1> QED BY <1>1, OwnershipCorrect, PTL
=============================================================================
