------------------------------ MODULE Priority ------------------------------
(***************************************************************************)
(* The priorities of the two schedulers (calculate_priority,               *)
(* score_with_auction) and the order of PriorityId.  A priority is a u64   *)
(* whose largest value, BUNDLE_MARKER, marks the keys of bundles and tip   *)
(* pairs: on_execute and drain_worker_responses take a key that carries it *)
(* for one of those and drop what they would have retried.                 *)
(*                                                                         *)
(* The auction scheduler computes in f64.  A float is reduced to its       *)
(* integer part, which is all that the comparison with an integer and the  *)
(* cast to u64 look at; max(0.0) has removed what is negative or NaN.      *)
(***************************************************************************)
EXTENDS Integers

CONSTANTS
    WordMax,          \* u64::MAX
    Multiplier,       \* PRIORITY_MULTIPLIER
    Float,            \* integer parts of the non-negative f64
    ToFloat(_)        \* n as f64, rounded

BUNDLE_MARKER == WordMax
Word == 0..WordMax

\* Rounding is monotone and leaves what is representable alone.
ASSUME FloatAssumption ==
    /\ WordMax \in Nat \ {0} /\ Multiplier \in Word
    /\ Float \subseteq Nat
    /\ \A n \in Word : ToFloat(n) \in Float
    /\ \A n \in Word, f \in Float : n <= f => ToFloat(n) <= f

Saturate(n) == IF n > WordMax THEN WordMax ELSE n

\* calculate_priority of the batch scheduler, from cost and reward.
CalculatePriority(cost, reward) ==
    LET priority == Saturate(reward * Multiplier) \div Saturate(cost + 1)
    IN  IF priority < BUNDLE_MARKER - 1 THEN priority ELSE BUNDLE_MARKER - 1

\* The end of score_with_auction: what is too large for u64 must be caught
\* before the cast, which saturates to the marker, and the bound itself is
\* rounded when it is compared.
AuctionPriorityUnrounded(scaled) ==
    IF scaled > ToFloat(BUNDLE_MARKER - 1) THEN BUNDLE_MARKER - 1 ELSE Saturate(scaled)
AuctionPriority(scaled) ==
    IF scaled >= ToFloat(BUNDLE_MARKER - 1) THEN BUNDLE_MARKER - 1 ELSE Saturate(scaled)

\* Ord for PriorityId: by priority, then cost, then key.
IdLess(a, b) ==
    \/ a.priority < b.priority
    \/ a.priority = b.priority /\ a.cost < b.cost
    \/ a.priority = b.priority /\ a.cost = b.cost /\ a.key < b.key
=============================================================================
