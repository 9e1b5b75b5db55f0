------------------------- MODULE MCAuctionScheduler -------------------------
(***************************************************************************)
(* Instances of AuctionScheduler for TLC.                                  *)
(***************************************************************************)
EXTENDS AuctionScheduler, TLC

CONSTANTS t1, t2, t3,        \* single transactions
          b1, x1, y1,        \* a bundle whose keys can be locked together
          b2, x2, y2,        \* a bundle whose keys conflict
          p1, i1, c1,        \* a tip pair
          acc, tip           \* an ordinary account and the validator's

MCMember == (b1 :> {x1, y1}) @@ (b2 :> {x2, y2}) @@ (p1 :> {i1, c1})
MCFirst == (b1 :> x1) @@ (b2 :> x2)
MCInitTip == p1 :> i1
MCWrites == [k \in Key |-> IF k \in {t1, x2} THEN {acc}
                          ELSE IF k \in {t3, i1, c1} THEN {tip} ELSE {}]
MCReads == [k \in Key |-> IF k \in {t2, x1, y2} THEN {acc}
                         ELSE IF k = y1 THEN {tip} ELSE {}]
MCCost == [x \in Tx \cup Bundle |-> IF x \in {t2, b1} THEN 2 ELSE 1]
MCRank == [x \in Tx \cup Bundle |->
             CASE x = t1 -> 1 [] x = t2 -> 2 [] x = b1 -> 3 [] x = b2 -> 4 [] x = t3 -> 5]

\* A float format with two bits of significand, whose values up to 32 are
\* MCFloat, against a word of four bits: 14, the largest priority of a
\* transaction, rounds to 16.  Ties go to the even significand.
MCFloat == {0, 1, 2, 3, 4, 6, 8, 12, 16, 24, 32}
MCToFloat(n) ==
    LET off(f) == IF f < n THEN n - f ELSE f - n
        near == {f \in MCFloat : \A g \in MCFloat : off(f) <= off(g)}
    IN  CHOOSE f \in near : Cardinality(near) = 1 \/ f \in {1, 2, 4, 8, 16, 32}
\* t3's surplus is beyond u64.
MCScaled == [k \in Tx |-> CASE k = t1 -> 0 [] k = t2 -> 3 [] k = t3 -> 16]

\* Bounds: a partly used block is seen in the first slot, and the third slot
\* comes only in behaviours with one transaction.
UsedEarly == bankSlot = 1 \/ view.remaining \in {0, MaxBlockUnits}
ThirdSlotAlone == bankSlot <= 2 \/ \E k \in Tx : life[k] = "fresh"
=============================================================================
