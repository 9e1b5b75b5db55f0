-------------------------- MODULE MCBatchScheduler --------------------------
(***************************************************************************)
(* Instances of BatchScheduler for TLC.                                    *)
(***************************************************************************)
EXTENDS BatchSchedulerRefinement, TLC

CONSTANTS t1, t2, t3,        \* single transactions
          b1, x1, y1,        \* a bundle and its two keys
          b2, z2,            \* a bundle of one key
          p1, i1, c1,        \* tip pairs and their init and change keys
          p2, i2, c2, 
          acc, tip           \* an ordinary account and the validator's

MCMember == (b1 :> {x1, y1}) @@ (b2 :> {z2}) @@ (p1 :> {i1, c1}) @@ (p2 :> {i2, c2})
MCFirst == (b1 :> x1) @@ (b2 :> z2)
\* t1 and t2 contend for acc; the keys of b1 share it, and x1 names it in both
\* ways; the tip keys share the validator's account, which t3 also writes and z2
\* reads.
MCWrites == [k \in Key |-> IF k \in {t1, x1} THEN {acc}
                          ELSE IF k \in {t3, i1, c1, i2, c2} THEN {tip} ELSE {}]
MCReads == [k \in Key |-> IF k \in {t2, x1, y1} THEN {acc}
                         ELSE IF k = z2 THEN {tip} ELSE {}]
MCCost == [x \in Tx \cup Bundle |-> IF x \in {t2, b1, b2} THEN 2 ELSE 1]
MCRank == [x \in Tx \cup Bundle |->
             CASE x = t1 -> 1 [] x = t2 -> 2 [] x = b1 -> 3 [] x = t3 -> 4 [] x = b2 -> 5]

\* The two transactions of a tip pair are interchangeable.
TipSymmetry == Permutations({i1, c1})

\* Bound: one bundle in a behaviour, b1 with three slots and the whole block
\* left, or b2 in the first slot.
OneBundle ==
    \/ life[z2] = "fresh" /\ view.remaining \in {0, MaxBlockUnits}
    \/ life[x1] = "fresh" /\ bankSlot = 1
=============================================================================
