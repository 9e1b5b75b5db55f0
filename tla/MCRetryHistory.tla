--------------------------- MODULE MCRetryHistory ---------------------------
(***************************************************************************)
(* The batch scheduler with a history variable: the slot in which a        *)
(* transaction was last attempted and failed for a retryable reason other  *)
(* than a lock conflict.                                                   *)
(***************************************************************************)
EXTENDS MCBatchScheduler

VARIABLE attempted
hvars == <<vars, attempted>>

Retry(m, reason, at) == panic = "none" /\ ExecuteRetry(m, reason, at)
Record(m, reason, at) ==
    /\ Retry(m, reason, at)
    /\ attempted' = IF reason = "in_use" THEN attempted ELSE [attempted EXCEPT ![m.key] = at]
NoRetry == ~ \E m \in execMsgs, reason \in Reason, at \in Slot : Retry(m, reason, at)

HInit == Init /\ attempted = [k \in Tx |-> 0]
HNext ==
    \/ \E m \in execMsgs, reason \in Reason, at \in Slot : Record(m, reason, at)
    \/ Next /\ NoRetry /\ UNCHANGED attempted
HSpec == HInit /\ [][HNext]_hvars

\* What the comment in on_execute says: a transaction already attempted in a
\* slot is not sent again in that slot, unless it met a lock conflict.
NotRetriedInSlot ==
    [][\A k \in Tx : k \in executing_tx' \ executing_tx => attempted[k] \in {0} \cup (Slot \ {slot})]_hvars
=============================================================================
