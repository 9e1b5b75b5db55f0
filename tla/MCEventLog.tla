----------------------------- MODULE MCEventLog -----------------------------
(***************************************************************************)
(* Instances of EventLog for TLC.                                          *)
(***************************************************************************)
EXTENDS MCBatchScheduler, EventLog

\* Bounds: bundles arrive only in behaviours without single transactions, and
\* the third transaction only in the first slot while nothing executes, where
\* it makes unchecked_tx overflow while a check is waiting.
OneKind == (\A k \in Tx : life[k] = "fresh") \/ (\A b \in Bundle : life[First[b]] = "fresh")
ThirdEarly == life[t3] = "fresh" \/ (bankSlot <= 1 /\ executing_tx = {})
=============================================================================
