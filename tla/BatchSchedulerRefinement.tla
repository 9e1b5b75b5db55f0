---------------------- MODULE BatchSchedulerRefinement ----------------------
(***************************************************************************)
(* The batch scheduler implements TxLifecycle: the containers of the       *)
(* scheduler and the bridge's store give each key its phase.               *)
(***************************************************************************)
EXTENDS BatchScheduler

phase ==
    [k \in Key |->
        IF life[k] = "fresh" THEN "absent"
        ELSE IF life[k] = "dropped" THEN "gone"
        ELSE IF k \in executing_tx THEN "running"
        ELSE IF k \in deferred_tx THEN "parked"
        ELSE IF k \in checked_tx \/ k \in GroupKey THEN "ready"
        ELSE "waiting"]

Together == {{k} : k \in Tx} \cup {Member[b] : b \in Bundle}
Urgent == {Member[p] : p \in TipPair}
Exclusive == {jk \in Key \X Key : jk[1] # jk[2] /\ Conflict(jk[1], jk[2])
                                  /\ ~SameGroup(jk[1], jk[2])}

L == INSTANCE TxLifecycle WITH Single <- Tx

\* Every behaviour of the scheduler is a behaviour of TxLifecycle: phases in
\* order, exclusion across groups, one key moved by an answer, parked keys
\* released by the slot and by nothing else.
ImplementsLifecycle == L!Spec
=============================================================================
