---------------------------- MODULE TxLifecycle ----------------------------
(***************************************************************************)
(* What a scheduler promises about the keys it is given, whatever its      *)
(* containers and its order: the phases a key goes through; that keys      *)
(* which exclude each other never run together; that one answer moves one  *)
(* running key; and that a parked key is ready again when the slot moves,  *)
(* and not before.                                                         *)
(***************************************************************************)
EXTENDS Naturals

CONSTANTS
    Key,
    Single,        \* the keys that must pass a check before they are ready
    Urgent,        \* sets of keys that are made and started in one step
    Together,      \* sets of keys that are started in one step
    Exclusive      \* pairs of keys that never run at the same time

VARIABLES phase, slot
vars == <<phase, slot>>

Phase == {"absent", "waiting", "ready", "running", "parked", "gone"}
In(p) == {k \in Key : phase[k] = p}

\* Every key outside K stays in its phase or makes one of the given moves.
Others(K, moves) ==
    /\ phase' \in [Key -> Phase]
    /\ \A k \in Key \ K : phase'[k] # phase[k] => <<phase[k], phase'[k]>> \in moves

\* Room is made for one: at most one ready key goes, no other key moves.
MakeRoom(K) ==
    /\ Others(K, {<<"ready", "gone">>})
    /\ \A i, j \in Key \ K : phase'[i] # phase[i] /\ phase'[j] # phase[j] => i = j

Compatible(K) == \A j \in K, k \in In("running") :
                    <<j, k>> \notin Exclusive /\ <<k, j>> \notin Exclusive

Init == phase = [k \in Key |-> "absent"] /\ slot = 0

\* New keys come in or are refused, old ones are discarded to make room or
\* because they have expired.  Only keys that need no check are ready at once.
Ingest ==
    /\ Others({}, {<<"absent", "waiting">>, <<"absent", "ready">>, <<"absent", "gone">>,
                   <<"waiting", "gone">>, <<"ready", "gone">>})
    /\ \A k \in Single \cap In("absent") : phase'[k] # "ready"
    /\ UNCHANGED slot

\* The check of one key is answered.
Verify(k) ==
    /\ phase[k] = "waiting" /\ phase'[k] \in {"ready", "gone"}
    /\ MakeRoom({k})
    /\ UNCHANGED slot

Start(K) ==
    /\ K \subseteq In("ready") /\ Compatible(K)
    /\ \A k \in K : phase'[k] = "running"
    /\ Others(K, {})
    /\ UNCHANGED slot

\* The execution of one key is answered.
Finish(k) ==
    /\ phase[k] = "running" /\ phase'[k] \in {"ready", "parked", "gone"}
    /\ MakeRoom({k})
    /\ UNCHANGED slot

\* The slot may move, and then every parked key is ready.
Moves == IF slot' = slot THEN {} ELSE {<<"parked", "ready">>}
Roll(K) ==
    /\ slot' \in Nat /\ slot' >= slot
    /\ slot' # slot => \A k \in Key : phase'[k] # "parked"
    /\ K \subseteq In("absent")
    /\ \/ Compatible(K) /\ \A k \in K : phase'[k] = "running"
       \/ \A k \in K : phase'[k] = "gone"
    /\ Others(K, Moves)

Next ==
    \/ Ingest
    \/ \E k \in Key : Verify(k) \/ Finish(k)
    \/ \E K \in Together : Start(K)
    \/ \E K \in Urgent \cup {{}} : Roll(K)

Spec == Init /\ [][Next]_vars
=============================================================================
