----------------------------- MODULE JitoThread -----------------------------
(***************************************************************************)
(* The Jito thread (schedulers/common/src/jito/jito_thread.rs) and the     *)
(* IntervalStream it fetches blockhashes with                              *)
(* (schedulers/common/src/interval_stream.rs).                             *)
(*                                                                         *)
(* The thread drives one future on a single-threaded runtime.  The future  *)
(* runs when it has been woken, until everything it waits for is pending   *)
(* or the runtime makes it yield; the shutdown token is looked at only when*)
(* a run begins.  Timers, replies and messages that come during a run are  *)
(* taken to come right before or after it.  Bundles and packets are one    *)
(* kind of message, "update".                                              *)
(***************************************************************************)
EXTENDS Naturals, Sequences

CONSTANT Capacity     \* of the update channel (1024)

ASSUME CapacityAssumption == Capacity \in Nat \ {0}

VARIABLES
    cancelled,        \* the CancellationToken all threads share
    receiver,         \* jito_rx has not been dropped
    chan,             \* the update channel
    jito,             \* where run and run_until_err are
    task,             \* the future: woken, running or parked
    tick,             \* the interval: due or not
    fetch             \* IntervalStream::in_progress

jvars == <<jito, task, tick, fetch>>

JitoEnded == jito \in {"done", "panicked"}

JitoInit ==
    /\ jito = "connect" /\ task = "woken"
    /\ tick = "due" /\ fetch = "none"
    /\ chan = <<>>

JitoStopsEarly ==
    /\ ~JitoEnded /\ task # "running"
    /\ jito' = "done"
    /\ UNCHANGED <<cancelled, receiver, chan, task, tick, fetch>>
\* select: the shutdown future comes first.
JitoStops ==
    /\ ~JitoEnded /\ task # "running" /\ cancelled
    /\ jito' = "done"
    /\ UNCHANGED <<cancelled, receiver, chan, task, tick, fetch>>
JitoRuns ==
    /\ ~JitoEnded /\ task = "woken" /\ ~cancelled
    /\ task' = "running"
    /\ UNCHANGED <<cancelled, receiver, chan, jito, tick, fetch>>

Running(phase) == jito = phase /\ task = "running" /\ UNCHANGED <<cancelled, receiver>>

TrySendUnbounded(kind, next) ==
    IF receiver
    THEN chan' = Append(chan, kind) /\ jito' = next
    ELSE jito' = "panicked" /\ UNCHANGED chan
\* update_tx.try_send(kind).unwrap(); the future goes on at next.
TrySend(kind, next) ==
    IF receiver /\ Len(chan) < Capacity
    THEN chan' = Append(chan, kind) /\ jito' = next
    ELSE jito' = "panicked" /\ UNCHANGED chan

\* A reply or a message that the thread unwraps, slices or asserts about, and that
\* is not as it expects.
Malformed == jito' = "panicked" /\ UNCHANGED chan

FetchBuilderConfigSkips ==
    /\ Running("connect")
    /\ jito' = "subscribe"
    /\ UNCHANGED <<chan, task, tick, fetch>>
\* Connecting, authenticating and asking for the builder's key and commission.
FetchBuilderConfig ==
    /\ Running("connect")
    /\ TrySend("builder", "subscribe") \/ Malformed
    /\ UNCHANGED <<task, tick, fetch>>

\* The streams are made with a fresh interval, whose first tick is due.
Subscribe ==
    /\ Running("subscribe")
    /\ jito' = "stream" /\ tick' = "due" /\ fetch' = "none"
    /\ UNCHANGED <<chan, task>>

\* Any of the awaits fails, or a stream closes: run logs it, sleeps and starts
\* over.
Fails ==
    /\ \E phase \in {"connect", "subscribe", "stream"} : Running(phase)
    /\ jito' = "sleep"
    /\ UNCHANGED <<chan, task, tick, fetch>>
SleepOver ==
    /\ Running("sleep")
    /\ jito' = "connect"
    /\ UNCHANGED <<chan, task, tick, fetch>>

\* IntervalStream::poll_next where it does not yield a value.  A tick that is
\* due makes the future and returns pending without polling it.
PollNext ==
    /\ tick' = IF fetch = "none" THEN "waiting" ELSE tick
    /\ fetch' = CASE fetch = "none" /\ tick = "due" -> "created"
                  [] fetch = "created" -> "pending"
                  [] OTHER -> fetch

\* The loop of run_until_err, biased: the blockhash first, then a message of
\* another stream if there is one.
SendBlockhash ==
    /\ Running("stream") /\ fetch = "ready"
    /\ fetch' = "none"
    /\ TrySend("hash", "stream")
    /\ UNCHANGED <<task, tick>>
SendUpdate(kind) ==
    /\ Running("stream") /\ fetch # "ready"
    /\ PollNext
    /\ TrySend(kind, "stream") \/ Malformed
    /\ UNCHANGED task

\* Nothing is ready, or the runtime's budget for one run is used up, which
\* looks like nothing being ready but wakes the future at once.
Parks ==
    /\ task = "running" /\ ~JitoEnded
    /\ IF jito = "stream" THEN fetch # "ready" /\ PollNext ELSE UNCHANGED <<tick, fetch>>
    /\ task' \in {"parked", "woken"}
    /\ UNCHANGED <<cancelled, receiver, chan, jito>>

(***************************************************************************)
(* What wakes the future.  The timer does only if the interval was polled  *)
(* and pending, the RPC reply only if the fetch was polled.                *)
(***************************************************************************)
Woken == IF task = "parked" THEN "woken" ELSE task
TimerFires ==
    /\ jito = "stream" /\ task # "running" /\ tick = "waiting"
    /\ tick' = "due"
    /\ task' = IF fetch = "none" THEN Woken ELSE task
    /\ UNCHANGED <<cancelled, receiver, chan, jito, fetch>>
RpcReplies ==
    /\ jito = "stream" /\ task # "running" /\ fetch = "pending"
    /\ fetch' = "ready" /\ task' = Woken
    /\ UNCHANGED <<cancelled, receiver, chan, jito, tick>>
OtherWakes ==
    /\ ~JitoEnded /\ task = "parked"
    /\ task' = "woken"
    /\ UNCHANGED <<cancelled, receiver, chan, jito, tick, fetch>>

RunUntilErr ==
    \/ FetchBuilderConfig \/ Subscribe \/ Fails \/ SleepOver \/ SendBlockhash
    \/ \E kind \in {"tip", "update"} : SendUpdate(kind)
JitoNext ==
    \/ JitoStops \/ JitoRuns \/ RunUntilErr \/ Parks
    \/ TimerFires \/ RpcReplies \/ OtherWakes
=============================================================================
