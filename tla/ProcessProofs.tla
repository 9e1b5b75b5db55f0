---------------------------- MODULE ProcessProofs ----------------------------
(***************************************************************************)
(* Proofs about Process and EventExport, for every capacity of the update  *)
(* channel and of the event channel.                                       *)
(***************************************************************************)
EXTENDS EventExport, SequenceTheorems, TLAPS

Message == {"builder", "tip", "hash", "update"}

(***************************************************************************)
(* The inductive invariant.  Next to the types it says who may have        *)
(* cancelled, what await_shutdown has recorded, and what the channel holds *)
(* while the scheduler is being set up.                                    *)
(***************************************************************************)
\* The scheduler's thread starts after setup, and a thread that ended without a
\* panic was told to.
StoppedByToken ==
    /\ server = "setup" => sched = "unborn"
    /\ jito = "done" => cancelled
    /\ sched = "done" => cancelled

\* Until await_shutdown has left its select, only a signal cancels.
SignalFirst ==
    /\ main = "select" => ~signalled
    /\ main = "awaiting" => signalled
    /\ server \in {"setup", "select"} /\ cancelled => signalled
    /\ server = "aborted" => signalled

\* What exit says is so.
ExitTrue ==
    /\ server \in {"setup", "select"} => exit = "none"
    /\ server \in {"joining", "returned"} => exit # "none"
    /\ exit \in {"ok", "unexpected"} => signalled
    /\ \A t \in Thread : exit = t => Panicked(t)

\* The Jito thread does not stream into a channel without a builder config.
SetupChannel ==
    server = "setup" =>
        IF chan = <<>> THEN jito \notin {"subscribe", "stream"} ELSE Head(chan) = "builder"

ProcessInv ==
    /\ TypeOK /\ StoppedByToken /\ SignalFirst /\ ExitTrue /\ SetupChannel
    /\ DisconnectMeansPanic /\ VerdictTrue

\* The part of the invariant in which the content of the channel plays no role.
Control ==
    /\ cancelled \in BOOLEAN /\ signalled \in BOOLEAN
    /\ jito \in {"connect", "subscribe", "stream", "sleep", "done", "panicked"}
    /\ task \in {"woken", "running", "parked"}
    /\ tick \in {"due", "waiting"} /\ fetch \in {"none", "created", "pending", "ready"}
    /\ main \in {"select", "awaiting", "dropping", "exited"}
    /\ verdict \in {"none", "ok", "error"}
    /\ server \in {"setup", "select", "joining", "returned", "aborted", "panicked"}
    /\ exit \in {"none", "ok", "unexpected"} \cup Thread
    /\ sched \in {"unborn", "connect", "top", "poll", "rechecking", "done", "panicked",
                 "asserted"}
    /\ joined \subseteq Thread
    /\ StoppedByToken /\ SignalFirst /\ ExitTrue
    /\ DisconnectMeansPanic /\ VerdictTrue

ChannelOK == chan \in Seq(Message) /\ Len(chan) <= Capacity

\* The two halves make the invariant.
LEMMA Halves == ProcessInv <=> Control /\ ChannelOK /\ SetupChannel /\ receiver \in BOOLEAN
  BY DEF ProcessInv, Control, ChannelOK, TypeOK, Message

\* The channel of a process that begins is empty, and nobody has stopped.
LEMMA ProcessInitial == Init => ProcessInv
  <1> SUFFICES ASSUME Init PROVE ProcessInv OBVIOUS
  <1>1. Control
    BY DEF Init, JitoInit, Control, Thread, StoppedByToken, SignalFirst, ExitTrue,
           DisconnectMeansPanic, VerdictTrue
  <1>2. ChannelOK
    BY CapacityAssumption, EmptySeq DEF Init, JitoInit, ChannelOK
  <1>3. SetupChannel
    BY DEF Init, JitoInit, SetupChannel
  <1>4. receiver \in BOOLEAN
    BY DEF Init
  <1> QED BY <1>1, <1>2, <1>3, <1>4, Halves

(***************************************************************************)
(* Every step keeps the control half.                                      *)
(***************************************************************************)
\* The Jito thread leaves everything but itself and the channel alone, ends
\* well only when the token is cancelled, and once ended stays as it is.
LEMMA JitoControl ==
    ASSUME Control, Jito
    PROVE  /\ Control'
           /\ UNCHANGED <<cancelled, receiver, main, verdict, signalled, server,
                          exit, sched, joined>>
  <1> USE DEF Control, Jito, JitoEnded
  <1>1. CASE JitoStops
    BY <1>1 DEF JitoStops, StoppedByToken, SignalFirst, ExitTrue, DisconnectMeansPanic,
           VerdictTrue, Panicked, Thread
  <1>2. CASE JitoRuns
    BY <1>2 DEF JitoRuns, StoppedByToken, SignalFirst, ExitTrue, DisconnectMeansPanic,
           VerdictTrue, Panicked, Thread
  <1>3. CASE FetchBuilderConfig
    BY <1>3 DEF FetchBuilderConfig, Running, TrySend, Malformed,
           StoppedByToken, SignalFirst, ExitTrue, DisconnectMeansPanic,
           VerdictTrue, Panicked, Thread
  <1>4. CASE Subscribe
    BY <1>4 DEF Subscribe, Running,
           StoppedByToken, SignalFirst, ExitTrue, DisconnectMeansPanic,
           VerdictTrue, Panicked, Thread
  <1>5. CASE Fails
    BY <1>5 DEF Fails, Running, StoppedByToken, SignalFirst, ExitTrue, DisconnectMeansPanic,
           VerdictTrue, Panicked, Thread
  <1>6. CASE SleepOver
    BY <1>6 DEF SleepOver, Running,
           StoppedByToken, SignalFirst, ExitTrue, DisconnectMeansPanic,
           VerdictTrue, Panicked, Thread
  <1>7. CASE SendBlockhash
    BY <1>7 DEF SendBlockhash, Running, TrySend,
           StoppedByToken, SignalFirst, ExitTrue, DisconnectMeansPanic,
           VerdictTrue, Panicked, Thread
  <1>8. ASSUME NEW kind \in {"tip", "update"}, SendUpdate(kind)
        PROVE  Control' /\ UNCHANGED <<cancelled, receiver, main, verdict, signalled, server,
                                       exit, sched, joined>>
    BY <1>8 DEF SendUpdate, Running, TrySend, Malformed, PollNext,
           StoppedByToken, SignalFirst, ExitTrue, DisconnectMeansPanic,
           VerdictTrue, Panicked, Thread
  <1>9. CASE Parks
    BY <1>9 DEF Parks, PollNext, StoppedByToken, SignalFirst, ExitTrue, DisconnectMeansPanic,
           VerdictTrue, Panicked, Thread
  <1>10. CASE TimerFires
    BY <1>10 DEF TimerFires, Woken,
           StoppedByToken, SignalFirst, ExitTrue, DisconnectMeansPanic,
           VerdictTrue, Panicked, Thread
  <1>11. CASE RpcReplies
    BY <1>11 DEF RpcReplies, Woken,
           StoppedByToken, SignalFirst, ExitTrue, DisconnectMeansPanic,
           VerdictTrue, Panicked, Thread
  <1>12. CASE OtherWakes
    BY <1>12 DEF OtherWakes, StoppedByToken, SignalFirst, ExitTrue, DisconnectMeansPanic,
           VerdictTrue, Panicked, Thread
  <1> QED
    BY <1>1, <1>2, <1>3, <1>4, <1>5, <1>6, <1>7, <1>8, <1>9, <1>10, <1>11, <1>12
    DEF JitoNext, RunUntilErr

\* The scheduler's thread stops well only when the token is cancelled, and
\* asserts only when the Jito thread has ended without being told to.
LEMMA SchedulerControl == ASSUME Control, Scheduler PROVE Control'
  <1> USE DEF Control
  <1>1. CASE Connects
    BY <1>1 DEF Connects, SchedStep, jvars,
           StoppedByToken, SignalFirst, ExitTrue, DisconnectMeansPanic, VerdictTrue,
           Panicked, Thread
  <1>2. CASE SchedPanics
    BY <1>2 DEF SchedPanics, SchedStep, jvars,
           StoppedByToken, SignalFirst, ExitTrue, DisconnectMeansPanic, VerdictTrue,
           Panicked, Thread
  <1>3. CASE Polls
    BY <1>3 DEF Polls, SchedStep, jvars,
           StoppedByToken, SignalFirst, ExitTrue, DisconnectMeansPanic, VerdictTrue,
           Panicked, Thread
  <1>4. CASE SchedStops
    BY <1>4 DEF SchedStops, SchedStep, jvars,
           StoppedByToken, SignalFirst, ExitTrue, DisconnectMeansPanic, VerdictTrue,
           Panicked, Thread
  <1>5. CASE DrainJito
    BY <1>5 DEF DrainJito, SchedStep, jvars,
           StoppedByToken, SignalFirst, ExitTrue, DisconnectMeansPanic, VerdictTrue,
           Panicked, Thread
  <1>6. CASE DrainedEmpty
    BY <1>6 DEF DrainedEmpty, SchedStep, jvars,
           StoppedByToken, SignalFirst, ExitTrue, DisconnectMeansPanic, VerdictTrue,
           Panicked, Thread
  <1>7. CASE DrainAsserts
    BY <1>7 DEF DrainAsserts, SchedStep, jvars, JitoEnded,
           StoppedByToken, SignalFirst, ExitTrue, DisconnectMeansPanic, VerdictTrue,
           Panicked, Thread
  <1>8. CASE DrainSpins
    BY <1>8 DEF DrainSpins, vars, jvars,
           StoppedByToken, SignalFirst, ExitTrue, DisconnectMeansPanic, VerdictTrue,
           Panicked, Thread
  <1>9. CASE CaughtInChecks
    BY <1>9 DEF CaughtInChecks, SchedStep, jvars,
           StoppedByToken, SignalFirst, ExitTrue, DisconnectMeansPanic, VerdictTrue,
           Panicked, Thread
  <1>10. CASE ChecksSpin
    BY <1>10 DEF ChecksSpin, vars, jvars,
           StoppedByToken, SignalFirst, ExitTrue, DisconnectMeansPanic, VerdictTrue,
           Panicked, Thread
  <1> QED BY <1>1, <1>2, <1>3, <1>4, <1>5, <1>6, <1>7, <1>8, <1>9, <1>10 DEF Scheduler

\* await_shutdown records a thread's error only if that thread panicked, and a
\* clean or unexpected exit only after a signal.
LEMMA ServerControl == ASSUME Control, Server PROVE Control'
  <1> USE DEF Control
  <1>1. CASE Setup
    BY <1>1 DEF Setup, jvars,
           StoppedByToken, SignalFirst, ExitTrue, DisconnectMeansPanic, VerdictTrue,
           Panicked, Thread
  <1>2. CASE SetupPanics
    BY <1>2 DEF SetupPanics, jvars,
           StoppedByToken, SignalFirst, ExitTrue, DisconnectMeansPanic, VerdictTrue,
           Panicked, Thread
  <1>3. CASE SelectCancelled
    BY <1>3 DEF SelectCancelled, ServerStep, jvars,
           StoppedByToken, SignalFirst, ExitTrue, DisconnectMeansPanic, VerdictTrue,
           Panicked, Thread
  <1>4. CASE Returns
    BY <1>4 DEF Returns, ServerStep, jvars,
           StoppedByToken, SignalFirst, ExitTrue, DisconnectMeansPanic, VerdictTrue,
           Panicked, Thread
  <1>5. CASE Aborts
    BY <1>5 DEF Aborts, ServerStep, jvars,
           StoppedByToken, SignalFirst, ExitTrue, DisconnectMeansPanic, VerdictTrue,
           Panicked, Thread
  <1>6. ASSUME NEW t \in Thread, SelectThread(t) PROVE Control'
    BY <1>6 DEF SelectThread, Exits, Ended, JitoEnded, SchedEnded, ServerStep, jvars,
           StoppedByToken, SignalFirst, ExitTrue, DisconnectMeansPanic, VerdictTrue,
           Panicked, Thread
  <1>7. ASSUME NEW t \in Thread, Join(t) PROVE Control'
    BY <1>7 DEF Join, Exits, ServerStep, jvars,
           StoppedByToken, SignalFirst, ExitTrue, DisconnectMeansPanic, VerdictTrue,
           Panicked, Thread
  <1> QED BY <1>1, <1>2, <1>3, <1>4, <1>5, <1>6, <1>7 DEF Server

\* main leaves its select on a signal or with the task's result.
LEMMA MainControl == ASSUME Control, Main PROVE Control'
  <1> USE DEF Control
  <1>1. CASE Signal
    BY <1>1 DEF Signal, MainStep, jvars,
           StoppedByToken, SignalFirst, ExitTrue, DisconnectMeansPanic, VerdictTrue,
           Panicked, Thread
  <1>2. CASE MainAwaits
    BY <1>2 DEF MainAwaits, MainStep, jvars,
           StoppedByToken, SignalFirst, ExitTrue, DisconnectMeansPanic, VerdictTrue,
           Panicked, Thread
  <1>3. CASE MainSeesResult
    <2> USE <1>3 DEF MainSeesResult, ServerEnded, MainStep, jvars
    <2>1. ~signalled /\ server \in {"returned", "panicked"}
      BY DEF SignalFirst
    <2>2. server = "returned" => exit \in Thread
      BY <2>1 DEF ExitTrue
    <2>3. server = "panicked" \/ \E t \in Thread : Panicked(t)
      BY <2>1, <2>2 DEF ExitTrue
    <2>4. verdict' = "error"
      BY <2>1, <2>2 DEF Thread
    <2>5. VerdictTrue'
      BY <2>3, <2>4 DEF VerdictTrue, Panicked
    <2>6. ExitTrue'
      BY DEF ExitTrue, Panicked
    <2>7. StoppedByToken' /\ SignalFirst' /\ DisconnectMeansPanic'
      BY <2>1 DEF StoppedByToken, SignalFirst, DisconnectMeansPanic
    <2> QED BY <2>4, <2>5, <2>6, <2>7
  <1>4. CASE MainReturns
    BY <1>4 DEF MainReturns, MainStep, jvars,
           StoppedByToken, SignalFirst, ExitTrue, DisconnectMeansPanic, VerdictTrue,
           Panicked, Thread
  <1> QED BY <1>1, <1>2, <1>3, <1>4 DEF Main

(***************************************************************************)
(* Every step keeps the channel half.                                      *)
(***************************************************************************)
\* try_send puts a message at the end of the channel, within its capacity.
LEMMA SendKeepsChannel ==
    ASSUME ChannelOK, NEW kind \in Message, NEW next, TrySend(kind, next)
    PROVE  /\ ChannelOK'
           /\ \/ chan' = chan /\ jito' = "panicked"
              \/ chan' # <<>> /\ Head(chan') = IF chan = <<>> THEN kind ELSE Head(chan)
  <1>1. CASE receiver /\ Len(chan) < Capacity
    <2>1. chan' = Append(chan, kind)
      BY <1>1 DEF TrySend
    <2>2. Len(chan) \in Nat
      BY LenProperties DEF ChannelOK
    <2>3. /\ chan' \in Seq(Message) /\ Len(chan') = Len(chan) + 1
          /\ chan' # <<>> /\ Head(chan') = IF chan = <<>> THEN kind ELSE Head(chan)
      BY <2>1, <2>2 DEF ChannelOK
    <2> QED BY <1>1, <2>2, <2>3, CapacityAssumption DEF ChannelOK
  <1>2. CASE ~(receiver /\ Len(chan) < Capacity)
    BY <1>2 DEF TrySend, ChannelOK
  <1> QED BY <1>1, <1>2

\* try_recv takes a message from the front.
LEMMA ReceiveKeepsChannel ==
    ASSUME ChannelOK, chan # <<>>, chan' = Tail(chan)
    PROVE  ChannelOK'
  <1>1. Len(chan) \in Nat /\ Tail(chan) \in Seq(Message) /\ Len(Tail(chan)) = Len(chan) - 1
    BY LenProperties, HeadTailProperties DEF ChannelOK
  <1> QED BY <1>1, CapacityAssumption DEF ChannelOK

\* The channel stays well-formed, and while setup lasts its first message is
\* the builder config.
LEMMA JitoChannel ==
    ASSUME Control, ChannelOK, SetupChannel, Jito
    PROVE  ChannelOK' /\ SetupChannel'
  <1>1. server' = server
    BY DEF Jito
  <1>malformed. ASSUME Malformed PROVE ChannelOK' /\ SetupChannel'
    BY <1>malformed, <1>1 DEF Malformed, ChannelOK, SetupChannel
  <1>2. CASE FetchBuilderConfig
    <2>1. jito = "connect" /\ (TrySend("builder", "subscribe") \/ Malformed)
      BY <1>2 DEF FetchBuilderConfig, Running
    <2>2. "builder" \in Message
      BY DEF Message
    <2>3. CASE TrySend("builder", "subscribe")
      BY <1>1, <2>1, <2>2, <2>3, SendKeepsChannel DEF SetupChannel
    <2> QED BY <2>1, <2>3, <1>malformed
  <1>3. CASE SendBlockhash
    <2>1. jito = "stream" /\ TrySend("hash", "stream")
      BY <1>3 DEF SendBlockhash, Running
    <2>2. "hash" \in Message
      BY DEF Message
    <2> QED BY <1>1, <2>1, <2>2, SendKeepsChannel DEF SetupChannel
  <1>4. ASSUME NEW kind \in {"tip", "update"}, SendUpdate(kind)
        PROVE  ChannelOK' /\ SetupChannel'
    <2>1. jito = "stream" /\ (TrySend(kind, "stream") \/ Malformed)
      BY <1>4 DEF SendUpdate, Running
    <2>2. kind \in Message
      BY DEF Message
    <2>3. CASE TrySend(kind, "stream")
      BY <1>1, <2>1, <2>2, <2>3, SendKeepsChannel DEF SetupChannel
    <2> QED BY <2>1, <2>3, <1>malformed
  <1>5. CASE Subscribe
    BY <1>1, <1>5 DEF Subscribe, Running, ChannelOK, SetupChannel
  <1>6. CASE \/ JitoStops \/ JitoRuns \/ Fails \/ SleepOver \/ Parks
             \/ TimerFires \/ RpcReplies \/ OtherWakes
    <2>1. chan' = chan /\ (jito' = jito \/ jito' \in {"done", "sleep", "connect"})
      BY <1>6 DEF JitoStops, JitoRuns, Fails, SleepOver, Running, Parks, TimerFires,
                  RpcReplies, OtherWakes
    <2> QED BY <1>1, <2>1 DEF ChannelOK, SetupChannel
  <1> QED BY <1>2, <1>3, <1>4, <1>5, <1>6 DEF Jito, JitoNext, RunUntilErr

\* The scheduler and setup only receive, and the others leave the channel alone.
LEMMA OthersChannel ==
    ASSUME Control, ChannelOK, SetupChannel, Scheduler \/ Server \/ Main
    PROVE  ChannelOK' /\ SetupChannel'
  <1>1. CASE DrainJito
    <2>1. sched # "unborn" /\ server' = server
      BY <1>1 DEF DrainJito, SchedStep
    <2> QED BY <1>1, <2>1, ReceiveKeepsChannel
            DEF DrainJito, Control, StoppedByToken, SetupChannel
  <1>2. CASE Setup
    BY <1>2, ReceiveKeepsChannel DEF Setup, BuilderReady, SetupChannel
  <1>3. CASE Scheduler /\ ~DrainJito
    <2>1. chan' = chan /\ jito' = jito /\ server' = server
      BY <1>3 DEF Scheduler, Connects, SchedPanics, Polls, SchedStops, DrainedEmpty,
                  CaughtInChecks, ChecksSpin, DrainAsserts, DrainSpins, SchedStep, vars, jvars
    <2> QED BY <2>1 DEF ChannelOK, SetupChannel
  <1>4. CASE Server /\ ~Setup
    <2>1. chan' = chan /\ jito' = jito /\ server' # "setup"
      BY <1>4 DEF Server, SetupPanics, SelectCancelled, Returns, Aborts, SelectThread,
                  Join, ServerStep, jvars
    <2> QED BY <2>1 DEF ChannelOK, SetupChannel
  <1>5. CASE Main
    <2>1. chan' = chan /\ jito' = jito /\ server' = server
      BY <1>5 DEF Main, Signal, MainAwaits, MainSeesResult, MainReturns, MainStep, jvars
    <2> QED BY <2>1 DEF ChannelOK, SetupChannel
  <1> QED BY <1>1, <1>2, <1>3, <1>4, <1>5

\* receiver stays a Boolean: the receiving end is dropped and never made again.
LEMMA ReceiverType == ASSUME receiver \in BOOLEAN, Next PROVE receiver' \in BOOLEAN
  <1>1. receiver' = receiver \/ receiver' = FALSE
    BY Zenon DEF Next, Jito, JitoNext, JitoStops, JitoRuns, RunUntilErr, FetchBuilderConfig,
           Subscribe, Fails, SleepOver, SendBlockhash, SendUpdate, Running, Parks, TimerFires,
           RpcReplies, OtherWakes, Scheduler, Connects, SchedPanics, Polls, SchedStops,
           DrainJito, DrainedEmpty, CaughtInChecks, ChecksSpin, DrainAsserts, DrainSpins, Server, Setup, SetupPanics,
           SelectCancelled, Returns, Aborts, SelectThread, Join, ServerStep, Main, Signal,
           MainAwaits, MainSeesResult, MainReturns, MainStep, Gone, vars
  <1> QED BY <1>1, Zenon

(***************************************************************************)
(* The theorems.                                                           *)
(***************************************************************************)
\* Every step of the process keeps the invariant.
LEMMA ProcessInvStep == ProcessInv /\ [Next]_vars => ProcessInv'
  <1> SUFFICES ASSUME ProcessInv, [Next]_vars PROVE ProcessInv'
    OBVIOUS
  <1>1. Control /\ ChannelOK /\ SetupChannel /\ receiver \in BOOLEAN
    BY Halves
  <1>2. CASE Next
    <2>1. receiver' \in BOOLEAN
      BY <1>1, <1>2, ReceiverType
    <2>2. CASE Jito \/ Scheduler \/ Server \/ Main
      <3>1. Control'
        BY <1>1, <2>2, JitoControl, SchedulerControl, ServerControl, MainControl
      <3>2. ChannelOK' /\ SetupChannel'
        BY <1>1, <2>2, JitoChannel, OthersChannel
      <3> QED BY <2>1, <3>1, <3>2 DEF ProcessInv, Control, ChannelOK, TypeOK, Message
    <2>3. CASE Gone
      BY <2>3 DEF Gone, vars, jvars, ProcessInv, TypeOK, StoppedByToken, SignalFirst, ExitTrue,
              SetupChannel, DisconnectMeansPanic, VerdictTrue, Panicked
    <2> QED BY <1>2, <2>2, <2>3 DEF Next
  <1>3. CASE UNCHANGED vars
    BY <1>3 DEF vars, jvars, ProcessInv, TypeOK, StoppedByToken, SignalFirst, ExitTrue,
            SetupChannel, DisconnectMeansPanic, VerdictTrue, Panicked
  <1> QED BY <1>2, <1>3

\* The invariant holds of the process from beginning to end.
THEOREM ProcessInvariant == Spec => []ProcessInv
  BY ProcessInitial, ProcessInvStep, PTL DEF Spec

\* The process's state keeps its types, the update channel its capacity.
THEOREM ProcessTypes == Spec => []TypeOK
  BY ProcessInvariant, PTL DEF ProcessInv

\* However often connecting fails, setup finds the builder config first in the
\* channel (jito_thread.rs sends it before it subscribes).
THEOREM BuilderConfigComesFirst == Spec => []BuilderConfigFirst
  <1>1. ProcessInv => BuilderConfigFirst
    BY DEF ProcessInv, SetupChannel, BuilderConfigFirst
  <1> QED BY <1>1, ProcessInvariant, PTL

\* When drain_jito's assertion about shutdown fails, the Jito thread panicked.
THEOREM AssertionMeansPanic == Spec => []DisconnectMeansPanic
  BY ProcessInvariant, PTL DEF ProcessInv

\* main's result is an error only after a panic and a success only after a signal.
THEOREM VerdictCorrect == Spec => []VerdictTrue
  BY ProcessInvariant, PTL DEF ProcessInv

\* No later result replaces the error of a thread that await_shutdown recorded.
THEOREM ErrorKept == Spec => FirstErrorKept
  <1>1. ASSUME ProcessInv, Next, exit \in Thread PROVE exit' = exit
    <2>1. CASE Jito
      BY <2>1 DEF Jito
    <2>2. CASE Scheduler
      BY <2>2 DEF Scheduler, Connects, SchedPanics, Polls, SchedStops, DrainJito, DrainedEmpty,
                  CaughtInChecks, ChecksSpin, DrainAsserts, DrainSpins, SchedStep, vars
    <2>3. CASE Server
      <3>1. server \notin {"setup", "select"} /\ exit # "ok"
        BY <1>1 DEF ProcessInv, ExitTrue, Thread
      <3> QED BY <2>3, <3>1 DEF Server, Setup, SetupPanics, SelectCancelled, Returns, Aborts,
                                SelectThread, Join
    <2>4. CASE Main
      BY <2>4 DEF Main, Signal, MainAwaits, MainSeesResult, MainReturns, MainStep
    <2>5. CASE Gone
      BY <2>5 DEF Gone, vars
    <2> QED BY <1>1, <2>1, <2>2, <2>3, <2>4, <2>5 DEF Next
  <1>2. ProcessInv /\ [Next]_vars => [(exit \in Thread) => (exit' = exit)]_vars
    BY <1>1
  <1> QED BY <1>2, ProcessInvariant, PTL DEF Spec, FirstErrorKept

(***************************************************************************)
(* The exporter beside the process.                                        *)
(***************************************************************************)
\* The exporter's steps leave the process alone, so that its theorems hold with
\* the exporter running.
LEMMA ExportRefines == ExportSpec => Spec
  <1>1. ExportInit => Init
    BY DEF ExportInit
  <1>2. [ExportNext]_<<vars, exportVars>> => [Next]_vars
    BY DEF ExportNext, ProcessStep
  <1> QED BY <1>1, <1>2, PTL DEF ExportSpec, Spec

\* What the exporter needs to outlast everything but a shutdown: main is on its
\* way out only once the token is cancelled.
LeavesCancelled == main # "select" => cancelled
ExportInv ==
    /\ events \in 0..EventCapacity
    /\ exporter \in {"spawned", "connecting", "recv", "writing", "done"}
    /\ linked => exporter \in {"recv", "writing"}
    /\ LeavesCancelled /\ ExporterOutlasts

\* Nothing takes the cancellation back, and main cancels before it leaves.
LEMMA CancelledStays ==
    ASSUME LeavesCancelled, Next
    PROVE  (cancelled => cancelled') /\ LeavesCancelled'
  <1>1. CASE Jito
    <2>1. cancelled' = cancelled /\ main' = main
      BY <1>1 DEF Jito, JitoNext, JitoStops, JitoRuns, RunUntilErr, FetchBuilderConfig,
             Subscribe, Fails, SleepOver, SendBlockhash, SendUpdate, Running, Parks, TimerFires,
             RpcReplies, OtherWakes, TrySend
    <2> QED BY <2>1 DEF LeavesCancelled
  <1>2. CASE Scheduler
    BY <1>2 DEF LeavesCancelled, Scheduler, Connects, SchedPanics, Polls, SchedStops, DrainJito,
                DrainedEmpty, CaughtInChecks, ChecksSpin, DrainAsserts, DrainSpins, SchedStep, vars
  <1>3. CASE Server
    BY <1>3 DEF LeavesCancelled, Server, Setup, SetupPanics, SelectCancelled, Returns, Aborts,
                SelectThread, Join, ServerStep
  <1>4. CASE Main
    BY <1>4 DEF LeavesCancelled, Main, Signal, MainAwaits, MainSeesResult, MainReturns, MainStep
  <1>5. CASE Gone
    BY <1>5 DEF LeavesCancelled, Gone, vars
  <1> QED BY <1>1, <1>2, <1>3, <1>4, <1>5 DEF Next

\* A step of the exporter, of the emitter or of the log server.
LEMMA ExporterStep ==
    ASSUME ExportInv, UNCHANGED vars, EmitEvent \/ Exporter \/ LinkBreaks
    PROVE  ExportInv'
  <1>1. EventCapacity \in Nat /\ EventCapacity > 0
    BY EventCapacityAssumption
  <1>2. cancelled' = cancelled /\ main' = main
    BY DEF vars
  <1>3. CASE EmitEvent
    BY <1>1, <1>2, <1>3 DEF ExportInv, LeavesCancelled, ExporterOutlasts, EmitEvent
  <1>4. CASE Exporter
    BY <1>1, <1>2, <1>4
       DEF ExportInv, LeavesCancelled, ExporterOutlasts, Exporter, Starts, LogServerConnects,
           ConnectFails, Recv, RecvDiscards, RecvNone, Written, WriteError, LoopHead
  <1>5. CASE LinkBreaks
    BY <1>1, <1>2, <1>5 DEF ExportInv, LeavesCancelled, ExporterOutlasts, LinkBreaks
  <1> QED BY <1>3, <1>4, <1>5

\* The event channel never holds more than its capacity, a connection belongs to
\* a task that uses it, and main leaves and the exporter ends only at shutdown.
THEOREM ExporterInvariant == ExportSpec => []ExportInv
  <1>1. ExportInit => ExportInv
    BY EventCapacityAssumption
       DEF ExportInit, Init, ExportInv, LeavesCancelled, ExporterOutlasts
  <1>2. ASSUME ExportInv, ExportNext PROVE ExportInv'
    <2>1. CASE ProcessStep
      <3>1. (cancelled => cancelled') /\ LeavesCancelled' /\ events' = events
        BY <1>2, <2>1, CancelledStays DEF ProcessStep, ExportInv
      <3>2. CASE main' = "exited"
        BY <1>2, <2>1, <3>1, <3>2 DEF ProcessStep, ExportInv, LeavesCancelled, ExporterOutlasts
      <3>3. CASE main' # "exited"
        BY <1>2, <2>1, <3>1, <3>3 DEF ProcessStep, ExportInv, ExporterOutlasts
      <3> QED BY <3>2, <3>3
    <2>2. CASE UNCHANGED vars /\ (EmitEvent \/ Exporter \/ LinkBreaks)
      BY <1>2, <2>2, ExporterStep
    <2> QED BY <1>2, <2>1, <2>2 DEF ExportNext
  <1>3. ASSUME ExportInv, UNCHANGED <<vars, exportVars>> PROVE ExportInv'
    BY <1>3 DEF vars, exportVars, ExportInv, LeavesCancelled, ExporterOutlasts
  <1>4. ExportInv /\ [ExportNext]_<<vars, exportVars>> => ExportInv'
    BY <1>2, <1>3
  <1> QED BY <1>1, <1>4, PTL DEF ExportSpec

\* No failure on the way to the log server ends the exporter before shutdown.
THEOREM ExporterOutlastsCorrect == ExportSpec => []ExporterOutlasts
  BY ExporterInvariant, PTL DEF ExportInv

\* The exporter takes nothing from the process: its types, the builder config's
\* place in the channel, what a missing sender means and main's verdict are as
\* without it.
THEOREM ExportKeepsProcess ==
    ExportSpec => [](TypeOK /\ BuilderConfigFirst /\ DisconnectMeansPanic /\ VerdictTrue)
  BY ExportRefines, ProcessTypes, BuilderConfigComesFirst, AssertionMeansPanic, VerdictCorrect, PTL
=============================================================================
