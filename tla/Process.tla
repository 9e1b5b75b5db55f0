------------------------------ MODULE Process -------------------------------
(***************************************************************************)
(* The process: main (external-scheduler/src/main.rs), the task that sets  *)
(* the scheduler up and waits for its threads                              *)
(* (external-scheduler/src/scheduler_thread.rs), the scheduler's thread and*)
(* the Jito thread, which share a CancellationToken and the update channel.*)
(* A poll of the scheduler is reduced to its use of the channel and to     *)
(* whether it panics.                                                      *)
(***************************************************************************)
EXTENDS JitoThread

CONSTANT Auction      \* the process runs the auction scheduler, not the batch one

ASSUME AuctionAssumption == Auction \in BOOLEAN

VARIABLES
    main,             \* main's select, then its way out
    verdict,          \* what main returns
    signalled,        \* SIGTERM or SIGINT was received
    server,           \* the task SchedulerThread::run
    exit,             \* await_shutdown's exit
    sched,            \* the scheduler's thread
    joined            \* threads that threads.next() has returned

vars == <<cancelled, receiver, chan, jvars, main, verdict, signalled, server, exit,
          sched, joined>>

Thread == {"scheduler", "jito"}
SchedEnded == sched \in {"done", "panicked", "asserted"}
Ended(t) == IF t = "jito" THEN JitoEnded ELSE SchedEnded
Panicked(t) == IF t = "jito" THEN jito = "panicked" ELSE sched \in {"panicked", "asserted"}

Init ==
    /\ cancelled = FALSE /\ receiver = TRUE
    /\ JitoInit
    /\ main = "select" /\ verdict = "none" /\ signalled = FALSE
    /\ server = "setup" /\ exit = "none" /\ joined = {}
    /\ sched = "unborn"

Jito == JitoNext /\ UNCHANGED <<main, verdict, signalled, server, exit, sched, joined>>

(***************************************************************************)
(* setup: the scheduler is made once the builder config is there, waiting  *)
(* for it up to five seconds; then its thread is spawned.                  *)
(***************************************************************************)
BuilderReady == chan # <<>> /\ Head(chan) = "builder"
Setup ==
    /\ server = "setup" /\ BuilderReady
    /\ chan' = Tail(chan)
    /\ server' = "select" /\ sched' = "connect"
    /\ UNCHANGED <<cancelled, receiver, jvars, main, verdict, signalled, exit, joined>>
SetupPanics ==
    /\ server = "setup" /\ ~BuilderReady
    /\ server' = "panicked" /\ receiver' = FALSE
    /\ UNCHANGED <<cancelled, chan, jvars, main, verdict, signalled, exit, sched, joined>>

(***************************************************************************)
(* The scheduler's thread.                                                 *)
(***************************************************************************)
SchedStep == UNCHANGED <<cancelled, jvars, main, verdict, signalled, server, exit, joined>>

\* The session with the validator.
Connects ==
    /\ sched = "connect" /\ sched' = "top"
    /\ SchedStep /\ UNCHANGED <<receiver, chan>>
SchedPanics ==
    /\ sched \in {"connect", "poll"}
    /\ sched' = "panicked" /\ receiver' = FALSE
    /\ SchedStep /\ UNCHANGED chan

\* while !shutdown.is_cancelled()
Polls ==
    /\ sched = "top" /\ ~cancelled
    /\ sched' = "poll"
    /\ SchedStep /\ UNCHANGED <<receiver, chan>>
SchedStopsOnSignal ==
    /\ sched = "top" /\ signalled
    /\ sched' = "done" /\ receiver' = FALSE
    /\ SchedStep /\ UNCHANGED chan
SchedStops ==
    /\ sched = "top" /\ cancelled
    /\ sched' = "done" /\ receiver' = FALSE
    /\ SchedStep /\ UNCHANGED chan

DrainJito ==
    /\ sched = "poll" /\ chan # <<>>
    /\ chan' = Tail(chan)
    /\ SchedStep /\ UNCHANGED <<receiver, sched>>
\* The channel is empty and has a sender: the rest of the poll follows.  The
\* auction scheduler's schedule_checks may never end.
DrainedEmpty ==
    /\ sched = "poll" /\ chan = <<>> /\ ~JitoEnded
    /\ sched' = "top"
    /\ SchedStep /\ UNCHANGED <<receiver, chan>>
CaughtInChecks ==
    /\ Auction /\ sched = "poll" /\ chan = <<>> /\ ~JitoEnded
    /\ sched' = "rechecking"
    /\ SchedStep /\ UNCHANGED <<receiver, chan>>
ChecksSpin == sched = "rechecking" /\ UNCHANGED vars
\* drain_jito on a channel without a sender: the assertion fails, or it holds
\* and the loop goes round again.
DrainAsserts ==
    /\ sched = "poll" /\ chan = <<>> /\ JitoEnded /\ ~cancelled
    /\ sched' = "asserted" /\ receiver' = FALSE
    /\ SchedStep /\ UNCHANGED chan
Spinning == sched = "poll" /\ chan = <<>> /\ JitoEnded /\ cancelled
DrainSpins == Spinning /\ UNCHANGED vars

(***************************************************************************)
(* await_shutdown.                                                         *)
(***************************************************************************)
ServerStep == UNCHANGED <<receiver, chan, jvars, main, verdict, signalled, sched>>
Exits(t) == Ended(t) /\ t \notin joined /\ joined' = joined \cup {t}

SelectCancelled ==
    /\ server = "select" /\ cancelled
    /\ server' = "joining" /\ exit' = "ok"
    /\ ServerStep /\ UNCHANGED <<cancelled, joined>>
SelectThread(t) ==
    /\ server = "select" /\ Exits(t)
    /\ server' = "joining" /\ cancelled' = TRUE
    /\ exit' = IF Panicked(t) THEN t ELSE "unexpected"
    /\ ServerStep
JoinLast(t) ==
    /\ server = "joining" /\ Exits(t)
    /\ exit' = IF Panicked(t) THEN t ELSE "ok"
    /\ ServerStep /\ UNCHANGED <<cancelled, server>>
\* exit.and(thread): the first error stays.
Join(t) ==
    /\ server = "joining" /\ Exits(t)
    /\ exit' = IF exit = "ok" /\ Panicked(t) THEN t ELSE exit
    /\ ServerStep /\ UNCHANGED <<cancelled, server>>
Returns ==
    /\ server = "joining" /\ joined = Thread
    /\ server' = "returned"
    /\ ServerStep /\ UNCHANGED <<cancelled, exit, joined>>
\* scheduler.abort() takes effect where the task awaits.
Aborts ==
    /\ main = "awaiting" /\ server \in {"select", "joining"}
    /\ server' = "aborted"
    /\ ServerStep /\ UNCHANGED <<cancelled, exit, joined>>

(***************************************************************************)
(* main.                                                                   *)
(***************************************************************************)
MainStep == UNCHANGED <<receiver, chan, jvars, server, exit, sched, joined>>
ServerEnded == server \in {"returned", "aborted", "panicked"}

Signal ==
    /\ main = "select"
    /\ main' = "awaiting" /\ cancelled' = TRUE /\ signalled' = TRUE
    /\ MainStep /\ UNCHANGED verdict
MainAwaits ==
    /\ main = "awaiting" /\ ServerEnded
    /\ main' = "dropping" /\ verdict' = "ok"
    /\ MainStep /\ UNCHANGED <<cancelled, signalled>>
MainSeesResult ==
    /\ main = "select" /\ ServerEnded
    /\ main' = "dropping" /\ cancelled' = TRUE
    /\ verdict' = IF server = "returned" /\ exit = "ok" THEN "ok" ELSE "error"
    /\ MainStep /\ UNCHANGED signalled
\* Dropping the runtime waits for the blocking tasks that join the threads.
MainReturns ==
    /\ main = "dropping"
    /\ sched # "unborn" => \A t \in Thread : Ended(t)
    /\ main' = "exited"
    /\ MainStep /\ UNCHANGED <<cancelled, verdict, signalled>>
Gone == main = "exited" /\ UNCHANGED vars

Scheduler ==
    \/ Connects \/ SchedPanics \/ Polls \/ SchedStops
    \/ DrainJito \/ DrainAsserts \/ DrainSpins
    \/ DrainedEmpty \/ CaughtInChecks \/ ChecksSpin
Server ==
    \/ Setup \/ SetupPanics \/ SelectCancelled \/ Returns \/ Aborts
    \/ \E t \in Thread : SelectThread(t) \/ Join(t)
Main == Signal \/ MainAwaits \/ MainSeesResult \/ MainReturns
Next == (main # "exited" /\ (Jito \/ Scheduler \/ Server \/ Main)) \/ Gone
Spec == Init /\ [][Next]_vars

\* The threads and the tasks run; nothing says that a signal comes or that
\* anything fails.  A poll that gets past drain_jito ends, or is caught.
Fairness ==
    /\ WF_vars(Jito /\ JitoStops) /\ WF_vars(Jito /\ JitoRuns)
    /\ WF_vars(Jito /\ (Parks \/ SendBlockhash))
    /\ WF_vars(Jito /\ TimerFires) /\ WF_vars(Jito /\ RpcReplies)
    /\ WF_vars(Setup \/ SetupPanics)
    /\ WF_vars(Connects \/ Polls \/ SchedStops \/ DrainJito \/ DrainedEmpty \/ DrainAsserts)
    /\ WF_vars(Aborts) /\ WF_vars(SelectCancelled \/ Returns)
    /\ \A t \in Thread : WF_vars(SelectThread(t) \/ Join(t))
    /\ WF_vars(MainAwaits) /\ WF_vars(MainSeesResult) /\ WF_vars(MainReturns)
FairSpec == Spec /\ Fairness

(***************************************************************************)
(* Properties.                                                             *)
(***************************************************************************)
\* The types of the process's state.
TypeOK ==
    /\ cancelled \in BOOLEAN /\ receiver \in BOOLEAN /\ signalled \in BOOLEAN
    /\ chan \in Seq({"builder", "tip", "hash", "update"}) /\ Len(chan) <= Capacity
    /\ jito \in {"connect", "subscribe", "stream", "sleep", "done", "panicked"}
    /\ task \in {"woken", "running", "parked"}
    /\ tick \in {"due", "waiting"} /\ fetch \in {"none", "created", "pending", "ready"}
    /\ main \in {"select", "awaiting", "dropping", "exited"}
    /\ verdict \in {"none", "ok", "error"}
    /\ server \in {"setup", "select", "joining", "returned", "aborted", "panicked"}
    /\ exit \in {"none", "ok", "unexpected"} \cup Thread
    /\ sched \in {"unborn", "connect", "top", "poll", "rechecking", "done", "panicked",
                 "asserted"}
    /\ joined \subseteq Thread

\* The first message the scheduler finds in the channel is the builder config,
\* after any number of failed connections.
BuilderConfigFirst == server = "setup" /\ chan # <<>> => Head(chan) = "builder"

\* drain_jito finds the channel without a sender, and no shutdown under way,
\* only if the Jito thread panicked.
DisconnectMeansPanic == sched = "asserted" => jito = "panicked"

\* main ends well only when it was told to stop, and with an error only when
\* something panicked.
VerdictTrue ==
    /\ verdict = "ok" => signalled
    /\ verdict = "error" => server = "panicked" \/ \E t \in Thread : Panicked(t)

\* The error await_shutdown reports is that of the first thread it saw fail.
FirstErrorKept == [][(exit \in Thread) => (exit' = exit)]_vars

\* Once shutdown is requested, all threads exit and the process ends.
ShutdownCompletes == cancelled ~> main = "exited"

\* The same, unless the scheduler's thread is caught in drain_jito or, in the
\* auction scheduler, in schedule_checks: no other loop or wait holds it up.
ShutdownCompletesOrSpins == cancelled ~> (main = "exited" \/ Spinning \/ sched = "rechecking")

\* While the streams are up, a blockhash tick that is due leads to a request.
BlockhashFetched ==
    (jito = "stream" /\ fetch = "none" /\ tick = "due")
        ~> (fetch = "pending" \/ jito # "stream")
=============================================================================
