---------------------------- MODULE EventExport -----------------------------
(***************************************************************************)
(* The way of events out of the process: EventEmitter                      *)
(* (schedulers/common/src/events/emitter.rs), the bounded channel behind it*)
(* and the task that setup spawns to write them to the log server          *)
(* (external-scheduler/src/scheduler_thread.rs), beside the threads and    *)
(* tasks of Process.  Events are counted, not told apart.                  *)
(***************************************************************************)
EXTENDS Process

CONSTANT EventCapacity   \* of the event channel (1024)

ASSUME EventCapacityAssumption == EventCapacity \in Nat \ {0}

VARIABLES
    events,           \* how many events the channel holds
    exporter,         \* the exporter task
    linked            \* its connection still has a log server behind it

exportVars == <<events, exporter, linked>>

\* The emitter lives in the scheduler, which setup drops when it panics and the
\* scheduler's thread when it ends.
EmitterAlive == server # "panicked" /\ ~SchedEnded

\* The head of the exporter's loop, reached with n events in the channel: the
\* task ends, and the channel with it, or it connects anew.
LoopHead(n) ==
    /\ exporter' = IF cancelled THEN "done" ELSE "connecting"
    /\ events' = IF cancelled THEN 0 ELSE n
    /\ linked' = FALSE

(***************************************************************************)
(* EventEmitter::emit, during a poll: an event that finds the channel full,*)
(* or the exporter gone, is dropped.                                       *)
(***************************************************************************)
EmitEvent ==
    /\ sched = "poll"
    /\ events' = IF exporter # "done" /\ events < EventCapacity THEN events + 1 ELSE events
    /\ UNCHANGED <<exporter, linked>>

(***************************************************************************)
(* The exporter.                                                           *)
(***************************************************************************)
\* The task that setup spawned runs for the first time.
Starts == exporter = "spawned" /\ LoopHead(events)

LogServerConnects ==
    /\ exporter = "connecting"
    /\ exporter' = "recv" /\ linked' = TRUE
    /\ UNCHANGED events
\* A failed attempt, after which it sleeps and goes round.
ConnectFailsGivesUp == exporter = "connecting" /\ exporter' = "done" /\ events' = 0 /\ linked' = FALSE
ConnectFails == exporter = "connecting" /\ LoopHead(events)

\* event_rx.recv(): the next event, which is thrown away when shutdown has been
\* requested, or None when the channel is empty and the emitter gone.
Recv ==
    /\ exporter = "recv" /\ events > 0 /\ ~cancelled
    /\ events' = events - 1 /\ exporter' = "writing"
    /\ UNCHANGED linked
RecvDiscards == exporter = "recv" /\ events > 0 /\ cancelled /\ LoopHead(events - 1)
RecvNone == exporter = "recv" /\ events = 0 /\ ~EmitterAlive /\ LoopHead(0)

\* stream.write_all: without a server behind the connection the write fails
\* sooner or later, and until then disappears.  A failed write loses its event.
Written ==
    /\ exporter = "writing" /\ exporter' = "recv"
    /\ UNCHANGED <<events, linked>>
WriteErrorContinues ==
    /\ exporter = "writing" /\ ~linked
    /\ exporter' = "recv"
    /\ UNCHANGED <<events, linked>>
WriteError == exporter = "writing" /\ ~linked /\ LoopHead(events)
Exporter ==
    \/ Starts \/ LogServerConnects \/ ConnectFails
    \/ Recv \/ RecvDiscards \/ RecvNone \/ Written \/ WriteError

\* The log server goes away.
LinkBreaks == linked /\ linked' = FALSE /\ UNCHANGED <<events, exporter>>

\* Dropping the runtime drops the task.
ProcessStep ==
    /\ Next
    /\ IF main' = "exited" THEN exporter' = "done" /\ linked' = FALSE
                            ELSE UNCHANGED <<exporter, linked>>
    /\ UNCHANGED events

ExportInit == Init /\ events = 0 /\ exporter = "spawned" /\ linked = FALSE
ExportNext ==
    \/ ProcessStep
    \/ main # "exited" /\ UNCHANGED vars /\ (EmitEvent \/ Exporter \/ LinkBreaks)
ExportSpec == ExportInit /\ [][ExportNext]_<<vars, exportVars>>

\* The task runs and its awaits return, TCP notices a dead peer in the end, and
\* a log server that is tried again and again is up once.
ExporterDoes(A) == main # "exited" /\ UNCHANGED vars /\ A
ExportFairness ==
    /\ WF_exportVars(ExporterDoes(Exporter))
    /\ SF_exportVars(ExporterDoes(WriteError))
    /\ SF_exportVars(ExporterDoes(LogServerConnects))
ExportFairSpec == ExportSpec /\ Fairness /\ ExportFairness

\* Whatever goes wrong on the way to the log server, the exporter is there until
\* shutdown is requested: no failure, empty channel or dropped emitter ends it,
\* and the runtime is dropped only after the token was cancelled.
ExporterOutlasts == exporter = "done" => cancelled

\* However often the log server goes away, as long as there are events to send
\* the exporter finds its way back to a live connection again and again: it
\* neither gives up nor goes on writing to a dead one.
ExporterReconnects ==
    []<>(events > 0 /\ ~cancelled /\ EmitterAlive) => []<>linked
=============================================================================
