----------------------------- MODULE TaskSupervisor ----------------------------
(***************************************************************************)
(* The supervisor of the tasks registered with App.Go (task.go).  Each     *)
(* task has a goroutine, a monitor goroutine reads their results, and the  *)
(* lifecycle calls Shutdown after it has cancelled the context of the      *)
(* tasks.  An action is one critical section of runningMu or one channel   *)
(* operation.                                                              *)
(***************************************************************************)
EXTENDS Naturals, Sequences

CONSTANTS
    Tasks,     \* the names of the tasks
    Critical   \* those registered without NonCritical()

\* runLifecycle makes a supervisor only when there are tasks.
ASSUME TasksAssumption == Tasks # {}
ASSUME CriticalAssumption == Critical \subseteq Tasks

VARIABLES
    taskPc,          \* the goroutines of the tasks
    result,          \* what a task returned
    running,         \* supervisor.running
    finished,        \* the channel finished is closed
    results,         \* the buffered channel results
    contextEnded,    \* the context of the tasks has ended
    deadline,        \* the context given to Shutdown has ended
    monitorPc,       \* the monitor
    pending,         \* remaining: the tasks whose result it has not received
    stopping, shutdownErr,
    monitorFinished, \* the channel monitorFinished is closed
    abort,           \* the channel abort is closed
    reported, report,  \* complete has sent on done; the errors it sent
    shutdownPc,      \* the caller of Shutdown
    named            \* the tasks named by the error of Shutdown

taskVars     == <<taskPc, result, running, finished, results>>
monitorVars  == <<monitorPc, pending, stopping, shutdownErr, monitorFinished>>
shutdownVars == <<shutdownPc, named, abort>>
doneVars     == <<reported, report>>
vars == <<taskVars, monitorVars, shutdownVars, contextEnded, deadline, doneVars>>

\* The errors a task can come back with; "canceled" is the error of the context.
Results == {"nil", "error", "canceled", "panic"}

Init ==
    /\ taskPc = [t \in Tasks |-> "unborn"]
    /\ result = [t \in Tasks |-> "none"]
    /\ running = {}
    /\ finished = FALSE
    /\ results = <<>>
    /\ contextEnded = FALSE
    /\ deadline = FALSE
    /\ monitorPc = "unborn"
    /\ pending = Tasks
    /\ stopping = FALSE
    /\ shutdownErr = {}
    /\ monitorFinished = FALSE
    /\ abort = FALSE
    /\ reported = FALSE
    /\ report = {}
    /\ shutdownPc = "idle"
    /\ named = {}

\* All tasks are registered in running before the first of them can run.
Start ==
    /\ monitorPc = "unborn"
    /\ running' = Tasks
    /\ taskPc' = [t \in Tasks |-> "running"]
    /\ monitorPc' = "selecting"
    /\ UNCHANGED <<result, finished, results, pending, stopping, shutdownErr, monitorFinished,
                   shutdownVars, contextEnded, deadline, doneVars>>

--------------------------------------------------------------------------------
\* The contexts.

ContextEnds ==
    /\ ~contextEnded
    /\ contextEnded' = TRUE
    /\ UNCHANGED <<taskVars, monitorVars, shutdownVars, deadline, doneVars>>

DeadlinePasses ==
    /\ shutdownPc # "idle"
    /\ ~deadline
    /\ deadline' = TRUE
    /\ UNCHANGED <<taskVars, monitorVars, shutdownVars, contextEnded, doneVars>>

--------------------------------------------------------------------------------
\* The goroutine of a task.

\* executeTask returns, a panic included.
TaskReturns(t, r) ==
    /\ taskPc[t] = "running"
    /\ taskPc' = [taskPc EXCEPT ![t] = "returned"]
    /\ result' = [result EXCEPT ![t] = r]
    /\ UNCHANGED <<running, finished, results, monitorVars, shutdownVars, contextEnded,
                   deadline, doneVars>>

\* The critical section of run.  The last task is to close finished.
Unregister(t) ==
    /\ taskPc[t] = "returned"
    /\ running' = running \ {t}
    /\ taskPc' = [taskPc EXCEPT ![t] = IF running' = {} THEN "closing" ELSE "sending"]
    /\ UNCHANGED <<result, finished, results, monitorVars, shutdownVars, contextEnded,
                   deadline, doneVars>>

CloseFinished(t) ==
    /\ taskPc[t] = "closing"
    /\ finished' = TRUE
    /\ taskPc' = [taskPc EXCEPT ![t] = "sending"]
    /\ UNCHANGED <<result, running, results, monitorVars, shutdownVars, contextEnded,
                   deadline, doneVars>>

\* results has room for every task, so the send does not wait for the monitor.
SendResult(t) ==
    /\ taskPc[t] = "sending"
    /\ results' = Append(results, t)
    /\ taskPc' = [taskPc EXCEPT ![t] = "ended"]
    /\ UNCHANGED <<result, running, finished, monitorVars, shutdownVars, contextEnded,
                   deadline, doneVars>>

--------------------------------------------------------------------------------
\* The monitor.

\* Faulty: an error of the context is a failure also while stopping.
TaskOutcomeStrict(t, isStopping) == ~isStopping \/ result[t] # "nil"

\* Faulty: a task may end early if it returns no error.
TaskOutcomeLenient(t, isStopping) ==
    CASE result[t] = "nil"      -> FALSE
      [] result[t] = "canceled" -> ~isStopping
      [] OTHER                  -> TRUE

\* taskOutcome returns an error.
TaskOutcome(t, isStopping) ==
    CASE result[t] = "nil"      -> ~isStopping
      [] result[t] = "canceled" -> ~isStopping
      [] OTHER                  -> TRUE

\* complete: the first report is sent, later ones are dropped.
Complete(errs) ==
    /\ reported' = TRUE
    /\ report' = IF reported THEN report ELSE errs

\* The three arms of the select; a select with several arms ready picks any.
MonitorAborted ==
    /\ monitorPc = "selecting"
    /\ pending # {}
    /\ abort
    /\ monitorPc' = "closing"
    /\ UNCHANGED <<taskVars, pending, stopping, shutdownErr, monitorFinished, shutdownVars,
                   contextEnded, deadline, doneVars>>

MonitorStopping ==
    /\ monitorPc = "selecting"
    /\ pending # {}
    /\ contextEnded /\ ~stopping
    /\ stopping' = TRUE
    /\ UNCHANGED <<taskVars, monitorPc, pending, shutdownErr, monitorFinished, shutdownVars,
                   contextEnded, deadline, doneVars>>

\* A critical failure before the stop is reported at once; one during the stop is
\* collected; the failure of another task is logged.
MonitorReceives ==
    LET t == Head(results) IN
    /\ monitorPc = "selecting"
    /\ results # <<>>
    /\ results' = Tail(results)
    /\ pending' = pending \ {t}
    /\ stopping' = (stopping \/ contextEnded)
    /\ shutdownErr' = IF t \in Critical /\ TaskOutcome(t, stopping')
                      THEN shutdownErr \union {t} ELSE shutdownErr
    /\ monitorPc' = IF t \in Critical /\ TaskOutcome(t, stopping') /\ ~stopping'
                    THEN "completing" ELSE monitorPc
    /\ UNCHANGED <<taskPc, result, running, finished, monitorFinished, shutdownVars,
                   contextEnded, deadline, doneVars>>

\* The loop is over: the monitor waits for the context unless it is stopping.
MonitorDrained ==
    /\ monitorPc = "selecting"
    /\ pending = {}
    /\ stopping \/ contextEnded
    /\ monitorPc' = "completing"
    /\ UNCHANGED <<taskVars, pending, stopping, shutdownErr, monitorFinished, shutdownVars,
                   contextEnded, deadline, doneVars>>

MonitorCompletes ==
    /\ monitorPc = "completing"
    /\ Complete(shutdownErr)
    /\ monitorPc' = "closing"
    /\ UNCHANGED <<taskVars, pending, stopping, shutdownErr, monitorFinished, shutdownVars,
                   contextEnded, deadline>>

MonitorCloses ==
    /\ monitorPc = "closing"
    /\ monitorFinished' = TRUE
    /\ monitorPc' = "exited"
    /\ UNCHANGED <<taskVars, pending, stopping, shutdownErr, shutdownVars, contextEnded,
                   deadline, doneVars>>

--------------------------------------------------------------------------------
\* Shutdown.

\* The lifecycle cancels the context of the tasks first.
ShutdownBegin ==
    /\ shutdownPc = "idle"
    /\ monitorPc # "unborn"
    /\ contextEnded
    /\ shutdownPc' = "selecting"
    /\ UNCHANGED <<taskVars, monitorVars, named, abort, contextEnded, deadline, doneVars>>

\* Either select.  The inner one, in "finished", waits for the monitor too.
ShutdownSelects ==
    /\ \/ /\ shutdownPc = "selecting"
          /\ \/ finished /\ shutdownPc' = "finished"
             \/ deadline /\ shutdownPc' = "naming"
       \/ /\ shutdownPc = "finished"
          /\ \/ monitorFinished /\ shutdownPc' = "returned"
             \/ deadline /\ shutdownPc' = "naming"
    /\ UNCHANGED <<taskVars, monitorVars, named, abort, contextEnded, deadline, doneVars>>

\* Faulty: the deadline is taken for the end of the tasks.
ShutdownNamesNobody ==
    /\ shutdownPc = "naming"
    /\ named' = {}
    /\ shutdownPc' = "joining"
    /\ UNCHANGED <<taskVars, monitorVars, abort, contextEnded, deadline, doneVars>>

\* runningNames, and the branch on its length.
ShutdownNames ==
    /\ shutdownPc = "naming"
    /\ named' = running
    /\ shutdownPc' = IF running = {} THEN "joining" ELSE "aborting"
    /\ UNCHANGED <<taskVars, monitorVars, abort, contextEnded, deadline, doneVars>>

\* Faulty: the monitor is not told to stop.
ShutdownAbortsSilently ==
    /\ shutdownPc = "aborting"
    /\ shutdownPc' = "completing"
    /\ UNCHANGED <<taskVars, monitorVars, named, abort, contextEnded, deadline, doneVars>>

ShutdownAborts ==
    /\ shutdownPc = "aborting"
    /\ abort' = TRUE
    /\ shutdownPc' = "completing"
    /\ UNCHANGED <<taskVars, monitorVars, named, contextEnded, deadline, doneVars>>

\* Faulty: the report is left to the monitor.
ShutdownCompletesSilently ==
    /\ shutdownPc = "completing"
    /\ shutdownPc' = "joining"
    /\ UNCHANGED <<taskVars, monitorVars, named, abort, contextEnded, deadline, doneVars>>

ShutdownCompletes ==
    /\ shutdownPc = "completing"
    /\ Complete({})
    /\ shutdownPc' = "joining"
    /\ UNCHANGED <<taskVars, monitorVars, named, abort, contextEnded, deadline>>

\* "<-supervisor.monitorFinished", which no deadline bounds.
ShutdownJoins ==
    /\ shutdownPc = "joining"
    /\ monitorFinished
    /\ shutdownPc' = "returned"
    /\ UNCHANGED <<taskVars, monitorVars, named, abort, contextEnded, deadline, doneVars>>

--------------------------------------------------------------------------------
TaskStep(t) ==
    \/ \E r \in Results : TaskReturns(t, r)
    \/ Unregister(t)
    \/ CloseFinished(t)
    \/ SendResult(t)

MonitorStep ==
    \/ MonitorAborted
    \/ MonitorStopping
    \/ MonitorReceives
    \/ MonitorDrained
    \/ MonitorCompletes
    \/ MonitorCloses

ShutdownStep ==
    \/ ShutdownBegin
    \/ ShutdownSelects
    \/ ShutdownNames
    \/ ShutdownAborts
    \/ ShutdownCompletes
    \/ ShutdownJoins

\* Shutdown has returned; the program may end.
Rest == shutdownPc = "returned" /\ UNCHANGED vars

Next ==
    \/ Start
    \/ ContextEnds
    \/ DeadlinePasses
    \/ \E t \in Tasks : TaskStep(t)
    \/ MonitorStep
    \/ ShutdownStep
    \/ Rest

Spec == Init /\ [][Next]_vars

\* The scheduler runs the goroutines, and the shutdown timeout passes.  Nothing is
\* assumed of the tasks: one that has been told to stop may run for ever.
LiveSpec ==
    /\ Spec
    /\ WF_vars(DeadlinePasses)
    /\ WF_vars(MonitorStep)
    /\ WF_vars(ShutdownSelects \/ ShutdownNames \/ ShutdownAborts \/ ShutdownCompletes
                 \/ ShutdownJoins)
    /\ \A t \in Tasks : WF_vars(Unregister(t) \/ CloseFinished(t) \/ SendResult(t))

--------------------------------------------------------------------------------
\* Properties.

\* Every variable has its type, and what the monitor waits for is what has not been
\* received: the results in the channel are among the pending ones.
TypeOK ==
    /\ taskPc \in [Tasks -> {"unborn", "running", "returned", "closing", "sending", "ended"}]
    /\ result \in [Tasks -> Results \union {"none"}]
    /\ running \subseteq Tasks
    /\ finished \in BOOLEAN
    /\ results \in Seq(pending)
    /\ contextEnded \in BOOLEAN /\ deadline \in BOOLEAN
    /\ monitorPc \in {"unborn", "selecting", "completing", "closing", "exited"}
    /\ pending \subseteq Tasks
    /\ stopping \in BOOLEAN
    /\ shutdownErr \subseteq Tasks
    /\ monitorFinished \in BOOLEAN
    /\ abort \in BOOLEAN
    /\ reported \in BOOLEAN
    /\ report \subseteq Tasks
    /\ shutdownPc \in {"idle", "selecting", "finished", "naming", "aborting", "completing",
                       "joining", "returned"}
    /\ named \subseteq Tasks

\* When Shutdown returns no error every task has returned, and when it returns one
\* every task that has not returned is named by it.
UnstoppedAreNamed ==
    shutdownPc = "returned" => \A t \in Tasks : taskPc[t] = "running" => t \in named

\* What the supervisor reports as the failure of the application are failures of
\* critical tasks: a task that came back with the error of its context when it was told
\* to stop is not one, even when the monitor receives it before it sees the context end.
OnlyCriticalReported ==
    \A t \in report :
        t \in Critical /\ (stopping => result[t] \in {"error", "panic"})

\* When Shutdown returns, the lifecycle has been sent a report, so the loop that waits
\* for it does not run into the deadline.
ReportedWhenReturned == shutdownPc = "returned" => reported

\* What runLifecycle sees of the supervisor: whether a task is at work, what complete has
\* sent, and what Shutdown has returned.
Work ==
    IF monitorPc = "unborn" THEN "new"
    ELSE IF \E t \in Tasks : taskPc[t] = "running" THEN "working" ELSE "stopped"

Sent == IF ~reported THEN "none" ELSE IF report = {} THEN "nil" ELSE "error"

Answer ==
    IF shutdownPc # "returned" THEN "none" ELSE IF named = {} THEN "nil" ELSE "error"

Contract ==
    INSTANCE Component WITH
        Notifies <- TRUE, work <- Work, signal <- Sent, answer <- Answer, late <- deadline

\* The supervisor keeps the contract runLifecycle relies on (lifecycleComponent), and more:
\* it sends on Done once, a Shutdown that returns nil has seen all tasks return and one
\* that returns an error has met its deadline, and none returns before something was sent,
\* so the loop that waits for it in runLifecycle does not run into the deadline.
ImplementsComponent == Contract!Spec

\* The end of a critical task before the stop stops the application, whatever it
\* returned.
CriticalStops ==
    \A t \in Critical :
        (taskPc[t] = "returned" /\ ~contextEnded) ~> (reported \/ contextEnded)

\* Shutdown returns after its deadline although it waits for the monitor without one and
\* tasks may never return.
ShutdownReturns == shutdownPc = "selecting" ~> shutdownPc = "returned"

\* "TestCriticalTaskShutdownFailureIsReturned" (task_test.go:185): when a critical task
\* failed while the application stopped, a failure is reported.
ShutdownFailureIsReturned ==
    shutdownPc = "returned" =>
        ((\E t \in Critical : taskPc[t] = "ended" /\ result[t] \in {"error", "panic"})
            => report # {})
================================================================================
