------------------------------- MODULE Lifecycle -------------------------------
(***************************************************************************)
(* runLifecycle (lifecycle.go): start hooks, components in order, one wait *)
(* for the first end, components stopped in reverse order under one        *)
(* deadline, stop hooks.                                                   *)
(*                                                                         *)
(* A component (the asynchronous executor, the task supervisor, the HTTP   *)
(* server) is what runLifecycle sees of it: Start, Done and Shutdown.  It  *)
(* may end by itself at any time, with or without an error, and Shutdown   *)
(* may run into its deadline while the component is still at work.         *)
(*                                                                         *)
(* Component states what a component promises; every component of this     *)
(* module is one.                                                          *)
(***************************************************************************)
EXTENDS Naturals, FiniteSets

CONSTANTS
    N,           \* the number of components
    StartHooks,  \* the number of OnStart hooks
    StopHooks    \* the number of OnStop hooks

ASSUME NAssumption == N \in Nat
ASSUME HooksAssumption == StartHooks \in Nat /\ StopHooks \in Nat

Components == 1..N
Answers == {"nil", "error"}  \* what a component sends on Done, or Shutdown returns

VARIABLES
    state,        \* app.state
    pc, index,    \* runLifecycle
    err,          \* lifecycleErr is not nil
    started,      \* the components whose Start succeeded
    answer,       \* what the Shutdown of each component has returned, "none" before
    received,     \* how many results have been read
    results,      \* the components whose result waits in the channel results
    read,         \* the components whose result has been read
    contextEnded, \* runContext has ended
    deadline,     \* shutdownContext has ended
    work,         \* each component: "new", "working" or "stopped"
    signal        \* what it has sent on its Done channel: "none", "nil" or "error"

runVars       == <<state, pc, index, err, started, answer>>
resultVars    == <<received, results, read>>
contextVars   == <<contextEnded, deadline>>
componentVars == <<work, signal>>
vars == <<runVars, resultVars, contextVars, componentVars>>

Init ==
    /\ state = "built"
    /\ pc = "idle"
    /\ index = 1
    /\ err = FALSE
    /\ started = {}
    /\ answer = [c \in Components |-> "none"]
    /\ received = 0
    /\ results = {}
    /\ read = {}
    /\ contextEnded = FALSE
    /\ deadline = FALSE
    /\ work = [c \in Components |-> "new"]
    /\ signal = [c \in Components |-> "none"]

--------------------------------------------------------------------------------
\* The surroundings of runLifecycle: contexts and components.

\* The parent context ends: a signal, or the caller.
ParentEnds ==
    /\ ~contextEnded
    /\ contextEnded' = TRUE
    /\ UNCHANGED <<runVars, resultVars, deadline, componentVars>>

\* The shutdown timeout, counted from the call of context.WithTimeout.
DeadlinePasses ==
    /\ state = "stopping"
    /\ ~deadline
    /\ deadline' = TRUE
    /\ UNCHANGED <<runVars, resultVars, contextEnded, componentVars>>

\* The work of a component ends: by itself, after its context, or after a Shutdown that
\* did not wait for it.
ComponentEnds(c) ==
    /\ work[c] = "working"
    /\ work' = [work EXCEPT ![c] = "stopped"]
    /\ UNCHANGED <<runVars, resultVars, contextVars, signal>>

\* A component sends on its Done channel, once; a part that fails may be reported while
\* others still work.
ComponentSignals(c, a) ==
    /\ work[c] # "new"
    /\ signal[c] = "none"
    /\ signal' = [signal EXCEPT ![c] = a]
    /\ UNCHANGED <<runVars, resultVars, contextVars, work>>

\* The goroutine "results <- <-component.Done()"; results has room for all.
Forward(c) ==
    /\ pc \notin {"idle", "startHooks", "starting"}
    /\ c \in started
    /\ signal[c] # "none"
    /\ c \notin results \union read
    /\ results' = results \union {c}
    /\ UNCHANGED <<runVars, received, read, contextVars, componentVars>>

--------------------------------------------------------------------------------
\* The start.

Begin ==
    /\ pc = "idle"
    /\ state = "built"
    /\ state' = "starting"
    /\ pc' = "startHooks"
    /\ index' = 1
    /\ UNCHANGED <<err, started, answer, resultVars, contextVars, componentVars>>

\* A failing hook ends the start; no component is started then.
RunStartHook(ok) ==
    /\ pc = "startHooks"
    /\ index <= StartHooks
    /\ IF ok
       THEN index' = index + 1 /\ UNCHANGED <<pc, err>>
       ELSE err' = TRUE /\ pc' = "stopping" /\ UNCHANGED index
    /\ UNCHANGED <<state, started, answer, resultVars, contextVars, componentVars>>

StartHooksDone ==
    /\ pc = "startHooks"
    /\ index > StartHooks
    /\ pc' = "starting"
    /\ index' = 1
    /\ UNCHANGED <<state, err, started, answer, resultVars, contextVars, componentVars>>

\* Faulty: a failing Start skips the shutdown of the components before it.
StartComponentOrLeave(ok) ==
    /\ pc = "starting"
    /\ index <= N
    /\ IF ok
       THEN /\ started' = started \union {index}
            /\ work' = [work EXCEPT ![index] = "working"]
            /\ index' = index + 1
            /\ UNCHANGED <<pc, err>>
       ELSE err' = TRUE /\ pc' = "collecting" /\ UNCHANGED <<started, work, index>>
    /\ UNCHANGED <<state, answer, resultVars, contextVars, signal>>

StartComponent(ok) ==
    /\ pc = "starting"
    /\ index <= N
    /\ IF ok
       THEN /\ started' = started \union {index}
            /\ work' = [work EXCEPT ![index] = "working"]
            /\ index' = index + 1
            /\ UNCHANGED <<pc, err>>
       ELSE /\ err' = TRUE /\ pc' = "stopping"
            /\ UNCHANGED <<started, work, index>>
    /\ UNCHANGED <<state, answer, resultVars, contextVars, signal>>

\* setState(applicationRunning): the application is ready.
Running ==
    /\ pc = "starting"
    /\ index > N
    /\ state' = "running"
    /\ pc' = "waiting"
    /\ UNCHANGED <<index, err, started, answer, resultVars, contextVars, componentVars>>

\* Faulty: the errors of components are not joined.
ReadResultQuietly ==
    \E c \in results :
        /\ results' = results \ {c}
        /\ read' = read \union {c}
        /\ received' = received + 1
        /\ UNCHANGED err

\* The next result is read from the channel.
ReadResult ==
    \E c \in results :
        /\ results' = results \ {c}
        /\ read' = read \union {c}
        /\ received' = received + 1
        /\ err' = (err \/ signal[c] = "error")

\* Faulty: the end of a component is not noticed.
WaitForContext ==
    /\ pc = "waiting"
    /\ contextEnded
    /\ pc' = "stopping"
    /\ UNCHANGED <<state, index, err, started, answer, resultVars, contextVars, componentVars>>

\* The select: the context ends, or the first component does.
Wait ==
    /\ pc = "waiting"
    /\ \/ contextEnded /\ UNCHANGED <<err, resultVars>>
       \/ ReadResult
    /\ pc' = "stopping"
    /\ UNCHANGED <<state, index, started, answer, contextVars, componentVars>>

--------------------------------------------------------------------------------
\* The stop.

\* setState(applicationStopping), cancelRun, and the deadline starts to run.
Stop ==
    /\ pc = "stopping"
    /\ state' = "stopping"
    /\ contextEnded' = TRUE
    /\ pc' = "shutdown"
    /\ index' = N
    /\ UNCHANGED <<err, started, answer, resultVars, deadline, componentVars>>

\* Shutdown of the component with the highest index left.  It returns when the work of
\* the component has ended (closing a listener may still fail), or with an error when the
\* deadline has passed; then the component may be at work still.
ShutdownComponent ==
    /\ pc = "shutdown"
    /\ index \in started
    /\ \E a \in Answers :
         /\ a = "nil" => work[index] = "stopped"
         /\ work[index] = "stopped" \/ deadline
         /\ answer' = [answer EXCEPT ![index] = a]
         /\ err' = (err \/ a = "error")
    /\ index' = index - 1
    /\ UNCHANGED <<state, pc, started, resultVars, contextVars, componentVars>>

ShutdownNext ==
    /\ pc = "shutdown"
    /\ index \notin started
    /\ IF index > 0
       THEN index' = index - 1 /\ UNCHANGED pc
       ELSE pc' = "collecting" /\ UNCHANGED index
    /\ UNCHANGED <<state, err, started, answer, resultVars, contextVars, componentVars>>

Expected == Cardinality(started)

\* Faulty: the deadline does not end the wait.
CollectForever ==
    /\ pc = "collecting"
    /\ received < Expected
    /\ ReadResult
    /\ UNCHANGED <<state, pc, index, started, answer, contextVars, componentVars>>

\* One turn of the loop over the results that are still missing.
Collect ==
    /\ pc = "collecting"
    /\ received < Expected
    /\ \/ ReadResult
       \/ /\ deadline
          /\ err' = TRUE
          /\ received' = Expected
          /\ UNCHANGED <<results, read>>
    /\ UNCHANGED <<state, pc, index, started, answer, contextVars, componentVars>>

Collected ==
    /\ pc = "collecting"
    /\ received >= Expected
    /\ pc' = "stopHooks"
    /\ index' = StopHooks
    /\ UNCHANGED <<state, err, started, answer, resultVars, contextVars, componentVars>>

\* Every stop hook runs, also after one that failed.
RunStopHook(ok) ==
    /\ pc = "stopHooks"
    /\ index > 0
    /\ index' = index - 1
    /\ err' = (err \/ ~ok)
    /\ UNCHANGED <<state, pc, started, answer, resultVars, contextVars, componentVars>>

Return ==
    /\ pc = "stopHooks"
    /\ index = 0
    /\ state' = "stopped"
    /\ pc' = "returned"
    /\ UNCHANGED <<index, err, started, answer, resultVars, contextVars, componentVars>>

\* runLifecycle has returned.
Rest == pc = "returned" /\ UNCHANGED vars
--------------------------------------------------------------------------------
RunStep ==
    \/ Begin
    \/ \E ok \in BOOLEAN : RunStartHook(ok) \/ StartComponent(ok) \/ RunStopHook(ok)
    \/ StartHooksDone
    \/ Running
    \/ Wait
    \/ Stop
    \/ ShutdownComponent
    \/ ShutdownNext
    \/ Collect
    \/ Collected
    \/ Return

Next ==
    \/ RunStep
    \/ ParentEnds
    \/ DeadlinePasses
    \/ \E c \in Components :
         \/ Forward(c)
         \/ ComponentEnds(c)
         \/ \E a \in Answers : ComponentSignals(c, a)
    \/ Rest

Spec == Init /\ [][Next]_vars

\* Hooks return, Shutdown of a component returns by its deadline, the timeout passes and
\* the forwarding goroutines run.  Nothing is assumed of when a component signals.
LiveSpec ==
    /\ Spec
    /\ WF_vars(RunStep)
    /\ WF_vars(DeadlinePasses)
    /\ \A c \in Components : WF_vars(Forward(c))

--------------------------------------------------------------------------------
\* Properties.

\* The components whose Shutdown has returned.
shut == {c \in Components : answer[c] # "none"}

\* Every variable has its type, no more results are counted than components were
\* started, and those that were started are the first ones.
TypeOK ==
    /\ state \in {"built", "starting", "running", "stopping", "stopped"}
    /\ pc \in {"idle", "startHooks", "starting", "waiting", "stopping", "shutdown",
               "collecting", "stopHooks", "returned"}
    /\ index \in Nat
    /\ err \in BOOLEAN
    /\ \E n \in 0..N : started = 1..n
    /\ answer \in [Components -> Answers \union {"none"}]
    /\ shut \subseteq started
    /\ received \in 0..Expected
    /\ results \subseteq started
    /\ read \subseteq started \ results
    /\ contextEnded \in BOOLEAN /\ deadline \in BOOLEAN
    /\ work \in [Components -> {"new", "working", "stopped"}]
    /\ signal \in [Components -> Answers \union {"none"}]

\* A nil error of runLifecycle is to be trusted: all components had been started, all
\* have come to their end, none with an error, and the result of each has been read.
NilMeansClean ==
    pc = "returned" /\ ~err =>
        /\ started = Components
        /\ read = Components
        /\ \A c \in Components : work[c] = "stopped" /\ signal[c] = "nil"

\* Whatever fails, no component that was started is left without a Shutdown before the
\* stop hooks take its resources away.
StartedAreShut == pc \in {"stopHooks", "returned"} => shut = started

\* The contract of component c.
Promise(c) ==
    INSTANCE Component WITH
        Notifies <- FALSE, work <- work[c], signal <- signal[c], answer <- answer[c],
        late <- deadline

\* An application whose context has ended returns, although components may be silent.
StopReturns == (pc = "waiting" /\ contextEnded) ~> pc = "returned"

\* The end of any component ends the application.
EndStopsAll == \A c \in Components : (pc = "waiting" /\ signal[c] # "none") ~> pc = "returned"
================================================================================
