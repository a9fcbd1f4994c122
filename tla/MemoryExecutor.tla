---------------------------- MODULE MemoryExecutor -----------------------------
(***************************************************************************)
(* The in-memory asynchronous executor (async/memory.go): a fixed pool of  *)
(* workers, a bounded queue, and one mutex.  An action is one critical     *)
(* section of that mutex, or one step the code takes outside it: a channel *)
(* receive, a context cancellation, the return of a handler.               *)
(*                                                                         *)
(* Actors: the workers, callers of Submit/Cancel/Wait (Clients), callers   *)
(* of Shutdown (Stoppers), the goroutine that waits for the worker group,  *)
(* the goroutine that watches the parent context, and time.                *)
(***************************************************************************)
EXTENDS Integers, Sequences, FiniteSets

CONSTANTS
    Ops,        \* operation IDs newOperationID can draw
    Names,      \* operation names
    Keys,       \* idempotency keys, each with its scope
    Workers,    \* config.workers goroutines
    Clients,    \* goroutines that call Cancel and Wait
    Stoppers,   \* goroutines that call Shutdown
    QueueSize,  \* config.queueSize
    Reports,    \* values handlers pass to Progress
    NoOp,       \* "no operation"
    NoKey       \* an empty IdempotencyKey

ASSUME QueueSizeAssumption == QueueSize \in Nat \ {0}
\* A fixed number of goroutines.
ASSUME WorkersAssumption == IsFiniteSet(Workers) /\ Workers # {}
\* newOperationID draws 16 bytes.
ASSUME OpsAssumption == IsFiniteSet(Ops)
ASSUME NoOpAssumption == NoOp \notin Ops
ASSUME NoKeyAssumption == NoKey \notin Keys
ASSUME ReportsAssumption == Reports \subseteq Int

VARIABLES
    state,        \* executor.state
    handlers,     \* the keys of executor.handlers
    queue,        \* contents of the channel executor.queue
    queueState,   \* that channel: "open", "closed", or "panicked" after a misuse
    idempotency,  \* executor.idempotency
    status,       \* operation.Status, "absent" when operations has no record
    progress,     \* operation.Progress
    executing,    \* record.executing
    done,         \* record.done is closed
    jobContext,   \* the context of the delivery: "none" until run creates it
    metrics,      \* executor.metrics, the counters and the Running gauge
    workerPc, workerOp, outcome,  \* the workers
    clientPc, clientOp,           \* the callers of Cancel and Wait
    stopPc, cancellations,        \* the callers of Shutdown
    groupPc,      \* the goroutine started at line 220
    watcherPc,    \* the goroutine started at line 231
    parentDone,   \* the context given to Start has ended
    baseDone,     \* workerBase has been cancelled
    workersDone,  \* the channel workersDone is closed
    signals,      \* sends on the channel executor.done
    answered      \* history: the IDs Submit returned for each key

opVars      == <<status, progress, executing, done>>
clientVars  == <<clientPc, clientOp>>
stopVars    == <<stopPc, cancellations>>
workerVars  == <<workerPc, workerOp, outcome>>
endVars     == <<groupPc, watcherPc, parentDone, workersDone, signals>>
queueVars   == <<queue, queueState>>
submitVars  == <<handlers, idempotency, answered>>
vars == <<state, queueVars, submitVars, opVars, jobContext, metrics, workerVars,
          clientVars, stopVars, endVars, baseDone>>

Terminal == {"succeeded", "failed", "cancelled"}
Status   == {"absent", "pending", "running"} \union Terminal

IsTerminal(o) == status[o] \in Terminal

\* The totals and the gauge of AsyncMetrics that finish, Cancel and run maintain.
Counters == {"submitted", "completed", "failed", "cancelled", "running"}

\* No operation is left that somebody could still be waiting for.
AllSettled == \A o \in Ops : status[o] \in Terminal \union {"absent"}

Init ==
    /\ state = "created"
    /\ handlers = {}
    /\ queue = <<>>
    /\ queueState = "open"
    /\ idempotency = [k \in Names \X Keys |-> NoOp]
    /\ status = [o \in Ops |-> "absent"]
    /\ progress = [o \in Ops |-> 0]
    /\ executing = [o \in Ops |-> FALSE]
    /\ done = [o \in Ops |-> FALSE]
    /\ jobContext = [o \in Ops |-> "none"]
    /\ metrics = [m \in Counters |-> 0]
    /\ workerPc = [w \in Workers |-> "unborn"]
    /\ workerOp = [w \in Workers |-> NoOp]
    /\ outcome = [w \in Workers |-> "none"]
    /\ clientPc = [c \in Clients |-> "idle"]
    /\ clientOp = [c \in Clients |-> NoOp]
    /\ stopPc = [s \in Stoppers |-> "idle"]
    /\ cancellations = [s \in Stoppers |-> {}]
    /\ groupPc = "unborn"
    /\ watcherPc = "unborn"
    /\ parentDone = FALSE
    /\ baseDone = FALSE
    /\ workersDone = FALSE
    /\ signals = 0
    /\ answered = [k \in Names \X Keys |-> {}]

--------------------------------------------------------------------------------
\* Shared steps.

\* Faulty: the waiters of a settled operation are not woken.
SettleSilently(S, st) ==
    /\ status' = [o \in Ops |-> IF o \in S THEN st ELSE status[o]]
    /\ UNCHANGED done

\* record.doneOnce.Do(close(record.done)) and the move to status st, for every
\* operation of S, in one critical section.
Settle(S, st) ==
    /\ status' = [o \in Ops |-> IF o \in S THEN st ELSE status[o]]
    /\ done' = [o \in Ops |-> done[o] \/ o \in S]

\* Cancelling a context that has already ended changes nothing.
CancelContexts(S) ==
    jobContext' = [o \in Ops |-> IF o \in S /\ jobContext[o] = "live"
                                 THEN "cancelled" ELSE jobContext[o]]

\* close(queue) and a send on it, ready or not, panic once the channel is closed.
CloseQueue == queueState' = IF queueState = "open" THEN "closed" ELSE "panicked"
SendToQueue == queueState' = IF queueState = "open" THEN "open" ELSE "panicked"

\* Faulty: the state is not looked at again under the lock.
StopAcceptingAgain == state' = "stopping" /\ CloseQueue

StopAccepting ==
    IF state = "running"
    THEN state' = "stopping" /\ CloseQueue
    ELSE UNCHANGED <<state, queueState>>

\* cancelWork: the contexts of all deliveries descend from workerBase.
CancelWork ==
    /\ baseDone' = TRUE
    /\ CancelContexts(Ops)

\* signalDone: doneOnce lets one send through.
SignalDone == signals' = IF signals = 0 THEN 1 ELSE signals

--------------------------------------------------------------------------------
\* Registration, Start and Submit.

Handle(n) ==
    /\ state = "created"
    /\ n \notin handlers
    /\ handlers' = handlers \union {n}
    /\ UNCHANGED <<state, queueVars, idempotency, answered, opVars, jobContext,
                   metrics, workerVars, clientVars, stopVars, endVars, baseDone>>

Start ==
    /\ state = "created"
    /\ state' = "running"
    /\ workerPc' = [w \in Workers |-> "idle"]
    /\ groupPc' = "waiting"
    /\ watcherPc' = "watching"
    /\ UNCHANGED <<queueVars, submitVars, opVars, jobContext, metrics, workerOp,
                   outcome, clientVars, stopVars, parentDone, workersDone,
                   signals, baseDone>>

\* A known idempotency key answers with the operation it already names.
SubmitDuplicate(n, k) ==
    /\ state = "running"
    /\ n \in handlers
    /\ k \in Keys
    /\ idempotency[<<n, k>>] # NoOp
    /\ answered' = [answered EXCEPT ![<<n, k>>] = @ \union {idempotency[<<n, k>>]}]
    /\ UNCHANGED <<state, queueVars, handlers, idempotency, opVars, jobContext,
                   metrics, workerVars, clientVars, stopVars, endVars, baseDone>>

\* What SubmitAccepted and SubmitQueueFull check before they touch the queue.
MayCreate(id, n, k) ==
    /\ state = "running"
    /\ n \in handlers
    /\ k \in Keys => idempotency[<<n, k>>] = NoOp
    /\ status[id] = "absent"

SubmitAccepted(id, n, k) ==
    /\ MayCreate(id, n, k)
    /\ Len(queue) < QueueSize
    /\ SendToQueue
    /\ queue' = Append(queue, id)
    /\ status' = [status EXCEPT ![id] = "pending"]
    /\ metrics' = [metrics EXCEPT !["submitted"] = @ + 1]
    /\ IF k \in Keys
       THEN /\ idempotency' = [idempotency EXCEPT ![<<n, k>>] = id]
            /\ answered' = [answered EXCEPT ![<<n, k>>] = @ \union {id}]
       ELSE UNCHANGED <<idempotency, answered>>
    /\ UNCHANGED <<state, handlers, progress, executing, done,
                   jobContext, workerVars, clientVars, stopVars, endVars, baseDone>>

\* Faulty: the roll-back forgets the idempotency key.
SubmitQueueFullKeepsKey(id, n, k) ==
    /\ MayCreate(id, n, k)
    /\ Len(queue) >= QueueSize
    /\ SendToQueue
    /\ k \in Keys
    /\ idempotency' = [idempotency EXCEPT ![<<n, k>>] = id]
    /\ UNCHANGED <<state, queue, handlers, answered, opVars, jobContext, metrics,
                   workerVars, clientVars, stopVars, endVars, baseDone>>

\* The record and its key are stored, the send would block, both are deleted:
\* the caller gets ErrAsyncQueueFull and nobody saw the record.
SubmitQueueFull(id, n, k) ==
    /\ MayCreate(id, n, k)
    /\ Len(queue) >= QueueSize
    /\ SendToQueue
    /\ status' = [status EXCEPT ![id] = "absent"]
    /\ idempotency' = IF k \in Keys
                      THEN [idempotency EXCEPT ![<<n, k>>] = NoOp]
                      ELSE idempotency
    /\ UNCHANGED <<state, queue, handlers, answered, progress, executing, done,
                   jobContext, metrics, workerVars, clientVars, stopVars, endVars,
                   baseDone>>

--------------------------------------------------------------------------------
\* Cancel and Wait.

\* The critical section of Cancel.  The context is cancelled after the unlock.
Cancel(c, o) ==
    /\ clientPc[c] = "idle"
    /\ status[o] \in {"pending", "running"}
    /\ Settle({o}, "cancelled")
    /\ metrics' = [metrics EXCEPT !["cancelled"] = @ + 1]
    /\ IF jobContext[o] # "none"
       THEN /\ clientPc' = [clientPc EXCEPT ![c] = "cancelling"]
            /\ clientOp' = [clientOp EXCEPT ![c] = o]
       ELSE UNCHANGED clientVars
    /\ UNCHANGED <<state, queueVars, submitVars, progress, executing, jobContext,
                   workerVars, stopVars, endVars, baseDone>>

CancelContext(c) ==
    /\ clientPc[c] = "cancelling"
    /\ CancelContexts({clientOp[c]})
    /\ clientPc' = [clientPc EXCEPT ![c] = "idle"]
    /\ clientOp' = [clientOp EXCEPT ![c] = NoOp]
    /\ UNCHANGED <<state, queueVars, submitVars, opVars, metrics, workerVars,
                   stopVars, endVars, baseDone>>

\* Wait on an operation that is already terminal returns at once.
WaitBegin(c, o) ==
    /\ clientPc[c] = "idle"
    /\ status[o] \in {"pending", "running"}
    /\ clientPc' = [clientPc EXCEPT ![c] = "waiting"]
    /\ clientOp' = [clientOp EXCEPT ![c] = o]
    /\ UNCHANGED <<state, queueVars, submitVars, opVars, jobContext, metrics,
                   workerVars, stopVars, endVars, baseDone>>

\* The two arms of the select: record.done is closed, or the caller's own
\* context ends.
WaitReturn(c) ==
    /\ clientPc[c] = "waiting"
    /\ done[clientOp[c]]
    /\ clientPc' = [clientPc EXCEPT ![c] = "idle"]
    /\ clientOp' = [clientOp EXCEPT ![c] = NoOp]
    /\ UNCHANGED <<state, queueVars, submitVars, opVars, jobContext, metrics,
                   workerVars, stopVars, endVars, baseDone>>

WaitGivesUp(c) ==
    /\ clientPc[c] = "waiting"
    /\ clientPc' = [clientPc EXCEPT ![c] = "idle"]
    /\ clientOp' = [clientOp EXCEPT ![c] = NoOp]
    /\ UNCHANGED <<state, queueVars, submitVars, opVars, jobContext, metrics,
                   workerVars, stopVars, endVars, baseDone>>

--------------------------------------------------------------------------------
\* The workers.

\* One iteration of "for id := range executor.queue".  Between the receive and
\* the lock in run, Cancel and Shutdown may run.
Receive(w) ==
    /\ workerPc[w] = "idle"
    /\ queue # <<>>
    /\ workerPc' = [workerPc EXCEPT ![w] = "taken"]
    /\ workerOp' = [workerOp EXCEPT ![w] = Head(queue)]
    /\ queue' = Tail(queue)
    /\ UNCHANGED <<state, queueState, submitVars, opVars, jobContext, metrics,
                   outcome, clientVars, stopVars, endVars, baseDone>>

\* Faulty: a worker leaves when the queue is closed, without draining it.
WorkerExitEarly(w) ==
    /\ workerPc[w] = "idle"
    /\ queueState # "open"
    /\ workerPc' = [workerPc EXCEPT ![w] = "exited"]
    /\ UNCHANGED <<state, queueVars, submitVars, opVars, jobContext, metrics,
                   workerOp, outcome, clientVars, stopVars, endVars, baseDone>>

WorkerExit(w) ==
    /\ workerPc[w] = "idle"
    /\ queue = <<>>
    /\ queueState # "open"
    /\ workerPc' = [workerPc EXCEPT ![w] = "exited"]
    /\ UNCHANGED <<state, queueVars, submitVars, opVars, jobContext, metrics,
                   workerOp, outcome, clientVars, stopVars, endVars, baseDone>>

\* run finds the operation cancelled in the meantime and returns.
RunSkip(w) ==
    /\ workerPc[w] = "taken"
    /\ status[workerOp[w]] # "pending"
    /\ workerPc' = [workerPc EXCEPT ![w] = "idle"]
    /\ workerOp' = [workerOp EXCEPT ![w] = NoOp]
    /\ UNCHANGED <<state, queueVars, submitVars, opVars, jobContext, metrics,
                   outcome, clientVars, stopVars, endVars, baseDone>>

\* Faulty: run does not look at the status after it has the lock.
RunBeginUnchecked(w) ==
    /\ workerPc[w] = "taken"
    /\ status' = [status EXCEPT ![workerOp[w]] = "running"]
    /\ executing' = [executing EXCEPT ![workerOp[w]] = TRUE]
    /\ jobContext' = [jobContext EXCEPT ![workerOp[w]] = "live"]
    /\ metrics' = [metrics EXCEPT !["running"] = @ + 1]
    /\ workerPc' = [workerPc EXCEPT ![w] = "handling"]
    /\ UNCHANGED <<state, queueVars, submitVars, progress, done, workerOp, outcome,
                   clientVars, stopVars, endVars, baseDone>>

\* The critical section at the start of run.
RunBegin(w) ==
    LET o == workerOp[w] IN
    /\ workerPc[w] = "taken"
    /\ status[o] = "pending"
    /\ status' = [status EXCEPT ![o] = "running"]
    /\ executing' = [executing EXCEPT ![o] = TRUE]
    /\ jobContext' = [jobContext EXCEPT ![o] = IF baseDone THEN "cancelled" ELSE "live"]
    /\ metrics' = [metrics EXCEPT !["running"] = @ + 1]
    /\ workerPc' = [workerPc EXCEPT ![w] = "handling"]
    /\ UNCHANGED <<state, queueVars, submitVars, progress, done, workerOp, outcome,
                   clientVars, stopVars, endVars, baseDone>>

\* job.Progress(p), called by the handler or by a goroutine it left behind.
ReportProgress(o, p) ==
    /\ p \in 0..100
    /\ status[o] = "running"
    /\ progress' = [progress EXCEPT ![o] = p]
    /\ UNCHANGED <<state, queueVars, submitVars, status, executing, done, jobContext,
                   metrics, workerVars, clientVars, stopVars, endVars, baseDone>>

\* callHandler returns (a panic is an error), run reads jobContext.Err() and only
\* then cancels the context itself.  A nil error becomes the context's error, and
\* a result that does not encode is an error too.
HandlerReturn(w, handlerOk) ==
    LET o == workerOp[w] IN
    /\ workerPc[w] = "handling"
    /\ outcome' = [outcome EXCEPT ![w] = CASE jobContext[o] # "live" -> jobContext[o]
                                         [] handlerOk -> "ok"
                                         [] OTHER -> "error"]
    /\ CancelContexts({o})
    /\ workerPc' = [workerPc EXCEPT ![w] = "returned"]
    /\ UNCHANGED <<state, queueVars, submitVars, opVars, metrics, workerOp,
                   clientVars, stopVars, endVars, baseDone>>

\* The task timeout of a delivery expires.
TaskTimeout(o) ==
    /\ jobContext[o] = "live"
    /\ jobContext' = [jobContext EXCEPT ![o] = "deadline"]
    /\ UNCHANGED <<state, queueVars, submitVars, opVars, metrics, workerVars,
                   clientVars, stopVars, endVars, baseDone>>

\* finish, given whether the operation is still open and by how much the Running
\* gauge goes down.
FinishOperation(w, open, gone) ==
    LET o  == workerOp[w]
        ok == outcome[w] = "ok"
    IN
    /\ workerPc[w] = "returned"
    /\ executing' = [executing EXCEPT ![o] = FALSE]
    /\ IF open
       THEN /\ Settle({o}, IF ok THEN "succeeded" ELSE "failed")
            /\ progress' = [progress EXCEPT ![o] = IF ok THEN 100 ELSE @]
       ELSE UNCHANGED <<status, done, progress>>
    /\ metrics' = [metrics EXCEPT
                     !["running"]   = @ - gone,
                     !["completed"] = IF open /\ ok THEN @ + 1 ELSE @,
                     !["failed"]    = IF open /\ ~ok THEN @ + 1 ELSE @]
    /\ workerPc' = [workerPc EXCEPT ![w] = "idle"]
    /\ workerOp' = [workerOp EXCEPT ![w] = NoOp]
    /\ outcome' = [outcome EXCEPT ![w] = "none"]
    /\ UNCHANGED <<state, queueVars, submitVars, jobContext, clientVars, stopVars,
                   endVars, baseDone>>

\* Faulty: a cancellation that came first is overwritten.
FinishOverwrites(w) ==
    FinishOperation(w, TRUE, IF executing[workerOp[w]] THEN 1 ELSE 0)

\* Faulty: a cancelled operation returns before the gauge is adjusted.
FinishKeepsGauge(w) ==
    LET open == ~IsTerminal(workerOp[w])
    IN  FinishOperation(w, open, IF open /\ executing[workerOp[w]] THEN 1 ELSE 0)

\* Faulty: a delivery whose context has ended is taken for a cancelled one.
FinishDropsTimeouts(w) ==
    FinishOperation(w, ~IsTerminal(workerOp[w]) /\ outcome[w] \in {"ok", "error"},
                    IF executing[workerOp[w]] THEN 1 ELSE 0)

\* finish takes the operation off the Running gauge even when a cancellation has
\* already settled it, and settles it otherwise.
Finish(w) ==
    FinishOperation(w, ~IsTerminal(workerOp[w]),
                    IF executing[workerOp[w]] THEN 1 ELSE 0)

--------------------------------------------------------------------------------
\* The end of the workers, and the parent context.

\* workerGroup.Wait returns; workerBase is cancelled, workersDone closed and the
\* end signalled, in this order.
GroupStep ==
    /\ \/ /\ groupPc = "waiting"
          /\ \A w \in Workers : workerPc[w] = "exited"
          /\ CancelWork
          /\ groupPc' = "closing"
          /\ UNCHANGED <<workersDone, signals>>
       \/ /\ groupPc = "closing"
          /\ workersDone' = TRUE
          /\ groupPc' = "signalling"
          /\ UNCHANGED <<baseDone, jobContext, signals>>
       \/ /\ groupPc = "signalling"
          /\ SignalDone
          /\ groupPc' = "exited"
          /\ UNCHANGED <<baseDone, jobContext, workersDone>>
    /\ UNCHANGED <<state, queueVars, submitVars, opVars, metrics, workerVars,
                   clientVars, stopVars, watcherPc, parentDone>>

ParentEnds ==
    /\ ~parentDone
    /\ parentDone' = TRUE
    /\ UNCHANGED <<state, queueVars, submitVars, opVars, jobContext, metrics,
                   workerVars, clientVars, stopVars, groupPc, watcherPc,
                   workersDone, signals, baseDone>>

WatcherStep ==
    /\ watcherPc = "watching"
    /\ \/ parentDone /\ StopAccepting
       \/ workersDone /\ UNCHANGED <<state, queueState>>
    /\ watcherPc' = "exited"
    /\ UNCHANGED <<queue, submitVars, opVars, jobContext, metrics, workerVars,
                   clientVars, stopVars, groupPc, parentDone, workersDone, signals,
                   baseDone>>

--------------------------------------------------------------------------------
\* Shutdown.

\* The ends of a call: refused before Start, nil, or the error of the deadline.
Over == {"refused", "returned", "failed"}

\* The state is read in a critical section of its own, before stopAccepting.
ShutdownBegin(s) ==
    /\ stopPc[s] = "idle"
    /\ stopPc' = [stopPc EXCEPT ![s] = CASE state = "created" -> "refused"
                                         [] state = "stopped" -> "returned"
                                         [] OTHER -> "closing"]
    /\ UNCHANGED <<state, queueVars, submitVars, opVars, jobContext, metrics,
                   workerVars, clientVars, cancellations, endVars, baseDone>>

ShutdownCloses(s) ==
    /\ stopPc[s] = "closing"
    /\ StopAccepting
    /\ stopPc' = [stopPc EXCEPT ![s] = "selecting"]
    /\ UNCHANGED <<queue, submitVars, opVars, jobContext, metrics, workerVars,
                   clientVars, cancellations, endVars, baseDone>>

\* Faulty: the deadline is ignored.
ShutdownSelectsDrainOnly(s) ==
    /\ stopPc[s] = "selecting"
    /\ workersDone
    /\ stopPc' = [stopPc EXCEPT ![s] = "drained"]
    /\ UNCHANGED <<state, queueVars, submitVars, opVars, jobContext, metrics,
                   workerVars, clientVars, cancellations, endVars, baseDone>>

\* Faulty: an expired deadline cancels the workers before the operations.
ShutdownSelectsCancelFirst(s) ==
    /\ stopPc[s] = "selecting"
    /\ \/ workersDone /\ stopPc' = [stopPc EXCEPT ![s] = "drained"]
       \/ stopPc' = [stopPc EXCEPT ![s] = "stopping"]
    /\ UNCHANGED <<state, queueVars, submitVars, opVars, jobContext, metrics,
                   workerVars, clientVars, cancellations, endVars, baseDone>>

\* The arms of the select; with both ready the runtime picks either.
ShutdownSelects(s) ==
    /\ stopPc[s] = "selecting"
    /\ \/ workersDone /\ stopPc' = [stopPc EXCEPT ![s] = "drained"]
       \/ stopPc' = [stopPc EXCEPT ![s] = "expired"]
    /\ UNCHANGED <<state, queueVars, submitVars, opVars, jobContext, metrics,
                   workerVars, clientVars, cancellations, endVars, baseDone>>

ShutdownDrained(s) ==
    /\ stopPc[s] = "drained"
    /\ state' = "stopped"
    /\ stopPc' = [stopPc EXCEPT ![s] = "returned"]
    /\ UNCHANGED <<queueVars, submitVars, opVars, jobContext, metrics, workerVars,
                   clientVars, cancellations, endVars, baseDone>>

Unfinished == {o \in Ops : status[o] \in {"pending", "running"}}

CancelOperations(s, open) ==
    /\ stopPc[s] = "expired"
    /\ Settle(open, "cancelled")
    /\ metrics' = [metrics EXCEPT !["cancelled"] = @ + Cardinality(open)]
    /\ cancellations' = [cancellations EXCEPT
                           ![s] = {o \in open : jobContext[o] # "none"}]
    /\ stopPc' = [stopPc EXCEPT ![s] = "cancelling"]
    /\ UNCHANGED <<state, queueVars, submitVars, progress, executing, jobContext,
                   workerVars, clientVars, endVars, baseDone>>

\* Faulty: only the operations that have started are cancelled.
CancelUnfinishedRunning(s) == CancelOperations(s, {o \in Ops : status[o] = "running"})

\* The critical section of cancelUnfinished.
CancelUnfinished(s) == CancelOperations(s, Unfinished)

\* The loop over the collected cancel functions, outside the lock.
CancelCollected(s) ==
    /\ stopPc[s] = "cancelling"
    /\ \/ \E o \in cancellations[s] :
            /\ CancelContexts({o})
            /\ cancellations' = [cancellations EXCEPT ![s] = @ \ {o}]
            /\ UNCHANGED stopPc
       \/ /\ cancellations[s] = {}
          /\ stopPc' = [stopPc EXCEPT ![s] = "stopping"]
          /\ UNCHANGED <<jobContext, cancellations>>
    /\ UNCHANGED <<state, queueVars, submitVars, opVars, metrics, workerVars,
                   clientVars, endVars, baseDone>>

\* What follows an expired deadline: state, cancelWork, signalDone, and the error.
ShutdownExpired(s) ==
    /\ \/ /\ stopPc[s] = "stopping"
          /\ state' = "stopped"
          /\ stopPc' = [stopPc EXCEPT ![s] = "cancelWork"]
          /\ UNCHANGED <<baseDone, jobContext, signals>>
       \/ /\ stopPc[s] = "cancelWork"
          /\ CancelWork
          /\ stopPc' = [stopPc EXCEPT ![s] = "signalling"]
          /\ UNCHANGED <<state, signals>>
       \/ /\ stopPc[s] = "signalling"
          /\ SignalDone
          /\ stopPc' = [stopPc EXCEPT ![s] = "failing"]
          /\ UNCHANGED <<state, baseDone, jobContext>>
       \/ /\ stopPc[s] = "failing"
          /\ stopPc' = [stopPc EXCEPT ![s] = "failed"]
          /\ UNCHANGED <<state, baseDone, jobContext, signals>>
    /\ UNCHANGED <<queueVars, submitVars, opVars, metrics, workerVars, clientVars,
                   cancellations, groupPc, watcherPc, parentDone, workersDone>>
--------------------------------------------------------------------------------
\* Everything has come to rest; the program goes on without the executor.
Rest ==
    /\ \A w \in Workers : workerPc[w] = "exited"
    /\ \A c \in Clients : clientPc[c] = "idle"
    /\ \A s \in Stoppers : stopPc[s] \in Over
    /\ groupPc = "exited"
    /\ watcherPc = "exited"
    /\ UNCHANGED vars

SubmitStep ==
    \E n \in Names, k \in Keys \union {NoKey} :
        \/ SubmitDuplicate(n, k)
        \/ \E id \in Ops : SubmitAccepted(id, n, k) \/ SubmitQueueFull(id, n, k)

ClientStep(c) ==
    \/ \E o \in Ops : Cancel(c, o) \/ WaitBegin(c, o)
    \/ CancelContext(c)
    \/ WaitReturn(c)
    \/ WaitGivesUp(c)

WorkerStep(w) ==
    \/ Receive(w)
    \/ WorkerExit(w)
    \/ RunSkip(w)
    \/ RunBegin(w)
    \/ \E ok \in BOOLEAN : HandlerReturn(w, ok)
    \/ Finish(w)

ShutdownStep(s) ==
    \/ ShutdownBegin(s)
    \/ ShutdownCloses(s)
    \/ ShutdownSelects(s)
    \/ ShutdownDrained(s)
    \/ CancelUnfinished(s)
    \/ CancelCollected(s)
    \/ ShutdownExpired(s)

Next ==
    \/ \E n \in Names : Handle(n)
    \/ Start
    \/ SubmitStep
    \/ \E c \in Clients : ClientStep(c)
    \/ \E w \in Workers : WorkerStep(w)
    \/ \E o \in Ops : TaskTimeout(o) \/ \E p \in Reports : ReportProgress(o, p)
    \/ GroupStep
    \/ ParentEnds
    \/ WatcherStep
    \/ \E s \in Stoppers : ShutdownStep(s)
    \/ Rest

Spec == Init /\ [][Next]_vars

--------------------------------------------------------------------------------
\* Fairness.

\* The Go scheduler runs every goroutine that can run, and the deadline of the
\* context given to Shutdown passes.
ShutdownFairness == \A s \in Stoppers :
    WF_vars(\/ ShutdownCloses(s) \/ ShutdownSelects(s) \/ ShutdownDrained(s)
            \/ CancelUnfinished(s) \/ CancelCollected(s) \/ ShutdownExpired(s))

\* The task timeout passes, and a handler whose context has ended returns: the
\* obligation the package puts on handlers, which nothing in it can enforce.
WorkerFairness ==
    /\ \A w \in Workers :
         WF_vars(\/ Receive(w) \/ WorkerExit(w) \/ RunSkip(w) \/ RunBegin(w) \/ Finish(w)
                 \/ /\ workerPc[w] = "handling"
                    /\ jobContext[workerOp[w]] # "live"
                    /\ HandlerReturn(w, FALSE))
    /\ \A o \in Ops : WF_vars(TaskTimeout(o))

LiveSpec == Spec /\ ShutdownFairness

--------------------------------------------------------------------------------
\* Properties.

TypeControl ==
    /\ state \in {"created", "running", "stopping", "stopped"}
    /\ queueState \in {"open", "closed", "panicked"}
    /\ groupPc \in {"unborn", "waiting", "closing", "signalling", "exited"}
    /\ watcherPc \in {"unborn", "watching", "exited"}
    /\ parentDone \in BOOLEAN
    /\ baseDone \in BOOLEAN
    /\ workersDone \in BOOLEAN
    /\ signals \in 0..1

TypeSubmit ==
    /\ handlers \subseteq Names
    /\ idempotency \in [Names \X Keys -> Ops \union {NoOp}]
    /\ answered \in [Names \X Keys -> SUBSET Ops]

TypeOps ==
    /\ status \in [Ops -> Status]
    /\ progress \in [Ops -> 0..100]
    /\ executing \in [Ops -> BOOLEAN]
    /\ done \in [Ops -> BOOLEAN]
    /\ jobContext \in [Ops -> {"none", "live", "cancelled", "deadline"}]
    /\ metrics \in [Counters -> Int]

TypeWorkers ==
    /\ queue \in Seq(Ops)
    /\ workerPc \in [Workers -> {"unborn", "idle", "taken", "handling", "returned",
                                 "exited"}]
    /\ workerOp \in [Workers -> Ops \union {NoOp}]
    /\ outcome \in [Workers -> {"none", "ok", "error", "cancelled", "deadline"}]
    /\ \A w \in Workers : workerPc[w] \in {"taken", "handling", "returned"}
                            => workerOp[w] \in Ops

TypeCallers ==
    /\ clientPc \in [Clients -> {"idle", "cancelling", "waiting"}]
    /\ clientOp \in [Clients -> Ops \union {NoOp}]
    /\ \A c \in Clients : clientPc[c] # "idle" => clientOp[c] \in Ops
    /\ stopPc \in [Stoppers -> {"idle", "closing", "selecting", "drained", "expired",
                                "cancelling", "stopping", "cancelWork", "signalling",
                                "failing"} \union Over]
    /\ cancellations \in [Stoppers -> SUBSET Ops]

\* Every variable has its type; the percentages that Progress stores are 0..100, and a
\* worker or a caller in the middle of its work has an operation.
TypeOK == TypeControl /\ TypeSubmit /\ TypeOps /\ TypeWorkers /\ TypeCallers

\* When Shutdown has returned, drained or expired, no accepted operation is left
\* pending or running: a poller never sees one that nobody will ever finish.
SettledWhenStopped == state = "stopped" => AllSettled

InQueue(o)  == \E i \in 1..Len(queue) : queue[i] = o
Holds(w, o) == workerPc[w] \in {"taken", "handling", "returned"} /\ workerOp[w] = o

\* A non-terminal operation has somebody who will move it: a pending one is in
\* the queue or with a worker about to lock, a running one is with the worker
\* that runs its handler.
NobodyForgotten ==
    \A o \in Ops :
        /\ status[o] = "pending" =>
             InQueue(o) \/ \E w \in Workers : Holds(w, o) /\ workerPc[w] = "taken"
        /\ status[o] = "running" =>
             \E w \in Workers : Holds(w, o) /\ workerPc[w] # "taken"

\* The queue and the workers hold an operation once between them, so a handler gets
\* each operation at most once, and a drawn ID never names two.
DeliveredOnce ==
    \A o \in Ops :
        /\ \A w1, w2 \in Workers : Holds(w1, o) /\ Holds(w2, o) => w1 = w2
        /\ \A i, j \in 1..Len(queue) : queue[i] = o /\ queue[j] = o => i = j
        /\ InQueue(o) => \A w \in Workers : ~Holds(w, o)

\* The channel Wait blocks on is closed exactly when the status is terminal: a
\* waiter that wakes up reads a terminal snapshot, and no waiter sleeps on a
\* settled operation.
DoneIffTerminal == \A o \in Ops : done[o] <=> IsTerminal(o)

\* A job context that was cancelled, and did not time out, belongs to an operation
\* already recorded as cancelled: finish never reports a cancellation, or a
\* shutdown, as a failure of the handler.
CancelledContextMeansCancelled ==
    \A w \in Workers :
        workerPc[w] = "returned" /\ outcome[w] = "cancelled"
            => status[workerOp[w]] = "cancelled"

\* Neither Submit sends on the closed queue nor does a second stop close it again, both of
\* which panic, although the parent context and any number of Shutdowns stop the executor
\* at once and each has looked at the state before, in a critical section that is over.
QueueNeverPanics == queueState # "panicked"

\* An idempotency key always names a stored operation, also after a Submit was
\* rolled back, and every Submit with that key has been given the same one.
KeysResolve ==
    \A k \in Names \X Keys :
        /\ idempotency[k] # NoOp => status[idempotency[k]] # "absent"
        /\ answered[k] \subseteq {idempotency[k]}

\* The counters /metrics/async shows add up: every submission is counted once as
\* completed, failed or cancelled or is still open, and Running counts the
\* handlers that have not come back, those of cancelled operations included.
MetricsBalance ==
    /\ metrics["submitted"] = metrics["completed"] + metrics["failed"] + metrics["cancelled"]
                             + Cardinality(Unfinished)
    /\ metrics["running"] = Cardinality({w \in Workers : workerPc[w] \in {"handling", "returned"}})

\* A terminal operation never changes again, not by a late finish, a late
\* Progress, a second Cancel or an expired Shutdown.
TerminalIsFinal ==
    [][\A o \in Ops : IsTerminal(o) =>
          status'[o] = status[o] /\ progress'[o] = progress[o]]_vars

Contract == INSTANCE AsyncContract WITH Durable <- FALSE

\* The executor implements the contract of an executor that delivers once.
ImplementsContract == Contract!Spec

\* What runLifecycle sees of the executor if it is s that calls Shutdown: whether a worker
\* is left, what was sent on Done, and what Shutdown has returned.  The deadline of s is
\* noticed in its select.
Work ==
    IF state = "created" THEN "new"
    ELSE IF \E w \in Workers : workerPc[w] # "exited" THEN "working" ELSE "stopped"

Sent == IF signals = 0 THEN "none" ELSE "nil"

Answer(s) ==
    CASE stopPc[s] = "returned" -> "nil" [] stopPc[s] = "failed" -> "error" [] OTHER -> "none"

Late(s) ==
    stopPc[s] \in {"expired", "cancelling", "stopping", "cancelWork", "signalling", "failing",
                   "failed"}

Promise(s) ==
    INSTANCE Component WITH
        Notifies <- FALSE, work <- Work, signal <- Sent, answer <- Answer(s), late <- Late(s)

\* Shutdown returns once its deadline has passed, whatever the workers and the handlers
\* do.
ShutdownReturns ==
    \A s \in Stoppers : stopPc[s] = "closing" ~> stopPc[s] \in Over

\* Every accepted operation is settled if the workers run and handlers obey their
\* context, also when the executor is stopped meanwhile.
AcceptedSettles == WorkerFairness => \A o \in Ops : status[o] = "pending" ~> IsTerminal(o)
================================================================================
