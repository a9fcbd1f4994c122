-------------------------- MODULE MemoryExecutorProofs -------------------------
(***************************************************************************)
(* Proofs about the in-memory executor, for any number of operations,      *)
(* names, keys, workers, clients and callers of Shutdown.                  *)
(***************************************************************************)
EXTENDS MemoryExecutor, SequenceTheorems, FiniteSetTheorems, TLAPS

--------------------------------------------------------------------------------
\* Type correctness, one group of variables at a time.

controlVars == <<state, queueState, groupPc, watcherPc, parentDone, baseDone,
                 workersDone, signals>>

\* Every step keeps the types of the control state.
LEMMA TypeControlStep == TypeControl /\ [Next]_vars => TypeControl'
<1> SUFFICES ASSUME TypeControl, [Next]_vars PROVE TypeControl'
    OBVIOUS
<1> USE DEF queueVars, endVars, controlVars
<1>1. CASE Start
    BY <1>1 DEF Start, TypeControl
<1>2. CASE GroupStep
    <2>1. signals' \in 0..1
        BY <1>2 DEF GroupStep, SignalDone, TypeControl
    <2>2. baseDone' \in BOOLEAN /\ workersDone' \in BOOLEAN
        BY <1>2 DEF GroupStep, CancelWork, TypeControl
    <2>3. groupPc' \in {"closing", "signalling", "exited"}
        BY <1>2 DEF GroupStep
    <2>4. UNCHANGED <<state, queueState, watcherPc, parentDone>>
        BY <1>2 DEF GroupStep
    <2> QED
        BY <2>1, <2>2, <2>3, <2>4 DEF TypeControl
<1>3. CASE ParentEnds
    BY <1>3 DEF ParentEnds, TypeControl
<1>4. CASE WatcherStep
    BY <1>4 DEF WatcherStep, StopAccepting, CloseQueue, TypeControl
<1>5. ASSUME NEW s \in Stoppers, ShutdownCloses(s) PROVE TypeControl'
    BY <1>5 DEF ShutdownCloses, StopAccepting, CloseQueue, TypeControl
<1>6. ASSUME NEW s \in Stoppers, ShutdownDrained(s) PROVE TypeControl'
    BY <1>6 DEF ShutdownDrained, TypeControl
<1>7. ASSUME NEW s \in Stoppers, ShutdownExpired(s) PROVE TypeControl'
    <2>1. signals' \in 0..1
        BY <1>7 DEF ShutdownExpired, SignalDone, TypeControl
    <2>2. baseDone' \in BOOLEAN
        BY <1>7 DEF ShutdownExpired, CancelWork, TypeControl
    <2>3. state' \in {state, "stopped"}
        BY <1>7 DEF ShutdownExpired
    <2>4. UNCHANGED <<queueState, groupPc, watcherPc, parentDone, workersDone>>
        BY <1>7 DEF ShutdownExpired
    <2> QED
        BY <2>1, <2>2, <2>3, <2>4 DEF TypeControl
<1>8. ASSUME NEW s \in Stoppers, ShutdownBegin(s) \/ ShutdownSelects(s)
                                   \/ CancelUnfinished(s) \/ CancelCollected(s)
      PROVE UNCHANGED controlVars
    BY <1>8 DEF ShutdownBegin, ShutdownSelects, CancelUnfinished, CancelOperations,
                CancelCollected
<1>9. ASSUME NEW n \in Names, Handle(n) PROVE UNCHANGED controlVars
    BY <1>9 DEF Handle
<1>10. CASE SubmitStep
    BY <1>10 DEF SubmitStep, SubmitDuplicate, SubmitAccepted, SubmitQueueFull, SendToQueue,
                 TypeControl
<1>11. ASSUME NEW c \in Clients, ClientStep(c) PROVE UNCHANGED controlVars
    BY <1>11 DEF ClientStep, Cancel, CancelContext, WaitBegin, WaitReturn, WaitGivesUp
<1>12. ASSUME NEW w \in Workers, WorkerStep(w) PROVE UNCHANGED controlVars
    BY <1>12 DEF WorkerStep, Receive, WorkerExit, RunSkip, RunBegin, HandlerReturn,
                 Finish, FinishOperation
<1>13. ASSUME NEW o \in Ops, TaskTimeout(o) \/ \E p \in Reports : ReportProgress(o, p)
       PROVE UNCHANGED controlVars
    BY <1>13 DEF TaskTimeout, ReportProgress
<1>14. CASE UNCHANGED vars
    BY <1>14 DEF vars, TypeControl
<1>15. CASE UNCHANGED controlVars
    BY <1>15 DEF TypeControl
<1> QED
    BY <1>1, <1>2, <1>3, <1>4, <1>5, <1>6, <1>7, <1>8, <1>9, <1>10, <1>11, <1>12,
       <1>13, <1>14, <1>15
       DEF Next, ShutdownStep, Rest

\* Every step keeps the types of the maps that Handle and Submit write.
LEMMA TypeSubmitStep == TypeSubmit /\ [Next]_vars => TypeSubmit'
<1> SUFFICES ASSUME TypeSubmit, [Next]_vars PROVE TypeSubmit'
    OBVIOUS
<1> USE DEF TypeSubmit, submitVars
<1>1. CASE Start \/ GroupStep \/ ParentEnds \/ WatcherStep \/ UNCHANGED vars
    BY <1>1 DEF Start, GroupStep, ParentEnds, WatcherStep, vars
<1>2. ASSUME NEW n \in Names, Handle(n) PROVE TypeSubmit'
    BY <1>2 DEF Handle
<1>3. ASSUME NEW n \in Names, NEW k \in Keys \union {NoKey}, SubmitDuplicate(n, k)
      PROVE TypeSubmit'
    BY <1>3 DEF SubmitDuplicate
<1>4. ASSUME NEW id \in Ops, NEW n \in Names, NEW k \in Keys \union {NoKey},
             SubmitAccepted(id, n, k) \/ SubmitQueueFull(id, n, k)
      PROVE TypeSubmit'
    <2>1. CASE k \in Keys
        <3>1. <<n, k>> \in Names \X Keys
            BY <2>1
        <3>2. CASE SubmitAccepted(id, n, k)
            <4>1. idempotency' = [idempotency EXCEPT ![<<n, k>>] = id]
                BY <2>1, <3>2 DEF SubmitAccepted
            <4>2. answered' = [answered EXCEPT ![<<n, k>>] = @ \union {id}]
                BY <2>1, <3>2 DEF SubmitAccepted
            <4>3. UNCHANGED handlers
                BY <3>2 DEF SubmitAccepted
            <4> QED
                BY <3>1, <4>1, <4>2, <4>3
        <3>3. CASE SubmitQueueFull(id, n, k)
            BY <2>1, <3>1, <3>3 DEF SubmitQueueFull
        <3> QED
            BY <1>4, <3>2, <3>3
    <2>2. CASE k \notin Keys
        BY <1>4, <2>2 DEF SubmitAccepted, SubmitQueueFull
    <2> QED
        BY <2>1, <2>2
<1>5. ASSUME NEW c \in Clients, ClientStep(c) PROVE TypeSubmit'
    BY <1>5 DEF ClientStep, Cancel, CancelContext, WaitBegin, WaitReturn, WaitGivesUp
<1>6. ASSUME NEW w \in Workers, WorkerStep(w) PROVE TypeSubmit'
    BY <1>6 DEF WorkerStep, Receive, WorkerExit, RunSkip, RunBegin, HandlerReturn,
                Finish, FinishOperation
<1>7. ASSUME NEW o \in Ops, TaskTimeout(o) \/ \E p \in Reports : ReportProgress(o, p)
      PROVE TypeSubmit'
    BY <1>7 DEF TaskTimeout, ReportProgress
<1>8. ASSUME NEW s \in Stoppers, ShutdownStep(s) PROVE TypeSubmit'
    BY <1>8 DEF ShutdownStep, ShutdownBegin, ShutdownCloses, ShutdownSelects,
                ShutdownDrained, CancelUnfinished, CancelOperations, CancelCollected,
                ShutdownExpired
<1> QED
    BY <1>1, <1>2, <1>3, <1>4, <1>5, <1>6, <1>7, <1>8 DEF Next, SubmitStep, Rest

\* Every step keeps the types of the operation records and the metrics.
LEMMA TypeOpsStep == TypeOps /\ TypeWorkers /\ [Next]_vars => TypeOps'
<1> SUFFICES ASSUME TypeOps, TypeWorkers, [Next]_vars PROVE TypeOps'
    OBVIOUS
<1> USE DEF TypeOps, TypeWorkers, opVars, Status, Terminal, Counters
<1>1. CASE Start \/ ParentEnds \/ WatcherStep \/ UNCHANGED vars
    BY <1>1 DEF Start, ParentEnds, WatcherStep, vars
<1>2. CASE GroupStep
    BY <1>2 DEF GroupStep, CancelWork, CancelContexts
<1>3. ASSUME NEW n \in Names, Handle(n) PROVE TypeOps'
    BY <1>3 DEF Handle
<1>4. CASE SubmitStep
    <2>1. ASSUME NEW id \in Ops, NEW n, NEW k, SubmitAccepted(id, n, k) PROVE TypeOps'
        BY <2>1 DEF SubmitAccepted
    <2>2. ASSUME NEW id \in Ops, NEW n, NEW k, SubmitQueueFull(id, n, k) PROVE TypeOps'
        BY <2>2 DEF SubmitQueueFull
    <2>3. ASSUME NEW n, NEW k, SubmitDuplicate(n, k) PROVE TypeOps'
        BY <2>3 DEF SubmitDuplicate
    <2> QED
        BY <1>4, <2>1, <2>2, <2>3 DEF SubmitStep
<1>5. ASSUME NEW c \in Clients, NEW o \in Ops, Cancel(c, o) PROVE TypeOps'
    BY <1>5 DEF Cancel, Settle
<1>6. ASSUME NEW c \in Clients, CancelContext(c) PROVE TypeOps'
    BY <1>6 DEF CancelContext, CancelContexts
<1>7. ASSUME NEW c \in Clients,
             WaitReturn(c) \/ WaitGivesUp(c) \/ \E o \in Ops : WaitBegin(c, o)
      PROVE TypeOps'
    BY <1>7 DEF WaitReturn, WaitGivesUp, WaitBegin
<1>8. ASSUME NEW w \in Workers, Receive(w) \/ WorkerExit(w) \/ RunSkip(w) PROVE TypeOps'
    BY <1>8 DEF Receive, WorkerExit, RunSkip
<1>9. ASSUME NEW w \in Workers, RunBegin(w) PROVE TypeOps'
    BY <1>9 DEF RunBegin
<1>10. ASSUME NEW w \in Workers, NEW ok \in BOOLEAN, HandlerReturn(w, ok) PROVE TypeOps'
    BY <1>10 DEF HandlerReturn, CancelContexts
<1>11. ASSUME NEW w \in Workers, Finish(w) PROVE TypeOps'
    <2>1. workerOp[w] \in Ops
        BY <1>11 DEF Finish, FinishOperation
    <2>2. status' \in [Ops -> Status]
        BY <1>11, <2>1 DEF Finish, FinishOperation, Settle
    <2>3. done' \in [Ops -> BOOLEAN]
        <3>1. \/ UNCHANGED done
              \/ done' = [o \in Ops |-> done[o] \/ o \in {workerOp[w]}]
            <4>1. CASE IsTerminal(workerOp[w])
                BY <1>11, <4>1 DEF Finish, FinishOperation
            <4>2. CASE ~IsTerminal(workerOp[w])
                BY <1>11, <4>2 DEF Finish, FinishOperation, Settle
            <4> QED
                BY <4>1, <4>2
        <3>2. [o \in Ops |-> done[o] \/ o \in {workerOp[w]}] \in [Ops -> BOOLEAN]
            OBVIOUS
        <3> QED
            BY <3>1, <3>2
    <2>6. progress' \in [Ops -> 0..100]
        <3>1. \/ UNCHANGED progress
              \/ progress' = [progress EXCEPT ![workerOp[w]] = 100]
              \/ progress' = [progress EXCEPT ![workerOp[w]] = @]
            <4>1. CASE ~IsTerminal(workerOp[w]) /\ outcome[w] = "ok"
                BY <1>11, <4>1 DEF Finish, FinishOperation
            <4>2. CASE ~IsTerminal(workerOp[w]) /\ outcome[w] # "ok"
                BY <1>11, <4>2 DEF Finish, FinishOperation
            <4>3. CASE IsTerminal(workerOp[w])
                BY <1>11, <4>3 DEF Finish, FinishOperation
            <4> QED
                BY <4>1, <4>2, <4>3
        <3>2. progress \in [Ops -> 0..100]
            OBVIOUS
        <3>3. [progress EXCEPT ![workerOp[w]] = 100] \in [Ops -> 0..100]
            BY <2>1, <3>2
        <3>4. [progress EXCEPT ![workerOp[w]] = @] \in [Ops -> 0..100]
            BY <2>1, <3>2
        <3> QED
            BY <3>1, <3>2, <3>3, <3>4
    <2>7. executing' \in [Ops -> BOOLEAN]
        BY <1>11, <2>1 DEF Finish, FinishOperation
    <2>4. metrics' \in [Counters -> Int]
        BY <1>11, <2>1 DEF Finish, FinishOperation
    <2>5. UNCHANGED jobContext
        BY <1>11 DEF Finish, FinishOperation
    <2> QED
        BY <2>2, <2>3, <2>4, <2>5, <2>6, <2>7
<1>12. ASSUME NEW o \in Ops, TaskTimeout(o) PROVE TypeOps'
    BY <1>12 DEF TaskTimeout
<1>13. ASSUME NEW o \in Ops, NEW p \in Reports, ReportProgress(o, p) PROVE TypeOps'
    BY <1>13 DEF ReportProgress
<1>14. ASSUME NEW s \in Stoppers, ShutdownBegin(s) \/ ShutdownCloses(s)
                                    \/ ShutdownSelects(s) \/ ShutdownDrained(s)
       PROVE TypeOps'
    BY <1>14 DEF ShutdownBegin, ShutdownCloses, ShutdownSelects, ShutdownDrained
<1>15. ASSUME NEW s \in Stoppers, CancelUnfinished(s) PROVE TypeOps'
    <2>1. Cardinality(Unfinished) \in Int
        BY OpsAssumption, FS_Subset, FS_CardinalityType DEF Unfinished
    <2> QED
        BY <1>15, <2>1 DEF CancelUnfinished, CancelOperations, Settle
<1>16. ASSUME NEW s \in Stoppers, CancelCollected(s) PROVE TypeOps'
    BY <1>16 DEF CancelCollected, CancelContexts
<1>17. ASSUME NEW s \in Stoppers, ShutdownExpired(s) PROVE TypeOps'
    BY <1>17 DEF ShutdownExpired, CancelWork, CancelContexts
<1> QED
    BY <1>1, <1>2, <1>3, <1>4, <1>5, <1>6, <1>7, <1>8, <1>9, <1>10, <1>11, <1>12,
       <1>13, <1>14, <1>15, <1>16, <1>17
       DEF Next, ClientStep, WorkerStep, ShutdownStep, Rest

\* Every step keeps the types of the queue and the workers.
LEMMA TypeWorkersStep == TypeOps /\ TypeWorkers /\ [Next]_vars => TypeWorkers'
<1> SUFFICES ASSUME TypeOps, TypeWorkers, [Next]_vars PROVE TypeWorkers'
    OBVIOUS
<1> DEFINE theirs == <<queue, workerVars>>
<1> USE DEF workerVars, queueVars
<1>1. CASE Start
    BY <1>1 DEF Start, TypeWorkers
<1>2. ASSUME NEW id \in Ops, NEW n, NEW k, SubmitAccepted(id, n, k) PROVE TypeWorkers'
    BY <1>2 DEF SubmitAccepted, TypeWorkers
<1>3. ASSUME NEW w \in Workers, Receive(w) PROVE TypeWorkers'
    <2>1. Head(queue) \in Ops /\ Tail(queue) \in Seq(Ops)
        BY <1>3 DEF Receive, TypeWorkers
    <2> QED
        BY <1>3, <2>1 DEF Receive, TypeWorkers
<1>4. ASSUME NEW w \in Workers, WorkerExit(w) \/ RunSkip(w) \/ RunBegin(w)
      PROVE TypeWorkers'
    BY <1>4 DEF WorkerExit, RunSkip, RunBegin, TypeWorkers
<1>5. ASSUME NEW w \in Workers, NEW ok \in BOOLEAN, HandlerReturn(w, ok)
      PROVE TypeWorkers'
    <2>1. jobContext[workerOp[w]] \in {"none", "live", "cancelled", "deadline"}
        BY <1>5 DEF HandlerReturn, TypeWorkers, TypeOps
    <2>2. outcome' \in [Workers -> {"none", "ok", "error", "cancelled", "deadline"}]
        BY <1>5, <2>1 DEF HandlerReturn, TypeWorkers
    <2> QED
        BY <1>5, <2>2 DEF HandlerReturn, TypeWorkers
<1>6. ASSUME NEW w \in Workers, Finish(w) PROVE TypeWorkers'
    BY <1>6 DEF Finish, FinishOperation, TypeWorkers
<1>7. CASE GroupStep \/ ParentEnds \/ WatcherStep \/ UNCHANGED vars
    <2>1. UNCHANGED theirs
        BY <1>7 DEF GroupStep, ParentEnds, WatcherStep, vars
    <2> QED
        BY <2>1 DEF TypeWorkers
<1>8. ASSUME NEW n, Handle(n) \/ \E k : SubmitDuplicate(n, k)
                              \/ \E id \in Ops : SubmitQueueFull(id, n, k)
      PROVE UNCHANGED theirs
    BY <1>8 DEF Handle, SubmitDuplicate, SubmitQueueFull
<1>9. ASSUME NEW c \in Clients, ClientStep(c) PROVE UNCHANGED theirs
    BY <1>9 DEF ClientStep, Cancel, CancelContext, WaitBegin, WaitReturn, WaitGivesUp
<1>10. ASSUME NEW o \in Ops, TaskTimeout(o) \/ \E p \in Reports : ReportProgress(o, p)
       PROVE UNCHANGED theirs
    BY <1>10 DEF TaskTimeout, ReportProgress
<1>11. ASSUME NEW s \in Stoppers, ShutdownStep(s) PROVE UNCHANGED theirs
    BY <1>11 DEF ShutdownStep, ShutdownBegin, ShutdownCloses, ShutdownSelects,
                 ShutdownDrained, CancelUnfinished, CancelOperations, CancelCollected,
                 ShutdownExpired
<1>12. CASE UNCHANGED theirs
    BY <1>12 DEF TypeWorkers
<1> HIDE DEF theirs
<1> QED
    BY <1>1, <1>2, <1>3, <1>4, <1>5, <1>6, <1>7, <1>8, <1>9, <1>10, <1>11, <1>12
       DEF Next, SubmitStep, WorkerStep, Rest

\* Every step keeps the types of the callers of Cancel, Wait and Shutdown.
LEMMA TypeCallersStep == TypeCallers /\ [Next]_vars => TypeCallers'
<1> SUFFICES ASSUME TypeCallers, [Next]_vars PROVE TypeCallers'
    OBVIOUS
<1> DEFINE theirs == <<clientVars, stopVars>>
<1> USE DEF clientVars, stopVars
<1>1. ASSUME NEW c \in Clients, ClientStep(c) PROVE TypeCallers'
    BY <1>1 DEF ClientStep, Cancel, CancelContext, WaitBegin, WaitReturn, WaitGivesUp,
                TypeCallers
<1>2. ASSUME NEW s \in Stoppers, ShutdownBegin(s) \/ ShutdownCloses(s)
                                   \/ ShutdownSelects(s) \/ ShutdownDrained(s)
      PROVE TypeCallers'
    BY <1>2 DEF ShutdownBegin, ShutdownCloses, ShutdownSelects, ShutdownDrained,
                TypeCallers, Over
<1>3. ASSUME NEW s \in Stoppers, CancelUnfinished(s) PROVE TypeCallers'
    BY <1>3 DEF CancelUnfinished, CancelOperations, Unfinished, TypeCallers
<1>4. ASSUME NEW s \in Stoppers, CancelCollected(s) PROVE TypeCallers'
    BY <1>4 DEF CancelCollected, TypeCallers
<1>5. ASSUME NEW s \in Stoppers, ShutdownExpired(s) PROVE TypeCallers'
    BY <1>5 DEF ShutdownExpired, TypeCallers, Over
<1>6. CASE Start \/ GroupStep \/ ParentEnds \/ WatcherStep \/ UNCHANGED vars
    <2>1. UNCHANGED theirs
        BY <1>6 DEF Start, GroupStep, ParentEnds, WatcherStep, vars
    <2> QED
        BY <2>1 DEF TypeCallers
<1>7. ASSUME NEW n \in Names, Handle(n) PROVE UNCHANGED theirs
    BY <1>7 DEF Handle
<1>8. CASE SubmitStep
    BY <1>8 DEF SubmitStep, SubmitDuplicate, SubmitAccepted, SubmitQueueFull, TypeCallers
<1>9. ASSUME NEW w \in Workers, WorkerStep(w) PROVE UNCHANGED theirs
    BY <1>9 DEF WorkerStep, Receive, WorkerExit, RunSkip, RunBegin, HandlerReturn,
                Finish, FinishOperation
<1>10. ASSUME NEW o \in Ops, TaskTimeout(o) \/ \E p \in Reports : ReportProgress(o, p)
       PROVE UNCHANGED theirs
    BY <1>10 DEF TaskTimeout, ReportProgress
<1>11. CASE UNCHANGED theirs
    BY <1>11 DEF TypeCallers
<1> HIDE DEF theirs
<1> QED
    BY <1>1, <1>2, <1>3, <1>4, <1>5, <1>6, <1>7, <1>8, <1>9, <1>10, <1>11
       DEF Next, ShutdownStep, Rest

\* Every step keeps the types.
LEMMA TypeStep == TypeOK /\ [Next]_vars => TypeOK'
BY TypeControlStep, TypeSubmitStep, TypeOpsStep, TypeWorkersStep, TypeCallersStep
   DEF TypeOK

\* The types hold initially.
LEMMA InitTypes == Init => TypeOK
<1> SUFFICES ASSUME Init PROVE TypeOK
    OBVIOUS
<1>1. TypeControl
    <2>1. signals \in 0..1
        BY DEF Init
    <2> QED
        BY <2>1 DEF Init, TypeControl
<1>2. TypeSubmit
    BY DEF Init, TypeSubmit
<1>3. TypeOps
    BY DEF Init, TypeOps, Status, Counters
<1>4. TypeWorkers
    BY DEF Init, TypeWorkers
<1>5. TypeCallers
    BY DEF Init, TypeCallers
<1> QED
    BY <1>1, <1>2, <1>3, <1>4, <1>5 DEF TypeOK

\* Every variable of the executor keeps its type: in particular a worker that is
\* past the receive, and a caller that is past its critical section, hold an ID.
THEOREM TypeCorrect == Spec => []TypeOK
BY InitTypes, TypeStep, PTL DEF Spec

--------------------------------------------------------------------------------
\* Who holds an operation.

\* The status an operation may have where it is: in the channel, with a worker
\* that has not locked yet, with a worker that runs its handler.
InFlight ==
    /\ \A i \in 1..Len(queue) : status[queue[i]] \in {"pending", "cancelled"}
    /\ \A w \in Workers : workerPc[w] = "taken"
                            => status[workerOp[w]] \in {"pending", "cancelled"}
    /\ \A w \in Workers : workerPc[w] \in {"handling", "returned"}
                            => status[workerOp[w]] \in {"running", "cancelled"}

\* The workers start with the executor.
Unborn == state = "created" => \A w \in Workers : workerPc[w] = "unborn"

Holding == NobodyForgotten /\ DeliveredOnce /\ InFlight

holdVars == <<status, queue, workerPc, workerOp>>

\* Who holds which operation depends on these variables only.
LEMMA HoldingFrame == Holding /\ UNCHANGED holdVars => Holding'
BY DEF Holding, NobodyForgotten, DeliveredOnce, InFlight, holdVars, InQueue, Holds

\* Every step keeps each open operation with exactly one holder.
LEMMA HoldingStep == TypeOK /\ Unborn /\ Holding /\ [Next]_vars => Holding'
<1> SUFFICES ASSUME TypeOK, Unborn, Holding, [Next]_vars PROVE Holding'
    OBVIOUS
<1>a. /\ status \in [Ops -> Status]
      /\ queue \in Seq(Ops)
      /\ workerPc \in [Workers -> {"unborn", "idle", "taken", "handling", "returned",
                                   "exited"}]
      /\ workerOp \in [Workers -> Ops \union {NoOp}]
      /\ \A w \in Workers : workerPc[w] \in {"taken", "handling", "returned"}
                              => workerOp[w] \in Ops
    BY DEF TypeOK, TypeOps, TypeWorkers
<1> USE <1>a
<1>1. CASE Start
    <2>1. \A w \in Workers : workerPc[w] = "unborn" /\ workerPc'[w] = "idle"
        BY <1>1 DEF Start, Unborn
    <2>2. UNCHANGED <<status, queue, workerOp>>
        BY <1>1 DEF Start, queueVars, opVars
    <2>3. NobodyForgotten'
        BY <2>1, <2>2 DEF Holding, NobodyForgotten, InQueue, Holds
    <2>4. DeliveredOnce'
        BY <2>1, <2>2 DEF Holding, DeliveredOnce, InQueue, Holds
    <2>5. InFlight'
        BY <2>1, <2>2 DEF Holding, InFlight
    <2> QED
        BY <2>3, <2>4, <2>5 DEF Holding
<1>2. ASSUME NEW id \in Ops, NEW n, NEW k, SubmitAccepted(id, n, k) PROVE Holding'
    <2>1. /\ status[id] = "absent"
          /\ queue' = Append(queue, id)
          /\ status' = [status EXCEPT ![id] = "pending"]
          /\ UNCHANGED <<workerPc, workerOp>>
        BY <1>2 DEF SubmitAccepted, MayCreate, workerVars
    <2>2. ~InQueue(id) /\ \A w \in Workers : ~Holds(w, id)
        BY <2>1 DEF Holding, InFlight, InQueue, Holds
    <2>3. /\ Len(queue') = Len(queue) + 1
          /\ \A i \in 1..Len(queue) : queue'[i] = queue[i]
          /\ queue'[Len(queue) + 1] = id
        BY <2>1
    <2>4. NobodyForgotten'
        BY <2>1, <2>3 DEF Holding, NobodyForgotten, InQueue, Holds
    <2>5. DeliveredOnce'
        BY <2>1, <2>2, <2>3 DEF Holding, DeliveredOnce, InQueue, Holds
    <2>6. InFlight'
        BY <2>1, <2>2, <2>3 DEF Holding, InFlight, InQueue, Holds
    <2> QED
        BY <2>4, <2>5, <2>6 DEF Holding
<1>3. ASSUME NEW w \in Workers, Receive(w) PROVE Holding'
    <2> DEFINE o == queue[1]
    <2>1. /\ queue # <<>>
          /\ workerPc[w] = "idle"
          /\ workerPc' = [workerPc EXCEPT ![w] = "taken"]
          /\ workerOp' = [workerOp EXCEPT ![w] = o]
          /\ UNCHANGED status
        BY <1>3 DEF Receive, opVars
    <2>2. /\ o \in Ops
          /\ Len(queue) \in Nat \ {0}
          /\ Len(queue') = Len(queue) - 1
          /\ \A i \in 1..Len(queue') : queue'[i] = queue[i + 1]
        BY <1>3 DEF Receive
    <2>3. ASSUME NEW p \in Ops, InQueue(p), p # o PROVE InQueue(p)'
        <3>1. PICK i \in 1..Len(queue) : queue[i] = p
            BY <2>3 DEF InQueue
        <3>2. i - 1 \in 1..Len(queue') /\ queue'[i - 1] = p
            BY <2>2, <2>3, <3>1
        <3> QED
            BY <3>2 DEF InQueue
    <2>7. ASSUME NEW p \in Ops, InQueue(p)' PROVE InQueue(p) /\ p # o
        <3>1. PICK i \in 1..Len(queue') : queue'[i] = p
            BY <2>7 DEF InQueue
        <3>2. i + 1 \in 1..Len(queue) /\ queue[i + 1] = p /\ 1 \in 1..Len(queue)
            BY <2>2, <3>1
        <3>3. p # o
            BY <3>2 DEF Holding, DeliveredOnce
        <3> QED
            BY <3>2, <3>3 DEF InQueue
    <2>8. InQueue(o)
        BY <2>2 DEF InQueue
    <2>4. NobodyForgotten'
        BY <2>1, <2>2, <2>3 DEF Holding, NobodyForgotten, Holds
    <2>5. DeliveredOnce'
        <3>1. ASSUME NEW p \in Ops, NEW i \in 1..Len(queue'), NEW j \in 1..Len(queue'),
                     queue'[i] = p, queue'[j] = p
              PROVE i = j
            <4>1. i + 1 \in 1..Len(queue) /\ j + 1 \in 1..Len(queue)
                BY <2>2
            <4>2. queue[i + 1] = p /\ queue[j + 1] = p
                BY <2>2, <3>1
            <4>3. i + 1 = j + 1
                BY <4>1, <4>2 DEF Holding, DeliveredOnce
            <4> QED
                BY <4>3, <2>2
        <3>2. ASSUME NEW p \in Ops, NEW v \in Workers, Holds(v, p)', v # w
              PROVE Holds(v, p) /\ p # o
            BY <2>1, <2>8, <3>2 DEF Holding, DeliveredOnce, Holds
        <3>3. \A p \in Ops : Holds(w, p)' => p = o
            BY <2>1 DEF Holds
        <3>4. \A p \in Ops : InQueue(p)' => \A v \in Workers : ~Holds(v, p)'
            BY <2>7, <3>2, <3>3 DEF Holding, DeliveredOnce
        <3>5. \A p \in Ops : \A v1, v2 \in Workers : Holds(v1, p)' /\ Holds(v2, p)' => v1 = v2
            BY <3>2, <3>3 DEF Holding, DeliveredOnce
        <3> QED
            BY <3>1, <3>4, <3>5 DEF DeliveredOnce
    <2>6. InFlight'
        <3>1. \A i \in 1..Len(queue') : i + 1 \in 1..Len(queue) /\ queue'[i] = queue[i + 1]
            BY <2>2
        <3>2. status[o] \in {"pending", "cancelled"}
            BY <2>2 DEF Holding, InFlight
        <3> QED
            BY <2>1, <3>1, <3>2 DEF Holding, InFlight
    <2> QED
        BY <2>4, <2>5, <2>6 DEF Holding
<1>4. ASSUME NEW w \in Workers, WorkerExit(w) \/ RunSkip(w) PROVE Holding'
    <2>1. UNCHANGED <<queue, status>>
        BY <1>4 DEF WorkerExit, RunSkip, queueVars, opVars
    <2>2. /\ workerPc'[w] \notin {"taken", "handling", "returned"}
          /\ workerPc[w] = "idle" \/ (workerPc[w] = "taken" /\ status[workerOp[w]] # "pending")
          /\ \A v \in Workers \ {w} : workerPc'[v] = workerPc[v] /\ workerOp'[v] = workerOp[v]
        <3>1. CASE WorkerExit(w)
            BY <3>1 DEF WorkerExit
        <3>2. CASE RunSkip(w)
            BY <3>2 DEF RunSkip
        <3> QED
            BY <1>4, <3>1, <3>2
    <2>3. NobodyForgotten'
        BY <2>1, <2>2 DEF Holding, NobodyForgotten, InQueue, Holds
    <2>4. DeliveredOnce'
        BY <2>1, <2>2 DEF Holding, DeliveredOnce, InQueue, Holds
    <2>5. InFlight'
        BY <2>1, <2>2 DEF Holding, InFlight
    <2> QED
        BY <2>3, <2>4, <2>5 DEF Holding
<1>5. ASSUME NEW w \in Workers, RunBegin(w) PROVE Holding'
    <2>1. /\ workerPc[w] = "taken"
          /\ status[workerOp[w]] = "pending"
          /\ status' = [status EXCEPT ![workerOp[w]] = "running"]
          /\ workerPc' = [workerPc EXCEPT ![w] = "handling"]
          /\ UNCHANGED <<queue, workerOp>>
        BY <1>5 DEF RunBegin, queueVars
    <2>2. /\ workerOp[w] \in Ops
          /\ ~InQueue(workerOp[w])
          /\ \A v \in Workers : Holds(v, workerOp[w]) => v = w
        BY <2>1 DEF Holding, DeliveredOnce, Holds
    <2>3. NobodyForgotten'
        BY <2>1, <2>2 DEF Holding, NobodyForgotten, InQueue, Holds
    <2>4. DeliveredOnce'
        BY <2>1, <2>2 DEF Holding, DeliveredOnce, InQueue, Holds
    <2>5. InFlight'
        BY <2>1, <2>2 DEF Holding, InFlight, InQueue, Holds
    <2> QED
        BY <2>3, <2>4, <2>5 DEF Holding
<1>6. ASSUME NEW w \in Workers, NEW ok \in BOOLEAN, HandlerReturn(w, ok) PROVE Holding'
    <2>1. UNCHANGED <<queue, status, workerOp>>
        BY <1>6 DEF HandlerReturn, queueVars, opVars
    <2>2. workerPc[w] = "handling" /\ workerPc' = [workerPc EXCEPT ![w] = "returned"]
        BY <1>6 DEF HandlerReturn
    <2>3. NobodyForgotten'
        BY <2>1, <2>2 DEF Holding, NobodyForgotten, InQueue, Holds
    <2>4. DeliveredOnce'
        BY <2>1, <2>2 DEF Holding, DeliveredOnce, InQueue, Holds
    <2>5. InFlight'
        BY <2>1, <2>2 DEF Holding, InFlight
    <2> QED
        BY <2>3, <2>4, <2>5 DEF Holding
<1>7. ASSUME NEW w \in Workers, Finish(w) PROVE Holding'
    <2> DEFINE o == workerOp[w]
    <2>1. /\ workerPc[w] = "returned"
          /\ workerPc' = [workerPc EXCEPT ![w] = "idle"]
          /\ workerOp' = [workerOp EXCEPT ![w] = NoOp]
          /\ UNCHANGED queue
        BY <1>7 DEF Finish, FinishOperation, queueVars
    <2>2. /\ o \in Ops
          /\ ~InQueue(o)
          /\ \A v \in Workers : Holds(v, o) => v = w
        BY <2>1 DEF Holding, DeliveredOnce, Holds
    <2>3. /\ status'[o] \in Terminal
          /\ \A p \in Ops \ {o} : status'[p] = status[p]
        BY <1>7, <2>2 DEF Finish, FinishOperation, Settle, IsTerminal, Terminal
    <2>4. NobodyForgotten'
        BY <2>1, <2>2, <2>3 DEF Holding, NobodyForgotten, InQueue, Holds, Terminal
    <2>5. DeliveredOnce'
        BY <2>1, <2>2 DEF Holding, DeliveredOnce, InQueue, Holds
    <2>6. InFlight'
        BY <2>1, <2>2, <2>3 DEF Holding, InFlight, InQueue, Holds
    <2> QED
        BY <2>4, <2>5, <2>6 DEF Holding
<1>8. ASSUME NEW S \in SUBSET Ops, UNCHANGED <<queue, workerPc, workerOp>>,
             Settle(S, "cancelled"), \A o \in S : status[o] \in {"pending", "running"}
      PROVE Holding'
    BY <1>8 DEF Settle, Holding, NobodyForgotten, DeliveredOnce, InFlight, InQueue, Holds
<1>9. ASSUME NEW c \in Clients, NEW o \in Ops, Cancel(c, o) PROVE Holding'
    <2>1. /\ Settle({o}, "cancelled")
          /\ \A p \in {o} : status[p] \in {"pending", "running"}
          /\ UNCHANGED <<queue, workerPc, workerOp>>
        BY <1>9 DEF Cancel, queueVars, workerVars
    <2> QED
        BY <1>8, <2>1
<1>10. ASSUME NEW s \in Stoppers, CancelUnfinished(s) PROVE Holding'
    <2>1. /\ Settle(Unfinished, "cancelled")
          /\ UNCHANGED <<queue, workerPc, workerOp>>
        BY <1>10 DEF CancelUnfinished, CancelOperations, queueVars, workerVars
    <2>2. Unfinished \in SUBSET Ops /\ \A p \in Unfinished : status[p] \in {"pending", "running"}
        BY DEF Unfinished
    <2> QED
        BY <1>8, <2>1, <2>2
<1>11. ASSUME NEW id \in Ops, NEW n, NEW k, SubmitQueueFull(id, n, k)
       PROVE UNCHANGED holdVars
    BY <1>11 DEF SubmitQueueFull, MayCreate, holdVars, queueVars, workerVars
<1>12. ASSUME NEW n, Handle(n) \/ \E k : SubmitDuplicate(n, k) PROVE UNCHANGED holdVars
    BY <1>12 DEF Handle, SubmitDuplicate, holdVars, queueVars, opVars, workerVars
<1>13. ASSUME NEW c \in Clients, CancelContext(c) \/ WaitReturn(c) \/ WaitGivesUp(c)
                                   \/ \E o \in Ops : WaitBegin(c, o)
       PROVE UNCHANGED holdVars
    BY <1>13 DEF CancelContext, WaitReturn, WaitGivesUp, WaitBegin, holdVars, queueVars,
                 opVars, workerVars
<1>14. ASSUME NEW o \in Ops, TaskTimeout(o) \/ \E p \in Reports : ReportProgress(o, p)
       PROVE UNCHANGED holdVars
    BY <1>14 DEF TaskTimeout, ReportProgress, holdVars, queueVars, opVars, workerVars
<1>15. ASSUME NEW s \in Stoppers,
              \/ ShutdownBegin(s) \/ ShutdownCloses(s) \/ ShutdownSelects(s)
              \/ ShutdownDrained(s) \/ CancelCollected(s) \/ ShutdownExpired(s)
       PROVE UNCHANGED holdVars
    BY <1>15 DEF ShutdownBegin, ShutdownCloses, ShutdownSelects, ShutdownDrained,
                 CancelCollected, ShutdownExpired, holdVars, queueVars, opVars, workerVars
<1>16. CASE GroupStep \/ ParentEnds \/ WatcherStep \/ UNCHANGED vars
    <2>1. UNCHANGED holdVars
        BY <1>16 DEF GroupStep, ParentEnds, WatcherStep, vars, holdVars, queueVars, opVars,
                     workerVars
    <2> QED
        BY <2>1, HoldingFrame
<1> QED
    BY <1>1, <1>2, <1>3, <1>4, <1>5, <1>6, <1>7, <1>9, <1>10, <1>11, <1>12, <1>13, <1>14,
       <1>15, <1>16, HoldingFrame
       DEF Next, SubmitStep, ClientStep, WorkerStep, ShutdownStep, Rest

--------------------------------------------------------------------------------
\* The order in which the executor comes to rest.

Stopping == {"selecting", "drained", "expired", "cancelling", "stopping", "cancelWork",
             "signalling", "failing"}

\* The queue is open exactly while work is, or will be, accepted.
QueueInv ==
    /\ QueueNeverPanics
    /\ queueState = "open" <=> state \in {"created", "running"}

ControlInv ==
    /\ QueueInv
    /\ Unborn
    /\ \A w \in Workers : workerPc[w] = "exited" => queueState # "open" /\ queue = <<>>
    /\ workersDone \/ groupPc \in {"closing", "signalling", "exited"}
         => \A w \in Workers : workerPc[w] = "exited"
    /\ \A s \in Stoppers :
         /\ stopPc[s] = "closing" => state # "created"
         /\ stopPc[s] \in Stopping => state \in {"stopping", "stopped"}
         /\ stopPc[s] = "drained" => workersDone

stopControl == <<state, queueState, queue, workerPc, workersDone, groupPc, stopPc>>

\* The control invariant depends on these variables only.
LEMMA ControlFrame == ControlInv /\ UNCHANGED stopControl => ControlInv'
BY DEF ControlInv, QueueInv, QueueNeverPanics, Unborn, stopControl

\* Every step keeps queue, state, worker group and Shutdown in agreement.
LEMMA ControlStep == TypeOK /\ ControlInv /\ [Next]_vars => ControlInv'
<1> SUFFICES ASSUME TypeOK, ControlInv, [Next]_vars PROVE ControlInv'
    OBVIOUS
<1>a. /\ state \in {"created", "running", "stopping", "stopped"}
      /\ workerPc \in [Workers -> {"unborn", "idle", "taken", "handling", "returned",
                                   "exited"}]
      /\ stopPc \in [Stoppers -> {"idle", "closing", "selecting", "drained", "expired",
                                  "cancelling", "stopping", "cancelWork", "signalling",
                                  "failing"} \union Over]
      /\ queueState \in {"open", "closed", "panicked"}
      /\ workersDone \in BOOLEAN
    BY DEF TypeOK, TypeControl, TypeWorkers, TypeCallers, Over
<1>b. PICK w0 : w0 \in Workers
    BY WorkersAssumption
<1> USE <1>a
<1>1. CASE Start
    <2>1. \A w \in Workers : workerPc[w] # "exited"
        BY <1>1 DEF Start, ControlInv, Unborn
    <2>2. ~workersDone
        BY <2>1, <1>b DEF ControlInv
    <2>3. /\ state = "created" /\ state' = "running" /\ groupPc' = "waiting"
          /\ \A w \in Workers : workerPc'[w] = "idle"
          /\ UNCHANGED <<queueState, queue, workersDone, stopPc>>
        BY <1>1 DEF Start, queueVars, stopVars
    <2> QED
        BY <2>2, <2>3 DEF ControlInv, QueueInv, QueueNeverPanics, Unborn, Stopping
<1>2. ASSUME NEW id \in Ops, NEW n, NEW k, SubmitAccepted(id, n, k) PROVE ControlInv'
    <2>1. /\ state = "running"
          /\ UNCHANGED <<state, queueState, workerPc, workersDone, groupPc, stopPc>>
        <3>1. state = "running"
            BY <1>2 DEF SubmitAccepted, MayCreate
        <3>2. queueState' = queueState
            BY <1>2, <3>1 DEF SubmitAccepted, SendToQueue, ControlInv, QueueInv
        <3> QED
            BY <1>2, <3>1, <3>2 DEF SubmitAccepted, workerVars, endVars, stopVars
    <2> QED
        BY <2>1 DEF ControlInv, QueueInv, QueueNeverPanics, Unborn
<1>3. ASSUME NEW w \in Workers, Receive(w) PROVE ControlInv'
    <2>1. /\ workerPc[w] = "idle" /\ queue # <<>>
          /\ workerPc' = [workerPc EXCEPT ![w] = "taken"]
          /\ UNCHANGED <<state, queueState, workersDone, groupPc, stopPc>>
        BY <1>3 DEF Receive, endVars, stopVars
    <2> QED
        BY <2>1 DEF ControlInv, QueueInv, QueueNeverPanics, Unborn
<1>4. ASSUME NEW w \in Workers, WorkerExit(w) PROVE ControlInv'
    <2>1. /\ workerPc[w] = "idle" /\ queue = <<>> /\ queueState # "open"
          /\ workerPc' = [workerPc EXCEPT ![w] = "exited"]
          /\ UNCHANGED <<state, queueState, queue, workersDone, groupPc, stopPc>>
        BY <1>4 DEF WorkerExit, queueVars, endVars, stopVars
    <2> QED
        BY <2>1 DEF ControlInv, QueueInv, QueueNeverPanics, Unborn
<1>5. ASSUME NEW w \in Workers, RunSkip(w) \/ RunBegin(w) \/ Finish(w)
                                  \/ \E ok \in BOOLEAN : HandlerReturn(w, ok)
      PROVE ControlInv'
    <2>1. /\ workerPc[w] \in {"taken", "handling", "returned"}
          /\ \E pc \in {"idle", "handling", "returned"} :
                workerPc' = [workerPc EXCEPT ![w] = pc]
          /\ UNCHANGED <<state, queueState, queue, workersDone, groupPc, stopPc>>
        BY <1>5 DEF RunSkip, RunBegin, Finish, FinishOperation, HandlerReturn, queueVars,
                    endVars, stopVars
    <2> QED
        BY <2>1 DEF ControlInv, QueueInv, QueueNeverPanics, Unborn
<1>6. CASE GroupStep
    <2>1. UNCHANGED <<state, queueState, queue, workerPc, stopPc>>
        BY <1>6 DEF GroupStep, queueVars, workerVars, stopVars
    <2>2. \A w \in Workers : workerPc[w] = "exited"
        BY <1>6 DEF GroupStep, ControlInv
    <2>3. workersDone => workersDone'
        BY <1>6 DEF GroupStep
    <2> QED
        BY <2>1, <2>2, <2>3 DEF ControlInv, QueueInv, QueueNeverPanics, Unborn
<1>7. ASSUME StopAccepting, state # "created",
             UNCHANGED <<queue, workerPc, workersDone, groupPc>>,
             UNCHANGED stopPc \/ \E s \in Stoppers : stopPc' = [stopPc EXCEPT ![s] = "selecting"]
      PROVE ControlInv'
    BY <1>7 DEF StopAccepting, CloseQueue, ControlInv, QueueInv, QueueNeverPanics, Unborn
<1>8. CASE WatcherStep
    <2>1. UNCHANGED <<queue, workerPc, workersDone, groupPc, stopPc>>
        BY <1>8 DEF WatcherStep, workerVars, stopVars
    <2>2. CASE StopAccepting
        <3>1. CASE state = "created"
            BY <2>1, <2>2, <3>1, ControlFrame DEF StopAccepting, stopControl
        <3> QED
            BY <2>1, <2>2, <3>1, <1>7
    <2>3. CASE UNCHANGED <<state, queueState>>
        BY <2>1, <2>3, ControlFrame DEF stopControl
    <2> QED
        BY <1>8, <2>2, <2>3 DEF WatcherStep
<1>9. ASSUME NEW s \in Stoppers, ShutdownBegin(s) PROVE ControlInv'
    <2>1. UNCHANGED <<state, queueState, queue, workerPc, workersDone, groupPc>>
        BY <1>9 DEF ShutdownBegin, queueVars, workerVars, endVars
    <2> QED
        BY <1>9, <2>1 DEF ShutdownBegin, ControlInv, QueueInv, QueueNeverPanics, Unborn, Stopping
<1>10. ASSUME NEW s \in Stoppers, ShutdownCloses(s) PROVE ControlInv'
    <2>1. /\ StopAccepting
          /\ UNCHANGED <<queue, workerPc, workersDone, groupPc>>
          /\ stopPc' = [stopPc EXCEPT ![s] = "selecting"]
        BY <1>10 DEF ShutdownCloses, workerVars, endVars
    <2>2. state # "created"
        BY <1>10 DEF ShutdownCloses, ControlInv
    <2> QED
        BY <2>1, <2>2, <1>7
<1>11. ASSUME NEW s \in Stoppers, ShutdownSelects(s) PROVE ControlInv'
    <2>1. UNCHANGED <<state, queueState, queue, workerPc, workersDone, groupPc>>
        BY <1>11 DEF ShutdownSelects, queueVars, workerVars, endVars
    <2> QED
        BY <1>11, <2>1 DEF ShutdownSelects, ControlInv, QueueInv, QueueNeverPanics, Unborn, Stopping
<1>12. ASSUME NEW s \in Stoppers,
              ShutdownDrained(s) \/ CancelUnfinished(s) \/ CancelCollected(s) \/ ShutdownExpired(s)
       PROVE ControlInv'
    <2>1. UNCHANGED <<queueState, queue, workerPc, workersDone, groupPc>>
        BY <1>12 DEF ShutdownDrained, CancelUnfinished, CancelOperations, CancelCollected,
                     ShutdownExpired, queueVars, workerVars, endVars
    <2>2. stopPc[s] \in Stopping /\ state' \in {state, "stopped"}
        BY <1>12 DEF ShutdownDrained, CancelUnfinished, CancelOperations, CancelCollected,
                     ShutdownExpired, Stopping
    <2>3. \E pc \in {"cancelling", "stopping", "cancelWork", "signalling", "failing", "returned", "failed"} :
             stopPc' = [stopPc EXCEPT ![s] = pc]
        BY <1>12 DEF ShutdownDrained, CancelUnfinished, CancelOperations, CancelCollected,
                     ShutdownExpired
    <2>4. state \in {"stopping", "stopped"} /\ state' \in {"stopping", "stopped"}
        BY <2>2 DEF ControlInv
    <2> QED
        BY <2>1, <2>3, <2>4 DEF ControlInv, QueueInv, QueueNeverPanics, Unborn, Stopping
<1>13. ASSUME NEW n, Handle(n) \/ \E k : SubmitDuplicate(n, k)
                               \/ \E id \in Ops : SubmitQueueFull(id, n, k)
       PROVE UNCHANGED stopControl
    <2>1. ASSUME NEW id \in Ops, NEW k, SubmitQueueFull(id, n, k) PROVE UNCHANGED stopControl
        <3>1. queueState' = queueState
            BY <2>1 DEF SubmitQueueFull, MayCreate, SendToQueue, ControlInv, QueueInv
        <3> QED
            BY <2>1, <3>1 DEF SubmitQueueFull, stopControl, workerVars, endVars, stopVars
    <2> QED
        BY <1>13, <2>1 DEF Handle, SubmitDuplicate, stopControl, queueVars, workerVars,
                           endVars, stopVars
<1>14. ASSUME NEW c \in Clients, ClientStep(c) PROVE UNCHANGED stopControl
    BY <1>14 DEF ClientStep, Cancel, CancelContext, WaitReturn, WaitGivesUp, WaitBegin,
                 stopControl, queueVars, workerVars, endVars, stopVars
<1>15. ASSUME NEW o \in Ops, TaskTimeout(o) \/ \E p \in Reports : ReportProgress(o, p)
       PROVE UNCHANGED stopControl
    BY <1>15 DEF TaskTimeout, ReportProgress, stopControl, queueVars, workerVars, endVars,
                 stopVars
<1>16. CASE ParentEnds \/ UNCHANGED vars
    <2>1. UNCHANGED stopControl
        BY <1>16 DEF ParentEnds, vars, stopControl, queueVars, workerVars, endVars, stopVars
    <2> QED
        BY <2>1, ControlFrame
<1> QED
    BY <1>1, <1>2, <1>3, <1>4, <1>5, <1>6, <1>8, <1>9, <1>10, <1>11, <1>12, <1>13, <1>14,
       <1>15, <1>16, ControlFrame
       DEF Next, SubmitStep, WorkerStep, ShutdownStep, Rest

--------------------------------------------------------------------------------
\* Nothing is left open once the executor has stopped.

\* When every worker has left, every operation is settled: the workers left an
\* empty queue behind, and nobody holds anything.
LEMMA DrainedIsSettled ==
    ASSUME TypeOK, ControlInv, Holding, \A w \in Workers : workerPc[w] = "exited"
    PROVE  AllSettled /\ state \in {"stopping", "stopped"}
<1>1. PICK w0 \in Workers : workerPc[w0] = "exited"
    BY WorkersAssumption
<1>2. queueState # "open" /\ queue = <<>>
    BY <1>1 DEF ControlInv
<1>3. \A o \in Ops : ~InQueue(o) /\ \A w \in Workers : ~Holds(w, o)
    BY <1>2 DEF InQueue, Holds
<1>4. \A o \in Ops : status[o] \notin {"pending", "running"}
    BY <1>3 DEF Holding, NobodyForgotten
<1>5. state \in {"stopping", "stopped"}
    BY <1>2 DEF ControlInv, QueueInv, TypeOK, TypeControl
<1> QED
    BY <1>4, <1>5 DEF AllSettled, TypeOK, TypeOps, Status

SettlingInv ==
    /\ SettledWhenStopped
    /\ baseDone => AllSettled /\ state \in {"stopping", "stopped"}
    /\ \A s \in Stoppers :
         stopPc[s] \in {"cancelling", "stopping", "cancelWork", "signalling", "failing"} => AllSettled

\* An executor that no longer accepts work and has nothing open stays that way.
LEMMA SettledStays ==
    ASSUME TypeOK, Holding, AllSettled, state # "running", [Next]_vars
    PROVE  AllSettled'
<1>a. /\ status \in [Ops -> Status]
      /\ \A w \in Workers : workerPc[w] \in {"taken", "handling", "returned"}
                              => workerOp[w] \in Ops
      /\ \A o \in Ops : status[o] \in Terminal \union {"absent"}
    BY DEF TypeOK, TypeOps, TypeWorkers, AllSettled
<1> USE <1>a
<1>1. ASSUME NEW w \in Workers, WorkerStep(w) PROVE UNCHANGED status
    <2>1. ~RunBegin(w)
        BY DEF RunBegin, Terminal
    <2>2. CASE Finish(w)
        <3>1. status[workerOp[w]] \in {"running", "cancelled"}
            BY <2>2 DEF Finish, FinishOperation, Holding, InFlight
        <3>2. IsTerminal(workerOp[w])
            BY <2>2, <3>1 DEF Finish, FinishOperation, IsTerminal, Terminal
        <3> QED
            BY <2>2, <3>2 DEF Finish, FinishOperation
    <2> QED
        BY <1>1, <2>1, <2>2 DEF WorkerStep, Receive, WorkerExit, RunSkip, HandlerReturn,
                                opVars
<1>2. ASSUME NEW id \in Ops, NEW n, NEW k PROVE ~SubmitAccepted(id, n, k)
    BY DEF SubmitAccepted, MayCreate
<1>3. ASSUME NEW id \in Ops, NEW n, NEW k PROVE ~SubmitQueueFull(id, n, k)
    BY DEF SubmitQueueFull, MayCreate
<1>4. ASSUME NEW n, Handle(n) \/ \E k : SubmitDuplicate(n, k) PROVE UNCHANGED status
    BY <1>4 DEF Handle, SubmitDuplicate, opVars
<1>5. ASSUME NEW c \in Clients, ClientStep(c) PROVE UNCHANGED status
    <2>1. \A o \in Ops : ~Cancel(c, o)
        BY DEF Cancel, Terminal
    <2> QED
        BY <1>5, <2>1 DEF ClientStep, CancelContext, WaitBegin, WaitReturn, WaitGivesUp,
                          opVars
<1>6. ASSUME NEW o \in Ops, TaskTimeout(o) \/ \E p \in Reports : ReportProgress(o, p)
      PROVE UNCHANGED status
    BY <1>6 DEF TaskTimeout, ReportProgress, opVars
<1>7. ASSUME NEW s \in Stoppers, CancelUnfinished(s) PROVE AllSettled'
    BY <1>7 DEF CancelUnfinished, CancelOperations, Unfinished, Settle, AllSettled, Terminal
<1>8. ASSUME NEW s \in Stoppers,
             \/ ShutdownBegin(s) \/ ShutdownCloses(s) \/ ShutdownSelects(s)
             \/ ShutdownDrained(s) \/ CancelCollected(s) \/ ShutdownExpired(s)
      PROVE UNCHANGED status
    BY <1>8 DEF ShutdownBegin, ShutdownCloses, ShutdownSelects, ShutdownDrained,
                CancelCollected, ShutdownExpired, opVars
<1>9. CASE Start \/ GroupStep \/ ParentEnds \/ WatcherStep \/ UNCHANGED vars
    BY <1>9 DEF Start, GroupStep, ParentEnds, WatcherStep, vars, opVars, AllSettled
<1>10. CASE UNCHANGED status
    BY <1>10 DEF AllSettled
<1> QED
    BY <1>1, <1>2, <1>3, <1>4, <1>5, <1>6, <1>7, <1>8, <1>9, <1>10
       DEF Next, SubmitStep, ShutdownStep, Rest

\* Every step keeps what Shutdown relies on before it sets the state to stopped.
LEMMA SettlingStep ==
    TypeOK /\ ControlInv /\ Holding /\ SettlingInv /\ [Next]_vars => SettlingInv'
<1> SUFFICES ASSUME TypeOK, ControlInv, Holding, SettlingInv, [Next]_vars
             PROVE  SettlingInv'
    OBVIOUS
<1> DEFINE late == {"cancelling", "stopping", "cancelWork", "signalling", "failing"}
<1>a. stopPc \in [Stoppers -> {"idle", "closing", "selecting", "drained", "expired",
                               "cancelling", "stopping", "cancelWork", "signalling",
                               "failing"} \union Over]
    BY DEF TypeOK, TypeCallers
<1> USE <1>a
<1>b. ASSUME NEW s \in Stoppers, stopPc[s] \in late
      PROVE AllSettled /\ state \in {"stopping", "stopped"}
    BY <1>b DEF SettlingInv, ControlInv, Stopping
\* A step that brings nobody further towards the end of Shutdown.
<1>1. ASSUME state' = "stopped" => state = "stopped", baseDone' => baseDone,
             \A s \in Stoppers : stopPc'[s] \in late => stopPc[s] \in late,
             state \in {"stopping", "stopped"} => state' \in {"stopping", "stopped"}
      PROVE SettlingInv'
    <2>1. state' = "stopped" => AllSettled'
        BY <1>1, SettledStays DEF SettlingInv, SettledWhenStopped
    <2>2. baseDone' => AllSettled' /\ state' \in {"stopping", "stopped"}
        BY <1>1, SettledStays DEF SettlingInv
    <2>3. ASSUME NEW s \in Stoppers, stopPc'[s] \in late PROVE AllSettled'
        BY <1>1, <1>b, <2>3, SettledStays
    <2> QED
        BY <2>1, <2>2, <2>3 DEF SettlingInv, SettledWhenStopped
\* A step after which nothing is open.
<1>2. ASSUME AllSettled', state' \in {"stopping", "stopped"} PROVE SettlingInv'
    BY <1>2 DEF SettlingInv, SettledWhenStopped
<1>3. CASE GroupStep
    <2>1. \A w \in Workers : workerPc[w] = "exited"
        BY <1>3 DEF GroupStep, ControlInv
    <2>2. AllSettled /\ state \in {"stopping", "stopped"}
        BY <2>1, DrainedIsSettled
    <2>3. UNCHANGED state
        BY <1>3 DEF GroupStep
    <2> QED
        BY <2>2, <2>3, <1>2, SettledStays
<1>4. ASSUME NEW s \in Stoppers, ShutdownDrained(s) PROVE SettlingInv'
    <2>1. \A w \in Workers : workerPc[w] = "exited"
        BY <1>4 DEF ShutdownDrained, ControlInv
    <2>2. AllSettled /\ state \in {"stopping", "stopped"}
        BY <2>1, DrainedIsSettled
    <2>3. state' = "stopped"
        BY <1>4 DEF ShutdownDrained
    <2> QED
        BY <2>2, <2>3, <1>2, SettledStays
<1>5. ASSUME NEW s \in Stoppers, CancelUnfinished(s) PROVE SettlingInv'
    <2>1. AllSettled'
        BY <1>5 DEF CancelUnfinished, CancelOperations, Unfinished, Settle, AllSettled,
                    Terminal, TypeOK, TypeOps, Status
    <2>2. state' = state /\ state \in {"stopping", "stopped"}
        BY <1>5 DEF CancelUnfinished, CancelOperations, ControlInv, Stopping
    <2> QED
        BY <2>1, <2>2, <1>2
<1>6. ASSUME NEW s \in Stoppers, CancelCollected(s) \/ ShutdownExpired(s) PROVE SettlingInv'
    <2>1. stopPc[s] \in late /\ state' \in {state, "stopped"}
        BY <1>6 DEF CancelCollected, ShutdownExpired
    <2>2. AllSettled /\ state \in {"stopping", "stopped"}
        BY <2>1, <1>b
    <2> QED
        BY <2>1, <2>2, <1>2, SettledStays
<1>7. ASSUME NEW s \in Stoppers, ShutdownBegin(s) PROVE SettlingInv'
    BY <1>7, <1>1 DEF ShutdownBegin
<1>8. ASSUME NEW s \in Stoppers, ShutdownCloses(s) PROVE SettlingInv'
    BY <1>8, <1>1 DEF ShutdownCloses, StopAccepting
<1>9. ASSUME NEW s \in Stoppers, ShutdownSelects(s) PROVE SettlingInv'
    BY <1>9, <1>1 DEF ShutdownSelects
<1>10. CASE Start
    BY <1>10, <1>1 DEF Start, stopVars
<1>11. CASE WatcherStep
    BY <1>11, <1>1 DEF WatcherStep, StopAccepting, stopVars
<1>12. CASE UNCHANGED <<state, baseDone, stopPc>>
    BY <1>12, <1>1
<1>13. ASSUME NEW n, Handle(n) \/ \E k : SubmitDuplicate(n, k)
              \/ \E id \in Ops : SubmitAccepted(id, n, k) \/ SubmitQueueFull(id, n, k)
       PROVE UNCHANGED <<state, baseDone, stopPc>>
    BY <1>13 DEF Handle, SubmitDuplicate, SubmitAccepted, SubmitQueueFull, stopVars
<1>14. ASSUME NEW c \in Clients, ClientStep(c) PROVE UNCHANGED <<state, baseDone, stopPc>>
    BY <1>14 DEF ClientStep, Cancel, CancelContext, WaitBegin, WaitReturn, WaitGivesUp,
                 stopVars
<1>15. ASSUME NEW w \in Workers, WorkerStep(w) PROVE UNCHANGED <<state, baseDone, stopPc>>
    BY <1>15 DEF WorkerStep, Receive, WorkerExit, RunSkip, RunBegin, HandlerReturn, Finish,
                 FinishOperation, stopVars
<1>16. ASSUME NEW o \in Ops, TaskTimeout(o) \/ \E p \in Reports : ReportProgress(o, p)
       PROVE UNCHANGED <<state, baseDone, stopPc>>
    BY <1>16 DEF TaskTimeout, ReportProgress, stopVars
<1>17. CASE ParentEnds \/ UNCHANGED vars
    BY <1>17, <1>12 DEF ParentEnds, vars, stopVars
<1> QED
    BY <1>3, <1>4, <1>5, <1>6, <1>7, <1>8, <1>9, <1>10, <1>11, <1>12, <1>13, <1>14, <1>15,
       <1>16, <1>17
       DEF Next, SubmitStep, ShutdownStep, Rest

--------------------------------------------------------------------------------
\* Cancellation reaches the context only after it is recorded.

CancelRecorded ==
    /\ CancelledContextMeansCancelled
    /\ \A w \in Workers :
         workerPc[w] = "handling" /\ jobContext[workerOp[w]] = "cancelled"
           => status[workerOp[w]] = "cancelled"
    /\ \A c \in Clients : clientPc[c] = "cancelling" => status[clientOp[c]] = "cancelled"
    /\ \A s \in Stoppers : \A o \in cancellations[s] : status[o] = "cancelled"

\* A cancelled operation stays cancelled.
LEMMA CancelledStays ==
    ASSUME TypeOK, [Next]_vars, NEW o \in Ops, status[o] = "cancelled"
    PROVE  status'[o] = "cancelled"
<1>a. status \in [Ops -> Status]
    BY DEF TypeOK, TypeOps
<1> USE <1>a
<1>1. ASSUME NEW w \in Workers, WorkerStep(w) PROVE status'[o] = "cancelled"
    <2>1. CASE RunBegin(w)
        BY <2>1 DEF RunBegin
    <2>2. CASE Finish(w)
        BY <2>2 DEF Finish, FinishOperation, Settle, IsTerminal, Terminal
    <2> QED
        BY <1>1, <2>1, <2>2 DEF WorkerStep, Receive, WorkerExit, RunSkip, HandlerReturn,
                                opVars
<1>2. CASE SubmitStep
    BY <1>2 DEF SubmitStep, SubmitDuplicate, SubmitAccepted, SubmitQueueFull, MayCreate,
                opVars
<1>3. ASSUME NEW c \in Clients, ClientStep(c) PROVE status'[o] = "cancelled"
    BY <1>3 DEF ClientStep, Cancel, Settle, CancelContext, WaitBegin, WaitReturn,
                WaitGivesUp, opVars
<1>4. ASSUME NEW p \in Ops, TaskTimeout(p) \/ \E r \in Reports : ReportProgress(p, r)
      PROVE status'[o] = "cancelled"
    BY <1>4 DEF TaskTimeout, ReportProgress, opVars
<1>5. ASSUME NEW s \in Stoppers, ShutdownStep(s) PROVE status'[o] = "cancelled"
    BY <1>5 DEF ShutdownStep, ShutdownBegin, ShutdownCloses, ShutdownSelects,
                ShutdownDrained, CancelUnfinished, CancelOperations, Settle,
                CancelCollected, ShutdownExpired, opVars
<1>6. ASSUME NEW n, Handle(n) PROVE status'[o] = "cancelled"
    BY <1>6 DEF Handle, opVars
<1>7. CASE Start \/ GroupStep \/ ParentEnds \/ WatcherStep \/ UNCHANGED vars
    BY <1>7 DEF Start, GroupStep, ParentEnds, WatcherStep, vars, opVars
<1> QED
    BY <1>1, <1>2, <1>3, <1>4, <1>5, <1>6, <1>7 DEF Next, Rest

\* Every step keeps a cancelled context with a cancelled operation.
LEMMA CancelStep ==
    TypeOK /\ ControlInv /\ Holding /\ SettlingInv /\ CancelRecorded /\ [Next]_vars
        => CancelRecorded'
<1> SUFFICES ASSUME TypeOK, ControlInv, Holding, SettlingInv, CancelRecorded, [Next]_vars
             PROVE  CancelRecorded'
    OBVIOUS
<1>a. /\ status \in [Ops -> Status]
      /\ jobContext \in [Ops -> {"none", "live", "cancelled", "deadline"}]
      /\ workerPc \in [Workers -> {"unborn", "idle", "taken", "handling", "returned",
                                   "exited"}]
      /\ workerOp \in [Workers -> Ops \union {NoOp}]
      /\ \A w \in Workers : workerPc[w] \in {"taken", "handling", "returned"}
                              => workerOp[w] \in Ops
      /\ outcome \in [Workers -> {"none", "ok", "error", "cancelled", "deadline"}]
      /\ clientPc \in [Clients -> {"idle", "cancelling", "waiting"}]
      /\ clientOp \in [Clients -> Ops \union {NoOp}]
      /\ \A c \in Clients : clientPc[c] # "idle" => clientOp[c] \in Ops
      /\ cancellations \in [Stoppers -> SUBSET Ops]
    BY DEF TypeOK, TypeOps, TypeWorkers, TypeCallers
<1>b. \A o \in Ops : status[o] = "cancelled" => status'[o] = "cancelled"
    BY CancelledStays
<1> DEFINE Settles == \A w \in Workers :
               workerPc[w] = "handling" => status[workerOp[w]] \in {"running", "cancelled"}
<1>c. Settles
    BY DEF Holding, InFlight
<1> HIDE DEF Settles
<1> USE <1>a
\* Steps of the clients and of Shutdown: the workers do not move, and a context
\* that is cancelled belongs to an operation recorded as cancelled.
<1>1. ASSUME UNCHANGED workerVars,
             \A o \in Ops : jobContext'[o] = "cancelled" =>
                 \/ jobContext[o] = "cancelled"
                 \/ status[o] = "cancelled"
                 \/ \A w \in Workers : ~(workerPc[w] = "handling" /\ workerOp[w] = o),
             \A c \in Clients : clientPc'[c] = "cancelling"
                 => clientOp'[c] \in Ops /\ status'[clientOp'[c]] = "cancelled",
             \A s \in Stoppers : \A o \in cancellations'[s] : status'[o] = "cancelled"
      PROVE CancelRecorded'
    <2>1. UNCHANGED <<workerPc, workerOp, outcome>>
        BY <1>1 DEF workerVars
    <2>2. CancelledContextMeansCancelled'
        BY <2>1, <1>b DEF CancelRecorded, CancelledContextMeansCancelled
    <2>3. ASSUME NEW w \in Workers, workerPc'[w] = "handling",
                 jobContext'[workerOp'[w]] = "cancelled"
          PROVE status'[workerOp'[w]] = "cancelled"
        BY <2>1, <2>3, <1>1, <1>b DEF CancelRecorded
    <2> QED
        BY <1>1, <2>2, <2>3 DEF CancelRecorded
<1>d. ASSUME UNCHANGED clientVars PROVE \A c \in Clients : clientPc'[c] = "cancelling"
                 => clientOp'[c] \in Ops /\ status'[clientOp'[c]] = "cancelled"
    BY <1>d, <1>b DEF CancelRecorded, clientVars
<1>e. ASSUME UNCHANGED stopVars
      PROVE \A s \in Stoppers : \A o \in cancellations'[s] : status'[o] = "cancelled"
    BY <1>e, <1>b DEF CancelRecorded, stopVars
<1>2. ASSUME NEW c \in Clients, NEW o \in Ops, Cancel(c, o) PROVE CancelRecorded'
    <2>1. status'[o] = "cancelled"
        BY <1>2 DEF Cancel, Settle
    <2>2. \A d \in Clients : clientPc'[d] = "cancelling"
                 => clientOp'[d] \in Ops /\ status'[clientOp'[d]] = "cancelled"
        BY <1>2, <2>1, <1>b DEF Cancel, clientVars, CancelRecorded
    <2>3. UNCHANGED <<workerVars, jobContext, stopVars>>
        BY <1>2 DEF Cancel
    <2> QED
        BY <2>2, <2>3, <1>1, <1>e
<1>3. ASSUME NEW c \in Clients, CancelContext(c) PROVE CancelRecorded'
    <2>1. status[clientOp[c]] = "cancelled"
        BY <1>3 DEF CancelContext, CancelRecorded
    <2>2. \A o \in Ops : jobContext'[o] = "cancelled" =>
              jobContext[o] = "cancelled" \/ status[o] = "cancelled"
        BY <1>3, <2>1 DEF CancelContext, CancelContexts
    <2>3. \A d \in Clients : clientPc'[d] = "cancelling"
                 => clientOp'[d] \in Ops /\ status'[clientOp'[d]] = "cancelled"
        BY <1>3, <1>b DEF CancelContext, CancelRecorded
    <2>4. UNCHANGED <<workerVars, stopVars>>
        BY <1>3 DEF CancelContext
    <2> QED
        BY <2>2, <2>3, <2>4, <1>1, <1>e
<1>4. ASSUME NEW c \in Clients,
             WaitReturn(c) \/ WaitGivesUp(c) \/ \E o \in Ops : WaitBegin(c, o)
      PROVE CancelRecorded'
    <2>1. \A d \in Clients : clientPc'[d] = "cancelling"
                 => clientOp'[d] \in Ops /\ status'[clientOp'[d]] = "cancelled"
        BY <1>4, <1>b DEF WaitReturn, WaitGivesUp, WaitBegin, CancelRecorded
    <2>2. UNCHANGED <<workerVars, jobContext, stopVars>>
        BY <1>4 DEF WaitReturn, WaitGivesUp, WaitBegin
    <2> QED
        BY <2>1, <2>2, <1>1, <1>e
<1>5. ASSUME NEW s \in Stoppers, CancelUnfinished(s) PROVE CancelRecorded'
    <2>1. \A o \in Unfinished : status'[o] = "cancelled"
        BY <1>5 DEF CancelUnfinished, CancelOperations, Settle, Unfinished
    <2>2. \A t \in Stoppers : \A o \in cancellations'[t] : status'[o] = "cancelled"
        BY <1>5, <2>1, <1>b DEF CancelUnfinished, CancelOperations, CancelRecorded
    <2>3. UNCHANGED <<workerVars, jobContext, clientVars>>
        BY <1>5 DEF CancelUnfinished, CancelOperations
    <2> QED
        BY <2>2, <2>3, <1>1, <1>d
<1>6. ASSUME NEW s \in Stoppers, CancelCollected(s) PROVE CancelRecorded'
    <2>1. \A o \in Ops : jobContext'[o] = "cancelled" =>
              jobContext[o] = "cancelled" \/ status[o] = "cancelled"
        BY <1>6 DEF CancelCollected, CancelContexts, CancelRecorded
    <2>2. \A t \in Stoppers : \A o \in cancellations'[t] : status'[o] = "cancelled"
        BY <1>6, <1>b DEF CancelCollected, CancelRecorded
    <2>3. UNCHANGED <<workerVars, clientVars>>
        BY <1>6 DEF CancelCollected
    <2> QED
        BY <2>1, <2>2, <2>3, <1>1, <1>d
<1>7. ASSUME NEW s \in Stoppers, ShutdownExpired(s) PROVE CancelRecorded'
    <2>1. AllSettled
        BY <1>7 DEF ShutdownExpired, SettlingInv
    <2>2. \A w \in Workers : workerPc[w] = "handling" => status[workerOp[w]] = "cancelled"
        BY <2>1, <1>c DEF Settles, AllSettled, Terminal
    <2>3. UNCHANGED <<workerVars, clientVars, cancellations>>
        BY <1>7 DEF ShutdownExpired
    <2>4. \A t \in Stoppers : \A o \in cancellations'[t] : status'[o] = "cancelled"
        BY <2>3, <1>b DEF CancelRecorded
    <2> QED
        BY <2>2, <2>3, <2>4, <1>1, <1>d
<1>8. CASE GroupStep
    <2>1. \A w \in Workers : workerPc[w] = "exited"
        BY <1>8 DEF GroupStep, ControlInv
    <2>2. UNCHANGED <<workerVars, clientVars, stopVars>>
        BY <1>8 DEF GroupStep
    <2> QED
        BY <2>1, <2>2, <1>1, <1>d, <1>e
<1>9. ASSUME NEW o \in Ops, TaskTimeout(o) \/ \E p \in Reports : ReportProgress(o, p)
      PROVE CancelRecorded'
    <2>1. \A p \in Ops : jobContext'[p] = "cancelled" => jobContext[p] = "cancelled"
        BY <1>9 DEF TaskTimeout, ReportProgress
    <2>2. UNCHANGED <<workerVars, clientVars, stopVars>>
        BY <1>9 DEF TaskTimeout, ReportProgress
    <2> QED
        BY <2>1, <2>2, <1>1, <1>d, <1>e
<1>10. CASE UNCHANGED <<workerVars, jobContext, clientVars, cancellations>>
    <2>1. \A t \in Stoppers : \A o \in cancellations'[t] : status'[o] = "cancelled"
        BY <1>10, <1>b DEF CancelRecorded
    <2> QED
        BY <1>10, <2>1, <1>1, <1>d
\* Steps of the workers: what the clients and Shutdown hold does not move.
<1>11. ASSUME UNCHANGED <<clientVars, stopVars>>,
              \A w \in Workers : workerPc'[w] = "returned" /\ outcome'[w] = "cancelled"
                  => status'[workerOp'[w]] = "cancelled",
              \A w \in Workers : workerPc'[w] = "handling" /\ jobContext'[workerOp'[w]] = "cancelled"
                  => status'[workerOp'[w]] = "cancelled"
       PROVE CancelRecorded'
    <2>1. CancelledContextMeansCancelled'
        BY <1>11 DEF CancelledContextMeansCancelled
    <2> QED
        BY <1>11, <2>1, <1>d, <1>e DEF CancelRecorded
<1>12. CASE Start
    BY <1>12, <1>11 DEF Start
<1>13. ASSUME NEW w \in Workers, Receive(w) \/ WorkerExit(w) \/ RunSkip(w)
       PROVE CancelRecorded'
    <2>1. UNCHANGED <<clientVars, stopVars, jobContext, status, outcome>>
        BY <1>13 DEF Receive, WorkerExit, RunSkip, opVars
    <2>2. workerPc'[w] \in {"taken", "exited", "idle"}
        BY <1>13 DEF Receive, WorkerExit, RunSkip
    <2>3. \A v \in Workers \ {w} : workerPc'[v] = workerPc[v] /\ workerOp'[v] = workerOp[v]
        BY <1>13 DEF Receive, WorkerExit, RunSkip
    <2> QED
        BY <2>1, <2>2, <2>3, <1>11 DEF CancelRecorded, CancelledContextMeansCancelled
<1>14. ASSUME NEW w \in Workers, RunBegin(w) PROVE CancelRecorded'
    <2>1. /\ workerPc[w] = "taken"
          /\ status[workerOp[w]] = "pending"
          /\ workerPc' = [workerPc EXCEPT ![w] = "handling"]
          /\ UNCHANGED <<clientVars, stopVars, workerOp, outcome>>
        BY <1>14 DEF RunBegin
    <2>2. ~baseDone
        BY <2>1 DEF SettlingInv, AllSettled, Terminal
    <2>3. jobContext' = [jobContext EXCEPT ![workerOp[w]] = "live"]
        BY <1>14, <2>2 DEF RunBegin
    <2>4. \A v \in Workers : v # w /\ workerPc[v] \in {"handling", "returned"}
              => workerOp[v] # workerOp[w]
        BY <2>1 DEF Holding, DeliveredOnce, Holds
    <2> QED
        BY <2>1, <2>3, <2>4, <1>b, <1>11 DEF CancelRecorded, CancelledContextMeansCancelled
<1>15. ASSUME NEW w \in Workers, NEW ok \in BOOLEAN, HandlerReturn(w, ok)
       PROVE CancelRecorded'
    <2>1. /\ workerPc[w] = "handling"
          /\ workerPc' = [workerPc EXCEPT ![w] = "returned"]
          /\ UNCHANGED <<clientVars, stopVars, workerOp, status>>
          /\ \A o \in Ops \ {workerOp[w]} : jobContext'[o] = jobContext[o]
          /\ \A v \in Workers \ {w} : outcome'[v] = outcome[v]
        BY <1>15 DEF HandlerReturn, CancelContexts, opVars
    <2>2. outcome'[w] = "cancelled" => jobContext[workerOp[w]] = "cancelled"
        BY <1>15 DEF HandlerReturn
    <2>3. \A v \in Workers : v # w /\ workerPc[v] \in {"handling", "returned"}
              => workerOp[v] # workerOp[w]
        BY <2>1 DEF Holding, DeliveredOnce, Holds
    <2> QED
        BY <2>1, <2>2, <2>3, <1>11 DEF CancelRecorded, CancelledContextMeansCancelled
<1>16. ASSUME NEW w \in Workers, Finish(w) PROVE CancelRecorded'
    <2>1. /\ workerPc' = [workerPc EXCEPT ![w] = "idle"]
          /\ workerOp' = [workerOp EXCEPT ![w] = NoOp]
          /\ outcome' = [outcome EXCEPT ![w] = "none"]
          /\ UNCHANGED <<clientVars, stopVars, jobContext>>
        BY <1>16 DEF Finish, FinishOperation
    <2> QED
        BY <2>1, <1>b, <1>11 DEF CancelRecorded, CancelledContextMeansCancelled
<1> DEFINE quiet == <<workerVars, jobContext, clientVars, cancellations>>
<1>17. ASSUME NEW n, Handle(n) \/ \E k : SubmitDuplicate(n, k)
              \/ \E id \in Ops : SubmitAccepted(id, n, k) \/ SubmitQueueFull(id, n, k)
       PROVE UNCHANGED quiet
    BY <1>17 DEF Handle, SubmitDuplicate, SubmitAccepted, SubmitQueueFull, stopVars
<1>18. ASSUME NEW s \in Stoppers, ShutdownBegin(s) \/ ShutdownCloses(s)
                                    \/ ShutdownSelects(s) \/ ShutdownDrained(s)
       PROVE UNCHANGED quiet
    BY <1>18 DEF ShutdownBegin, ShutdownCloses, ShutdownSelects, ShutdownDrained, stopVars
<1>19. CASE ParentEnds \/ WatcherStep \/ UNCHANGED vars
    BY <1>19, <1>10 DEF ParentEnds, WatcherStep, vars, stopVars
<1> QED
    BY <1>2, <1>3, <1>4, <1>5, <1>6, <1>7, <1>8, <1>9, <1>10, <1>12, <1>13, <1>14, <1>15,
       <1>16, <1>17, <1>18, <1>19
       DEF Next, SubmitStep, ClientStep, WorkerStep, ShutdownStep, Rest

--------------------------------------------------------------------------------
\* The theorems.

IInv == TypeOK /\ ControlInv /\ Holding /\ SettlingInv /\ CancelRecorded

\* The inductive invariant: what each part needs of the others is in the lemmas.
LEMMA Invariant == Spec => []IInv
<1>1. Init => IInv
    <2> SUFFICES ASSUME Init PROVE IInv
        OBVIOUS
    <2>1. TypeOK
        BY InitTypes
    <2>2. ControlInv
        BY DEF Init, ControlInv, QueueInv, QueueNeverPanics, Unborn, Stopping
    <2>3. Holding
        BY DEF Init, Holding, NobodyForgotten, DeliveredOnce, InFlight, InQueue, Holds
    <2>4. SettlingInv
        BY DEF Init, SettlingInv, SettledWhenStopped
    <2>5. CancelRecorded
        BY DEF Init, CancelRecorded, CancelledContextMeansCancelled
    <2> QED
        BY <2>1, <2>2, <2>3, <2>4, <2>5 DEF IInv
<1>2. IInv /\ [Next]_vars => IInv'
    BY TypeStep, ControlStep, HoldingStep, SettlingStep, CancelStep DEF IInv, ControlInv
<1> QED
    BY <1>1, <1>2, PTL DEF Spec

\* Once Shutdown has returned, drained or expired, no operation is pending or
\* running: none that a poller would wait on for ever.
THEOREM StoppedMeansSettled == Spec => []SettledWhenStopped
BY Invariant, PTL DEF IInv, SettlingInv

\* Every open operation is in the queue or with exactly one worker, and no worker
\* gets an operation that another has or had.
THEOREM OperationsAreHeld == Spec => [](NobodyForgotten /\ DeliveredOnce)
BY Invariant, PTL DEF IInv, Holding

\* No Submit sends on the closed queue and no second stop closes it again.
THEOREM QueueIsUsedOpen == Spec => []QueueNeverPanics
BY Invariant, PTL DEF IInv, ControlInv, QueueInv

\* finish never takes a cancellation for a failure of the handler: a cancelled
\* context means that the operation has been recorded as cancelled.
THEOREM CancellationIsRecorded == Spec => []CancelledContextMeansCancelled
BY Invariant, PTL DEF IInv, CancelRecorded

\* The moves of one operation in one step of the executor.
LEMMA StatusMoves ==
    ASSUME TypeOK, Holding, [Next]_vars, NEW o \in Ops
    PROVE  \/ status'[o] = status[o]
           \/ status[o] = "absent" /\ status'[o] = "pending"
           \/ status[o] = "pending" /\ status'[o] \in {"running", "cancelled"}
           \/ status[o] = "running" /\ status'[o] \in Terminal
<1> DEFINE Moves == \/ status'[o] = status[o]
                    \/ status[o] = "absent" /\ status'[o] = "pending"
                    \/ status[o] = "pending" /\ status'[o] \in {"running", "cancelled"}
                    \/ status[o] = "running" /\ status'[o] \in Terminal
<1>a. status \in [Ops -> Status]
    BY DEF TypeOK, TypeOps
<1> USE <1>a
<1>1. ASSUME NEW w \in Workers, WorkerStep(w) PROVE Moves
    <2>1. CASE RunBegin(w)
        BY <2>1 DEF RunBegin
    <2>2. CASE Finish(w)
        <3>1. status[workerOp[w]] \in {"running", "cancelled"}
            BY <2>2 DEF Finish, FinishOperation, Holding, InFlight
        <3> QED
            BY <2>2, <3>1 DEF Finish, FinishOperation, Settle, IsTerminal, Terminal
    <2> QED
        BY <1>1, <2>1, <2>2 DEF WorkerStep, Receive, WorkerExit, RunSkip, HandlerReturn,
                                opVars
<1>2. CASE SubmitStep
    BY <1>2 DEF SubmitStep, SubmitDuplicate, SubmitAccepted, SubmitQueueFull, MayCreate,
                opVars
<1>3. ASSUME NEW c \in Clients, ClientStep(c) PROVE Moves
    BY <1>3 DEF ClientStep, Cancel, Settle, CancelContext, WaitBegin, WaitReturn,
                WaitGivesUp, opVars, Terminal
<1>4. ASSUME NEW p \in Ops, TaskTimeout(p) \/ \E r \in Reports : ReportProgress(p, r)
      PROVE Moves
    BY <1>4 DEF TaskTimeout, ReportProgress, opVars
<1>5. ASSUME NEW s \in Stoppers, ShutdownStep(s) PROVE Moves
    BY <1>5 DEF ShutdownStep, ShutdownBegin, ShutdownCloses, ShutdownSelects,
                ShutdownDrained, CancelUnfinished, CancelOperations, Unfinished, Settle,
                CancelCollected, ShutdownExpired, opVars, Terminal
<1>6. ASSUME NEW n, Handle(n) PROVE Moves
    BY <1>6 DEF Handle, opVars
<1>7. CASE Start \/ GroupStep \/ ParentEnds \/ WatcherStep \/ UNCHANGED vars
    BY <1>7 DEF Start, GroupStep, ParentEnds, WatcherStep, vars, opVars
<1> QED
    BY <1>1, <1>2, <1>3, <1>4, <1>5, <1>6, <1>7 DEF Next, Rest

\* Progress moves only while the operation runs, or with its success.
LEMMA ProgressMoves ==
    ASSUME TypeOK, [Next]_vars, NEW o \in Ops, IsTerminal(o)
    PROVE  progress'[o] = progress[o]
<1>a. progress \in [Ops -> 0..100]
    BY DEF TypeOK, TypeOps
<1> USE <1>a
<1>1. ASSUME NEW w \in Workers, WorkerStep(w) PROVE progress'[o] = progress[o]
    <2>1. CASE Finish(w)
        BY <2>1 DEF Finish, FinishOperation
    <2> QED
        BY <1>1, <2>1 DEF WorkerStep, Receive, WorkerExit, RunSkip, RunBegin, HandlerReturn,
                          opVars
<1>2. CASE SubmitStep
    BY <1>2 DEF SubmitStep, SubmitDuplicate, SubmitAccepted, SubmitQueueFull, opVars
<1>3. ASSUME NEW c \in Clients, ClientStep(c) PROVE UNCHANGED progress
    BY <1>3 DEF ClientStep, Cancel, CancelContext, WaitBegin, WaitReturn, WaitGivesUp, opVars
<1>4. ASSUME NEW p \in Ops, TaskTimeout(p) \/ \E r \in Reports : ReportProgress(p, r)
      PROVE progress'[o] = progress[o]
    BY <1>4 DEF TaskTimeout, ReportProgress, opVars, IsTerminal, Terminal
<1>5. ASSUME NEW s \in Stoppers, ShutdownStep(s) PROVE UNCHANGED progress
    BY <1>5 DEF ShutdownStep, ShutdownBegin, ShutdownCloses, ShutdownSelects,
                ShutdownDrained, CancelUnfinished, CancelOperations, CancelCollected,
                ShutdownExpired, opVars
<1>6. ASSUME NEW n, Handle(n) PROVE UNCHANGED progress
    BY <1>6 DEF Handle, opVars
<1>7. CASE Start \/ GroupStep \/ ParentEnds \/ WatcherStep \/ UNCHANGED vars
    BY <1>7 DEF Start, GroupStep, ParentEnds, WatcherStep, vars, opVars
<1> QED
    BY <1>1, <1>2, <1>3, <1>4, <1>5, <1>6, <1>7 DEF Next, Rest

\* A terminal operation keeps its status and its progress for ever, whatever
\* arrives late.
THEOREM TerminalStaysFinal == Spec => TerminalIsFinal
<1>1. IInv /\ [Next]_vars =>
        [\A o \in Ops : IsTerminal(o) =>
            status'[o] = status[o] /\ progress'[o] = progress[o]]_vars
    <2> SUFFICES ASSUME IInv, [Next]_vars, NEW o \in Ops, IsTerminal(o)
                 PROVE  status'[o] = status[o] /\ progress'[o] = progress[o]
        OBVIOUS
    <2>1. status'[o] = status[o]
        BY StatusMoves DEF IInv, IsTerminal, Terminal
    <2>2. progress'[o] = progress[o]
        BY ProgressMoves DEF IInv
    <2> QED
        BY <2>1, <2>2
<1> QED
    BY <1>1, Invariant, PTL DEF Spec, TerminalIsFinal

--------------------------------------------------------------------------------
\* What is told of an operation: its channel done, its key, and the counters.

\* The channel of an operation is closed by what settles it, and by nothing else.
LEMMA DoneStep == TypeOK /\ DoneIffTerminal /\ [Next]_vars => DoneIffTerminal'
<1> SUFFICES ASSUME TypeOK, DoneIffTerminal, [Next]_vars PROVE DoneIffTerminal'
    OBVIOUS
<1>a. /\ status \in [Ops -> Status]
      /\ done \in [Ops -> BOOLEAN]
      /\ \A w \in Workers : workerPc[w] \in {"taken", "handling", "returned"}
                              => workerOp[w] \in Ops
    BY DEF TypeOK, TypeOps, TypeWorkers
<1>b. CASE UNCHANGED <<status, done>>
    BY <1>b DEF DoneIffTerminal, IsTerminal
<1>c. ASSUME NEW S \in SUBSET Ops, NEW st \in Terminal, Settle(S, st) PROVE DoneIffTerminal'
    BY <1>a, <1>c DEF Settle, DoneIffTerminal, IsTerminal
<1>d. ASSUME NEW o \in Ops, NEW st \in {"pending", "running"},
             status[o] \notin Terminal, status' = [status EXCEPT ![o] = st], done' = done
      PROVE  DoneIffTerminal'
    BY <1>a, <1>d DEF DoneIffTerminal, IsTerminal, Terminal
<1>1. ASSUME NEW w \in Workers, WorkerStep(w) PROVE DoneIffTerminal'
    <2>1. CASE RunBegin(w)
        BY <1>a, <1>d, <2>1 DEF RunBegin, Terminal
    <2>2. CASE Finish(w)
        <3>1. workerOp[w] \in Ops
            BY <1>a, <2>2 DEF Finish, FinishOperation
        <3>2. \/ UNCHANGED <<status, done>>
              \/ \E st \in {"succeeded", "failed"} : Settle({workerOp[w]}, st)
            BY <2>2 DEF Finish, FinishOperation
        <3> QED
            BY <1>b, <1>c, <3>1, <3>2 DEF Terminal
    <2> QED
        BY <1>1, <1>b, <2>1, <2>2 DEF WorkerStep, Receive, WorkerExit, RunSkip, HandlerReturn,
                                      opVars
<1>2. ASSUME NEW id \in Ops, NEW n, NEW k, SubmitAccepted(id, n, k) PROVE DoneIffTerminal'
    BY <1>2, <1>d DEF SubmitAccepted, MayCreate, Terminal
<1>3. ASSUME NEW id \in Ops, NEW n, NEW k, SubmitDuplicate(n, k) \/ SubmitQueueFull(id, n, k)
      PROVE  DoneIffTerminal'
    <2>1. UNCHANGED <<status, done>>
        BY <1>3, <1>a DEF SubmitDuplicate, SubmitQueueFull, MayCreate, opVars
    <2> QED
        BY <1>b, <2>1
<1>4. ASSUME NEW c \in Clients, ClientStep(c) PROVE DoneIffTerminal'
    <2>1. ASSUME NEW o \in Ops, Cancel(c, o) PROVE DoneIffTerminal'
        BY <1>c, <2>1 DEF Cancel, Terminal
    <2> QED
        BY <1>b, <1>4, <2>1 DEF ClientStep, CancelContext, WaitBegin, WaitReturn, WaitGivesUp, opVars
<1>5. ASSUME NEW p \in Ops, TaskTimeout(p) \/ \E r \in Reports : ReportProgress(p, r)
      PROVE  DoneIffTerminal'
    BY <1>b, <1>5 DEF TaskTimeout, ReportProgress, opVars
<1>6. ASSUME NEW s \in Stoppers, ShutdownStep(s) PROVE DoneIffTerminal'
    <2>1. CASE CancelUnfinished(s)
        BY <1>c, <2>1 DEF CancelUnfinished, CancelOperations, Unfinished, Terminal
    <2> QED
        BY <1>b, <1>6, <2>1 DEF ShutdownStep, ShutdownBegin, ShutdownCloses, ShutdownSelects,
                                ShutdownDrained, CancelCollected, ShutdownExpired, opVars
<1>7. ASSUME NEW n, Handle(n) PROVE DoneIffTerminal'
    BY <1>b, <1>7 DEF Handle, opVars
<1>8. CASE Start \/ GroupStep \/ ParentEnds \/ WatcherStep \/ UNCHANGED vars
    BY <1>b, <1>8 DEF Start, GroupStep, ParentEnds, WatcherStep, vars, opVars
<1>9. SubmitStep => \E n \in Names, k \in Keys \union {NoKey} :
        SubmitDuplicate(n, k) \/ \E id \in Ops : SubmitAccepted(id, n, k) \/ SubmitQueueFull(id, n, k)
    BY DEF SubmitStep
<1>10. ASSUME NEW n, NEW k, SubmitDuplicate(n, k) PROVE DoneIffTerminal'
    BY <1>b, <1>10 DEF SubmitDuplicate, opVars
<1> QED
    BY <1>1, <1>2, <1>3, <1>4, <1>5, <1>6, <1>7, <1>8, <1>9, <1>10 DEF Next, Rest

\* A key is given its operation once, and the operation stays stored.
LEMMA KeysStep == TypeOK /\ Holding /\ KeysResolve /\ [Next]_vars => KeysResolve'
<1> SUFFICES ASSUME TypeOK, Holding, KeysResolve, [Next]_vars PROVE KeysResolve'
    OBVIOUS
<1>a. /\ idempotency \in [Names \X Keys -> Ops \union {NoOp}]
      /\ answered \in [Names \X Keys -> SUBSET Ops]
      /\ status \in [Ops -> Status]
    BY DEF TypeOK, TypeOps, TypeSubmit
<1>b. \A o \in Ops : status[o] # "absent" => status'[o] # "absent"
    BY StatusMoves DEF Terminal
<1>c. CASE UNCHANGED <<idempotency, answered>>
    BY <1>a, <1>b, <1>c DEF KeysResolve
<1>1. ASSUME NEW n \in Names, NEW k, SubmitDuplicate(n, k) PROVE KeysResolve'
    <2>1. /\ k \in Keys
          /\ idempotency' = idempotency
          /\ answered' = [answered EXCEPT ![<<n, k>>] = @ \union {idempotency[<<n, k>>]}]
        BY <1>1 DEF SubmitDuplicate
    <2> QED
        BY <1>a, <1>b, <2>1 DEF KeysResolve
<1>2. ASSUME NEW id \in Ops, NEW n \in Names, NEW k, SubmitAccepted(id, n, k) PROVE KeysResolve'
    <2>1. CASE k \notin Keys
        BY <1>2, <1>c, <2>1 DEF SubmitAccepted
    <2>2. CASE k \in Keys
        <3> DEFINE key == <<n, k>>
        <3>1. /\ idempotency[key] = NoOp
              /\ idempotency' = [idempotency EXCEPT ![key] = id]
              /\ answered' = [answered EXCEPT ![key] = @ \union {id}]
              /\ status'[id] = "pending"
            BY <1>2, <1>a, <2>2 DEF SubmitAccepted, MayCreate
        <3>2. key \in Names \X Keys
            BY <2>2
        <3>3. answered[key] = {}
            <4>1. answered[key] \subseteq {NoOp} /\ answered[key] \in SUBSET Ops
                BY <1>a, <3>1, <3>2 DEF KeysResolve
            <4> QED
                BY <4>1, NoOpAssumption
        <3> HIDE DEF key
        <3> QED
            BY <1>a, <1>b, <3>1, <3>2, <3>3 DEF KeysResolve
    <2> QED
        BY <2>1, <2>2
<1>3. ASSUME NEW id \in Ops, NEW n \in Names, NEW k, SubmitQueueFull(id, n, k) PROVE KeysResolve'
    <2>1. UNCHANGED <<idempotency, answered>>
        BY <1>3, <1>a DEF SubmitQueueFull, MayCreate
    <2> QED
        BY <1>c, <2>1
<1>4. ASSUME NEW n, Handle(n) PROVE KeysResolve'
    BY <1>c, <1>4 DEF Handle
<1>5. ASSUME NEW c \in Clients, ClientStep(c) PROVE KeysResolve'
    BY <1>c, <1>5 DEF ClientStep, Cancel, CancelContext, WaitBegin, WaitReturn, WaitGivesUp, submitVars
<1>6. ASSUME NEW w \in Workers, WorkerStep(w) PROVE KeysResolve'
    BY <1>c, <1>6 DEF WorkerStep, Receive, WorkerExit, RunSkip, RunBegin, HandlerReturn, Finish,
                      FinishOperation, submitVars
<1>7. ASSUME NEW p \in Ops, TaskTimeout(p) \/ \E r \in Reports : ReportProgress(p, r)
      PROVE  KeysResolve'
    BY <1>c, <1>7 DEF TaskTimeout, ReportProgress, submitVars
<1>8. ASSUME NEW s \in Stoppers, ShutdownStep(s) PROVE KeysResolve'
    BY <1>c, <1>8 DEF ShutdownStep, ShutdownBegin, ShutdownCloses, ShutdownSelects, ShutdownDrained,
                      CancelUnfinished, CancelOperations, CancelCollected, ShutdownExpired, submitVars
<1>9. CASE Start \/ GroupStep \/ ParentEnds \/ WatcherStep \/ UNCHANGED vars
    BY <1>c, <1>9 DEF Start, GroupStep, ParentEnds, WatcherStep, vars, submitVars
<1> QED
    BY <1>1, <1>2, <1>3, <1>4, <1>5, <1>6, <1>7, <1>8, <1>9 DEF Next, SubmitStep, Rest

\* The workers that have a handler running or returned.
Busy == {w \in Workers : workerPc[w] \in {"handling", "returned"}}

\* What such a worker holds is marked as executing.
ExecutingInv == \A w \in Busy : executing[workerOp[w]]

MetricsInv == MetricsBalance /\ ExecutingInv

\* The open operations and the busy workers can be counted.
LEMMA Countable ==
    /\ IsFiniteSet(Unfinished) /\ Cardinality(Unfinished) \in Nat
    /\ IsFiniteSet(Busy) /\ Cardinality(Busy) \in Nat
<1>1. Unfinished \in SUBSET Ops /\ Busy \in SUBSET Workers
    BY DEF Unfinished, Busy
<1>2. IsFiniteSet(Unfinished) /\ IsFiniteSet(Busy)
    BY <1>1, OpsAssumption, WorkersAssumption, FS_Subset
<1> QED
    BY <1>2, FS_CardinalityType

\* One element more, one less.
LEMMA OneMore ==
    ASSUME NEW S, NEW T, NEW x, IsFiniteSet(S), x \notin S, T = S \union {x}
    PROVE  Cardinality(T) = Cardinality(S) + 1
  BY FS_AddElement

\* A set that loses an element loses one of its size.
LEMMA OneLess ==
    ASSUME NEW S, NEW T, NEW x, IsFiniteSet(S), x \in S, T = S \ {x}
    PROVE  Cardinality(T) = Cardinality(S) - 1
  BY FS_RemoveElement

\* Every counter moves with what it counts.
LEMMA MetricsStep == TypeOK /\ Unborn /\ Holding /\ MetricsInv /\ [Next]_vars => MetricsInv'
<1> SUFFICES ASSUME TypeOK, Unborn, Holding, MetricsInv, [Next]_vars PROVE MetricsInv'
    OBVIOUS
<1>a. /\ status \in [Ops -> Status]
      /\ executing \in [Ops -> BOOLEAN]
      /\ workerPc \in [Workers -> {"unborn", "idle", "taken", "handling", "returned", "exited"}]
      /\ workerOp \in [Workers -> Ops \union {NoOp}]
      /\ \A w \in Workers : workerPc[w] \in {"taken", "handling", "returned"} => workerOp[w] \in Ops
    BY DEF TypeOK, TypeOps, TypeWorkers
<1>b. metrics \in [Counters -> Int]
    BY DEF TypeOK, TypeOps
<1>c. /\ metrics["submitted"] \in Int /\ metrics["completed"] \in Int /\ metrics["failed"] \in Int
      /\ metrics["cancelled"] \in Int /\ metrics["running"] \in Int
    BY <1>b DEF Counters
<1>d. /\ metrics["submitted"] = metrics["completed"] + metrics["failed"] + metrics["cancelled"]
                                + Cardinality(Unfinished)
      /\ metrics["running"] = Cardinality(Busy)
    BY DEF MetricsInv, MetricsBalance, Busy
<1>e. /\ IsFiniteSet(Unfinished) /\ Cardinality(Unfinished) \in Nat
      /\ IsFiniteSet(Busy) /\ Cardinality(Busy) \in Nat
    BY Countable
<1>f. \A w \in Busy : executing[workerOp[w]]
    BY DEF MetricsInv, ExecutingInv
<1>g. ASSUME /\ metrics'["submitted"] = metrics'["completed"] + metrics'["failed"] + metrics'["cancelled"]
                                        + Cardinality(Unfinished')
             /\ metrics'["running"] = Cardinality(Busy')
             /\ \A w \in Busy' : executing'[workerOp'[w]]
      PROVE  MetricsInv'
    BY <1>g DEF MetricsInv, MetricsBalance, ExecutingInv, Busy
<1>h. ASSUME UNCHANGED <<workerPc, workerOp, executing>> PROVE Busy' = Busy /\ \A w \in Busy' : executing'[workerOp'[w]]
    BY <1>f, <1>h DEF Busy
<1>i. ASSUME UNCHANGED <<status, metrics>>, Busy' = Busy, \A w \in Busy : executing'[workerOp'[w]]
      PROVE  MetricsInv'
    <2>1. Unfinished' = Unfinished
        BY <1>i DEF Unfinished
    <2> QED
        BY <1>d, <1>g, <1>i, <2>1
<1>j. CASE UNCHANGED <<status, metrics, workerPc, workerOp, executing>>
    BY <1>h, <1>i, <1>j
<1>1. ASSUME NEW id \in Ops, NEW n, NEW k, SubmitAccepted(id, n, k) PROVE MetricsInv'
    <2>1. /\ status[id] = "absent" /\ status' = [status EXCEPT ![id] = "pending"]
          /\ metrics' = [metrics EXCEPT !["submitted"] = @ + 1]
          /\ UNCHANGED <<workerPc, workerOp, executing>>
        BY <1>1 DEF SubmitAccepted, MayCreate, workerVars
    <2>2. Unfinished' = Unfinished \union {id} /\ id \notin Unfinished
        BY <1>a, <2>1 DEF Unfinished
    <2>3. Cardinality(Unfinished') = Cardinality(Unfinished) + 1
        BY <1>e, <2>2, OneMore
    <2>4. /\ metrics'["submitted"] = metrics["submitted"] + 1
          /\ metrics'["completed"] = metrics["completed"] /\ metrics'["failed"] = metrics["failed"]
          /\ metrics'["cancelled"] = metrics["cancelled"] /\ metrics'["running"] = metrics["running"]
        BY <1>b, <2>1 DEF Counters
    <2> QED
        BY <1>c, <1>d, <1>e, <1>g, <1>h, <2>1, <2>3, <2>4
<1>2. ASSUME NEW c \in Clients, NEW o \in Ops, Cancel(c, o) PROVE MetricsInv'
    <2>1. /\ status[o] \in {"pending", "running"} /\ Settle({o}, "cancelled")
          /\ metrics' = [metrics EXCEPT !["cancelled"] = @ + 1]
          /\ UNCHANGED <<workerPc, workerOp, executing>>
        BY <1>2 DEF Cancel, workerVars
    <2>2. Unfinished' = Unfinished \ {o} /\ o \in Unfinished
        BY <1>a, <2>1 DEF Unfinished, Settle
    <2>3. Cardinality(Unfinished') = Cardinality(Unfinished) - 1
        BY <1>e, <2>2, OneLess
    <2>4. /\ metrics'["submitted"] = metrics["submitted"]
          /\ metrics'["completed"] = metrics["completed"] /\ metrics'["failed"] = metrics["failed"]
          /\ metrics'["cancelled"] = metrics["cancelled"] + 1 /\ metrics'["running"] = metrics["running"]
        BY <1>b, <2>1 DEF Counters
    <2> QED
        BY <1>c, <1>d, <1>e, <1>g, <1>h, <2>1, <2>3, <2>4
<1>3. ASSUME NEW s \in Stoppers, CancelUnfinished(s) PROVE MetricsInv'
    <2>1. /\ Settle(Unfinished, "cancelled")
          /\ metrics' = [metrics EXCEPT !["cancelled"] = @ + Cardinality(Unfinished)]
          /\ UNCHANGED <<workerPc, workerOp, executing>>
        BY <1>3 DEF CancelUnfinished, CancelOperations, workerVars
    <2>2. Unfinished' = {}
        BY <1>a, <2>1 DEF Unfinished, Settle
    <2>3. Cardinality(Unfinished') = 0
        BY <2>2, FS_EmptySet
    <2>4. /\ metrics'["submitted"] = metrics["submitted"]
          /\ metrics'["completed"] = metrics["completed"] /\ metrics'["failed"] = metrics["failed"]
          /\ metrics'["cancelled"] = metrics["cancelled"] + Cardinality(Unfinished)
          /\ metrics'["running"] = metrics["running"]
        BY <1>b, <2>1 DEF Counters
    <2> QED
        BY <1>c, <1>d, <1>e, <1>g, <1>h, <2>1, <2>3, <2>4
<1>4. ASSUME NEW w \in Workers, RunBegin(w) PROVE MetricsInv'
    <2> DEFINE o == workerOp[w]
    <2>1. /\ o \in Ops /\ workerPc[w] = "taken" /\ status[o] = "pending"
          /\ status' = [status EXCEPT ![o] = "running"]
          /\ executing' = [executing EXCEPT ![o] = TRUE]
          /\ metrics' = [metrics EXCEPT !["running"] = @ + 1]
          /\ workerPc' = [workerPc EXCEPT ![w] = "handling"]
          /\ workerOp' = workerOp
        BY <1>a, <1>4 DEF RunBegin
    <2>2. Unfinished' = Unfinished
        BY <1>a, <2>1 DEF Unfinished
    <2>3. Busy' = Busy \union {w} /\ w \notin Busy
        BY <1>a, <2>1 DEF Busy
    <2>4. Cardinality(Busy') = Cardinality(Busy) + 1
        BY <1>e, <2>3, OneMore
    <2>5. \A v \in Busy' : executing'[workerOp'[v]]
        <3>1. \A v \in Busy : workerOp[v] \in Ops
            BY <1>a DEF Busy
        <3> QED
            BY <1>a, <1>f, <2>1, <2>3, <3>1
    <2>6. /\ metrics'["submitted"] = metrics["submitted"]
          /\ metrics'["completed"] = metrics["completed"] /\ metrics'["failed"] = metrics["failed"]
          /\ metrics'["cancelled"] = metrics["cancelled"] /\ metrics'["running"] = metrics["running"] + 1
        BY <1>b, <2>1 DEF Counters
    <2> QED
        BY <1>c, <1>d, <1>e, <1>g, <2>2, <2>4, <2>5, <2>6
<1>5. ASSUME NEW w \in Workers, Finish(w) PROVE MetricsInv'
    <2> DEFINE o == workerOp[w]
               ok == outcome[w] = "ok"
               open == ~IsTerminal(o)
    <2>1. /\ o \in Ops /\ workerPc[w] = "returned" /\ w \in Busy /\ executing[o]
          /\ executing' = [executing EXCEPT ![o] = FALSE]
          /\ workerPc' = [workerPc EXCEPT ![w] = "idle"]
          /\ workerOp' = [workerOp EXCEPT ![w] = NoOp]
        BY <1>a, <1>5, <1>f DEF Finish, FinishOperation, Busy
    <2>2. Busy' = Busy \ {w}
        BY <1>a, <2>1 DEF Busy
    <2>3. Cardinality(Busy') = Cardinality(Busy) - 1
        BY <1>e, <2>1, <2>2, OneLess
    <2>4. \A v \in Busy' : executing'[workerOp'[v]]
        <3> SUFFICES ASSUME NEW v \in Busy' PROVE executing'[workerOp'[v]]
            OBVIOUS
        <3>1. v \in Busy /\ v # w /\ v \in Workers
            BY <2>2 DEF Busy
        <3>2. workerOp[v] # o
            BY <2>1, <3>1 DEF Holding, DeliveredOnce, Holds, Busy
        <3>3. workerOp'[v] = workerOp[v] /\ workerOp[v] \in Ops
            BY <1>a, <2>1, <3>1 DEF Busy
        <3> QED
            BY <1>a, <1>f, <2>1, <3>1, <3>2, <3>3
    <2>5. metrics' = [metrics EXCEPT !["running"]   = @ - 1,
                                     !["completed"] = IF open /\ ok THEN @ + 1 ELSE @,
                                     !["failed"]    = IF open /\ ~ok THEN @ + 1 ELSE @]
        BY <1>5, <2>1 DEF Finish, FinishOperation
    <2>6. /\ metrics'["submitted"] = metrics["submitted"]
          /\ metrics'["completed"] = IF open /\ ok THEN metrics["completed"] + 1 ELSE metrics["completed"]
          /\ metrics'["failed"] = IF open /\ ~ok THEN metrics["failed"] + 1 ELSE metrics["failed"]
          /\ metrics'["cancelled"] = metrics["cancelled"] /\ metrics'["running"] = metrics["running"] - 1
        BY <1>b, <2>5 DEF Counters
    <2>7. CASE open
        <3>1. \E st \in {"succeeded", "failed"} : Settle({o}, st)
            BY <1>5, <2>7 DEF Finish, FinishOperation
        <3>2. status[o] = "running"
            BY <2>1, <2>7 DEF Holding, InFlight, IsTerminal, Terminal
        <3>3. Unfinished' = Unfinished \ {o} /\ o \in Unfinished
            BY <1>a, <2>1, <3>1, <3>2 DEF Unfinished, Settle
        <3>4. Cardinality(Unfinished') = Cardinality(Unfinished) - 1
            BY <1>e, <3>3, OneLess
        <3>5. metrics'["completed"] + metrics'["failed"] = metrics["completed"] + metrics["failed"] + 1
            <4>1. CASE ok
                BY <1>c, <2>6, <2>7, <4>1
            <4>2. CASE ~ok
                BY <1>c, <2>6, <2>7, <4>2
            <4> QED
                BY <4>1, <4>2
        <3>6. metrics'["completed"] \in Int /\ metrics'["failed"] \in Int
            BY TypeOpsStep DEF TypeOK, TypeOps, Counters
        <3> QED
            BY <1>c, <1>d, <1>e, <1>g, <2>3, <2>4, <2>6, <3>4, <3>5, <3>6
    <2>8. CASE ~open
        <3>1. status' = status
            BY <1>5, <2>8 DEF Finish, FinishOperation
        <3>2. Unfinished' = Unfinished
            BY <3>1 DEF Unfinished
        <3>3. metrics'["completed"] = metrics["completed"] /\ metrics'["failed"] = metrics["failed"]
            BY <2>6, <2>8
        <3> QED
            BY <1>c, <1>d, <1>e, <1>g, <2>3, <2>4, <2>6, <3>2, <3>3
    <2> QED
        BY <2>7, <2>8
<1>6. ASSUME NEW w \in Workers, Receive(w) \/ WorkerExit(w) \/ RunSkip(w) \/ \E ok \in BOOLEAN : HandlerReturn(w, ok)
      PROVE  MetricsInv'
    <2>1. UNCHANGED <<status, metrics, executing>>
        BY <1>6 DEF Receive, WorkerExit, RunSkip, HandlerReturn, opVars
    <2>2. \/ workerPc[w] \notin {"handling", "returned"} /\ \E x \in {"taken", "exited", "idle"} : workerPc' = [workerPc EXCEPT ![w] = x]
          \/ workerPc[w] = "handling" /\ workerPc' = [workerPc EXCEPT ![w] = "returned"]
        BY <1>6 DEF Receive, WorkerExit, RunSkip, HandlerReturn
    <2>3. Busy' = Busy
        BY <1>a, <2>2 DEF Busy
    <2>4. \A v \in Busy : workerOp'[v] = workerOp[v]
        BY <1>a, <1>6 DEF Receive, WorkerExit, RunSkip, HandlerReturn, Busy
    <2> QED
        BY <1>f, <1>i, <2>1, <2>3, <2>4
<1>7. CASE Start
    <2>1. UNCHANGED <<status, metrics, executing>> /\ workerOp' = workerOp
        BY <1>7 DEF Start, opVars
    <2>2. Busy' = {} /\ Busy = {}
        BY <1>a, <1>7 DEF Start, Busy, Unborn
    <2> QED
        BY <1>i, <2>1, <2>2
<1>8. ASSUME NEW id \in Ops, NEW n, NEW k, SubmitQueueFull(id, n, k) PROVE MetricsInv'
    <2>1. status' = status
        BY <1>8, <1>a DEF SubmitQueueFull, MayCreate
    <2> QED
        BY <1>8, <1>j, <2>1 DEF SubmitQueueFull, workerVars
<1>9. ASSUME NEW n, NEW k, Handle(n) \/ SubmitDuplicate(n, k) PROVE MetricsInv'
    BY <1>9, <1>j DEF Handle, SubmitDuplicate, opVars, workerVars
<1>10. ASSUME NEW c \in Clients, CancelContext(c) \/ WaitReturn(c) \/ WaitGivesUp(c) \/ \E o \in Ops : WaitBegin(c, o)
       PROVE  MetricsInv'
    BY <1>10, <1>j DEF CancelContext, WaitReturn, WaitGivesUp, WaitBegin, opVars, workerVars
<1>11. ASSUME NEW p \in Ops, TaskTimeout(p) \/ \E r \in Reports : ReportProgress(p, r) PROVE MetricsInv'
    BY <1>11, <1>j DEF TaskTimeout, ReportProgress, opVars, workerVars
<1>12. ASSUME NEW s \in Stoppers, ShutdownStep(s), ~CancelUnfinished(s) PROVE MetricsInv'
    BY <1>12, <1>j DEF ShutdownStep, ShutdownBegin, ShutdownCloses, ShutdownSelects, ShutdownDrained,
                       CancelCollected, ShutdownExpired, opVars, workerVars
<1>13. CASE GroupStep \/ ParentEnds \/ WatcherStep \/ UNCHANGED vars
    BY <1>13, <1>j DEF GroupStep, ParentEnds, WatcherStep, vars, opVars, workerVars
<1> QED
    BY <1>1, <1>2, <1>3, <1>4, <1>5, <1>6, <1>7, <1>8, <1>9, <1>10, <1>11, <1>12, <1>13
       DEF Next, SubmitStep, ClientStep, WorkerStep, Rest

\* The channels, the keys and the counters, on top of the invariant above.
LEMMA Told == Spec => [](DoneIffTerminal /\ KeysResolve /\ MetricsInv)
<1>1. Init => DoneIffTerminal /\ KeysResolve /\ MetricsInv
    <2> SUFFICES ASSUME Init PROVE DoneIffTerminal /\ KeysResolve /\ MetricsInv
        OBVIOUS
    <2>1. DoneIffTerminal /\ KeysResolve
        BY DEF Init, DoneIffTerminal, IsTerminal, Terminal, KeysResolve
    <2>2. Unfinished = {} /\ Busy = {}
        BY DEF Init, Unfinished, Busy
    <2>3. Cardinality(Unfinished) = 0 /\ Cardinality(Busy) = 0
        BY <2>2, FS_EmptySet
    <2>4. \A m \in Counters : metrics[m] = 0
        BY DEF Init
    <2>5. MetricsBalance
        BY <2>3, <2>4 DEF MetricsBalance, Counters, Busy
    <2> QED
        BY <2>1, <2>2, <2>5 DEF MetricsInv, ExecutingInv
<1>2. IInv /\ (DoneIffTerminal /\ KeysResolve /\ MetricsInv) /\ [Next]_vars
        => (DoneIffTerminal /\ KeysResolve /\ MetricsInv)'
    BY DoneStep, KeysStep, MetricsStep DEF IInv, ControlInv
<1> QED
    BY <1>1, <1>2, Invariant, PTL DEF Spec

\* A waiter wakes up when its operation is settled, reads a terminal status, and nobody
\* sleeps on a settled operation.
THEOREM WaitersSeeTheEnd == Spec => []DoneIffTerminal
BY Told, PTL

\* A key names a stored operation, and every Submit with the key was given that one.
THEOREM KeysAreResolved == Spec => []KeysResolve
BY Told, PTL

\* The counters add up: cancelled, late and timed-out handlers are counted once.
THEOREM MetricsAddUp == Spec => []MetricsBalance
<1>1. MetricsInv => MetricsBalance
    BY DEF MetricsInv
<1> QED
    BY <1>1, Told, PTL

\* The in-memory executor implements the contract of an executor that delivers
\* every operation at most once.
THEOREM MemoryImplementsContract == Spec => ImplementsContract
<1>1. Init => Contract!Init
    BY DEF Init, Contract!Init
<1>2. IInv /\ [Next]_vars => [Contract!Next]_status
    <2> SUFFICES ASSUME IInv, [Next]_vars PROVE Contract!Next
        OBVIOUS
    <2>1. status \in [Ops -> Status] /\ status' \in [Ops -> Status]
        BY TypeStep DEF IInv, TypeOK, TypeOps
    <2>2. status' \in [Ops -> Contract!Status]
        BY <2>1 DEF Status, Terminal, Contract!Status, Contract!Terminal
    <2>3. ASSUME NEW o \in Ops PROVE status'[o] \in Contract!Successors(status[o])
        <3>1. status[o] \in Status
            BY <2>1
        <3>2. Contract!Successors(status[o]) =
                CASE status[o] = "absent"  -> {"absent", "pending"}
                  [] status[o] = "pending" -> {"pending", "running", "cancelled"}
                  [] status[o] = "running" -> {"running"} \union Terminal
                  [] OTHER                 -> {status[o]}
            BY <3>1 DEF Status, Terminal, Contract!Successors, Contract!Terminal
        <3> QED
            BY <3>1, <3>2, StatusMoves DEF IInv, Status, Terminal
    <2> QED
        BY <2>2, <2>3 DEF Contract!Next
<1> QED
    BY <1>1, <1>2, Invariant, PTL DEF Spec, ImplementsContract, Contract!Spec

--------------------------------------------------------------------------------
\* The executor is the component runLifecycle expects, if one goroutine calls Shutdown.

\* Only Shutdown stops the executor.
StopperInv(s) == state = "stopped" => stopPc[s] # "idle"

LEMMA StepStopper ==
    ASSUME NEW s \in Stoppers, Stoppers = {s}, TypeOK, StopperInv(s), [Next]_vars
    PROVE  StopperInv(s)'
<1> USE DEF StopperInv
<1>1. ASSUME ShutdownStep(s) PROVE stopPc'[s] # "idle"
    BY <1>1 DEF ShutdownStep, ShutdownBegin, ShutdownCloses, ShutdownSelects, ShutdownDrained,
                CancelUnfinished, CancelOperations, CancelCollected, ShutdownExpired,
                TypeOK, TypeCallers, Over
<1>2. ASSUME UNCHANGED stopPc, state' = "stopped" => state = "stopped" PROVE StopperInv(s)'
    BY <1>2
<1>3. CASE Start \/ WatcherStep
    BY <1>3, <1>2 DEF Start, WatcherStep, StopAccepting, stopVars
<1>4. ASSUME NEW n, Handle(n) \/ \E k : SubmitDuplicate(n, k)
             \/ \E id \in Ops : SubmitAccepted(id, n, k) \/ SubmitQueueFull(id, n, k)
      PROVE UNCHANGED <<state, stopPc>>
    BY <1>4 DEF Handle, SubmitDuplicate, SubmitAccepted, SubmitQueueFull, stopVars
<1>5. ASSUME NEW c \in Clients, ClientStep(c) PROVE UNCHANGED <<state, stopPc>>
    BY <1>5 DEF ClientStep, Cancel, CancelContext, WaitBegin, WaitReturn, WaitGivesUp, stopVars
<1>6. ASSUME NEW w \in Workers, WorkerStep(w) PROVE UNCHANGED <<state, stopPc>>
    BY <1>6 DEF WorkerStep, Receive, WorkerExit, RunSkip, RunBegin, HandlerReturn, Finish,
                FinishOperation, stopVars
<1>7. ASSUME NEW o \in Ops, TaskTimeout(o) \/ \E p \in Reports : ReportProgress(o, p)
      PROVE UNCHANGED <<state, stopPc>>
    BY <1>7 DEF TaskTimeout, ReportProgress, stopVars
<1>8. CASE GroupStep \/ ParentEnds \/ UNCHANGED vars
    BY <1>8, <1>2 DEF GroupStep, ParentEnds, vars, stopVars
<1> QED
    BY <1>1, <1>2, <1>3, <1>4, <1>5, <1>6, <1>7, <1>8 DEF Next, SubmitStep, Rest

\* Each view is a matter of few variables.
LEMMA ViewFrames ==
    ASSUME NEW s \in Stoppers
    PROVE  /\ /\ state = "created" <=> state' = "created"
              /\ \A w \in Workers : workerPc[w] = "exited" <=> workerPc'[w] = "exited"
              => Work' = Work
           /\ signals' = signals => Sent' = Sent
           /\ stopPc' = stopPc => Answer(s)' = Answer(s) /\ Late(s)' = Late(s)
<1>1. ASSUME state = "created" <=> state' = "created",
             \A w \in Workers : workerPc[w] = "exited" <=> workerPc'[w] = "exited"
      PROVE  Work' = Work
    BY <1>1 DEF Work
<1>2. signals' = signals => Sent' = Sent
    BY DEF Sent
<1>3. stopPc' = stopPc => Answer(s)' = Answer(s) /\ Late(s)' = Late(s)
    BY DEF Answer, Late
<1> QED
    BY <1>1, <1>2, <1>3

\* A step of somebody else, and one of a worker that stays, does not show.
LEMMA Unseen ==
    ASSUME NEW s \in Stoppers, UNCHANGED <<stopPc, signals>>,
           state = "created" <=> state' = "created",
           \A w \in Workers : workerPc[w] = "exited" <=> workerPc'[w] = "exited"
    PROVE  UNCHANGED Promise(s)!vars
BY ViewFrames DEF Promise!vars

\* The only value sent on Done is nil.
LEMMA SignalIsPromised ==
    ASSUME NEW s \in Stoppers, TypeOK, SignalDone, Work # "new", Work' = Work,
           Answer(s)' = Answer(s), Late(s)' = Late(s)
    PROVE  (\E a \in Promise(s)!Answers : Promise(s)!Signal(a)) \/ UNCHANGED Promise(s)!vars
<1>1. CASE signals = 0
    <2>1. Sent = "none" /\ Sent' = "nil"
        BY <1>1 DEF SignalDone, Sent
    <2> QED
        BY <2>1 DEF Promise!Signal, Promise!Answers
<1>2. CASE signals # 0
    BY <1>2 DEF SignalDone, Sent, Promise!vars
<1> QED
    BY <1>1, <1>2

\* Every step of the executor is a step of the contract, or none.
LEMMA StepIsPromised ==
    ASSUME NEW s \in Stoppers, Stoppers = {s}, TypeOK, ControlInv, StopperInv(s), [Next]_vars
    PROVE  [Promise(s)!Next]_(Promise(s)!vars)
<1>a. /\ workerPc \in [Workers -> {"unborn", "idle", "taken", "handling", "returned", "exited"}]
      /\ stopPc \in [Stoppers -> {"idle", "closing", "selecting", "drained", "expired",
                                  "cancelling", "stopping", "cancelWork", "signalling",
                                  "failing"} \union Over]
      /\ state \in {"created", "running", "stopping", "stopped"}
    BY DEF TypeOK, TypeControl, TypeWorkers, TypeCallers
<1>b. PICK w0 : w0 \in Workers
    BY WorkersAssumption
<1>c. ASSUME \A w \in Workers : workerPc[w] = "exited" PROVE Work = "stopped" /\ state # "created"
    <2>1. state # "created"
        BY <1>b, <1>c DEF ControlInv, Unborn
    <2> QED
        BY <1>c, <2>1 DEF Work
<1>d. ASSUME state # "created" PROVE Work # "new"
    BY <1>d DEF Work
<1> USE <1>a DEF Promise!Next
<1>1. CASE Start
    <2>1. /\ state = "created" /\ state' = "running" /\ \A w \in Workers : workerPc'[w] = "idle"
          /\ UNCHANGED <<stopPc, signals>>
        BY <1>1 DEF Start, stopVars
    <2>2. Work = "new" /\ Work' = "working"
        BY <1>b, <2>1 DEF Work
    <2>3. Promise(s)!Start
        BY <2>1, <2>2, ViewFrames DEF Promise!Start
    <2> QED
        BY <2>3
<1>2. ASSUME NEW w \in Workers, WorkerExit(w) PROVE Promise(s)!End \/ UNCHANGED Promise(s)!vars
    <2>1. /\ workerPc[w] = "idle" /\ workerPc' = [workerPc EXCEPT ![w] = "exited"]
          /\ UNCHANGED <<state, stopPc, signals>>
        BY <1>2 DEF WorkerExit, endVars, stopVars
    <2>2. Work = "working"
        BY <2>1 DEF Work, ControlInv, Unborn
    <2>3. Work' \in {"working", "stopped"}
        BY <2>1, <2>2 DEF Work
    <2> QED
        BY <2>1, <2>2, <2>3, ViewFrames DEF Promise!End, Promise!vars
<1>3. ASSUME NEW w \in Workers, Receive(w) \/ RunSkip(w) \/ RunBegin(w) \/ Finish(w)
                                  \/ \E ok \in BOOLEAN : HandlerReturn(w, ok)
      PROVE UNCHANGED Promise(s)!vars
    <2>1. /\ workerPc[w] # "exited"
          /\ \E pc \in {"idle", "taken", "handling", "returned"} : workerPc' = [workerPc EXCEPT ![w] = pc]
          /\ UNCHANGED <<state, stopPc, signals>>
        BY <1>3 DEF Receive, RunSkip, RunBegin, Finish, FinishOperation, HandlerReturn, endVars,
                    stopVars
    <2> QED
        BY <2>1, Unseen
<1>4. CASE GroupStep
    <2>1. UNCHANGED <<state, workerPc, stopPc>>
        BY <1>4 DEF GroupStep, workerVars, stopVars
    <2>2. Work' = Work /\ Answer(s)' = Answer(s) /\ Late(s)' = Late(s)
        BY <2>1, ViewFrames
    <2>3. Work # "new"
        BY <1>4, <1>c DEF GroupStep, ControlInv
    <2>4. CASE UNCHANGED signals
        BY <2>1, <2>4, Unseen
    <2>5. CASE SignalDone
        BY <2>2, <2>3, <2>5, SignalIsPromised
    <2> QED
        BY <1>4, <2>4, <2>5 DEF GroupStep
<1>5. CASE WatcherStep
    <2>1. UNCHANGED <<workerPc, stopPc, signals>> /\ (state' = state \/ (state = "running" /\ state' = "stopping"))
        BY <1>5 DEF WatcherStep, StopAccepting, workerVars, stopVars
    <2> QED
        BY <2>1, Unseen
<1>6. CASE ShutdownBegin(s)
    <2>1. stopPc[s] = "idle" /\ UNCHANGED <<state, workerPc, signals>> /\ state # "stopped"
        BY <1>6 DEF ShutdownBegin, workerVars, endVars, StopperInv
    <2>2. stopPc'[s] \in {"refused", "closing"}
        BY <1>6, <2>1 DEF ShutdownBegin
    <2>3. Answer(s)' = Answer(s) /\ Late(s)' = Late(s)
        BY <2>1, <2>2 DEF Answer, Late
    <2>4. UNCHANGED Promise(s)!vars
        BY <2>1, <2>3, ViewFrames DEF Promise!vars
    <2> QED
        BY <2>4
<1>7. CASE ShutdownCloses(s)
    <2>1. /\ stopPc[s] = "closing" /\ stopPc'[s] = "selecting" /\ UNCHANGED <<workerPc, signals>>
          /\ (state' = state \/ (state = "running" /\ state' = "stopping"))
        BY <1>7 DEF ShutdownCloses, StopAccepting, workerVars, endVars
    <2>2. Answer(s)' = Answer(s) /\ Late(s)' = Late(s)
        BY <2>1 DEF Answer, Late
    <2>3. UNCHANGED Promise(s)!vars
        BY <2>1, <2>2, ViewFrames DEF Promise!vars
    <2> QED
        BY <2>3
<1>8. CASE ShutdownSelects(s)
    <2>1. stopPc[s] = "selecting" /\ UNCHANGED <<state, workerPc, signals>>
        BY <1>8 DEF ShutdownSelects, workerVars, endVars
    <2>2. stopPc'[s] = "drained" \/ stopPc'[s] = "expired"
        BY <1>8 DEF ShutdownSelects
    <2>3. Work' = Work /\ Sent' = Sent /\ Answer(s)' = Answer(s) /\ ~Late(s)
        BY <2>1, <2>2, ViewFrames DEF Answer, Late
    <2>4. CASE stopPc'[s] = "drained"
        <3>1. Late(s)' = Late(s)
            BY <2>1, <2>4 DEF Late
        <3> QED
            BY <2>3, <3>1 DEF Promise!vars
    <2>5. CASE stopPc'[s] = "expired"
        <3>1. Late(s)' = TRUE
            BY <2>5 DEF Late
        <3> QED
            BY <2>3, <3>1 DEF Promise!DeadlinePasses
    <2> QED
        BY <2>2, <2>4, <2>5
<1>9. CASE ShutdownDrained(s)
    <2>1. /\ stopPc[s] = "drained" /\ stopPc'[s] = "returned" /\ UNCHANGED <<workerPc, signals>>
          /\ state' = "stopped"
        BY <1>9 DEF ShutdownDrained, workerVars, endVars
    <2>2. Work = "stopped" /\ state # "created"
        BY <1>c, <2>1 DEF ControlInv
    <2>3. Work' = Work /\ Sent' = Sent
        BY <2>1, <2>2, ViewFrames
    <2>4. Answer(s) = "none" /\ Answer(s)' = "nil" /\ Late(s)' = Late(s)
        BY <2>1 DEF Answer, Late
    <2>5. Promise(s)!Return("nil") /\ "nil" \in Promise(s)!Answers
        BY <2>2, <2>3, <2>4 DEF Promise!Return, Promise!Answers
    <2> QED
        BY <2>5
<1>10. CASE CancelUnfinished(s) \/ CancelCollected(s)
    <2>1. /\ stopPc[s] \in {"expired", "cancelling"} /\ stopPc'[s] \in {"cancelling", "stopping"}
          /\ UNCHANGED <<state, workerPc, signals>>
        BY <1>10 DEF CancelUnfinished, CancelOperations, CancelCollected, workerVars, endVars
    <2>2. Answer(s)' = Answer(s) /\ Late(s)' = Late(s)
        BY <2>1 DEF Answer, Late
    <2>3. UNCHANGED Promise(s)!vars
        BY <2>1, <2>2, ViewFrames DEF Promise!vars
    <2> QED
        BY <2>3
<1>11. CASE ShutdownExpired(s)
    <2>1. /\ stopPc[s] \in {"stopping", "cancelWork", "signalling", "failing"}
          /\ UNCHANGED workerPc /\ state' \in {state, "stopped"} /\ state # "created"
        BY <1>11 DEF ShutdownExpired, ControlInv, Stopping, workerVars
    <2>2. Work' = Work /\ Work # "new" /\ Late(s) /\ Answer(s) = "none"
        <3>1. Late(s) /\ Answer(s) = "none"
            BY <2>1 DEF Late, Answer
        <3> QED
            BY <2>1, <3>1, <1>d, ViewFrames
    <2>3. CASE stopPc[s] \in {"stopping", "cancelWork"}
        <3>1. stopPc'[s] \in {"cancelWork", "signalling"} /\ UNCHANGED signals
            BY <1>11, <2>3 DEF ShutdownExpired
        <3>2. Answer(s)' = "none" /\ Late(s)' /\ Sent' = Sent
            BY <3>1, ViewFrames DEF Answer, Late
        <3> QED
            BY <2>2, <3>2 DEF Promise!vars, Late
    <2>4. CASE stopPc[s] = "signalling"
        <3>1. stopPc'[s] = "failing" /\ SignalDone
            BY <1>11, <2>4 DEF ShutdownExpired
        <3>2. Answer(s)' = Answer(s) /\ Late(s)' = Late(s)
            BY <2>4, <3>1 DEF Answer, Late
        <3> QED
            BY <2>2, <3>1, <3>2, SignalIsPromised
    <2>5. CASE stopPc[s] = "failing"
        <3>1. stopPc'[s] = "failed" /\ UNCHANGED signals
            BY <1>11, <2>5 DEF ShutdownExpired
        <3>2. Answer(s)' = "error" /\ Late(s)' = Late(s) /\ Sent' = Sent
            BY <2>5, <3>1, ViewFrames DEF Answer, Late
        <3>3. Promise(s)!Return("error") /\ "error" \in Promise(s)!Answers
            BY <2>2, <3>2 DEF Promise!Return, Promise!Answers
        <3> QED
            BY <3>3
    <2> QED
        BY <2>1, <2>3, <2>4, <2>5
<1>12. ASSUME UNCHANGED <<state, workerPc, stopPc, signals>> PROVE UNCHANGED Promise(s)!vars
    BY <1>12, Unseen
<1>13. ASSUME NEW n, Handle(n) \/ \E k : SubmitDuplicate(n, k)
              \/ \E id \in Ops : SubmitAccepted(id, n, k) \/ SubmitQueueFull(id, n, k)
       PROVE UNCHANGED <<state, workerPc, stopPc, signals>>
    BY <1>13 DEF Handle, SubmitDuplicate, SubmitAccepted, SubmitQueueFull, stopVars, workerVars,
                 endVars
<1>14. ASSUME NEW c \in Clients, ClientStep(c) PROVE UNCHANGED <<state, workerPc, stopPc, signals>>
    BY <1>14 DEF ClientStep, Cancel, CancelContext, WaitBegin, WaitReturn, WaitGivesUp, stopVars,
                 workerVars, endVars
<1>15. ASSUME NEW o \in Ops, TaskTimeout(o) \/ \E p \in Reports : ReportProgress(o, p)
       PROVE UNCHANGED <<state, workerPc, stopPc, signals>>
    BY <1>15 DEF TaskTimeout, ReportProgress, stopVars, workerVars, endVars
<1>16. CASE ParentEnds \/ UNCHANGED vars
    BY <1>16, <1>12 DEF ParentEnds, vars, stopVars, workerVars, endVars
<1>17. ASSUME ShutdownStep(s) PROVE [Promise(s)!Next]_(Promise(s)!vars)
    BY <1>17, <1>6, <1>7, <1>8, <1>9, <1>10, <1>11 DEF ShutdownStep
<1>18. ASSUME NEW w \in Workers, WorkerStep(w) PROVE [Promise(s)!Next]_(Promise(s)!vars)
    BY <1>18, <1>2, <1>3 DEF WorkerStep
<1> HIDE DEF Promise!Next
<1> QED
    BY <1>1, <1>4, <1>5, <1>12, <1>13, <1>14, <1>15, <1>16, <1>17, <1>18
       DEF Next, SubmitStep, Rest

\* The executor implements lifecycleComponent (lifecycle.go) for a lifecycle that calls its
\* Shutdown once: nil means that every worker has left, an error that the deadline has
\* passed, and Done is sent to once.  A second call after one that expired is told nil
\* while workers are left, so with several callers this does not hold.
THEOREM MemoryIsComponent ==
    \A s \in Stoppers : Stoppers = {s} => (Spec => Promise(s)!Spec)
<1> SUFFICES ASSUME NEW s \in Stoppers, Stoppers = {s} PROVE Spec => Promise(s)!Spec
    OBVIOUS
<1>1. Init => StopperInv(s) /\ Promise(s)!Init
    BY DEF Init, StopperInv, Promise!Init, Work, Sent, Answer, Late
<1>2. IInv /\ StopperInv(s) /\ [Next]_vars => StopperInv(s)'
    BY StepStopper DEF IInv
<1>3. IInv /\ StopperInv(s) /\ [Next]_vars => [Promise(s)!Next]_(Promise(s)!vars)
    BY StepIsPromised DEF IInv
<1> QED
    BY <1>1, <1>2, <1>3, Invariant, PTL DEF Spec, Promise!Spec
================================================================================
