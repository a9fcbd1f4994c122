------------------------- MODULE TaskSupervisorProofs --------------------------
(***************************************************************************)
(* Proofs about TaskSupervisor, for every set of tasks, of which any are   *)
(* critical.                                                               *)
(***************************************************************************)
EXTENDS TaskSupervisor, SequenceTheorems, TLAPS

--------------------------------------------------------------------------------
\* The inductive invariant.

\* A task is in the channel at most once, and only when it has ended; the monitor has
\* received nothing of a task that has not.
ChannelInv ==
    /\ \A i, j \in 1..Len(results) : results[i] = results[j] => i = j
    /\ \A i \in 1..Len(results) : taskPc[results[i]] = "ended"
    /\ \A t \in Tasks : taskPc[t] # "ended" => t \in pending

\* supervisor.running holds the tasks that have not reached their critical section, and
\* is empty once a task has set out to close finished.
RunningInv ==
    /\ monitorPc = "unborn" =>
         running = {} /\ ~finished /\ \A t \in Tasks : taskPc[t] = "unborn"
    /\ monitorPc # "unborn" =>
         \A t \in Tasks : taskPc[t] # "unborn" /\ (t \in running <=> taskPc[t] \in {"running", "returned"})
    /\ \A t \in Tasks : taskPc[t] = "closing" => running = {}
    /\ finished => running = {}

\* Shutdown returns on the end of all tasks or with the names of those left; running
\* only shrinks after the names were read.
NamedInv ==
    /\ shutdownPc # "idle" => monitorPc # "unborn" /\ contextEnded
    /\ shutdownPc \in {"finished", "aborting", "completing", "joining", "returned"} =>
         running \subseteq named

\* A task that is past executeTask has a result.
ResultInv == \A t \in Tasks : taskPc[t] \notin {"unborn", "running"} => result[t] \in Results

\* The failure t is one of a critical task, and not the answer to being told to stop.
IsFailure(t) ==
    /\ t \in Critical
    /\ taskPc[t] = "ended"
    /\ stopping => result[t] \in {"error", "panic"}

\* The monitor collects failures only while it is stopping: one it met before ends its
\* loop, and nothing was reported as long as it loops.
FailureInv ==
    /\ \A t \in shutdownErr \union report : IsFailure(t)
    /\ monitorPc \in {"unborn", "selecting"} => report = {}
    /\ monitorPc \in {"unborn", "selecting"} /\ ~stopping => shutdownErr = {}

\* The monitor ends after a report or because Shutdown told it to; and Shutdown, when it
\* has, reports before it waits.
ReportInv ==
    /\ monitorFinished <=> monitorPc = "exited"
    /\ monitorPc \in {"closing", "exited"} => reported \/ abort
    /\ abort => shutdownPc \in {"completing", "joining", "returned"}
    /\ abort /\ shutdownPc \in {"joining", "returned"} => reported
    /\ shutdownPc = "returned" => monitorFinished

IInv ==
    /\ TypeOK
    /\ ChannelInv
    /\ RunningInv
    /\ NamedInv
    /\ ResultInv
    /\ FailureInv
    /\ ReportInv

--------------------------------------------------------------------------------
\* taskOutcome forgives a stopping task its nil and the error of its context.
LEMMA OutcomeWhileStopping ==
    ASSUME NEW t, result[t] \in Results, TaskOutcome(t, TRUE)
    PROVE  result[t] \in {"error", "panic"}
<1>1. CASE result[t] = "nil"
  BY <1>1 DEF TaskOutcome
<1>2. CASE result[t] = "canceled"
  BY <1>2, result[t] # "nil" DEF TaskOutcome
<1> QED
  BY <1>1, <1>2 DEF Results

\* A sequence whose elements are all in T is one over T.
LEMMA NarrowSeq ==
    ASSUME NEW S, NEW T, NEW s \in Seq(S), \A i \in 1..Len(s) : s[i] \in T
    PROVE  s \in Seq(T)
<1>1. s \in Seq(Range(s))
  BY SeqOfRange
<1>2. Range(s) \subseteq T
  BY LenProperties DEF Range
<1> QED
  BY <1>1, <1>2, SeqMonotonic

\* What is left in a channel without duplicates when its head is taken.
LEMMA TailOfInjective ==
    ASSUME NEW S, NEW s \in Seq(S), s # <<>>,
           \A i, j \in 1..Len(s) : s[i] = s[j] => i = j
    PROVE  /\ Head(s) \in S
           /\ Tail(s) \in Seq(S \ {Head(s)})
           /\ Len(Tail(s)) = Len(s) - 1
           /\ \A i \in 1..Len(Tail(s)) : Tail(s)[i] = s[i + 1]
<1>1. /\ Head(s) \in S /\ Tail(s) \in Seq(S) /\ Len(Tail(s)) = Len(s) - 1
      /\ Len(s) \in Nat /\ Len(s) > 0 /\ Head(s) = s[1]
      /\ \A i \in 1..Len(Tail(s)) : Tail(s)[i] = s[i + 1]
  OBVIOUS
<1>2. \A i \in 1..Len(Tail(s)) : Tail(s)[i] \in S \ {Head(s)}
  <2> TAKE i \in 1..Len(Tail(s))
  <2>1. Tail(s)[i] \in S
    BY <1>1
  <2>2. i + 1 \in 1..Len(s) /\ 1 \in 1..Len(s) /\ i + 1 # 1
    BY <1>1
  <2>3. s[i + 1] # s[1]
    BY <2>2
  <2> QED
    BY <1>1, <2>1, <2>3
<1>3. Tail(s) \in Seq(S \ {Head(s)})
  BY <1>1, <1>2, NarrowSeq
<1> QED
  BY <1>1, <1>3

\* The types are kept; a received task was in the channel only once.
LEMMA StepTypes ==
    ASSUME TypeOK, ChannelInv, [Next]_vars
    PROVE  TypeOK'
<1> USE DEF TypeOK, ChannelInv
<1>1. ASSUME Start PROVE TypeOK'
  BY <1>1 DEF Start, taskVars, monitorVars, shutdownVars, doneVars
<1>2. ASSUME ContextEnds PROVE TypeOK'
  BY <1>2 DEF ContextEnds, taskVars, monitorVars, shutdownVars, doneVars
<1>3. ASSUME DeadlinePasses PROVE TypeOK'
  BY <1>3 DEF DeadlinePasses, taskVars, monitorVars, shutdownVars, doneVars
<1>4. ASSUME NEW t \in Tasks, NEW r \in Results, TaskReturns(t, r) PROVE TypeOK'
  BY <1>4 DEF TaskReturns, taskVars, monitorVars, shutdownVars, doneVars
<1>5. ASSUME NEW t \in Tasks, Unregister(t) PROVE TypeOK'
  BY <1>5 DEF Unregister, taskVars, monitorVars, shutdownVars, doneVars
<1>6. ASSUME NEW t \in Tasks, CloseFinished(t) PROVE TypeOK'
  BY <1>6 DEF CloseFinished, taskVars, monitorVars, shutdownVars, doneVars
<1>7. ASSUME NEW t \in Tasks, SendResult(t) PROVE TypeOK'
  BY <1>7 DEF SendResult, taskVars, monitorVars, shutdownVars, doneVars
<1>8. ASSUME MonitorAborted PROVE TypeOK'
  BY <1>8 DEF MonitorAborted, taskVars, monitorVars, shutdownVars, doneVars
<1>9. ASSUME MonitorStopping PROVE TypeOK'
  BY <1>9 DEF MonitorStopping, taskVars, monitorVars, shutdownVars, doneVars
<1>10. ASSUME MonitorReceives PROVE TypeOK'
  <2>1. /\ Head(results) \in pending
        /\ Tail(results) \in Seq(pending \ {Head(results)})
    BY <1>10, TailOfInjective DEF MonitorReceives
  <2>2. results' \in Seq(pending')
    BY <1>10, <2>1 DEF MonitorReceives
  <2> QED
    BY <1>10, <2>1, <2>2, CriticalAssumption DEF MonitorReceives, taskVars, monitorVars, shutdownVars, doneVars
<1>11. ASSUME MonitorDrained PROVE TypeOK'
  BY <1>11 DEF MonitorDrained, taskVars, monitorVars, shutdownVars, doneVars
<1>12. ASSUME MonitorCompletes PROVE TypeOK'
  BY <1>12 DEF MonitorCompletes, Complete, taskVars, monitorVars, shutdownVars, doneVars
<1>13. ASSUME MonitorCloses PROVE TypeOK'
  BY <1>13 DEF MonitorCloses, taskVars, monitorVars, shutdownVars, doneVars
<1>14. ASSUME ShutdownBegin PROVE TypeOK'
  BY <1>14 DEF ShutdownBegin, taskVars, monitorVars, shutdownVars, doneVars
<1>15. ASSUME ShutdownSelects PROVE TypeOK'
  BY <1>15 DEF ShutdownSelects, taskVars, monitorVars, shutdownVars, doneVars
<1>16. ASSUME ShutdownNames PROVE TypeOK'
  BY <1>16 DEF ShutdownNames, taskVars, monitorVars, shutdownVars, doneVars
<1>17. ASSUME ShutdownAborts PROVE TypeOK'
  BY <1>17 DEF ShutdownAborts, taskVars, monitorVars, shutdownVars, doneVars
<1>18. ASSUME ShutdownCompletes PROVE TypeOK'
  BY <1>18 DEF ShutdownCompletes, Complete, taskVars, monitorVars, shutdownVars, doneVars
<1>19. ASSUME ShutdownJoins PROVE TypeOK'
  BY <1>19 DEF ShutdownJoins, taskVars, monitorVars, shutdownVars, doneVars
<1>20. CASE UNCHANGED vars
  BY <1>20 DEF vars, taskVars, monitorVars, shutdownVars, doneVars
<1> QED
  BY <1>1, <1>2, <1>3, <1>4, <1>5, <1>6, <1>7, <1>8, <1>9, <1>10, <1>11, <1>12, <1>13, <1>14, <1>15, <1>16, <1>17, <1>18, <1>19, <1>20 DEF Next, TaskStep, MonitorStep, ShutdownStep, Rest

\* The channel stays free of duplicates.
LEMMA StepChannel ==
    ASSUME TypeOK, RunningInv, ChannelInv, [Next]_vars
    PROVE  ChannelInv'
<1> USE DEF TypeOK, RunningInv, ChannelInv
<1>1. ASSUME Start PROVE ChannelInv'
  <2>1. \A i \in 1..Len(results) : results[i] \in Tasks
    OBVIOUS
  <2> QED
    BY <1>1, <2>1 DEF Start, monitorVars
<1>2. ASSUME ContextEnds PROVE ChannelInv'
  BY <1>2 DEF ContextEnds, taskVars, monitorVars, shutdownVars, doneVars
<1>3. ASSUME DeadlinePasses PROVE ChannelInv'
  BY <1>3 DEF DeadlinePasses, taskVars, monitorVars, shutdownVars, doneVars
<1>4. ASSUME NEW t \in Tasks, NEW r \in Results, TaskReturns(t, r) PROVE ChannelInv'
  BY <1>4 DEF TaskReturns, taskVars, monitorVars, shutdownVars, doneVars
<1>5. ASSUME NEW t \in Tasks, Unregister(t) PROVE ChannelInv'
  BY <1>5 DEF Unregister, taskVars, monitorVars, shutdownVars, doneVars
<1>6. ASSUME NEW t \in Tasks, CloseFinished(t) PROVE ChannelInv'
  BY <1>6 DEF CloseFinished, taskVars, monitorVars, shutdownVars, doneVars
<1>7. ASSUME NEW t \in Tasks, SendResult(t) PROVE ChannelInv'
  <2>1. /\ Len(results') = Len(results) + 1 /\ Len(results) \in Nat
        /\ \A i \in 1..Len(results) : results'[i] = results[i] /\ results[i] \in Tasks
        /\ results'[Len(results) + 1] = t
    BY <1>7 DEF SendResult
  <2>2. \A i \in 1..Len(results) : results[i] # t
    BY <1>7 DEF SendResult
  <2>3. \A i, j \in 1..Len(results') : results'[i] = results'[j] => i = j
    BY <2>1, <2>2
  <2>4. \A i \in 1..Len(results') : taskPc'[results'[i]] = "ended"
    BY <1>7, <2>1, <2>2 DEF SendResult
  <2> QED
    BY <1>7, <2>3, <2>4 DEF SendResult, monitorVars
<1>8. ASSUME MonitorAborted PROVE ChannelInv'
  BY <1>8 DEF MonitorAborted, taskVars, monitorVars, shutdownVars, doneVars
<1>9. ASSUME MonitorStopping PROVE ChannelInv'
  BY <1>9 DEF MonitorStopping, taskVars, monitorVars, shutdownVars, doneVars
<1>10. ASSUME MonitorReceives PROVE ChannelInv'
  <2>1. /\ Len(results') = Len(results) - 1
        /\ \A i \in 1..Len(results') : results'[i] = results[i + 1]
        /\ Len(results) \in Nat /\ Len(results) > 0
    BY <1>10, TailOfInjective DEF MonitorReceives
  <2>2. \A i \in 1..Len(results') : i + 1 \in 1..Len(results)
    BY <2>1
  <2>3. Head(results) = results[1] /\ 1 \in 1..Len(results)
    BY <2>1
  <2>4. /\ \A i, j \in 1..Len(results') : results'[i] = results'[j] => i = j
        /\ \A i \in 1..Len(results') : taskPc'[results'[i]] = "ended"
    BY <1>10, <2>1, <2>2 DEF MonitorReceives
  <2> QED
    BY <1>10, <2>3, <2>4 DEF MonitorReceives
<1>11. ASSUME MonitorDrained PROVE ChannelInv'
  BY <1>11 DEF MonitorDrained, taskVars, monitorVars, shutdownVars, doneVars
<1>12. ASSUME MonitorCompletes PROVE ChannelInv'
  BY <1>12 DEF MonitorCompletes, Complete, taskVars, monitorVars, shutdownVars, doneVars
<1>13. ASSUME MonitorCloses PROVE ChannelInv'
  BY <1>13 DEF MonitorCloses, taskVars, monitorVars, shutdownVars, doneVars
<1>14. ASSUME ShutdownBegin PROVE ChannelInv'
  BY <1>14 DEF ShutdownBegin, taskVars, monitorVars, shutdownVars, doneVars
<1>15. ASSUME ShutdownSelects PROVE ChannelInv'
  BY <1>15 DEF ShutdownSelects, taskVars, monitorVars, shutdownVars, doneVars
<1>16. ASSUME ShutdownNames PROVE ChannelInv'
  BY <1>16 DEF ShutdownNames, taskVars, monitorVars, shutdownVars, doneVars
<1>17. ASSUME ShutdownAborts PROVE ChannelInv'
  BY <1>17 DEF ShutdownAborts, taskVars, monitorVars, shutdownVars, doneVars
<1>18. ASSUME ShutdownCompletes PROVE ChannelInv'
  BY <1>18 DEF ShutdownCompletes, Complete, taskVars, monitorVars, shutdownVars, doneVars
<1>19. ASSUME ShutdownJoins PROVE ChannelInv'
  BY <1>19 DEF ShutdownJoins, taskVars, monitorVars, shutdownVars, doneVars
<1>20. CASE UNCHANGED vars
  BY <1>20 DEF vars, taskVars, monitorVars, shutdownVars, doneVars
<1> QED
  BY <1>1, <1>2, <1>3, <1>4, <1>5, <1>6, <1>7, <1>8, <1>9, <1>10, <1>11, <1>12, <1>13, <1>14, <1>15, <1>16, <1>17, <1>18, <1>19, <1>20 DEF Next, TaskStep, MonitorStep, ShutdownStep, Rest

\* The set running follows the goroutines.
LEMMA StepRunning ==
    ASSUME TypeOK, RunningInv, [Next]_vars
    PROVE  RunningInv'
<1> USE DEF TypeOK, RunningInv
<1>1. ASSUME Start PROVE RunningInv'
  BY <1>1 DEF Start, taskVars, monitorVars, shutdownVars, doneVars
<1>2. ASSUME ContextEnds PROVE RunningInv'
  BY <1>2 DEF ContextEnds, taskVars, monitorVars, shutdownVars, doneVars
<1>3. ASSUME DeadlinePasses PROVE RunningInv'
  BY <1>3 DEF DeadlinePasses, taskVars, monitorVars, shutdownVars, doneVars
<1>4. ASSUME NEW t \in Tasks, NEW r \in Results, TaskReturns(t, r) PROVE RunningInv'
  BY <1>4 DEF TaskReturns, taskVars, monitorVars, shutdownVars, doneVars
<1>5. ASSUME NEW t \in Tasks, Unregister(t) PROVE RunningInv'
  BY <1>5 DEF Unregister, taskVars, monitorVars, shutdownVars, doneVars
<1>6. ASSUME NEW t \in Tasks, CloseFinished(t) PROVE RunningInv'
  BY <1>6 DEF CloseFinished, taskVars, monitorVars, shutdownVars, doneVars
<1>7. ASSUME NEW t \in Tasks, SendResult(t) PROVE RunningInv'
  BY <1>7 DEF SendResult, taskVars, monitorVars, shutdownVars, doneVars
<1>8. ASSUME MonitorAborted PROVE RunningInv'
  BY <1>8 DEF MonitorAborted, taskVars, monitorVars, shutdownVars, doneVars
<1>9. ASSUME MonitorStopping PROVE RunningInv'
  BY <1>9 DEF MonitorStopping, taskVars, monitorVars, shutdownVars, doneVars
<1>10. ASSUME MonitorReceives PROVE RunningInv'
  BY <1>10 DEF MonitorReceives, taskVars, monitorVars, shutdownVars, doneVars
<1>11. ASSUME MonitorDrained PROVE RunningInv'
  BY <1>11 DEF MonitorDrained, taskVars, monitorVars, shutdownVars, doneVars
<1>12. ASSUME MonitorCompletes PROVE RunningInv'
  BY <1>12 DEF MonitorCompletes, Complete, taskVars, monitorVars, shutdownVars, doneVars
<1>13. ASSUME MonitorCloses PROVE RunningInv'
  BY <1>13 DEF MonitorCloses, taskVars, monitorVars, shutdownVars, doneVars
<1>14. ASSUME ShutdownBegin PROVE RunningInv'
  BY <1>14 DEF ShutdownBegin, taskVars, monitorVars, shutdownVars, doneVars
<1>15. ASSUME ShutdownSelects PROVE RunningInv'
  BY <1>15 DEF ShutdownSelects, taskVars, monitorVars, shutdownVars, doneVars
<1>16. ASSUME ShutdownNames PROVE RunningInv'
  BY <1>16 DEF ShutdownNames, taskVars, monitorVars, shutdownVars, doneVars
<1>17. ASSUME ShutdownAborts PROVE RunningInv'
  BY <1>17 DEF ShutdownAborts, taskVars, monitorVars, shutdownVars, doneVars
<1>18. ASSUME ShutdownCompletes PROVE RunningInv'
  BY <1>18 DEF ShutdownCompletes, Complete, taskVars, monitorVars, shutdownVars, doneVars
<1>19. ASSUME ShutdownJoins PROVE RunningInv'
  BY <1>19 DEF ShutdownJoins, taskVars, monitorVars, shutdownVars, doneVars
<1>20. CASE UNCHANGED vars
  BY <1>20 DEF vars, taskVars, monitorVars, shutdownVars, doneVars
<1> QED
  BY <1>1, <1>2, <1>3, <1>4, <1>5, <1>6, <1>7, <1>8, <1>9, <1>10, <1>11, <1>12, <1>13, <1>14, <1>15, <1>16, <1>17, <1>18, <1>19, <1>20 DEF Next, TaskStep, MonitorStep, ShutdownStep, Rest

\* Shutdown names the tasks it leaves.
LEMMA StepNamed ==
    ASSUME TypeOK, RunningInv, NamedInv, [Next]_vars
    PROVE  NamedInv'
<1> USE DEF TypeOK, RunningInv, NamedInv
<1>1. ASSUME Start PROVE NamedInv'
  BY <1>1 DEF Start, taskVars, monitorVars, shutdownVars, doneVars
<1>2. ASSUME ContextEnds PROVE NamedInv'
  BY <1>2 DEF ContextEnds, taskVars, monitorVars, shutdownVars, doneVars
<1>3. ASSUME DeadlinePasses PROVE NamedInv'
  BY <1>3 DEF DeadlinePasses, taskVars, monitorVars, shutdownVars, doneVars
<1>4. ASSUME NEW t \in Tasks, NEW r \in Results, TaskReturns(t, r) PROVE NamedInv'
  BY <1>4 DEF TaskReturns, taskVars, monitorVars, shutdownVars, doneVars
<1>5. ASSUME NEW t \in Tasks, Unregister(t) PROVE NamedInv'
  BY <1>5 DEF Unregister, taskVars, monitorVars, shutdownVars, doneVars
<1>6. ASSUME NEW t \in Tasks, CloseFinished(t) PROVE NamedInv'
  BY <1>6 DEF CloseFinished, taskVars, monitorVars, shutdownVars, doneVars
<1>7. ASSUME NEW t \in Tasks, SendResult(t) PROVE NamedInv'
  BY <1>7 DEF SendResult, taskVars, monitorVars, shutdownVars, doneVars
<1>8. ASSUME MonitorAborted PROVE NamedInv'
  BY <1>8 DEF MonitorAborted, taskVars, monitorVars, shutdownVars, doneVars
<1>9. ASSUME MonitorStopping PROVE NamedInv'
  BY <1>9 DEF MonitorStopping, taskVars, monitorVars, shutdownVars, doneVars
<1>10. ASSUME MonitorReceives PROVE NamedInv'
  BY <1>10 DEF MonitorReceives, taskVars, monitorVars, shutdownVars, doneVars
<1>11. ASSUME MonitorDrained PROVE NamedInv'
  BY <1>11 DEF MonitorDrained, taskVars, monitorVars, shutdownVars, doneVars
<1>12. ASSUME MonitorCompletes PROVE NamedInv'
  BY <1>12 DEF MonitorCompletes, Complete, taskVars, monitorVars, shutdownVars, doneVars
<1>13. ASSUME MonitorCloses PROVE NamedInv'
  BY <1>13 DEF MonitorCloses, taskVars, monitorVars, shutdownVars, doneVars
<1>14. ASSUME ShutdownBegin PROVE NamedInv'
  BY <1>14 DEF ShutdownBegin, taskVars, monitorVars, shutdownVars, doneVars
<1>15. ASSUME ShutdownSelects PROVE NamedInv'
  BY <1>15 DEF ShutdownSelects, taskVars, monitorVars, shutdownVars, doneVars
<1>16. ASSUME ShutdownNames PROVE NamedInv'
  BY <1>16 DEF ShutdownNames, taskVars, monitorVars, shutdownVars, doneVars
<1>17. ASSUME ShutdownAborts PROVE NamedInv'
  BY <1>17 DEF ShutdownAborts, taskVars, monitorVars, shutdownVars, doneVars
<1>18. ASSUME ShutdownCompletes PROVE NamedInv'
  BY <1>18 DEF ShutdownCompletes, Complete, taskVars, monitorVars, shutdownVars, doneVars
<1>19. ASSUME ShutdownJoins PROVE NamedInv'
  BY <1>19 DEF ShutdownJoins, taskVars, monitorVars, shutdownVars, doneVars
<1>20. CASE UNCHANGED vars
  BY <1>20 DEF vars, taskVars, monitorVars, shutdownVars, doneVars
<1> QED
  BY <1>1, <1>2, <1>3, <1>4, <1>5, <1>6, <1>7, <1>8, <1>9, <1>10, <1>11, <1>12, <1>13, <1>14, <1>15, <1>16, <1>17, <1>18, <1>19, <1>20 DEF Next, TaskStep, MonitorStep, ShutdownStep, Rest

\* A result is set before its task moves on.
LEMMA StepResult ==
    ASSUME TypeOK, ResultInv, [Next]_vars
    PROVE  ResultInv'
<1> USE DEF TypeOK, ResultInv
<1>1. ASSUME Start PROVE ResultInv'
  BY <1>1 DEF Start, taskVars, monitorVars, shutdownVars, doneVars
<1>2. ASSUME ContextEnds PROVE ResultInv'
  BY <1>2 DEF ContextEnds, taskVars, monitorVars, shutdownVars, doneVars
<1>3. ASSUME DeadlinePasses PROVE ResultInv'
  BY <1>3 DEF DeadlinePasses, taskVars, monitorVars, shutdownVars, doneVars
<1>4. ASSUME NEW t \in Tasks, NEW r \in Results, TaskReturns(t, r) PROVE ResultInv'
  BY <1>4 DEF TaskReturns, taskVars, monitorVars, shutdownVars, doneVars
<1>5. ASSUME NEW t \in Tasks, Unregister(t) PROVE ResultInv'
  BY <1>5 DEF Unregister, taskVars, monitorVars, shutdownVars, doneVars
<1>6. ASSUME NEW t \in Tasks, CloseFinished(t) PROVE ResultInv'
  BY <1>6 DEF CloseFinished, taskVars, monitorVars, shutdownVars, doneVars
<1>7. ASSUME NEW t \in Tasks, SendResult(t) PROVE ResultInv'
  BY <1>7 DEF SendResult, taskVars, monitorVars, shutdownVars, doneVars
<1>8. ASSUME MonitorAborted PROVE ResultInv'
  BY <1>8 DEF MonitorAborted, taskVars, monitorVars, shutdownVars, doneVars
<1>9. ASSUME MonitorStopping PROVE ResultInv'
  BY <1>9 DEF MonitorStopping, taskVars, monitorVars, shutdownVars, doneVars
<1>10. ASSUME MonitorReceives PROVE ResultInv'
  BY <1>10 DEF MonitorReceives, taskVars, monitorVars, shutdownVars, doneVars
<1>11. ASSUME MonitorDrained PROVE ResultInv'
  BY <1>11 DEF MonitorDrained, taskVars, monitorVars, shutdownVars, doneVars
<1>12. ASSUME MonitorCompletes PROVE ResultInv'
  BY <1>12 DEF MonitorCompletes, Complete, taskVars, monitorVars, shutdownVars, doneVars
<1>13. ASSUME MonitorCloses PROVE ResultInv'
  BY <1>13 DEF MonitorCloses, taskVars, monitorVars, shutdownVars, doneVars
<1>14. ASSUME ShutdownBegin PROVE ResultInv'
  BY <1>14 DEF ShutdownBegin, taskVars, monitorVars, shutdownVars, doneVars
<1>15. ASSUME ShutdownSelects PROVE ResultInv'
  BY <1>15 DEF ShutdownSelects, taskVars, monitorVars, shutdownVars, doneVars
<1>16. ASSUME ShutdownNames PROVE ResultInv'
  BY <1>16 DEF ShutdownNames, taskVars, monitorVars, shutdownVars, doneVars
<1>17. ASSUME ShutdownAborts PROVE ResultInv'
  BY <1>17 DEF ShutdownAborts, taskVars, monitorVars, shutdownVars, doneVars
<1>18. ASSUME ShutdownCompletes PROVE ResultInv'
  BY <1>18 DEF ShutdownCompletes, Complete, taskVars, monitorVars, shutdownVars, doneVars
<1>19. ASSUME ShutdownJoins PROVE ResultInv'
  BY <1>19 DEF ShutdownJoins, taskVars, monitorVars, shutdownVars, doneVars
<1>20. CASE UNCHANGED vars
  BY <1>20 DEF vars, taskVars, monitorVars, shutdownVars, doneVars
<1> QED
  BY <1>1, <1>2, <1>3, <1>4, <1>5, <1>6, <1>7, <1>8, <1>9, <1>10, <1>11, <1>12, <1>13, <1>14, <1>15, <1>16, <1>17, <1>18, <1>19, <1>20 DEF Next, TaskStep, MonitorStep, ShutdownStep, Rest

\* The monitor collects failures.
LEMMA StepFailure ==
    ASSUME TypeOK, ChannelInv, RunningInv, ResultInv, FailureInv, [Next]_vars
    PROVE  FailureInv'
<1> USE DEF TypeOK, ChannelInv, RunningInv, ResultInv, FailureInv, IsFailure
<1>1. ASSUME Start PROVE FailureInv'
  BY <1>1 DEF Start, taskVars, monitorVars, shutdownVars, doneVars
<1>2. ASSUME ContextEnds PROVE FailureInv'
  BY <1>2 DEF ContextEnds, taskVars, monitorVars, shutdownVars, doneVars
<1>3. ASSUME DeadlinePasses PROVE FailureInv'
  BY <1>3 DEF DeadlinePasses, taskVars, monitorVars, shutdownVars, doneVars
<1>4. ASSUME NEW t \in Tasks, NEW r \in Results, TaskReturns(t, r) PROVE FailureInv'
  BY <1>4 DEF TaskReturns, taskVars, monitorVars, shutdownVars, doneVars
<1>5. ASSUME NEW t \in Tasks, Unregister(t) PROVE FailureInv'
  BY <1>5 DEF Unregister, taskVars, monitorVars, shutdownVars, doneVars
<1>6. ASSUME NEW t \in Tasks, CloseFinished(t) PROVE FailureInv'
  BY <1>6 DEF CloseFinished, taskVars, monitorVars, shutdownVars, doneVars
<1>7. ASSUME NEW t \in Tasks, SendResult(t) PROVE FailureInv'
  BY <1>7 DEF SendResult, taskVars, monitorVars, shutdownVars, doneVars
<1>8. ASSUME MonitorAborted PROVE FailureInv'
  BY <1>8 DEF MonitorAborted, taskVars, monitorVars, shutdownVars, doneVars
<1>9. ASSUME MonitorStopping PROVE FailureInv'
  BY <1>9 DEF MonitorStopping, taskVars, monitorVars, shutdownVars, doneVars
<1>10. ASSUME MonitorReceives PROVE FailureInv'
  <2> DEFINE t == Head(results)
  <2>1. t \in Tasks /\ taskPc[t] = "ended" /\ result[t] \in Results
    <3>1. Len(results) \in Nat /\ Len(results) > 0 /\ t = results[1]
      BY <1>10 DEF MonitorReceives
    <3> QED
      BY <3>1
  <2>2. /\ UNCHANGED <<taskPc, result, report>>
        /\ monitorPc = "selecting"
        /\ stopping' \in BOOLEAN /\ (stopping => stopping')
    BY <1>10 DEF MonitorReceives, doneVars
  <2>3. CASE t \in Critical /\ TaskOutcome(t, stopping')
    <3>1. shutdownErr' = shutdownErr \union {t}
      BY <1>10, <2>3 DEF MonitorReceives
    <3>2. stopping' => result[t] \in {"error", "panic"}
      <4> SUFFICES ASSUME stopping' PROVE result[t] \in {"error", "panic"}
        OBVIOUS
      <4>1. stopping' = TRUE
        BY <2>2
      <4>2. TaskOutcome(t, TRUE)
        BY <2>3, <4>1
      <4> QED
        BY <2>1, <4>2, OutcomeWhileStopping
    <3>3. ~stopping' => monitorPc' = "completing"
      BY <1>10, <2>3 DEF MonitorReceives
    <3>4. \A u \in shutdownErr' \union report' : IsFailure(u)'
      <4>1. ASSUME NEW u \in shutdownErr PROVE IsFailure(u)'
        BY <2>2, <4>1
      <4> QED
        BY <2>1, <2>2, <2>3, <3>1, <3>2, <4>1
    <3> QED
      BY <2>2, <3>3, <3>4
  <2>4. CASE ~(t \in Critical /\ TaskOutcome(t, stopping'))
    <3>1. shutdownErr' = shutdownErr /\ monitorPc' = monitorPc
      BY <1>10, <2>4 DEF MonitorReceives
    <3> QED
      BY <2>2, <3>1
  <2> QED
    BY <2>3, <2>4
<1>11. ASSUME MonitorDrained PROVE FailureInv'
  BY <1>11 DEF MonitorDrained, taskVars, monitorVars, shutdownVars, doneVars
<1>12. ASSUME MonitorCompletes PROVE FailureInv'
  BY <1>12 DEF MonitorCompletes, Complete, taskVars, monitorVars, shutdownVars, doneVars
<1>13. ASSUME MonitorCloses PROVE FailureInv'
  BY <1>13 DEF MonitorCloses, taskVars, monitorVars, shutdownVars, doneVars
<1>14. ASSUME ShutdownBegin PROVE FailureInv'
  BY <1>14 DEF ShutdownBegin, taskVars, monitorVars, shutdownVars, doneVars
<1>15. ASSUME ShutdownSelects PROVE FailureInv'
  BY <1>15 DEF ShutdownSelects, taskVars, monitorVars, shutdownVars, doneVars
<1>16. ASSUME ShutdownNames PROVE FailureInv'
  BY <1>16 DEF ShutdownNames, taskVars, monitorVars, shutdownVars, doneVars
<1>17. ASSUME ShutdownAborts PROVE FailureInv'
  BY <1>17 DEF ShutdownAborts, taskVars, monitorVars, shutdownVars, doneVars
<1>18. ASSUME ShutdownCompletes PROVE FailureInv'
  BY <1>18 DEF ShutdownCompletes, Complete, taskVars, monitorVars, shutdownVars, doneVars
<1>19. ASSUME ShutdownJoins PROVE FailureInv'
  BY <1>19 DEF ShutdownJoins, taskVars, monitorVars, shutdownVars, doneVars
<1>20. CASE UNCHANGED vars
  BY <1>20 DEF vars, taskVars, monitorVars, shutdownVars, doneVars
<1> QED
  BY <1>1, <1>2, <1>3, <1>4, <1>5, <1>6, <1>7, <1>8, <1>9, <1>10, <1>11, <1>12, <1>13, <1>14, <1>15, <1>16, <1>17, <1>18, <1>19, <1>20 DEF Next, TaskStep, MonitorStep, ShutdownStep, Rest

\* The monitor ends after a report.
LEMMA StepReport ==
    ASSUME TypeOK, ReportInv, [Next]_vars
    PROVE  ReportInv'
<1> USE DEF TypeOK, ReportInv
<1>1. ASSUME Start PROVE ReportInv'
  BY <1>1 DEF Start, taskVars, monitorVars, shutdownVars, doneVars
<1>2. ASSUME ContextEnds PROVE ReportInv'
  BY <1>2 DEF ContextEnds, taskVars, monitorVars, shutdownVars, doneVars
<1>3. ASSUME DeadlinePasses PROVE ReportInv'
  BY <1>3 DEF DeadlinePasses, taskVars, monitorVars, shutdownVars, doneVars
<1>4. ASSUME NEW t \in Tasks, NEW r \in Results, TaskReturns(t, r) PROVE ReportInv'
  BY <1>4 DEF TaskReturns, taskVars, monitorVars, shutdownVars, doneVars
<1>5. ASSUME NEW t \in Tasks, Unregister(t) PROVE ReportInv'
  BY <1>5 DEF Unregister, taskVars, monitorVars, shutdownVars, doneVars
<1>6. ASSUME NEW t \in Tasks, CloseFinished(t) PROVE ReportInv'
  BY <1>6 DEF CloseFinished, taskVars, monitorVars, shutdownVars, doneVars
<1>7. ASSUME NEW t \in Tasks, SendResult(t) PROVE ReportInv'
  BY <1>7 DEF SendResult, taskVars, monitorVars, shutdownVars, doneVars
<1>8. ASSUME MonitorAborted PROVE ReportInv'
  BY <1>8 DEF MonitorAborted, taskVars, monitorVars, shutdownVars, doneVars
<1>9. ASSUME MonitorStopping PROVE ReportInv'
  BY <1>9 DEF MonitorStopping, taskVars, monitorVars, shutdownVars, doneVars
<1>10. ASSUME MonitorReceives PROVE ReportInv'
  BY <1>10 DEF MonitorReceives, taskVars, monitorVars, shutdownVars, doneVars
<1>11. ASSUME MonitorDrained PROVE ReportInv'
  BY <1>11 DEF MonitorDrained, taskVars, monitorVars, shutdownVars, doneVars
<1>12. ASSUME MonitorCompletes PROVE ReportInv'
  BY <1>12 DEF MonitorCompletes, Complete, taskVars, monitorVars, shutdownVars, doneVars
<1>13. ASSUME MonitorCloses PROVE ReportInv'
  BY <1>13 DEF MonitorCloses, taskVars, monitorVars, shutdownVars, doneVars
<1>14. ASSUME ShutdownBegin PROVE ReportInv'
  BY <1>14 DEF ShutdownBegin, taskVars, monitorVars, shutdownVars, doneVars
<1>15. ASSUME ShutdownSelects PROVE ReportInv'
  BY <1>15 DEF ShutdownSelects, taskVars, monitorVars, shutdownVars, doneVars
<1>16. ASSUME ShutdownNames PROVE ReportInv'
  BY <1>16 DEF ShutdownNames, taskVars, monitorVars, shutdownVars, doneVars
<1>17. ASSUME ShutdownAborts PROVE ReportInv'
  BY <1>17 DEF ShutdownAborts, taskVars, monitorVars, shutdownVars, doneVars
<1>18. ASSUME ShutdownCompletes PROVE ReportInv'
  BY <1>18 DEF ShutdownCompletes, Complete, taskVars, monitorVars, shutdownVars, doneVars
<1>19. ASSUME ShutdownJoins PROVE ReportInv'
  BY <1>19 DEF ShutdownJoins, taskVars, monitorVars, shutdownVars, doneVars
<1>20. CASE UNCHANGED vars
  BY <1>20 DEF vars, taskVars, monitorVars, shutdownVars, doneVars
<1> QED
  BY <1>1, <1>2, <1>3, <1>4, <1>5, <1>6, <1>7, <1>8, <1>9, <1>10, <1>11, <1>12, <1>13, <1>14, <1>15, <1>16, <1>17, <1>18, <1>19, <1>20 DEF Next, TaskStep, MonitorStep, ShutdownStep, Rest

--------------------------------------------------------------------------------
\* The invariant holds at the start.
LEMMA InitInv == Init => IInv
<1> SUFFICES ASSUME Init PROVE IInv
  OBVIOUS
<1>1. TypeOK
  BY EmptySeq, CriticalAssumption DEF Init, TypeOK, Results
<1>2. ChannelInv /\ RunningInv /\ NamedInv /\ ResultInv /\ FailureInv /\ ReportInv
  BY DEF Init, ChannelInv, RunningInv, NamedInv, ResultInv, FailureInv, ReportInv
<1> QED
  BY <1>1, <1>2 DEF IInv

\* Every step keeps the invariant.
LEMMA StepInv == IInv /\ [Next]_vars => IInv'
  BY StepTypes, StepChannel, StepRunning, StepNamed, StepResult, StepFailure, StepReport DEF IInv

\* So it always holds.
LEMMA Inductive == Spec => []IInv
  BY InitInv, StepInv, PTL DEF Spec

\* Every variable keeps its type, and the results in the channel are of tasks the monitor
\* still waits for: no result of run (task.go) is sent or counted twice.
THEOREM TypeCorrect == Spec => []TypeOK
  BY Inductive, PTL DEF IInv

\* A nil error of Shutdown means that every task has returned, and any other names all
\* that have not (Shutdown and runningNames).
THEOREM UnstoppedNamed == Spec => []UnstoppedAreNamed
<1>1. IInv => UnstoppedAreNamed
  BY DEF IInv, RunningInv, NamedInv, UnstoppedAreNamed
<1> QED
  BY <1>1, Inductive, PTL

\* Only failures of critical tasks reach the lifecycle, and never the error of the
\* context with which a task answers the stop (monitor, taskOutcome and complete).
THEOREM OnlyCriticalAreReported == Spec => []OnlyCriticalReported
<1>1. IInv => OnlyCriticalReported
  BY DEF IInv, FailureInv, IsFailure, OnlyCriticalReported
<1> QED
  BY <1>1, Inductive, PTL

\* When Shutdown returns, the lifecycle has been sent a report, on every path through
\* the two selects and the abort of the monitor.
THEOREM ReturnedIsReported == Spec => []ReportedWhenReturned
<1>1. IInv => ReportedWhenReturned
  BY DEF IInv, ReportInv, ReportedWhenReturned
<1> QED
  BY <1>1, Inductive, PTL

--------------------------------------------------------------------------------
\* The supervisor is the component runLifecycle expects.

\* Shutdown looks for the names of stuck tasks only after its deadline.
LateInv ==
    /\ shutdownPc \in {"naming", "aborting", "completing"} => deadline
    /\ named # {} => deadline

LEMMA StepLate ==
    ASSUME TypeOK, LateInv, [Next]_vars
    PROVE  LateInv'
<1> USE DEF TypeOK, LateInv
<1>1. ASSUME UNCHANGED <<shutdownPc, named>>, deadline => deadline' PROVE LateInv'
  BY <1>1
<1>2. ASSUME \/ Start \/ ContextEnds \/ DeadlinePasses \/ MonitorStep \/ Rest
             \/ \E t \in Tasks : TaskStep(t)
      PROVE  UNCHANGED <<shutdownPc, named>> /\ (deadline => deadline')
  BY <1>2 DEF Start, ContextEnds, DeadlinePasses, Rest, TaskStep, TaskReturns, Unregister,
    CloseFinished, SendResult, MonitorStep, MonitorAborted, MonitorStopping, MonitorReceives,
    MonitorDrained, MonitorCompletes, MonitorCloses, vars, shutdownVars
<1>3. ASSUME ShutdownBegin \/ ShutdownSelects PROVE LateInv'
  BY <1>3 DEF ShutdownBegin, ShutdownSelects
<1>4. ASSUME ShutdownNames PROVE LateInv'
  BY <1>4 DEF ShutdownNames
<1>5. ASSUME ShutdownAborts \/ ShutdownCompletes \/ ShutdownJoins PROVE LateInv'
  BY <1>5 DEF ShutdownAborts, ShutdownCompletes, ShutdownJoins
<1>6. CASE UNCHANGED vars
  BY <1>6 DEF vars, shutdownVars
<1> QED
  BY <1>1, <1>2, <1>3, <1>4, <1>5, <1>6 DEF Next, ShutdownStep

\* What the three views of the supervisor say of its state.
LEMMA Views ==
    /\ Work = "new" <=> monitorPc = "unborn"
    /\ Work = "stopped" <=> monitorPc # "unborn" /\ \A t \in Tasks : taskPc[t] # "running"
    /\ Work \in {"new", "working", "stopped"}
    /\ Sent = "none" <=> ~reported
    /\ Answer = "none" <=> shutdownPc # "returned"
<1>1. CASE monitorPc = "unborn"
  BY <1>1 DEF Work, Sent, Answer
<1>2. CASE monitorPc # "unborn" /\ \E t \in Tasks : taskPc[t] = "running"
  BY <1>2 DEF Work, Sent, Answer
<1>3. CASE monitorPc # "unborn" /\ ~ \E t \in Tasks : taskPc[t] = "running"
  BY <1>3 DEF Work, Sent, Answer
<1> QED
  BY <1>1, <1>2, <1>3

\* Each view is a matter of few variables.
LEMMA ViewFrames ==
    /\ UNCHANGED <<monitorPc, taskPc>> => Work' = Work
    /\ UNCHANGED <<reported, report>> => Sent' = Sent
    /\ UNCHANGED <<shutdownPc, named>> => Answer' = Answer
<1>1. UNCHANGED <<monitorPc, taskPc>> => Work' = Work
  BY DEF Work
<1>2. UNCHANGED <<reported, report>> => Sent' = Sent
  BY DEF Sent
<1>3. UNCHANGED <<shutdownPc, named>> => Answer' = Answer
  BY DEF Answer
<1> QED
  BY <1>1, <1>2, <1>3

\* A move of the monitor to another place does not show in the work.
LEMMA MonitorMoves ==
    ASSUME UNCHANGED taskPc, monitorPc # "unborn", monitorPc' # "unborn"
    PROVE  Work' = Work
  BY DEF Work

\* The error of the first report is the one that was sent.
LEMMA CompleteIsSignal ==
    ASSUME NEW errs, Complete(errs), reported \in BOOLEAN, UNCHANGED deadline,
           Answer' = Answer, Work' = Work, Work # "new"
    PROVE  (\E a \in Contract!Answers : Contract!Signal(a)) \/ UNCHANGED Contract!vars
<1>1. CASE reported
  <2>1. UNCHANGED <<reported, report>>
    BY <1>1 DEF Complete
  <2>2. Sent' = Sent
    BY <2>1, ViewFrames
  <2> QED
    BY <2>2 DEF Contract!vars
<1>2. CASE ~reported
  <2>1. Sent = "none"
    BY <1>2 DEF Sent
  <2>2. Sent' \in Contract!Answers
    BY <1>2 DEF Complete, Sent, Contract!Answers
  <2> QED
    BY <2>1, <2>2 DEF Contract!Signal
<1> QED
  BY <1>1, <1>2

\* Every step of the supervisor is a step of the contract, or none.
LEMMA StepIsContract ==
    ASSUME IInv, IInv', LateInv, LateInv', [Next]_vars
    PROVE  [Contract!Next]_(Contract!vars)
<1> USE Views, ViewFrames DEF IInv, TypeOK, Contract!vars, Contract!Next
<1>1. ASSUME Start PROVE Contract!Start
  <2>1. UNCHANGED <<reported, report, shutdownPc, named, deadline>> /\ monitorPc = "unborn"
    BY <1>1 DEF Start, shutdownVars, doneVars
  <2>2. Work' = "working"
    <3>1. monitorPc' # "unborn" /\ \A t \in Tasks : taskPc'[t] = "running"
      BY <1>1 DEF Start
    <3>2. \E t \in Tasks : taskPc'[t] = "running"
      BY <3>1, TasksAssumption
    <3> QED
      BY <3>1, <3>2 DEF Work
  <2> QED
    BY <2>1, <2>2 DEF Contract!Start
<1>2. ASSUME NEW t \in Tasks, NEW r \in Results, TaskReturns(t, r)
      PROVE  Contract!End \/ UNCHANGED Contract!vars
  <2>1. /\ UNCHANGED <<reported, report, shutdownPc, named, deadline, monitorPc>>
        /\ taskPc[t] = "running" /\ taskPc' = [taskPc EXCEPT ![t] = "returned"]
    BY <1>2 DEF TaskReturns, shutdownVars, doneVars, monitorVars
  <2>2. Work = "working"
    BY <2>1 DEF RunningInv
  <2>3. Work' \in {"working", "stopped"}
    BY <2>1, <2>2 DEF Work
  <2> QED
    BY <2>1, <2>2, <2>3 DEF Contract!End
<1>3. ASSUME NEW t \in Tasks, Unregister(t) \/ CloseFinished(t) \/ SendResult(t)
      PROVE  UNCHANGED Contract!vars
  <2>1. /\ UNCHANGED <<reported, report, shutdownPc, named, deadline, monitorPc>>
        /\ \A u \in Tasks : taskPc'[u] = "running" <=> taskPc[u] = "running"
    BY <1>3 DEF Unregister, CloseFinished, SendResult, shutdownVars, doneVars, monitorVars
  <2>2. Work' = Work
    BY <2>1 DEF Work
  <2> QED
    BY <2>1, <2>2
<1>4. ASSUME ContextEnds PROVE UNCHANGED Contract!vars
  BY <1>4 DEF ContextEnds, taskVars, monitorVars, shutdownVars, doneVars
<1>5. ASSUME DeadlinePasses PROVE Contract!DeadlinePasses
  BY <1>5 DEF DeadlinePasses, Contract!DeadlinePasses, taskVars, monitorVars, shutdownVars, doneVars
<1>6. ASSUME MonitorAborted \/ MonitorStopping \/ MonitorReceives \/ MonitorDrained \/ MonitorCloses
      PROVE  UNCHANGED Contract!vars
  <2>1. /\ UNCHANGED <<taskPc, reported, report, shutdownPc, named, deadline>>
        /\ monitorPc # "unborn" /\ monitorPc' # "unborn"
    BY <1>6 DEF MonitorAborted, MonitorStopping, MonitorReceives, MonitorDrained, MonitorCloses,
      taskVars, shutdownVars, doneVars
  <2> QED
    BY <2>1, MonitorMoves
<1>7. ASSUME MonitorCompletes
      PROVE  (\E a \in Contract!Answers : Contract!Signal(a)) \/ UNCHANGED Contract!vars
  <2>1. /\ Complete(shutdownErr) /\ UNCHANGED <<taskPc, shutdownPc, named, deadline>>
        /\ monitorPc # "unborn" /\ monitorPc' # "unborn"
    BY <1>7 DEF MonitorCompletes, taskVars, shutdownVars
  <2> QED
    BY <2>1, MonitorMoves, CompleteIsSignal
<1>8. ASSUME ShutdownCompletes
      PROVE  (\E a \in Contract!Answers : Contract!Signal(a)) \/ UNCHANGED Contract!vars
  <2>1. /\ Complete({}) /\ UNCHANGED <<taskPc, monitorPc, named, deadline>>
        /\ shutdownPc = "completing" /\ shutdownPc' = "joining" /\ monitorPc # "unborn"
    BY <1>8 DEF ShutdownCompletes, NamedInv, taskVars, monitorVars
  <2>2. Answer' = Answer /\ Work' = Work /\ Work # "new"
    BY <2>1 DEF Answer
  <2> QED
    BY <2>1, <2>2, CompleteIsSignal
<1>9. ASSUME ShutdownBegin \/ ShutdownNames \/ ShutdownAborts
      PROVE  UNCHANGED Contract!vars
  <2>1. /\ UNCHANGED <<taskPc, monitorPc, reported, report, deadline>>
        /\ shutdownPc # "returned" /\ shutdownPc' # "returned"
    BY <1>9 DEF ShutdownBegin, ShutdownNames, ShutdownAborts, taskVars, monitorVars, doneVars
  <2>2. Answer' = Answer
    BY <2>1 DEF Answer
  <2> QED
    BY <2>1, <2>2
<1>10. ASSUME ShutdownSelects \/ ShutdownJoins
       PROVE  (\E a \in Contract!Answers : Contract!Return(a)) \/ UNCHANGED Contract!vars
  <2>1. /\ UNCHANGED <<taskPc, monitorPc, reported, report, deadline, named>>
        /\ shutdownPc # "returned" /\ shutdownPc # "idle"
    BY <1>10 DEF ShutdownSelects, ShutdownJoins, taskVars, monitorVars, doneVars
  <2>2. CASE shutdownPc' # "returned"
    <3>1. Answer' = Answer
      BY <2>1, <2>2 DEF Answer
    <3> QED
      BY <2>1, <3>1
  <2>3. CASE shutdownPc' = "returned"
    <3>1. monitorPc # "unborn" /\ Work # "new" /\ Answer = "none"
      BY <2>1 DEF NamedInv
    <3>2. reported /\ Sent # "none"
      BY <2>1, <2>3 DEF ReportInv
    <3>3. running' \subseteq named /\ UNCHANGED running
      BY <1>10, <2>1, <2>3 DEF NamedInv, ShutdownSelects, ShutdownJoins, taskVars
    <3>4. CASE named = {}
      <4>1. Answer' = "nil"
        BY <2>1, <2>3, <3>4 DEF Answer
      <4>2. Work = "stopped"
        BY <3>1, <3>3, <3>4 DEF RunningInv
      <4> QED
        BY <2>1, <3>1, <3>2, <4>1, <4>2 DEF Contract!Return, Contract!Answers
    <3>5. CASE named # {}
      <4>1. Answer' = "error" /\ deadline
        BY <2>1, <2>3, <3>5 DEF Answer, LateInv
      <4> QED
        BY <2>1, <3>1, <3>2, <4>1 DEF Contract!Return, Contract!Answers
    <3> QED
      BY <3>4, <3>5
  <2> QED
    BY <2>2, <2>3
<1>11. ASSUME Rest \/ UNCHANGED vars PROVE UNCHANGED Contract!vars
  BY <1>11 DEF Rest, vars, taskVars, monitorVars, shutdownVars, doneVars
<1> QED
  BY <1>1, <1>2, <1>3, <1>4, <1>5, <1>6, <1>7, <1>8, <1>9, <1>10, <1>11
     DEF Next, TaskStep, MonitorStep, ShutdownStep

\* The task supervisor implements lifecycleComponent (lifecycle.go): nil from its Shutdown
\* means that all tasks have returned, an error that the deadline has passed, and either
\* that Done was sent to before, once.
THEOREM SupervisorIsComponent == Spec => ImplementsComponent
<1>1. Init => LateInv /\ Contract!Init
  BY DEF Init, LateInv, Contract!Init, Work, Sent, Answer
<1>2. IInv /\ LateInv /\ [Next]_vars => LateInv'
  BY StepLate DEF IInv
<1>3. IInv /\ IInv' /\ LateInv /\ LateInv' /\ [Next]_vars => [Contract!Next]_(Contract!vars)
  BY StepIsContract
<1> QED
  BY <1>1, <1>2, <1>3, Inductive, PTL DEF Spec, ImplementsComponent, Contract!Spec
================================================================================
