---------------------------- MODULE DevRunnerProofs ----------------------------
(***************************************************************************)
(* Proofs about DevRunner, for every number of files, edits, builds and    *)
(* children.                                                               *)
(***************************************************************************)
EXTENDS DevRunner, TLAPS

--------------------------------------------------------------------------------
\* The inductive invariant.

Stopping == {"stop", "waiting", "killing", "killed"}
Ended == {"close", "closing", "returned"}

\* Where a new executable waits to be started, and where an old one may be restored.
HasCandidate == pc = "start" \/ (pc \in Stopping /\ caller = "swap")
MayRestore == pc \in {"start", "restore"}

\* The application is known while it is being stopped, and gone before a start.
ProcessInv ==
    /\ pc \in Stopping => process # 0
    /\ pc \in {"start", "restore"} \union Ended => process = 0
    /\ process = 0 <=> binary = 0

\* The candidate, the old and the current executable are never the same file.
BinaryInv ==
    /\ {binary, old, candidate} \ {0} \subseteq binaries
    /\ candidate # 0 <=> HasCandidate
    /\ old # 0 => MayRestore
    /\ pc = "restore" => old # 0
    /\ candidate # 0 => candidate \notin {binary, old}
    /\ pc = "building" => builds \notin binaries /\ builds # 0

\* Every executable is known to somebody, or lost.
KnownInv == binaries \subseteq {binary, old, candidate} \union leaked

\* No other application runs.
ChildInv ==
    \A i \in DOMAIN children :
        children[i] = "runs" => i = process \/ (failed /\ pc \in Ended)

IInv ==
    /\ TypeOK
    /\ ProcessInv
    /\ BinaryInv
    /\ KnownInv
    /\ ChildInv

--------------------------------------------------------------------------------
\* The steps.

\* The types are kept.
LEMMA StepTypes ==
    ASSUME TypeOK, ProcessInv, BinaryInv, [Next]_vars
    PROVE  TypeOK'
<1> USE CapacityAssumption DEF TypeOK, Removed, Places
<1>1. ASSUME NEW f \in Files, Edit(f) PROVE TypeOK'
  <2>1. PICK v \in {edits + 1, Removed} : disk' = [disk EXCEPT ![f] = v]
    BY <1>1 DEF Edit
  <2>2. edits' = edits + 1 /\ edits < MaxEdits
    BY <1>1 DEF Edit
  <2>3. v \in 0..Removed
    BY <2>1, <2>2
  <2>4. disk' \in [Files -> 0..Removed]
    BY <2>1, <2>3
  <2> QED
    BY <1>1, <2>2, <2>4 DEF Edit, sourceVars, watcherVars, swapVars, buildVars, runVars
<1>2. ASSUME ContextEnds PROVE TypeOK'
  BY <1>2 DEF ContextEnds, sourceVars, watcherVars, swapVars, buildVars, runVars
<1>3. ASSUME NEW i \in DOMAIN children, ChildExits(i) PROVE TypeOK'
  <2>1. children' \in Seq({"runs", "gone", "done"}) /\ Len(children') = Len(children)
    BY <1>3 DEF ChildExits
  <2> QED
    BY <1>3, <2>1 DEF ChildExits, sourceVars, watcherVars, swapVars, buildVars, runVars
<1>4. ASSUME NEW i \in DOMAIN children, ChildDone(i) PROVE TypeOK'
  <2>1. children' \in Seq({"runs", "gone", "done"}) /\ Len(children') = Len(children)
    BY <1>4 DEF ChildDone
  <2> QED
    BY <1>4, <2>1 DEF ChildDone, sourceVars, watcherVars, swapVars, buildVars, runVars
<1>5. ASSUME Tick PROVE TypeOK'
  BY <1>5 DEF Tick, sourceVars, watcherVars, swapVars, buildVars, runVars
<1>6. ASSUME NEW f \in Files, ScanFile(f) PROVE TypeOK'
  BY <1>6 DEF ScanFile, sourceVars, watcherVars, swapVars, buildVars, runVars
<1>7. ASSUME ScanFails PROVE TypeOK'
  BY <1>7 DEF ScanFails, sourceVars, watcherVars, swapVars, buildVars, runVars
<1>8. ASSUME ScanEnds PROVE TypeOK'
  BY <1>8 DEF ScanEnds, sourceVars, watcherVars, swapVars, buildVars, runVars
<1>9. ASSUME NEW f \in Files, ReportChange(f) PROVE TypeOK'
  BY <1>9 DEF ReportChange, sourceVars, watcherVars, swapVars, buildVars, runVars
<1>10. ASSUME TakeSnapshot PROVE TypeOK'
  BY <1>10 DEF TakeSnapshot, sourceVars, watcherVars, swapVars, buildVars, runVars
<1>11. ASSUME WatcherStops PROVE TypeOK'
  BY <1>11 DEF WatcherStops, sourceVars, watcherVars, swapVars, buildVars, runVars
<1>12. ASSUME TimerFires PROVE TypeOK'
  BY <1>12 DEF TimerFires, sourceVars, watcherVars, swapVars, buildVars, runVars
<1>13. ASSUME SelectContext PROVE TypeOK'
  BY <1>13 DEF SelectContext, sourceVars, watcherVars, swapVars, buildVars, runVars
<1>14. ASSUME NEW bad \in BOOLEAN, SelectChange(bad) PROVE TypeOK'
  BY <1>14 DEF SelectChange, Return, sourceVars, watcherVars, swapVars, buildVars, runVars
<1>15. ASSUME NEW bad \in BOOLEAN, SelectTimer(bad) PROVE TypeOK'
  BY <1>15 DEF SelectTimer, sourceVars, watcherVars, swapVars, buildVars, runVars
<1>16. ASSUME NEW bad \in BOOLEAN, SelectError(bad) PROVE TypeOK'
  BY <1>16 DEF SelectError, Return, sourceVars, watcherVars, swapVars, buildVars, runVars
<1>17. ASSUME NEW bad \in BOOLEAN, SelectExit(bad) PROVE TypeOK'
  <2>1. /\ process' \in {0, process} /\ binary' \in {0, binary} /\ binaries' \subseteq binaries
        /\ pc' \in Places /\ failed' \in BOOLEAN /\ caller' = caller
    BY <1>17 DEF SelectExit, Return
  <2> QED
    BY <1>17, <2>1 DEF SelectExit, sourceVars, watcherVars, buildVars
<1>18. ASSUME BuildBegins PROVE TypeOK'
  BY <1>18 DEF BuildBegins, sourceVars, watcherVars, swapVars, buildVars, runVars
<1>19. ASSUME NEW ok \in BOOLEAN, NEW bad \in BOOLEAN, BuildEnds(ok, bad) PROVE TypeOK'
  <2>1. pc = "building" /\ builds \in 1..builds
    BY <1>19 DEF BuildEnds, BinaryInv
  <2>2. /\ candidate' \in {candidate, builds} /\ binaries' \subseteq binaries \union {builds}
        /\ pc' \in Places /\ failed' \in BOOLEAN /\ caller' \in {"swap", caller}
    <3>1. CASE ok
      BY <1>19, <3>1 DEF BuildEnds
    <3>2. CASE ~ok
      BY <1>19, <3>2 DEF BuildEnds, Return
    <3> QED
      BY <3>1, <3>2
  <2> QED
    BY <1>19, <2>1, <2>2 DEF BuildEnds, sourceVars, watcherVars, buildVars
<1>20. ASSUME NEW ok \in BOOLEAN, NEW bad \in BOOLEAN, StartChild(ok, bad) PROVE TypeOK'
  <2>0. UNCHANGED <<sourceVars, watcherVars, changes, errors, timer, leaked, buildVars, contextEnded>>
    BY <1>20 DEF StartChild
  <2>1. CASE ok
    <3>1. /\ children' = Append(children, "runs") /\ process' = Len(children')
          /\ binary' = candidate /\ binaries' = binaries \ {old} /\ old' = 0 /\ candidate' = 0
          /\ Return(bad)
      BY <1>20, <2>1 DEF StartChild
    <3>2. children' \in Seq({"runs", "gone", "done"}) /\ process' \in 0..Len(children')
      BY <3>1
    <3> QED
      BY <2>0, <3>1, <3>2 DEF Return, sourceVars, watcherVars, buildVars
  <2>2. CASE ~ok
    <3>1. /\ UNCHANGED <<children, process, binary, old, caller>>
          /\ binaries' = binaries \ {candidate} /\ candidate' = 0
          /\ pc' \in Places /\ failed' \in BOOLEAN
      BY <1>20, <2>2 DEF StartChild, Return
    <3> QED
      BY <2>0, <3>1 DEF sourceVars, watcherVars, buildVars
  <2> QED
    BY <2>1, <2>2
<1>21. ASSUME NEW ok \in BOOLEAN, NEW bad \in BOOLEAN, Restore(ok, bad) PROVE TypeOK'
  <2>0. /\ UNCHANGED <<sourceVars, watcherVars, changes, errors, timer, candidate, binaries, buildVars, contextEnded>>
        /\ Return(bad) /\ old' = 0 /\ old \in 1..builds
    BY <1>21 DEF Restore, BinaryInv
  <2>1. CASE ok
    <3>1. /\ children' = Append(children, "runs") /\ process' = Len(children')
          /\ binary' = old /\ UNCHANGED leaked
      BY <1>21, <2>1 DEF Restore
    <3>2. children' \in Seq({"runs", "gone", "done"}) /\ process' \in 0..Len(children')
      BY <3>1
    <3> QED
      BY <2>0, <3>1, <3>2 DEF Return, sourceVars, watcherVars, buildVars
  <2>2. CASE ~ok
    <3>1. UNCHANGED <<children, process, binary>> /\ leaked' = leaked \union {old}
      BY <1>21, <2>2 DEF Restore
    <3> QED
      BY <2>0, <3>1 DEF Return, sourceVars, watcherVars, buildVars
  <2> QED
    BY <2>1, <2>2
<1>22. ASSUME NEW bad \in BOOLEAN, StopStep(bad) PROVE TypeOK'
  <2>0. UNCHANGED <<sourceVars, watcherVars, changes, errors, timer, leaked, buildVars, contextEnded>>
    BY <1>22 DEF StopStep
  <2>1. \/ children' = children
        \/ children' = [children EXCEPT ![process] = IF @ = "runs" THEN "gone" ELSE @] /\ pc = "killing"
    BY <1>22 DEF StopStep
  <2>2. children' \in Seq({"runs", "gone", "done"}) /\ Len(children') = Len(children)
    <3>1. pc = "killing" => process \in 1..Len(children)
      BY DEF ProcessInv, Stopping
    <3>2. ASSUME NEW x \in {"runs", "gone", "done"}, process \in 1..Len(children)
          PROVE  /\ [children EXCEPT ![process] = x] \in Seq({"runs", "gone", "done"})
                 /\ Len([children EXCEPT ![process] = x]) = Len(children)
      BY <3>2
    <3>3. process \in 1..Len(children) => (IF children[process] = "runs" THEN "gone" ELSE children[process]) \in {"runs", "gone", "done"}
      OBVIOUS
    <3> QED
      BY <2>1, <3>1, <3>2, <3>3
  <2>3. (\E o \in BOOLEAN : StopReturns(o, bad)) \/ \E next \in {"waiting", "killing", "killed"} : Moves(next)
    BY <1>22 DEF StopStep
  <2>4. /\ pc' \in Places /\ caller' = caller /\ failed' \in BOOLEAN
        /\ process' \in {0, process} /\ binary' \in {0, binary} /\ old' \in {binary, old}
        /\ candidate' \in {0, candidate} /\ binaries' \subseteq binaries
    <3>1. ASSUME NEW next \in {"waiting", "killing", "killed"}, Moves(next) PROVE <2>4!:
      BY <3>1 DEF Moves
    <3>2. ASSUME NEW o \in BOOLEAN, StopReturns(o, bad) PROVE <2>4!:
      BY <3>2 DEF StopReturns, Return
    <3> QED
      BY <2>3, <3>1, <3>2
  <2> QED
    BY <2>0, <2>2, <2>4 DEF sourceVars, watcherVars, buildVars
<1>23. ASSUME Final PROVE TypeOK'
  BY <1>23 DEF Final, sourceVars, watcherVars, swapVars, buildVars, runVars
<1>24. CASE UNCHANGED vars
  BY <1>24 DEF vars, sourceVars, watcherVars, swapVars, buildVars, runVars
<1> QED
  BY <1>1, <1>2, <1>3, <1>4, <1>5, <1>6, <1>7, <1>8, <1>9, <1>10, <1>11, <1>12, <1>13, <1>14, <1>15, <1>16, <1>17, <1>18, <1>19, <1>20, <1>21, <1>22, <1>23, <1>24 DEF Next, Scan, Swap, Rest

kept == <<pc, caller, failed, process, binary, candidate, old, children, binaries, leaked, builds>>

\* The watcher, the timer and the surroundings do not touch the application.
LEMMA Kept ==
    ASSUME IInv, UNCHANGED kept
    PROVE  (ProcessInv /\ BinaryInv /\ KnownInv /\ ChildInv)'
<1>1. ProcessInv'
  BY DEF IInv, kept, ProcessInv
<1>2. BinaryInv'
  BY DEF IInv, kept, BinaryInv, HasCandidate, MayRestore
<1>3. KnownInv'
  BY DEF IInv, kept, KnownInv
<1>4. ChildInv'
  BY DEF IInv, kept, ChildInv
<1> QED
  BY <1>1, <1>2, <1>3, <1>4

\* Run goes on to another place with the application and the executables as they are.
LEMMA GoesOn ==
    ASSUME IInv, UNCHANGED <<caller, process, binary, candidate, old, children, binaries, leaked, builds>>,
           failed => failed', pc \in {"loop", "building"}, pc' \in {"loop", "final", "build"}
    PROVE  (ProcessInv /\ BinaryInv /\ KnownInv /\ ChildInv)'
<1> USE DEF Stopping, Ended
<1>1. ProcessInv'
  BY DEF IInv, ProcessInv
<1>2. BinaryInv'
  BY DEF IInv, BinaryInv, HasCandidate, MayRestore
<1>3. KnownInv'
  BY DEF IInv, KnownInv
<1>4. ChildInv'
  BY DEF IInv, ChildInv
<1> QED
  BY <1>1, <1>2, <1>3, <1>4

\* The application has ended and its executable is removed.
LEMMA ExitKeeps ==
    ASSUME IInv, NEW bad \in BOOLEAN, SelectExit(bad)
    PROVE  (ProcessInv /\ BinaryInv /\ KnownInv /\ ChildInv)'
<1>0. pc = "loop" /\ pc' \in {"loop", "final"} /\ (failed => failed') /\ process # 0 /\ children[process] = "done"
  BY DEF SelectExit, Return
<1>1. CASE bad
  <2>1. UNCHANGED <<caller, process, binary, candidate, old, children, binaries, leaked, builds>>
    BY <1>1 DEF SelectExit, Return, buildVars
  <2> QED
    BY <1>0, <2>1, GoesOn
<1>2. CASE ~bad
  <2>1. /\ process' = 0 /\ binary' = 0 /\ binaries' = binaries \ {binary}
        /\ UNCHANGED <<caller, candidate, old, children, leaked, builds>>
    BY <1>2 DEF SelectExit, Return, buildVars
  <2> USE <1>0, <2>1 DEF IInv, Stopping, Ended
  <2>2. old = 0 /\ candidate = 0
    BY DEF BinaryInv, HasCandidate, MayRestore
  <2>3. ProcessInv'
    BY DEF ProcessInv
  <2>4. BinaryInv'
    BY <2>2 DEF BinaryInv, HasCandidate, MayRestore
  <2>5. KnownInv'
    BY DEF KnownInv
  <2>6. ChildInv'
    BY DEF ChildInv
  <2> QED
    BY <2>3, <2>4, <2>5, <2>6
<1> QED
  BY <1>1, <1>2

\* A child ends, by itself or killed.
LEMMA ChildKeeps ==
    ASSUME IInv, NEW i \in DOMAIN children, NEW x \in {"gone", "done"}, children' = [children EXCEPT ![i] = x],
           UNCHANGED <<caller, failed, process, binary, candidate, old, binaries, leaked, builds>>,
           pc' = pc \/ (pc \in Stopping /\ pc' \in Stopping)
    PROVE  (ProcessInv /\ BinaryInv /\ KnownInv /\ ChildInv)'
<1> USE DEF Stopping, Ended
<1>1. ProcessInv'
  BY DEF IInv, ProcessInv
<1>2. BinaryInv'
  BY DEF IInv, BinaryInv, HasCandidate, MayRestore
<1>3. KnownInv'
  BY DEF IInv, KnownInv
<1>4. ChildInv'
  <2>1. DOMAIN children' = DOMAIN children /\ \A j \in DOMAIN children : children'[j] = "runs" => children[j] = "runs"
    OBVIOUS
  <2> QED
    BY <2>1 DEF IInv, ChildInv
<1> QED
  BY <1>1, <1>2, <1>3, <1>4

\* A build that begins keeps the invariant.
LEMMA BuildBeginsKeeps ==
    ASSUME IInv, BuildBegins
    PROVE  (ProcessInv /\ BinaryInv /\ KnownInv /\ ChildInv)'
<1>1. /\ pc = "build" /\ pc' = "building" /\ builds' = builds + 1
      /\ UNCHANGED <<caller, failed, process, binary, candidate, old, children, binaries, leaked>>
  BY DEF BuildBegins, swapVars
<1> USE <1>1 DEF IInv, Stopping, Ended
<1>2. ProcessInv'
  BY DEF ProcessInv
<1>3. BinaryInv'
  <2>1. builds' \notin binaries /\ builds' # 0
    BY DEF TypeOK
  <2> QED
    BY <2>1 DEF BinaryInv, HasCandidate, MayRestore
<1>4. KnownInv'
  BY DEF KnownInv
<1>5. ChildInv'
  BY DEF ChildInv
<1> QED
  BY <1>2, <1>3, <1>4, <1>5

\* A build that ends keeps it; the binary it made is nobody's yet.
LEMMA BuildEndsKeeps ==
    ASSUME IInv, NEW ok \in BOOLEAN, NEW bad \in BOOLEAN, BuildEnds(ok, bad)
    PROVE  (ProcessInv /\ BinaryInv /\ KnownInv /\ ChildInv)'
<1>0. pc = "building" /\ UNCHANGED <<process, binary, old, children, leaked, builds>>
  BY DEF BuildEnds, buildVars
<1>1. CASE ~ok
  <2>1. UNCHANGED <<caller, candidate, binaries>> /\ pc' \in {"loop", "final", "build"} /\ (failed => failed')
    BY <1>1 DEF BuildEnds, Return
  <2> QED
    BY <1>0, <2>1, GoesOn
<1>2. CASE ok
  <2>1. /\ candidate' = builds /\ binaries' = binaries \union {builds}
        /\ pc' = (IF process # 0 THEN "stop" ELSE "start") /\ caller' = "swap" /\ failed' = failed
    BY <1>2 DEF BuildEnds
  <2> USE <1>0, <2>1 DEF IInv, Stopping, Ended
  <2>2. old = 0 /\ candidate = 0 /\ builds \notin binaries /\ builds # 0
    BY DEF BinaryInv, HasCandidate, MayRestore
  <2>3. ProcessInv'
    BY DEF ProcessInv
  <2>4. BinaryInv'
    BY <2>2 DEF BinaryInv, HasCandidate, MayRestore
  <2>5. KnownInv'
    BY <2>2 DEF KnownInv
  <2>6. ChildInv'
    BY DEF ChildInv
  <2> QED
    BY <2>3, <2>4, <2>5, <2>6
<1> QED
  BY <1>1, <1>2

\* No application runs where one is started.
LEMMA NoneRuns ==
    ASSUME IInv, pc \in {"start", "restore"}
    PROVE  \A i \in DOMAIN children : children[i] # "runs"
<1>1. process = 0 /\ pc \notin Ended
  BY DEF IInv, ProcessInv, Ended
<1>2. 0 \notin DOMAIN children
  BY DEF IInv, TypeOK
<1> QED
  BY <1>1, <1>2 DEF IInv, ChildInv

\* The one that is started is the only one.
LEMMA StartedAlone ==
    ASSUME IInv, pc \in {"start", "restore"}, children' = Append(children, "runs"), process' = Len(children')
    PROVE  ChildInv'
<1>1. DOMAIN children = 1..Len(children) /\ DOMAIN children' = 1..Len(children) + 1 /\ Len(children') = Len(children) + 1
  BY DEF IInv, TypeOK
<1>2. \A i \in 1..Len(children) : children'[i] = children[i]
  BY DEF IInv, TypeOK
<1>3. \A i \in DOMAIN children' : i \in DOMAIN children \/ i = process'
  BY <1>1 DEF IInv, TypeOK
<1> QED
  BY <1>1, <1>2, <1>3, NoneRuns DEF ChildInv

\* The start of the new application keeps it; a start that fails leaves the old binary to go back to.
LEMMA StartKeeps ==
    ASSUME IInv, NEW ok \in BOOLEAN, NEW bad \in BOOLEAN, StartChild(ok, bad)
    PROVE  (ProcessInv /\ BinaryInv /\ KnownInv /\ ChildInv)'
<1>0. pc = "start" /\ candidate' = 0 /\ UNCHANGED <<leaked, builds>>
  BY DEF StartChild, buildVars
<1>a. process = 0 /\ binary = 0 /\ candidate # 0 /\ candidate \in binaries /\ candidate # old /\ (old # 0 => old \in binaries)
  BY <1>0 DEF IInv, ProcessInv, BinaryInv, HasCandidate
<1> USE <1>0, <1>a DEF Stopping, Ended
<1>1. CASE ok
  <2>1. /\ children' = Append(children, "runs") /\ process' = Len(children') /\ binary' = candidate
        /\ binaries' = binaries \ {old} /\ old' = 0 /\ pc' \in {"loop", "final"}
    BY <1>1 DEF StartChild, Return
  <2>2. process' # 0
    BY <2>1 DEF IInv, TypeOK
  <2>3. ProcessInv'
    BY <2>1, <2>2 DEF ProcessInv
  <2>4. BinaryInv'
    BY <2>1 DEF BinaryInv, HasCandidate, MayRestore
  <2>5. KnownInv'
    BY <2>1 DEF IInv, KnownInv, TypeOK
  <2>6. ChildInv'
    BY <2>1, StartedAlone
  <2> QED
    BY <2>3, <2>4, <2>5, <2>6
<1>2. CASE ~ok
  <2>1. /\ UNCHANGED <<children, process, binary, old>> /\ binaries' = binaries \ {candidate}
        /\ old # 0 => pc' = "restore"
        /\ old = 0 => pc' \in {"loop", "final"}
    BY <1>2 DEF StartChild, Return
  <2>2. pc' \in {"loop", "final", "restore"}
    BY <2>1
  <2>3. ProcessInv'
    BY <2>1, <2>2 DEF ProcessInv
  <2>4. BinaryInv'
    BY <2>1, <2>2 DEF BinaryInv, HasCandidate, MayRestore
  <2>5. KnownInv'
    BY <2>1 DEF IInv, KnownInv
  <2>6. ChildInv'
    BY <2>1, NoneRuns DEF ChildInv
  <2> QED
    BY <2>3, <2>4, <2>5, <2>6
<1> QED
  BY <1>1, <1>2

\* Going back to the old binary keeps it.
LEMMA RestoreKeeps ==
    ASSUME IInv, NEW ok \in BOOLEAN, NEW bad \in BOOLEAN, Restore(ok, bad)
    PROVE  (ProcessInv /\ BinaryInv /\ KnownInv /\ ChildInv)'
<1>0. pc = "restore" /\ old' = 0 /\ pc' \in {"loop", "final"} /\ UNCHANGED <<candidate, binaries, builds>>
  BY DEF Restore, Return, buildVars
<1>a. process = 0 /\ binary = 0 /\ candidate = 0 /\ old # 0 /\ old \in binaries
  BY <1>0 DEF IInv, ProcessInv, BinaryInv, HasCandidate, Stopping
<1> USE <1>0, <1>a DEF Stopping, Ended
<1>1. CASE ok
  <2>1. /\ children' = Append(children, "runs") /\ process' = Len(children') /\ binary' = old
        /\ UNCHANGED leaked
    BY <1>1 DEF Restore
  <2>2. process' # 0
    BY <2>1 DEF IInv, TypeOK
  <2>3. ProcessInv'
    BY <2>1, <2>2 DEF ProcessInv
  <2>4. BinaryInv'
    BY <2>1 DEF BinaryInv, HasCandidate, MayRestore
  <2>5. KnownInv'
    BY <2>1 DEF IInv, KnownInv
  <2>6. ChildInv'
    BY <2>1, StartedAlone
  <2> QED
    BY <2>3, <2>4, <2>5, <2>6
<1>2. CASE ~ok
  <2>1. UNCHANGED <<children, process, binary>> /\ leaked' = leaked \union {old}
    BY <1>2 DEF Restore
  <2>3. ProcessInv'
    BY <2>1 DEF ProcessInv
  <2>4. BinaryInv'
    BY <2>1 DEF BinaryInv, HasCandidate, MayRestore
  <2>5. KnownInv'
    BY <2>1 DEF IInv, KnownInv
  <2>6. ChildInv'
    BY <2>1, NoneRuns DEF ChildInv
  <2> QED
    BY <2>3, <2>4, <2>5, <2>6
<1> QED
  BY <1>1, <1>2

\* Stop answers: a swap that goes on has an application that has ended, one that is given
\* up still knows it, and at the end a failure to stop it is reported.
LEMMA StopReturnsKeeps ==
    ASSUME IInv, NEW ok \in BOOLEAN, NEW bad \in BOOLEAN, pc \in Stopping, StopReturns(ok, bad),
           ok => children[process] = "done", UNCHANGED <<children, leaked, builds>>
    PROVE  (ProcessInv /\ BinaryInv /\ KnownInv /\ ChildInv)'
<1> USE DEF Stopping, Ended
<1>a. process # 0 /\ binary # 0 /\ binary \in binaries /\ old = 0 /\ (candidate # 0 <=> caller = "swap")
  BY DEF IInv, ProcessInv, BinaryInv, HasCandidate, MayRestore
<1>b. candidate # 0 => candidate \in binaries /\ candidate # binary
  BY DEF IInv, BinaryInv
<1>c. \A i \in DOMAIN children : children[i] = "runs" => i = process
  BY DEF IInv, ChildInv
<1>1. CASE caller = "swap" /\ ok
  <2>1. /\ process' = 0 /\ binary' = 0 /\ old' = binary /\ pc' = "start"
        /\ UNCHANGED <<caller, failed, candidate, binaries>>
    BY <1>1 DEF StopReturns
  <2>3. ProcessInv'
    BY <2>1 DEF ProcessInv
  <2>4. BinaryInv'
    BY <1>1, <1>a, <1>b, <2>1 DEF BinaryInv, HasCandidate, MayRestore
  <2>5. KnownInv'
    BY <1>a, <2>1 DEF IInv, KnownInv
  <2>6. ChildInv'
    BY <1>1, <1>c, <2>1 DEF ChildInv
  <2> QED
    BY <2>3, <2>4, <2>5, <2>6
<1>2. CASE caller = "swap" /\ ~ok
  <2>1. /\ binaries' = binaries \ {candidate} /\ candidate' = 0 /\ pc' \in {"loop", "final"}
        /\ UNCHANGED <<process, binary, old, caller>>
    BY <1>2 DEF StopReturns, Return
  <2>3. ProcessInv'
    BY <1>a, <2>1 DEF ProcessInv
  <2>4. BinaryInv'
    BY <1>2, <1>a, <1>b, <2>1 DEF BinaryInv, HasCandidate, MayRestore
  <2>5. KnownInv'
    BY <2>1 DEF IInv, KnownInv
  <2>6. ChildInv'
    BY <1>c, <2>1 DEF ChildInv
  <2> QED
    BY <2>3, <2>4, <2>5, <2>6
<1>3. CASE caller = "final"
  <2>1. /\ process' = 0 /\ binary' = 0 /\ binaries' = binaries \ {binary} /\ pc' = "close"
        /\ UNCHANGED <<caller, candidate, old>>
    BY <1>3 DEF StopReturns
  <2>2. ~ok => failed'
    BY <1>3 DEF StopReturns
  <2>3. ProcessInv'
    BY <2>1 DEF ProcessInv
  <2>4. BinaryInv'
    BY <1>3, <1>a, <2>1 DEF BinaryInv, HasCandidate, MayRestore
  <2>5. KnownInv'
    BY <2>1 DEF IInv, KnownInv
  <2>6. ChildInv'
    BY <1>c, <2>1, <2>2 DEF ChildInv
  <2> QED
    BY <2>3, <2>4, <2>5, <2>6
<1> QED
  BY <1>1, <1>2, <1>3 DEF IInv, TypeOK

\* A step of the stop of the old application keeps it.
LEMMA StopKeeps ==
    ASSUME IInv, NEW bad \in BOOLEAN, StopStep(bad)
    PROVE  (ProcessInv /\ BinaryInv /\ KnownInv /\ ChildInv)'
<1>0. UNCHANGED <<leaked, builds>> /\ pc \in Stopping
  BY DEF StopStep, buildVars, Stopping
<1>1. ASSUME NEW next \in Stopping, Moves(next), children' = children
      PROVE  (ProcessInv /\ BinaryInv /\ KnownInv /\ ChildInv)'
  <2>1. pc' \in Stopping /\ UNCHANGED <<caller, failed, process, binary, candidate, old, binaries, children>>
    BY <1>1 DEF Moves
  <2> USE <1>0, <2>1 DEF Stopping, Ended
  <2>2. ProcessInv'
    BY DEF IInv, ProcessInv
  <2>3. BinaryInv'
    BY DEF IInv, BinaryInv, HasCandidate, MayRestore
  <2>4. KnownInv'
    BY DEF IInv, KnownInv
  <2>5. ChildInv'
    BY DEF IInv, ChildInv
  <2> QED
    BY <2>2, <2>3, <2>4, <2>5
<1>2. ASSUME pc = "killing", Moves("killed"),
             children' = [children EXCEPT ![process] = IF @ = "runs" THEN "gone" ELSE @]
      PROVE  (ProcessInv /\ BinaryInv /\ KnownInv /\ ChildInv)'
  <2>1. process \in DOMAIN children
    BY <1>2 DEF IInv, TypeOK, ProcessInv, Stopping
  <2>2. pc' \in Stopping /\ UNCHANGED <<caller, failed, process, binary, candidate, old, binaries>>
    BY <1>2 DEF Moves, Stopping
  <2>3. CASE children[process] = "runs"
    <3>1. children' = [children EXCEPT ![process] = "gone"]
      BY <1>2, <2>3
    <3> QED
      BY <1>0, <2>1, <2>2, <3>1, ChildKeeps
  <2>4. CASE children[process] # "runs"
    <3>1. children' = children
      BY <1>2, <2>1, <2>4 DEF IInv, TypeOK
    <3> QED
      BY <1>1, <1>2, <3>1 DEF Stopping
  <2> QED
    BY <2>3, <2>4
<1>3. ASSUME StopReturns(FALSE, bad), children' = children
      PROVE  (ProcessInv /\ BinaryInv /\ KnownInv /\ ChildInv)'
  BY <1>0, <1>3, StopReturnsKeeps
<1>4. ASSUME StopReturns(TRUE, bad), children[process] = "done", children' = children
      PROVE  (ProcessInv /\ BinaryInv /\ KnownInv /\ ChildInv)'
  BY <1>0, <1>4, StopReturnsKeeps
<1>5. \/ Moves("waiting") /\ children' = children
      \/ Moves("killing") /\ children' = children
      \/ /\ pc = "killing" /\ Moves("killed")
         /\ children' = [children EXCEPT ![process] = IF @ = "runs" THEN "gone" ELSE @]
      \/ StopReturns(FALSE, bad) /\ children' = children
      \/ StopReturns(TRUE, bad) /\ children[process] = "done" /\ children' = children
  BY DEF StopStep
<1> QED
  BY <1>1, <1>2, <1>3, <1>4, <1>5 DEF Stopping

\* The last stop keeps it.
LEMMA FinalKeeps ==
    ASSUME IInv, Final
    PROVE  (ProcessInv /\ BinaryInv /\ KnownInv /\ ChildInv)'
<1>0. UNCHANGED <<process, binary, candidate, old, children, binaries, leaked, builds, failed>>
  BY DEF Final, swapVars, buildVars
<1>1. \/ pc = "final" /\ caller' = "final" /\ pc' = IF process = 0 THEN "close" ELSE "stop"
      \/ pc = "close" /\ pc' = "closing" /\ caller' = caller
      \/ pc = "closing" /\ pc' = "returned" /\ caller' = caller
  BY DEF Final
<1> USE <1>0, <1>1 DEF IInv, Stopping, Ended
<1>2. ProcessInv'
  BY DEF ProcessInv
<1>3. BinaryInv'
  BY DEF BinaryInv, HasCandidate, MayRestore
<1>4. KnownInv'
  BY DEF KnownInv
<1>5. ChildInv'
  BY DEF ChildInv
<1> QED
  BY <1>2, <1>3, <1>4, <1>5

\* Every step keeps the invariant.
LEMMA StepInv == IInv /\ [Next]_vars => IInv'
<1> SUFFICES ASSUME IInv, [Next]_vars PROVE IInv'
  OBVIOUS
<1> DEFINE Rest4 == (ProcessInv /\ BinaryInv /\ KnownInv /\ ChildInv)'
<1>0. TypeOK'
  BY StepTypes DEF IInv
<1>1. CASE UNCHANGED kept
  BY <1>0, <1>1, Kept DEF IInv
<1>2. ASSUME Scan \/ ScanFails \/ TimerFires \/ ContextEnds \/ (\E f \in Files : Edit(f)) \/ Rest \/ UNCHANGED vars
      PROVE  IInv'
  <2>1. UNCHANGED kept
    BY <1>2 DEF Scan, Tick, ScanEnds, TakeSnapshot, WatcherStops, ScanFile, ReportChange, ScanFails, TimerFires,
                ContextEnds, Edit, Rest, vars, swapVars, runVars, buildVars, kept
  <2> QED
    BY <1>1, <2>1
<1>3. ASSUME NEW i \in DOMAIN children, ChildExits(i) \/ ChildDone(i) PROVE Rest4
  <2>1. /\ \E x \in {"gone", "done"} : children' = [children EXCEPT ![i] = x]
        /\ UNCHANGED <<pc, caller, failed, process, binary, candidate, old, binaries, leaked, builds>>
    BY <1>3 DEF ChildExits, ChildDone, runVars, buildVars
  <2> QED
    BY <2>1, ChildKeeps
<1>4. ASSUME NEW bad \in BOOLEAN, SelectContext \/ SelectChange(bad) \/ SelectTimer(bad) \/ SelectError(bad)
      PROVE  Rest4
  <2>1. /\ pc = "loop" /\ pc' \in {"loop", "final", "build"} /\ (failed => failed')
        /\ UNCHANGED <<caller, process, binary, candidate, old, children, binaries, leaked, builds>>
    <3>1. CASE SelectContext
      BY <3>1 DEF SelectContext, swapVars, buildVars
    <3>2. CASE SelectChange(bad)
      BY <3>2 DEF SelectChange, Return, swapVars, buildVars
    <3>3. CASE SelectTimer(bad)
      BY <3>3 DEF SelectTimer, swapVars, buildVars
    <3>4. CASE SelectError(bad)
      BY <3>4 DEF SelectError, Return, swapVars, buildVars
    <3> QED
      BY <1>4, <3>1, <3>2, <3>3, <3>4
  <2> QED
    BY <2>1, GoesOn
<1>5. ASSUME NEW bad \in BOOLEAN, SelectExit(bad) PROVE Rest4
  BY <1>5, ExitKeeps
<1>6. ASSUME NEW bad \in BOOLEAN, Swap(bad) PROVE Rest4
  BY <1>6, BuildBeginsKeeps, BuildEndsKeeps, StartKeeps, RestoreKeeps, StopKeeps, FinalKeeps DEF Swap
<1>7. Rest4 => IInv'
  BY <1>0 DEF IInv
<1> HIDE DEF Rest4
<1>8. TRUE \in BOOLEAN
  OBVIOUS
<1> QED
  BY <1>2, <1>3, <1>4, <1>5, <1>6, <1>7, <1>8 DEF Next

\* The invariant holds at the start.
LEMMA InitInv == Init => IInv
<1> SUFFICES ASSUME Init PROVE IInv
  OBVIOUS
<1> USE DEF Init
<1>1. TypeOK
  <2>1. children \in Seq({"runs", "gone", "done"}) /\ process \in 0..Len(children)
    OBVIOUS
  <2>2. disk \in [Files -> 0..Removed] /\ snapshot \in [Files -> 0..Removed] /\ current \in [Files -> 0..Removed]
    BY CapacityAssumption DEF Removed
  <2>3. /\ edits \in 0..MaxEdits /\ changes \in 0..Capacity /\ errors \in 0..Capacity /\ builds \in Nat
        /\ seen \in 0..edits /\ binary \in 0..builds /\ candidate \in 0..builds /\ old \in 0..builds
    BY CapacityAssumption
  <2>4. todo \subseteq Files /\ binaries \subseteq 1..builds /\ leaked \subseteq 1..builds
    OBVIOUS
  <2>5. /\ watcher \in {"idle", "scanning", "reporting", "stopped"} /\ timer \in {"off", "armed", "fired"}
        /\ pc \in Places /\ caller \in {"swap", "final"}
    BY DEF Places
  <2>6. contextEnded \in BOOLEAN /\ failed \in BOOLEAN
    OBVIOUS
  <2> QED
    BY <2>1, <2>2, <2>3, <2>4, <2>5, <2>6 DEF TypeOK
<1>2. ProcessInv
  BY DEF ProcessInv, Stopping, Ended
<1>3. BinaryInv
  BY DEF BinaryInv, HasCandidate, MayRestore, Stopping
<1>4. KnownInv /\ ChildInv
  BY DEF KnownInv, ChildInv
<1> QED
  BY <1>1, <1>2, <1>3, <1>4 DEF IInv

\* So it always holds.
LEMMA Inductive == Spec => []IInv
  BY InitInv, StepInv, PTL DEF Spec

--------------------------------------------------------------------------------
\* The results.

\* Every variable of Run, the watcher and the children keeps its type, so that the two
\* channels never hold more than they can.
THEOREM TypeCorrect == Spec => []TypeOK
<1>1. IInv => TypeOK
  BY DEF IInv
<1> QED
  BY <1>1, Inductive, PTL

\* However edits, builds, failed starts and failed stops follow each other: at most one
\* application runs and the runner knows it, the executables it needs exist, and those it
\* could remove are gone when Run returns.
THEOREM OneApplicationRuns == Spec => []OneApplication
<1>1. IInv => OneApplication
  <2> SUFFICES ASSUME IInv PROVE OneApplication
    OBVIOUS
  <2>1. \A i \in DOMAIN children :
          children[i] = "runs" => i = process \/ (failed /\ pc \in {"close", "closing", "returned"})
    BY DEF IInv, ChildInv, Ended
  <2>2. {binary, old} \ {0} \subseteq binaries
    BY DEF IInv, BinaryInv
  <2>3. ASSUME pc = "returned" PROVE binaries \subseteq leaked
    <3>1. binary = 0 /\ old = 0 /\ candidate = 0
      BY <2>3 DEF IInv, ProcessInv, BinaryInv, HasCandidate, MayRestore, Stopping, Ended
    <3>2. 0 \notin binaries
      BY DEF IInv, TypeOK
    <3> QED
      BY <3>1, <3>2 DEF IInv, KnownInv
  <2> QED
    BY <2>1, <2>2, <2>3 DEF OneApplication
<1> QED
  BY <1>1, Inductive, PTL
================================================================================
