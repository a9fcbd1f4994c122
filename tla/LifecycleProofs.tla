--------------------------- MODULE LifecycleProofs -----------------------------
(***************************************************************************)
(* Proofs about Lifecycle, for every number of components and of hooks.    *)
(***************************************************************************)
EXTENDS Lifecycle, FiniteSetTheorems, TLAPS

--------------------------------------------------------------------------------
\* The inductive invariant.

Starting == {"idle", "startHooks", "starting"}

\* Components are started one after the other, and until the wait is over nothing has
\* been read, failed or been shut down.
StartInv ==
    /\ pc \in {"idle", "startHooks"} => started = {}
    /\ pc = "starting" => index \in 1..N + 1 /\ started = 1..index - 1
    /\ pc \in Starting => results = {}
    /\ pc \in Starting \union {"waiting"} => received = 0 /\ read = {}
    /\ pc \in Starting \union {"waiting", "stopping"} => shut = {}

\* The loop over the components goes down from the last; behind it all are shut down.
ShutInv ==
    /\ pc = "shutdown" => index \in 0..N /\ \A c \in started : c > index => c \in shut
    /\ pc \in {"collecting", "stopHooks", "returned"} => shut = started

\* A result that was forwarded is one the component has sent.
ForwardInv == \A c \in results \union read : signal[c] # "none"

\* As long as no error was recorded the start was complete, the count of the results is
\* that of the components read, and these and the ones shut down have ended well.
CleanInv ==
    ~err =>
        /\ pc \notin Starting => started = Components
        /\ received = Cardinality(read)
        /\ \A c \in read : signal[c] = "nil"
        /\ \A c \in shut : work[c] = "stopped"
        /\ pc \in {"stopHooks", "returned"} => received >= Expected

IInv ==
    /\ TypeOK
    /\ StartInv
    /\ ShutInv
    /\ ForwardInv
    /\ CleanInv

--------------------------------------------------------------------------------
\* The components that were started are finitely many; Expected is their number.
LEMMA ExpectedIsCount ==
    ASSUME TypeOK
    PROVE  /\ IsFiniteSet(started)
           /\ Expected \in Nat
           /\ started # {} => Expected > 0
           /\ \A i \in Nat : started = 1..i => Expected = i
<1>1. PICK n \in 0..N : started = 1..n
  BY DEF TypeOK
<1>2. n \in Nat
  BY <1>1, NAssumption
<1>3. IsFiniteSet(1..n) /\ Cardinality(1..n) = n
  BY <1>2, FS_Interval
<1>4. \A i \in Nat : Cardinality(1..i) = i
  BY FS_Interval
<1> QED
  BY <1>1, <1>2, <1>3, <1>4 DEF Expected

\* The components that were read are finitely many, and a new one adds one.
LEMMA ReadCount ==
    ASSUME TypeOK
    PROVE  /\ IsFiniteSet(read)
           /\ Cardinality(read) \in Nat
           /\ \A c \in results : Cardinality(read \union {c}) = Cardinality(read) + 1
<1>1. IsFiniteSet(read)
  BY ExpectedIsCount, FS_Subset DEF TypeOK
<1>2. ASSUME NEW c \in results PROVE c \notin read
  BY <1>2 DEF TypeOK
<1> QED
  BY <1>1, <1>2, FS_AddElement, FS_CardinalityType

\* Components of the interval 1..n are components.
LEMMA StartedAreComponents ==
    ASSUME TypeOK PROVE started \subseteq Components /\ N \in Nat
  BY NAssumption DEF TypeOK, Components

\* What is shut down is a matter of the answers.
LEMMA ShutFrame == answer' = answer => shut' = shut
  BY DEF shut

\* The call of Shutdown answers for one component more, and an error is recorded.
LEMMA ShutdownAnswers ==
    ASSUME TypeOK, ShutdownComponent
    PROVE  /\ index \in Components
           /\ shut' = shut \union {index}
           /\ answer' \in [Components -> Answers \union {"none"}]
           /\ err' \in BOOLEAN
           /\ ~err' => ~err /\ work[index] = "stopped"
<1>1. index \in Components
  BY StartedAreComponents DEF ShutdownComponent
<1>2. PICK a \in Answers : /\ a = "nil" => work[index] = "stopped"
                          /\ answer' = [answer EXCEPT ![index] = a]
                          /\ err' = (err \/ a = "error")
  BY DEF ShutdownComponent
<1>3. answer' \in [Components -> Answers \union {"none"}] /\ a # "none"
  BY <1>1, <1>2 DEF TypeOK, Answers
<1>4. shut' = shut \union {index}
  BY <1>1, <1>2, <1>3 DEF TypeOK, shut
<1>5. err' \in BOOLEAN
  BY <1>2, Zenon
<1>6. ~err' => ~err /\ a # "error"
  BY <1>2, Zenon
<1>7. a # "error" => work[index] = "stopped"
  BY <1>2 DEF Answers
<1> QED
  BY <1>1, <1>3, <1>4, <1>5, <1>6, <1>7

\* The types are kept: no more results are counted than components were started.
LEMMA StepTypes ==
    ASSUME TypeOK, StartInv, [Next]_vars
    PROVE  TypeOK'
<1> USE NAssumption, HooksAssumption, StartedAreComponents, ShutFrame DEF TypeOK, StartInv, Expected
<1>1. ASSUME Begin PROVE TypeOK'
  BY <1>1 DEF Begin, runVars, resultVars, contextVars, componentVars
<1>2. ASSUME NEW ok \in BOOLEAN, RunStartHook(ok) PROVE TypeOK'
  <2>1. err' \in BOOLEAN /\ pc' \in {"startHooks", "stopping"}
    BY <1>2, Zenon DEF RunStartHook
  <2>2. index' = index + 1 \/ index' = index
    BY <1>2, Zenon DEF RunStartHook
  <2>3. index' \in Nat
    BY <2>2
  <2> QED
    BY <1>2, <2>1, <2>3 DEF RunStartHook, resultVars, contextVars, componentVars
<1>3. ASSUME NEW ok \in BOOLEAN, StartComponent(ok) PROVE TypeOK'
  <2>1. /\ index \in 1..N /\ started = 1..index - 1 /\ received = 0
        /\ results = {} /\ read = {} /\ shut = {}
    BY <1>3 DEF StartComponent, Starting
  <2>2. CASE ok
    <3>0. 1..index = (1..index - 1) \union {index}
      BY <2>1
    <3>1. started' = started \union {index} /\ index' = index + 1
      BY <1>3, <2>2, Zenon DEF StartComponent
    <3>2. started' = 1..index /\ index \in 0..N
      BY <2>1, <3>0, <3>1
    <3>3. Expected' = index
      BY <2>1, <3>2, FS_Interval DEF Expected
    <3> QED
      BY <1>3, <2>1, <2>2, <3>1, <3>2, <3>3 DEF StartComponent, Components, resultVars, contextVars
  <2>3. CASE ~ok
    BY <1>3, <2>3 DEF StartComponent, Expected, resultVars, contextVars
  <2> QED
    BY <2>2, <2>3
<1>4. ASSUME NEW ok \in BOOLEAN, RunStopHook(ok) PROVE TypeOK'
  <2>1. err' \in BOOLEAN
    BY <1>4, Zenon DEF RunStopHook
  <2>2. index' \in Nat
    BY <1>4 DEF RunStopHook
  <2> QED
    BY <1>4, <2>1, <2>2 DEF RunStopHook, resultVars, contextVars, componentVars
<1>5. ASSUME StartHooksDone PROVE TypeOK'
  BY <1>5 DEF StartHooksDone, runVars, resultVars, contextVars, componentVars
<1>6. ASSUME Running PROVE TypeOK'
  BY <1>6 DEF Running, runVars, resultVars, contextVars, componentVars
<1>7. ASSUME Wait PROVE TypeOK'
  <2> USE DEF resultVars, contextVars, componentVars, Expected
  <2>1. CASE UNCHANGED <<err, resultVars>>
    BY <1>7, <2>1 DEF Wait
  <2>2. CASE ReadResult
    <3>1. PICK c \in results : /\ results' = results \ {c}
                               /\ read' = read \union {c}
                               /\ received' = received + 1
                               /\ err' = (err \/ signal[c] = "error")
      BY <2>2 DEF ReadResult
    <3>2. received' \in 0..Expected'
      BY <1>7, <3>1, ExpectedIsCount DEF Wait, Starting
    <3> QED
      BY <1>7, <3>1, <3>2 DEF Wait
  <2> QED
    BY <1>7, <2>1, <2>2 DEF Wait
<1>8. ASSUME Stop PROVE TypeOK'
  BY <1>8 DEF Stop, runVars, resultVars, contextVars, componentVars
<1>9. ASSUME ShutdownComponent PROVE TypeOK'
  <2>1. index \in 1..N /\ index \in Components
    BY <1>9, StartedAreComponents DEF ShutdownComponent, Components
  <2>2. index' \in Nat
    BY <1>9, <2>1 DEF ShutdownComponent
  <2> QED
    BY <1>9, <2>2, ShutdownAnswers DEF ShutdownComponent, resultVars, contextVars, componentVars
<1>10. ASSUME ShutdownNext PROVE TypeOK'
  <2>1. index' \in Nat /\ pc' \in {"shutdown", "collecting"}
    BY <1>10 DEF ShutdownNext
  <2> QED
    BY <1>10, <2>1 DEF ShutdownNext, resultVars, contextVars, componentVars
<1>11. ASSUME Collect PROVE TypeOK'
  <2> USE DEF contextVars, componentVars, Expected
  <2> DEFINE n == Cardinality(started)
  <2>0. n \in Nat
    BY ExpectedIsCount
  <2>1. received' \in 0..Expected'
    <3>1. received \in Nat /\ received < n /\ Cardinality(started)' = n
      BY <1>11 DEF Collect
    <3>2. received' = received + 1 \/ received' = n
      BY <1>11 DEF Collect, ReadResult
    <3> QED
      BY <2>0, <3>1, <3>2
  <2> QED
    BY <1>11, <2>1 DEF Collect, ReadResult
<1>12. ASSUME Collected PROVE TypeOK'
  BY <1>12 DEF Collected, runVars, resultVars, contextVars, componentVars
<1>13. ASSUME Return PROVE TypeOK'
  BY <1>13 DEF Return, runVars, resultVars, contextVars, componentVars
<1>14. ASSUME ParentEnds PROVE TypeOK'
  BY <1>14 DEF ParentEnds, runVars, resultVars, contextVars, componentVars
<1>15. ASSUME DeadlinePasses PROVE TypeOK'
  BY <1>15 DEF DeadlinePasses, runVars, resultVars, contextVars, componentVars
<1>16. ASSUME NEW c \in Components, Forward(c) PROVE TypeOK'
  BY <1>16 DEF Forward, runVars, resultVars, contextVars, componentVars
<1>17. ASSUME NEW c \in Components, ComponentEnds(c) PROVE TypeOK'
  BY <1>17 DEF ComponentEnds, runVars, resultVars, contextVars, componentVars
<1>18. ASSUME NEW c \in Components, NEW a \in Answers, ComponentSignals(c, a) PROVE TypeOK'
  BY <1>18 DEF ComponentSignals, runVars, resultVars, contextVars, componentVars
<1>19. CASE UNCHANGED vars
  BY <1>19 DEF vars, runVars, resultVars, contextVars, componentVars
<1> QED
  BY <1>1, <1>2, <1>3, <1>4, <1>5, <1>6, <1>7, <1>8, <1>9, <1>10, <1>11, <1>12, <1>13, <1>14, <1>15, <1>16, <1>17, <1>18, <1>19 DEF Next, RunStep, Rest

\* The start goes through the components in order.
LEMMA StepStart ==
    ASSUME TypeOK, StartInv, [Next]_vars
    PROVE  StartInv'
<1> USE NAssumption, ShutFrame DEF TypeOK, StartInv, Starting
<1>1. ASSUME Begin PROVE StartInv'
  BY <1>1 DEF Begin, runVars, resultVars, contextVars, componentVars
<1>2. ASSUME NEW ok \in BOOLEAN, RunStartHook(ok) PROVE StartInv'
  BY <1>2 DEF RunStartHook, runVars, resultVars, contextVars, componentVars
<1>3. ASSUME NEW ok \in BOOLEAN, StartComponent(ok) PROVE StartInv'
  <2>1. index \in 1..N /\ started = 1..index - 1
    BY <1>3 DEF StartComponent
  <2>2. (1..index - 1) \union {index} = 1..(index + 1) - 1
    BY <2>1
  <2>3. CASE ok
    <3>1. started' = started \union {index} /\ index' = index + 1 /\ pc' = "starting"
      BY <1>3, <2>3, Zenon DEF StartComponent
    <3>2. index' \in 1..N + 1 /\ started' = 1..index' - 1
      BY <2>1, <2>2, <3>1
    <3>3. UNCHANGED <<received, results, read, answer>> /\ pc = "starting"
      BY <1>3 DEF StartComponent, resultVars
    <3> QED
      BY <3>1, <3>2, <3>3
  <2>4. CASE ~ok
    BY <1>3, <2>4 DEF StartComponent, resultVars
  <2> QED
    BY <2>3, <2>4
<1>4. ASSUME NEW ok \in BOOLEAN, RunStopHook(ok) PROVE StartInv'
  BY <1>4 DEF RunStopHook, runVars, resultVars, contextVars, componentVars
<1>5. ASSUME StartHooksDone PROVE StartInv'
  <2>1. 1..0 = {} /\ 1 \in 1..N + 1
    OBVIOUS
  <2>2. pc' = "starting" /\ index' = 1 /\ started' = {} /\ shut' = shut /\ UNCHANGED <<received, results, read>>
    BY <1>5 DEF StartHooksDone, resultVars
  <2> QED
    BY <1>5, <2>1, <2>2 DEF StartHooksDone
<1>6. ASSUME Running PROVE StartInv'
  BY <1>6 DEF Running, runVars, resultVars, contextVars, componentVars
<1>7. ASSUME Wait PROVE StartInv'
  BY <1>7 DEF Wait, ReadResult, runVars, resultVars, contextVars, componentVars
<1>8. ASSUME Stop PROVE StartInv'
  BY <1>8 DEF Stop, runVars, resultVars, contextVars, componentVars
<1>9. ASSUME ShutdownComponent PROVE StartInv'
  BY <1>9, ShutdownAnswers DEF ShutdownComponent, runVars, resultVars, contextVars, componentVars
<1>10. ASSUME ShutdownNext PROVE StartInv'
  BY <1>10 DEF ShutdownNext, runVars, resultVars, contextVars, componentVars
<1>11. ASSUME Collect PROVE StartInv'
  BY <1>11 DEF Collect, ReadResult, runVars, resultVars, contextVars, componentVars
<1>12. ASSUME Collected PROVE StartInv'
  BY <1>12 DEF Collected, runVars, resultVars, contextVars, componentVars
<1>13. ASSUME Return PROVE StartInv'
  BY <1>13 DEF Return, runVars, resultVars, contextVars, componentVars
<1>14. ASSUME ParentEnds PROVE StartInv'
  BY <1>14 DEF ParentEnds, runVars, resultVars, contextVars, componentVars
<1>15. ASSUME DeadlinePasses PROVE StartInv'
  BY <1>15 DEF DeadlinePasses, runVars, resultVars, contextVars, componentVars
<1>16. ASSUME NEW c \in Components, Forward(c) PROVE StartInv'
  BY <1>16 DEF Forward, runVars, resultVars, contextVars, componentVars
<1>17. ASSUME NEW c \in Components, ComponentEnds(c) PROVE StartInv'
  BY <1>17 DEF ComponentEnds, runVars, resultVars, contextVars, componentVars
<1>18. ASSUME NEW c \in Components, NEW a \in Answers, ComponentSignals(c, a) PROVE StartInv'
  BY <1>18 DEF ComponentSignals, runVars, resultVars, contextVars, componentVars
<1>19. CASE UNCHANGED vars
  BY <1>19 DEF vars, runVars, resultVars, contextVars, componentVars
<1> QED
  BY <1>1, <1>2, <1>3, <1>4, <1>5, <1>6, <1>7, <1>8, <1>9, <1>10, <1>11, <1>12, <1>13, <1>14, <1>15, <1>16, <1>17, <1>18, <1>19 DEF Next, RunStep, Rest

\* The loop of the shutdown leaves no component out.
LEMMA StepShut ==
    ASSUME TypeOK, StartInv, ShutInv, [Next]_vars
    PROVE  ShutInv'
<1> USE NAssumption, StartedAreComponents, ShutFrame DEF TypeOK, StartInv, ShutInv, Starting, Components
<1>1. ASSUME Begin PROVE ShutInv'
  BY <1>1 DEF Begin, runVars, resultVars, contextVars, componentVars
<1>2. ASSUME NEW ok \in BOOLEAN, RunStartHook(ok) PROVE ShutInv'
  BY <1>2 DEF RunStartHook, runVars, resultVars, contextVars, componentVars
<1>3. ASSUME NEW ok \in BOOLEAN, StartComponent(ok) PROVE ShutInv'
  BY <1>3 DEF StartComponent, runVars, resultVars, contextVars, componentVars
<1>4. ASSUME NEW ok \in BOOLEAN, RunStopHook(ok) PROVE ShutInv'
  BY <1>4 DEF RunStopHook, runVars, resultVars, contextVars, componentVars
<1>5. ASSUME StartHooksDone PROVE ShutInv'
  BY <1>5 DEF StartHooksDone, runVars, resultVars, contextVars, componentVars
<1>6. ASSUME Running PROVE ShutInv'
  BY <1>6 DEF Running, runVars, resultVars, contextVars, componentVars
<1>7. ASSUME Wait PROVE ShutInv'
  BY <1>7 DEF Wait, ReadResult, runVars, resultVars, contextVars, componentVars
<1>8. ASSUME Stop PROVE ShutInv'
  BY <1>8 DEF Stop, runVars, resultVars, contextVars, componentVars
<1>9. ASSUME ShutdownComponent PROVE ShutInv'
  <2>1. pc = "shutdown" /\ pc' = "shutdown" /\ index' = index - 1 /\ started' = started /\ index \in 1..N
    BY <1>9 DEF ShutdownComponent
  <2>2. shut' = shut \union {index}
    BY <1>9, ShutdownAnswers
  <2>3. ASSUME NEW c \in started, c > index - 1 PROVE c \in shut \union {index}
    <3>1. c = index \/ c > index
      BY <2>1, <2>3
    <3> QED
      BY <2>1, <3>1
  <2> QED
    BY <2>1, <2>2, <2>3
<1>10. ASSUME ShutdownNext PROVE ShutInv'
  <2>1. index \in 0..N /\ started \subseteq 1..N
    BY <1>10 DEF ShutdownNext
  <2>2. CASE index > 0
    BY <1>10, <2>1, <2>2 DEF ShutdownNext
  <2>3. CASE ~(index > 0)
    <3>1. \A c \in started : c > index
      BY <2>1, <2>3
    <3> QED
      BY <1>10, <2>3, <3>1 DEF ShutdownNext
  <2> QED
    BY <2>2, <2>3
<1>11. ASSUME Collect PROVE ShutInv'
  BY <1>11 DEF Collect, ReadResult, runVars, resultVars, contextVars, componentVars
<1>12. ASSUME Collected PROVE ShutInv'
  BY <1>12 DEF Collected, runVars, resultVars, contextVars, componentVars
<1>13. ASSUME Return PROVE ShutInv'
  BY <1>13 DEF Return, runVars, resultVars, contextVars, componentVars
<1>14. ASSUME ParentEnds PROVE ShutInv'
  BY <1>14 DEF ParentEnds, runVars, resultVars, contextVars, componentVars
<1>15. ASSUME DeadlinePasses PROVE ShutInv'
  BY <1>15 DEF DeadlinePasses, runVars, resultVars, contextVars, componentVars
<1>16. ASSUME NEW c \in Components, Forward(c) PROVE ShutInv'
  BY <1>16 DEF Forward, runVars, resultVars, contextVars, componentVars
<1>17. ASSUME NEW c \in Components, ComponentEnds(c) PROVE ShutInv'
  BY <1>17 DEF ComponentEnds, runVars, resultVars, contextVars, componentVars
<1>18. ASSUME NEW c \in Components, NEW a \in Answers, ComponentSignals(c, a) PROVE ShutInv'
  BY <1>18 DEF ComponentSignals, runVars, resultVars, contextVars, componentVars
<1>19. CASE UNCHANGED vars
  BY <1>19 DEF vars, runVars, resultVars, contextVars, componentVars
<1> QED
  BY <1>1, <1>2, <1>3, <1>4, <1>5, <1>6, <1>7, <1>8, <1>9, <1>10, <1>11, <1>12, <1>13, <1>14, <1>15, <1>16, <1>17, <1>18, <1>19 DEF Next, RunStep, Rest

\* Signals are not taken back.
LEMMA StepForward ==
    ASSUME TypeOK, ForwardInv, [Next]_vars
    PROVE  ForwardInv'
<1> USE StartedAreComponents DEF TypeOK, ForwardInv
<1>1. ASSUME Begin PROVE ForwardInv'
  BY <1>1 DEF Begin, runVars, resultVars, contextVars, componentVars
<1>2. ASSUME NEW ok \in BOOLEAN, RunStartHook(ok) PROVE ForwardInv'
  BY <1>2 DEF RunStartHook, runVars, resultVars, contextVars, componentVars
<1>3. ASSUME NEW ok \in BOOLEAN, StartComponent(ok) PROVE ForwardInv'
  BY <1>3 DEF StartComponent, runVars, resultVars, contextVars, componentVars
<1>4. ASSUME NEW ok \in BOOLEAN, RunStopHook(ok) PROVE ForwardInv'
  BY <1>4 DEF RunStopHook, runVars, resultVars, contextVars, componentVars
<1>5. ASSUME StartHooksDone PROVE ForwardInv'
  BY <1>5 DEF StartHooksDone, runVars, resultVars, contextVars, componentVars
<1>6. ASSUME Running PROVE ForwardInv'
  BY <1>6 DEF Running, runVars, resultVars, contextVars, componentVars
<1>7. ASSUME Wait PROVE ForwardInv'
  BY <1>7 DEF Wait, ReadResult, runVars, resultVars, contextVars, componentVars
<1>8. ASSUME Stop PROVE ForwardInv'
  BY <1>8 DEF Stop, runVars, resultVars, contextVars, componentVars
<1>9. ASSUME ShutdownComponent PROVE ForwardInv'
  BY <1>9 DEF ShutdownComponent, runVars, resultVars, contextVars, componentVars
<1>10. ASSUME ShutdownNext PROVE ForwardInv'
  BY <1>10 DEF ShutdownNext, runVars, resultVars, contextVars, componentVars
<1>11. ASSUME Collect PROVE ForwardInv'
  BY <1>11 DEF Collect, ReadResult, runVars, resultVars, contextVars, componentVars
<1>12. ASSUME Collected PROVE ForwardInv'
  BY <1>12 DEF Collected, runVars, resultVars, contextVars, componentVars
<1>13. ASSUME Return PROVE ForwardInv'
  BY <1>13 DEF Return, runVars, resultVars, contextVars, componentVars
<1>14. ASSUME ParentEnds PROVE ForwardInv'
  BY <1>14 DEF ParentEnds, runVars, resultVars, contextVars, componentVars
<1>15. ASSUME DeadlinePasses PROVE ForwardInv'
  BY <1>15 DEF DeadlinePasses, runVars, resultVars, contextVars, componentVars
<1>16. ASSUME NEW c \in Components, Forward(c) PROVE ForwardInv'
  BY <1>16 DEF Forward, runVars, resultVars, contextVars, componentVars
<1>17. ASSUME NEW c \in Components, ComponentEnds(c) PROVE ForwardInv'
  BY <1>17 DEF ComponentEnds, runVars, resultVars, contextVars, componentVars
<1>18. ASSUME NEW c \in Components, NEW a \in Answers, ComponentSignals(c, a) PROVE ForwardInv'
  BY <1>18 DEF ComponentSignals, runVars, resultVars, contextVars, componentVars
<1>19. CASE UNCHANGED vars
  BY <1>19 DEF vars, runVars, resultVars, contextVars, componentVars
<1> QED
  BY <1>1, <1>2, <1>3, <1>4, <1>5, <1>6, <1>7, <1>8, <1>9, <1>10, <1>11, <1>12, <1>13, <1>14, <1>15, <1>16, <1>17, <1>18, <1>19 DEF Next, RunStep, Rest

\* The result read next is an error that is recorded, or it has ended well.
LEMMA ReadKeepsClean ==
    ASSUME TypeOK, ForwardInv, CleanInv, ReadResult, pc \notin Starting,
           pc' \notin Starting \union {"stopHooks", "returned"},
           UNCHANGED <<started, shut, work, signal>>
    PROVE  CleanInv'
<1> SUFFICES ASSUME ~err' PROVE CleanInv'
  BY DEF CleanInv
<1>1. PICK c \in results : /\ read' = read \union {c}
                           /\ received' = received + 1
                           /\ err' = (err \/ signal[c] = "error")
  BY DEF ReadResult
<1>2. ~err /\ signal[c] # "error"
  BY <1>1, Zenon
<1>3. c \in Components
  BY StartedAreComponents DEF TypeOK
<1>4. signal[c] = "nil"
  BY <1>2, <1>3 DEF TypeOK, ForwardInv, Answers
<1>5. received' = Cardinality(read')
  BY <1>1, <1>2, ReadCount DEF CleanInv
<1> QED
  BY <1>1, <1>2, <1>4, <1>5 DEF CleanInv

\* An error once recorded is kept; without one all is well.
LEMMA StepClean ==
    ASSUME TypeOK, StartInv, ShutInv, ForwardInv, CleanInv, [Next]_vars
    PROVE  CleanInv'
<1> USE StartedAreComponents, ReadCount, ExpectedIsCount, ShutFrame DEF TypeOK, StartInv, ShutInv, ForwardInv, CleanInv, Starting, Expected
<1>1. ASSUME Begin PROVE CleanInv'
  BY <1>1 DEF Begin, runVars, resultVars, contextVars, componentVars
<1>2. ASSUME NEW ok \in BOOLEAN, RunStartHook(ok) PROVE CleanInv'
  BY <1>2 DEF RunStartHook, runVars, resultVars, contextVars, componentVars
<1>3. ASSUME NEW ok \in BOOLEAN, StartComponent(ok) PROVE CleanInv'
  BY <1>3 DEF StartComponent, runVars, resultVars, contextVars, componentVars
<1>4. ASSUME NEW ok \in BOOLEAN, RunStopHook(ok) PROVE CleanInv'
  BY <1>4 DEF RunStopHook, runVars, resultVars, contextVars, componentVars
<1>5. ASSUME StartHooksDone PROVE CleanInv'
  BY <1>5 DEF StartHooksDone, runVars, resultVars, contextVars, componentVars
<1>6. ASSUME Running PROVE CleanInv'
  <2>1. index = N + 1 /\ started = 1..N
    BY <1>6, NAssumption DEF Running
  <2> QED
    BY <1>6, <2>1 DEF Running, Components, resultVars, componentVars
<1>7. ASSUME Wait PROVE CleanInv'
  <2>1. /\ pc = "waiting" /\ pc' = "stopping" /\ received = 0 /\ read = {} /\ shut = {}
        /\ UNCHANGED <<started, shut, work, signal>>
    BY <1>7 DEF Wait, contextVars, componentVars
  <2>2. CASE UNCHANGED <<err, resultVars>>
    BY <2>1, <2>2 DEF resultVars
  <2>3. CASE ReadResult
    BY <2>1, <2>3, ReadKeepsClean
  <2> QED
    BY <1>7, <2>2, <2>3 DEF Wait
<1>8. ASSUME Stop PROVE CleanInv'
  BY <1>8 DEF Stop, runVars, resultVars, contextVars, componentVars
<1>9. ASSUME ShutdownComponent PROVE CleanInv'
  <2> SUFFICES ASSUME ~err' PROVE CleanInv'
    OBVIOUS
  <2>1. ~err /\ work[index] = "stopped" /\ index \in Components /\ shut' = shut \union {index}
    BY <1>9, ShutdownAnswers
  <2> QED
    BY <1>9, <2>1 DEF ShutdownComponent, resultVars, componentVars
<1>10. ASSUME ShutdownNext PROVE CleanInv'
  BY <1>10 DEF ShutdownNext, runVars, resultVars, contextVars, componentVars
<1>11. ASSUME Collect PROVE CleanInv'
  <2>1. pc = "collecting" /\ UNCHANGED <<pc, started, shut, work, signal>>
    BY <1>11 DEF Collect, contextVars, componentVars
  <2>2. CASE ReadResult
    BY <2>1, <2>2, ReadKeepsClean
  <2>3. CASE err' = TRUE
    BY <2>3
  <2> QED
    BY <1>11, <2>2, <2>3 DEF Collect
<1>12. ASSUME Collected PROVE CleanInv'
  BY <1>12 DEF Collected, runVars, resultVars, contextVars, componentVars
<1>13. ASSUME Return PROVE CleanInv'
  BY <1>13 DEF Return, runVars, resultVars, contextVars, componentVars
<1>14. ASSUME ParentEnds PROVE CleanInv'
  BY <1>14 DEF ParentEnds, runVars, resultVars, contextVars, componentVars
<1>15. ASSUME DeadlinePasses PROVE CleanInv'
  BY <1>15 DEF DeadlinePasses, runVars, resultVars, contextVars, componentVars
<1>16. ASSUME NEW c \in Components, Forward(c) PROVE CleanInv'
  BY <1>16 DEF Forward, runVars, resultVars, contextVars, componentVars
<1>17. ASSUME NEW c \in Components, ComponentEnds(c) PROVE CleanInv'
  BY <1>17 DEF ComponentEnds, runVars, resultVars, contextVars, componentVars
<1>18. ASSUME NEW c \in Components, NEW a \in Answers, ComponentSignals(c, a) PROVE CleanInv'
  BY <1>18 DEF ComponentSignals, runVars, resultVars, contextVars, componentVars
<1>19. CASE UNCHANGED vars
  BY <1>19 DEF vars, runVars, resultVars, contextVars, componentVars
<1> QED
  BY <1>1, <1>2, <1>3, <1>4, <1>5, <1>6, <1>7, <1>8, <1>9, <1>10, <1>11, <1>12, <1>13, <1>14, <1>15, <1>16, <1>17, <1>18, <1>19 DEF Next, RunStep, Rest

--------------------------------------------------------------------------------
\* The invariant holds at the start.
LEMMA InitInv == Init => IInv
<1> SUFFICES ASSUME Init PROVE IInv
  OBVIOUS
<1>1. Cardinality({}) = 0
  BY FS_EmptySet
<1>2. started = 1..0
  BY DEF Init
<1>0. shut = {}
  BY DEF Init, shut
<1>3. TypeOK
  <2>1. 0 \in 0..N /\ 0 \in 0..Expected
    BY <1>1, NAssumption DEF Init, Expected
  <2> QED
    BY <2>1, <1>0, <1>2, NAssumption DEF Init, TypeOK
<1>4. StartInv /\ ShutInv /\ ForwardInv /\ CleanInv
  BY <1>0, <1>1 DEF Init, StartInv, ShutInv, ForwardInv, CleanInv, Starting
<1> QED
  BY <1>3, <1>4 DEF IInv

\* Every step keeps the invariant.
LEMMA StepInv == IInv /\ [Next]_vars => IInv'
  BY StepTypes, StepStart, StepShut, StepForward, StepClean DEF IInv

\* So it always holds.
LEMMA Inductive == Spec => []IInv
  BY InitInv, StepInv, PTL DEF Spec

\* Every variable keeps its type; runLifecycle (lifecycle.go) starts a prefix of its
\* components and never counts more results than it has started components.
THEOREM TypeCorrect == Spec => []TypeOK
  BY Inductive, PTL DEF IInv

\* Whichever step of the start or of the wait fails, each component that was started has
\* its Shutdown called before a stop hook runs (the reverse loop of runLifecycle).
THEOREM StartedComponentsAreShut == Spec => []StartedAreShut
<1>1. IInv => StartedAreShut
  BY DEF IInv, ShutInv, StartedAreShut
<1> QED
  BY <1>1, Inductive, PTL

\* runLifecycle returns nil only when all components were started, came to their end
\* without an error, and the result of each was read.
THEOREM NilIsClean == Spec => []NilMeansClean
<1>1. ASSUME IInv, pc = "returned", ~err
      PROVE  started = Components /\ read = Components
             /\ \A c \in Components : work[c] = "stopped" /\ signal[c] = "nil"
  <2>1. started = Components /\ shut = started /\ received = Cardinality(read)
    BY <1>1 DEF IInv, CleanInv, ShutInv, Starting
  <2>2. received = Cardinality(started)
    BY <1>1, ExpectedIsCount DEF IInv, CleanInv, TypeOK, Expected
  <2>3. read = started
    BY <1>1, <2>1, <2>2, ExpectedIsCount, FS_Subset DEF IInv, TypeOK
  <2> QED
    BY <1>1, <2>1, <2>3 DEF IInv, CleanInv
<1>2. IInv => NilMeansClean
  BY <1>1 DEF NilMeansClean
<1> QED
  BY <1>2, Inductive, PTL

--------------------------------------------------------------------------------
\* Every component keeps its contract.

\* A component is new until it is started, and the loop over the components has not shut
\* down those that are left.
PromiseInv ==
    /\ \A c \in Components : work[c] = "new" <=> c \notin started
    /\ pc = "shutdown" => \A c \in shut : c > index

\* A component is started once, and its Shutdown is called once.
LEMMA StepPromise ==
    ASSUME IInv, PromiseInv, [Next]_vars
    PROVE  PromiseInv'
<1> USE NAssumption, ShutFrame, StartedAreComponents DEF IInv, TypeOK, PromiseInv, Components
<1>1. ASSUME NEW ok \in BOOLEAN, StartComponent(ok) PROVE PromiseInv'
  <2>1. index \in 1..N /\ pc = "starting"
    BY <1>1 DEF StartComponent, StartInv
  <2>2. CASE ok
    BY <1>1, <2>1, <2>2 DEF StartComponent
  <2>3. CASE ~ok
    BY <1>1, <2>1, <2>3 DEF StartComponent
  <2> QED
    BY <2>2, <2>3
<1>2. ASSUME Stop PROVE PromiseInv'
  BY <1>2 DEF Stop, StartInv, Starting, componentVars
<1>3. ASSUME ShutdownComponent PROVE PromiseInv'
  <2>1. pc = "shutdown" /\ index' = index - 1 /\ UNCHANGED <<pc, started, work>>
    BY <1>3 DEF ShutdownComponent, componentVars
  <2>2. shut' = shut \union {index} /\ index \in Components
    BY <1>3, ShutdownAnswers
  <2>3. \A c \in shut \union {index} : c > index - 1
    BY <2>1, <2>2
  <2> QED
    BY <2>1, <2>2, <2>3
<1>4. ASSUME ShutdownNext PROVE PromiseInv'
  <2>1. pc = "shutdown" /\ UNCHANGED <<started, work, shut>>
    BY <1>4 DEF ShutdownNext, componentVars
  <2>2. pc' = "shutdown" => index' = index - 1
    BY <1>4 DEF ShutdownNext
  <2>3. \A c \in shut : c > index - 1
    BY <2>1
  <2> QED
    BY <2>1, <2>2, <2>3
<1>5. ASSUME NEW c \in Components, ComponentEnds(c) PROVE PromiseInv'
  BY <1>5 DEF ComponentEnds, runVars
<1>6. ASSUME UNCHANGED <<work, started, answer>>, pc' # "shutdown" \/ UNCHANGED <<pc, index>>
      PROVE PromiseInv'
  BY <1>6
<1>7. ASSUME \/ Begin \/ StartHooksDone \/ Running \/ Wait \/ Collect \/ Collected \/ Return
             \/ ParentEnds \/ DeadlinePasses \/ Rest \/ UNCHANGED vars
             \/ \E ok \in BOOLEAN : RunStartHook(ok) \/ RunStopHook(ok)
             \/ \E c \in Components : Forward(c) \/ \E a \in Answers : ComponentSignals(c, a)
      PROVE PromiseInv'
  <2>1. UNCHANGED <<work, started, answer>> /\ (pc' # "shutdown" \/ UNCHANGED <<pc, index>>)
    BY <1>7 DEF Begin, StartHooksDone, Running, Wait, Collect, Collected, Return, ParentEnds,
      DeadlinePasses, Rest, RunStartHook, RunStopHook, Forward, ComponentSignals, ReadResult,
      vars, runVars, resultVars, contextVars, componentVars
  <2> QED
    BY <1>6, <2>1
<1> QED
  BY <1>1, <1>2, <1>3, <1>4, <1>5, <1>7 DEF Next, RunStep

\* A step of runLifecycle, of the contexts or of the components is for each component a
\* step of its contract, or none.
LEMMA StepIsPromised ==
    ASSUME IInv, PromiseInv, [Next]_vars, NEW c \in Components
    PROVE  [Promise(c)!Next]_(Promise(c)!vars)
<1> USE StartedAreComponents DEF IInv, TypeOK, PromiseInv, Promise!vars, Promise!Next, Components
<1>1. ASSUME NEW ok \in BOOLEAN, StartComponent(ok) PROVE Promise(c)!Start \/ UNCHANGED Promise(c)!vars
  <2>1. index \notin started
    BY <1>1 DEF StartComponent, StartInv
  <2> QED
    BY <1>1, <2>1 DEF StartComponent, Promise!Start, contextVars
<1>2. ASSUME ShutdownComponent
      PROVE  (\E a \in Answers : Promise(c)!Return(a)) \/ UNCHANGED Promise(c)!vars
  <2>1. PICK a \in Answers : /\ a = "nil" => work[index] = "stopped"
                             /\ work[index] = "stopped" \/ deadline
                             /\ answer' = [answer EXCEPT ![index] = a]
    BY <1>2 DEF ShutdownComponent
  <2>2. index \in started /\ index \notin shut /\ UNCHANGED <<work, signal, deadline>>
    BY <1>2 DEF ShutdownComponent, contextVars, componentVars
  <2>3. CASE c = index
    <3>1. answer[c] = "none" /\ answer'[c] = a
      BY <2>1, <2>2, <2>3 DEF shut
    <3> QED
      BY <2>1, <2>2, <2>3, <3>1 DEF Promise!Return
  <2>4. CASE c # index
    BY <2>1, <2>2, <2>4
  <2> QED
    BY <2>3, <2>4
<1>3. ASSUME NEW d \in Components, ComponentEnds(d) PROVE Promise(c)!End \/ UNCHANGED Promise(c)!vars
  BY <1>3 DEF ComponentEnds, Promise!End, runVars, contextVars
<1>4. ASSUME NEW d \in Components, NEW a \in Answers, ComponentSignals(d, a)
      PROVE  Promise(c)!Signal(a) \/ UNCHANGED Promise(c)!vars
  BY <1>4 DEF ComponentSignals, Promise!Signal, runVars, contextVars
<1>5. ASSUME DeadlinePasses PROVE Promise(c)!DeadlinePasses
  BY <1>5 DEF DeadlinePasses, Promise!DeadlinePasses, runVars, componentVars
<1>6. ASSUME \/ Begin \/ StartHooksDone \/ Running \/ Wait \/ Stop \/ ShutdownNext
             \/ Collect \/ Collected \/ Return \/ ParentEnds \/ Rest \/ UNCHANGED vars
             \/ \E ok \in BOOLEAN : RunStartHook(ok) \/ RunStopHook(ok)
             \/ \E d \in Components : Forward(d)
      PROVE  UNCHANGED Promise(c)!vars
  <2>1. UNCHANGED <<work, signal, answer, deadline>>
    BY <1>6 DEF Begin, StartHooksDone, Running, Wait, Stop, ShutdownNext, Collect, Collected,
      Return, ParentEnds, Rest, RunStartHook, RunStopHook, Forward, ReadResult,
      vars, runVars, resultVars, contextVars, componentVars
  <2> QED
    BY <2>1
<1>7. Answers = Promise(c)!Answers
  BY DEF Answers, Promise!Answers
<1> QED
  BY <1>1, <1>2, <1>3, <1>4, <1>5, <1>6, <1>7 DEF Next, RunStep

\* runLifecycle starts a component at most once and calls its Shutdown at most once, and
\* that only after a Start that succeeded; the components of this module do no more than
\* the interface lifecycleComponent promises.
THEOREM ComponentsKeepPromises == \A c \in Components : Spec => Promise(c)!Spec
<1> SUFFICES ASSUME NEW c \in Components PROVE Spec => Promise(c)!Spec
  OBVIOUS
<1>1. Init => PromiseInv
  BY DEF Init, PromiseInv
<1>2. Init => Promise(c)!Init
  BY DEF Init, Promise!Init
<1>3. IInv /\ PromiseInv /\ [Next]_vars => PromiseInv'
  BY StepPromise
<1>4. IInv /\ PromiseInv /\ [Next]_vars => [Promise(c)!Next]_(Promise(c)!vars)
  BY StepIsPromised
<1> QED
  BY <1>1, <1>2, <1>3, <1>4, Inductive, PTL DEF Spec, Promise!Spec

\* What a component may do by itself under the contract - its work ends, it sends on Done -
\* it may do here at any time; and whatever its Shutdown may return under the contract,
\* runLifecycle takes.  So what is proved of runLifecycle holds for every component that
\* keeps the contract.
THEOREM PromisesAreAllowed ==
    ASSUME TypeOK, NEW c \in Components
    PROVE  /\ /\ Promise(c)!End \/ \E a \in Answers : Promise(c)!Signal(a)
              /\ work' = [work EXCEPT ![c] = work'[c]]
              /\ signal' = [signal EXCEPT ![c] = signal'[c]]
              /\ UNCHANGED <<runVars, resultVars, contextVars>>
              => Next
           /\ \A a \in Answers :
              /\ pc = "shutdown" /\ index = c /\ c \in started
              /\ Promise(c)!Return(a)
              /\ answer' = [answer EXCEPT ![c] = answer'[c]]
              /\ err' = (err \/ a = "error") /\ index' = index - 1
              /\ UNCHANGED <<state, pc, started, resultVars, contextVars, componentVars>>
              => ShutdownComponent
<1>1. ASSUME Promise(c)!End, work' = [work EXCEPT ![c] = work'[c]],
             signal' = [signal EXCEPT ![c] = signal'[c]],
             UNCHANGED <<runVars, resultVars, contextVars>>
      PROVE  ComponentEnds(c)
  <2>1. signal' = signal
    <3>1. signal'[c] = signal[c]
      BY <1>1 DEF Promise!End
    <3>2. signal = [signal EXCEPT ![c] = signal[c]]
      BY DEF TypeOK
    <3> QED
      BY <1>1, <3>1, <3>2
  <2> QED
    BY <1>1, <2>1 DEF ComponentEnds, Promise!End
<1>2. ASSUME NEW a \in Answers, Promise(c)!Signal(a), work' = [work EXCEPT ![c] = work'[c]],
             signal' = [signal EXCEPT ![c] = signal'[c]],
             UNCHANGED <<runVars, resultVars, contextVars>>
      PROVE  ComponentSignals(c, a)
  <2>1. work' = work
    <3>1. work'[c] = work[c]
      BY <1>2 DEF Promise!Signal
    <3>2. work = [work EXCEPT ![c] = work[c]]
      BY DEF TypeOK
    <3> QED
      BY <1>2, <3>1, <3>2
  <2> QED
    BY <1>2, <2>1 DEF ComponentSignals, Promise!Signal
<1>3. ASSUME NEW a \in Answers, pc = "shutdown", index = c, c \in started, Promise(c)!Return(a),
             answer' = [answer EXCEPT ![c] = answer'[c]],
             err' = (err \/ a = "error"), index' = index - 1,
             UNCHANGED <<state, pc, started, resultVars, contextVars, componentVars>>
      PROVE  ShutdownComponent
  BY <1>3 DEF ShutdownComponent, Promise!Return
<1> QED
  BY <1>1, <1>2, <1>3 DEF Next
================================================================================
