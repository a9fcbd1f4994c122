--------------------------- MODULE PgExecutorProofs ----------------------------
(***************************************************************************)
(* Proofs about PgExecutor, for every number of operations, instances and  *)
(* workers and every retry limit.                                          *)
(***************************************************************************)
EXTENDS PgExecutor, TLAPS

--------------------------------------------------------------------------------
\* The inductive invariant.

\* What run knows of its delivery when it stores an outcome.
DecisionInv ==
    \A w \in Owners :
        /\ workerPc[w] = "retry" => workerAttempt[w] < MaxAttempts[workerOp[w]]
        /\ workerPc[w] = "release" => ~Accepting(Of(w))

\* The worker may still take a lease, now or after its present delivery.
MayLease(w) ==
    /\ ~baseDone[Of(w)]
    /\ \/ workerPc[w] \in {"expiring", "leasing"}
       \/ state[Of(w)] = "created"
       \/ Accepting(Of(w)) /\ workerPc[w] \notin {"exited", "dead"}

\* The same of the statements in flight: when one releases its lease, its worker will not
\* take another.
FlightInv ==
    \A f \in inFlight :
        /\ f[1] = "retry" => f[4] < MaxAttempts[f[2]]
        /\ f[1] = "release" => ~MayLease(f[3])

\* An operation that was never accepted was never tried.
FreshInv == \A o \in Ops : status[o] = "absent" => attempt[o] = 0

\* Shutdown ends workerBase before it releases the leases of its instance.
ReleasingInv == \A i \in Instances : stopPc[i] = "releasing" => baseDone[i]

\* The workers of an instance that was not started have not been born.
UnbornInv == \A w \in Owners : state[Of(w)] = "created" => workerPc[w] = "unborn"

\* A delivery in progress is at most one attempt ahead of its row, and only while the
\* row is not leased: its attempt has been given back.
AheadInv ==
    \A w \in Owners : workerPc[w] \in InRun =>
        /\ workerAttempt[w] <= attempt[workerOp[w]] + 1
        /\ status[workerOp[w]] = "running" => workerAttempt[w] <= attempt[workerOp[w]]

\* The row of o has gone past attempt n of worker w, or is still leased under it.
Past(w, o, n) ==
    /\ n <= attempt[o]
    /\ status[o] = "running" /\ attempt[o] = n => leaseOwner[o] = w

\* Attempts are given back only by workers that will take no lease again.
TokenInv ==
    \A w \in Owners : MayLease(w) =>
        /\ \A o \in Ops, n \in Nat : <<o, w, n>> \in ended => Past(w, o, n)
        /\ workerPc[w] \in InRun => Past(w, workerOp[w], workerAttempt[w])

IInv ==
    /\ TypeOK
    /\ LeaseIffRunning
    /\ DecisionInv
    /\ FlightInv
    /\ FreshInv
    /\ AttemptWithinLimit
    /\ ReleasingInv
    /\ UnbornInv
    /\ AheadInv
    /\ TokenInv
    /\ NoTokenReuse

--------------------------------------------------------------------------------
\* The statements that end a lease keep the types of the row.
LEMMA GiveUpLeaseTypes ==
    ASSUME TypeRows, NEW o \in Ops, NEW st \in Status, NEW n \in Nat, NEW isDue \in BOOLEAN,
           GiveUpLease(o, st, n, isDue)
    PROVE  TypeRows'
  BY DEF TypeRows, GiveUpLease

\* So do the updates, one for each outcome of run.
LEMMA UpdateTypes ==
    ASSUME TypeRows, NEW kind \in Storing, NEW o \in Ops, Update(kind, o)
    PROVE  TypeRows'
<1>1. attempt[o] \in Nat
  BY DEF TypeRows
<1>2. GiveBack(attempt[o]) \in Nat
  BY <1>1 DEF GiveBack
<1>3. {"succeeded", "retrying", "failed"} \subseteq Status
  BY DEF Status, Terminal
<1> QED
  BY <1>1, <1>2, <1>3, GiveUpLeaseTypes DEF Update

\* When their worker waits for them and when it does not.
LEMMA OwnedUpdateTypes ==
    ASSUME TypeRows, TypeWorkers, NEW w \in Owners, workerPc[w] \in Storing, OwnedUpdate(w)
    PROVE  TypeRows'
<1>1. workerOp[w] \in Ops
  BY DEF TypeWorkers, Storing, InRun
<1> QED
  BY <1>1, UpdateTypes DEF OwnedUpdate

\* Every step preserves the types.
LEMMA TypeStep ==
    ASSUME TypeOK, [Next]_vars
    PROVE  TypeOK'
<1> USE NobodyAssumption DEF TypeOK, TypeRows, TypeInstances, TypeWorkers, InRun, Status, Terminal
<1>1. ASSUME NEW o \in Ops, LeaseExpires(o)
      PROVE  TypeOK'
  BY <1>1 DEF LeaseExpires, instanceVars, workerVars, deliveryVars
<1>2. ASSUME NEW o \in Ops, BecomesDue(o)
      PROVE  TypeOK'
  BY <1>2 DEF BecomesDue, instanceVars, workerVars, deliveryVars
<1>3. ASSUME NEW o \in Ops, Submit(o)
      PROVE  TypeOK'
  BY <1>3 DEF Submit, instanceVars, workerVars, deliveryVars
<1>4. ASSUME NEW w \in Owners, TaskTimeout(w)
      PROVE  TypeOK'
  BY <1>4 DEF TaskTimeout, rowVars, instanceVars, deliveryVars
<1>5. ASSUME NEW w \in Owners, Poll(w)
      PROVE  TypeOK'
  BY <1>5 DEF Poll, rowVars, instanceVars, deliveryVars
<1>6. ASSUME NEW w \in Owners, ExpireLeases(w)
      PROVE  TypeOK'
  BY <1>6 DEF ExpireLeases, FailExhausted, instanceVars, deliveryVars
<1>7. ASSUME NEW w \in Owners, ExpireLeasesError(w)
      PROVE  TypeOK'
  <2>1. TypeRows'
    <3>1. CASE FailExhausted
      BY <3>1 DEF FailExhausted
    <3>2. CASE UNCHANGED rowVars
      BY <3>2 DEF rowVars
    <3> QED
      BY <1>7, <3>1, <3>2 DEF ExpireLeasesError
  <2>2. TypeInstances' /\ TypeWorkers'
    BY <1>7 DEF ExpireLeasesError, rowVars, instanceVars, deliveryVars
  <2> QED
    BY <2>1, <2>2
<1>8. ASSUME NEW w \in Owners, Lease(w)
      PROVE  TypeOK'
  BY <1>8 DEF Lease, TakeLease, instanceVars
<1>9. ASSUME NEW w \in Owners, LeaseUnanswered(w)
      PROVE  TypeOK'
  BY <1>9 DEF LeaseUnanswered, TakeLease, instanceVars, deliveryVars
<1>10. ASSUME NEW w \in Owners, LeaseNothing(w)
      PROVE  TypeOK'
  BY <1>10 DEF LeaseNothing, rowVars, instanceVars, deliveryVars
<1>11. ASSUME NEW w \in Owners, RunBegin(w)
      PROVE  TypeOK'
  BY <1>11 DEF RunBegin, rowVars, instanceVars, deliveryVars
<1>12. ASSUME NEW w \in Owners, RenewLease(w)
      PROVE  TypeOK'
  BY <1>12 DEF RenewLease, Owns, instanceVars, deliveryVars
<1>13. ASSUME NEW w \in Owners, NEW result \in {"ok", "error", "permanent"}, HandlerReturn(w, result)
      PROVE  TypeOK'
  BY <1>13 DEF HandlerReturn, rowVars, instanceVars, deliveryVars
<1>14. ASSUME NEW w \in Owners, Decide(w)
      PROVE  TypeOK'
  BY <1>14 DEF Decide, AfterFailure, rowVars, instanceVars, deliveryVars
<1>15. ASSUME NEW w \in Owners, Store(w)
      PROVE  TypeOK'
  <2>1. workerPc[w] \in Storing
    BY <1>15 DEF Store
  <2>2. TypeRows'
    BY <1>15, <2>1, OwnedUpdateTypes DEF Store, rowVars
  <2>3. TypeInstances' /\ TypeWorkers'
    BY <1>15, <2>1 DEF Store, Storing, EndDelivery, Token, rowVars, instanceVars
  <2> QED
    BY <2>2, <2>3
<1>16. ASSUME NEW w \in Owners, StoreError(w)
      PROVE  TypeOK'
  <2>1. workerPc[w] \in Storing
    BY <1>16 DEF StoreError
  <2>2. TypeRows'
    BY <1>16, <2>1, OwnedUpdateTypes DEF StoreError, rowVars
  <2>3. TypeInstances' /\ TypeWorkers'
    BY <1>16, <2>1 DEF StoreError, Storing, EndDelivery, AfterFailure, Token, rowVars,
       instanceVars, deliveryVars
  <2> QED
    BY <2>2, <2>3
<1>17. ASSUME NEW i \in Instances, Start(i)
      PROVE  TypeOK'
  BY <1>17 DEF Start, rowVars, deliveryVars
<1>18. ASSUME NEW i \in Instances, NEW o \in Ops, Cancel(i, o)
      PROVE  TypeOK'
  BY <1>18 DEF Cancel, GiveUpLease, workerVars, deliveryVars
<1>19. ASSUME NEW i \in Instances, CancelActive(i)
      PROVE  TypeOK'
  BY <1>19 DEF CancelActive, rowVars, deliveryVars
<1>20. ASSUME NEW i \in Instances, ParentEnds(i)
      PROVE  TypeOK'
  BY <1>20 DEF ParentEnds, rowVars, workerVars, deliveryVars
<1>21. ASSUME NEW i \in Instances, ShutdownBegin(i)
      PROVE  TypeOK'
  BY <1>21 DEF ShutdownBegin, rowVars, workerVars, deliveryVars
<1>22. ASSUME NEW i \in Instances, ShutdownDrained(i)
      PROVE  TypeOK'
  BY <1>22 DEF ShutdownDrained, rowVars, workerVars, deliveryVars
<1>23. ASSUME NEW i \in Instances, ShutdownExpires(i)
      PROVE  TypeOK'
  BY <1>23 DEF ShutdownExpires, rowVars, deliveryVars
<1>24. ASSUME NEW i \in Instances, ShutdownReleases(i)
      PROVE  TypeOK'
  <2>1. TypeRows'
    <3>1. CASE ReleaseInstance(i)
      BY <3>1 DEF ReleaseInstance, GiveBack
    <3>2. CASE UNCHANGED rowVars
      BY <3>2 DEF rowVars
    <3> QED
      BY <1>24, <3>1, <3>2 DEF ShutdownReleases
  <2>2. TypeInstances' /\ TypeWorkers'
    BY <1>24 DEF ShutdownReleases, rowVars, workerVars, deliveryVars
  <2> QED
    BY <2>1, <2>2
<1>25. ASSUME NEW i \in Instances, Crash(i)
      PROVE  TypeOK'
  BY <1>25 DEF Crash, rowVars, deliveryVars
<1>26. CASE UNCHANGED vars
  BY <1>26 DEF vars, rowVars, instanceVars, workerVars, deliveryVars, rowVars,
     instanceVars, workerVars, deliveryVars
<1>27. ASSUME NEW w \in Owners, RenewLate(w)
      PROVE  TypeOK'
  BY <1>27 DEF RenewLate, Owns, Storing, workerVars, instanceVars, deliveryVars
<1>28. ASSUME NEW f \in inFlight, LateStatement(f)
      PROVE  TypeOK'
  <2>1. f[1] \in Storing /\ f[2] \in Ops
    BY <1>28
  <2>2. TypeRows'
    BY <1>28, <2>1, UpdateTypes DEF LateStatement, rowVars
  <2>3. TypeInstances' /\ TypeWorkers'
    BY <1>28 DEF LateStatement, instanceVars, workerVars, deliveryVars
  <2> QED
    BY <2>2, <2>3
<1> QED
  BY <1>1, <1>2, <1>3, <1>4, <1>5, <1>6, <1>7, <1>8, <1>9, <1>10, <1>11, <1>12, <1>13,
     <1>14, <1>15, <1>16, <1>17, <1>18, <1>19, <1>20, <1>21, <1>22, <1>23, <1>24, <1>25,
     <1>26, <1>27, <1>28 DEF Next, WorkerStep, InstanceStep

\* The columns lease_owner, lease_expires_at and next_attempt_at follow the status.
LEMMA LeaseStep ==
    ASSUME TypeOK, LeaseIffRunning, [Next]_vars
    PROVE  LeaseIffRunning'
<1> USE NobodyAssumption DEF TypeOK, TypeRows, TypeInstances, TypeWorkers, InRun, Status, Terminal, LeaseIffRunning
<1>1. ASSUME NEW o \in Ops, LeaseExpires(o)
      PROVE  LeaseIffRunning'
  BY <1>1 DEF LeaseExpires
<1>2. ASSUME NEW o \in Ops, BecomesDue(o)
      PROVE  LeaseIffRunning'
  BY <1>2 DEF BecomesDue
<1>3. ASSUME NEW o \in Ops, Submit(o)
      PROVE  LeaseIffRunning'
  BY <1>3 DEF Submit
<1>4. ASSUME NEW w \in Owners, TaskTimeout(w)
      PROVE  LeaseIffRunning'
  BY <1>4 DEF TaskTimeout, rowVars
<1>5. ASSUME NEW w \in Owners, Poll(w)
      PROVE  LeaseIffRunning'
  BY <1>5 DEF Poll, rowVars
<1>6. ASSUME NEW w \in Owners, ExpireLeases(w)
      PROVE  LeaseIffRunning'
  BY <1>6 DEF ExpireLeases, FailExhausted
<1>7. ASSUME NEW w \in Owners, ExpireLeasesError(w)
      PROVE  LeaseIffRunning'
  BY <1>7 DEF ExpireLeasesError, FailExhausted, rowVars
<1>8. ASSUME NEW w \in Owners, Lease(w)
      PROVE  LeaseIffRunning'
  BY <1>8 DEF Lease, TakeLease, Candidate
<1>9. ASSUME NEW w \in Owners, LeaseUnanswered(w)
      PROVE  LeaseIffRunning'
  BY <1>9 DEF LeaseUnanswered, TakeLease, Candidate
<1>10. ASSUME NEW w \in Owners, LeaseNothing(w)
      PROVE  LeaseIffRunning'
  BY <1>10 DEF LeaseNothing, rowVars
<1>11. ASSUME NEW w \in Owners, RunBegin(w)
      PROVE  LeaseIffRunning'
  BY <1>11 DEF RunBegin, rowVars
<1>12. ASSUME NEW w \in Owners, RenewLease(w)
      PROVE  LeaseIffRunning'
  BY <1>12 DEF RenewLease, Owns
<1>13. ASSUME NEW w \in Owners, NEW result \in {"ok", "error", "permanent"}, HandlerReturn(w, result)
      PROVE  LeaseIffRunning'
  BY <1>13 DEF HandlerReturn, rowVars
<1>14. ASSUME NEW w \in Owners, Decide(w)
      PROVE  LeaseIffRunning'
  BY <1>14 DEF Decide, rowVars
<1>15. ASSUME NEW w \in Owners, Store(w)
      PROVE  LeaseIffRunning'
  BY <1>15 DEF Store, Storing, OwnedUpdate, Update, GiveUpLease, GiveBack, Owns, rowVars
<1>16. ASSUME NEW w \in Owners, StoreError(w)
      PROVE  LeaseIffRunning'
  BY <1>16 DEF StoreError, Storing, OwnedUpdate, Update, GiveUpLease, GiveBack, Owns, rowVars
<1>17. ASSUME NEW i \in Instances, Start(i)
      PROVE  LeaseIffRunning'
  BY <1>17 DEF Start, rowVars
<1>18. ASSUME NEW i \in Instances, NEW o \in Ops, Cancel(i, o)
      PROVE  LeaseIffRunning'
  BY <1>18 DEF Cancel, GiveUpLease
<1>19. ASSUME NEW i \in Instances, CancelActive(i)
      PROVE  LeaseIffRunning'
  BY <1>19 DEF CancelActive, rowVars
<1>20. ASSUME NEW i \in Instances, ParentEnds(i)
      PROVE  LeaseIffRunning'
  BY <1>20 DEF ParentEnds, rowVars
<1>21. ASSUME NEW i \in Instances, ShutdownBegin(i)
      PROVE  LeaseIffRunning'
  BY <1>21 DEF ShutdownBegin, rowVars
<1>22. ASSUME NEW i \in Instances, ShutdownDrained(i)
      PROVE  LeaseIffRunning'
  BY <1>22 DEF ShutdownDrained, rowVars
<1>23. ASSUME NEW i \in Instances, ShutdownExpires(i)
      PROVE  LeaseIffRunning'
  BY <1>23 DEF ShutdownExpires, rowVars
<1>24. ASSUME NEW i \in Instances, ShutdownReleases(i)
      PROVE  LeaseIffRunning'
  BY <1>24 DEF ShutdownReleases, ReleaseInstance, GiveBack, rowVars
<1>25. ASSUME NEW i \in Instances, Crash(i)
      PROVE  LeaseIffRunning'
  BY <1>25 DEF Crash, rowVars
<1>26. CASE UNCHANGED vars
  BY <1>26 DEF vars, rowVars, instanceVars, workerVars, deliveryVars, rowVars,
     instanceVars, workerVars, deliveryVars, Candidate
<1>27. ASSUME NEW w \in Owners, RenewLate(w)
      PROVE  LeaseIffRunning'
  BY <1>27 DEF RenewLate, Owns, Storing, workerVars, deliveryVars
<1>28. ASSUME NEW f \in inFlight, LateStatement(f)
      PROVE  LeaseIffRunning'
  BY <1>28 DEF LateStatement, Storing, Update, GiveUpLease, GiveBack, rowVars
<1> QED
  BY <1>1, <1>2, <1>3, <1>4, <1>5, <1>6, <1>7, <1>8, <1>9, <1>10, <1>11, <1>12, <1>13,
     <1>14, <1>15, <1>16, <1>17, <1>18, <1>19, <1>20, <1>21, <1>22, <1>23, <1>24, <1>25,
     <1>26, <1>27, <1>28 DEF Next, WorkerStep, InstanceStep

\* The decision of run stays valid until it is stored: nothing starts to accept again.
LEMMA DecisionStep ==
    ASSUME TypeOK, DecisionInv, [Next]_vars
    PROVE  DecisionInv'
<1> USE NobodyAssumption DEF TypeOK, TypeRows, TypeInstances, TypeWorkers, InRun, Status, DecisionInv, Accepting
<1>1. ASSUME NEW o \in Ops, LeaseExpires(o)
      PROVE  DecisionInv'
  BY <1>1 DEF LeaseExpires, instanceVars, workerVars, deliveryVars
<1>2. ASSUME NEW o \in Ops, BecomesDue(o)
      PROVE  DecisionInv'
  BY <1>2 DEF BecomesDue, instanceVars, workerVars, deliveryVars
<1>3. ASSUME NEW o \in Ops, Submit(o)
      PROVE  DecisionInv'
  BY <1>3 DEF Submit, instanceVars, workerVars, deliveryVars
<1>4. ASSUME NEW w \in Owners, TaskTimeout(w)
      PROVE  DecisionInv'
  BY <1>4 DEF TaskTimeout, instanceVars, deliveryVars
<1>5. ASSUME NEW w \in Owners, Poll(w)
      PROVE  DecisionInv'
  BY <1>5 DEF Poll, instanceVars, deliveryVars
<1>6. ASSUME NEW w \in Owners, ExpireLeases(w)
      PROVE  DecisionInv'
  BY <1>6 DEF ExpireLeases, instanceVars, deliveryVars
<1>7. ASSUME NEW w \in Owners, ExpireLeasesError(w)
      PROVE  DecisionInv'
  BY <1>7 DEF ExpireLeasesError, instanceVars, deliveryVars
<1>8. ASSUME NEW w \in Owners, Lease(w)
      PROVE  DecisionInv'
  BY <1>8 DEF Lease, instanceVars
<1>9. ASSUME NEW w \in Owners, LeaseUnanswered(w)
      PROVE  DecisionInv'
  BY <1>9 DEF LeaseUnanswered, instanceVars, deliveryVars
<1>10. ASSUME NEW w \in Owners, LeaseNothing(w)
      PROVE  DecisionInv'
  BY <1>10 DEF LeaseNothing, instanceVars, deliveryVars
<1>11. ASSUME NEW w \in Owners, RunBegin(w)
      PROVE  DecisionInv'
  BY <1>11 DEF RunBegin, instanceVars, deliveryVars
<1>12. ASSUME NEW w \in Owners, RenewLease(w)
      PROVE  DecisionInv'
  BY <1>12 DEF RenewLease, instanceVars, deliveryVars
<1>13. ASSUME NEW w \in Owners, NEW result \in {"ok", "error", "permanent"}, HandlerReturn(w, result)
      PROVE  DecisionInv'
  BY <1>13 DEF HandlerReturn, instanceVars, deliveryVars
<1>14. ASSUME NEW w \in Owners, Decide(w)
      PROVE  DecisionInv'
  BY <1>14 DEF Decide, AfterFailure, instanceVars, deliveryVars
<1>15. ASSUME NEW w \in Owners, Store(w)
      PROVE  DecisionInv'
  BY <1>15 DEF Store, Storing, EndDelivery, instanceVars
<1>16. ASSUME NEW w \in Owners, StoreError(w)
      PROVE  DecisionInv'
  BY <1>16 DEF StoreError, Storing, EndDelivery, AfterFailure, instanceVars, deliveryVars
<1>17. ASSUME NEW i \in Instances, Start(i)
      PROVE  DecisionInv'
  BY <1>17 DEF Start, deliveryVars
<1>18. ASSUME NEW i \in Instances, NEW o \in Ops, Cancel(i, o)
      PROVE  DecisionInv'
  BY <1>18 DEF Cancel, workerVars, deliveryVars
<1>19. ASSUME NEW i \in Instances, CancelActive(i)
      PROVE  DecisionInv'
  BY <1>19 DEF CancelActive, deliveryVars
<1>20. ASSUME NEW i \in Instances, ParentEnds(i)
      PROVE  DecisionInv'
  BY <1>20 DEF ParentEnds, workerVars, deliveryVars
<1>21. ASSUME NEW i \in Instances, ShutdownBegin(i)
      PROVE  DecisionInv'
  BY <1>21 DEF ShutdownBegin, workerVars, deliveryVars
<1>22. ASSUME NEW i \in Instances, ShutdownDrained(i)
      PROVE  DecisionInv'
  BY <1>22 DEF ShutdownDrained, workerVars, deliveryVars
<1>23. ASSUME NEW i \in Instances, ShutdownExpires(i)
      PROVE  DecisionInv'
  BY <1>23 DEF ShutdownExpires, deliveryVars
<1>24. ASSUME NEW i \in Instances, ShutdownReleases(i)
      PROVE  DecisionInv'
  BY <1>24 DEF ShutdownReleases, workerVars, deliveryVars
<1>25. ASSUME NEW i \in Instances, Crash(i)
      PROVE  DecisionInv'
  BY <1>25 DEF Crash, deliveryVars
<1>26. CASE UNCHANGED vars
  BY <1>26 DEF vars, rowVars, instanceVars, workerVars, deliveryVars, rowVars,
     instanceVars, workerVars, deliveryVars
<1>27. ASSUME NEW w \in Owners, RenewLate(w)
      PROVE  DecisionInv'
  BY <1>27 DEF RenewLate, Owns, Storing, workerVars, instanceVars, deliveryVars
<1>28. ASSUME NEW f \in inFlight, LateStatement(f)
      PROVE  DecisionInv'
  BY <1>28 DEF LateStatement, instanceVars, workerVars, deliveryVars
<1> QED
  BY <1>1, <1>2, <1>3, <1>4, <1>5, <1>6, <1>7, <1>8, <1>9, <1>10, <1>11, <1>12, <1>13,
     <1>14, <1>15, <1>16, <1>17, <1>18, <1>19, <1>20, <1>21, <1>22, <1>23, <1>24, <1>25,
     <1>26, <1>27, <1>28 DEF Next, WorkerStep, InstanceStep

\* The attempts stay within the limit.
LEMMA AttemptStep ==
    ASSUME TypeOK, DecisionInv, FlightInv, FreshInv, AttemptWithinLimit, [Next]_vars
    PROVE  FreshInv' /\ AttemptWithinLimit'
<1> USE NobodyAssumption, MaxAttemptsAssumption DEF TypeOK, TypeRows, TypeInstances, TypeWorkers, InRun, Status, Terminal, DecisionInv, FreshInv,
           AttemptWithinLimit
<1>1. ASSUME NEW o \in Ops, LeaseExpires(o)
      PROVE  FreshInv' /\ AttemptWithinLimit'
  BY <1>1 DEF LeaseExpires
<1>2. ASSUME NEW o \in Ops, BecomesDue(o)
      PROVE  FreshInv' /\ AttemptWithinLimit'
  BY <1>2 DEF BecomesDue
<1>3. ASSUME NEW o \in Ops, Submit(o)
      PROVE  FreshInv' /\ AttemptWithinLimit'
  BY <1>3 DEF Submit
<1>4. ASSUME NEW w \in Owners, TaskTimeout(w)
      PROVE  FreshInv' /\ AttemptWithinLimit'
  BY <1>4 DEF TaskTimeout, rowVars
<1>5. ASSUME NEW w \in Owners, Poll(w)
      PROVE  FreshInv' /\ AttemptWithinLimit'
  BY <1>5 DEF Poll, rowVars
<1>6. ASSUME NEW w \in Owners, ExpireLeases(w)
      PROVE  FreshInv' /\ AttemptWithinLimit'
  BY <1>6 DEF ExpireLeases, FailExhausted
<1>7. ASSUME NEW w \in Owners, ExpireLeasesError(w)
      PROVE  FreshInv' /\ AttemptWithinLimit'
  BY <1>7 DEF ExpireLeasesError, FailExhausted, rowVars
<1>8. ASSUME NEW w \in Owners, Lease(w)
      PROVE  FreshInv' /\ AttemptWithinLimit'
  BY <1>8 DEF Lease, TakeLease, Candidate
<1>9. ASSUME NEW w \in Owners, LeaseUnanswered(w)
      PROVE  FreshInv' /\ AttemptWithinLimit'
  BY <1>9 DEF LeaseUnanswered, TakeLease, Candidate
<1>10. ASSUME NEW w \in Owners, LeaseNothing(w)
      PROVE  FreshInv' /\ AttemptWithinLimit'
  BY <1>10 DEF LeaseNothing, rowVars
<1>11. ASSUME NEW w \in Owners, RunBegin(w)
      PROVE  FreshInv' /\ AttemptWithinLimit'
  BY <1>11 DEF RunBegin, rowVars
<1>12. ASSUME NEW w \in Owners, RenewLease(w)
      PROVE  FreshInv' /\ AttemptWithinLimit'
  BY <1>12 DEF RenewLease, Owns
<1>13. ASSUME NEW w \in Owners, NEW result \in {"ok", "error", "permanent"}, HandlerReturn(w, result)
      PROVE  FreshInv' /\ AttemptWithinLimit'
  BY <1>13 DEF HandlerReturn, rowVars
<1>14. ASSUME NEW w \in Owners, Decide(w)
      PROVE  FreshInv' /\ AttemptWithinLimit'
  BY <1>14 DEF Decide, rowVars
<1>15. ASSUME NEW w \in Owners, Store(w)
      PROVE  FreshInv' /\ AttemptWithinLimit'
  BY <1>15 DEF Store, Storing, OwnedUpdate, Update, GiveUpLease, GiveBack, Owns, rowVars
<1>16. ASSUME NEW w \in Owners, StoreError(w)
      PROVE  FreshInv' /\ AttemptWithinLimit'
  BY <1>16 DEF StoreError, Storing, OwnedUpdate, Update, GiveUpLease, GiveBack, Owns, rowVars
<1>17. ASSUME NEW i \in Instances, Start(i)
      PROVE  FreshInv' /\ AttemptWithinLimit'
  BY <1>17 DEF Start, rowVars
<1>18. ASSUME NEW i \in Instances, NEW o \in Ops, Cancel(i, o)
      PROVE  FreshInv' /\ AttemptWithinLimit'
  BY <1>18 DEF Cancel, GiveUpLease
<1>19. ASSUME NEW i \in Instances, CancelActive(i)
      PROVE  FreshInv' /\ AttemptWithinLimit'
  BY <1>19 DEF CancelActive, rowVars
<1>20. ASSUME NEW i \in Instances, ParentEnds(i)
      PROVE  FreshInv' /\ AttemptWithinLimit'
  BY <1>20 DEF ParentEnds, rowVars
<1>21. ASSUME NEW i \in Instances, ShutdownBegin(i)
      PROVE  FreshInv' /\ AttemptWithinLimit'
  BY <1>21 DEF ShutdownBegin, rowVars
<1>22. ASSUME NEW i \in Instances, ShutdownDrained(i)
      PROVE  FreshInv' /\ AttemptWithinLimit'
  BY <1>22 DEF ShutdownDrained, rowVars
<1>23. ASSUME NEW i \in Instances, ShutdownExpires(i)
      PROVE  FreshInv' /\ AttemptWithinLimit'
  BY <1>23 DEF ShutdownExpires, rowVars
<1>24. ASSUME NEW i \in Instances, ShutdownReleases(i)
      PROVE  FreshInv' /\ AttemptWithinLimit'
  BY <1>24 DEF ShutdownReleases, ReleaseInstance, GiveBack, rowVars
<1>25. ASSUME NEW i \in Instances, Crash(i)
      PROVE  FreshInv' /\ AttemptWithinLimit'
  BY <1>25 DEF Crash, rowVars
<1>26. CASE UNCHANGED vars
  BY <1>26 DEF vars, rowVars, instanceVars, workerVars, deliveryVars, rowVars,
     instanceVars, workerVars, deliveryVars, Candidate
<1>27. ASSUME NEW w \in Owners, RenewLate(w)
      PROVE  FreshInv' /\ AttemptWithinLimit'
  BY <1>27 DEF RenewLate, Owns, Storing, workerVars, deliveryVars
<1>28. ASSUME NEW f \in inFlight, LateStatement(f)
      PROVE  FreshInv' /\ AttemptWithinLimit'
  BY <1>28 DEF FlightInv, LateStatement, Storing, Update, GiveUpLease, GiveBack, rowVars
<1> QED
  BY <1>1, <1>2, <1>3, <1>4, <1>5, <1>6, <1>7, <1>8, <1>9, <1>10, <1>11, <1>12, <1>13,
     <1>14, <1>15, <1>16, <1>17, <1>18, <1>19, <1>20, <1>21, <1>22, <1>23, <1>24, <1>25,
     <1>26, <1>27, <1>28 DEF Next, WorkerStep, InstanceStep

\* Nothing revives workerBase.
LEMMA ReleasingStep ==
    ASSUME TypeOK, ReleasingInv, [Next]_vars
    PROVE  ReleasingInv'
<1> USE DEF TypeOK, TypeRows, TypeInstances, TypeWorkers, ReleasingInv
<1>1. ASSUME NEW o \in Ops, LeaseExpires(o)
      PROVE  ReleasingInv'
  BY <1>1 DEF LeaseExpires, instanceVars
<1>2. ASSUME NEW o \in Ops, BecomesDue(o)
      PROVE  ReleasingInv'
  BY <1>2 DEF BecomesDue, instanceVars
<1>3. ASSUME NEW o \in Ops, Submit(o)
      PROVE  ReleasingInv'
  BY <1>3 DEF Submit, instanceVars
<1>4. ASSUME NEW w \in Owners, TaskTimeout(w)
      PROVE  ReleasingInv'
  BY <1>4 DEF TaskTimeout, instanceVars
<1>5. ASSUME NEW w \in Owners, Poll(w)
      PROVE  ReleasingInv'
  BY <1>5 DEF Poll, instanceVars
<1>6. ASSUME NEW w \in Owners, ExpireLeases(w)
      PROVE  ReleasingInv'
  BY <1>6 DEF ExpireLeases, instanceVars
<1>7. ASSUME NEW w \in Owners, ExpireLeasesError(w)
      PROVE  ReleasingInv'
  BY <1>7 DEF ExpireLeasesError, instanceVars
<1>8. ASSUME NEW w \in Owners, Lease(w)
      PROVE  ReleasingInv'
  BY <1>8 DEF Lease, instanceVars
<1>9. ASSUME NEW w \in Owners, LeaseUnanswered(w)
      PROVE  ReleasingInv'
  BY <1>9 DEF LeaseUnanswered, instanceVars
<1>10. ASSUME NEW w \in Owners, LeaseNothing(w)
      PROVE  ReleasingInv'
  BY <1>10 DEF LeaseNothing, instanceVars
<1>11. ASSUME NEW w \in Owners, RunBegin(w)
      PROVE  ReleasingInv'
  BY <1>11 DEF RunBegin, instanceVars
<1>12. ASSUME NEW w \in Owners, RenewLease(w)
      PROVE  ReleasingInv'
  BY <1>12 DEF RenewLease, instanceVars
<1>13. ASSUME NEW w \in Owners, NEW result \in {"ok", "error", "permanent"}, HandlerReturn(w, result)
      PROVE  ReleasingInv'
  BY <1>13 DEF HandlerReturn, instanceVars
<1>14. ASSUME NEW w \in Owners, Decide(w)
      PROVE  ReleasingInv'
  BY <1>14 DEF Decide, instanceVars
<1>15. ASSUME NEW w \in Owners, Store(w)
      PROVE  ReleasingInv'
  BY <1>15 DEF Store, instanceVars
<1>16. ASSUME NEW w \in Owners, StoreError(w)
      PROVE  ReleasingInv'
  BY <1>16 DEF StoreError, instanceVars
<1>17. ASSUME NEW i \in Instances, Start(i)
      PROVE  ReleasingInv'
  BY <1>17 DEF Start
<1>18. ASSUME NEW i \in Instances, NEW o \in Ops, Cancel(i, o)
      PROVE  ReleasingInv'
  BY <1>18 DEF Cancel
<1>19. ASSUME NEW i \in Instances, CancelActive(i)
      PROVE  ReleasingInv'
  BY <1>19 DEF CancelActive
<1>20. ASSUME NEW i \in Instances, ParentEnds(i)
      PROVE  ReleasingInv'
  BY <1>20 DEF ParentEnds
<1>21. ASSUME NEW i \in Instances, ShutdownBegin(i)
      PROVE  ReleasingInv'
  BY <1>21 DEF ShutdownBegin
<1>22. ASSUME NEW i \in Instances, ShutdownDrained(i)
      PROVE  ReleasingInv'
  BY <1>22 DEF ShutdownDrained
<1>23. ASSUME NEW i \in Instances, ShutdownExpires(i)
      PROVE  ReleasingInv'
  BY <1>23 DEF ShutdownExpires
<1>24. ASSUME NEW i \in Instances, ShutdownReleases(i)
      PROVE  ReleasingInv'
  BY <1>24 DEF ShutdownReleases
<1>25. ASSUME NEW i \in Instances, Crash(i)
      PROVE  ReleasingInv'
  BY <1>25 DEF Crash
<1>26. CASE UNCHANGED vars
  BY <1>26 DEF vars, rowVars, instanceVars, workerVars, deliveryVars, rowVars,
     instanceVars, workerVars, deliveryVars
<1>27. ASSUME NEW w \in Owners, RenewLate(w)
      PROVE  ReleasingInv'
  BY <1>27 DEF RenewLate, Owns, Storing, workerVars, instanceVars, deliveryVars
<1>28. ASSUME NEW f \in inFlight, LateStatement(f)
      PROVE  ReleasingInv'
  BY <1>28 DEF LateStatement, instanceVars
<1> QED
  BY <1>1, <1>2, <1>3, <1>4, <1>5, <1>6, <1>7, <1>8, <1>9, <1>10, <1>11, <1>12, <1>13,
     <1>14, <1>15, <1>16, <1>17, <1>18, <1>19, <1>20, <1>21, <1>22, <1>23, <1>24, <1>25,
     <1>26, <1>27, <1>28 DEF Next, WorkerStep, InstanceStep

\* The attempt of a row falls by one at a time, and only when it stops being leased.
LEMMA AheadStep ==
    ASSUME TypeOK, AheadInv, [Next]_vars
    PROVE  AheadInv'
<1> USE NobodyAssumption DEF TypeOK, TypeRows, TypeInstances, TypeWorkers, InRun, Status, Terminal, AheadInv
<1>1. ASSUME NEW o \in Ops, LeaseExpires(o)
      PROVE  AheadInv'
  BY <1>1 DEF LeaseExpires, workerVars, deliveryVars
<1>2. ASSUME NEW o \in Ops, BecomesDue(o)
      PROVE  AheadInv'
  BY <1>2 DEF BecomesDue, workerVars, deliveryVars
<1>3. ASSUME NEW o \in Ops, Submit(o)
      PROVE  AheadInv'
  BY <1>3 DEF Submit, workerVars, deliveryVars
<1>4. ASSUME NEW w \in Owners, TaskTimeout(w)
      PROVE  AheadInv'
  BY <1>4 DEF TaskTimeout, rowVars, deliveryVars
<1>5. ASSUME NEW w \in Owners, Poll(w)
      PROVE  AheadInv'
  BY <1>5 DEF Poll, rowVars, deliveryVars
<1>6. ASSUME NEW w \in Owners, ExpireLeases(w)
      PROVE  AheadInv'
  BY <1>6 DEF ExpireLeases, FailExhausted, deliveryVars
<1>7. ASSUME NEW w \in Owners, ExpireLeasesError(w)
      PROVE  AheadInv'
  BY <1>7 DEF ExpireLeasesError, FailExhausted, rowVars, deliveryVars
<1>8. ASSUME NEW w \in Owners, Lease(w)
      PROVE  AheadInv'
  BY <1>8 DEF Lease, TakeLease, Candidate
<1>9. ASSUME NEW w \in Owners, LeaseUnanswered(w)
      PROVE  AheadInv'
  BY <1>9 DEF LeaseUnanswered, TakeLease, deliveryVars, Candidate
<1>10. ASSUME NEW w \in Owners, LeaseNothing(w)
      PROVE  AheadInv'
  BY <1>10 DEF LeaseNothing, rowVars, deliveryVars
<1>11. ASSUME NEW w \in Owners, RunBegin(w)
      PROVE  AheadInv'
  BY <1>11 DEF RunBegin, rowVars, deliveryVars
<1>12. ASSUME NEW w \in Owners, RenewLease(w)
      PROVE  AheadInv'
  BY <1>12 DEF RenewLease, Owns, deliveryVars
<1>13. ASSUME NEW w \in Owners, NEW result \in {"ok", "error", "permanent"}, HandlerReturn(w, result)
      PROVE  AheadInv'
  BY <1>13 DEF HandlerReturn, rowVars, deliveryVars
<1>14. ASSUME NEW w \in Owners, Decide(w)
      PROVE  AheadInv'
  BY <1>14 DEF Decide, AfterFailure, rowVars, deliveryVars
<1>15. ASSUME NEW w \in Owners, Store(w)
      PROVE  AheadInv'
  BY <1>15 DEF Store, Storing, OwnedUpdate, Update, GiveUpLease, GiveBack, EndDelivery, Owns,
     rowVars
<1>16. ASSUME NEW w \in Owners, StoreError(w)
      PROVE  AheadInv'
  BY <1>16 DEF StoreError, Storing, OwnedUpdate, Update, GiveUpLease, GiveBack, EndDelivery,
     AfterFailure, Owns, rowVars, deliveryVars
<1>17. ASSUME NEW i \in Instances, Start(i)
      PROVE  AheadInv'
  BY <1>17 DEF Start, rowVars, deliveryVars
<1>18. ASSUME NEW i \in Instances, NEW o \in Ops, Cancel(i, o)
      PROVE  AheadInv'
  BY <1>18 DEF Cancel, GiveUpLease, workerVars, deliveryVars
<1>19. ASSUME NEW i \in Instances, CancelActive(i)
      PROVE  AheadInv'
  BY <1>19 DEF CancelActive, rowVars, deliveryVars
<1>20. ASSUME NEW i \in Instances, ParentEnds(i)
      PROVE  AheadInv'
  BY <1>20 DEF ParentEnds, rowVars, workerVars, deliveryVars
<1>21. ASSUME NEW i \in Instances, ShutdownBegin(i)
      PROVE  AheadInv'
  BY <1>21 DEF ShutdownBegin, rowVars, workerVars, deliveryVars
<1>22. ASSUME NEW i \in Instances, ShutdownDrained(i)
      PROVE  AheadInv'
  BY <1>22 DEF ShutdownDrained, rowVars, workerVars, deliveryVars
<1>23. ASSUME NEW i \in Instances, ShutdownExpires(i)
      PROVE  AheadInv'
  BY <1>23 DEF ShutdownExpires, rowVars, deliveryVars
<1>24. ASSUME NEW i \in Instances, ShutdownReleases(i)
      PROVE  AheadInv'
  BY <1>24 DEF ShutdownReleases, ReleaseInstance, GiveBack, rowVars, workerVars,
     deliveryVars
<1>25. ASSUME NEW i \in Instances, Crash(i)
      PROVE  AheadInv'
  BY <1>25 DEF Crash, rowVars, deliveryVars
<1>26. CASE UNCHANGED vars
  BY <1>26 DEF vars, rowVars, instanceVars, workerVars, deliveryVars, rowVars,
     instanceVars, workerVars, deliveryVars, Candidate
<1>27. ASSUME NEW w \in Owners, RenewLate(w)
      PROVE  AheadInv'
  BY <1>27 DEF RenewLate, Owns, Storing, workerVars, deliveryVars
<1>28. ASSUME NEW f \in inFlight, LateStatement(f)
      PROVE  AheadInv'
  BY <1>28 DEF LateStatement, Storing, Update, GiveUpLease, GiveBack, rowVars, workerVars,
     deliveryVars
<1> QED
  BY <1>1, <1>2, <1>3, <1>4, <1>5, <1>6, <1>7, <1>8, <1>9, <1>10, <1>11, <1>12, <1>13,
     <1>14, <1>15, <1>16, <1>17, <1>18, <1>19, <1>20, <1>21, <1>22, <1>23, <1>24, <1>25,
     <1>26, <1>27, <1>28 DEF Next, WorkerStep, InstanceStep

\* Only Start brings a worker to life.
LEMMA UnbornStep ==
    ASSUME TypeOK, UnbornInv, [Next]_vars
    PROVE  UnbornInv'
<1> USE DEF TypeOK, TypeInstances, TypeWorkers, InRun, UnbornInv
<1>1. ASSUME NEW o \in Ops, LeaseExpires(o)
      PROVE  UnbornInv'
  BY <1>1 DEF LeaseExpires, instanceVars, workerVars, deliveryVars
<1>2. ASSUME NEW o \in Ops, BecomesDue(o)
      PROVE  UnbornInv'
  BY <1>2 DEF BecomesDue, instanceVars, workerVars, deliveryVars
<1>3. ASSUME NEW o \in Ops, Submit(o)
      PROVE  UnbornInv'
  BY <1>3 DEF Submit, instanceVars, workerVars, deliveryVars
<1>4. ASSUME NEW w \in Owners, TaskTimeout(w)
      PROVE  UnbornInv'
  BY <1>4 DEF TaskTimeout, instanceVars, deliveryVars
<1>5. ASSUME NEW w \in Owners, Poll(w)
      PROVE  UnbornInv'
  BY <1>5 DEF Poll, instanceVars, deliveryVars
<1>6. ASSUME NEW w \in Owners, ExpireLeases(w)
      PROVE  UnbornInv'
  BY <1>6 DEF ExpireLeases, instanceVars, deliveryVars
<1>7. ASSUME NEW w \in Owners, ExpireLeasesError(w)
      PROVE  UnbornInv'
  BY <1>7 DEF ExpireLeasesError, instanceVars, deliveryVars
<1>8. ASSUME NEW w \in Owners, Lease(w)
      PROVE  UnbornInv'
  BY <1>8 DEF Lease, instanceVars
<1>9. ASSUME NEW w \in Owners, LeaseUnanswered(w)
      PROVE  UnbornInv'
  BY <1>9 DEF LeaseUnanswered, instanceVars, deliveryVars
<1>10. ASSUME NEW w \in Owners, LeaseNothing(w)
      PROVE  UnbornInv'
  BY <1>10 DEF LeaseNothing, instanceVars, deliveryVars
<1>11. ASSUME NEW w \in Owners, RunBegin(w)
      PROVE  UnbornInv'
  BY <1>11 DEF RunBegin, instanceVars, deliveryVars
<1>12. ASSUME NEW w \in Owners, RenewLease(w)
      PROVE  UnbornInv'
  BY <1>12 DEF RenewLease, instanceVars, deliveryVars
<1>13. ASSUME NEW w \in Owners, NEW result \in {"ok", "error", "permanent"}, HandlerReturn(w, result)
      PROVE  UnbornInv'
  BY <1>13 DEF HandlerReturn, instanceVars, deliveryVars
<1>14. ASSUME NEW w \in Owners, Decide(w)
      PROVE  UnbornInv'
  BY <1>14 DEF Decide, AfterFailure, instanceVars, deliveryVars
<1>15. ASSUME NEW w \in Owners, Store(w)
      PROVE  UnbornInv'
  BY <1>15 DEF Store, Storing, EndDelivery, instanceVars
<1>16. ASSUME NEW w \in Owners, StoreError(w)
      PROVE  UnbornInv'
  BY <1>16 DEF StoreError, Storing, EndDelivery, AfterFailure, instanceVars, deliveryVars
<1>17. ASSUME NEW i \in Instances, Start(i)
      PROVE  UnbornInv'
  BY <1>17 DEF Start, deliveryVars
<1>18. ASSUME NEW i \in Instances, NEW o \in Ops, Cancel(i, o)
      PROVE  UnbornInv'
  BY <1>18 DEF Cancel, workerVars, deliveryVars
<1>19. ASSUME NEW i \in Instances, CancelActive(i)
      PROVE  UnbornInv'
  BY <1>19 DEF CancelActive, deliveryVars
<1>20. ASSUME NEW i \in Instances, ParentEnds(i)
      PROVE  UnbornInv'
  BY <1>20 DEF ParentEnds, workerVars, deliveryVars
<1>21. ASSUME NEW i \in Instances, ShutdownBegin(i)
      PROVE  UnbornInv'
  BY <1>21 DEF ShutdownBegin, workerVars, deliveryVars
<1>22. ASSUME NEW i \in Instances, ShutdownDrained(i)
      PROVE  UnbornInv'
  BY <1>22 DEF ShutdownDrained, workerVars, deliveryVars
<1>23. ASSUME NEW i \in Instances, ShutdownExpires(i)
      PROVE  UnbornInv'
  BY <1>23 DEF ShutdownExpires, deliveryVars
<1>24. ASSUME NEW i \in Instances, ShutdownReleases(i)
      PROVE  UnbornInv'
  BY <1>24 DEF ShutdownReleases, workerVars, deliveryVars
<1>25. ASSUME NEW i \in Instances, Crash(i)
      PROVE  UnbornInv'
  BY <1>25 DEF Crash, deliveryVars
<1>26. CASE UNCHANGED vars
  BY <1>26 DEF vars, rowVars, instanceVars, workerVars, deliveryVars
<1>27. ASSUME NEW w \in Owners, RenewLate(w)
      PROVE  UnbornInv'
  BY <1>27 DEF RenewLate, Owns, Storing, workerVars, instanceVars, deliveryVars
<1>28. ASSUME NEW f \in inFlight, LateStatement(f)
      PROVE  UnbornInv'
  BY <1>28 DEF LateStatement, instanceVars, workerVars, deliveryVars
<1> QED
  BY <1>1, <1>2, <1>3, <1>4, <1>5, <1>6, <1>7, <1>8, <1>9, <1>10, <1>11, <1>12, <1>13,
     <1>14, <1>15, <1>16, <1>17, <1>18, <1>19, <1>20, <1>21, <1>22, <1>23, <1>24, <1>25,
     <1>26, <1>27, <1>28 DEF Next, WorkerStep, InstanceStep

--------------------------------------------------------------------------------
\* The tokens.  A step that gives an attempt back is made by the owner of the row, after
\* its instance has stopped accepting, or by the Shutdown of that instance, after
\* workerBase has ended: no worker that may still take a lease has a token of that
\* attempt.

\* A worker that may take a lease after a step was able to before it.
LEMMA MayLeaseFalls ==
    ASSUME TypeOK, UnbornInv, [Next]_vars, NEW w \in Owners, MayLease(w)'
    PROVE  MayLease(w)
<1> USE DEF TypeOK, TypeInstances, TypeWorkers, InRun, MayLease, Accepting, UnbornInv
<1>1. ASSUME NEW o \in Ops, LeaseExpires(o)
      PROVE  MayLease(w)
  BY <1>1 DEF LeaseExpires, instanceVars, workerVars, deliveryVars
<1>2. ASSUME NEW o \in Ops, BecomesDue(o)
      PROVE  MayLease(w)
  BY <1>2 DEF BecomesDue, instanceVars, workerVars, deliveryVars
<1>3. ASSUME NEW o \in Ops, Submit(o)
      PROVE  MayLease(w)
  BY <1>3 DEF Submit, instanceVars, workerVars, deliveryVars
<1>4. ASSUME NEW v \in Owners, TaskTimeout(v)
      PROVE  MayLease(w)
  BY <1>4 DEF TaskTimeout, instanceVars, deliveryVars
<1>5. ASSUME NEW v \in Owners, Poll(v)
      PROVE  MayLease(w)
  BY <1>5 DEF Poll, instanceVars, deliveryVars
<1>6. ASSUME NEW v \in Owners, ExpireLeases(v)
      PROVE  MayLease(w)
  BY <1>6 DEF ExpireLeases, instanceVars, deliveryVars
<1>7. ASSUME NEW v \in Owners, ExpireLeasesError(v)
      PROVE  MayLease(w)
  BY <1>7 DEF ExpireLeasesError, instanceVars, deliveryVars
<1>8. ASSUME NEW v \in Owners, Lease(v)
      PROVE  MayLease(w)
  BY <1>8 DEF Lease, instanceVars
<1>9. ASSUME NEW v \in Owners, LeaseUnanswered(v)
      PROVE  MayLease(w)
  BY <1>9 DEF LeaseUnanswered, instanceVars, deliveryVars
<1>10. ASSUME NEW v \in Owners, LeaseNothing(v)
      PROVE  MayLease(w)
  BY <1>10 DEF LeaseNothing, instanceVars, deliveryVars
<1>11. ASSUME NEW v \in Owners, RunBegin(v)
      PROVE  MayLease(w)
  BY <1>11 DEF RunBegin, instanceVars, deliveryVars
<1>12. ASSUME NEW v \in Owners, RenewLease(v)
      PROVE  MayLease(w)
  BY <1>12 DEF RenewLease, instanceVars, deliveryVars
<1>13. ASSUME NEW v \in Owners, NEW result \in {"ok", "error", "permanent"}, HandlerReturn(v, result)
      PROVE  MayLease(w)
  BY <1>13 DEF HandlerReturn, instanceVars, deliveryVars
<1>14. ASSUME NEW v \in Owners, Decide(v)
      PROVE  MayLease(w)
  BY <1>14 DEF Decide, AfterFailure, instanceVars, deliveryVars
<1>15. ASSUME NEW v \in Owners, Store(v)
      PROVE  MayLease(w)
  BY <1>15 DEF Store, Storing, EndDelivery, instanceVars
<1>16. ASSUME NEW v \in Owners, StoreError(v)
      PROVE  MayLease(w)
  BY <1>16 DEF StoreError, Storing, EndDelivery, AfterFailure, instanceVars, deliveryVars
<1>17. ASSUME NEW i \in Instances, Start(i)
      PROVE  MayLease(w)
  BY <1>17 DEF Start, deliveryVars
<1>18. ASSUME NEW i \in Instances, NEW o \in Ops, Cancel(i, o)
      PROVE  MayLease(w)
  BY <1>18 DEF Cancel, workerVars, deliveryVars
<1>19. ASSUME NEW i \in Instances, CancelActive(i)
      PROVE  MayLease(w)
  BY <1>19 DEF CancelActive, deliveryVars
<1>20. ASSUME NEW i \in Instances, ParentEnds(i)
      PROVE  MayLease(w)
  BY <1>20 DEF ParentEnds, workerVars, deliveryVars
<1>21. ASSUME NEW i \in Instances, ShutdownBegin(i)
      PROVE  MayLease(w)
  BY <1>21 DEF ShutdownBegin, workerVars, deliveryVars
<1>22. ASSUME NEW i \in Instances, ShutdownDrained(i)
      PROVE  MayLease(w)
  BY <1>22 DEF ShutdownDrained, workerVars, deliveryVars
<1>23. ASSUME NEW i \in Instances, ShutdownExpires(i)
      PROVE  MayLease(w)
  BY <1>23 DEF ShutdownExpires, deliveryVars
<1>24. ASSUME NEW i \in Instances, ShutdownReleases(i)
      PROVE  MayLease(w)
  BY <1>24 DEF ShutdownReleases, workerVars, deliveryVars
<1>25. ASSUME NEW i \in Instances, Crash(i)
      PROVE  MayLease(w)
  BY <1>25 DEF Crash, deliveryVars
<1>26. CASE UNCHANGED vars
  BY <1>26 DEF vars, rowVars, instanceVars, workerVars, deliveryVars
<1>27. ASSUME NEW v \in Owners, RenewLate(v)
      PROVE  MayLease(w)
  BY <1>27 DEF RenewLate, Owns, Storing, workerVars, instanceVars, deliveryVars
<1>28. ASSUME NEW f \in inFlight, LateStatement(f)
      PROVE  MayLease(w)
  BY <1>28 DEF LateStatement, instanceVars, workerVars, deliveryVars
<1> QED
  BY <1>1, <1>2, <1>3, <1>4, <1>5, <1>6, <1>7, <1>8, <1>9, <1>10, <1>11, <1>12, <1>13,
     <1>14, <1>15, <1>16, <1>17, <1>18, <1>19, <1>20, <1>21, <1>22, <1>23, <1>24, <1>25,
     <1>26, <1>27, <1>28 DEF Next, WorkerStep, InstanceStep

\* A worker gives a statement up in storing, and the database ends it.
LEMMA InFlightBy ==
    ASSUME [Next]_vars
    PROVE  \/ inFlight' = inFlight
           \/ \E v \in Owners : StoreError(v)
           \/ \E f \in inFlight : LateStatement(f)
<1> DEFINE Goal == \/ inFlight' = inFlight
                   \/ \E v \in Owners : StoreError(v)
                   \/ \E f \in inFlight : LateStatement(f)
<1>1. ASSUME NEW o \in Ops, LeaseExpires(o)
      PROVE  Goal
  BY <1>1 DEF LeaseExpires
<1>2. ASSUME NEW o \in Ops, BecomesDue(o)
      PROVE  Goal
  BY <1>2 DEF BecomesDue
<1>3. ASSUME NEW o \in Ops, Submit(o)
      PROVE  Goal
  BY <1>3 DEF Submit
<1>4. ASSUME NEW w \in Owners, TaskTimeout(w)
      PROVE  Goal
  BY <1>4 DEF TaskTimeout
<1>5. ASSUME NEW w \in Owners, Poll(w)
      PROVE  Goal
  BY <1>5 DEF Poll
<1>6. ASSUME NEW w \in Owners, ExpireLeases(w)
      PROVE  Goal
  BY <1>6 DEF ExpireLeases
<1>7. ASSUME NEW w \in Owners, ExpireLeasesError(w)
      PROVE  Goal
  BY <1>7 DEF ExpireLeasesError
<1>8. ASSUME NEW w \in Owners, Lease(w)
      PROVE  Goal
  BY <1>8 DEF Lease
<1>9. ASSUME NEW w \in Owners, LeaseUnanswered(w)
      PROVE  Goal
  BY <1>9 DEF LeaseUnanswered
<1>10. ASSUME NEW w \in Owners, LeaseNothing(w)
      PROVE  Goal
  BY <1>10 DEF LeaseNothing
<1>11. ASSUME NEW w \in Owners, RunBegin(w)
      PROVE  Goal
  BY <1>11 DEF RunBegin
<1>12. ASSUME NEW w \in Owners, RenewLease(w)
      PROVE  Goal
  BY <1>12 DEF RenewLease
<1>13. ASSUME NEW w \in Owners, NEW result \in {"ok", "error", "permanent"}, HandlerReturn(w, result)
      PROVE  Goal
  BY <1>13 DEF HandlerReturn
<1>14. ASSUME NEW w \in Owners, Decide(w)
      PROVE  Goal
  BY <1>14 DEF Decide
<1>15. ASSUME NEW w \in Owners, Store(w)
      PROVE  Goal
  BY <1>15 DEF Store
<1>16. ASSUME NEW w \in Owners, StoreError(w)
      PROVE  Goal
  BY <1>16
<1>17. ASSUME NEW i \in Instances, Start(i)
      PROVE  Goal
  BY <1>17 DEF Start
<1>18. ASSUME NEW i \in Instances, NEW o \in Ops, Cancel(i, o)
      PROVE  Goal
  BY <1>18 DEF Cancel
<1>19. ASSUME NEW i \in Instances, CancelActive(i)
      PROVE  Goal
  BY <1>19 DEF CancelActive
<1>20. ASSUME NEW i \in Instances, ParentEnds(i)
      PROVE  Goal
  BY <1>20 DEF ParentEnds
<1>21. ASSUME NEW i \in Instances, ShutdownBegin(i)
      PROVE  Goal
  BY <1>21 DEF ShutdownBegin
<1>22. ASSUME NEW i \in Instances, ShutdownDrained(i)
      PROVE  Goal
  BY <1>22 DEF ShutdownDrained
<1>23. ASSUME NEW i \in Instances, ShutdownExpires(i)
      PROVE  Goal
  BY <1>23 DEF ShutdownExpires
<1>24. ASSUME NEW i \in Instances, ShutdownReleases(i)
      PROVE  Goal
  BY <1>24 DEF ShutdownReleases
<1>25. ASSUME NEW i \in Instances, Crash(i)
      PROVE  Goal
  BY <1>25 DEF Crash
<1>26. CASE UNCHANGED vars
  BY <1>26 DEF vars
<1>27. ASSUME NEW w \in Owners, RenewLate(w)
      PROVE  Goal
  BY <1>27 DEF RenewLate
<1>28. ASSUME NEW f \in inFlight, LateStatement(f)
      PROVE  Goal
  BY <1>28
<1> QED
  BY <1>1, <1>2, <1>3, <1>4, <1>5, <1>6, <1>7, <1>8, <1>9, <1>10, <1>11, <1>12, <1>13,
     <1>14, <1>15, <1>16, <1>17, <1>18, <1>19, <1>20, <1>21, <1>22, <1>23, <1>24, <1>25,
     <1>26, <1>27, <1>28 DEF Next, WorkerStep, InstanceStep

\* What is known of a statement stays known until the database carries it out.
LEMMA FlightStep ==
    ASSUME TypeOK, DecisionInv, UnbornInv, FlightInv, [Next]_vars
    PROVE  FlightInv'
<1>1. \A w \in Owners : MayLease(w)' => MayLease(w)
  BY MayLeaseFalls
<1>2. inFlight \subseteq Storing \X Ops \X Owners \X Nat
  BY DEF TypeOK, TypeWorkers
<1>3. CASE inFlight' \subseteq inFlight
  BY <1>1, <1>2, <1>3 DEF FlightInv
<1>4. ASSUME NEW w \in Owners, StoreError(w), ~(inFlight' \subseteq inFlight)
      PROVE  FlightInv'
  <2>1. inFlight' = inFlight \union {<<workerPc[w], workerOp[w], w, workerAttempt[w]>>}
    BY <1>4 DEF StoreError
  <2>2. workerPc[w] = "retry" => workerAttempt[w] < MaxAttempts[workerOp[w]]
    BY DEF DecisionInv
  <2>3. ASSUME workerPc[w] = "release"
        PROVE  ~MayLease(w)'
    <3>1. workerPc'[w] = "polling" /\ state' = state
      BY <1>4, <2>3 DEF StoreError, EndDelivery, instanceVars, TypeOK, TypeWorkers
    <3>2. state[Of(w)] # "created" /\ state[Of(w)] # "running"
      BY <2>3 DEF UnbornInv, DecisionInv, Accepting
    <3> QED
      BY <3>1, <3>2 DEF MayLease, Accepting
  <2> QED
    BY <1>1, <1>2, <2>1, <2>2, <2>3 DEF FlightInv
<1>5. ASSUME NEW f \in inFlight, LateStatement(f)
      PROVE  inFlight' \subseteq inFlight
  BY <1>5 DEF LateStatement
<1> QED
  BY <1>3, <1>4, <1>5, InFlightBy

\* What a worker that may take a lease has been told stays behind the row.
LEMMA PastStep ==
    ASSUME TypeOK, DecisionInv, FlightInv, ReleasingInv, UnbornInv, [Next]_vars,
           NEW w \in Owners, MayLease(w)', NEW o \in Ops, NEW n \in Nat, Past(w, o, n)
    PROVE  Past(w, o, n)'
<1> USE DEF TypeOK, TypeRows, TypeInstances, TypeWorkers, InRun, Past
<1>1. ASSUME NEW q \in Ops, LeaseExpires(q)
      PROVE  Past(w, o, n)'
  BY <1>1 DEF LeaseExpires
<1>2. ASSUME NEW q \in Ops, BecomesDue(q)
      PROVE  Past(w, o, n)'
  BY <1>2 DEF BecomesDue
<1>3. ASSUME NEW q \in Ops, Submit(q)
      PROVE  Past(w, o, n)'
  BY <1>3 DEF Submit
<1>4. ASSUME NEW v \in Owners, TaskTimeout(v)
      PROVE  Past(w, o, n)'
  BY <1>4 DEF TaskTimeout, rowVars
<1>5. ASSUME NEW v \in Owners, Poll(v)
      PROVE  Past(w, o, n)'
  BY <1>5 DEF Poll, rowVars
<1>6. ASSUME NEW v \in Owners, ExpireLeases(v)
      PROVE  Past(w, o, n)'
  BY <1>6 DEF ExpireLeases, FailExhausted
<1>7. ASSUME NEW v \in Owners, ExpireLeasesError(v)
      PROVE  Past(w, o, n)'
  BY <1>7 DEF ExpireLeasesError, FailExhausted, rowVars
<1>8. ASSUME NEW v \in Owners, Lease(v)
      PROVE  Past(w, o, n)'
  BY <1>8 DEF Lease, TakeLease
<1>9. ASSUME NEW v \in Owners, LeaseUnanswered(v)
      PROVE  Past(w, o, n)'
  BY <1>9 DEF LeaseUnanswered, TakeLease
<1>10. ASSUME NEW v \in Owners, LeaseNothing(v)
      PROVE  Past(w, o, n)'
  BY <1>10 DEF LeaseNothing, rowVars
<1>11. ASSUME NEW v \in Owners, RunBegin(v)
      PROVE  Past(w, o, n)'
  BY <1>11 DEF RunBegin, rowVars
<1>12. ASSUME NEW v \in Owners, RenewLease(v)
      PROVE  Past(w, o, n)'
  BY <1>12 DEF RenewLease, Owns
<1>13. ASSUME NEW v \in Owners, NEW result \in {"ok", "error", "permanent"}, HandlerReturn(v, result)
      PROVE  Past(w, o, n)'
  BY <1>13 DEF HandlerReturn, rowVars
<1>14. ASSUME NEW v \in Owners, Decide(v)
      PROVE  Past(w, o, n)'
  BY <1>14 DEF Decide, rowVars
<1>15. ASSUME NEW v \in Owners, Store(v)
      PROVE  Past(w, o, n)'
  <2>1. workerOp[v] \in Ops /\ workerPc[v] # "unborn"
    BY <1>15 DEF Store, Storing
  <2>2. workerPc[v] = "release" => v # w
    BY <1>15, <2>1 DEF Store, EndDelivery, instanceVars, DecisionInv, UnbornInv,
       MayLease, Accepting
  <2>3. CASE UNCHANGED rowVars
    BY <2>3 DEF rowVars
  <2>4. CASE Owns(v) /\ OwnedUpdate(v)
    BY <2>1, <2>2, <2>4 DEF OwnedUpdate, Update, GiveUpLease, GiveBack, Owns
  <2> QED
    BY <1>15, <2>3, <2>4 DEF Store
<1>16. ASSUME NEW v \in Owners, StoreError(v)
      PROVE  Past(w, o, n)'
  <2>1. workerOp[v] \in Ops /\ workerPc[v] # "unborn"
    BY <1>16 DEF StoreError, Storing
  <2>2. workerPc[v] = "release" => v # w
    BY <1>16, <2>1 DEF StoreError, EndDelivery, instanceVars, DecisionInv, UnbornInv,
       MayLease,
                   Accepting
  <2>3. CASE UNCHANGED rowVars
    BY <2>3 DEF rowVars
  <2>4. CASE Owns(v) /\ OwnedUpdate(v)
    BY <2>1, <2>2, <2>4 DEF OwnedUpdate, Update, GiveUpLease, GiveBack, Owns
  <2> QED
    BY <1>16, <2>3, <2>4 DEF StoreError
<1>17. ASSUME NEW i \in Instances, Start(i)
      PROVE  Past(w, o, n)'
  BY <1>17 DEF Start, rowVars
<1>18. ASSUME NEW i \in Instances, NEW q \in Ops, Cancel(i, q)
      PROVE  Past(w, o, n)'
  BY <1>18 DEF Cancel, GiveUpLease
<1>19. ASSUME NEW i \in Instances, CancelActive(i)
      PROVE  Past(w, o, n)'
  BY <1>19 DEF CancelActive, rowVars
<1>20. ASSUME NEW i \in Instances, ParentEnds(i)
      PROVE  Past(w, o, n)'
  BY <1>20 DEF ParentEnds, rowVars
<1>21. ASSUME NEW i \in Instances, ShutdownBegin(i)
      PROVE  Past(w, o, n)'
  BY <1>21 DEF ShutdownBegin, rowVars
<1>22. ASSUME NEW i \in Instances, ShutdownDrained(i)
      PROVE  Past(w, o, n)'
  BY <1>22 DEF ShutdownDrained, rowVars
<1>23. ASSUME NEW i \in Instances, ShutdownExpires(i)
      PROVE  Past(w, o, n)'
  BY <1>23 DEF ShutdownExpires, rowVars
<1>24. ASSUME NEW i \in Instances, ShutdownReleases(i)
      PROVE  Past(w, o, n)'
  <2>1. Of(w) # i
    BY <1>24 DEF ShutdownReleases, ReleasingInv, MayLease
  <2>2. w \notin {i} \X Slots
    BY <2>1 DEF Of
  <2>3. CASE UNCHANGED rowVars
    BY <2>3 DEF rowVars
  <2>4. CASE ReleaseInstance(i)
    <3>1. CASE status[o] = "running" /\ leaseOwner[o] \in {i} \X Slots
      <4>1. n < attempt[o]
        BY <2>2, <3>1
      <4>2. status'[o] = "retrying" /\ attempt'[o] = GiveBack(attempt[o])
        BY <2>4, <3>1 DEF ReleaseInstance
      <4> QED
        BY <4>1, <4>2 DEF GiveBack
    <3>2. CASE ~(status[o] = "running" /\ leaseOwner[o] \in {i} \X Slots)
      <4>1. status'[o] = status[o] /\ attempt'[o] = attempt[o] /\ leaseOwner'[o] = leaseOwner[o]
        BY <2>4, <3>2 DEF ReleaseInstance
      <4> QED
        BY <4>1
    <3> QED
      BY <3>1, <3>2
  <2> QED
    BY <1>24, <2>3, <2>4 DEF ShutdownReleases
<1>25. ASSUME NEW i \in Instances, Crash(i)
      PROVE  Past(w, o, n)'
  BY <1>25 DEF Crash, rowVars
<1>26. CASE UNCHANGED vars
  BY <1>26 DEF vars, rowVars, instanceVars, workerVars, deliveryVars
<1>27. ASSUME NEW v \in Owners, RenewLate(v)
      PROVE  Past(w, o, n)'
  BY <1>27 DEF RenewLate, Owns, Storing, workerVars, deliveryVars
<1>28. ASSUME NEW f \in inFlight, LateStatement(f)
      PROVE  Past(w, o, n)'
  <2>1. f[1] \in Storing /\ f[2] \in Ops /\ f[3] \in Owners
    BY <1>28
  <2>2. f[1] = "release" => f[3] # w
    BY <1>28, MayLeaseFalls DEF FlightInv
  <2>3. CASE UNCHANGED rowVars
    BY <2>3 DEF rowVars
  <2>4. CASE /\ status[f[2]] = "running" /\ leaseOwner[f[2]] = f[3] /\ attempt[f[2]] = f[4]
             /\ Update(f[1], f[2])
    BY <2>1, <2>2, <2>4 DEF Update, GiveUpLease, GiveBack
  <2> QED
    BY <1>28, <2>3, <2>4 DEF LateStatement
<1> QED
  BY <1>1, <1>2, <1>3, <1>4, <1>5, <1>6, <1>7, <1>8, <1>9, <1>10, <1>11, <1>12, <1>13,
     <1>14, <1>15, <1>16, <1>17, <1>18, <1>19, <1>20, <1>21, <1>22, <1>23, <1>24, <1>25,
     <1>26, <1>27, <1>28 DEF Next, WorkerStep, InstanceStep

\* A delivery ends as run returns, or when the answer to the lease is lost.
LEMMA EndedBy ==
    ASSUME [Next]_vars
    PROVE  \/ ended' = ended
           \/ \E v \in Owners : Store(v) \/ StoreError(v)
           \/ \E v \in Owners : LeaseUnanswered(v)
<1> DEFINE Goal == \/ ended' = ended
                   \/ \E v \in Owners : Store(v) \/ StoreError(v)
                   \/ \E v \in Owners : LeaseUnanswered(v)
<1>1. ASSUME NEW o \in Ops, LeaseExpires(o)
      PROVE  Goal
  BY <1>1 DEF LeaseExpires, workerVars, deliveryVars
<1>2. ASSUME NEW o \in Ops, BecomesDue(o)
      PROVE  Goal
  BY <1>2 DEF BecomesDue, workerVars, deliveryVars
<1>3. ASSUME NEW o \in Ops, Submit(o)
      PROVE  Goal
  BY <1>3 DEF Submit, workerVars, deliveryVars
<1>4. ASSUME NEW w \in Owners, TaskTimeout(w)
      PROVE  Goal
  BY <1>4 DEF TaskTimeout, deliveryVars
<1>5. ASSUME NEW w \in Owners, Poll(w)
      PROVE  Goal
  BY <1>5 DEF Poll, deliveryVars
<1>6. ASSUME NEW w \in Owners, ExpireLeases(w)
      PROVE  Goal
  BY <1>6 DEF ExpireLeases, deliveryVars
<1>7. ASSUME NEW w \in Owners, ExpireLeasesError(w)
      PROVE  Goal
  BY <1>7 DEF ExpireLeasesError, deliveryVars
<1>8. ASSUME NEW w \in Owners, Lease(w)
      PROVE  Goal
  BY <1>8 DEF Lease
<1>9. ASSUME NEW w \in Owners, LeaseUnanswered(w)
      PROVE  Goal
  BY <1>9
<1>10. ASSUME NEW w \in Owners, LeaseNothing(w)
      PROVE  Goal
  BY <1>10 DEF LeaseNothing, deliveryVars
<1>11. ASSUME NEW w \in Owners, RunBegin(w)
      PROVE  Goal
  BY <1>11 DEF RunBegin, deliveryVars
<1>12. ASSUME NEW w \in Owners, RenewLease(w)
      PROVE  Goal
  BY <1>12 DEF RenewLease, deliveryVars
<1>13. ASSUME NEW w \in Owners, NEW result \in {"ok", "error", "permanent"}, HandlerReturn(w, result)
      PROVE  Goal
  BY <1>13 DEF HandlerReturn, deliveryVars
<1>14. ASSUME NEW w \in Owners, Decide(w)
      PROVE  Goal
  BY <1>14 DEF Decide, deliveryVars
<1>15. ASSUME NEW w \in Owners, Store(w)
      PROVE  Goal
  BY <1>15
<1>16. ASSUME NEW w \in Owners, StoreError(w)
      PROVE  Goal
  BY <1>16
<1>17. ASSUME NEW i \in Instances, Start(i)
      PROVE  Goal
  BY <1>17 DEF Start, deliveryVars
<1>18. ASSUME NEW i \in Instances, NEW o \in Ops, Cancel(i, o)
      PROVE  Goal
  BY <1>18 DEF Cancel, workerVars, deliveryVars
<1>19. ASSUME NEW i \in Instances, CancelActive(i)
      PROVE  Goal
  BY <1>19 DEF CancelActive, deliveryVars
<1>20. ASSUME NEW i \in Instances, ParentEnds(i)
      PROVE  Goal
  BY <1>20 DEF ParentEnds, workerVars, deliveryVars
<1>21. ASSUME NEW i \in Instances, ShutdownBegin(i)
      PROVE  Goal
  BY <1>21 DEF ShutdownBegin, workerVars, deliveryVars
<1>22. ASSUME NEW i \in Instances, ShutdownDrained(i)
      PROVE  Goal
  BY <1>22 DEF ShutdownDrained, workerVars, deliveryVars
<1>23. ASSUME NEW i \in Instances, ShutdownExpires(i)
      PROVE  Goal
  BY <1>23 DEF ShutdownExpires, deliveryVars
<1>24. ASSUME NEW i \in Instances, ShutdownReleases(i)
      PROVE  Goal
  BY <1>24 DEF ShutdownReleases, workerVars, deliveryVars
<1>25. ASSUME NEW i \in Instances, Crash(i)
      PROVE  Goal
  BY <1>25 DEF Crash, deliveryVars
<1>26. CASE UNCHANGED vars
  BY <1>26 DEF vars, rowVars, instanceVars, workerVars, deliveryVars
<1>27. ASSUME NEW w \in Owners, RenewLate(w)
      PROVE  Goal
  BY <1>27 DEF RenewLate, Owns, Storing, workerVars, deliveryVars
<1>28. ASSUME NEW f \in inFlight, LateStatement(f)
      PROVE  Goal
  BY <1>28 DEF LateStatement, workerVars, deliveryVars
<1> QED
  BY <1>1, <1>2, <1>3, <1>4, <1>5, <1>6, <1>7, <1>8, <1>9, <1>10, <1>11, <1>12, <1>13,
     <1>14, <1>15, <1>16, <1>17, <1>18, <1>19, <1>20, <1>21, <1>22, <1>23, <1>24, <1>25,
     <1>26, <1>27, <1>28 DEF Next, WorkerStep, InstanceStep

\* Its token is the one that is added.
LEMMA EndedGrows ==
    ASSUME [Next]_vars
    PROVE  \/ ended' = ended
           \/ \E v \in Owners : workerPc[v] \in InRun /\ ended' = ended \union {Token(v)}
           \/ \E v \in Owners : LeaseUnanswered(v)
  BY EndedBy DEF Store, StoreError, Storing, EndDelivery, InRun

\* A worker gets a delivery from Lease only, and keeps it until run returns.
LEMMA DeliveryFrame ==
    ASSUME TypeOK, [Next]_vars, NEW w \in Owners, workerPc'[w] \in InRun
    PROVE  \/ /\ workerPc[w] \in InRun
              /\ workerOp'[w] = workerOp[w] /\ workerAttempt'[w] = workerAttempt[w]
           \/ Lease(w)
<1> DEFINE Goal == \/ /\ workerPc[w] \in InRun
                      /\ workerOp'[w] = workerOp[w] /\ workerAttempt'[w] = workerAttempt[w]
                   \/ Lease(w)
<1> SUFFICES Goal
  OBVIOUS
<1> USE DEF TypeOK, TypeWorkers, InRun
<1>1. ASSUME NEW o \in Ops, LeaseExpires(o)
      PROVE  Goal
  BY <1>1 DEF LeaseExpires, workerVars, deliveryVars
<1>2. ASSUME NEW o \in Ops, BecomesDue(o)
      PROVE  Goal
  BY <1>2 DEF BecomesDue, workerVars, deliveryVars
<1>3. ASSUME NEW o \in Ops, Submit(o)
      PROVE  Goal
  BY <1>3 DEF Submit, workerVars, deliveryVars
<1>4. ASSUME NEW v \in Owners, TaskTimeout(v)
      PROVE  Goal
  BY <1>4 DEF TaskTimeout, deliveryVars
<1>5. ASSUME NEW v \in Owners, Poll(v)
      PROVE  Goal
  BY <1>5 DEF Poll, deliveryVars
<1>6. ASSUME NEW v \in Owners, ExpireLeases(v)
      PROVE  Goal
  BY <1>6 DEF ExpireLeases, deliveryVars
<1>7. ASSUME NEW v \in Owners, ExpireLeasesError(v)
      PROVE  Goal
  BY <1>7 DEF ExpireLeasesError, deliveryVars
<1>8. ASSUME NEW v \in Owners, Lease(v)
      PROVE  Goal
  BY <1>8 DEF Lease
<1>9. ASSUME NEW v \in Owners, LeaseUnanswered(v)
      PROVE  Goal
  BY <1>9 DEF LeaseUnanswered, deliveryVars
<1>10. ASSUME NEW v \in Owners, LeaseNothing(v)
      PROVE  Goal
  BY <1>10 DEF LeaseNothing, deliveryVars
<1>11. ASSUME NEW v \in Owners, RunBegin(v)
      PROVE  Goal
  BY <1>11 DEF RunBegin, deliveryVars
<1>12. ASSUME NEW v \in Owners, RenewLease(v)
      PROVE  Goal
  BY <1>12 DEF RenewLease, deliveryVars
<1>13. ASSUME NEW v \in Owners, NEW result \in {"ok", "error", "permanent"}, HandlerReturn(v, result)
      PROVE  Goal
  BY <1>13 DEF HandlerReturn, deliveryVars
<1>14. ASSUME NEW v \in Owners, Decide(v)
      PROVE  Goal
  BY <1>14 DEF Decide, deliveryVars
<1>15. ASSUME NEW v \in Owners, Store(v)
      PROVE  Goal
  BY <1>15 DEF Store, Storing, EndDelivery
<1>16. ASSUME NEW v \in Owners, StoreError(v)
      PROVE  Goal
  BY <1>16 DEF StoreError, Storing, EndDelivery, AfterFailure, deliveryVars
<1>17. ASSUME NEW i \in Instances, Start(i)
      PROVE  Goal
  BY <1>17 DEF Start, deliveryVars
<1>18. ASSUME NEW i \in Instances, NEW o \in Ops, Cancel(i, o)
      PROVE  Goal
  BY <1>18 DEF Cancel, workerVars, deliveryVars
<1>19. ASSUME NEW i \in Instances, CancelActive(i)
      PROVE  Goal
  BY <1>19 DEF CancelActive, deliveryVars
<1>20. ASSUME NEW i \in Instances, ParentEnds(i)
      PROVE  Goal
  BY <1>20 DEF ParentEnds, workerVars, deliveryVars
<1>21. ASSUME NEW i \in Instances, ShutdownBegin(i)
      PROVE  Goal
  BY <1>21 DEF ShutdownBegin, workerVars, deliveryVars
<1>22. ASSUME NEW i \in Instances, ShutdownDrained(i)
      PROVE  Goal
  BY <1>22 DEF ShutdownDrained, workerVars, deliveryVars
<1>23. ASSUME NEW i \in Instances, ShutdownExpires(i)
      PROVE  Goal
  BY <1>23 DEF ShutdownExpires, deliveryVars
<1>24. ASSUME NEW i \in Instances, ShutdownReleases(i)
      PROVE  Goal
  BY <1>24 DEF ShutdownReleases, workerVars, deliveryVars
<1>25. ASSUME NEW i \in Instances, Crash(i)
      PROVE  Goal
  BY <1>25 DEF Crash, deliveryVars
<1>26. CASE UNCHANGED vars
  BY <1>26 DEF vars, rowVars, instanceVars, workerVars, deliveryVars
<1>27. ASSUME NEW v \in Owners, RenewLate(v)
      PROVE  Goal
  BY <1>27 DEF RenewLate, Owns, Storing, workerVars, deliveryVars
<1>28. ASSUME NEW f \in inFlight, LateStatement(f)
      PROVE  Goal
  BY <1>28 DEF LateStatement, workerVars, deliveryVars
<1> QED
  BY <1>1, <1>2, <1>3, <1>4, <1>5, <1>6, <1>7, <1>8, <1>9, <1>10, <1>11, <1>12, <1>13,
     <1>14, <1>15, <1>16, <1>17, <1>18, <1>19, <1>20, <1>21, <1>22, <1>23, <1>24, <1>25,
     <1>26, <1>27, <1>28 DEF Next, WorkerStep, InstanceStep

\* Every token a worker that may lease has been given is past.
LEMMA TokenStep ==
    ASSUME TypeOK, DecisionInv, FlightInv, ReleasingInv, UnbornInv, TokenInv, [Next]_vars
    PROVE  TokenInv'
<1> SUFFICES ASSUME NEW w \in Owners, MayLease(w)'
             PROVE  /\ \A o \in Ops, n \in Nat : <<o, w, n>> \in ended' => Past(w, o, n)'
                    /\ workerPc'[w] \in InRun => Past(w, workerOp[w], workerAttempt[w])'
  BY DEF TokenInv
<1>1. MayLease(w)
  BY MayLeaseFalls
<1>2. \A o \in Ops, n \in Nat : Past(w, o, n) => Past(w, o, n)'
  BY PastStep
<1>3. \A o \in Ops, n \in Nat : <<o, w, n>> \in ended => Past(w, o, n)'
  BY <1>1, <1>2 DEF TokenInv
<1>4. workerPc[w] \in InRun => Past(w, workerOp[w], workerAttempt[w])
  BY <1>1 DEF TokenInv
<1>5. ASSUME NEW v \in Owners, NEW o \in Ops, TakeLease(v, o),
             NEW n \in Nat, n = attempt[o] + 1
      PROVE  Past(v, o, n)'
  BY <1>5 DEF TakeLease, Past, TypeOK, TypeRows
<1>6. ASSUME NEW o \in Ops, NEW n \in Nat, <<o, w, n>> \in ended', <<o, w, n>> \notin ended
      PROVE  Past(w, o, n)'
  <2>1. CASE \E v \in Owners : workerPc[v] \in InRun /\ ended' = ended \union {Token(v)}
    <3>1. workerPc[w] \in InRun /\ o = workerOp[w] /\ n = workerAttempt[w]
      BY <1>6, <2>1 DEF Token
    <3> QED
      BY <1>2, <1>4, <3>1
  <2>2. CASE \E v \in Owners : LeaseUnanswered(v)
    <3>1. PICK v \in Owners : LeaseUnanswered(v)
      BY <2>2
    <3>2. PICK q \in Ops : TakeLease(v, q) /\ ended' = ended \union {<<q, v, attempt[q] + 1>>}
      BY <3>1 DEF LeaseUnanswered
    <3>3. w = v /\ o = q /\ n = attempt[q] + 1
      BY <1>6, <3>2
    <3> QED
      BY <1>5, <3>2, <3>3
  <2> QED
    BY <1>6, <2>1, <2>2, EndedGrows
<1>7. ASSUME workerPc'[w] \in InRun
      PROVE  Past(w, workerOp[w], workerAttempt[w])'
  <2>1. CASE workerPc[w] \in InRun /\ workerOp'[w] = workerOp[w]
             /\ workerAttempt'[w] = workerAttempt[w]
    <3>1. workerOp[w] \in Ops /\ workerAttempt[w] \in Nat
      BY <2>1 DEF TypeOK, TypeWorkers
    <3>2. Past(w, workerOp[w], workerAttempt[w])
      BY <1>4, <2>1
    <3> DEFINE q == workerOp[w]
               m == workerAttempt[w]
    <3>3. Past(w, q, m)'
      <4> HIDE DEF q, m
      <4> QED
        BY <1>2, <2>1, <3>1, <3>2 DEF q, m, Past
    <3> QED
      BY <3>3
  <2>2. CASE Lease(w)
    <3>1. PICK o \in Ops : /\ TakeLease(w, o)
                          /\ workerOp'[w] = o /\ workerAttempt'[w] = attempt[o] + 1
      BY <2>2 DEF Lease, TypeOK, TypeWorkers
    <3>2. attempt[o] + 1 \in Nat
      BY DEF TypeOK, TypeRows
    <3>3. PICK n \in Nat : n = attempt[o] + 1
      BY <3>2
    <3>4. Past(w, o, n)'
      BY <1>5, <3>1, <3>3
    <3> QED
      BY <3>1, <3>3, <3>4 DEF Past
  <2> QED
    BY <1>7, <2>1, <2>2, DeliveryFrame
<1> QED
  BY <1>3, <1>6, <1>7

\* A worker is never given a token whose delivery is over.
LEMMA ReuseStep ==
    ASSUME TypeOK, TokenInv, NoTokenReuse, [Next]_vars
    PROVE  NoTokenReuse'
<1> SUFFICES ASSUME NEW w \in Owners, workerPc'[w] \in InRun
             PROVE  <<workerOp'[w], w, workerAttempt'[w]>> \notin ended'
  BY DEF NoTokenReuse, Token
<1>1. CASE workerPc[w] \in InRun /\ workerOp'[w] = workerOp[w]
           /\ workerAttempt'[w] = workerAttempt[w]
  <2>1. Token(w) \notin ended
    BY <1>1 DEF NoTokenReuse
  <2>2. CASE ended' = ended
    BY <1>1, <2>1, <2>2 DEF Token
  <2>3. CASE \E v \in Owners : LeaseUnanswered(v)
    <3>1. PICK v \in Owners : LeaseUnanswered(v)
      BY <2>3
    <3>2. v # w
      BY <1>1, <3>1 DEF LeaseUnanswered, InRun
    <3> QED
      BY <1>1, <2>1, <3>1, <3>2 DEF LeaseUnanswered, Token
  <2>4. ASSUME NEW v \in Owners, Store(v) \/ StoreError(v), ended' # ended
        PROVE  v # w /\ ended' = ended \union {Token(v)}
    BY <2>4 DEF Store, StoreError, EndDelivery, InRun, TypeOK, TypeWorkers
  <2>5. CASE \E v \in Owners : Store(v) \/ StoreError(v)
    BY <1>1, <2>1, <2>2, <2>4, <2>5 DEF Token
  <2> QED
    BY <2>2, <2>3, <2>5, EndedBy
<1>2. CASE Lease(w)
  <2>1. PICK o \in Ops : workerOp'[w] = o /\ workerAttempt'[w] = attempt[o] + 1
    BY <1>2 DEF Lease, TypeOK, TypeWorkers
  <2>2. MayLease(w) /\ ended' = ended
    BY <1>2 DEF Lease, MayLease
  <2>3. attempt[o] + 1 \in Nat /\ attempt[o] \in Nat
    BY DEF TypeOK, TypeRows
  <2>4. <<o, w, attempt[o] + 1>> \in ended => Past(w, o, attempt[o] + 1)
    BY <2>2, <2>3 DEF TokenInv
  <2> QED
    BY <2>1, <2>2, <2>3, <2>4 DEF Past
<1> QED
  BY <1>1, <1>2, DeliveryFrame

--------------------------------------------------------------------------------
\* The theorems.

\* The invariant holds initially.
LEMMA InitInv == Init => IInv
<1> SUFFICES ASSUME Init PROVE IInv
  OBVIOUS
<1> USE NobodyAssumption DEF Init, InRun
<1>1. TypeOK
  BY DEF TypeOK, TypeRows, TypeInstances, TypeWorkers, Status
<1>2. LeaseIffRunning
  BY DEF LeaseIffRunning
<1>3. DecisionInv /\ FreshInv
  BY DEF DecisionInv, FreshInv
<1>4. AttemptWithinLimit
  BY MaxAttemptsAssumption DEF AttemptWithinLimit
<1>5. ReleasingInv
  BY DEF ReleasingInv
<1>6. UnbornInv
  BY DEF UnbornInv
<1>7. AheadInv
  BY DEF AheadInv
<1>8. TokenInv
  BY DEF TokenInv
<1>9. NoTokenReuse
  BY DEF NoTokenReuse
<1>10. FlightInv
  BY DEF FlightInv
<1> QED
  BY <1>1, <1>2, <1>3, <1>4, <1>5, <1>6, <1>7, <1>8, <1>9, <1>10 DEF IInv

\* Every step preserves it.
LEMMA StepInv == IInv /\ [Next]_vars => IInv'
  BY TypeStep, LeaseStep, DecisionStep, FlightStep, AttemptStep, ReleasingStep, UnbornStep,
     AheadStep, TokenStep, ReuseStep DEF IInv

\* The invariant of the durable executor.
LEMMA Inductive == Spec => []IInv
  BY InitInv, StepInv, PTL DEF Spec

\* Columns and locals have their types in every reachable state, and run is never entered
\* without a delivery (executor.go, worker and run).
THEOREM TypeCorrect == Spec => []TypeOK
<1>1. IInv => TypeOK
  BY DEF IInv
<1> QED
  BY Inductive, <1>1, PTL

\* No interleaving of lease, retry, releaseLease, releaseInstanceLeases and expiry uses
\* more than max_attempts attempts (store.go).
THEOREM AttemptsAreLimited == Spec => []AttemptWithinLimit
<1>1. IInv => AttemptWithinLimit
  BY DEF IInv
<1> QED
  BY Inductive, <1>1, PTL

\* lease_owner is set exactly while the row is running (every UPDATE of store.go).
THEOREM LeasesFollowStatus == Spec => []LeaseIffRunning
<1>1. IInv => LeaseIffRunning
  BY DEF IInv
<1> QED
  BY Inductive, <1>1, PTL

\* The token of a delivery is never given twice to a worker, although a release gives
\* its attempt back (registerActive, ownedUpdate, releaseLease, releaseInstanceLeases).
THEOREM TokensNameDeliveries == Spec => []NoTokenReuse
<1>1. IInv => NoTokenReuse
  BY DEF IInv
<1> QED
  BY Inductive, <1>1, PTL

\* The delivery that owns a row is the latest one in progress (the WHERE of the owned
\* updates).
THEOREM OwnerIsLatest == Spec => []LatestDeliveryOwns
<1>1. IInv => LatestDeliveryOwns
  BY DEF IInv, AheadInv, LatestDeliveryOwns, Owns
<1> QED
  BY Inductive, <1>1, PTL

\* A step moves every status along an edge of the contract.
LEMMA ContractStep ==
    ASSUME TypeOK, LeaseIffRunning, [Next]_vars
    PROVE  [Contract!Next]_status
<1> SUFFICES ASSUME NEW q \in Ops
             PROVE  status'[q] \in Contract!Successors(status[q])
  <2>1. TypeOK'
    BY TypeStep
  <2> QED
    BY <2>1 DEF Contract!Next, Contract!Status, Contract!Terminal, TypeOK, TypeRows,
       Status,
                Terminal
<1> DEFINE Goal == status'[q] \in Contract!Successors(status[q])
<1> USE DEF TypeOK, TypeRows, TypeWorkers, Status, Terminal, InRun, Contract!Successors,
           Contract!Terminal
<1>1. ASSUME NEW o \in Ops, LeaseExpires(o)
      PROVE  Goal
  BY <1>1 DEF LeaseExpires
<1>2. ASSUME NEW o \in Ops, BecomesDue(o)
      PROVE  Goal
  BY <1>2 DEF BecomesDue
<1>3. ASSUME NEW o \in Ops, Submit(o)
      PROVE  Goal
  BY <1>3 DEF Submit
<1>4. ASSUME NEW w \in Owners, TaskTimeout(w)
      PROVE  Goal
  BY <1>4 DEF TaskTimeout, rowVars
<1>5. ASSUME NEW w \in Owners, Poll(w)
      PROVE  Goal
  BY <1>5 DEF Poll, rowVars
<1>6. ASSUME NEW w \in Owners, ExpireLeases(w)
      PROVE  Goal
  BY <1>6 DEF ExpireLeases, FailExhausted
<1>7. ASSUME NEW w \in Owners, ExpireLeasesError(w)
      PROVE  Goal
  <2>1. CASE FailExhausted
    BY <2>1 DEF FailExhausted
  <2>2. CASE UNCHANGED rowVars
    BY <2>2 DEF rowVars
  <2> QED
    BY <1>7, <2>1, <2>2 DEF ExpireLeasesError
<1>8. ASSUME NEW w \in Owners, Lease(w)
      PROVE  Goal
  BY <1>8 DEF Lease, TakeLease, Candidate
<1>9. ASSUME NEW w \in Owners, LeaseUnanswered(w)
      PROVE  Goal
  BY <1>9 DEF LeaseUnanswered, TakeLease, Candidate
<1>10. ASSUME NEW w \in Owners, LeaseNothing(w)
      PROVE  Goal
  BY <1>10 DEF LeaseNothing, rowVars
<1>11. ASSUME NEW w \in Owners, RunBegin(w)
      PROVE  Goal
  BY <1>11 DEF RunBegin, rowVars
<1>12. ASSUME NEW w \in Owners, RenewLease(w)
      PROVE  Goal
  BY <1>12 DEF RenewLease, Owns
<1>13. ASSUME NEW w \in Owners, NEW result \in {"ok", "error", "permanent"}, HandlerReturn(w, result)
      PROVE  Goal
  BY <1>13 DEF HandlerReturn, rowVars
<1>14. ASSUME NEW w \in Owners, Decide(w)
      PROVE  Goal
  BY <1>14 DEF Decide, rowVars
<1>15. ASSUME NEW w \in Owners, Store(w)
      PROVE  Goal
  BY <1>15 DEF Store, Storing, OwnedUpdate, Update, GiveUpLease, GiveBack, Owns, rowVars
<1>16. ASSUME NEW w \in Owners, StoreError(w)
      PROVE  Goal
  BY <1>16 DEF StoreError, Storing, OwnedUpdate, Update, GiveUpLease, GiveBack, Owns, rowVars
<1>17. ASSUME NEW i \in Instances, Start(i)
      PROVE  Goal
  BY <1>17 DEF Start, rowVars
<1>18. ASSUME NEW i \in Instances, NEW o \in Ops, Cancel(i, o)
      PROVE  Goal
  BY <1>18 DEF Cancel, GiveUpLease
<1>19. ASSUME NEW i \in Instances, CancelActive(i)
      PROVE  Goal
  BY <1>19 DEF CancelActive, rowVars
<1>20. ASSUME NEW i \in Instances, ParentEnds(i)
      PROVE  Goal
  BY <1>20 DEF ParentEnds, rowVars
<1>21. ASSUME NEW i \in Instances, ShutdownBegin(i)
      PROVE  Goal
  BY <1>21 DEF ShutdownBegin, rowVars
<1>22. ASSUME NEW i \in Instances, ShutdownDrained(i)
      PROVE  Goal
  BY <1>22 DEF ShutdownDrained, rowVars
<1>23. ASSUME NEW i \in Instances, ShutdownExpires(i)
      PROVE  Goal
  BY <1>23 DEF ShutdownExpires, rowVars
<1>24. ASSUME NEW i \in Instances, ShutdownReleases(i)
      PROVE  Goal
  BY <1>24 DEF ShutdownReleases, ReleaseInstance, GiveBack, rowVars
<1>25. ASSUME NEW i \in Instances, Crash(i)
      PROVE  Goal
  BY <1>25 DEF Crash, rowVars
<1>26. CASE UNCHANGED vars
  BY <1>26 DEF vars, rowVars, instanceVars, workerVars, deliveryVars, Candidate
<1>27. ASSUME NEW w \in Owners, RenewLate(w)
      PROVE  Goal
  BY <1>27 DEF RenewLate, Owns, Storing, workerVars, deliveryVars
<1>28. ASSUME NEW f \in inFlight, LateStatement(f)
      PROVE  Goal
  BY <1>28 DEF LateStatement, Storing, Update, GiveUpLease, GiveBack, rowVars
<1> QED
  BY <1>1, <1>2, <1>3, <1>4, <1>5, <1>6, <1>7, <1>8, <1>9, <1>10, <1>11, <1>12, <1>13,
     <1>14, <1>15, <1>16, <1>17, <1>18, <1>19, <1>20, <1>21, <1>22, <1>23, <1>24, <1>25,
     <1>26, <1>27, <1>28 DEF Next, WorkerStep, InstanceStep

\* The durable executor implements the contract of async.go, across crashes, lost answers
\* and concurrent instances.
THEOREM PgImplementsContract == Spec => ImplementsContract
<1>1. Init => Contract!Init
  BY DEF Init, Contract!Init
<1>2. IInv /\ [Next]_vars => [Contract!Next]_status
  BY ContractStep DEF IInv
<1> QED
  BY Inductive, <1>1, <1>2, PTL DEF Spec, ImplementsContract, Contract!Spec
--------------------------------------------------------------------------------
\* What a step may do to a row, whoever makes it.

\* The row of a terminal operation is not touched again.  An attempt is counted up by a
\* lease and down only when a running row is given back.
RowMoves(q) ==
    /\ status[q] \in Terminal =>
          /\ status'[q] = status[q]
          /\ attempt'[q] = attempt[q]
          /\ leaseOwner'[q] = leaseOwner[q]
          /\ expired'[q] = expired[q]
          /\ due'[q] = due[q]
    /\ \/ attempt'[q] = attempt[q]
       \/ /\ attempt'[q] = attempt[q] + 1
          /\ status'[q] = "running"
          /\ leaseOwner'[q] # Nobody
       \/ /\ attempt'[q] = attempt[q] - 1
          /\ status[q] = "running"
          /\ status'[q] = "retrying"

LEMMA RowStep ==
    ASSUME TypeOK, LeaseIffRunning, NEW q \in Ops, [Next]_vars
    PROVE  RowMoves(q)
<1> DEFINE Goal == RowMoves(q)
<1> USE DEF TypeOK, TypeRows, TypeWorkers, Status, Terminal, InRun, RowMoves
<1>29. ASSUME NEW w \in Owners, NEW o \in Ops, TakeLease(w, o)
      PROVE  Goal
  <2>1. status[o] \notin Terminal
    BY <1>29 DEF TakeLease, Candidate
  <2>2. CASE q = o
    <3>1. /\ attempt'[q] = attempt[q] + 1 /\ status'[q] = "running"
          /\ leaseOwner'[q] = w
      BY <1>29, <2>2 DEF TakeLease
    <3> QED
      BY <2>1, <2>2, <3>1, NobodyAssumption
  <2>3. CASE q # o
    BY <1>29, <2>3 DEF TakeLease
  <2> QED
    BY <2>2, <2>3
<1>1. ASSUME NEW o \in Ops, LeaseExpires(o)
      PROVE  Goal
  BY <1>1 DEF LeaseExpires
<1>2. ASSUME NEW o \in Ops, BecomesDue(o)
      PROVE  Goal
  BY <1>2 DEF BecomesDue
<1>3. ASSUME NEW o \in Ops, Submit(o)
      PROVE  Goal
  BY <1>3 DEF Submit
<1>4. ASSUME NEW w \in Owners, TaskTimeout(w)
      PROVE  Goal
  BY <1>4 DEF TaskTimeout, rowVars
<1>5. ASSUME NEW w \in Owners, Poll(w)
      PROVE  Goal
  BY <1>5 DEF Poll, rowVars
<1>6. ASSUME NEW w \in Owners, ExpireLeases(w)
      PROVE  Goal
  BY <1>6 DEF ExpireLeases, FailExhausted
<1>7. ASSUME NEW w \in Owners, ExpireLeasesError(w)
      PROVE  Goal
  <2>1. CASE FailExhausted
    BY <2>1 DEF FailExhausted
  <2>2. CASE UNCHANGED rowVars
    BY <2>2 DEF rowVars
  <2> QED
    BY <1>7, <2>1, <2>2 DEF ExpireLeasesError
<1>8. ASSUME NEW w \in Owners, Lease(w)
      PROVE  Goal
  BY <1>8, <1>29 DEF Lease
<1>9. ASSUME NEW w \in Owners, LeaseUnanswered(w)
      PROVE  Goal
  BY <1>9, <1>29 DEF LeaseUnanswered
<1>10. ASSUME NEW w \in Owners, LeaseNothing(w)
      PROVE  Goal
  BY <1>10 DEF LeaseNothing, rowVars
<1>11. ASSUME NEW w \in Owners, RunBegin(w)
      PROVE  Goal
  BY <1>11 DEF RunBegin, rowVars
<1>12. ASSUME NEW w \in Owners, RenewLease(w)
      PROVE  Goal
  BY <1>12 DEF RenewLease, Owns
<1>13. ASSUME NEW w \in Owners, NEW result \in {"ok", "error", "permanent"}, HandlerReturn(w, result)
      PROVE  Goal
  BY <1>13 DEF HandlerReturn, rowVars
<1>14. ASSUME NEW w \in Owners, Decide(w)
      PROVE  Goal
  BY <1>14 DEF Decide, rowVars
<1>15. ASSUME NEW w \in Owners, Store(w)
      PROVE  Goal
  BY <1>15 DEF Store, Storing, OwnedUpdate, Update, GiveUpLease, GiveBack, Owns, rowVars
<1>16. ASSUME NEW w \in Owners, StoreError(w)
      PROVE  Goal
  BY <1>16 DEF StoreError, Storing, OwnedUpdate, Update, GiveUpLease, GiveBack, Owns, rowVars
<1>17. ASSUME NEW i \in Instances, Start(i)
      PROVE  Goal
  BY <1>17 DEF Start, rowVars
<1>18. ASSUME NEW i \in Instances, NEW o \in Ops, Cancel(i, o)
      PROVE  Goal
  BY <1>18 DEF Cancel, GiveUpLease
<1>19. ASSUME NEW i \in Instances, CancelActive(i)
      PROVE  Goal
  BY <1>19 DEF CancelActive, rowVars
<1>20. ASSUME NEW i \in Instances, ParentEnds(i)
      PROVE  Goal
  BY <1>20 DEF ParentEnds, rowVars
<1>21. ASSUME NEW i \in Instances, ShutdownBegin(i)
      PROVE  Goal
  BY <1>21 DEF ShutdownBegin, rowVars
<1>22. ASSUME NEW i \in Instances, ShutdownDrained(i)
      PROVE  Goal
  BY <1>22 DEF ShutdownDrained, rowVars
<1>23. ASSUME NEW i \in Instances, ShutdownExpires(i)
      PROVE  Goal
  BY <1>23 DEF ShutdownExpires, rowVars
<1>24. ASSUME NEW i \in Instances, ShutdownReleases(i)
      PROVE  Goal
  BY <1>24 DEF ShutdownReleases, ReleaseInstance, GiveBack, rowVars
<1>25. ASSUME NEW i \in Instances, Crash(i)
      PROVE  Goal
  BY <1>25 DEF Crash, rowVars
<1>26. CASE UNCHANGED vars
  BY <1>26 DEF vars, rowVars, instanceVars, workerVars, deliveryVars, Candidate
<1>27. ASSUME NEW w \in Owners, RenewLate(w)
      PROVE  Goal
  BY <1>27 DEF RenewLate, Owns, Storing, workerVars, deliveryVars
<1>28. ASSUME NEW f \in inFlight, LateStatement(f)
      PROVE  Goal
  BY <1>28 DEF LateStatement, Storing, Update, GiveUpLease, GiveBack, rowVars
<1> QED
  BY <1>1, <1>2, <1>3, <1>4, <1>5, <1>6, <1>7, <1>8, <1>9, <1>10, <1>11, <1>12, <1>13,
     <1>14, <1>15, <1>16, <1>17, <1>18, <1>19, <1>20, <1>21, <1>22, <1>23, <1>24, <1>25,
     <1>26, <1>27, <1>28 DEF Next, WorkerStep, InstanceStep

\* No statement of any process, not even one whose worker has gone on, changes the row of
\* an operation that has ended; an attempt is counted once for each lease and given back
\* only together with it.
THEOREM RowsMoveLawfully == Spec => [][\A q \in Ops : RowMoves(q)]_vars
<1>1. IInv /\ [Next]_vars => \A q \in Ops : RowMoves(q)
  <2> SUFFICES ASSUME IInv, [Next]_vars, NEW q \in Ops PROVE RowMoves(q)
    OBVIOUS
  <2> QED
    BY RowStep DEF IInv
<1> QED
  BY Inductive, <1>1, PTL DEF Spec
================================================================================
