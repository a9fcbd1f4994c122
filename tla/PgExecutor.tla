------------------------------ MODULE PgExecutor -------------------------------
(***************************************************************************)
(* The durable executor (contrib/asyncpostgres): rows of the table         *)
(* vial_async_operations, leased to workers of several instances.          *)
(*                                                                         *)
(* One SQL statement is one atomic step.  A statement may fail without     *)
(* effect, and it may take effect while its answer is lost.  An instance   *)
(* may crash; a restarted process draws a new instanceID, so it is a new   *)
(* element of Instances.  Time appears as two facts about a row that       *)
(* become true: its lease has expired, its next attempt is due.            *)
(***************************************************************************)
EXTENDS Integers, FiniteSets

CONSTANTS
    Ops,          \* operation IDs
    Instances,    \* instance IDs, one for every process ever started
    Slots,        \* worker numbers of an instance
    Fragile,      \* the instances that may crash or shut down
    MaxAttempts,  \* max_attempts of each operation
    MaxInFlight,  \* bound: statements given up and not carried out yet
    Nobody        \* lease_owner IS NULL, and "no operation" in a worker

Owners == Instances \X Slots

ASSUME MaxAttemptsAssumption == MaxAttempts \in [Ops -> Nat \ {0}]
ASSUME NobodyAssumption == Nobody \notin Owners /\ Nobody \notin Ops
ASSUME MaxInFlightAssumption == MaxInFlight \in Nat
ASSUME FragileAssumption == Fragile \subseteq Instances

VARIABLES
    status, attempt, leaseOwner,  \* columns of the row of an operation
    expired,      \* lease_expires_at <= now()
    due,          \* next_attempt_at <= now()
    state,        \* executor.state of an instance, or "crashed"
    baseDone,     \* workerBase of an instance is cancelled
    stopPc,       \* Shutdown of an instance
    cancelOp,     \* the operation whose handlers Cancel is about to stop
    workerPc,     \* the workers
    workerOp, workerAttempt,  \* the delivery a worker has, leasedOperation
    jobContext,   \* the context of the delivery
    active,       \* the delivery is in executor.active
    outcome,      \* what the handler returned
    inFlight,     \* the statements whose worker has gone on: <<kind, id, owner, attempt>>
    ended         \* history: the tokens of deliveries that are over

rowVars      == <<status, attempt, leaseOwner, expired, due>>
deliveryVars == <<workerOp, workerAttempt>>
workerVars   == <<workerPc, deliveryVars, jobContext, active, outcome>>
instanceVars == <<state, baseDone, stopPc, cancelOp>>
vars == <<rowVars, instanceVars, workerVars, inFlight, ended>>

Terminal == {"succeeded", "failed", "cancelled"}
Status == {"absent", "pending", "running", "retrying"} \union Terminal

Of(w) == w[1]                   \* the instance of a worker
Token(w) == <<workerOp[w], w, workerAttempt[w]>>
Accepting(i) == state[i] = "running"
Alive(i) == state[i] # "crashed"

\* The worker is in run, with a delivery.
InRun == {"leased", "handling", "returned", "succeed", "release", "retry", "fail"}

\* It is about to make the statement that ends the delivery.
Storing == {"succeed", "release", "retry", "fail"}

Init ==
    /\ status = [o \in Ops |-> "absent"]
    /\ attempt = [o \in Ops |-> 0]
    /\ leaseOwner = [o \in Ops |-> Nobody]
    /\ expired = [o \in Ops |-> FALSE]
    /\ due = [o \in Ops |-> FALSE]
    /\ state = [i \in Instances |-> "created"]
    /\ baseDone = [i \in Instances |-> FALSE]
    /\ stopPc = [i \in Instances |-> "idle"]
    /\ cancelOp = [i \in Instances |-> Nobody]
    /\ workerPc = [w \in Owners |-> "unborn"]
    /\ workerOp = [w \in Owners |-> Nobody]
    /\ workerAttempt = [w \in Owners |-> 0]
    /\ jobContext = [w \in Owners |-> "none"]
    /\ active = [w \in Owners |-> FALSE]
    /\ outcome = [w \in Owners |-> "none"]
    /\ inFlight = {}
    /\ ended = {}

--------------------------------------------------------------------------------
\* Time.

LeaseExpires(o) ==
    /\ status[o] = "running"
    /\ ~expired[o]
    /\ expired' = [expired EXCEPT ![o] = TRUE]
    /\ UNCHANGED <<status, attempt, leaseOwner, due, instanceVars, workerVars, inFlight, ended>>

BecomesDue(o) ==
    /\ status[o] \in {"pending", "retrying"}
    /\ ~due[o]
    /\ due' = [due EXCEPT ![o] = TRUE]
    /\ UNCHANGED <<status, attempt, leaseOwner, expired, instanceVars, workerVars, inFlight, ended>>

TaskTimeout(w) ==
    /\ workerPc[w] = "handling"
    /\ jobContext[w] = "live"
    /\ jobContext' = [jobContext EXCEPT ![w] = "deadline"]
    /\ UNCHANGED <<rowVars, instanceVars, workerPc, deliveryVars, active, outcome, inFlight, ended>>

--------------------------------------------------------------------------------
\* The statements that only the owner of a lease may make.

\* WHERE id = .. AND lease_owner = .. AND attempt = .. AND status = 'running'
Owns(w) ==
    LET o == workerOp[w] IN
    /\ status[o] = "running"
    /\ leaseOwner[o] = w
    /\ attempt[o] = workerAttempt[w]

\* The row of o leaves "running" for status st with the given attempt.
GiveUpLease(o, st, n, isDue) ==
    /\ status' = [status EXCEPT ![o] = st]
    /\ attempt' = [attempt EXCEPT ![o] = n]
    /\ leaseOwner' = [leaseOwner EXCEPT ![o] = Nobody]
    /\ expired' = [expired EXCEPT ![o] = FALSE]
    /\ due' = [due EXCEPT ![o] = isDue]

\* GREATEST(attempt - 1, 0)
GiveBack(n) == IF n > 0 THEN n - 1 ELSE 0

\* The updates of succeed, retry, fail and releaseLease.
Update(kind, o) ==
    \/ kind = "succeed" /\ GiveUpLease(o, "succeeded", attempt[o], FALSE)
    \/ kind = "retry"   /\ GiveUpLease(o, "retrying", attempt[o], FALSE)
    \/ kind = "fail"    /\ GiveUpLease(o, "failed", attempt[o], FALSE)
    \/ kind = "release" /\ GiveUpLease(o, "retrying", GiveBack(attempt[o]), TRUE)

OwnedUpdate(w) == Update(workerPc[w], workerOp[w])

--------------------------------------------------------------------------------
\* Start, Submit and Cancel.

Start(i) ==
    /\ state[i] = "created"
    /\ state' = [state EXCEPT ![i] = "running"]
    /\ workerPc' = [w \in Owners |-> IF Of(w) = i THEN "polling" ELSE workerPc[w]]
    /\ UNCHANGED <<rowVars, baseDone, stopPc, cancelOp, deliveryVars, jobContext, active,
                   outcome, inFlight, ended>>

\* The INSERT.  accepting() was read before it, and next_attempt_at comes from the
\* clock of the caller, which the clock of the database may not have reached.
Submit(o) ==
    /\ \E i \in Instances : state[i] \notin {"created", "crashed"}
    /\ status[o] = "absent"
    /\ status' = [status EXCEPT ![o] = "pending"]
    /\ \E isDue \in BOOLEAN : due' = [due EXCEPT ![o] = isDue]
    /\ UNCHANGED <<attempt, leaseOwner, expired, instanceVars, workerVars, inFlight, ended>>

\* Faulty: the UPDATE does not ask for the status.
CancelAnyStatus(i, o) ==
    /\ Alive(i)
    /\ cancelOp[i] = Nobody
    /\ status[o] # "absent"
    /\ GiveUpLease(o, "cancelled", attempt[o], FALSE)
    /\ cancelOp' = [cancelOp EXCEPT ![i] = o]
    /\ UNCHANGED <<state, baseDone, stopPc, workerVars, inFlight, ended>>

\* The UPDATE of Cancel.  When its answer is lost Cancel returns an error and does
\* not look for a handler to stop.
Cancel(i, o) ==
    /\ Alive(i)
    /\ cancelOp[i] = Nobody
    /\ status[o] \in {"pending", "running", "retrying"}
    /\ GiveUpLease(o, "cancelled", attempt[o], FALSE)
    /\ \E answered \in BOOLEAN :
          cancelOp' = IF answered THEN [cancelOp EXCEPT ![i] = o] ELSE cancelOp
    /\ UNCHANGED <<state, baseDone, stopPc, workerVars, inFlight, ended>>

\* Cancel stops the deliveries of this instance that are registered by now.
CancelActive(i) ==
    /\ cancelOp[i] # Nobody
    /\ jobContext' = [w \in Owners |->
                        IF Of(w) = i /\ active[w] /\ workerOp[w] = cancelOp[i]
                             /\ jobContext[w] = "live"
                        THEN "cancelled" ELSE jobContext[w]]
    /\ cancelOp' = [cancelOp EXCEPT ![i] = Nobody]
    /\ UNCHANGED <<rowVars, state, baseDone, stopPc, workerPc, deliveryVars, active,
                   outcome, inFlight, ended>>

--------------------------------------------------------------------------------
\* The workers: leasing.

Poll(w) ==
    /\ workerPc[w] = "polling"
    /\ workerPc' = [workerPc EXCEPT ![w] = IF Accepting(Of(w)) THEN "expiring" ELSE "exited"]
    /\ UNCHANGED <<rowVars, instanceVars, deliveryVars, jobContext, active, outcome, inFlight, ended>>

\* Faulty: the rows fail and keep their lease_owner.
FailExhaustedKeepsOwner ==
    LET gone == {o \in Ops : status[o] = "running" /\ expired[o] /\ attempt[o] >= MaxAttempts[o]}
    IN
    /\ status' = [o \in Ops |-> IF o \in gone THEN "failed" ELSE status[o]]
    /\ expired' = [o \in Ops |-> expired[o] /\ o \notin gone]
    /\ UNCHANGED <<attempt, leaseOwner, due>>

\* The first statement of lease: running rows whose last lease has expired fail.
FailExhausted ==
    LET gone == {o \in Ops : status[o] = "running" /\ expired[o] /\ attempt[o] >= MaxAttempts[o]}
    IN
    /\ status' = [o \in Ops |-> IF o \in gone THEN "failed" ELSE status[o]]
    /\ leaseOwner' = [o \in Ops |-> IF o \in gone THEN Nobody ELSE leaseOwner[o]]
    /\ expired' = [o \in Ops |-> expired[o] /\ o \notin gone]
    /\ UNCHANGED <<attempt, due>>

ExpireLeases(w) ==
    /\ workerPc[w] = "expiring"
    /\ ~baseDone[Of(w)]
    /\ FailExhausted
    /\ workerPc' = [workerPc EXCEPT ![w] = "leasing"]
    /\ UNCHANGED <<instanceVars, deliveryVars, jobContext, active, outcome, inFlight, ended>>

ExpireLeasesError(w) ==
    /\ workerPc[w] = "expiring"
    /\ FailExhausted \/ UNCHANGED rowVars
    /\ workerPc' = [workerPc EXCEPT ![w] = "polling"]
    /\ UNCHANGED <<instanceVars, deliveryVars, jobContext, active, outcome, inFlight, ended>>

\* Faulty: an expired lease is not taken over.
CandidateNoTakeover(o) == status[o] \in {"pending", "retrying"} /\ due[o]

\* The WHERE of the second statement.
Candidate(o) ==
    \/ status[o] \in {"pending", "retrying"} /\ due[o]
    \/ status[o] = "running" /\ expired[o] /\ attempt[o] < MaxAttempts[o]

\* Its UPDATE.  FOR UPDATE SKIP LOCKED gives a row to one worker at a time.
TakeLease(w, o) ==
    /\ Candidate(o)
    /\ status' = [status EXCEPT ![o] = "running"]
    /\ attempt' = [attempt EXCEPT ![o] = @ + 1]
    /\ leaseOwner' = [leaseOwner EXCEPT ![o] = w]
    /\ expired' = [expired EXCEPT ![o] = FALSE]
    /\ due' = [due EXCEPT ![o] = FALSE]

Lease(w) ==
    /\ workerPc[w] = "leasing"
    /\ ~baseDone[Of(w)]
    /\ \E o \in Ops :
         /\ TakeLease(w, o)
         /\ workerOp' = [workerOp EXCEPT ![w] = o]
         /\ workerAttempt' = [workerAttempt EXCEPT ![w] = attempt[o] + 1]
    /\ workerPc' = [workerPc EXCEPT ![w] = "leased"]
    /\ UNCHANGED <<instanceVars, jobContext, active, outcome, inFlight, ended>>

\* The lease is taken and nobody learns of it: it lasts until it expires.
LeaseUnanswered(w) ==
    /\ workerPc[w] = "leasing"
    /\ \E o \in Ops :
         /\ TakeLease(w, o)
         /\ ended' = ended \union {<<o, w, attempt[o] + 1>>}
    /\ workerPc' = [workerPc EXCEPT ![w] = "polling"]
    /\ UNCHANGED <<instanceVars, deliveryVars, jobContext, active, outcome, inFlight>>

\* Faulty: the error is not looked at and the zero delivery is run.
LeaseNothingRuns(w) ==
    /\ workerPc[w] = "leasing"
    /\ workerPc' = [workerPc EXCEPT ![w] = "leased"]
    /\ UNCHANGED <<rowVars, instanceVars, deliveryVars, jobContext, active, outcome, inFlight, ended>>

\* No row, or an error.
LeaseNothing(w) ==
    /\ workerPc[w] = "leasing"
    /\ workerPc' = [workerPc EXCEPT ![w] = "polling"]
    /\ UNCHANGED <<rowVars, instanceVars, deliveryVars, jobContext, active, outcome, inFlight, ended>>

--------------------------------------------------------------------------------
\* The workers: running a delivery.

\* The context is made, the delivery registered and its renewal started.
RunBegin(w) ==
    /\ workerPc[w] = "leased"
    /\ jobContext' = [jobContext EXCEPT ![w] = IF baseDone[Of(w)] THEN "cancelled" ELSE "live"]
    /\ active' = [active EXCEPT ![w] = TRUE]
    /\ workerPc' = [workerPc EXCEPT ![w] = "handling"]
    /\ UNCHANGED <<rowVars, instanceVars, deliveryVars, outcome, inFlight, ended>>

\* Faulty: a renewal that finds no row is not taken for the loss of the lease.
RenewLeaseIgnoresLoss(w) ==
    /\ workerPc[w] = "handling"
    /\ jobContext[w] = "live"
    /\ Owns(w)
    /\ expired' = [expired EXCEPT ![workerOp[w]] = FALSE]
    /\ UNCHANGED <<status, attempt, leaseOwner, due, instanceVars, workerVars, inFlight, ended>>

\* A tick of renewLease: the lease is extended, or the handler is told to stop
\* because the row is no longer ours or the statement failed.
RenewLease(w) ==
    /\ workerPc[w] = "handling"
    /\ jobContext[w] = "live"
    /\ \/ /\ Owns(w)
          /\ expired' = [expired EXCEPT ![workerOp[w]] = FALSE]
          /\ UNCHANGED jobContext
       \/ /\ jobContext' = [jobContext EXCEPT ![w] = "cancelled"]
          /\ \/ UNCHANGED expired
             \/ Owns(w) /\ expired' = [expired EXCEPT ![workerOp[w]] = FALSE]
    /\ UNCHANGED <<status, attempt, leaseOwner, due, instanceVars, workerPc, deliveryVars,
                   active, outcome, inFlight, ended>>

\* A renewal that was under way when the handler returned: nobody waits for its
\* goroutine, so it may extend the lease until the delivery is stored.
RenewLate(w) ==
    /\ workerPc[w] \in {"returned"} \union Storing
    /\ Owns(w)
    /\ expired' = [expired EXCEPT ![workerOp[w]] = FALSE]
    /\ UNCHANGED <<status, attempt, leaseOwner, due, instanceVars, workerVars, inFlight, ended>>

\* callHandler returns, contextErr is read (jobContext keeps it from here on), the
\* delivery is unregistered.  A panic, or a result that does not encode, is an
\* "error"; an *OperationError is "permanent".
HandlerReturn(w, result) ==
    /\ workerPc[w] = "handling"
    /\ outcome' = [outcome EXCEPT ![w] = result]
    /\ active' = [active EXCEPT ![w] = FALSE]
    /\ workerPc' = [workerPc EXCEPT ![w] = "returned"]
    /\ UNCHANGED <<rowVars, instanceVars, deliveryVars, jobContext, inFlight, ended>>

\* Faulty: a delivery that lost its context is given back while workers still lease.
AfterFailureReleases(w, permanent) ==
    CASE jobContext[w] = "cancelled" -> "release"
      [] ~permanent /\ workerAttempt[w] < MaxAttempts[workerOp[w]] -> "retry"
      [] OTHER -> "fail"

\* Faulty: one retry too many.
AfterFailureOnceMore(w, permanent) ==
    CASE jobContext[w] = "cancelled" /\ ~Accepting(Of(w)) -> "release"
      [] ~permanent /\ workerAttempt[w] <= MaxAttempts[workerOp[w]] -> "retry"
      [] OTHER -> "fail"

\* What run does with an operationErr.
AfterFailure(w, permanent) ==
    CASE jobContext[w] = "cancelled" /\ ~Accepting(Of(w)) -> "release"
      [] ~permanent /\ workerAttempt[w] < MaxAttempts[workerOp[w]] -> "retry"
      [] OTHER -> "fail"

Decide(w) ==
    /\ workerPc[w] = "returned"
    /\ workerPc' = [workerPc EXCEPT
                      ![w] = IF outcome[w] = "ok" /\ jobContext[w] = "live"
                             THEN "succeed"
                             ELSE AfterFailure(w, outcome[w] = "permanent")]
    /\ UNCHANGED <<rowVars, instanceVars, deliveryVars, jobContext, active, outcome, inFlight, ended>>

EndDelivery(w) ==
    /\ workerPc' = [workerPc EXCEPT ![w] = "polling"]
    /\ workerOp' = [workerOp EXCEPT ![w] = Nobody]
    /\ workerAttempt' = [workerAttempt EXCEPT ![w] = 0]
    /\ jobContext' = [jobContext EXCEPT ![w] = "none"]
    /\ outcome' = [outcome EXCEPT ![w] = "none"]
    /\ ended' = ended \union {Token(w)}
    /\ UNCHANGED active

\* The statement is answered: one row, or ErrOperationFinished.
Store(w) ==
    /\ workerPc[w] \in Storing
    /\ IF Owns(w) THEN OwnedUpdate(w) ELSE UNCHANGED rowVars
    /\ EndDelivery(w)
    /\ UNCHANGED <<instanceVars, inFlight>>

\* It fails, its answer is lost, or it is given up before the database carries it out.
\* Only a success is followed up: the operation is then retried or failed, although its
\* handler has succeeded.
StoreError(w) ==
    /\ workerPc[w] \in Storing
    /\ \/ UNCHANGED <<rowVars, inFlight>>
       \/ Owns(w) /\ OwnedUpdate(w) /\ UNCHANGED inFlight
       \/ /\ Cardinality(inFlight) < MaxInFlight
          /\ inFlight' = inFlight \union {<<workerPc[w], workerOp[w], w, workerAttempt[w]>>}
          /\ UNCHANGED rowVars
    /\ IF workerPc[w] = "succeed"
       THEN /\ workerPc' = [workerPc EXCEPT ![w] = AfterFailure(w, FALSE)]
            /\ UNCHANGED <<deliveryVars, jobContext, active, outcome, ended>>
       ELSE EndDelivery(w)
    /\ UNCHANGED instanceVars

\* The database carries out a statement whose worker has gone on, or has crashed: it
\* finds the row as it is by now.
LateStatement(f) ==
    LET o == f[2] IN
    /\ f \in inFlight
    /\ inFlight' = inFlight \ {f}
    /\ IF status[o] = "running" /\ leaseOwner[o] = f[3] /\ attempt[o] = f[4]
       THEN Update(f[1], o) ELSE UNCHANGED rowVars
    /\ UNCHANGED <<instanceVars, workerVars, ended>>

--------------------------------------------------------------------------------
\* Shutdown and crash.

\* The goroutine of Start: the parent context has ended, stopAccepting.
ParentEnds(i) ==
    /\ i \in Fragile
    /\ state[i] = "running"
    /\ state' = [state EXCEPT ![i] = "stopping"]
    /\ UNCHANGED <<rowVars, baseDone, stopPc, cancelOp, workerVars, inFlight, ended>>

\* Shutdown up to its select; one call for each instance, the one of the lifecycle.
ShutdownBegin(i) ==
    /\ i \in Fragile
    /\ stopPc[i] = "idle"
    /\ state[i] \in {"running", "stopping"}
    /\ state' = [state EXCEPT ![i] = "stopping"]
    /\ stopPc' = [stopPc EXCEPT ![i] = "selecting"]
    /\ UNCHANGED <<rowVars, baseDone, cancelOp, workerVars, inFlight, ended>>

ShutdownDrained(i) ==
    /\ stopPc[i] = "selecting"
    /\ \A w \in Owners : Of(w) = i => workerPc[w] = "exited"
    /\ state' = [state EXCEPT ![i] = "stopped"]
    /\ stopPc' = [stopPc EXCEPT ![i] = "returned"]
    /\ UNCHANGED <<rowVars, baseDone, cancelOp, workerVars, inFlight, ended>>

\* The deadline passes: cancelActive and cancelWork.
ShutdownExpires(i) ==
    /\ stopPc[i] = "selecting"
    /\ baseDone' = [baseDone EXCEPT ![i] = TRUE]
    /\ jobContext' = [w \in Owners |->
                        IF Of(w) = i /\ workerPc[w] = "handling" /\ jobContext[w] = "live"
                        THEN "cancelled" ELSE jobContext[w]]
    /\ stopPc' = [stopPc EXCEPT ![i] = "releasing"]
    /\ UNCHANGED <<rowVars, state, cancelOp, workerPc, deliveryVars, active, outcome, inFlight, ended>>

\* Faulty: the attempts start anew.
ReleaseInstanceResets(i) ==
    LET ours == {o \in Ops : status[o] = "running" /\ leaseOwner[o] \in {i} \X Slots} IN
    /\ status' = [o \in Ops |-> IF o \in ours THEN "retrying" ELSE status[o]]
    /\ attempt' = [o \in Ops |-> IF o \in ours THEN 0 ELSE attempt[o]]
    /\ leaseOwner' = [o \in Ops |-> IF o \in ours THEN Nobody ELSE leaseOwner[o]]
    /\ expired' = [o \in Ops |-> expired[o] /\ o \notin ours]
    /\ due' = [o \in Ops |-> due[o] \/ o \in ours]

\* releaseInstanceLeases: every running row leased to a worker of this instance.
ReleaseInstance(i) ==
    LET ours == {o \in Ops : status[o] = "running" /\ leaseOwner[o] \in {i} \X Slots} IN
    /\ status' = [o \in Ops |-> IF o \in ours THEN "retrying" ELSE status[o]]
    /\ attempt' = [o \in Ops |-> IF o \in ours THEN GiveBack(attempt[o]) ELSE attempt[o]]
    /\ leaseOwner' = [o \in Ops |-> IF o \in ours THEN Nobody ELSE leaseOwner[o]]
    /\ expired' = [o \in Ops |-> expired[o] /\ o \notin ours]
    /\ due' = [o \in Ops |-> due[o] \/ o \in ours]

ShutdownReleases(i) ==
    /\ stopPc[i] = "releasing"
    /\ ReleaseInstance(i) \/ UNCHANGED rowVars
    /\ state' = [state EXCEPT ![i] = "stopped"]
    /\ stopPc' = [stopPc EXCEPT ![i] = "returned"]
    /\ UNCHANGED <<baseDone, cancelOp, workerVars, inFlight, ended>>

Crash(i) ==
    /\ i \in Fragile
    /\ state[i] \notin {"created", "crashed"}
    /\ state' = [state EXCEPT ![i] = "crashed"]
    /\ stopPc' = [stopPc EXCEPT ![i] = "returned"]
    /\ cancelOp' = [cancelOp EXCEPT ![i] = Nobody]
    /\ workerPc' = [w \in Owners |-> IF Of(w) = i THEN "dead" ELSE workerPc[w]]
    /\ UNCHANGED <<rowVars, baseDone, deliveryVars, jobContext, active, outcome, inFlight, ended>>

--------------------------------------------------------------------------------
WorkerStep(w) ==
    \/ Poll(w)
    \/ ExpireLeases(w)
    \/ ExpireLeasesError(w)
    \/ Lease(w)
    \/ LeaseUnanswered(w)
    \/ LeaseNothing(w)
    \/ RunBegin(w)
    \/ RenewLease(w)
    \/ RenewLate(w)
    \/ \E result \in {"ok", "error", "permanent"} : HandlerReturn(w, result)
    \/ Decide(w)
    \/ Store(w)
    \/ StoreError(w)

InstanceStep(i) ==
    \/ Start(i)
    \/ \E o \in Ops : Cancel(i, o)
    \/ CancelActive(i)
    \/ ParentEnds(i)
    \/ ShutdownBegin(i)
    \/ ShutdownDrained(i)
    \/ ShutdownExpires(i)
    \/ ShutdownReleases(i)
    \/ Crash(i)

Next ==
    \/ \E o \in Ops : LeaseExpires(o) \/ BecomesDue(o) \/ Submit(o)
    \/ \E w \in Owners : TaskTimeout(w) \/ WorkerStep(w)
    \/ \E i \in Instances : InstanceStep(i)
    \/ \E f \in inFlight : LateStatement(f)

Spec == Init /\ [][Next]_vars

\* The ticker of renewLease goes on for as long as its select does.  Nothing is
\* assumed of the handler, which may run forever.
LiveSpec == Spec /\ \A w \in Owners : WF_vars(RenewLease(w))

\* An instance that is not Fragile is started and its workers keep polling.  Its
\* statements may fail any number of times but not every time.  Clocks advance, and
\* handlers return, in every instance.
ClusterFairness ==
    /\ \A i \in Instances \ Fragile : WF_vars(Start(i))
    /\ \A o \in Ops : WF_vars(BecomesDue(o)) /\ WF_vars(LeaseExpires(o))
    /\ \A w \in Owners :
          /\ WF_vars(\/ Poll(w) \/ ExpireLeases(w) \/ ExpireLeasesError(w)
                     \/ Lease(w) \/ LeaseUnanswered(w) \/ LeaseNothing(w)
                     \/ RunBegin(w) \/ Decide(w) \/ Store(w) \/ StoreError(w)
                     \/ \E result \in {"ok", "error", "permanent"} : HandlerReturn(w, result))
          /\ SF_vars(ExpireLeases(w)) /\ SF_vars(Lease(w))

--------------------------------------------------------------------------------
\* Properties.

TypeRows ==
    /\ status \in [Ops -> Status]
    /\ attempt \in [Ops -> Nat]
    /\ leaseOwner \in [Ops -> Owners \union {Nobody}]
    /\ expired \in [Ops -> BOOLEAN]
    /\ due \in [Ops -> BOOLEAN]

TypeInstances ==
    /\ state \in [Instances -> {"created", "running", "stopping", "stopped", "crashed"}]
    /\ baseDone \in [Instances -> BOOLEAN]
    /\ stopPc \in [Instances -> {"idle", "selecting", "releasing", "returned"}]
    /\ cancelOp \in [Instances -> Ops \union {Nobody}]

TypeWorkers ==
    /\ workerPc \in [Owners -> {"unborn", "polling", "expiring", "leasing", "exited", "dead"}
                                 \union InRun]
    /\ workerOp \in [Owners -> Ops \union {Nobody}]
    /\ workerAttempt \in [Owners -> Nat]
    /\ jobContext \in [Owners -> {"none", "live", "cancelled", "deadline"}]
    /\ active \in [Owners -> BOOLEAN]
    /\ outcome \in [Owners -> {"none", "ok", "error", "permanent"}]
    /\ inFlight \subseteq Storing \X Ops \X Owners \X Nat
    /\ ended \subseteq Ops \X Owners \X Nat
    /\ \A w \in Owners : workerPc[w] \in InRun => workerOp[w] \in Ops

\* The columns and the locals have their types, and run is never entered without a
\* delivery.
TypeOK == TypeRows /\ TypeInstances /\ TypeWorkers

\* The retry policy of an operation is a limit: no interleaving of leases, expiries,
\* releases and retries by different instances counts more than max_attempts, and an
\* operation that waits for a worker always has an attempt left.
AttemptWithinLimit ==
    \A o \in Ops :
        /\ attempt[o] <= MaxAttempts[o]
        /\ status[o] \in {"pending", "retrying"} => attempt[o] < MaxAttempts[o]

\* A row is leased exactly while it is running: every statement that ends the one
\* ends the other, so a running row is either renewed or becomes a candidate, and a
\* finished row is never held.
LeaseIffRunning ==
    \A o \in Ops :
        /\ leaseOwner[o] # Nobody <=> status[o] = "running"
        /\ expired[o] => status[o] = "running"
        /\ due[o] => status[o] \in {"pending", "retrying"}

\* The token id, owner, attempt (registerActive, and the WHERE of every owned update)
\* names one delivery: although a release gives the attempt back, a worker is never
\* given a token whose delivery is over, so a late statement of an old delivery cannot
\* pass for one of the present.
NoTokenReuse ==
    \A w \in Owners : workerPc[w] \in InRun => Token(w) \notin ended

\* Two deliveries of an operation may run at once (the lease of one has expired), but
\* the row listens to the latest only, however often attempts were given back: no
\* delivery in progress has a higher attempt than the one that owns the row.
LatestDeliveryOwns ==
    \A w, v \in Owners :
        /\ workerPc[w] \in InRun /\ workerPc[v] \in InRun /\ workerOp[w] = workerOp[v]
        /\ Owns(w)
        => workerAttempt[v] <= workerAttempt[w]

Contract == INSTANCE AsyncContract WITH Durable <- TRUE

\* The durable executor keeps the contract of async.go across crashes, lost answers
\* and concurrent instances: in particular no late result changes a terminal status.
ImplementsContract == Contract!Spec

\* A handler whose delivery has lost its row, to Cancel on any instance or to another
\* worker, is told so: its context ends, or it returns by itself.
LostLeaseStopsHandler ==
    \A w \in Owners :
        (workerPc[w] = "handling" /\ ~Owns(w))
            ~> (workerPc[w] # "handling" \/ jobContext[w] # "live")

\* Every accepted operation ends, whatever crashes and shuts down, as long as one
\* instance stays.
AcceptedSettles ==
    ClusterFairness => \A o \in Ops : status[o] = "pending" ~> status[o] \in Terminal
================================================================================
