# A verification project for vial

vial is a Go web framework: routing and middleware on top of `net/http`, and the
parts of an application that outlive a request - its lifecycle, its background
tasks, its asynchronous operations. This directory models in TLA+ the long-lived
parts, the course of one request, and the tools that work beside an application
(migrations, the development runner). TLC checks the models on small instances, and
TLAPS proves their safety properties for instances of any size.

Source paths below are relative to the root of the repository.

## 1. Inventory

| part | state it keeps | operations | what is hard about it |
|---|---|---|---|
| operation contract `async.go` | the status of an operation | - | what both executors promise; terminal means final |
| in-memory executor `async/memory.go` | records, queue, idempotency map, metrics, executor state, one mutex | Handle, Start, Submit, Get, Wait, Cancel, Progress, Metrics, Shutdown; workers | work done between two critical sections; cancel and shutdown racing workers; late results; a full queue |
| durable executor `contrib/asyncpostgres` | rows with status, attempt, lease owner, lease expiry, next attempt; per process: state, active deliveries | the same, and lease, renew, retry, release | several processes, crashes, lost answers, expiry, attempts that are counted down again |
| task supervisor `task.go` | running set, result channel, abort/finished/done channels | Go, Start, Shutdown; monitor | a join without a deadline; failures that race the stop |
| lifecycle `lifecycle.go` | application state, started components, results | OnStart, OnStop, runLifecycle | partial start, one deadline for all, order of stop |
| HTTP server `server.go` | listener, server, done | Start, Shutdown | a component of the lifecycle |
| health `health.go` | - | liveness, readiness | readiness reads the lifecycle's state |
| application registry `app.go`, `options.go`, `module.go`, `group.go` | collected routes, hooks, tasks; collecting/built/running | registration, Register, Build, Run | the first request builds while others register; modules run outside the lock |
| routing `route*.go`, `handler.go` | compiled mux | - | paths and chains of nested groups; the match is `net/http`'s |
| request, binding, errors `context.go`, `binding.go`, `errors.go` | one request | Bind, hooks, rendering | sources that override each other; errors after a commit, panics |
| response writer `response.go` | wroteHeader, committing, hooks | WriteHeader, Write, Flush, Hijack, beforeCommit | re-entrance while committing |
| client address `client_ip.go` | - | - | walk over a chain of proxies |
| sessions `session/` | payload of a request, keys | Get, Set, Delete, Flash, Destroy, ReplaceKeys | mutation after commit, rotation during requests |
| server-sent events `sse/` | subscribers by topic, bounded channels | Subscribe, Publish, Close, remove | three parties close one channel; slow consumers |
| rate limiter `middleware/rate_limit.go` | buckets, overflow bucket, next clean-up | allow, cleanup | time read outside the lock; limit of keys |
| HTTP metrics `middleware/http_metrics.go` | counters by label | - | gauge and label limit |
| other middleware, `auth/` | - | CORS, CSRF, authentication, grants | no state; their order and what each lets through |
| migrations `sqlkit/` | table of versions, session lock | Migrate, InTx | several processes, lost session |
| development runner `internal/dev/` | process, binary, watcher, debounce | rebuildAndSwap | stop/start/restore with failures |
| load generator `internal/load/`, `vialgrpc`, `vialws`, `config`, `openapi`, `render`, `fault`, `testkit`, `cmd/vial` | little or none | - | GracefulStop against a deadline (gRPC); percentiles (load) |

How they interact: `runLifecycle` starts the asynchronous executor, the task
supervisor and the HTTP server, in this order, hands them one context, waits for
that context or for the first of them to end, cancels the context and calls
`Shutdown` on each in reverse order with one deadline. The executors and the
supervisor have goroutines of their own that notice the end of the context by
themselves, so the calls of `Shutdown` race what is already stopping. Handlers of
requests call `Submit`, `Wait` and `Cancel`. Replicas meet only in the database.

What makes each part correct:

- executors: an accepted operation reaches exactly one terminal status, which
  nothing later changes; a running one has somebody responsible for it; waiters
  wake up; Shutdown returns by its deadline and leaves nothing undecided;
- durable executor, besides: the retry limit holds, a row is leased exactly while it
  runs, a statement of an old delivery never passes for one of a new delivery;
- supervisor: the end of a critical task ends the application, Shutdown returns,
  tasks that did not stop are named, failures are reported;
- lifecycle: what was started is shut down, a nil error means a clean run,
  and the run returns once its context or a component has ended;
- registry: what is served is what was accepted, in whatever order registration and
  first use come; an application runs once;
- a request: it reaches its handler only past every check, its end is recorded once and
  truly, and a change of the session is sent;
- event hub: a channel is closed once, a slow stream is cut off rather than skipped,
  and streams end;
- rate limiter: no key passes more than its rate allows;
- migrations: a file is applied once, and the lock comes free;
- development runner: one application runs, and no change is forgotten.

`PROJECT.json` lists the hazards these properties are about, each at its line.

## 2. Modules

    AsyncContract            what an executor promises about an operation
      ^ implemented by MemoryExecutor, PgExecutor
    Component                what a component promises to runLifecycle
      ^ implemented by TaskSupervisor, MemoryExecutor; Lifecycle runs components of this kind
    MemoryExecutor           async/memory.go        <- MemoryExecutorProofs
    PgExecutor               contrib/asyncpostgres  <- MCPgExecutor, PgExecutorProofs
    TaskSupervisor           task.go                <- TaskSupervisorProofs
    Lifecycle                lifecycle.go           <- LifecycleProofs
    SseHub                   sse/                   <- SseHubProofs
    HttpErrors               errors.go              <- Binding
    Binding                  binding.go             <- Middleware
    Middleware               middleware/, auth/     <- Serving
    Serving                  one request            <- MCServing, ApplicationProofs
    Registry                 app.go, module.go ...  <- Application
    RateLimiter              rate_limit.go, client_ip.go  <- Application
    Application              the two together       <- MCApplication, ApplicationProofs
    Migrator                 sqlkit/                <- MCMigrator, MigratorProofs
    DevRunner                internal/dev/          <- DevRunnerProofs

`A <- B` reads: B extends A.

An operator whose comment begins with "Faulty:" is not part of a specification: it
is the operator after it with a plausible mistake. Each of them breaks a property,
which shows that the property speaks about that line of code.

### AsyncContract

One variable, `status`. `Successors` gives the moves of one operation; a step may
move several, since an expired Shutdown cancels all that are open. `Durable` says
whether a running operation may go back to waiting ("retrying").

### Component

The interface `lifecycleComponent`: `Start`, the channel of `Done`, `Shutdown`. `work` is what runs
behind it, `signal` what was sent on Done, `answer` what Shutdown has returned, `late` that its
deadline has passed. The promises are in the guard of `Return`: a nil is given only when the work has
ended, and a Shutdown whose deadline has not passed waits for that end. The send on Done comes
once, at any time after the start; it may precede the end of the work, as it does when one task of several
fails, when `http.Server.Serve` returns at the beginning of a graceful shutdown, and when an
executor gives up on its workers (section 6). With `Notifies` a component also promises that
something was sent before Shutdown returns, so that the loop over the results in runLifecycle
does not run into the deadline.

### MemoryExecutor

An action is one critical section of `executor.mu`, or one step outside it that
others can interleave with: a receive from the queue, the call of a cancel function
after the unlock, the return of a handler, one arm of a `select`.

| code | model |
|---|---|
| `executor.state`, `queue`, `handlers`, `idempotency`, `operations[id]` | `state`; `queue`, `queueState`; `handlers`; `idempotency`; `status`, `progress`, `executing`, `done` |
| `Submit` (one critical section) | `SubmitDuplicate`, `SubmitAccepted`, `SubmitQueueFull` |
| `Cancel`: critical section, then `cancel()` | `Cancel`, `CancelContext` |
| `Wait`: look-up, then `select` | `WaitBegin`, then `WaitReturn` or `WaitGivesUp` |
| `worker`, `run`, `finish` | `Receive`/`WorkerExit`; `RunSkip`/`RunBegin`; `HandlerReturn`; `Finish` |
| `context.WithTimeout` of a delivery | `jobContext`: none, live, cancelled, deadline; `TaskTimeout` |
| the two goroutines of `Start` | `GroupStep`, `WatcherStep` |
| `Shutdown` | `ShutdownBegin`, `ShutdownCloses`, `ShutdownSelects`, then `ShutdownDrained`, or `CancelUnfinished`, `CancelCollected`, `ShutdownExpired` |

The deadline given to Shutdown may have passed at any moment, so the second arm of
`ShutdownSelects` is always enabled. Payloads, results, metadata, times and logging
are left out; a panic and a result that cannot be encoded are errors of the handler.
`answered` is a history variable: the IDs Submit has returned for a key.
`queueState` is that of the channel: a second close, or a send after the close whether or not the
buffer has room, turns it to "panicked", and `QueueNeverPanics` says that this does not happen.
`newOperationID` draws an ID; `MayCreate` is the loop that draws again on a collision.

`Promise(s)` reads the executor as a `Component` whose Shutdown is called by s. It keeps that contract
if s is the only caller, which is how runLifecycle uses it. With two it does not: the second call of
Shutdown after one that expired finds the state stopped and returns nil (`memory.go:257`) although workers
may be left.

### PgExecutor

One SQL statement is one atomic step of the database. It may fail without effect, or
take effect while its answer is lost (`LeaseUnanswered`, `StoreError`,
`ExpireLeasesError`, the unanswered choice of `Cancel`); the caller cannot tell. The
statement that ends a delivery may also be given up, when `storeContext` times out,
and be carried out later: it is then in `inFlight`, its worker goes on (to a retry after
a success, to other deliveries, or crashes), and `LateStatement` finds the row as it is by
then. At most `MaxInFlight` statements are under way at a time.
Time appears as `expired` and `due`, facts about a row that become true and are reset
by the statements that write the timestamps. An instance is a process; a restarted
process draws a new instance ID and is another element of `Instances`. `Fragile` are
the instances that may crash or be shut down.

| code | model |
|---|---|
| columns `status`, `attempt`, `lease_owner`, `lease_expires_at`, `next_attempt_at` | `status`, `attempt`, `leaseOwner`, `expired`, `due` |
| `worker`, `lease` (two statements) | `Poll`, `ExpireLeases`, `Lease` / `LeaseNothing` |
| `run` | `RunBegin`, `HandlerReturn`, `Decide`, `Store` / `StoreError` |
| `renewLease`, one tick | `RenewLease`; one under way when the handler returns, `RenewLate` |
| `WHERE id, lease_owner, attempt, status = 'running'` | `Owns` |
| `Cancel`: UPDATE, then local cancel functions | `Cancel`, `CancelActive` |
| `Shutdown` | `ShutdownBegin`, `ShutdownDrained`, or `ShutdownExpires`, `ShutdownReleases` |

`ended` is a history variable: the tokens (operation, owner, attempt) of deliveries
that are over. Left out: the progress column, the idempotent submission, the filter on
handler names (every instance handles every name, so the branch of `run` for a missing
handler is not taken), the order of candidates, `Wait`, `Metrics`, `Ready` and the
schema. One Shutdown per instance, the one of the lifecycle.

### TaskSupervisor

Goroutines of the tasks (`TaskReturns`, `Unregister`, `CloseFinished`, `SendResult`),
the monitor (`Monitor...`, one action per arm of its `select` and per step after the
loop) and the caller of Shutdown (`Shutdown...`). `pending` stands for `remaining`; errors are the
sets of tasks they are about. `Work`, `Sent` and `Answer` are what runLifecycle can see of this:
whether a task runs, what `complete` has sent, what Shutdown has returned. `ImplementsComponent` says that
with them the supervisor is a `Component` that notifies.

### Lifecycle

`runLifecycle` from `Begin` to `Return`. A component is what `Component` allows: `Start` may fail,
its work may end at any time (`ComponentEnds`), it may send on Done at any time after its start, before or
after that end, or never (`ComponentSignals`), and `Shutdown` returns when the work has ended or when
the deadline has passed (`ShutdownComponent`). The forwarding goroutines are `Forward`. `Promise(c)`
reads component c as a `Component` that need not notify.

### SseHub

`Publish` holds the lock from `PublishBegin` until `offering` is empty, but streams
receive without it, so each `Offer` is a step. `Subscribe`, `Close` and
`RemoveSubscriber` (the function given to `context.AfterFunc`, run by a goroutine of its
own) are critical sections. A stream is `serveHTTP`: `StartStream`, `SubscribeChecks`,
`Subscribe`, then `Select` and `Write`, or `HeartbeatFails`. `closes` counts how often a channel
was closed; Go panics at the second time. `published`, `joined` and `sent` are history.

### Serving and what it is made of

The request is one record; the middlewares that keep no state are operators on it.
`HttpErrors` is the mapping of errors to a status, `Binding` the binding of sources to
fields, `Middleware` the decisions of CORS, session cookie, authentication, grants, CSRF
and route look-up. `Serving` walks a request through the chain HTTPMetrics, Recover (or
not), CORS, session, authentication, CSRF, route, `auth.Require`, `Bind`:

| code | model |
|---|---|
| the chain, from outside | `CountActive`, `CheckOrigin`, `LoadSession`, `CheckCaller`, `CheckToken`, `FindRoute`, `CheckGrants`, `BindRequest`, `Enter` |
| `ResponseWriter.WriteHeader`: flag, hooks in the order of registration, send | `BeginCommit`, `RunHook` (the one of the session is `SessionHook`), `EndCommit` |
| what a handler may do, in any order | `WriteHeader`, `BeforeCommit`, `AfterResponse`, `Hijack`, `ChangeSession`, `HandlerPanics`, `HandlerReturns` |
| a goroutine of the handler that changes the session: test of the commit, lock, store | `HelperChecks`, `HelperLocks`, `HelperStores` |
| the error handler, the application's own, and what follows if neither wrote | `RenderError`, `RenderCustom`, `Fallback`, `Finish` |
| `http_metrics.go`, after hooks | `Observe`, `RunAfterHook`, `Done` |

The status 101 is final, other codes below 200 are informational and commit nothing. The data of a
session is a number, new for every change. `late` collects what the cookie
may rightly hold, `misused` what hooks did that they should not (write, panic).

### Registry, RateLimiter, Application

A goroutine that registers executes a script; an operation is one critical section,
except `Register`, which reads the state and stages the modules outside the
lock (`RegisterStages`) and commits (`RegisterCommits`); the others are `Registers`. Requests and callers of `Run` build the
application on first use (`Loads`, `Builds`, `Listens`, `Runs`). `Operations` are what a script may ask
for. Paths are sequences of segments (`Paths` leaves out patterns that the mux refuses, and the syntax of names and methods,
which Build also validates, is left out), a
group is the variable that holds it, and `NoGroup` stands for the application. A group that
is nested (`Group.Group`) or created in a module is one like any other; a group is used in one goroutine
(`RaceAssumption`), because `Group.Group` reads it without the lock.

`log` records the accepted operations. What they ask for is defined without the application's fields: `Scopes` finds
for each group the operation that created it, the prefixes around it and the middleware
those had by then, `Added` what was added to it since, `RouteAt` what a route gets from both;
`AllRoutes` and `AllTasks` add those of the modules that were registered. `ServedAsRegistered` compares
this with what Build compiled and `runLifecycle` copied. The definitions that repeat (`Applied`, `Joined`,
`Added`, `Scopes`) are recursive functions, not RECURSIVE operators, so that the provers can use them.

`RateLimiter`: a request arrives (`Arrive`), reads the clock (`ReadClock`), and takes the lock
with the time it read (`Allow`: clean-up, choice of bucket, refill, payment). `rewound` is
history: how far late requests have set a bucket back, which is what they can gain.
`ClientIP`, the walk over proxies, is checked against `Charged`, a definition of the
address without a walk. `Application` puts the limiter behind the first use: `AppLimits` says that it is
the limiter by itself there.

### Migrator

Replicas call `Migrate` and crash; a statement is carried out and answered, refused, or its answer is
lost (`Outcomes`); the database ends sessions (`KillsSession`) and notices that a client
has gone (`NoticesClientGone`), and then frees the lock and rolls back. `dialect` chooses between
transactional DDL and MySQL's implicit commits (`Implicit`). A file is its name and its checksum.

### DevRunner

The watcher's loop (`Tick`, `ScanFile`, `ScanEnds`, `ReportChange`, `TakeSnapshot`), the arms of
`Run`'s select, the debounce timer, and `rebuildAndSwap` step by step: `BuildBegins`,
`BuildEnds`, `StopStep`, `StopReturns`, `StartChild`, `Restore`. Children exit when they like.
The two channels drop what does not fit. `Edit` removes only files that the snapshot knows;
the removal of another is not seen (section 5).

## 3. Runs

| run | instance | shows |
|---|---|---|
| `memory_safety` | 2 operations, 2 workers, queue of 1, 1 client, 1 Shutdown, a valid and an invalid percentage | seven invariants, `TerminalIsFinal` and the refinement of `AsyncContract` |
| `memory_live` | 2 operations, 1 worker, queue of 1, 1 client, 1 Shutdown | Shutdown returns; operations settle |
| `pg_safety` | 1 operation with 2 attempts, 2 instances that crash and stop, 1 statement in flight | invariants of the rows and of the tokens, refinement of `AsyncContract` |
| `pg_live` | the same, but only one of the instances crashes or stops and nothing is in flight | a handler that lost its row is told; operations settle |
| `task_shutdown` | 2 tasks, 1 critical | naming, reporting, the refinement of `Component`; the application stops and Shutdown returns |
| `task_failure` | 2 critical tasks | finding, section 6 |
| `lifecycle_run` | 3 components, 2 start hooks, 2 stop hooks | clean nil, no component left, the run returns |
| `sse_streams` | 2 streams, 2 topics, buffers of 1, 2 events, both policies | channels are closed once (`KnownIffOpen`), a stream gets the beginning of what it is owed (`NothingSkipped`), streams end (`StreamsEnd`) |
| `serving` | one of about 800 requests, which differ in what one check looks at; with and without Recover and an error handler of the application; 3 changes of the session, 1 hook of each kind | `RecordedTruly`, `SessionIsSent`, `OnlyAdmitted` |
| `dev_runner` | 1 file, 2 edits, channels of 1 | `OneApplication`, `ChangesAreBuilt` |
| `migrator` | 2 replicas with equal or different files, 2 names, 3 calls of Migrate, both dialects | `MigratedOnce`, `LockComesFree` |
| `application` | 2 goroutines that register, a request and 2 callers of Run; limiter with 2 concurrent requests, 4 arrivals, 1 key, time up to 5 | `ServedAsRegistered`, `AdmittedWithinRate` |

Why these bounds. A queue of one with two operations is full, is drained after it was
closed, and has one operation queued while another runs; two workers and one client
give every pair of racing critical sections; an expired Shutdown can fall anywhere,
and the end of the parent context gives it a rival. In the durable executor one operation
suffices, as rows do not influence each other; two attempts allow a retry, a takeover
and an exhausted delivery; two owners allow a delivery that is overtaken by another,
and a release that gives an attempt back to either. Several concurrent Shutdowns of the in-memory
executor, several workers of one durable instance and several statements in flight are
left to the proofs of section 5, which hold for all constants. A statement in flight can
only end a lease earlier, so it is left out of `pg_live`. A buffer of one and two events overflow;
two topics show misdirected events. Requests meet only in the parts that have a module of
their own, so one request at a time is enough for `serving`. One key with four arrivals from
three addresses uses the overflow bucket, a clean-up and a bucket made anew. Three calls of
Migrate let a replica crash, another wait, and one come afterwards. Two edits in one file let
an edit fall into a scan, a build or a swap that is due to the other.

Bounds that are not of the code are named in the modules (`MaxEvents`, `MaxChanges`,
`MaxHooks`, `MaxRuns`, `MaxEdits`, `MaxTime`, `MaxArrivals`, `MaxInFlight`); the executors are
finite by themselves, because IDs are used up and attempts are bounded by `MaxAttempts`. No
symmetry is used. `application` has an action constraint, `Focus`: the limiter reads
nothing of the registry but that requests are served, so its steps are explored in one of
the states in which registration and first use are over, instead of beside every one of them.

Only `pg_safety` does not check deadlock: when all instances have crashed nothing
happens any more. In the other models `Rest` (`AllDone` in Application) marks the states in which the
program has ended; elsewhere a deadlock would be reported.

## 4. Fairness

- `MemoryExecutor!LiveSpec` is `Spec` with `ShutdownFairness`: a Shutdown goes on, and
  the deadline of its context passes. Nothing is assumed of workers and handlers, so
  `ShutdownReturns` holds although a handler never returns.
- `MemoryExecutor!AcceptedSettles` is an implication: its premise `WorkerFairness` says that
  workers run, the task timeout passes and a handler whose context has ended returns. The
  last is the obligation that `context` puts on handlers; the code cannot enforce it, and
  without it an operation may stay open until Shutdown.
- `PgExecutor!LiveSpec`: the ticker of `renewLease` ticks. Nothing is assumed of the handler,
  so `LostLeaseStopsHandler` is what the renewal achieves by itself.
- `PgExecutor!AcceptedSettles` has the premise `ClusterFairness`: clocks advance, handlers
  return, workers run; instances outside `Fragile` are started and stay; a statement that is
  tried again and again is not refused every time (strong fairness on `ExpireLeases` and `Lease`).
- `TaskSupervisor!LiveSpec`, `Lifecycle!LiveSpec`: goroutines run and the shutdown timeout
  passes. Nothing is assumed of tasks, nor of when the work of a component ends or a component signals;
  hooks return, and a component's Shutdown returns by its deadline, which `ShutdownReturns` checks of the
  supervisor and of the in-memory executor.
- `SseHub!LiveSpec`: streams run and their writes return, which `serveHTTP` ensures with a
  write deadline; the goroutine of an AfterFunc runs; a Publish goes on to the next
  subscriber, since an offer never blocks; `net/http` ends the context of a request whose handler
  has returned. Nothing is assumed of clients or publishers.
- `Migrator!LiveSpec`: a replica goes on unless it crashes, the database grants a lock that is
  free and in the end notices that a client has gone (its keepalive).
- `DevRunner!LiveSpec`: the watcher scans and the timer fires; a scan succeeds if it is tried
  again and again (strong fairness on `ScanEnds`); a build, a start and a stop return, the stop because
  it waits with a time limit, kills, and waits with a limit again; Go's `select` chooses at random among the ready arms, so none that
  is ready again and again is left out (strong fairness on the arms).

## 5. Properties and proofs

In-memory executor, for all constants (`MemoryExecutorProofs`): `TypeOK`,
`SettledWhenStopped`, `NobodyForgotten`, `DeliveredOnce`, `QueueNeverPanics`,
`CancelledContextMeansCancelled`, `TerminalIsFinal`, and `ImplementsContract`.
The inductive invariant is `IInv`, the conjunction of

- `TypeOK`;
- `ControlInv`: how the executor's state, the queue's closing (`QueueInv`: it is open exactly
  while the executor is created or running), the parts of Start and
  the callers of Shutdown depend on each other;
- `Holding`: an operation is in the queue or with one worker, once; this is what
  makes `NobodyForgotten` inductive, since a receive moves the operation from one to the other;
- `SettlingInv`: a Shutdown past `cancelUnfinished`, or past a drained
  queue, has nothing open, the same holds once `workerBase` is cancelled, and no Submit can
  add anything because the state is no longer running;
- `CancelRecorded`: a cancelled context belongs to a cancelled operation, which needs
  that all who are about to cancel one (a client, a Shutdown with its collected
  functions, `cancelWork`) have recorded it first.

Durable executor, for all constants (`PgExecutorProofs`): `TypeOK`,
`AttemptWithinLimit`, `LeaseIffRunning`, `NoTokenReuse`, `LatestDeliveryOwns`,
`ImplementsContract`. The difficulty is `NoTokenReuse`: a release decrements
`attempt`, so the numbers of a row are not monotonic and a token could come back. It cannot
because attempts are given back only for a worker that will take no lease again: its
instance no longer accepts. The invariant says it with `MayLease(w)` (w
may still take a lease, now or later) and `Past(w, o, n)` (the row of o has gone past attempt n
of w, or is still leased under it). `TokenInv`: for a w that may lease, its ended tokens and
its delivery in progress are past. Every step keeps what is past (`PastStep`), and who may not lease
stays so (`MayLeaseFalls`). `AheadInv`: a delivery in progress is at most one attempt ahead of its row,
and only while the row is not leased. `DecisionInv`: a worker about to retry has an
attempt left, one about to release belongs to an instance that no longer accepts; `ReleasingInv`:
an instance that releases its leases has ended its workers' context. `FlightInv` carries
the decision over to the statements in flight: a late retry has an attempt left, and a late release
belongs to a worker that will not take a lease again, so it cannot bring a token back either.
`FreshInv` and `UnbornInv` are about operations never accepted and workers not yet started.
`RowsMoveLawfully` is about single steps: no statement, not even one carried out late, changes a row that is
terminal, and `attempt` moves by one, up with a lease, down when a running row is given back.

The in-memory executor also has `DoneIffTerminal`, `KeysResolve` and `MetricsBalance`, for any
finite number of workers. The first two are inductive beside `IInv`: a Submit that finds the queue full
takes back only a key that named nothing before, and so was never answered. `MetricsBalance` counts with cardinalities: an operation that settles leaves
`Unfinished`, a handler that comes back leaves the set that Running counts, each of which is one
element less.

Task supervisor (`TaskSupervisorProofs`): `UnstoppedAreNamed`, `OnlyCriticalReported`,
`ReportedWhenReturned` and `ImplementsComponent`, for any tasks. `ChannelInv` and `RunningInv` relate each task's goroutine
to the channel, to `pending` and to `supervisor.running`; `NamedInv` says that the running set only shrinks
after Shutdown has read the names; `ResultInv` and `FailureInv` that failures are collected only
while the monitor is stopping, since one it meets before ends its loop; `ReportInv` that the monitor ends
after a report or because Shutdown aborted it, and that in the second case Shutdown reports before it
joins.

Lifecycle (`LifecycleProofs`): `StartedAreShut` and `NilMeansClean`, for any number of components and
hooks. `StartInv` and `ShutInv` say what the two loops have done by their index, `ForwardInv` that a
result was sent before it is read, and `CleanInv` that without an error the number of results received is that
of the components read, so that a complete count means every component was read.

Composition. `Lifecycle` runs components it knows nothing about but the contract; three results
tie that to the components of the other modules, each for all constants.
`PromisesAreAllowed`: whatever a component may do under `Component` - its work ends, it sends on Done, it
answers Shutdown - is a step of `Lifecycle`, which forbids it nothing. `ComponentsKeepPromises`: in the other direction, what
runLifecycle does with a component is what the contract expects, one Start and at most one Shutdown, after
a Start that succeeded; its invariant `PromiseInv` says that a component is new until it is in `started`, and that the
stopping loop has only shut down components above its index.
`SupervisorIsComponent` and `MemoryIsComponent`: the supervisor and the executor keep the contract. For the
supervisor this needs, beside `IInv`, that a Shutdown past its deadline has seen it pass (`LateInv`), and
that a report is made once, before Shutdown joins the monitor (`ReportInv`). For the executor `StopperInv` says that
only the one caller brings it to `stopped`, so the nil of a Shutdown that finds the executor stopped
is never an answer to the lifecycle. Start, Shutdown and the end of the work map to the steps of `Component`, everything
else to a stutter. The HTTP server, whose work is `net/http`'s, is a `Component` by the
documentation of `Server.Shutdown`, and the durable executor is left for later (section 7).

Event hub (`SseHubProofs`): `KnownIffOpen` and `NothingSkipped`, for any streams, topics, buffers and
events. `DeliveryInv` speaks of everything that is on its way to a stream (written, in hand, in the
buffer), for the written part alone is not inductive: it is in order, due, and under the
disconnecting policy without a gap and complete up to the event that is just being offered.
`OfferInv` says that the event being offered is the latest and was not put into the buffer before.

Migrations (`MigratorProofs`): `MigratedOnce`, for any number of replicas, files and calls; besides, at most one replica
between Lock and Unlock has a session that reaches the database (`OneMigratesAtATime`), and no step
takes a record back (`RecordsStay`). `LockInv` is about replicas whose session is alive; a
replica that lost its session may go on believing that it has the lock, and `WorkInv` keeps it harmless: what the
transaction of an open session holds is what its replica has just executed, and of a dead one nothing is left.
`RecordInv` is the bridge to `OnceInv`: a transaction about to commit records a file that
nobody has recorded, because the table was read under the lock and the lock was kept since.

Development runner (`DevRunnerProofs`): `OneApplication`, for any files, edits and channel sizes. `BinaryInv`
keeps the candidate, the old and the current executable apart, and says at which places each exists;
`KnownInv` that no executable is forgotten unless it is in `leaked`.

Registration and first use (`ApplicationProofs`, over `AppSpec`): `ServedAsRegistered`, for any labels,
groups, scripts, modules, goroutines and users. `RegistrationInv` says that the application
holds what `log` asks for (`Agrees`), and that a goroutine past its first look is still at its call of
Register; `FirstUseInv` that what is compiled and what is run are the application as it is now, which no
step changes once it is frozen, except for a group that is created then and gets no route. The
first is proved operation by operation (`UseAgrees`, `HandleAgrees`, `GroupAgrees`, `GoAgrees`, `RegisterAgrees`), from lemmas on what one operation
more changes in the reference definitions (`AddedNext`, `ScopeNext`, `RoutesNext` and so on); the case that matters is that of a
group, whose routes keep what it had when they were registered. That the recursive functions
are what their equations say is proved by showing that such a function exists (`RecursionTo`), and a property of all
of its values over sets of numbers (`InductionTo`). `Applied` is used for the private application of a module, so a module's routes
are those its own script asks for. `FirstUseInv` does not hold without the second look of
Register: `RegisterCommitsStale` would change an application that has been compiled.

Rate limiter (`ApplicationProofs`, over `LimiterSpec`; `AppRateIsKept` over `AppSpec`): `AdmittedWithinRate`, for any rate, window, burst,
limit of keys, number of concurrent requests and chains of proxies. The invariant classifies each account:
never used, dormant (its bucket was forgotten), or live. For a live one
`Held` says that what was granted and what is left in the bucket is covered by the burst and the time
credited; this survives a clock that goes backwards because `rewound` grows by as much. A
second inequality, with the time of the last request that passed, is what makes forgetting
harmless: `cleanup` drops a bucket only after a time in which it would have been filled again. The inequality does not
follow from the first, as `updated` may have been set back. The arithmetic has products of
variables, so it is done in lemmas of its own (`Distributes`, `Monotone`, `HeldPays` and so on).
The last part of the property, that `ClientIP` finds the address to be charged, is about a recursive function; it is proved by
least counterexample: if the walk were somewhere else than `PlaceAfter` says, there would be a
first step at which it is, and there is none (`WalkPlace`, `ClientIPIsCharged`).

One request (`ApplicationProofs`, over `Serving!Spec`): `RecordedTruly`, `SessionIsSent`, `OnlyAdmitted`, for
any set of requests, settings of CORS, CSRF and grants, fields, hooks and changes. `CountInv`: from the first
middleware until it has run, the hook of the metrics is in the list of after hooks exactly once.
`AnswerInv` and `ErrorInv`: the tracked response agrees with `net/http`, and who has rendered an error.
`CookieInv`: until the commit the session's hook is registered, and while it lasts what the hook has read is one of the values
that were pending since it began. `AdmitInv`: the checks of the chain that the request is past have let it pass.
Bind's recursion over the four kinds of source is unrolled (`BindDest`, `BindWins`): the value
of a field is that of the highest-ranked source.

TLC finds the inductive invariants to hold on the instances of section 3, too.

The assumptions are the named `ASSUME`s of the modules, which TLC evaluates in the runs: a queue or buffer has room
for one at least, there is a worker and the workers are finitely many, the set of IDs is finite, the "nothing"
values are not elements of the sets they complete, limits are positive; the configuration of the limiter is one that
`RateLimit` accepts (`ConfigAssumption`) and the chains of a request consist of addresses
(`ArrivalsAssumption`); the files of a replica are a sequence of names with checksums (`DeploymentsAssumption`);
what a handler returns is an error in the sense of `HttpErrors` (`ErrorsAssumption`) and a
request's route is found, found for another method, or missing (`RequestsAssumption`); scripts are sequences of
operations, those of a module without `UseHTTP`, `Async` and `Register`, which a Registrar does not have
(`ScriptsAssumption`, `ModulesAssumption`), the names are among the labels, and `NoGroup` is no group
(`LabelsAssumption`, `GroupsAssumption`). The proofs use nothing else.

Checked by TLC only is liveness (`ShutdownReturns`, `AcceptedSettles`, `LostLeaseStopsHandler`, `CriticalStops`,
`StopReturns`, `EndStopsAll`, `StreamsEnd`, `ChangesAreBuilt`, `LockComesFree`): temporal
reasoning under fairness is not in the prover's reach. Every invariant, every action
property and every refinement of the runs is a theorem.

The type invariants are proved (`TypeCorrect` of each module, `LimiterTypeCorrect`,
`ServingTypeCorrect`), and so is `DeliveredOnce` (`OperationsAreHeld`); only that of `PgExecutor` is also run.

What the properties leave open on purpose, because the code does:

- a before-commit hook that writes a body makes `net/http` answer 200 while the tracked
  response records another status; a hook that panics loses the session cookie. Both are
  `misused` in `RecordedTruly` and `SessionIsSent`.
- a goroutine that changes the session while the response is being committed gets nil from
  `Set` and its change may not be sent: `SessionIsSent` speaks of changes made before.
- a request that read the clock long before it got the lock sets a bucket back, and the
  same time is paid out twice: `rewound` in `AdmittedWithinRate`.
- in the development runner, a Stop that fails during a swap drops the candidate until the
  next change; on Unix the kill of a child that was just reaped reports failure; a restore that fails
  leaves the old executable behind (`leaked`); a file created and removed between two
  scans goes unnoticed.
- where MySQL commits by itself, a crash between the statements of a file and its record leaves
  the statements without the record, and they are executed again.

## 6. Where code and text disagree

A run shows one disagreement:

- `task_failure`: `task_test.go:185` (`TestCriticalTaskShutdownFailureIsReturned`) expects
  the failure of a critical task during the stop to be returned. When another task misses the deadline,
  Shutdown aborts the monitor and sends nil (`task.go:137-138`), and the failures
  collected so far are dropped.

Two more are visible in one action of the model each and need no run:

- `async/memory.go:241` says "Done reports when executor workers stop." A Shutdown that
  expires signals Done without waiting for them (line 275, `ShutdownExpired`); the durable executor
  does the same (`executor.go:229` and `263`).
- `lifecycle.go:31` says that stop hooks run "after components stop". After the deadline
  they run while components may be at work (line 137, the arm of `Collect` that gives up).

## 7. Plan

Done, in this order: AsyncContract, MemoryExecutor and its proofs, PgExecutor and its
proofs, TaskSupervisor, Lifecycle, SseHub, Serving with Binding and Middleware, DevRunner,
Migrator, Registry and RateLimiter in Application, statements in flight in PgExecutor; then the
proofs of TaskSupervisor, Lifecycle, SseHub, Migrator, DevRunner, RateLimiter and Serving, the rest
of MemoryExecutor, Registry, and the composition over `Component`. To come:

1. Proofs: action properties of the components (what a step may never undo) besides `TerminalIsFinal`,
   `RecordsStay` and `RowsMoveLawfully`.
2. Composition: the durable executor as a `Component`, one for each instance.
3. PgExecutor: idempotent submission, progress and `Wait`; the helpers of `async.go` on top
   of an executor (`Await`, `ParsePrefer`).
4. Pure algorithms against reference definitions: retry back-off, percentiles of the
   load generator.

## 8. Not modelled

Code without state or concurrency of its own (`openapi/`, `config/`, `render/`, header
middleware, the text format of events and of metrics), thin wrappers over a library
(`vialgrpc`, `vialws`), pure I/O (`cmd/vial`), the load generator, test helpers and examples.
Cryptography, the network, the database's SQL and `net/http` itself are out of reach: keys and
tokens are names, a statement is what its text says it does, and `net/http` appears as what
the code relies on. `PROJECT.json` says for each component what is left out of it.
