-------------------------------- MODULE Serving --------------------------------
(***************************************************************************)
(* One request through an application: the middleware chain, the handler,  *)
(* the tracked response (response.go), the hooks before the commit and     *)
(* after the response (context.go), the rendering of errors (errors.go),   *)
(* the encrypted session (session/) and the HTTP metrics.                  *)
(*                                                                         *)
(* The chain is HTTPMetrics, Recover (if installed), CORS, session,        *)
(* authentication, CSRF, and auth.Require on the route.  The handler does  *)
(* anything a handler may do, in any order; a goroutine it has started     *)
(* changes the session beside it.  The body is left out: a write matters   *)
(* here because it commits the response.                                   *)
(*                                                                         *)
(* The data of a session is a number, a new one for every change; Empty is *)
(* the session without data, whose cookie is the expired one.              *)
(***************************************************************************)
EXTENDS Middleware

CONSTANTS
    Requests,    \* the requests a client may send
    Errors,      \* the errors a handler may return
    MaxChanges,  \* bound: changes of the session
    MaxHooks     \* bound: hooks of each kind that the handler registers

ASSUME BoundsAssumption == MaxChanges \in Nat /\ MaxHooks \in Nat
ASSUME ErrorsAssumption == Errors \subseteq ErrorKind
ASSUME RequestsAssumption == \A r \in Requests : r.route \in {"found", "method", "missing"}

None == 999      \* no cookie to be set
Expired == 998   \* the cookie that makes the client forget its own
Empty == 0       \* a session without data
Unbound == [f \in Fields |-> Absent]
NoRequest == [route |-> "served"]

VARIABLES
    recovers,      \* Recover is in the chain
    custom,        \* an error handler of the application replaces the default one
    request,       \* the request; NoRequest once its handler runs
    pc,            \* where serveHTTP is
    caller,        \* who called WriteHeader: "answer", "handler", "render", "fallback", "final"
    next,          \* the status being committed
    status,        \* response.status
    wroteHeader,   \* response.wroteHeader
    hijacked,      \* response.hijacked
    hooks,         \* response.beforeCommitHooks that have not run
    after,         \* context.afterHooks; a middleware outside the chain may have added one
    failure,       \* context.responseErr
    wire,          \* the status handed to net/http; 0: none
    header,        \* the session cookie in the response's header map
    sent,          \* the session cookie handed to net/http with it
    data, pending, \* session.data and session.pending
    stored,        \* request.MultipartForm has temporary files
    bound,         \* the destination of Bind, until the handler has taken it
    locked,        \* the goroutine holds session.mu
    helper,        \* where the goroutine is in session.change
    active,        \* metrics.active
    observed,      \* the statuses the metrics have counted
    late,          \* history: what was pending at any time since the commit began
    misused        \* history: "written" or "panicked": what a hook did

responseVars == <<status, wroteHeader, hijacked, hooks>>
wireVars     == <<wire, header, sent>>
sessionVars  == <<data, pending, locked, helper>>
metricVars   == <<active, observed>>
configVars   == <<recovers, custom>>
requestVars  == <<configVars, stored, bound>>
historyVars  == <<late, misused>>

vars == <<requestVars, request, pc, caller, next, responseVars, after, failure, wireVars,
          sessionVars, metricVars, historyVars>>

Init ==
    /\ recovers \in BOOLEAN
    /\ custom \in BOOLEAN
    /\ request \in Requests
    /\ pc = "metrics"
    /\ caller = "handler"
    /\ next = 0
    /\ status = 0 /\ wroteHeader = FALSE /\ hijacked = FALSE /\ hooks = <<>>
    /\ after \in {<<>>, <<"panics">>}
    /\ failure = NoError
    /\ wire = 0 /\ header = None /\ sent = None
    /\ stored = FALSE /\ bound = Unbound
    /\ data = Empty /\ pending = None /\ locked = FALSE /\ helper = "idle"
    /\ active = 0 /\ observed = <<>>
    /\ late = {} /\ misused = {}

--------------------------------------------------------------------------------
\* The commit.

\* WriteHeader of a final status: the hooks run first.  A call after the commit does
\* nothing, nor does one from a hook.
BeginCommit(code, who) ==
    /\ next' = code
    /\ caller' = who
    /\ late' = {pending}
    /\ pc' = "commit"

\* net/http ignores a second status, and any on a connection that was taken over.
Send(code) ==
    LET first == wire = 0 /\ ~hijacked
    IN  /\ wire' = IF first THEN code ELSE wire
        /\ sent' = IF first THEN header ELSE sent

\* The state after a panic that nobody inside serveHTTP has recovered.
Escape ==
    /\ status' = IF wroteHeader THEN status ELSE 500
    /\ failure' = Plain
    /\ pc' = "after"

\* Where a panic goes: Recover turns one of the handler into an error, the error renderer
\* recovers those of the error handler, and all others escape from serveHTTP.
Panic ==
    \/ /\ caller = "handler" /\ recovers
       /\ failure' = HTTPError(500)
       /\ pc' = "render"
       /\ UNCHANGED status
    \/ /\ caller = "render"
       /\ pc' = "fallback"
       /\ UNCHANGED <<status, failure>>
    \/ /\ \/ caller = "handler" /\ ~recovers
          \/ caller \in {"fallback", "final"}
       /\ Escape

\* session.beforeCommit, under the read lock.
SessionHook == header' = IF pending # None THEN pending ELSE header

\* One of the hooks, in the order of registration.  Registering a hook or calling
\* WriteHeader from a hook is refused; writing a body makes net/http commit with 200.
RunHook ==
    /\ pc = "commit"
    /\ hooks # <<>>
    /\ \/ /\ Head(hooks) = "session" /\ ~locked
          /\ SessionHook
          /\ hooks' = Tail(hooks)
          /\ UNCHANGED <<pc, status, failure, wire, sent, misused>>
       \/ /\ Head(hooks) = "plain"
          /\ hooks' = Tail(hooks)
          /\ UNCHANGED <<pc, status, failure, wireVars, misused>>
       \/ /\ Head(hooks) = "writes"
          /\ hooks' = Tail(hooks)
          /\ misused' = misused \union {"written"}
          /\ Send(200)
          /\ UNCHANGED <<pc, status, failure, header>>
       \/ /\ Head(hooks) = "panics"
          /\ hooks' = <<>>
          /\ misused' = misused \union {"panicked"}
          /\ Panic
          /\ UNCHANGED wireVars
    /\ UNCHANGED <<requestVars, request, caller, next, wroteHeader, hijacked, after,
                   sessionVars, metricVars, late>>

\* The hooks have run: the status is recorded and the header sent.
EndCommit ==
    /\ pc = "commit"
    /\ hooks = <<>>
    /\ status' = next
    /\ wroteHeader' = TRUE
    /\ Send(next)
    /\ pc' = CASE caller = "handler" -> "handler"
               [] caller \in {"answer", "render", "fallback"} -> "finish"
               [] caller = "final" -> "after"
    /\ UNCHANGED <<requestVars, request, caller, next, hijacked, hooks, after, failure, header,
                   sessionVars, metricVars, historyVars>>
--------------------------------------------------------------------------------
\* The chain.

\* What a middleware makes of a request: the next step, or an error to be rendered.
Through(outcome, step) ==
    /\ outcome.kind \in {"next", "error"}
    /\ pc' = IF outcome.kind = "next" THEN step ELSE "render"
    /\ failure' = outcome.err

chainVars == <<requestVars, request, caller, next, responseVars, after, wireVars, sessionVars,
               metricVars, historyVars>>

\* HTTPMetrics: one more active request, and the hook that takes it back.
CountActive ==
    /\ pc = "metrics"
    /\ active' = active + 1
    /\ after' = Append(after, "metrics")
    /\ pc' = "cors"
    /\ UNCHANGED <<requestVars, request, caller, next, responseVars, failure, wireVars,
                   sessionVars, observed, historyVars>>

CheckOrigin ==
    /\ pc = "cors"
    /\ \/ Through(Cors(request), "session") /\ UNCHANGED <<caller, next, late>>
       \/ /\ Cors(request) = Answer
          /\ BeginCommit(204, "answer")
          /\ UNCHANGED failure
    /\ UNCHANGED <<requestVars, request, responseVars, after, wireVars, sessionVars, metricVars, misused>>

\* encodedCookie; one that is too large is an error.
EncodedCookie(value) == IF value = Empty THEN Expired ELSE value

\* Manager.load and the registration of the hook.  A cookie that cannot be opened, or is
\* too old or too large, is expired; one under an older key is sealed again, which may fail.
LoadSession ==
    /\ pc = "session"
    /\ \/ request.session.key = "none" /\ UNCHANGED <<data, pending>>
       \/ /\ request.session.key # "none" /\ Decode(request.session) = 0
          /\ pending' = Expired /\ UNCHANGED data
       \/ /\ request.session.key # "none" /\ Decode(request.session) # 0
          /\ data' = 1
          /\ pending' = IF Decode(request.session) > 1 THEN EncodedCookie(1) ELSE None
    /\ hooks' = Append(hooks, "session")
    /\ pc' = "auth"
    /\ UNCHANGED <<requestVars, request, caller, next, status, wroteHeader, hijacked, after,
                   failure, wireVars, locked, helper, metricVars, historyVars>>

LoadSessionFails ==
    /\ pc = "session"
    /\ Decode(request.session) > 1
    /\ Through(Refuse(Plain), "auth")
    /\ UNCHANGED chainVars

CheckCaller ==
    /\ pc = "auth"
    /\ Through(Authenticate(request), "csrf")
    /\ UNCHANGED chainVars

CheckToken ==
    /\ pc = "csrf"
    /\ Through(Csrf(request), "dispatch")
    /\ stored' = (ParsesForm(request) /\ StoresFiles(request))
    /\ UNCHANGED <<configVars, bound, request, caller, next, responseVars, after, wireVars,
                   sessionVars, metricVars, historyVars>>

FindRoute ==
    /\ pc = "dispatch"
    /\ Through(Dispatch(request), "guard")
    /\ UNCHANGED chainVars

CheckGrants ==
    /\ pc = "guard"
    /\ Through(Require(request), "entered")
    /\ UNCHANGED chainVars

\* The handler binds the request and returns the error, if there is one.
BindRequest ==
    /\ pc = "entered"
    /\ LET result == Bind(request)
       IN  /\ Through(IF result.err = NoError THEN Pass ELSE Refuse(result.err), "bound")
           /\ bound' = IF result.err = NoError THEN result.dest ELSE Unbound
    /\ stored' = (stored \/ StoresFiles(request))
    /\ UNCHANGED <<configVars, request, caller, next, responseVars, after, wireVars, sessionVars,
                   metricVars, historyVars>>

\* The handler goes on, and with it the goroutine; neither looks at the request again.
Enter ==
    /\ pc = "bound"
    /\ pc' = "handler"
    /\ request' = NoRequest
    /\ bound' = Unbound
    /\ helper' = "called"
    /\ UNCHANGED <<configVars, stored, caller, next, responseVars, after, failure, wireVars, data,
                   pending, locked, metricVars, historyVars>>

--------------------------------------------------------------------------------
\* What a handler may do.

handlerVars == <<requestVars, request>>

\* Passed on and not final; 101 is.
Informational(code) == code \in 100..199 /\ code # 101

\* WriteHeader, Write, Flush, JSON, Text, NoContent and Redirect: all commit, the first
\* of them.  An informational response commits nothing.
WriteHeader(code) ==
    /\ pc = "handler"
    /\ ~wroteHeader
    /\ IF Informational(code)
       THEN UNCHANGED <<pc, caller, next, late>>
       ELSE BeginCommit(code, "handler")
    /\ UNCHANGED <<handlerVars, responseVars, after, failure, wireVars, sessionVars, metricVars, misused>>

\* BeforeCommit is refused once the response is committed.
BeforeCommit(hook) ==
    /\ pc = "handler"
    /\ ~wroteHeader
    /\ Len(hooks) <= MaxHooks
    /\ hooks' = Append(hooks, hook)
    /\ UNCHANGED <<handlerVars, pc, caller, next, status, wroteHeader, hijacked, after, failure,
                   wireVars, sessionVars, metricVars, historyVars>>

AfterResponse(hook) ==
    /\ pc = "handler"
    /\ Len(after) <= MaxHooks + 1
    /\ after' = Append(after, hook)
    /\ UNCHANGED <<handlerVars, pc, caller, next, responseVars, failure, wireVars, sessionVars,
                   metricVars, historyVars>>

\* The connection is taken over; net/http sends nothing any more.
Hijack ==
    /\ pc = "handler"
    /\ ~hijacked
    /\ hijacked' = TRUE
    /\ UNCHANGED <<handlerVars, pc, caller, next, status, wroteHeader, hooks, after, failure,
                   wireVars, sessionVars, metricVars, historyVars>>

\* The payload after a change, and the cookie for it; late keeps what the hook may read.
Store(value) ==
    /\ data' = value
    /\ pending' = EncodedCookie(value)
    /\ late' = IF pc = "commit" THEN late \union {EncodedCookie(value)} ELSE late

\* Set, Delete, AddFlash, Flashes or Destroy by the handler, before the commit.
ChangeSession ==
    /\ pc = "handler"
    /\ ~wroteHeader /\ ~locked
    /\ data < MaxChanges
    /\ Store(data + 1) \/ Store(Empty)
    /\ UNCHANGED <<handlerVars, pc, caller, next, responseVars, after, failure, wireVars,
                   locked, helper, metricVars, misused>>

HandlerPanics ==
    /\ pc = "handler"
    /\ caller' = "handler"
    /\ IF recovers
       THEN failure' = HTTPError(500) /\ pc' = "render" /\ UNCHANGED status
       ELSE Escape
    /\ UNCHANGED <<handlerVars, next, wroteHeader, hijacked, hooks, after, wireVars, sessionVars,
                   metricVars, historyVars>>

HandlerReturns(err) ==
    /\ pc = "handler"
    /\ failure' = err
    /\ pc' = IF err = NoError THEN "finish" ELSE "render"
    /\ UNCHANGED <<handlerVars, caller, next, responseVars, after, wireVars, sessionVars,
                   metricVars, historyVars>>

--------------------------------------------------------------------------------
\* session.change by the goroutine: a check, the lock, a second check, the new cookie.

HelperChecks ==
    /\ helper = "called"
    /\ helper' = IF wroteHeader THEN "refused" ELSE "locking"
    /\ UNCHANGED <<handlerVars, pc, caller, next, responseVars, after, failure, wireVars, data,
                   pending, locked, metricVars, historyVars>>

HelperLocks ==
    /\ helper = "locking"
    /\ ~locked
    /\ IF wroteHeader
       THEN helper' = "refused" /\ UNCHANGED locked
       ELSE helper' = "storing" /\ locked' = TRUE
    /\ UNCHANGED <<handlerVars, pc, caller, next, responseVars, after, failure, wireVars, data,
                   pending, metricVars, historyVars>>

HelperStores ==
    /\ helper = "storing"
    /\ Store(data + 1)
    /\ locked' = FALSE
    /\ helper' = "changed"
    /\ UNCHANGED <<handlerVars, pc, caller, next, responseVars, after, failure, wireVars,
                   metricVars, misused>>

--------------------------------------------------------------------------------
\* After the handler.

\* The default error handler; a committed response is left as it is.
RenderError ==
    /\ pc = "render"
    /\ ~custom
    /\ IF wroteHeader
       THEN pc' = "finish" /\ UNCHANGED <<caller, next, late>>
       ELSE BeginCommit(MapError(failure), "render")
    /\ UNCHANGED <<handlerVars, responseVars, after, failure, wireVars, sessionVars, metricVars, misused>>

\* An error handler of the application answers, does nothing or panics.
RenderCustom ==
    /\ pc = "render"
    /\ custom
    /\ \/ ~wroteHeader /\ BeginCommit(MapError(failure), "render")
       \/ pc' \in {"finish", "fallback"} /\ UNCHANGED <<caller, next, late>>
    /\ UNCHANGED <<handlerVars, responseVars, after, failure, wireVars, sessionVars, metricVars, misused>>

\* Faulty: the plain answer is written to the writer of net/http.
FallbackDirect ==
    /\ pc = "fallback"
    /\ IF wroteHeader
       THEN UNCHANGED <<status, wroteHeader, wire, sent>>
       ELSE status' = 500 /\ wroteHeader' = TRUE /\ wire' = 500 /\ sent' = None
    /\ pc' = "finish"
    /\ header' = None
    /\ UNCHANGED <<handlerVars, caller, next, hijacked, hooks, after, failure, sessionVars, metricVars, historyVars>>

\* renderErrorSafely after a panic: the header map is emptied and a plain 500 committed.
Fallback ==
    /\ pc = "fallback"
    /\ IF wroteHeader
       THEN pc' = "finish" /\ UNCHANGED <<caller, next, late, header>>
       ELSE BeginCommit(500, "fallback") /\ header' = None
    /\ UNCHANGED <<handlerVars, responseVars, after, failure, wire, sent, sessionVars, metricVars, misused>>

\* Nobody has answered: 200.
Finish ==
    /\ pc = "finish"
    /\ IF wroteHeader \/ hijacked
       THEN pc' = "after" /\ UNCHANGED <<caller, next, late>>
       ELSE BeginCommit(200, "final")
    /\ UNCHANGED <<handlerVars, responseVars, after, failure, wireVars, sessionVars, metricVars, misused>>

\* response.Status().
Status == IF status = 0 THEN 200 ELSE status

\* HTTPMetrics: the request is no longer active, and its status is counted.
Observe ==
    /\ active' = active - 1
    /\ observed' = Append(observed, Status)

\* Faulty: a hook that panics ends the loop.
RunAfterHookUntilPanic ==
    /\ pc = "after"
    /\ after # <<>>
    /\ after' = IF Head(after) = "panics" THEN <<>> ELSE Tail(after)
    /\ IF Head(after) = "metrics" THEN Observe ELSE UNCHANGED metricVars
    /\ UNCHANGED <<handlerVars, pc, caller, next, responseVars, failure, wireVars, sessionVars, historyVars>>

\* finishResponse runs the hooks one by one; a panic ends only its own hook.
RunAfterHook ==
    /\ pc = "after"
    /\ after # <<>>
    /\ after' = Tail(after)
    /\ IF Head(after) = "metrics" THEN Observe ELSE UNCHANGED metricVars
    /\ UNCHANGED <<handlerVars, pc, caller, next, responseVars, failure, wireVars, sessionVars, historyVars>>

\* The deferred cleanup, which runs after a panic too.
Done ==
    /\ pc = "after"
    /\ after = <<>>
    /\ pc' = "done"
    /\ stored' = FALSE
    /\ UNCHANGED <<configVars, bound, request, caller, next, responseVars, after, failure, wireVars,
                   sessionVars, metricVars, historyVars>>

Rest == pc = "done" /\ helper \in {"idle", "refused", "changed"} /\ UNCHANGED vars
--------------------------------------------------------------------------------
Next ==
    \/ CountActive \/ CheckOrigin \/ LoadSession \/ LoadSessionFails \/ CheckCaller
    \/ CheckToken \/ FindRoute \/ CheckGrants \/ BindRequest \/ Enter
    \/ \E code \in {101, 103, 200, 404} : WriteHeader(code)
    \/ \E hook \in {"plain", "writes", "panics"} : BeforeCommit(hook)
    \/ \E hook \in {"plain", "panics"} : AfterResponse(hook)
    \/ Hijack \/ ChangeSession \/ HandlerPanics
    \/ \E err \in Errors \union {NoError} : HandlerReturns(err)
    \/ RunHook \/ EndCommit
    \/ HelperChecks \/ HelperLocks \/ HelperStores
    \/ RenderError \/ RenderCustom \/ Fallback \/ Finish \/ RunAfterHook \/ Done
    \/ Rest

Spec == Init /\ [][Next]_vars

--------------------------------------------------------------------------------
\* Properties.

\* Where serveHTTP is: in the chain, in the handler, committing, and after the handler.
Chain == {"metrics", "cors", "session", "auth", "csrf", "dispatch", "guard", "entered", "bound"}
Places == Chain \union {"handler", "commit", "render", "fallback", "finish", "after", "done"}

\* Type correctness: statuses and cookies are what they are said to be, and the gauge of
\* the metrics is never taken below zero.
TypeOK ==
    /\ {recovers, custom, wroteHeader, hijacked, stored, locked} \subseteq BOOLEAN
    /\ request \in Requests \union {NoRequest}
    /\ pc \in Places
    /\ caller \in {"answer", "handler", "render", "fallback", "final"}
    /\ helper \in {"idle", "called", "locking", "storing", "refused", "changed"}
    /\ {next, status, wire, header, sent, data, pending, active} \subseteq Nat
    /\ hooks \in Seq({"session", "plain", "writes", "panics"})
    /\ after \in Seq({"metrics", "plain", "panics"})
    /\ observed \in Seq(Nat)
    /\ failure \in ErrorKind
    /\ DOMAIN bound = Fields
    /\ late \subseteq Nat /\ misused \subseteq {"written", "panicked"}

\* Whatever happens to a request, its end is recorded once and truly: the gauge is taken
\* back, one status is counted, and it is the status net/http was given.  There is one
\* unless the handler took the connection over or a panic escaped; and an error that the
\* default handler rendered is an error for the client too.  No temporary file of an
\* upload is left.  (A hook that writes a body makes net/http answer 200 behind the back
\* of the tracked response.)
RecordedTruly ==
    pc = "done" =>
        /\ active = 0 /\ Len(observed) = 1 /\ ~stored
        /\ wire = 0 => hijacked \/ observed = <<500>>
        /\ wire # 0 /\ "written" \notin misused =>
             /\ observed = <<wire>>
             /\ failure # NoError /\ ~custom /\ caller # "handler" => wire >= 400

\* A change of the session that was made before the commit began is in the cookie that
\* goes with the response, on every path to one, the rendering of an error after a panic
\* included; and so is the new seal of a cookie under an older key.  Only a hook that
\* panics, or writes itself, can lose it.
SessionIsSent ==
    pc \in {"after", "done"} /\ wire # 0 /\ misused = {} =>
        sent \in late

\* The sources that have a value for a field and may set it, and their ranks.
Rank == [json |-> 1, form |-> 1, cookie |-> 2, header |-> 3, query |-> 4, path |-> 5]

Givers(r, f) ==
    {source \in DOMAIN Rank :
        /\ r.values[source][f] # Absent
        /\ source \in Tags[f] \/ (source = "json" /\ Tags[f] = {})
        /\ source = "json" => r.contentType = "json"
        /\ source = "form" => r.contentType \in FormTypes}

\* The sites a request that changes state may come from.
Sites == IF TrustedOrigins = {} THEN {"own"} ELSE TrustedOrigins

\* A handler runs only for a caller with all grants; a request that may change state
\* reaches it only from a trusted site, with a token this server has signed; a preflight
\* and a request without a route never do.  What it is given is what the client sent: a
\* field has the value of the source that ranks highest, and a JSON body never sets a
\* field that names other sources.
OnlyAdmitted ==
    /\ pc \in {"entered", "bound"} =>
         /\ Required \subseteq request.grants
         /\ request.route = "found"
         /\ Preflight(request) => request.origin = "none"
         /\ request.method = "POST" =>
              /\ request.cookieToken \in Signed
              /\ request.cookieToken \in {request.headerToken, request.formToken}
              /\ \/ request.origin \in Sites
                 \/ request.origin = "none" /\ request.referer \in Sites
    /\ pc = "bound" => \A f \in Fields :
         LET givers == Givers(request, f)
         IN  IF givers = {} THEN bound[f] = Absent
             ELSE \E s \in givers : /\ bound[f] = request.values[s][f]
                                     /\ \A t \in givers : Rank[t] <= Rank[s]
================================================================================
