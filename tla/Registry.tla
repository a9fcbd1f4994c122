------------------------------- MODULE Registry -------------------------------
(***************************************************************************)
(* Registration and Build of an application (app.go, module.go, group.go,  *)
(* route.go): goroutines that register, requests and callers of Run that   *)
(* build it on first use.                                                  *)
(*                                                                         *)
(* A goroutine executes a script of operations.  Each is one critical      *)
(* section, except Register: it looks at the state, runs the modules on    *)
(* applications of their own, and takes the lock again to commit.  A path  *)
(* is the sequence of its segments, the last one empty if it ends with a   *)
(* slash; NoGroup stands for the application itself where a group may.     *)
(***************************************************************************)
EXTENDS Integers, Sequences, SequencesExt

CONSTANTS
    Labels,      \* names, methods, segments of paths and middleware
    Groups,      \* the variables that hold a *Group
    OptionLists, \* the options that New may be given: sequences of [name, value]
    Registrars,  \* the goroutines that register
    Scripts,     \* what they do: a set of [Registrars -> Seq(operation)]
    Modules,     \* the modules: [name -> [script, fails]]
    Users,       \* requests and callers of Run
    RunCallers   \* the users that call Run

VARIABLES
    config,      \* app.config
    script,      \* the operations a goroutine has left; <<>> after a panic
    checked,     \* a goroutine is inside Register, past its first look at the state
    app,         \* what has been registered
    state,       \* app.state: "registering" (or created), "built", "starting"
    buildErr,    \* app.buildErr is not nil
    built,       \* app.built
    compiled,    \* the routes with their chains, as they are served
    user,        \* where a user is: "load", "build", "serve", "listen", "run", "failed", "ran"
    listening,   \* the callers of Run whose listener is open
    started,     \* what runLifecycle has copied
    log          \* history: the operations that have been accepted

appVars == <<config, script, checked, app, state, buildErr, built, compiled, listening, started, log>>
registryVars == <<appVars, user>>

--------------------------------------------------------------------------------
\* What a program may ask for.

NoGroup == ""
Owners == Groups \union {NoGroup}

\* The mux refuses a pattern with an empty segment elsewhere than at the end.
Paths == {path \in Seq(Labels) : \A i \in 1..(Len(path) - 1) : path[i] # ""}

\* A Registrar has neither UseHTTP nor Async nor Register.
ModuleOperations ==
    [op: {"use"}, group: Owners, middleware: Labels] \union
    [op: {"handle"}, group: Owners, method: Labels, path: Paths, name: Labels, middleware: Seq(Labels)] \union
    [op: {"group"}, group: Groups, parent: Owners, prefix: Paths] \union
    [op: {"go"}, name: Labels] \union
    [op: {"onStart", "onStop"}]

Operations ==
    ModuleOperations \union [op: {"useHTTP"}, handler: Labels] \union [op: {"async"}] \union
    [op: {"register"}, modules: Seq(DOMAIN Modules)]

ASSUME LabelsAssumption == "" \in Labels /\ DOMAIN Modules \subseteq Labels
ASSUME GroupsAssumption == NoGroup \notin Groups
ASSUME ScriptsAssumption == Scripts \subseteq [Registrars -> Seq(Operations)]
ASSUME ModulesAssumption ==
    \A m \in DOMAIN Modules : Modules[m].fails \in BOOLEAN /\ Modules[m].script \in Seq(ModuleOperations)

\* Group.Group reads a group without the lock of the application: a program that has no data
\* race uses a group, though not the application, in one goroutine.
GroupsOf(o) ==
    (IF o.op \in {"use", "handle"} THEN {o.group} ELSE IF o.op = "group" THEN {o.group, o.parent} ELSE {}) \ {NoGroup}

ASSUME RaceAssumption ==
    \A scripts \in Scripts : \A g, h \in Registrars : \A i \in DOMAIN scripts[g], j \in DOMAIN scripts[h] :
        GroupsOf(scripts[g][i]) \intersect GroupsOf(scripts[h][j]) # {} => g = h

--------------------------------------------------------------------------------

\* The options.  One with a value that its field cannot have is remembered and changes
\* nothing; nil is 0, as is an address that does not parse (WithTrustedProxies is an option
\* for each of its values).  Only the settings that validate compares are kept.
DefaultConfig == [readHeaderTimeout |-> 5, readTimeout |-> 15, errors |-> 0]

Refuses(option) ==
    IF option.name \in {"readHeaderTimeout", "readTimeout", "writeTimeout", "idleTimeout"}
    THEN option.value < 0 ELSE option.name # "disallowUnknownJSONFields" /\ option.value <= 0

With(cfg, option) ==
    IF Refuses(option) THEN [cfg EXCEPT !.errors = @ + 1]
    ELSE IF option.name \in DOMAIN cfg THEN [cfg EXCEPT ![option.name] = option.value] ELSE cfg

ValidConfig(cfg) ==
    cfg.errors = 0 /\ (cfg.readTimeout > 0 => cfg.readHeaderTimeout <= cfg.readTimeout)

\* A group that does not add anything yet.
Root == [prefix |-> <<>>, middleware |-> <<>>]

NewApp ==
    [middleware |-> <<>>, http |-> <<>>, routes |-> <<>>, modules |-> <<>>, groups |-> [n \in Groups |-> Root],
     startHooks |-> 0, stopHooks |-> 0, tasks |-> <<>>, async |-> 0]

Nothing == [none |-> TRUE]

RegistryInit ==
    /\ \E options \in OptionLists : config = FoldLeft(With, DefaultConfig, options)
    /\ script \in Scripts
    /\ checked = [g \in Registrars |-> FALSE]
    /\ app = NewApp
    /\ state = "registering"
    /\ buildErr = FALSE
    /\ built = FALSE
    /\ compiled = <<>>
    /\ user = [u \in Users |-> IF u \in RunCallers THEN "build" ELSE "load"]
    /\ listening = {}
    /\ started = Nothing
    /\ log = <<>>

Mutable == state = "registering"

--------------------------------------------------------------------------------
\* The operations, on the application or on the private one of a module.

NormalizePath(path) == IF path = <<>> THEN <<"">> ELSE path

TrimSlash(path) == IF path # <<>> /\ Last(path) = "" THEN Front(path) ELSE path

NormalizeGroupPrefix(prefix) == TrimSlash(NormalizePath(prefix))

JoinPath(prefix, path) ==
    IF prefix \in {<<>>, <<"">>} THEN NormalizePath(path) ELSE TrimSlash(prefix) \o path

\* newRouteDefinition: the options are the name, if any, and the route's own middleware.
Route(o, path, middleware) ==
    [method |-> o.method, path |-> path, name |-> o.name, module |-> "",
     middleware |-> middleware \o o.middleware]

AddRoute(a, route) == [a EXCEPT !.routes = Append(@, route)]

Use(a, o) == [a EXCEPT !.middleware = Append(@, o.middleware)]

UseHTTP(a, o) == [a EXCEPT !.http = Append(@, o.handler)]

Handle(a, o) == AddRoute(a, Route(o, NormalizePath(o.path), <<>>))

\* App.Group and Group.Group: a nested group starts with a copy of its parent's chain.
NewGroup(a, o) ==
    LET parent == IF o.parent = NoGroup THEN Root ELSE a.groups[o.parent]
    IN  [a EXCEPT !.groups[o.group] = [parent EXCEPT !.prefix = NormalizeGroupPrefix(JoinPath(@, o.prefix))]]

GroupUse(a, o) == [a EXCEPT !.groups[o.group].middleware = Append(@, o.middleware)]

GroupHandle(a, o) ==
    LET group == a.groups[o.group] IN AddRoute(a, Route(o, JoinPath(group.prefix, o.path), group.middleware))

OnStart(a) == [a EXCEPT !.startHooks = @ + 1]
OnStop(a)  == [a EXCEPT !.stopHooks = @ + 1]

\* App.Go, and Registrar.Go, which puts the name of the module in front.
Go(a, o) == [a EXCEPT !.tasks = Append(@, o.name)]

\* A second executor panics.
Async(a) == [a EXCEPT !.async = 1]

Apply(a, o) ==
    CASE o.op = "use"     -> IF o.group = NoGroup THEN Use(a, o) ELSE GroupUse(a, o)
      [] o.op = "useHTTP" -> UseHTTP(a, o)
      [] o.op = "handle"  -> IF o.group = NoGroup THEN Handle(a, o) ELSE GroupHandle(a, o)
      [] o.op = "group"   -> NewGroup(a, o)
      [] o.op = "onStart" -> OnStart(a)
      [] o.op = "onStop"  -> OnStop(a)
      [] o.op = "go"      -> Go(a, o)
      [] o.op = "async"   -> Async(a)

Applied(ops) ==
    LET after[i \in 0..Len(ops)] == IF i = 0 THEN NewApp ELSE Apply(after[i - 1], ops[i])
    IN  after[Len(ops)]

\* Registrar.close: the middleware of the module comes before that of its routes.
OfModule(route, m, before) == [route EXCEPT !.module = m, !.middleware = before \o @]

Stage(m) ==
    LET own == Applied(Modules[m].script)
    IN  [own EXCEPT !.routes = [i \in DOMAIN @ |-> OfModule(@[i], m, own.middleware)]]

--------------------------------------------------------------------------------
\* The goroutines that register.

Advance(g) == script' = [script EXCEPT ![g] = Tail(@)]

\* Every operation but Register; ensureMutableLocked panics when the application is built.
Registers(g) ==
    /\ script[g] # <<>>
    /\ LET o == Head(script[g])
       IN  /\ o.op # "register"
           /\ IF (Mutable \/ o.op = "group") /\ ~(o.op = "async" /\ app.async = 1)
              THEN app' = Apply(app, o) /\ log' = Append(log, o) /\ Advance(g)
              ELSE script' = [script EXCEPT ![g] = <<>>] /\ UNCHANGED <<app, log>>
    /\ UNCHANGED <<config, checked, state, buildErr, built, compiled, user, listening, started>>

\* Register looks at the state and runs the modules; an error of one ends it.
RegisterStages(g) ==
    /\ script[g] # <<>>
    /\ Head(script[g]).op = "register"
    /\ ~checked[g]
    /\ IF Mutable /\ \A i \in DOMAIN Head(script[g]).modules : ~Modules[Head(script[g]).modules[i]].fails
       THEN checked' = [checked EXCEPT ![g] = TRUE] /\ UNCHANGED script
       ELSE Advance(g) /\ UNCHANGED checked
    /\ UNCHANGED <<config, app, state, buildErr, built, compiled, user, listening, started, log>>

Join(a, m) ==
    LET staged == Stage(m)
    IN  [a EXCEPT !.routes = @ \o staged.routes, !.modules = Append(@, m),
                  !.startHooks = @ + staged.startHooks, !.stopHooks = @ + staged.stopHooks,
                  !.tasks = @ \o staged.tasks]

Joined(a, modules) ==
    LET joined[i \in 0..Len(modules)] == IF i = 0 THEN a ELSE Join(joined[i - 1], modules[i])
    IN  joined[Len(modules)]

\* Faulty: the state is not looked at again under the lock.
RegisterCommitsStale(g) ==
    /\ checked[g]
    /\ checked' = [checked EXCEPT ![g] = FALSE]
    /\ LET o == Head(script[g])
       IN  /\ app' = Joined(app, o.modules)
           /\ log' = Append(log, o)
    /\ Advance(g)
    /\ UNCHANGED <<config, state, buildErr, built, compiled, user, listening, started>>

\* Under the lock the state is looked at again; the modules are added together.
RegisterCommits(g) ==
    /\ checked[g]
    /\ checked' = [checked EXCEPT ![g] = FALSE]
    /\ LET o == Head(script[g])
       IN  IF Mutable
           THEN /\ app' = Joined(app, o.modules)
                /\ log' = Append(log, o)
           ELSE UNCHANGED <<app, log>>
    /\ Advance(g)
    /\ UNCHANGED <<config, state, buildErr, built, compiled, user, listening, started>>

--------------------------------------------------------------------------------
\* Build and its users.

\* Names of modules, tasks and routes, and the patterns of the mux, are unique; standard
\* middleware may return a nil handler.  The names and methods of scripts are well-formed.
Named(routes) == SelectSeq(routes, LAMBDA r : r.name # "")

Valid(a) ==
    /\ ValidConfig(config)
    /\ IsInjective(a.modules)
    /\ IsInjective(a.tasks)
    /\ IsInjective([i \in DOMAIN Named(a.routes) |-> Named(a.routes)[i].name])
    /\ IsInjective([i \in DOMAIN a.routes |-> <<a.routes[i].method, a.routes[i].path>>])
    /\ "nil" \notin ToSet(a.http)

\* The chain of a route: the application's middleware, then the route's.
Compile(a) == [i \in DOMAIN a.routes |-> [route |-> a.routes[i], chain |-> a.middleware \o a.routes[i].middleware]]

\* Build freezes the application before it validates it, and answers the same from then on.
Build ==
    IF Mutable
    THEN /\ state' = "built"
         /\ buildErr' = ~Valid(app)
         /\ built' = Valid(app)
         /\ compiled' = IF Valid(app) THEN Compile(app) ELSE compiled
    ELSE UNCHANGED <<state, buildErr, built, compiled>>

\* ServeHTTP, URL: the flag is read without the lock.
Loads(u) ==
    /\ user[u] = "load"
    /\ user' = [user EXCEPT ![u] = IF built THEN "serve" ELSE "build"]
    /\ UNCHANGED appVars

Builds(u) ==
    /\ user[u] = "build"
    /\ Build
    /\ user' = [user EXCEPT ![u] = IF buildErr' THEN "failed" ELSE IF u \in RunCallers THEN "listen" ELSE "serve"]
    /\ UNCHANGED <<config, script, checked, app, listening, started, log>>

\* Run: the address may be taken.
Listens(u) ==
    /\ user[u] = "listen"
    /\ \E ok \in BOOLEAN :
         /\ listening' = IF ok THEN listening \union {u} ELSE listening
         /\ user' = [user EXCEPT ![u] = IF ok THEN "run" ELSE "failed"]
    /\ UNCHANGED <<config, script, checked, app, state, buildErr, built, compiled, started, log>>

\* What runLifecycle copies under the lock.
Registered ==
    [startHooks |-> app.startHooks, stopHooks |-> app.stopHooks, tasks |-> app.tasks, async |-> app.async]

\* Serve and the beginning of runLifecycle: an application is run once; Serve closes the
\* listener whenever it returns.
Runs(u) ==
    /\ user[u] = "run"
    /\ IF state = "built"
       THEN /\ state' = "starting"
            /\ started' = Registered
            /\ user' = [user EXCEPT ![u] = "ran"]
            /\ UNCHANGED listening
       ELSE /\ user' = [user EXCEPT ![u] = "failed"]
            /\ listening' = listening \ {u}
            /\ UNCHANGED <<state, started>>
    /\ UNCHANGED <<config, script, checked, app, buildErr, built, compiled, log>>

--------------------------------------------------------------------------------
Register(g) == Registers(g) \/ RegisterStages(g) \/ RegisterCommits(g)

FirstUse(u) == Loads(u) \/ Builds(u) \/ Listens(u) \/ Runs(u)

--------------------------------------------------------------------------------
\* What a sequence of operations asks for.

\* Added(ops, n, j)[i]: the middleware that the operations after j, up to i, add to n.
Added(ops, n, j) ==
    LET added[i \in 0..Len(ops)] ==
            IF i <= j THEN <<>>
            ELSE IF ops[i].op = "use" /\ ops[i].group = n THEN Append(added[i - 1], ops[i].middleware)
            ELSE added[i - 1]
    IN  added

\* Where n was last created before i.
Made(ops, n, i) == Max({0} \union {j \in 1..(i - 1) : ops[j].op = "group" /\ ops[j].group = n})

\* What a route registered at i through n is given: what the group had when it was created,
\* of which scopes tells, and what was added to it since.
Inherited(scopes, ops, n, i) ==
    LET j == Made(ops, n, i)
    IN  IF n = NoGroup THEN Root
        ELSE [prefix |-> scopes[j].prefix, middleware |-> scopes[j].middleware \o Added(ops, n, j)[i - 1]]

\* Scopes(ops)[i]: the prefixes of the group created at i and of those around it, and the
\* middleware that those had by then.
Scopes(ops) ==
    LET scopes[i \in 0..Len(ops)] ==
            IF i = 0 \/ ops[i].op # "group" THEN Root
            ELSE [Inherited(scopes, ops, ops[i].parent, i) EXCEPT !.prefix = @ \o TrimSlash(ops[i].prefix)]
    IN  scopes

RouteAt(ops, i) ==
    LET scope == Inherited(Scopes(ops), ops, ops[i].group, i)
    IN  [method |-> ops[i].method, name |-> ops[i].name, path |-> NormalizePath(scope.prefix \o ops[i].path),
         chain |-> scope.middleware \o ops[i].middleware]

At(ops, op) == {i \in DOMAIN ops : ops[i].op = op}

OwnRoutes(ops) == {RouteAt(ops, i) : i \in At(ops, "handle")}
OwnTasks(ops) == {ops[i].name : i \in At(ops, "go")}
Uses(ops) == Added(ops, NoGroup, 0)[Len(ops)]

Behind(before, routes) == {[r EXCEPT !.chain = before \o @] : r \in routes}

\* With those of the modules that ops register.
ModulesOf(ops) == UNION {ToSet(ops[i].modules) : i \in At(ops, "register")}

AllRoutes(ops) ==
    OwnRoutes(ops) \union
    UNION {Behind(Uses(Modules[m].script), OwnRoutes(Modules[m].script)) : m \in ModulesOf(ops)}

AllTasks(ops) == OwnTasks(ops) \union UNION {OwnTasks(Modules[m].script) : m \in ModulesOf(ops)}

\* A route as it is served.
Served(c) == [method |-> c.route.method, name |-> c.route.name, path |-> c.route.path, chain |-> c.chain]

\* However registration and the first use interleave, what is served and run is what was
\* accepted: every route that a goroutine or a module registered without being refused,
\* under its full path and behind the middleware of the application, its module and its
\* group at that time, and nothing of a module that failed or came too late; the tasks and
\* hooks of the same operations.  It runs once, and a Run that is refused leaves no
\* listener behind.
ServedAsRegistered ==
    /\ built => {Served(c) : c \in ToSet(compiled)} = Behind(Uses(log), AllRoutes(log))
    /\ started # Nothing => built /\ started = Registered /\ ToSet(started.tasks) = AllTasks(log)
    /\ \A u, v \in Users : user[u] = "ran" /\ user[v] = "ran" => u = v
    /\ \A u \in listening : user[u] \in {"run", "ran"}
================================================================================
