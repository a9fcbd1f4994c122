----------------------------- MODULE MCApplication -----------------------------
(* Application with two goroutines that register: routes and groups of the *)
(* application beside modules, one of which fails, repeats a name, or is   *)
(* late; and requests of clients behind a proxy and without one.           *)
EXTENDS Application

MCLabels == STRING

AppUse(m) == [op |-> "use", group |-> NoGroup, middleware |-> m]
UseIn(n, m) == [op |-> "use", group |-> n, middleware |-> m]
Create(n, parent, prefix) == [op |-> "group", group |-> n, parent |-> parent, prefix |-> prefix]
Endpoint(n, method, path, name, own) ==
    [op |-> "handle", group |-> n, method |-> method, path |-> path, name |-> name, middleware |-> own]
Plain(n, path) == Endpoint(n, "GET", path, "", <<>>)
Task(name) == [op |-> "go", name |-> name]

Option(name, value) == [name |-> name, value |-> value]
MCOptionLists ==
    {<<>>, <<Option("readHeaderTimeout", 20), Option("readTimeout", 30)>>, <<Option("maxBodySize", 0)>>,
     <<Option("readHeaderTimeout", 20)>>}

MCModules ==
    [users |-> [fails |-> FALSE, script |->
        <<Create("api", NoGroup, <<"users">>), UseIn("api", "u"), Plain("api", <<"">>), AppUse("m"),
          Task("users.sync"), [op |-> "onStart"]>>],
     broken |-> [fails |-> TRUE, script |-> <<Plain(NoGroup, <<"x">>)>>]]

Direct ==
    <<Endpoint(NoGroup, "GET", <<>>, "home", <<"own">>), Create("api", NoGroup, <<"api", "">>), UseIn("api", "g"),
      Create("v1", "api", <<"v1">>), UseIn("api", "h"), Plain("v1", <<"a">>), Plain("api", <<"b", "">>),
      AppUse("app"), [op |-> "async"]>>

MCScripts ==
    {[g1 |-> Direct, g2 |-> other] : other \in
        {<<[op |-> "register", modules |-> <<"users">>], [op |-> "onStop"]>>,
         <<[op |-> "register", modules |-> <<"users", "broken">>], [op |-> "async"]>>,
         <<[op |-> "register", modules |-> <<"users", "users">>]>>,
         <<Create("more", NoGroup, <<"api">>), Endpoint("more", "POST", <<"b">>, "home", <<>>),
           [op |-> "useHTTP", handler |-> "h"]>>,
         <<[op |-> "useHTTP", handler |-> "nil"], Task("tick")>>}}

Address(net, host, v6) == [net |-> net, host |-> host, v6 |-> v6]
Proxy == Address("proxy", 1, FALSE)
From(peer, forwarded, xff, real) == [peer |-> peer, forwarded |-> forwarded, xff |-> xff, real |-> real]

\* A client that forges a header, two of one network behind the proxy, a malformed chain.
MCArrivals ==
    LET direct == Address("a", 1, FALSE)
        one    == Address("six", 1, TRUE)
        two    == Address("six", 2, TRUE)
    IN  {From(direct, <<>>, <<one>>, <<>>), From(Proxy, <<>>, <<direct, one, Proxy>>, <<>>),
         From(Proxy, <<two>>, <<direct>>, <<>>), From(Proxy, <<>>, <<Bad>>, <<one>>)}

\* The limiter reads nothing of the registry but that requests are served, so what it does
\* is explored in one of the states in which registration and the first use are over.
Focus ==
    limiterVars' # limiterVars =>
        /\ log = <<>>
        /\ \A g \in Registrars : script[g] = <<>>
        /\ user = [request |-> "serve", run1 |-> "ran", run2 |-> "failed"]
================================================================================
