------------------------------- MODULE MCServing -------------------------------
(***************************************************************************)
(* A small instance of Serving.                                            *)
(***************************************************************************)
EXTENDS Serving

\* A request that is let through, and others that differ from it in what one of the
\* middlewares, or Bind, looks at.
Cookie(sound, key, issued) == [sound |-> sound, key |-> key, issued |-> issued]
NoValues == [s \in DOMAIN Rank |-> [f \in Fields |-> Absent]]

Admitted ==
    [method |-> "GET", origin |-> "none", referer |-> "none", asksMethod |-> "none",
     asksHeaders |-> {}, session |-> Cookie(FALSE, "none", 0), caller |-> "known",
     grants |-> {"read", "write"}, cookieToken |-> "none", headerToken |-> "none",
     formToken |-> "none", loopback |-> TRUE, random |-> TRUE, route |-> "found",
     contentType |-> "none", body |-> "empty", valid |-> "yes", values |-> NoValues]

Origins == {"none", "own", "partner", "other"}
Tokens == {"none", "forged", "t1", "t2"}

Sessions == {[Admitted EXCEPT !.session = Cookie(sound, key, issued)] :
                sound \in BOOLEAN, key \in {"old", "current", "unknown"}, issued \in {0, 2, 3, 6, 7}}
Preflights == {[Admitted EXCEPT !.method = "OPTIONS", !.origin = o, !.asksMethod = m, !.asksHeaders = h] :
                  o \in Origins, m \in {"none", "POST", "DELETE"}, h \in SUBSET {"x"}}
Callers == {[Admitted EXCEPT !.caller = c] : c \in {"invalid", "failed", "unproven", "blank"}}
             \union {[Admitted EXCEPT !.caller = "none", !.grants = {}]}
             \union {[Admitted EXCEPT !.grants = g] : g \in SUBSET {"read", "write"}}
Posts == {[Admitted EXCEPT !.method = "POST", !.origin = o, !.referer = r, !.cookieToken = c,
                           !.headerToken = h, !.formToken = "t1", !.contentType = f] :
             o \in Origins, r \in {"none", "partner", "other"}, c \in Tokens,
             h \in Tokens, f \in {"form", "json"}}
Others == {[Admitted EXCEPT !.loopback = FALSE], [Admitted EXCEPT !.random = FALSE],
           [Admitted EXCEPT !.route = "missing"], [Admitted EXCEPT !.route = "method"]}

\* Every kind of body, with the token in the form; and what Validate may say.
Bodies == {[Admitted EXCEPT !.method = m, !.origin = "own", !.cookieToken = "t1", !.formToken = "t1",
                            !.headerToken = h, !.contentType = c, !.body = b] :
              m \in {"GET", "POST"}, h \in {"none", "t1"},
              c \in {"none", "bad", "json", "form", "multipart"},
              b \in {"empty", "values", "files", "large", "mistyped", "malformed", "two", "tail"}}
Judged == {[Admitted EXCEPT !.valid = v] : v \in {"plain", "conflict"}}

\* A field of the path that JSON may not set, one of several sources, one of JSON alone.
SomeFields == {"id", "name", "note"}
SomeTags == [id |-> {"path"}, name |-> {"json", "form", "header", "query"}, note |-> {}]
Values(j, f1, h, q, p) ==
    [json |-> [f \in SomeFields |-> j], form |-> [f \in SomeFields |-> f1],
     header |-> [f \in SomeFields |-> h], query |-> [f \in SomeFields |-> q],
     path |-> [f \in SomeFields |-> p], cookie |-> [f \in SomeFields |-> "c"]]
Bindings == {[Admitted EXCEPT !.contentType = c, !.body = "values", !.values = Values(j, f, h, q, p)] :
                c \in {"none", "json", "form"}, j \in {Absent, "j"}, f \in {Absent, "bad", "f"},
                h \in {Absent, "h"}, q \in {Absent, "bad", "q"}, p \in {Absent, "p"}}

AllRequests == Sessions \union Preflights \union Callers \union Posts \union Others
                 \union Bodies \union Judged \union Bindings

SomeErrors == {HTTPError(404), HTTPError(200), Plain, [NoError EXCEPT !.sentinel = "queue_full"],
               [NoError EXCEPT !.fault = "conflict", !.operation = TRUE]}

MCSessionKeys == <<"current", "old">>
================================================================================
