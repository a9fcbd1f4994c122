------------------------------ MODULE Application ------------------------------
(***************************************************************************)
(* What concurrent requests share before they reach a handler: the         *)
(* application that the first of them builds while goroutines are still    *)
(* registering, and the rate limiter, which is part of its chain.          *)
(***************************************************************************)
EXTENDS Registry, RateLimiter

allVars == <<registryVars, limiterVars>>

AppInit == RegistryInit /\ LimiterInit

InService == \E u \in Users : user[u] = "serve"

\* Everybody is done.
AllDone ==
    /\ \A g \in Registrars : script[g] = <<>>
    /\ \A u \in Users : user[u] \in {"serve", "failed", "ran"}
    /\ InService => arrived = MaxArrivals /\ \A c \in Clients : turn[c] = "away"
    /\ UNCHANGED allVars

\* Requests reach the middleware once the application is built.
AppNext ==
    \/ /\ \/ \E g \in Registrars : Register(g)
          \/ \E u \in Users : FirstUse(u)
       /\ UNCHANGED limiterVars
    \/ /\ InService
       /\ \E c \in Clients : Limit(c)
       /\ UNCHANGED registryVars
    \/ TimePasses /\ UNCHANGED registryVars
    \/ AllDone

AppSpec == AppInit /\ [][AppNext]_allVars
================================================================================
