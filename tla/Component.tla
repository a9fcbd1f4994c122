------------------------------- MODULE Component -------------------------------
(***************************************************************************)
(* What runLifecycle is promised by a lifecycleComponent (lifecycle.go):   *)
(* Start, Done and Shutdown, of which the lifecycle calls Start and        *)
(* Shutdown at most once.  A nil from Shutdown is to be trusted, and a     *)
(* Shutdown whose deadline has not passed waits for the work to end.       *)
(*                                                                         *)
(* Lifecycle has one component of this kind for each index; TaskSupervisor *)
(* and MemoryExecutor implement it.                                        *)
(***************************************************************************)

CONSTANT
    Notifies  \* TRUE for a Shutdown that returns only after something was sent on Done

VARIABLES
    work,    \* "new", "working" or "stopped"
    signal,  \* what was sent on the channel of Done: "none", "nil" or "error"
    answer,  \* what Shutdown has returned: "none", "nil" or "error"
    late     \* the context given to Shutdown has ended

vars == <<work, signal, answer, late>>

Answers == {"nil", "error"}

Init ==
    /\ work = "new"
    /\ signal = "none"
    /\ answer = "none"
    /\ late = FALSE

\* A Start that succeeds.
Start ==
    /\ work = "new"
    /\ work' = "working"
    /\ UNCHANGED <<signal, answer, late>>

\* The work ends: by itself, when its context does, or after a Shutdown that expired.
End ==
    /\ work = "working"
    /\ work' = "stopped"
    /\ UNCHANGED <<signal, answer, late>>

\* The only send on Done.  It may precede the end of the work: the failure of one part
\* is sent while others still run.
Signal(a) ==
    /\ work # "new"
    /\ signal = "none"
    /\ signal' = a
    /\ UNCHANGED <<work, answer, late>>

DeadlinePasses ==
    /\ ~late
    /\ late' = TRUE
    /\ UNCHANGED <<work, signal, answer>>

\* Shutdown returns.
Return(a) ==
    /\ work # "new"
    /\ answer = "none"
    /\ a = "nil" => work = "stopped"
    /\ work = "stopped" \/ late
    /\ Notifies => signal # "none"
    /\ answer' = a
    /\ UNCHANGED <<work, signal, late>>

Next ==
    \/ Start
    \/ End
    \/ DeadlinePasses
    \/ \E a \in Answers : Signal(a) \/ Return(a)

Spec == Init /\ [][Next]_vars
================================================================================
