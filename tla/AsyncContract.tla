----------------------------- MODULE AsyncContract -----------------------------
(***************************************************************************)
(* What vial promises about an asynchronous operation, whichever executor  *)
(* runs it (async.go): an accepted operation is never forgotten, it moves  *)
(* only along the edges below, and a terminal status is final.  The        *)
(* in-memory executor delivers an operation at most once; a durable        *)
(* executor may take a running operation back and deliver it again.        *)
(*                                                                         *)
(* MemoryExecutor and PgExecutor are both shown to implement Spec.         *)
(***************************************************************************)
CONSTANTS
    Ops,        \* operation IDs
    Durable     \* TRUE iff the executor may redeliver an operation

VARIABLE status \* the status an AsyncExecutor reports for each operation

Terminal == {"succeeded", "failed", "cancelled"}

Status == {"absent", "pending", "running", "retrying"} \union Terminal

\* The statuses an operation may have after one step from status s.
Successors(s) ==
    CASE s = "absent"   -> {"absent", "pending"}
      [] s = "pending"  -> {"pending", "running", "cancelled"}
      [] s = "running"  -> {"running"} \union Terminal
                             \union IF Durable THEN {"retrying"} ELSE {}
      [] s = "retrying" -> {"retrying", "running", "cancelled"}
      [] OTHER          -> {s}

Init == status = [o \in Ops |-> "absent"]

\* One executor step may move several operations (a shutdown cancels them all).
Next == /\ status' \in [Ops -> Status]
        /\ \A o \in Ops : status'[o] \in Successors(status[o])

Spec == Init /\ [][Next]_status
================================================================================
