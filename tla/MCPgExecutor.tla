----------------------------- MODULE MCPgExecutor ------------------------------
(***************************************************************************)
(* Small instances of PgExecutor for TLC.                                  *)
(***************************************************************************)
EXTENDS PgExecutor

\* Every operation may be tried twice.
TwoAttempts == [o \in Ops |-> 2]
================================================================================
