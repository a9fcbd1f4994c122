------------------------------- MODULE Migrator -------------------------------
(***************************************************************************)
(* Replicas that migrate one database at the same time (sqlkit): a session *)
(* lock, the table of applied versions, and one transaction for each file. *)
(* Processes crash, statements fail, answers are lost, and the database    *)
(* ends sessions; a session's end rolls its transaction back and frees its *)
(* lock.                                                                   *)
(*                                                                         *)
(* A statement whose answer is lost is carried out at once or never: until *)
(* the database has noticed that its client is gone the session keeps the  *)
(* lock, and nobody else looks.  A file is its name and its checksum, 0    *)
(* for one that is misnamed, unreadable or empty.                          *)
(***************************************************************************)
EXTENDS Naturals, Sequences, SequencesExt

CONSTANTS
    Processes,    \* the replicas
    Names,        \* the names of migrations
    Deployments,  \* the files that each replica may have: a set of [Processes -> Seq(File)]
    Ddl,          \* the files whose statements MySQL commits by itself
    MaxRuns       \* bound: how often Migrate is called

File == [name : Names, sum : Nat]

ASSUME MaxRunsAssumption == MaxRuns \in Nat \ {0}
ASSUME DeploymentsAssumption == \A d \in Deployments : d \in [Processes -> Seq(File)]

Sessions == 1..MaxRuns
Nobody == 0
NoWork == [effect |-> {}, record |-> {}]

VARIABLES
    dialect,   \* migrator.dialect: "postgres" or "mysql"
    files,     \* migrator.source, in the order of names
    session,   \* each session: "none", "open", "left" (its client is gone) or "ended"
    owner,     \* the session that holds the lock
    work,      \* what the open transaction of a session has done
    records,   \* vial_schema_migrations: pairs of a name and a checksum
    effects,   \* how often the statements of each file have been committed
    pc,        \* where Migrate is
    runs,      \* how often Migrate has been called
    connection,\* the session each replica uses, or has in its pool; 0: none
    applied,   \* what migrator.applied has read
    index,     \* the position in files
    result     \* what Migrate has returned: "none" yet, "nil" or "error"

dbVars   == <<session, owner, work, records, effects>>
procVars == <<pc, runs, connection, applied, index, result>>
vars == <<dialect, files, dbVars, procVars>>

Init ==
    /\ dialect \in {"postgres", "mysql"}
    /\ files \in Deployments
    /\ session = [s \in Sessions |-> "none"]
    /\ owner = Nobody
    /\ work = [s \in Sessions |-> NoWork]
    /\ records = {}
    /\ effects = [n \in Names |-> 0]
    /\ pc = [p \in Processes |-> "idle"]
    /\ runs = 0
    /\ connection = [p \in Processes |-> 0]
    /\ applied = [p \in Processes |-> {}]
    /\ index = [p \in Processes |-> 1]
    /\ result = [p \in Processes |-> "none"]

\* Every statement goes over the session that took the lock, and fails when it is lost.
Usable(p) == session[connection[p]] = "open"

--------------------------------------------------------------------------------
\* The database.

\* The end of sessions: of those whose client is gone, and of any other at any time.
End(s) ==
    /\ session' = [session EXCEPT ![s] = "ended"]
    /\ owner' = IF owner = s THEN Nobody ELSE owner
    /\ work' = [work EXCEPT ![s] = NoWork]
    /\ UNCHANGED <<dialect, files, records, effects, procVars>>

NoticesClientGone(s) == session[s] = "left" /\ End(s)

KillsSession(s) ==
    /\ session[s] = "open"
    /\ \E p \in Processes : connection[p] = s /\ pc[p] # "idle"
    /\ End(s)

Applies(names) == [n \in Names |-> IF n \in names THEN effects[n] + 1 ELSE effects[n]]

--------------------------------------------------------------------------------
\* Migrate.

\* How a statement of p ends: "done", "refused" (not carried out, also because the
\* context has ended) or "lost": carried out or not, and the connection is broken.
Statement(p, outcome, Carries, Leaves) ==
    \/ /\ outcome = "done" /\ Usable(p)
       /\ Carries
       /\ UNCHANGED session
    \/ /\ outcome = "refused"
       /\ Leaves
       /\ UNCHANGED session
    \/ /\ outcome = "lost" /\ Usable(p)
       /\ Carries \/ Leaves
       /\ session' = [session EXCEPT ![connection[p]] = IF @ = "open" THEN "left" ELSE @]

\* Migrate has returned; its locals are gone.
Forgets(p) ==
    /\ applied' = [applied EXCEPT ![p] = {}]
    /\ index' = [index EXCEPT ![p] = 1]

Goes(p, outcome, next, error) ==
    /\ pc' = [pc EXCEPT ![p] = IF outcome = "done" THEN next ELSE error]
    /\ result' = [result EXCEPT ![p] = IF outcome = "done" THEN @ ELSE "error"]

\* database.Conn: a session of the pool, or a new one.
Connect(p) ==
    /\ pc[p] = "idle"
    /\ runs < MaxRuns
    /\ runs' = runs + 1
    /\ \E s \in {runs + 1} \union {i \in {connection[p]} \ {0} : session[i] = "open"} :
         /\ connection' = [connection EXCEPT ![p] = s]
         /\ session' = [session EXCEPT ![s] = "open"]
    /\ pc' = [pc EXCEPT ![p] = "lock"]
    /\ result' = [result EXCEPT ![p] = "nil"]
    /\ UNCHANGED <<dialect, files, owner, work, records, effects, applied, index>>

\* discardConnection: the session is not put back into the pool.
Discard(p) == session' = [session EXCEPT ![connection[p]] = IF @ = "open" THEN "left" ELSE @]

\* PostgreSQL waits for the lock, MySQL is asked again and again; an error, or a NULL of
\* GET_LOCK, discards the connection, which may hold the lock by then.
Lock(p, outcome) ==
    /\ pc[p] = "lock"
    /\ \/ /\ outcome = "done" /\ Usable(p)
          /\ owner \in {Nobody, connection[p]}
          /\ owner' = connection[p]
          /\ UNCHANGED session
       \/ /\ outcome = "lost"
          /\ UNCHANGED owner \/ (owner = Nobody /\ Usable(p) /\ owner' = connection[p])
          /\ Discard(p)
    /\ Goes(p, outcome, "create", "idle")
    /\ UNCHANGED <<dialect, files, work, records, effects, runs, connection, applied, index>>

\* createMigrationsTable and migrator.applied.
ReadApplied(p, outcome) ==
    /\ pc[p] = "create"
    /\ Statement(p, outcome, TRUE, TRUE)
    /\ applied' = IF outcome = "done" THEN [applied EXCEPT ![p] = records] ELSE applied
    /\ Goes(p, outcome, "file", "unlock")
    /\ UNCHANGED <<dialect, files, owner, work, records, effects, runs, connection, index>>

\* Faulty: a recorded file is passed over whatever its checksum.
NextFileUnverified(p) ==
    /\ pc[p] = "file"
    /\ LET file == files[p][index[p]]
       IN  IF index[p] > Len(files[p]) THEN Goes(p, "done", "unlock", "unlock") /\ UNCHANGED index
           ELSE IF file.sum # 0 /\ \E r \in applied[p] : r[1] = file.name
                THEN index' = [index EXCEPT ![p] = @ + 1] /\ UNCHANGED <<pc, result>>
                ELSE Goes(p, IF file.sum = 0 THEN "refused" ELSE "done", "begin", "unlock")
                     /\ UNCHANGED index
    /\ UNCHANGED <<dialect, files, dbVars, runs, connection, applied>>

\* The loop over the files: one that was applied is passed over if it has not changed.
NextFile(p) ==
    /\ pc[p] = "file"
    /\ IF index[p] > Len(files[p])
       THEN Goes(p, "done", "unlock", "unlock") /\ UNCHANGED index
       ELSE LET file  == files[p][index[p]]
                known == {r \in applied[p] : r[1] = file.name}
                same  == known = {<<file.name, file.sum>>}
            IN  IF file.sum # 0 /\ same
                THEN index' = [index EXCEPT ![p] = @ + 1] /\ UNCHANGED <<pc, result>>
                ELSE Goes(p, IF file.sum = 0 \/ known # {} THEN "refused" ELSE "done", "begin", "unlock")
                     /\ UNCHANGED index
    /\ UNCHANGED <<dialect, files, dbVars, runs, connection, applied>>

Begin(p, outcome) ==
    /\ pc[p] = "begin"
    /\ Statement(p, outcome, TRUE, TRUE)
    /\ Goes(p, outcome, "script", "unlock")
    /\ UNCHANGED <<dialect, files, owner, work, records, effects, runs, connection, applied, index>>

\* Whether MySQL commits the statements of a file by itself, and its record with them.
Implicit(name) == dialect = "mysql" /\ name \in Ddl

\* The statements of the file.  What MySQL has committed stays, whatever the answer.
Execute(p, outcome) ==
    LET name == files[p][index[p]].name
        Carries == IF Implicit(name) THEN effects' = Applies({name}) /\ UNCHANGED work
                   ELSE work' = [work EXCEPT ![connection[p]].effect = {name}] /\ UNCHANGED effects
        Leaves == UNCHANGED <<work, effects>>
    IN  /\ pc[p] = "script"
        /\ Statement(p, outcome, Carries, Leaves \/ (Usable(p) /\ Implicit(name) /\ Carries))
        /\ Goes(p, outcome, "record", "rollback")
        /\ UNCHANGED <<dialect, files, owner, records, runs, connection, applied, index>>

\* The INSERT, which the primary key refuses when the version is there.
Record(p, outcome) ==
    LET file == files[p][index[p]]
        Carries == /\ ~\E r \in records : r[1] = file.name
                   /\ IF Implicit(file.name)
                      THEN records' = records \union {<<file.name, file.sum>>} /\ UNCHANGED work
                      ELSE /\ work' = [work EXCEPT ![connection[p]].record = {<<file.name, file.sum>>}]
                           /\ UNCHANGED records
    IN  /\ pc[p] = "record"
        /\ Statement(p, outcome, Carries, UNCHANGED <<work, records>>)
        /\ Goes(p, outcome, "commit", "rollback")
        /\ UNCHANGED <<dialect, files, owner, effects, runs, connection, applied, index>>

\* The transaction of a file ends; a commit that fails has rolled it back.
Commit(p, outcome) ==
    LET s == connection[p]
        Carries == /\ records' = records \union work[s].record
                   /\ effects' = Applies(work[s].effect)
    IN  /\ pc[p] = "commit"
        /\ Statement(p, outcome, Carries, UNCHANGED <<records, effects>>)
        /\ work' = [work EXCEPT ![s] = NoWork]
        /\ Goes(p, outcome, "file", "unlock")
        /\ index' = IF outcome = "done" THEN [index EXCEPT ![p] = @ + 1] ELSE index
        /\ UNCHANGED <<dialect, files, owner, runs, connection, applied>>

\* A rollback that fails is reported with the error; the driver drops the connection.
Rollback(p, outcome) ==
    /\ pc[p] = "rollback"
    /\ \/ outcome = "done" /\ Usable(p) /\ UNCHANGED session
       \/ outcome = "lost" /\ Discard(p)
    /\ work' = [work EXCEPT ![connection[p]] = NoWork]
    /\ pc' = [pc EXCEPT ![p] = "unlock"]
    /\ UNCHANGED <<dialect, files, owner, records, effects, runs, connection, applied, index, result>>

\* Faulty: a session whose lock could not be released goes back into the pool.
UnlockAndKeep(p, outcome) ==
    /\ pc[p] = "unlock"
    /\ owner' = IF outcome = "done" /\ owner = connection[p] THEN Nobody ELSE owner
    /\ outcome = "done" => Usable(p)
    /\ Goes(p, outcome, "idle", "idle")
    /\ Forgets(p)
    /\ UNCHANGED <<dialect, files, session, work, records, effects, runs, connection>>

\* The lock is released under a context of its own, and the connection goes back into the
\* pool; when that fails it is discarded.
Unlock(p, outcome) ==
    /\ pc[p] = "unlock"
    /\ \/ /\ outcome = "done" /\ Usable(p)
          /\ owner' = IF owner = connection[p] THEN Nobody ELSE owner
          /\ UNCHANGED session
       \/ outcome = "lost" /\ Discard(p) /\ UNCHANGED owner
    /\ Goes(p, outcome, "idle", "idle")
    /\ Forgets(p)
    /\ UNCHANGED <<dialect, files, work, records, effects, runs, connection>>

\* The process dies and is started again.
Crash(p) ==
    /\ pc[p] # "idle"
    /\ Discard(p)
    /\ pc' = [pc EXCEPT ![p] = "idle"]
    /\ result' = [result EXCEPT ![p] = "error"]
    /\ Forgets(p)
    /\ UNCHANGED <<dialect, files, owner, work, records, effects, runs, connection>>

Rest ==
    /\ \A p \in Processes : pc[p] = "idle"
    /\ runs = MaxRuns
    /\ UNCHANGED vars

--------------------------------------------------------------------------------
Outcomes == {"done", "refused", "lost"}

Step(p) ==
    \/ NextFile(p)
    \/ \E outcome \in Outcomes :
         \/ ReadApplied(p, outcome)
         \/ Begin(p, outcome) \/ Execute(p, outcome) \/ Record(p, outcome)
         \/ Commit(p, outcome) \/ Rollback(p, outcome) \/ Unlock(p, outcome)

Next ==
    \/ \E p \in Processes : Connect(p) \/ Step(p) \/ Crash(p)
    \/ \E p \in Processes, outcome \in Outcomes : Lock(p, outcome)
    \/ \E s \in Sessions : NoticesClientGone(s) \/ KillsSession(s)
    \/ Rest

Spec == Init /\ [][Next]_vars

\* The replicas run, every statement is answered or given up, the lock is granted when it
\* is free, and the database notices that a client is gone.
LiveSpec ==
    /\ Spec
    /\ \A p \in Processes :
         WF_vars(Step(p)) /\ WF_vars(Lock(p, "done")) /\ WF_vars(Lock(p, "lost") /\ ~Usable(p))
    /\ \A s \in Sessions : WF_vars(NoticesClientGone(s))

--------------------------------------------------------------------------------
\* Properties.

Places == {"idle", "lock", "create", "file", "begin", "script", "record", "commit", "rollback", "unlock"}
Transactions == [effect : SUBSET Names, record : SUBSET (Names \X Nat)]

\* Every variable has its type; the sessions are numbered in the order of the calls.
TypeOK ==
    /\ dialect \in {"postgres", "mysql"}
    /\ files \in [Processes -> Seq(File)]
    /\ session \in [Sessions -> {"none", "open", "left", "ended"}]
    /\ owner \in Sessions \union {Nobody}
    /\ work \in [Sessions -> Transactions]
    /\ records \subseteq Names \X Nat
    /\ effects \in [Names -> Nat]
    /\ pc \in [Processes -> Places]
    /\ runs \in 0..MaxRuns
    /\ connection \in [Processes -> 0..runs]
    /\ applied \in [Processes -> SUBSET (Names \X Nat)]
    /\ index \in [Processes -> Nat \ {0}]
    /\ result \in [Processes -> {"none", "nil", "error"}]

\* However the replicas, their crashes and the lost answers interleave, the statements of
\* a file are committed with its record and only once; where MySQL commits by itself a
\* record still means that they were.  A Migrate that returns nil leaves every file of its
\* replica recorded with the checksum it has there.
MigratedOnce ==
    /\ \A n \in Names :
         LET recorded == {r \in records : r[1] = n}
         IN  IF Implicit(n) THEN recorded # {} => effects[n] > 0
             ELSE effects[n] = (IF recorded = {} THEN 0 ELSE 1) /\ (recorded # {} => \E r \in records : recorded = {r})
    /\ \A p \in Processes :
         pc[p] = "idle" /\ result[p] = "nil" =>
             \A file \in ToSet(files[p]) : <<file.name, file.sum>> \in records

\* Neither a crash, a lost session nor a failed release keeps the others out for ever.
LockComesFree == \A p \in Processes : pc[p] = "lock" ~> pc[p] # "lock"
================================================================================
