---------------------------- MODULE MigratorProofs -----------------------------
(***************************************************************************)
(* Proofs about Migrator, for every number of replicas, deployments and    *)
(* calls of Migrate.                                                       *)
(***************************************************************************)
EXTENDS Migrator, TLAPS

--------------------------------------------------------------------------------
\* The inductive invariant.

\* The file a replica is at.
Current(p) == files[p][index[p]]

InTransaction == {"script", "record", "commit"}
AtFile == {"begin"} \union InTransaction
Locked == {"create", "file", "rollback"} \union AtFile

\* No two replicas share a session, and those of later calls are untouched.
SessionInv ==
    /\ \A p \in Processes : pc[p] # "idle" => connection[p] # 0
    /\ \A p, q \in Processes : connection[p] = connection[q] /\ connection[p] # 0 => p = q
    /\ \A s \in Sessions : s > runs => work[s] = NoWork

\* Between Lock and Unlock a replica whose session is open holds the lock.
LockInv == \A p \in Processes : pc[p] \in Locked /\ Usable(p) => owner = connection[p]

\* What the transaction of an open session has done is what its replica has just had
\* executed; outside a transaction, and where MySQL commits by itself, nothing.
HasDone(p, done) ==
    LET name == Current(p).name
    IN  /\ pc[p] \notin {"record", "commit", "rollback"} => done = NoWork
        /\ pc[p] \in {"record", "commit"} /\ Implicit(name) => done = NoWork
        /\ pc[p] = "record" /\ ~Implicit(name) => done = [effect |-> {name}, record |-> {}]
        /\ pc[p] = "commit" /\ ~Implicit(name) =>
             done = [effect |-> {name}, record |-> {<<name, Current(p).sum>>}]

WorkOf(p) == connection[p] # 0 /\ Usable(p) => HasDone(p, work[connection[p]])

WorkInv == \A p \in Processes : WorkOf(p)

\* A file that is recorded by itself was executed before; one that is about to be
\* committed is not recorded yet.
RecordOf(p) ==
    /\ pc[p] = "record" /\ Implicit(Current(p).name) => effects[Current(p).name] > 0
    /\ pc[p] = "commit" /\ Implicit(Current(p).name) =>
         <<Current(p).name, Current(p).sum>> \in records
    /\ pc[p] = "commit" /\ ~Implicit(Current(p).name) /\ Usable(p) =>
         ~\E r \in records : r[1] = Current(p).name

RecordInv == \A p \in Processes : RecordOf(p)

IndexInv ==
    \A p \in Processes :
        /\ pc[p] \in {"idle", "lock", "create"} => index[p] = 1
        /\ pc[p] \in AtFile => index[p] \in 1..Len(files[p])

\* The first n files of replica p are recorded.
Recorded(p, n) ==
    \A i \in 1..Len(files[p]) : i <= n => <<files[p][i].name, files[p][i].sum>> \in records

\* The files behind the loop are recorded, and without an error all of them at its end.
ProgressOf(p) ==
    /\ applied[p] \subseteq records
    /\ pc[p] \in {"file"} \union AtFile => Recorded(p, index[p] - 1)
    /\ pc[p] = "rollback" => result[p] = "error"
    /\ pc[p] \in {"unlock", "idle"} /\ result[p] = "nil" => Recorded(p, Len(files[p]))

ProgressInv == \A p \in Processes : ProgressOf(p)

\* Records and effects of one name.
Once(n) ==
    LET recorded == {r \in records : r[1] = n}
    IN  IF Implicit(n) THEN recorded # {} => effects[n] > 0
        ELSE effects[n] = (IF recorded = {} THEN 0 ELSE 1)
             /\ (recorded # {} => \E r \in records : recorded = {r})

OnceInv == \A n \in Names : Once(n)

IInv ==
    /\ TypeOK
    /\ SessionInv
    /\ LockInv
    /\ WorkInv
    /\ RecordInv
    /\ IndexInv
    /\ ProgressInv
    /\ OnceInv

--------------------------------------------------------------------------------
\* What the statements of a replica come down to.

\* A replica in Migrate has a session.
LEMMA Connected ==
    ASSUME TypeOK, SessionInv, NEW p \in Processes, pc[p] # "idle"
    PROVE  connection[p] \in Sessions
  BY MaxRunsAssumption DEF TypeOK, SessionInv, Sessions

\* The session c is kept, or its client leaves it.
Leaves(c) ==
    \/ session' = session
    \/ session' = [session EXCEPT ![c] = IF @ = "open" THEN "left" ELSE @]

\* No session is opened by that.
LEMMA LeavesTypes ==
    ASSUME TypeOK, NEW c \in Sessions, Leaves(c)
    PROVE  /\ session' \in [Sessions -> {"none", "open", "left", "ended"}]
           /\ \A s \in Sessions : session'[s] = "open" => session[s] = "open"
  BY DEF TypeOK, Leaves

\* The places and results after a statement.
LEMMA GoesTypes ==
    ASSUME TypeOK, NEW p \in Processes, NEW outcome, NEW next \in Places, NEW error \in Places,
           Goes(p, outcome, next, error)
    PROVE  /\ pc' \in [Processes -> Places] /\ result' \in [Processes -> {"none", "nil", "error"}]
           /\ \A q \in Processes \ {p} : pc'[q] = pc[q] /\ result'[q] = result[q]
           /\ outcome = "done" => pc'[p] = next /\ result'[p] = result[p]
           /\ outcome # "done" => pc'[p] = error /\ result'[p] = "error"
<1> USE DEF Goes, TypeOK
<1>1. pc' \in [Processes -> Places]
  OBVIOUS
<1>2. result' \in [Processes -> {"none", "nil", "error"}]
  OBVIOUS
<1>3. \A q \in Processes \ {p} : pc'[q] = pc[q] /\ result'[q] = result[q]
  OBVIOUS
<1>4. /\ outcome = "done" => pc'[p] = next /\ result'[p] = result[p]
      /\ outcome # "done" => pc'[p] = error /\ result'[p] = "error"
  OBVIOUS
<1> QED
  BY <1>1, <1>2, <1>3, <1>4

\* The files of a replica have names and checksums.
LEMMA CurrentIsFile ==
    ASSUME TypeOK, IndexInv, NEW p \in Processes, pc[p] \in AtFile
    PROVE  Current(p).name \in Names /\ Current(p).sum \in Nat
<1>1. files[p] \in Seq(File) /\ index[p] \in 1..Len(files[p])
  BY DEF TypeOK, IndexInv
<1>2. files[p][index[p]] \in File
  BY <1>1
<1> QED
  BY <1>2 DEF Current, File

\* One part of a transaction is set.
LEMMA EffectSet ==
    ASSUME TypeOK, NEW c \in Sessions, NEW e \in SUBSET Names
    PROVE  /\ [work EXCEPT ![c].effect = e] \in [Sessions -> Transactions]
           /\ [work EXCEPT ![c].effect = e][c] = [effect |-> e, record |-> work[c].record]
           /\ \A s \in Sessions \ {c} : [work EXCEPT ![c].effect = e][s] = work[s]
<1>1. work \in [Sessions -> Transactions] /\ work[c] \in Transactions
  BY DEF TypeOK
<1>2. [work[c] EXCEPT !.effect = e] = [effect |-> e, record |-> work[c].record]
  BY <1>1 DEF Transactions
<1>3. [effect |-> e, record |-> work[c].record] \in Transactions
  BY <1>1 DEF Transactions
<1> QED
  BY <1>1, <1>2, <1>3

\* A record added to a transaction.
LEMMA RecordSet ==
    ASSUME TypeOK, NEW c \in Sessions, NEW r \in SUBSET (Names \X Nat)
    PROVE  /\ [work EXCEPT ![c].record = r] \in [Sessions -> Transactions]
           /\ [work EXCEPT ![c].record = r][c] = [effect |-> work[c].effect, record |-> r]
           /\ \A s \in Sessions \ {c} : [work EXCEPT ![c].record = r][s] = work[s]
<1>1. work \in [Sessions -> Transactions] /\ work[c] \in Transactions
  BY DEF TypeOK
<1>2. [work[c] EXCEPT !.record = r] = [effect |-> work[c].effect, record |-> r]
  BY <1>1 DEF Transactions
<1>3. [effect |-> work[c].effect, record |-> r] \in Transactions
  BY <1>1 DEF Transactions
<1> QED
  BY <1>1, <1>2, <1>3

\* A step that keeps the lock, opens no session, and leaves the places of others.
LEMMA LockKept ==
    ASSUME TypeOK, LockInv, UNCHANGED <<owner, connection>>,
           \A q \in Processes : pc'[q] \in Locked => pc[q] \in Locked /\ connection[q] \in Sessions,
           \A s \in Sessions : session'[s] = "open" => session[s] = "open"
    PROVE  LockInv'
  BY DEF LockInv, Usable

--------------------------------------------------------------------------------
\* What a step of p does to the others.

\* The step is p's: those of the others keep their place, and their sessions are apart.
Aside(p) ==
    /\ UNCHANGED <<dialect, files>>
    /\ \A q \in Processes \ {p} :
         /\ connection'[q] = connection[q] /\ pc'[q] = pc[q] /\ index'[q] = index[q]
         /\ applied'[q] = applied[q] /\ result'[q] = result[q]
         /\ connection[q] # 0 => /\ work'[connection[q]] = work[connection[q]]
                                 /\ Usable(q)' => Usable(q)

\* Records and effects only grow, and the records only by whoever holds the lock.
Grows(p) ==
    /\ records \subseteq records'
    /\ \A n \in Names : effects[n] <= effects'[n]
    /\ records' # records => Usable(p) /\ pc[p] \in Locked

\* The session of another replica is another one.
LEMMA Apart ==
    ASSUME TypeOK, SessionInv, NEW p \in Processes, NEW q \in Processes \ {p}, connection[q] # 0
    PROVE  connection[q] \in Sessions /\ connection[q] # connection[p] /\ connection[q] # runs + 1
  BY MaxRunsAssumption DEF TypeOK, SessionInv, Sessions

--------------------------------------------------------------------------------
\* The steps.

\* The types are kept.
LEMMA StepTypes ==
    ASSUME TypeOK, SessionInv, IndexInv, [Next]_vars
    PROVE  TypeOK'
<1>1. ASSUME NEW p \in Processes, Connect(p) PROVE TypeOK'
  BY <1>1, MaxRunsAssumption DEF Connect, dbVars, procVars, TypeOK, Sessions, Nobody, NoWork, Places, Transactions
<1>2. ASSUME NEW p \in Processes, NextFile(p) PROVE TypeOK'
  <2>1. /\ pc' \in [Processes -> Places] /\ result' \in [Processes -> {"none", "nil", "error"}]
    BY <1>2 DEF NextFile, Goes, TypeOK, Places
  <2>2. index' \in [Processes -> Nat \ {0}]
    <3>1. index' = index \/ index' = [index EXCEPT ![p] = index[p] + 1]
      BY <1>2 DEF NextFile
    <3>2. index \in [Processes -> Nat \ {0}] /\ index[p] + 1 \in Nat \ {0}
      BY DEF TypeOK
    <3> QED
      BY <3>1, <3>2
  <2> QED
    BY <1>2, <2>1, <2>2 DEF NextFile, TypeOK, dbVars
<1>3. ASSUME NEW p \in Processes, NEW outcome \in Outcomes, ReadApplied(p, outcome) PROVE TypeOK'
  <2>1. connection[p] \in Sessions
    BY <1>3, Connected DEF ReadApplied
  <2>2. session' \in [Sessions -> {"none", "open", "left", "ended"}]
    <3>1. Leaves(connection[p])
      BY <1>3 DEF ReadApplied, Statement, Discard, Leaves
    <3> QED
      BY <2>1, <3>1, LeavesTypes
  <2>3. pc' \in [Processes -> Places] /\ result' \in [Processes -> {"none", "nil", "error"}]
    <3>1. Goes(p, outcome, "file", "unlock")
      BY <1>3 DEF ReadApplied
    <3>2. "file" \in Places /\ "unlock" \in Places
      BY DEF Places
    <3> QED
      BY <3>1, <3>2, GoesTypes
  <2>4. applied' \in [Processes -> SUBSET (Names \X Nat)]
    BY <1>3 DEF ReadApplied, TypeOK
  <2> QED
    BY <1>3, <2>1, <2>2, <2>3, <2>4 DEF TypeOK, ReadApplied
<1>4. ASSUME NEW p \in Processes, NEW outcome \in Outcomes, Begin(p, outcome) PROVE TypeOK'
  <2>1. connection[p] \in Sessions
    BY <1>4, Connected DEF Begin
  <2>2. session' \in [Sessions -> {"none", "open", "left", "ended"}]
    <3>1. Leaves(connection[p])
      BY <1>4 DEF Begin, Statement, Discard, Leaves
    <3> QED
      BY <2>1, <3>1, LeavesTypes
  <2>3. pc' \in [Processes -> Places] /\ result' \in [Processes -> {"none", "nil", "error"}]
    <3>1. Goes(p, outcome, "script", "unlock")
      BY <1>4 DEF Begin
    <3>2. "script" \in Places /\ "unlock" \in Places
      BY DEF Places
    <3> QED
      BY <3>1, <3>2, GoesTypes
  <2> QED
    BY <1>4, <2>1, <2>2, <2>3 DEF TypeOK, Begin
<1>5. ASSUME NEW p \in Processes, NEW outcome \in Outcomes, Execute(p, outcome) PROVE TypeOK'
  <2>1. connection[p] \in Sessions
    BY <1>5, Connected DEF Execute
  <2>2. session' \in [Sessions -> {"none", "open", "left", "ended"}]
    <3>1. Leaves(connection[p])
      BY <1>5 DEF Execute, Statement, Discard, Leaves
    <3> QED
      BY <2>1, <3>1, LeavesTypes
  <2>3. pc' \in [Processes -> Places] /\ result' \in [Processes -> {"none", "nil", "error"}]
    <3>1. Goes(p, outcome, "record", "rollback")
      BY <1>5 DEF Execute
    <3>2. "record" \in Places /\ "rollback" \in Places
      BY DEF Places
    <3> QED
      BY <3>1, <3>2, GoesTypes
  <2>4. /\ work' \in [Sessions -> Transactions]
        /\ effects' \in [Names -> Nat]
    <3> DEFINE name == files[p][index[p]].name
    <3>1. name \in Names
      BY <1>5, CurrentIsFile DEF Execute, Current, AtFile, InTransaction
    <3>2. \/ UNCHANGED <<work, effects>>
          \/ effects' = Applies({name}) /\ UNCHANGED work
          \/ work' = [work EXCEPT ![connection[p]].effect = {name}] /\ UNCHANGED effects
      BY <1>5 DEF Execute, Statement
    <3> HIDE DEF name
    <3>3. Applies({name}) \in [Names -> Nat]
      BY DEF Applies, TypeOK
    <3>4. [work EXCEPT ![connection[p]].effect = {name}] \in [Sessions -> Transactions]
      <4>1. {name} \in SUBSET Names
        BY <3>1
      <4> QED
        BY <2>1, <4>1, EffectSet
    <3> QED
      BY <3>2, <3>3, <3>4 DEF TypeOK
  <2> QED
    BY <1>5, <2>1, <2>2, <2>3, <2>4 DEF TypeOK, Execute
<1>6. ASSUME NEW p \in Processes, NEW outcome \in Outcomes, Record(p, outcome) PROVE TypeOK'
  <2>1. connection[p] \in Sessions
    BY <1>6, Connected DEF Record
  <2>2. session' \in [Sessions -> {"none", "open", "left", "ended"}]
    <3>1. Leaves(connection[p])
      BY <1>6 DEF Record, Statement, Discard, Leaves
    <3> QED
      BY <2>1, <3>1, LeavesTypes
  <2>3. pc' \in [Processes -> Places] /\ result' \in [Processes -> {"none", "nil", "error"}]
    <3>1. Goes(p, outcome, "commit", "rollback")
      BY <1>6 DEF Record
    <3>2. "commit" \in Places /\ "rollback" \in Places
      BY DEF Places
    <3> QED
      BY <3>1, <3>2, GoesTypes
  <2>4. /\ work' \in [Sessions -> Transactions]
        /\ records' \subseteq Names \X Nat
    <3> DEFINE file == files[p][index[p]]
               line == <<file.name, file.sum>>
    <3>1. line \in Names \X Nat
      BY <1>6, CurrentIsFile DEF Record, Current, AtFile, InTransaction
    <3>2. \/ UNCHANGED <<work, records>>
          \/ records' = records \union {line} /\ UNCHANGED work
          \/ work' = [work EXCEPT ![connection[p]].record = {line}] /\ UNCHANGED records
      BY <1>6 DEF Record, Statement
    <3> HIDE DEF line
    <3>3. [work EXCEPT ![connection[p]].record = {line}] \in [Sessions -> Transactions]
      <4>1. {line} \in SUBSET (Names \X Nat)
        BY <3>1
      <4> QED
        BY <2>1, <4>1, RecordSet
    <3> QED
      BY <3>1, <3>2, <3>3 DEF TypeOK
  <2> QED
    BY <1>6, <2>1, <2>2, <2>3, <2>4 DEF TypeOK, Record
<1>7. ASSUME NEW p \in Processes, NEW outcome \in Outcomes, Commit(p, outcome) PROVE TypeOK'
  <2>1. connection[p] \in Sessions
    BY <1>7, Connected DEF Commit
  <2>2. session' \in [Sessions -> {"none", "open", "left", "ended"}]
    <3>1. Leaves(connection[p])
      BY <1>7 DEF Commit, Statement, Discard, Leaves
    <3> QED
      BY <2>1, <3>1, LeavesTypes
  <2>3. pc' \in [Processes -> Places] /\ result' \in [Processes -> {"none", "nil", "error"}]
    <3>1. Goes(p, outcome, "file", "unlock")
      BY <1>7 DEF Commit
    <3>2. "file" \in Places /\ "unlock" \in Places
      BY DEF Places
    <3> QED
      BY <3>1, <3>2, GoesTypes
  <2>4. /\ work' \in [Sessions -> Transactions]
        /\ records' \subseteq Names \X Nat /\ effects' \in [Names -> Nat]
        /\ index' \in [Processes -> Nat \ {0}]
    <3> DEFINE s == connection[p]
    <3>1. work[s].record \subseteq Names \X Nat
      BY <2>1 DEF TypeOK, Transactions
    <3>2. \/ UNCHANGED <<records, effects>>
          \/ records' = records \union work[s].record /\ effects' = Applies(work[s].effect)
      BY <1>7 DEF Commit, Statement
    <3>3. Applies(work[s].effect) \in [Names -> Nat]
      BY DEF Applies, TypeOK
    <3>4. work' \in [Sessions -> Transactions]
      BY <1>7, <2>1 DEF Commit, TypeOK, NoWork, Transactions
    <3>5. index' \in [Processes -> Nat \ {0}]
      <4>1. index' = index \/ index' = [index EXCEPT ![p] = index[p] + 1]
        BY <1>7 DEF Commit
      <4>2. index \in [Processes -> Nat \ {0}] /\ index[p] + 1 \in Nat \ {0}
        BY DEF TypeOK
      <4> QED
        BY <4>1, <4>2
    <3> QED
      BY <3>1, <3>2, <3>3, <3>4, <3>5 DEF TypeOK
  <2> QED
    BY <1>7, <2>1, <2>2, <2>3, <2>4 DEF TypeOK, Commit
<1>8. ASSUME NEW p \in Processes, NEW outcome \in Outcomes, Rollback(p, outcome) PROVE TypeOK'
  <2>1. connection[p] \in Sessions
    BY <1>8, Connected DEF Rollback
  <2>2. session' \in [Sessions -> {"none", "open", "left", "ended"}]
    <3>1. Leaves(connection[p])
      BY <1>8 DEF Rollback, Statement, Discard, Leaves
    <3> QED
      BY <2>1, <3>1, LeavesTypes
  <2>3. work' \in [Sessions -> Transactions]
    BY <1>8, <2>1 DEF Rollback, TypeOK, NoWork, Transactions
  <2>4. pc' \in [Processes -> Places]
    BY <1>8 DEF Rollback, TypeOK, Places
  <2> QED
    BY <1>8, <2>2, <2>3, <2>4 DEF Rollback, TypeOK
<1>9. ASSUME NEW p \in Processes, NEW outcome \in Outcomes, Unlock(p, outcome) PROVE TypeOK'
  <2>1. connection[p] \in Sessions
    BY <1>9, Connected DEF Unlock
  <2>2. session' \in [Sessions -> {"none", "open", "left", "ended"}]
    <3>1. Leaves(connection[p])
      BY <1>9 DEF Unlock, Statement, Discard, Leaves
    <3> QED
      BY <2>1, <3>1, LeavesTypes
  <2>3. pc' \in [Processes -> Places] /\ result' \in [Processes -> {"none", "nil", "error"}]
    <3>1. Goes(p, outcome, "idle", "idle")
      BY <1>9 DEF Unlock
    <3>2. "idle" \in Places /\ "idle" \in Places
      BY DEF Places
    <3> QED
      BY <3>1, <3>2, GoesTypes
  <2>4. /\ owner' \in Sessions \union {Nobody}
        /\ applied' \in [Processes -> SUBSET (Names \X Nat)] /\ index' \in [Processes -> Nat \ {0}]
    BY <1>9 DEF Unlock, Forgets, TypeOK
  <2> QED
    BY <1>9, <2>1, <2>2, <2>3, <2>4 DEF TypeOK, Unlock
<1>10. ASSUME NEW p \in Processes, Crash(p) PROVE TypeOK'
  <2>1. connection[p] \in Sessions
    BY <1>10, Connected DEF Crash
  <2>2. session' \in [Sessions -> {"none", "open", "left", "ended"}]
    <3>1. Leaves(connection[p])
      BY <1>10 DEF Crash, Statement, Discard, Leaves
    <3> QED
      BY <2>1, <3>1, LeavesTypes
  <2>3. pc' \in [Processes -> Places] /\ result' \in [Processes -> {"none", "nil", "error"}]
    BY <1>10 DEF Crash, TypeOK, Places
  <2>4. applied' \in [Processes -> SUBSET (Names \X Nat)] /\ index' \in [Processes -> Nat \ {0}]
    BY <1>10 DEF Crash, Forgets, TypeOK
  <2> QED
    BY <1>10, <2>2, <2>3, <2>4 DEF Crash, TypeOK
<1>11. ASSUME NEW p \in Processes, NEW outcome \in Outcomes, Lock(p, outcome) PROVE TypeOK'
  <2>1. connection[p] \in Sessions
    BY <1>11, Connected DEF Lock
  <2>2. session' \in [Sessions -> {"none", "open", "left", "ended"}]
    <3>1. Leaves(connection[p])
      BY <1>11 DEF Lock, Statement, Discard, Leaves
    <3> QED
      BY <2>1, <3>1, LeavesTypes
  <2>3. pc' \in [Processes -> Places] /\ result' \in [Processes -> {"none", "nil", "error"}]
    <3>1. Goes(p, outcome, "create", "idle")
      BY <1>11 DEF Lock
    <3>2. "create" \in Places /\ "idle" \in Places
      BY DEF Places
    <3> QED
      BY <3>1, <3>2, GoesTypes
  <2>4. owner' \in Sessions \union {Nobody}
    BY <1>11, <2>1 DEF Lock, TypeOK
  <2> QED
    BY <1>11, <2>1, <2>2, <2>3, <2>4 DEF TypeOK, Lock
<1>12. ASSUME NEW s \in Sessions, End(s) PROVE TypeOK'
  BY <1>12, MaxRunsAssumption DEF End, dbVars, procVars, TypeOK, Sessions, Nobody, NoWork, Places, Transactions
<1>13. CASE UNCHANGED vars
  BY <1>13 DEF vars, dbVars, procVars, TypeOK
<1> QED
  BY <1>1, <1>2, <1>3, <1>4, <1>5, <1>6, <1>7, <1>8, <1>9, <1>10, <1>11, <1>12, <1>13 DEF Next, Step, NoticesClientGone, KillsSession, Rest

\* A replica takes a session of its own or a new one.
LEMMA StepSession ==
    ASSUME TypeOK, SessionInv, [Next]_vars
    PROVE  SessionInv'
<1> USE MaxRunsAssumption DEF TypeOK, SessionInv, Sessions
<1>1. ASSUME NEW p \in Processes, Connect(p) PROVE SessionInv'
  BY <1>1 DEF Connect, dbVars, procVars
<1>2. ASSUME NEW p \in Processes, NextFile(p) PROVE SessionInv'
  BY <1>2 DEF NextFile, Goes, dbVars, procVars
<1>3. ASSUME NEW p \in Processes, NEW outcome \in Outcomes, ReadApplied(p, outcome) PROVE SessionInv'
  BY <1>3 DEF ReadApplied, Statement, Goes, dbVars, procVars
<1>4. ASSUME NEW p \in Processes, NEW outcome \in Outcomes, Begin(p, outcome) PROVE SessionInv'
  BY <1>4 DEF Begin, Statement, Goes, dbVars, procVars
<1>5. ASSUME NEW p \in Processes, NEW outcome \in Outcomes, Execute(p, outcome) PROVE SessionInv'
  BY <1>5 DEF Execute, Statement, Goes, Applies, dbVars, procVars
<1>6. ASSUME NEW p \in Processes, NEW outcome \in Outcomes, Record(p, outcome) PROVE SessionInv'
  BY <1>6 DEF Record, Statement, Goes, dbVars, procVars
<1>7. ASSUME NEW p \in Processes, NEW outcome \in Outcomes, Commit(p, outcome) PROVE SessionInv'
  BY <1>7 DEF Commit, Statement, Goes, Applies, dbVars, procVars
<1>8. ASSUME NEW p \in Processes, NEW outcome \in Outcomes, Rollback(p, outcome) PROVE SessionInv'
  BY <1>8 DEF Rollback, Discard, dbVars, procVars
<1>9. ASSUME NEW p \in Processes, NEW outcome \in Outcomes, Unlock(p, outcome) PROVE SessionInv'
  BY <1>9 DEF Unlock, Discard, Goes, Forgets, dbVars, procVars
<1>10. ASSUME NEW p \in Processes, Crash(p) PROVE SessionInv'
  BY <1>10 DEF Crash, Discard, Forgets, dbVars, procVars
<1>11. ASSUME NEW p \in Processes, NEW outcome \in Outcomes, Lock(p, outcome) PROVE SessionInv'
  BY <1>11 DEF Lock, Discard, Goes, dbVars, procVars
<1>12. ASSUME NEW s \in Sessions, End(s) PROVE SessionInv'
  BY <1>12 DEF End, dbVars, procVars
<1>13. CASE UNCHANGED vars
  BY <1>13 DEF vars, dbVars, procVars
<1> QED
  BY <1>1, <1>2, <1>3, <1>4, <1>5, <1>6, <1>7, <1>8, <1>9, <1>10, <1>11, <1>12, <1>13 DEF Next, Step, NoticesClientGone, KillsSession, Rest

\* The lock is kept as long as the session.
LEMMA StepLock ==
    ASSUME TypeOK, SessionInv, LockInv, [Next]_vars
    PROVE  LockInv'
<1>1. ASSUME NEW p \in Processes, Connect(p) PROVE LockInv'
  BY <1>1, MaxRunsAssumption DEF Connect, dbVars, procVars, TypeOK, SessionInv, LockInv, Sessions, Nobody, Locked, AtFile, InTransaction, Usable
<1>2. ASSUME NEW p \in Processes, NextFile(p) PROVE LockInv'
  <2>1. connection[p] \in Sessions /\ \A q \in Processes \ {p} : pc'[q] = pc[q]
    BY <1>2, Connected DEF NextFile, Goes, TypeOK, Places
  <2>2. \A s \in Sessions : session'[s] = "open" => session[s] = "open"
    <3>1. Leaves(connection[p])
      BY <1>2 DEF NextFile, Statement, Discard, Leaves, dbVars
    <3> QED
      BY <2>1, <3>1, LeavesTypes
  <2>3. \A q \in Processes : pc'[q] \in Locked => pc[q] \in Locked /\ connection[q] \in Sessions
    <3>1. pc'[p] \in Locked => pc[p] \in Locked
      BY <1>2 DEF NextFile, Goes, TypeOK, Locked, AtFile, InTransaction
    <3>2. \A q \in Processes : pc[q] \in Locked => connection[q] \in Sessions
      BY Connected DEF Locked, AtFile, InTransaction
    <3> QED
      BY <2>1, <3>1, <3>2
  <2>4. UNCHANGED <<owner, connection>>
    BY <1>2 DEF NextFile, dbVars
  <2> QED
    BY <2>2, <2>3, <2>4, LockKept
<1>3. ASSUME NEW p \in Processes, NEW outcome \in Outcomes, ReadApplied(p, outcome) PROVE LockInv'
  <2>1. connection[p] \in Sessions /\ \A q \in Processes \ {p} : pc'[q] = pc[q]
    BY <1>3, Connected DEF ReadApplied, Goes, TypeOK, Places
  <2>2. \A s \in Sessions : session'[s] = "open" => session[s] = "open"
    <3>1. Leaves(connection[p])
      BY <1>3 DEF ReadApplied, Statement, Discard, Leaves, dbVars
    <3> QED
      BY <2>1, <3>1, LeavesTypes
  <2>3. \A q \in Processes : pc'[q] \in Locked => pc[q] \in Locked /\ connection[q] \in Sessions
    <3>1. pc'[p] \in Locked => pc[p] \in Locked
      BY <1>3 DEF ReadApplied, Goes, TypeOK, Locked, AtFile, InTransaction
    <3>2. \A q \in Processes : pc[q] \in Locked => connection[q] \in Sessions
      BY Connected DEF Locked, AtFile, InTransaction
    <3> QED
      BY <2>1, <3>1, <3>2
  <2>4. UNCHANGED <<owner, connection>>
    BY <1>3 DEF ReadApplied, dbVars
  <2> QED
    BY <2>2, <2>3, <2>4, LockKept
<1>4. ASSUME NEW p \in Processes, NEW outcome \in Outcomes, Begin(p, outcome) PROVE LockInv'
  <2>1. connection[p] \in Sessions /\ \A q \in Processes \ {p} : pc'[q] = pc[q]
    BY <1>4, Connected DEF Begin, Goes, TypeOK, Places
  <2>2. \A s \in Sessions : session'[s] = "open" => session[s] = "open"
    <3>1. Leaves(connection[p])
      BY <1>4 DEF Begin, Statement, Discard, Leaves, dbVars
    <3> QED
      BY <2>1, <3>1, LeavesTypes
  <2>3. \A q \in Processes : pc'[q] \in Locked => pc[q] \in Locked /\ connection[q] \in Sessions
    <3>1. pc'[p] \in Locked => pc[p] \in Locked
      BY <1>4 DEF Begin, Goes, TypeOK, Locked, AtFile, InTransaction
    <3>2. \A q \in Processes : pc[q] \in Locked => connection[q] \in Sessions
      BY Connected DEF Locked, AtFile, InTransaction
    <3> QED
      BY <2>1, <3>1, <3>2
  <2>4. UNCHANGED <<owner, connection>>
    BY <1>4 DEF Begin, dbVars
  <2> QED
    BY <2>2, <2>3, <2>4, LockKept
<1>5. ASSUME NEW p \in Processes, NEW outcome \in Outcomes, Execute(p, outcome) PROVE LockInv'
  <2>1. connection[p] \in Sessions /\ \A q \in Processes \ {p} : pc'[q] = pc[q]
    BY <1>5, Connected DEF Execute, Goes, TypeOK, Places
  <2>2. \A s \in Sessions : session'[s] = "open" => session[s] = "open"
    <3>1. Leaves(connection[p])
      BY <1>5 DEF Execute, Statement, Discard, Leaves, dbVars
    <3> QED
      BY <2>1, <3>1, LeavesTypes
  <2>3. \A q \in Processes : pc'[q] \in Locked => pc[q] \in Locked /\ connection[q] \in Sessions
    <3>1. pc'[p] \in Locked => pc[p] \in Locked
      BY <1>5 DEF Execute, Goes, TypeOK, Locked, AtFile, InTransaction
    <3>2. \A q \in Processes : pc[q] \in Locked => connection[q] \in Sessions
      BY Connected DEF Locked, AtFile, InTransaction
    <3> QED
      BY <2>1, <3>1, <3>2
  <2>4. UNCHANGED <<owner, connection>>
    BY <1>5 DEF Execute, dbVars
  <2> QED
    BY <2>2, <2>3, <2>4, LockKept
<1>6. ASSUME NEW p \in Processes, NEW outcome \in Outcomes, Record(p, outcome) PROVE LockInv'
  <2>1. connection[p] \in Sessions /\ \A q \in Processes \ {p} : pc'[q] = pc[q]
    BY <1>6, Connected DEF Record, Goes, TypeOK, Places
  <2>2. \A s \in Sessions : session'[s] = "open" => session[s] = "open"
    <3>1. Leaves(connection[p])
      BY <1>6 DEF Record, Statement, Discard, Leaves, dbVars
    <3> QED
      BY <2>1, <3>1, LeavesTypes
  <2>3. \A q \in Processes : pc'[q] \in Locked => pc[q] \in Locked /\ connection[q] \in Sessions
    <3>1. pc'[p] \in Locked => pc[p] \in Locked
      BY <1>6 DEF Record, Goes, TypeOK, Locked, AtFile, InTransaction
    <3>2. \A q \in Processes : pc[q] \in Locked => connection[q] \in Sessions
      BY Connected DEF Locked, AtFile, InTransaction
    <3> QED
      BY <2>1, <3>1, <3>2
  <2>4. UNCHANGED <<owner, connection>>
    BY <1>6 DEF Record, dbVars
  <2> QED
    BY <2>2, <2>3, <2>4, LockKept
<1>7. ASSUME NEW p \in Processes, NEW outcome \in Outcomes, Commit(p, outcome) PROVE LockInv'
  <2>1. connection[p] \in Sessions /\ \A q \in Processes \ {p} : pc'[q] = pc[q]
    BY <1>7, Connected DEF Commit, Goes, TypeOK, Places
  <2>2. \A s \in Sessions : session'[s] = "open" => session[s] = "open"
    <3>1. Leaves(connection[p])
      BY <1>7 DEF Commit, Statement, Discard, Leaves, dbVars
    <3> QED
      BY <2>1, <3>1, LeavesTypes
  <2>3. \A q \in Processes : pc'[q] \in Locked => pc[q] \in Locked /\ connection[q] \in Sessions
    <3>1. pc'[p] \in Locked => pc[p] \in Locked
      BY <1>7 DEF Commit, Goes, TypeOK, Locked, AtFile, InTransaction
    <3>2. \A q \in Processes : pc[q] \in Locked => connection[q] \in Sessions
      BY Connected DEF Locked, AtFile, InTransaction
    <3> QED
      BY <2>1, <3>1, <3>2
  <2>4. UNCHANGED <<owner, connection>>
    BY <1>7 DEF Commit, dbVars
  <2> QED
    BY <2>2, <2>3, <2>4, LockKept
<1>8. ASSUME NEW p \in Processes, NEW outcome \in Outcomes, Rollback(p, outcome) PROVE LockInv'
  <2>1. connection[p] \in Sessions /\ \A q \in Processes \ {p} : pc'[q] = pc[q]
    BY <1>8, Connected DEF Rollback, Goes, TypeOK, Places
  <2>2. \A s \in Sessions : session'[s] = "open" => session[s] = "open"
    <3>1. Leaves(connection[p])
      BY <1>8 DEF Rollback, Statement, Discard, Leaves, dbVars
    <3> QED
      BY <2>1, <3>1, LeavesTypes
  <2>3. \A q \in Processes : pc'[q] \in Locked => pc[q] \in Locked /\ connection[q] \in Sessions
    <3>1. pc'[p] \in Locked => pc[p] \in Locked
      BY <1>8 DEF Rollback, Goes, TypeOK, Locked, AtFile, InTransaction
    <3>2. \A q \in Processes : pc[q] \in Locked => connection[q] \in Sessions
      BY Connected DEF Locked, AtFile, InTransaction
    <3> QED
      BY <2>1, <3>1, <3>2
  <2>4. UNCHANGED <<owner, connection>>
    BY <1>8 DEF Rollback, dbVars
  <2> QED
    BY <2>2, <2>3, <2>4, LockKept
<1>9. ASSUME NEW p \in Processes, NEW outcome \in Outcomes, Unlock(p, outcome) PROVE LockInv'
  BY <1>9, MaxRunsAssumption DEF Unlock, Discard, Goes, Forgets, dbVars, procVars, TypeOK, SessionInv, LockInv, Sessions, Nobody, Locked, AtFile, InTransaction, Usable
<1>10. ASSUME NEW p \in Processes, Crash(p) PROVE LockInv'
  <2>1. connection[p] \in Sessions /\ \A q \in Processes \ {p} : pc'[q] = pc[q]
    BY <1>10, Connected DEF Crash, Goes, TypeOK, Places
  <2>2. \A s \in Sessions : session'[s] = "open" => session[s] = "open"
    <3>1. Leaves(connection[p])
      BY <1>10 DEF Crash, Statement, Discard, Leaves, dbVars
    <3> QED
      BY <2>1, <3>1, LeavesTypes
  <2>3. \A q \in Processes : pc'[q] \in Locked => pc[q] \in Locked /\ connection[q] \in Sessions
    <3>1. pc'[p] \in Locked => pc[p] \in Locked
      BY <1>10 DEF Crash, Goes, TypeOK, Locked, AtFile, InTransaction
    <3>2. \A q \in Processes : pc[q] \in Locked => connection[q] \in Sessions
      BY Connected DEF Locked, AtFile, InTransaction
    <3> QED
      BY <2>1, <3>1, <3>2
  <2>4. UNCHANGED <<owner, connection>>
    BY <1>10 DEF Crash, dbVars
  <2> QED
    BY <2>2, <2>3, <2>4, LockKept
<1>11. ASSUME NEW p \in Processes, NEW outcome \in Outcomes, Lock(p, outcome) PROVE LockInv'
  <2>1. connection[p] \in Sessions
    BY <1>11, Connected DEF Lock
  <2>2. \A s \in Sessions : session'[s] = "open" => session[s] = "open"
    <3>1. Leaves(connection[p])
      BY <1>11 DEF Lock, Discard, Leaves
    <3> QED
      BY <2>1, <3>1, LeavesTypes
  <2>3. UNCHANGED connection /\ (owner' = owner \/ (owner = Nobody /\ owner' = connection[p]))
    BY <1>11 DEF Lock
  <2>4. ASSUME NEW q \in Processes, pc'[q] \in Locked, Usable(q)' PROVE owner' = connection'[q]
    <3>1. CASE q = p
      <4>1. outcome = "done"
        BY <1>11, <2>4, <3>1 DEF Lock, Goes, TypeOK, Locked, AtFile, InTransaction
      <4> QED
        BY <1>11, <3>1, <4>1 DEF Lock
    <3>2. CASE q # p
      <4>1. pc[q] \in Locked /\ pc[q] # "idle"
        BY <1>11, <2>4, <3>2 DEF Lock, Goes, TypeOK, Locked, AtFile, InTransaction
      <4>2. connection[q] \in Sessions /\ connection[q] # Nobody
        BY <4>1, Connected DEF Sessions, Nobody
      <4>3. Usable(q)
        BY <2>2, <2>3, <2>4, <4>2 DEF Usable
      <4>4. owner = connection[q]
        BY <4>1, <4>3 DEF LockInv
      <4> QED
        BY <2>3, <4>2, <4>4
    <3> QED
      BY <3>1, <3>2
  <2> QED
    BY <2>4 DEF LockInv
<1>12. ASSUME NEW s \in Sessions, End(s) PROVE LockInv'
  BY <1>12, MaxRunsAssumption DEF End, dbVars, procVars, TypeOK, SessionInv, LockInv, Sessions, Nobody, Locked, AtFile, InTransaction, Usable
<1>13. CASE UNCHANGED vars
  BY <1>13 DEF vars, dbVars, procVars, TypeOK, SessionInv, LockInv, Sessions, Nobody, Locked, AtFile, InTransaction, Usable
<1> QED
  BY <1>1, <1>2, <1>3, <1>4, <1>5, <1>6, <1>7, <1>8, <1>9, <1>10, <1>11, <1>12, <1>13 DEF Next, Step, NoticesClientGone, KillsSession, Rest

\* The loop stays within the files.
LEMMA StepIndex ==
    ASSUME TypeOK, IndexInv, [Next]_vars
    PROVE  IndexInv'
<1> USE DEF TypeOK, IndexInv, AtFile, InTransaction
<1>1. ASSUME NEW p \in Processes, Connect(p) PROVE IndexInv'
  BY <1>1 DEF Connect, dbVars, procVars
<1>2. ASSUME NEW p \in Processes, NextFile(p) PROVE IndexInv'
  BY <1>2 DEF NextFile, Goes, dbVars, procVars
<1>3. ASSUME NEW p \in Processes, NEW outcome \in Outcomes, ReadApplied(p, outcome) PROVE IndexInv'
  BY <1>3 DEF ReadApplied, Statement, Goes, dbVars, procVars
<1>4. ASSUME NEW p \in Processes, NEW outcome \in Outcomes, Begin(p, outcome) PROVE IndexInv'
  BY <1>4 DEF Begin, Statement, Goes, dbVars, procVars
<1>5. ASSUME NEW p \in Processes, NEW outcome \in Outcomes, Execute(p, outcome) PROVE IndexInv'
  BY <1>5 DEF Execute, Statement, Goes, Applies, dbVars, procVars
<1>6. ASSUME NEW p \in Processes, NEW outcome \in Outcomes, Record(p, outcome) PROVE IndexInv'
  BY <1>6 DEF Record, Statement, Goes, dbVars, procVars
<1>7. ASSUME NEW p \in Processes, NEW outcome \in Outcomes, Commit(p, outcome) PROVE IndexInv'
  BY <1>7 DEF Commit, Statement, Goes, Applies, dbVars, procVars
<1>8. ASSUME NEW p \in Processes, NEW outcome \in Outcomes, Rollback(p, outcome) PROVE IndexInv'
  BY <1>8 DEF Rollback, Discard, dbVars, procVars
<1>9. ASSUME NEW p \in Processes, NEW outcome \in Outcomes, Unlock(p, outcome) PROVE IndexInv'
  BY <1>9 DEF Unlock, Discard, Goes, Forgets, dbVars, procVars
<1>10. ASSUME NEW p \in Processes, Crash(p) PROVE IndexInv'
  BY <1>10 DEF Crash, Discard, Forgets, dbVars, procVars
<1>11. ASSUME NEW p \in Processes, NEW outcome \in Outcomes, Lock(p, outcome) PROVE IndexInv'
  BY <1>11 DEF Lock, Discard, Goes, dbVars, procVars
<1>12. ASSUME NEW s \in Sessions, End(s) PROVE IndexInv'
  BY <1>12 DEF End, dbVars, procVars
<1>13. CASE UNCHANGED vars
  BY <1>13 DEF vars, dbVars, procVars
<1> QED
  BY <1>1, <1>2, <1>3, <1>4, <1>5, <1>6, <1>7, <1>8, <1>9, <1>10, <1>11, <1>12, <1>13 DEF Next, Step, NoticesClientGone, KillsSession, Rest

\* A step of a replica leaves the others aside.
LEMMA StepsAside ==
    ASSUME TypeOK, SessionInv, NEW p \in Processes, NEW outcome \in Outcomes,
           Connect(p) \/ NextFile(p) \/ ReadApplied(p, outcome) \/ Begin(p, outcome)
             \/ Execute(p, outcome) \/ Record(p, outcome) \/ Commit(p, outcome)
             \/ Rollback(p, outcome) \/ Unlock(p, outcome) \/ Crash(p) \/ Lock(p, outcome)
    PROVE  Aside(p)
<1> SUFFICES ASSUME NEW q \in Processes \ {p}
             PROVE  /\ UNCHANGED <<dialect, files>>
                    /\ connection'[q] = connection[q] /\ pc'[q] = pc[q] /\ index'[q] = index[q]
                    /\ applied'[q] = applied[q] /\ result'[q] = result[q]
                    /\ connection[q] # 0 => /\ work'[connection[q]] = work[connection[q]]
                                            /\ session'[connection[q]] = session[connection[q]]
  <2>1. CASE \E q \in Processes : q # p
    BY <2>1 DEF Aside, Usable
  <2>2. CASE ~\E q \in Processes : q # p
    BY <2>2 DEF Aside, Connect, NextFile, ReadApplied, Begin, Execute, Record, Commit, Rollback, Unlock, Crash, Lock
  <2> QED
    BY <2>1, <2>2
<1>0. connection[q] # 0 => connection[q] \in Sessions /\ connection[q] # connection[p] /\ connection[q] # runs + 1
  BY Apart
<1> USE DEF TypeOK
<1>1. CASE Connect(p)
  BY <1>0, <1>1 DEF Connect
<1>2. CASE NextFile(p)
  BY <1>0, <1>2 DEF NextFile, Goes, dbVars
<1>3. CASE ReadApplied(p, outcome)
  BY <1>0, <1>3 DEF ReadApplied, Statement, Goes
<1>4. CASE Begin(p, outcome)
  BY <1>0, <1>4 DEF Begin, Statement, Goes
<1>5. CASE Execute(p, outcome)
  BY <1>0, <1>5 DEF Execute, Statement, Goes
<1>6. CASE Record(p, outcome)
  BY <1>0, <1>6 DEF Record, Statement, Goes
<1>7. CASE Commit(p, outcome)
  BY <1>0, <1>7 DEF Commit, Statement, Goes
<1>8. CASE Rollback(p, outcome)
  BY <1>0, <1>8 DEF Rollback, Discard
<1>9. CASE Unlock(p, outcome)
  BY <1>0, <1>9 DEF Unlock, Discard, Goes, Forgets
<1>10. CASE Crash(p)
  BY <1>0, <1>10 DEF Crash, Discard, Forgets
<1>11. CASE Lock(p, outcome)
  BY <1>0, <1>11 DEF Lock, Discard, Goes
<1> QED
  BY <1>1, <1>2, <1>3, <1>4, <1>5, <1>6, <1>7, <1>8, <1>9, <1>10, <1>11

\* The invariants of the others are kept by a step of p.
LEMMA WorkOfOthers ==
    ASSUME NEW p \in Processes, NEW q \in Processes \ {p}, Aside(p), WorkOf(q)
    PROVE  WorkOf(q)'
  BY DEF Aside, WorkOf, HasDone, Current, Implicit

\* A step of p keeps what the other processes know of the records.
LEMMA RecordOfOthers ==
    ASSUME TypeOK, TypeOK', SessionInv, LockInv, IndexInv, NEW p \in Processes, NEW q \in Processes \ {p},
           Aside(p), Grows(p), RecordOf(q)
    PROVE  RecordOf(q)'
<1>1. /\ Current(q)' = Current(q) /\ pc'[q] = pc[q]
      /\ \A n \in Names : Implicit(n)' = Implicit(n)
  BY DEF Aside, Current, Implicit
<1>2. pc[q] \in AtFile => Current(q).name \in Names
  BY CurrentIsFile
<1>3. ASSUME pc[q] = "record", Implicit(Current(q).name) PROVE effects'[Current(q).name] > 0
  <2> DEFINE n == Current(q).name
  <2>1. n \in Names /\ effects[n] > 0
    BY <1>2, <1>3 DEF RecordOf, AtFile, InTransaction
  <2>2. effects[n] <= effects'[n] /\ effects[n] \in Nat /\ effects'[n] \in Nat
    BY <2>1 DEF Grows, TypeOK
  <2> HIDE DEF n
  <2>3. effects'[n] > 0
    BY <2>1, <2>2
  <2> QED
    BY <2>3 DEF n
<1>4. ASSUME pc[q] = "commit", Usable(q)' PROVE records' = records
  <2>1. connection[q] # 0
    BY <1>4 DEF SessionInv
  <2>2. Usable(q) /\ connection[q] # connection[p]
    BY <1>4, <2>1, Apart DEF Aside
  <2>3. owner = connection[q]
    BY <1>4, <2>2 DEF LockInv, Locked, AtFile, InTransaction
  <2>4. ~(Usable(p) /\ pc[p] \in Locked)
    BY <2>2, <2>3 DEF LockInv
  <2> QED
    BY <2>4 DEF Grows
<1>5. Implicit(Current(q).name)' <=> Implicit(Current(q).name)
  BY <1>1 DEF Aside, Implicit
<1>6. pc'[q] = "record" /\ Implicit(Current(q).name)' => (effects[Current(q).name] > 0)'
  BY <1>1, <1>3, <1>5
<1>7. ASSUME pc'[q] = "commit", Implicit(Current(q).name)'
      PROVE  (<<Current(q).name, Current(q).sum>> \in records)'
  BY <1>1, <1>5, <1>7 DEF RecordOf, Grows
<1>8. ASSUME pc'[q] = "commit", ~Implicit(Current(q).name)', Usable(q)'
      PROVE  (~\E r \in records : r[1] = Current(q).name)'
  <2>1. Usable(q)
    BY <1>1, <1>8 DEF Aside, SessionInv
  <2> QED
    BY <1>1, <1>4, <1>5, <1>8, <2>1 DEF RecordOf
<1> QED
  BY <1>6, <1>7, <1>8 DEF RecordOf

\* A step of p keeps how far the other processes have come.
LEMMA ProgressOfOthers ==
    ASSUME NEW p \in Processes, NEW q \in Processes \ {p}, Aside(p), Grows(p), ProgressOf(q)
    PROVE  ProgressOf(q)'
  BY DEF Aside, Grows, ProgressOf, Recorded

\* Statements add records and effects.
LEMMA AppliesMore ==
    ASSUME TypeOK, NEW N \in SUBSET Names
    PROVE  /\ Applies(N) \in [Names -> Nat]
           /\ \A n \in Names : effects[n] <= Applies(N)[n]
           /\ \A n \in N : Applies(N)[n] = effects[n] + 1
           /\ \A n \in Names \ N : Applies(N)[n] = effects[n]
  BY DEF Applies, TypeOK

\* A step of a replica takes no record and no effect back.
LEMMA StepsGrow ==
    ASSUME TypeOK, SessionInv, IndexInv, NEW p \in Processes, NEW outcome \in Outcomes,
           Connect(p) \/ NextFile(p) \/ ReadApplied(p, outcome) \/ Begin(p, outcome)
             \/ Execute(p, outcome) \/ Record(p, outcome) \/ Commit(p, outcome)
             \/ Rollback(p, outcome) \/ Unlock(p, outcome) \/ Crash(p) \/ Lock(p, outcome)
    PROVE  Grows(p)
<1>0. \A n \in Names : effects[n] <= effects[n]
  BY DEF TypeOK
<1>1. CASE UNCHANGED <<records, effects>>
  BY <1>0, <1>1 DEF Grows
<1>2. CASE Connect(p)
  BY <1>1, <1>2 DEF Connect
<1>3. CASE NextFile(p)
  BY <1>1, <1>3 DEF NextFile, dbVars
<1>4. CASE ReadApplied(p, outcome)
  BY <1>1, <1>4 DEF ReadApplied, dbVars
<1>5. CASE Begin(p, outcome)
  BY <1>1, <1>5 DEF Begin, dbVars
<1>6. CASE Rollback(p, outcome)
  BY <1>1, <1>6 DEF Rollback, dbVars
<1>7. CASE Unlock(p, outcome)
  BY <1>1, <1>7 DEF Unlock, dbVars
<1>8. CASE Crash(p)
  BY <1>1, <1>8 DEF Crash, dbVars
<1>9. CASE Lock(p, outcome)
  BY <1>1, <1>9 DEF Lock, dbVars
<1>10. CASE Execute(p, outcome)
  <2> DEFINE name == Current(p).name
  <2>1. name \in Names
    BY <1>10, CurrentIsFile DEF Execute, AtFile, InTransaction
  <2>2. records' = records /\ (effects' = effects \/ effects' = Applies({name}))
    BY <1>10 DEF Execute, Statement, Current
  <2> HIDE DEF name
  <2>3. \A n \in Names : effects[n] <= Applies({name})[n]
    BY <2>1, AppliesMore
  <2> QED
    BY <1>0, <2>2, <2>3 DEF Grows
<1>11. CASE Record(p, outcome)
  <2>1. pc[p] \in Locked /\ effects' = effects
    BY <1>11 DEF Record, Locked, AtFile, InTransaction
  <2>2. records' = records \/ (Usable(p) /\ records \subseteq records')
    BY <1>11 DEF Record, Statement
  <2> QED
    BY <1>0, <2>1, <2>2 DEF Grows
<1>12. CASE Commit(p, outcome)
  <2> DEFINE done == work[connection[p]]
  <2>1. pc[p] \in Locked /\ connection[p] \in Sessions
    BY <1>12, Connected DEF Commit, Locked, AtFile, InTransaction
  <2>2. done.effect \in SUBSET Names
    BY <2>1 DEF TypeOK, Transactions
  <2>3. \/ records' = records /\ effects' = effects
        \/ /\ Usable(p)
           /\ records \subseteq records'
           /\ effects' = Applies(done.effect)
    BY <1>12 DEF Commit, Statement
  <2> HIDE DEF done
  <2>4. \A n \in Names : effects[n] <= Applies(done.effect)[n]
    BY <2>2, AppliesMore
  <2> QED
    BY <1>0, <2>1, <2>3, <2>4 DEF Grows
<1> QED
  BY <1>2, <1>3, <1>4, <1>5, <1>6, <1>7, <1>8, <1>9, <1>10, <1>11, <1>12

--------------------------------------------------------------------------------
\* What a step of p does to its own transaction, record and progress.

\* A replica whose client has left its session has no transaction to speak of.
LEMMA OwnWork ==
    ASSUME TypeOK, TypeOK', SessionInv, IndexInv, NEW p \in Processes, WorkOf(p), NEW outcome \in Outcomes,
           Connect(p) \/ NextFile(p) \/ ReadApplied(p, outcome) \/ Begin(p, outcome)
             \/ Execute(p, outcome) \/ Record(p, outcome) \/ Commit(p, outcome)
             \/ Rollback(p, outcome) \/ Unlock(p, outcome) \/ Crash(p) \/ Lock(p, outcome)
    PROVE  WorkOf(p)'
<1> DEFINE c == connection[p]
<1> SUFFICES ASSUME connection'[p] # 0, Usable(p)'
             PROVE  HasDone(p, work[connection[p]])'
  BY DEF WorkOf
<1>1. CASE Connect(p)
  <2>1. PICK s \in {runs + 1} \union {i \in {connection[p]} \ {0} : session[i] = "open"} :
          connection' = [connection EXCEPT ![p] = s]
    BY <1>1 DEF Connect
  <2>2. connection'[p] = s /\ pc[p] = "idle" /\ runs < MaxRuns /\ pc'[p] = "lock" /\ work' = work
    BY <1>1, <2>1 DEF Connect, TypeOK
  <2>3. CASE s = runs + 1
    <3>1. s \in Sessions /\ s > runs
      BY <2>2, <2>3, MaxRunsAssumption DEF TypeOK, Sessions
    <3>2. work[s] = NoWork
      BY <3>1 DEF SessionInv
    <3> QED
      BY <2>2, <3>2 DEF HasDone
  <2>4. CASE s = connection[p] /\ s # 0 /\ session[s] = "open"
    <3>1. work[s] = NoWork
      BY <2>2, <2>4 DEF WorkOf, HasDone, Usable
    <3> QED
      BY <2>2, <3>1 DEF HasDone
  <2> QED
    BY <2>1, <2>3, <2>4
<1>2. CASE pc'[p] \notin {"record", "commit", "rollback"} /\ work'[c] = NoWork /\ connection' = connection
  BY <1>2 DEF HasDone
<1>3. CASE pc'[p] = "rollback"
  BY <1>3 DEF HasDone
<1>4. ASSUME connection' = connection, pc[p] # "idle", Leaves(c)
      PROVE  c \in Sessions /\ c # 0 /\ Usable(p)
  <2>1. c \in Sessions /\ c # 0
    BY <1>4, Connected DEF SessionInv
  <2> QED
    BY <1>4, <2>1, LeavesTypes DEF Usable
<1>5. ASSUME connection' = connection, pc[p] # "idle", Leaves(c), work' = work,
             {pc[p], pc'[p]} \cap {"record", "commit", "rollback"} = {}
      PROVE  HasDone(p, work[connection[p]])'
  <2>1. work[c] = NoWork
    BY <1>4, <1>5 DEF WorkOf, HasDone
  <2> QED
    BY <1>2, <1>5, <2>1
<1>6. CASE NextFile(p)
  <2>1. connection' = connection /\ pc[p] = "file" /\ pc'[p] \in {"file", "unlock", "begin"} /\ work' = work /\ session' = session
    BY <1>6 DEF NextFile, Goes, dbVars, TypeOK
  <2> QED
    BY <1>5, <2>1 DEF Leaves
<1>7. CASE ReadApplied(p, outcome)
  <2>1. connection' = connection /\ pc[p] = "create" /\ pc'[p] \in {"file", "unlock"} /\ work' = work /\ Leaves(c)
    BY <1>7 DEF ReadApplied, Goes, Statement, TypeOK, Leaves
  <2> QED
    BY <1>5, <2>1
<1>8. CASE Begin(p, outcome)
  <2>1. connection' = connection /\ pc[p] = "begin" /\ pc'[p] \in {"script", "unlock"} /\ work' = work /\ Leaves(c)
    BY <1>8 DEF Begin, Goes, Statement, TypeOK, Leaves
  <2> QED
    BY <1>5, <2>1
<1>9. CASE Unlock(p, outcome)
  <2>1. connection' = connection /\ pc[p] = "unlock" /\ pc'[p] = "idle" /\ work' = work /\ Leaves(c)
    BY <1>9 DEF Unlock, Goes, Discard, TypeOK, Leaves
  <2> QED
    BY <1>5, <2>1
<1>10. CASE Lock(p, outcome)
  <2>1. connection' = connection /\ pc[p] = "lock" /\ pc'[p] \in {"create", "idle"} /\ work' = work /\ Leaves(c)
    BY <1>10 DEF Lock, Goes, Discard, TypeOK, Leaves
  <2> QED
    BY <1>5, <2>1
<1>11. CASE Crash(p)
  <2>1. connection' = connection /\ c \in Sessions
    BY <1>11, Connected DEF Crash
  <2>2. session'[c] # "open"
    BY <1>11, <2>1 DEF Crash, Discard, TypeOK
  <2> QED
    BY <2>1, <2>2 DEF Usable
<1>12. CASE Execute(p, outcome)
  <2>1. connection' = connection /\ pc[p] = "script" /\ Leaves(c) /\ UNCHANGED <<dialect, files, index>>
    BY <1>12 DEF Execute, Statement, Leaves
  <2>2. CASE outcome # "done"
    BY <1>3, <1>12, <2>2 DEF Execute, Goes, TypeOK
  <2>3. CASE outcome = "done"
    <3>1. pc'[p] = "record"
      BY <1>12, <2>3 DEF Execute, Goes, TypeOK
    <3>2. c \in Sessions /\ work[c] = NoWork
      BY <1>4, <2>1 DEF WorkOf, HasDone
    <3>3. Current(p).name \in Names
      BY <2>1, CurrentIsFile DEF AtFile, InTransaction
    <3>4. /\ Implicit(Current(p).name) => work' = work
          /\ ~Implicit(Current(p).name) => work' = [work EXCEPT ![c].effect = {Current(p).name}]
      BY <1>12, <2>3 DEF Execute, Statement, Current
    <3>5. ~Implicit(Current(p).name) => work'[c] = [effect |-> {Current(p).name}, record |-> {}]
      <4> DEFINE e == {Current(p).name}
      <4>1. e \in SUBSET Names
        BY <3>3
      <4>2. ~Implicit(Current(p).name) => work' = [work EXCEPT ![c].effect = e]
        BY <3>4
      <4> HIDE DEF e, c
      <4>3. [work EXCEPT ![c].effect = e][c] = [effect |-> e, record |-> work[c].record]
        BY <3>2, <4>1, EffectSet
      <4>4. work[c].record = {}
        BY <3>2 DEF NoWork
      <4>5. [work EXCEPT ![c].effect = e][c] = [effect |-> e, record |-> {}]
        BY <4>3, <4>4
      <4>6. ASSUME ~Implicit(Current(p).name) PROVE work'[c] = [effect |-> e, record |-> {}]
        <5>1. work' = [work EXCEPT ![c].effect = e]
          BY <4>2, <4>6
        <5> QED
          BY ONLY <4>5, <5>1, Zenon
      <4> QED
        BY <4>6 DEF e
    <3>6. Current(p)' = Current(p) /\ (Implicit(Current(p).name)' <=> Implicit(Current(p).name))
      BY <2>1 DEF Current, Implicit
    <3> QED
      BY <2>1, <3>1, <3>2, <3>4, <3>5, <3>6 DEF HasDone
  <2> QED
    BY <2>2, <2>3
<1>13. CASE Record(p, outcome)
  <2>1. connection' = connection /\ pc[p] = "record" /\ Leaves(c) /\ UNCHANGED <<dialect, files, index>>
    BY <1>13 DEF Record, Statement, Leaves
  <2>2. CASE outcome # "done"
    BY <1>3, <1>13, <2>2 DEF Record, Goes, TypeOK
  <2>3. CASE outcome = "done"
    <3> DEFINE row == <<Current(p).name, Current(p).sum>>
    <3>1. pc'[p] = "commit"
      BY <1>13, <2>3 DEF Record, Goes, TypeOK
    <3>2. /\ c \in Sessions
          /\ Implicit(Current(p).name) => work[c] = NoWork
          /\ ~Implicit(Current(p).name) => work[c] = [effect |-> {Current(p).name}, record |-> {}]
      BY <1>4, <2>1 DEF WorkOf, HasDone
    <3>3. row \in Names \X Nat
      BY <2>1, CurrentIsFile DEF AtFile, InTransaction
    <3>4. /\ Implicit(Current(p).name) => work' = work
          /\ ~Implicit(Current(p).name) => work' = [work EXCEPT ![c].record = {row}]
      BY <1>13, <2>3 DEF Record, Statement, Current
    <3>5. ~Implicit(Current(p).name) => work'[c] = [effect |-> {Current(p).name}, record |-> {row}]
      <4> DEFINE e == {Current(p).name}
                 new == {row}
      <4>1. new \in SUBSET (Names \X Nat)
        BY <3>3
      <4>2. ~Implicit(Current(p).name) => work[c] = [effect |-> e, record |-> {}] /\ work' = [work EXCEPT ![c].record = new]
        BY <3>2, <3>4
      <4> HIDE DEF e, new, c
      <4>3. [work EXCEPT ![c].record = new][c] = [effect |-> work[c].effect, record |-> new]
        BY <3>2, <4>1, RecordSet
      <4>4. ASSUME ~Implicit(Current(p).name) PROVE work'[c] = [effect |-> e, record |-> new]
        <5>1. work' = [work EXCEPT ![c].record = new] /\ work[c] = [effect |-> e, record |-> {}]
          BY <4>2, <4>4
        <5>2. work[c].effect = e
          BY <5>1
        <5> QED
          BY ONLY <4>3, <5>1, <5>2, Zenon
      <4> QED
        BY <4>4 DEF e, new
    <3>6. Current(p)' = Current(p) /\ (Implicit(Current(p).name)' <=> Implicit(Current(p).name))
      BY <2>1 DEF Current, Implicit
    <3> QED
      BY <2>1, <3>1, <3>2, <3>4, <3>5, <3>6 DEF HasDone
  <2> QED
    BY <2>2, <2>3
<1>14. CASE Commit(p, outcome)
  <2>1. connection' = connection /\ pc[p] = "commit" /\ pc'[p] \in {"file", "unlock"}
    BY <1>14 DEF Commit, Goes, TypeOK
  <2>2. c \in Sessions
    BY <2>1, Connected
  <2>3. work'[c] = NoWork
    BY <1>14, <2>2 DEF Commit, TypeOK
  <2> QED
    BY <1>2, <2>1, <2>3
<1>15. CASE Rollback(p, outcome)
  <2>1. connection' = connection /\ pc[p] = "rollback" /\ pc'[p] = "unlock"
    BY <1>15 DEF Rollback, TypeOK
  <2>2. c \in Sessions
    BY <2>1, Connected
  <2>3. work'[c] = NoWork
    BY <1>15, <2>2 DEF Rollback, TypeOK
  <2> QED
    BY <1>2, <2>1, <2>3
<1> QED
  BY <1>1, <1>6, <1>7, <1>8, <1>9, <1>10, <1>11, <1>12, <1>13, <1>14, <1>15

\* A file is recorded by itself after its statements, and otherwise nowhere before the commit.
LEMMA OwnRecord ==
    ASSUME TypeOK, TypeOK', SessionInv, IndexInv, NEW p \in Processes, RecordOf(p), NEW outcome \in Outcomes,
           Connect(p) \/ NextFile(p) \/ ReadApplied(p, outcome) \/ Begin(p, outcome)
             \/ Execute(p, outcome) \/ Record(p, outcome) \/ Commit(p, outcome)
             \/ Rollback(p, outcome) \/ Unlock(p, outcome) \/ Crash(p) \/ Lock(p, outcome)
    PROVE  RecordOf(p)'
<1>1. CASE pc'[p] \notin {"record", "commit"}
  BY <1>1 DEF RecordOf
<1> USE DEF TypeOK
<1>2. CASE Connect(p)
  BY <1>1, <1>2 DEF Connect
<1>3. CASE NextFile(p)
  <2>1. pc'[p] \in {"file", "unlock", "begin"}
    BY <1>3 DEF NextFile, Goes
  <2> QED
    BY <1>1, <2>1
<1>4. CASE ReadApplied(p, outcome)
  BY <1>1, <1>4 DEF ReadApplied, Goes
<1>5. CASE Begin(p, outcome)
  BY <1>1, <1>5 DEF Begin, Goes
<1>6. CASE Rollback(p, outcome)
  BY <1>1, <1>6 DEF Rollback
<1>7. CASE Unlock(p, outcome)
  BY <1>1, <1>7 DEF Unlock, Goes
<1>8. CASE Crash(p)
  BY <1>1, <1>8 DEF Crash
<1>9. CASE Lock(p, outcome)
  BY <1>1, <1>9 DEF Lock, Goes
<1>10. CASE Commit(p, outcome)
  BY <1>1, <1>10 DEF Commit, Goes
<1>11. CASE (Execute(p, outcome) \/ Record(p, outcome)) /\ outcome # "done"
  BY <1>1, <1>11 DEF Execute, Record, Goes
<1>12. CASE Execute(p, outcome) /\ outcome = "done"
  <2> DEFINE n == Current(p).name
  <2>1. pc[p] = "script" /\ pc'[p] = "record" /\ UNCHANGED <<dialect, files, index>>
    BY <1>12 DEF Execute, Goes
  <2>2. Current(p)' = Current(p) /\ (Implicit(Current(p).name)' <=> Implicit(n))
    BY <2>1 DEF Current, Implicit
  <2>3. n \in Names
    BY <2>1, CurrentIsFile DEF AtFile, InTransaction
  <2>4. Implicit(n) => effects' = Applies({n})
    BY <1>12 DEF Execute, Statement, Current
  <2>5. Implicit(n) => effects'[n] > 0
    <3> HIDE DEF n
    <3>1. {n} \in SUBSET Names /\ n \in {n}
      BY <2>3
    <3>2. Applies({n})[n] = effects[n] + 1
      BY <3>1, AppliesMore
    <3>3. effects[n] \in Nat
      BY <2>3
    <3> QED
      BY <2>4, <3>2, <3>3
  <2> QED
    BY <2>1, <2>2, <2>5 DEF RecordOf
<1>13. CASE Record(p, outcome) /\ outcome = "done"
  <2> DEFINE n == Current(p).name
  <2>1. pc[p] = "record" /\ pc'[p] = "commit" /\ UNCHANGED <<dialect, files, index>>
    BY <1>13 DEF Record, Goes
  <2>2. Current(p)' = Current(p) /\ (Implicit(Current(p).name)' <=> Implicit(n))
    BY <2>1 DEF Current, Implicit
  <2>3. /\ Implicit(n) => <<n, Current(p).sum>> \in records'
        /\ ~Implicit(n) => records' = records
        /\ ~\E r \in records : r[1] = n
    BY <1>13 DEF Record, Statement, Current
  <2> QED
    BY <2>1, <2>2, <2>3 DEF RecordOf
<1> QED
  BY <1>2, <1>3, <1>4, <1>5, <1>6, <1>7, <1>8, <1>9, <1>10, <1>11, <1>12, <1>13

\* The files behind the loop are recorded.
LEMMA OwnProgress ==
    ASSUME TypeOK, TypeOK', SessionInv, IndexInv, NEW p \in Processes, WorkOf(p), RecordOf(p),
           ProgressOf(p), Grows(p), NEW outcome \in Outcomes,
           Connect(p) \/ NextFile(p) \/ ReadApplied(p, outcome) \/ Begin(p, outcome)
             \/ Execute(p, outcome) \/ Record(p, outcome) \/ Commit(p, outcome)
             \/ Rollback(p, outcome) \/ Unlock(p, outcome) \/ Crash(p) \/ Lock(p, outcome)
    PROVE  ProgressOf(p)'
<1>0. records \subseteq records' /\ applied[p] \subseteq records /\ index[p] \in Nat \ {0} /\ files[p] \in Seq(File)
  BY DEF Grows, ProgressOf, TypeOK
<1> USE <1>0
<1>1. CASE Connect(p)
  <2>1. applied'[p] = applied[p] /\ pc'[p] = "lock"
    BY <1>1 DEF Connect, TypeOK
  <2> QED
    BY <2>1 DEF ProgressOf, AtFile, InTransaction
<1>2. CASE Lock(p, outcome)
  <2>1. applied'[p] = applied[p] /\ (pc'[p] = "create" \/ (pc'[p] = "idle" /\ result'[p] = "error"))
    BY <1>2 DEF Lock, Goes, TypeOK
  <2> QED
    BY <2>1 DEF ProgressOf, AtFile, InTransaction
<1>3. CASE ReadApplied(p, outcome)
  <2>1. /\ applied'[p] \in {applied[p], records}
        /\ index' = index /\ index[p] = 1 /\ files' = files
        /\ pc'[p] = "file" \/ (pc'[p] = "unlock" /\ result'[p] = "error")
    BY <1>3 DEF ReadApplied, Goes, TypeOK, IndexInv
  <2>2. Recorded(p, index[p] - 1)'
    BY <2>1 DEF Recorded
  <2> QED
    BY <2>1, <2>2 DEF ProgressOf, AtFile, InTransaction
<1>4. CASE NextFile(p)
  <2>1. applied' = applied /\ records' = records /\ files' = files /\ pc[p] = "file"
    BY <1>4 DEF NextFile, dbVars
  <2>2. Recorded(p, index[p] - 1)
    BY <2>1 DEF ProgressOf
  <2>3. CASE index[p] > Len(files[p])
    <3>1. index' = index /\ pc'[p] = "unlock"
      BY <1>4, <2>3 DEF NextFile, Goes, TypeOK
    <3>2. Recorded(p, Len(files[p]))'
      BY <2>1, <2>2, <2>3 DEF Recorded
    <3> QED
      BY <2>1, <3>1, <3>2 DEF ProgressOf, AtFile, InTransaction
  <2>4. CASE index[p] <= Len(files[p])
    <3> DEFINE row == <<Current(p).name, Current(p).sum>>
    <3>0. ~(index[p] > Len(files[p]))
      BY <2>4
    <3>1. \/ /\ index' = [index EXCEPT ![p] = @ + 1] /\ pc' = pc
             /\ {r \in applied[p] : r[1] = Current(p).name} = {row}
          \/ index' = index /\ \E o \in {"refused", "done"} : Goes(p, o, "begin", "unlock")
      BY <1>4, <3>0 DEF NextFile, Current
    <3>2. CASE /\ index' = [index EXCEPT ![p] = @ + 1] /\ pc' = pc
               /\ {r \in applied[p] : r[1] = Current(p).name} = {row}
      <4>1. row \in records'
        BY <3>2
      <4>2. index'[p] = index[p] + 1
        BY <3>2 DEF TypeOK
      <4>3. Recorded(p, index[p] - 1)'
        <5> SUFFICES ASSUME NEW i \in 1..Len(files[p]), i <= index[p]
                     PROVE  <<files[p][i].name, files[p][i].sum>> \in records'
          BY <2>1, <4>2 DEF Recorded
        <5>1. i = index[p] \/ i <= index[p] - 1
          OBVIOUS
        <5>2. CASE i = index[p]
          BY <4>1, <5>2 DEF Current
        <5>3. CASE i <= index[p] - 1
          BY <2>2, <5>3 DEF Recorded
        <5> QED
          BY <5>1, <5>2, <5>3
      <4> QED
        BY <2>1, <3>2, <4>3 DEF ProgressOf, AtFile, InTransaction
    <3>3. CASE index' = index /\ \E o \in {"refused", "done"} : Goes(p, o, "begin", "unlock")
      <4>1. pc'[p] = "begin" \/ (pc'[p] = "unlock" /\ result'[p] = "error")
        BY <3>3 DEF Goes, TypeOK
      <4> QED
        BY <2>1, <2>2, <3>3, <4>1 DEF ProgressOf, AtFile, InTransaction, Recorded
    <3> QED
      BY <3>1, <3>2, <3>3
  <2> QED
    BY <2>3, <2>4
<1>5. ASSUME applied' = applied, files' = files, index' = index, pc[p] \in AtFile,
             \/ pc'[p] \in AtFile
             \/ pc'[p] \in {"unlock", "rollback"} /\ result'[p] = "error"
      PROVE  ProgressOf(p)'
  <2>1. Recorded(p, index[p] - 1)
    BY <1>5 DEF ProgressOf
  <2>2. Recorded(p, index[p] - 1)'
    BY <1>5, <2>1 DEF Recorded
  <2> QED
    BY <1>5, <2>2 DEF ProgressOf, AtFile, InTransaction
<1>6. CASE Begin(p, outcome)
  <2>1. \/ pc'[p] \in AtFile
        \/ pc'[p] \in {"unlock", "rollback"} /\ result'[p] = "error"
    BY <1>6 DEF Begin, Goes, TypeOK, AtFile, InTransaction
  <2> QED
    BY <1>5, <1>6, <2>1 DEF Begin, AtFile, InTransaction
<1>7. CASE Execute(p, outcome)
  <2>1. \/ pc'[p] \in AtFile
        \/ pc'[p] \in {"unlock", "rollback"} /\ result'[p] = "error"
    BY <1>7 DEF Execute, Goes, TypeOK, AtFile, InTransaction
  <2> QED
    BY <1>5, <1>7, <2>1 DEF Execute, AtFile, InTransaction
<1>8. CASE Record(p, outcome)
  <2>1. \/ pc'[p] \in AtFile
        \/ pc'[p] \in {"unlock", "rollback"} /\ result'[p] = "error"
    BY <1>8 DEF Record, Goes, TypeOK, AtFile, InTransaction
  <2> QED
    BY <1>5, <1>8, <2>1 DEF Record, AtFile, InTransaction
<1>9. CASE Commit(p, outcome)
  <2>1. pc[p] = "commit" /\ pc[p] \in AtFile /\ applied' = applied /\ files' = files
    BY <1>9 DEF Commit, AtFile, InTransaction
  <2>2. CASE outcome # "done"
    <3>1. pc'[p] = "unlock" /\ result'[p] = "error" /\ index' = index
      BY <1>9, <2>2 DEF Commit, Goes, TypeOK
    <3> QED
      BY <1>5, <2>1, <3>1
  <2>3. CASE outcome = "done"
    <3> DEFINE row == <<Current(p).name, Current(p).sum>>
    <3>1. pc'[p] = "file" /\ index'[p] = index[p] + 1
      BY <1>9, <2>3 DEF Commit, Goes, TypeOK
    <3>2. Usable(p) /\ records' = records \union work[connection[p]].record /\ connection[p] # 0
      BY <1>9, <2>1, <2>3 DEF Commit, Statement, SessionInv
    <3>3. row \in records'
      <4>1. CASE Implicit(Current(p).name)
        BY <2>1, <3>2, <4>1 DEF RecordOf
      <4>2. CASE ~Implicit(Current(p).name)
        <5>1. work[connection[p]] = [effect |-> {Current(p).name}, record |-> {row}]
          BY <2>1, <3>2, <4>2 DEF WorkOf, HasDone
        <5> QED
          BY <3>2, <5>1
      <4> QED
        BY <4>1, <4>2
    <3>4. Recorded(p, index[p] - 1)
      BY <2>1 DEF ProgressOf
    <3>5. Recorded(p, index[p] - 1)'
      BY <2>1, <3>1, <3>3, <3>4 DEF Recorded, Current
    <3> QED
      BY <2>1, <3>1, <3>5 DEF ProgressOf, AtFile, InTransaction
  <2> QED
    BY <2>2, <2>3
<1>10. CASE Rollback(p, outcome)
  <2>1. applied' = applied /\ pc'[p] = "unlock" /\ result' = result /\ pc[p] = "rollback"
    BY <1>10 DEF Rollback, TypeOK
  <2> QED
    BY <2>1 DEF ProgressOf, AtFile, InTransaction
<1>11. CASE Unlock(p, outcome)
  <2>1. /\ applied'[p] = {} /\ pc'[p] = "idle" /\ result'[p] \in {result[p], "error"} /\ pc[p] = "unlock"
        /\ files' = files /\ records' = records
    BY <1>11 DEF Unlock, Goes, Forgets, TypeOK
  <2>2. result'[p] = "nil" => Recorded(p, Len(files[p]))
    BY <2>1 DEF ProgressOf
  <2> QED
    BY <2>1, <2>2 DEF ProgressOf, AtFile, InTransaction, Recorded
<1>12. CASE Crash(p)
  <2>1. applied'[p] = {} /\ pc'[p] = "idle" /\ result'[p] = "error"
    BY <1>12 DEF Crash, Forgets, TypeOK
  <2> QED
    BY <2>1 DEF ProgressOf, AtFile, InTransaction
<1> QED
  BY <1>1, <1>2, <1>3, <1>4, <1>6, <1>7, <1>8, <1>9, <1>10, <1>11, <1>12

\* A file is committed once.
LEMMA StepsOnce ==
    ASSUME TypeOK, TypeOK', SessionInv, IndexInv, NEW p \in Processes, WorkOf(p), RecordOf(p), OnceInv,
           NEW outcome \in Outcomes,
           Connect(p) \/ NextFile(p) \/ ReadApplied(p, outcome) \/ Begin(p, outcome)
             \/ Execute(p, outcome) \/ Record(p, outcome) \/ Commit(p, outcome)
             \/ Rollback(p, outcome) \/ Unlock(p, outcome) \/ Crash(p) \/ Lock(p, outcome)
    PROVE  OnceInv'
<1>1. CASE UNCHANGED <<dialect, records, effects>>
  BY <1>1 DEF OnceInv, Once, Implicit
<1>2. CASE Connect(p) \/ NextFile(p) \/ ReadApplied(p, outcome) \/ Begin(p, outcome)
  BY <1>1, <1>2 DEF Connect, NextFile, ReadApplied, Begin, dbVars
<1>3. CASE Rollback(p, outcome) \/ Unlock(p, outcome) \/ Crash(p) \/ Lock(p, outcome)
  BY <1>1, <1>3 DEF Rollback, Unlock, Crash, Lock
<1>4. CASE Execute(p, outcome)
  <2> DEFINE name == Current(p).name
  <2>1. name \in Names /\ dialect' = dialect /\ records' = records
    BY <1>4, CurrentIsFile DEF Execute, AtFile, InTransaction
  <2>2. effects' = effects \/ (Implicit(name) /\ effects' = Applies({name}))
    BY <1>4 DEF Execute, Statement, Current
  <2>3. CASE effects' = effects
    BY <1>1, <2>1, <2>3
  <2>4. CASE Implicit(name) /\ effects' = Applies({name})
    <3> SUFFICES ASSUME NEW n \in Names PROVE Once(n)'
      BY DEF OnceInv
    <3>1. Once(n) /\ (Implicit(n)' <=> Implicit(n))
      BY <2>1 DEF OnceInv, Implicit
    <3> HIDE DEF name
    <3>2. {name} \in SUBSET Names /\ effects[name] \in Nat
      BY <2>1 DEF TypeOK
    <3>3. (n # name => effects'[n] = effects[n]) /\ (n = name => effects'[n] = effects[n] + 1)
      BY <2>4, <3>2, AppliesMore
    <3>4. CASE n # name
      BY <2>1, <3>1, <3>3, <3>4 DEF Once
    <3>5. CASE n = name
      <4>1. effects'[n] > 0
        BY <3>2, <3>3, <3>5
      <4> QED
        BY <2>4, <3>1, <3>5, <4>1 DEF Once
    <3> QED
      BY <3>4, <3>5
  <2> QED
    BY <2>2, <2>3, <2>4
<1>5. CASE Record(p, outcome)
  <2> DEFINE name == Current(p).name
             row == <<name, Current(p).sum>>
  <2>1. name \in Names /\ dialect' = dialect /\ effects' = effects /\ pc[p] = "record"
    BY <1>5, CurrentIsFile DEF Record, AtFile, InTransaction
  <2>2. records' = records \/ (Implicit(name) /\ records' = records \union {row})
    BY <1>5 DEF Record, Statement, Current
  <2>3. CASE records' = records
    BY <1>1, <2>1, <2>3
  <2>4. CASE Implicit(name) /\ records' = records \union {row}
    <3> SUFFICES ASSUME NEW n \in Names PROVE Once(n)'
      BY DEF OnceInv
    <3>1. Once(n) /\ (Implicit(n)' <=> Implicit(n))
      BY <2>1 DEF OnceInv, Implicit
    <3>2. CASE n # name
      <4>1. {r \in records' : r[1] = n} = {r \in records : r[1] = n}
        BY <2>4, <3>2
      <4> QED
        BY <2>1, <3>1, <4>1 DEF Once
    <3>3. CASE n = name
      <4>1. effects'[n] > 0
        BY <2>1, <2>4, <3>3 DEF RecordOf
      <4> QED
        BY <2>4, <3>1, <3>3, <4>1 DEF Once
    <3> QED
      BY <3>2, <3>3
  <2> QED
    BY <2>2, <2>3, <2>4
<1>6. CASE Commit(p, outcome)
  <2> DEFINE name == Current(p).name
             row == <<name, Current(p).sum>>
             c == connection[p]
  <2>1. name \in Names /\ dialect' = dialect /\ pc[p] = "commit" /\ c # 0
    BY <1>6, CurrentIsFile DEF Commit, AtFile, InTransaction, SessionInv
  <2>2. \/ records' = records /\ effects' = effects
        \/ Usable(p) /\ records' = records \union work[c].record /\ effects' = Applies(work[c].effect)
    BY <1>6 DEF Commit, Statement
  <2>3. CASE records' = records /\ effects' = effects
    BY <1>1, <2>1, <2>3
  <2>4. CASE Usable(p) /\ records' = records \union work[c].record /\ effects' = Applies(work[c].effect)
    <3>1. CASE Implicit(name)
      <4>1. work[c].record = {} /\ work[c].effect = {}
        BY <2>1, <2>4, <3>1 DEF WorkOf, HasDone, NoWork
      <4>2. records' = records
        BY <2>4, <4>1
      <4>3. \A n \in Names : effects'[n] = effects[n]
        BY <2>4, <4>1, AppliesMore
      <4>4. effects' = effects
        BY <4>3 DEF TypeOK
      <4> QED
        BY <1>1, <2>1, <4>2, <4>4
    <3>2. CASE ~Implicit(name)
      <4>1. work[c].record = {row} /\ work[c].effect = {name}
        BY <2>1, <2>4, <3>2 DEF WorkOf, HasDone
      <4>2. ~\E r \in records : r[1] = name
        BY <2>1, <2>4, <3>2 DEF RecordOf
      <4>3. records' = records \union {row} /\ effects' = Applies({name})
        BY <2>4, <4>1
      <4> SUFFICES ASSUME NEW n \in Names PROVE Once(n)'
        BY DEF OnceInv
      <4>4. Once(n) /\ (Implicit(n)' <=> Implicit(n))
        BY <2>1 DEF OnceInv, Implicit
      <4>5. CASE n # name
        <5>1. {r \in records' : r[1] = n} = {r \in records : r[1] = n}
          BY <4>3, <4>5
        <5>2. {name} \in SUBSET Names /\ n \in Names \ {name}
          BY <2>1, <4>5
        <5> HIDE DEF name
        <5>3. effects'[n] = effects[n]
          BY <4>3, <5>2, AppliesMore
        <5>4. (\E r \in records : {x \in records : x[1] = n} = {r}) => (\E r \in records' : {x \in records' : x[1] = n} = {r})
          BY <4>3, <5>1
        <5> QED
          BY <4>4, <5>1, <5>3, <5>4 DEF Once
      <4>6. CASE n = name
        <5>1. {r \in records' : r[1] = n} = {row} /\ {r \in records : r[1] = n} = {}
          BY <4>2, <4>3, <4>6
        <5>2. effects[n] = 0
          BY <3>2, <4>4, <4>6, <5>1 DEF Once
        <5>3. {name} \in SUBSET Names /\ n \in {name}
          BY <2>1, <4>6
        <5>4. effects'[n] = 1
          <6> HIDE DEF name
          <6> QED
            BY <4>3, <5>2, <5>3, AppliesMore
        <5>5. row \in records' /\ {row} # {}
          BY <4>3
        <5> HIDE DEF name, row
        <5> QED
          BY <3>2, <4>4, <4>6, <5>1, <5>4, <5>5 DEF Once
      <4> QED
        BY <4>5, <4>6
    <3> QED
      BY <3>1, <3>2
  <2> QED
    BY <2>2, <2>3, <2>4
<1> QED
  BY <1>2, <1>3, <1>4, <1>5, <1>6

--------------------------------------------------------------------------------
\* The end of a session disturbs nobody's progress, and takes its transaction back.
LEMMA EndKeeps ==
    ASSUME IInv, NEW s \in Sessions, End(s)
    PROVE  (WorkInv /\ RecordInv /\ ProgressInv /\ OnceInv)'
<1>1. UNCHANGED <<dialect, files, records, effects, pc, connection, applied, index, result>>
  BY DEF End, procVars
<1>2. ASSUME NEW q \in Processes, connection[q] # 0, Usable(q)'
      PROVE  Usable(q) /\ work'[connection[q]] = work[connection[q]]
  <2>1. connection[q] \in Sessions
    BY <1>2, MaxRunsAssumption DEF IInv, TypeOK, Sessions
  <2>2. connection[q] # s
    BY <1>1, <1>2, <2>1 DEF End, IInv, TypeOK, Usable
  <2> QED
    BY <1>1, <1>2, <2>1, <2>2 DEF End, IInv, TypeOK, Usable
<1>3. WorkInv'
  BY <1>1, <1>2 DEF IInv, WorkInv, WorkOf, HasDone, Current, Implicit
<1>4. RecordInv'
  BY <1>1, <1>2 DEF IInv, RecordInv, RecordOf, SessionInv, Current, Implicit
<1>5. ProgressInv'
  BY <1>1 DEF IInv, ProgressInv, ProgressOf, Recorded
<1>6. OnceInv'
  BY <1>1 DEF IInv, OnceInv, Once, Implicit
<1> QED
  BY <1>3, <1>4, <1>5, <1>6

\* A step of a replica keeps what its transaction, its records and its progress are.
LEMMA StepKeeps ==
    ASSUME IInv, TypeOK', NEW p \in Processes, NEW outcome \in Outcomes,
           Connect(p) \/ NextFile(p) \/ ReadApplied(p, outcome) \/ Begin(p, outcome)
             \/ Execute(p, outcome) \/ Record(p, outcome) \/ Commit(p, outcome)
             \/ Rollback(p, outcome) \/ Unlock(p, outcome) \/ Crash(p) \/ Lock(p, outcome)
    PROVE  (WorkInv /\ RecordInv /\ ProgressInv /\ OnceInv)'
<1>1. TypeOK /\ SessionInv /\ LockInv /\ IndexInv /\ OnceInv
  BY DEF IInv
<1>2. \A q \in Processes : WorkOf(q) /\ RecordOf(q) /\ ProgressOf(q)
  BY DEF IInv, WorkInv, RecordInv, ProgressInv
<1>3. Aside(p)
  BY <1>1, StepsAside
<1>4. Grows(p)
  BY <1>1, StepsGrow
<1>5. WorkOf(p)'
  BY <1>1, <1>2, OwnWork
<1>6. RecordOf(p)'
  BY <1>1, <1>2, OwnRecord
<1>7. ProgressOf(p)'
  BY <1>1, <1>2, <1>4, OwnProgress
<1>8. ASSUME NEW q \in Processes \ {p} PROVE (WorkOf(q) /\ RecordOf(q) /\ ProgressOf(q))'
  <2>1. WorkOf(q)'
    BY <1>2, <1>3, WorkOfOthers
  <2>2. RecordOf(q)'
    BY <1>1, <1>2, <1>3, <1>4, RecordOfOthers
  <2>3. ProgressOf(q)'
    BY <1>2, <1>3, <1>4, ProgressOfOthers
  <2> QED
    BY <2>1, <2>2, <2>3
<1>9. OnceInv'
  BY <1>1, <1>2, StepsOnce
<1> QED
  BY <1>5, <1>6, <1>7, <1>8, <1>9 DEF WorkInv, RecordInv, ProgressInv

\* The invariant holds at the start.
LEMMA InitInv == Init => IInv
<1> SUFFICES ASSUME Init PROVE IInv
  OBVIOUS
<1> USE MaxRunsAssumption, DeploymentsAssumption DEF Init
<1>1. TypeOK
  BY DEF TypeOK, Sessions, Nobody, NoWork, Places, Transactions
<1>2. SessionInv
  BY DEF SessionInv
<1>3. LockInv
  BY DEF LockInv, Locked, AtFile, InTransaction
<1>4. WorkInv
  BY DEF WorkInv, WorkOf
<1>5. RecordInv
  BY DEF RecordInv, RecordOf
<1>6. IndexInv
  BY DEF IndexInv, AtFile, InTransaction
<1>7. ProgressInv
  BY DEF ProgressInv, ProgressOf, AtFile, InTransaction
<1>8. OnceInv
  BY DEF OnceInv, Once
<1> QED
  BY <1>1, <1>2, <1>3, <1>4, <1>5, <1>6, <1>7, <1>8 DEF IInv

\* Every step keeps the invariant.
LEMMA StepInv == IInv /\ [Next]_vars => IInv'
<1> SUFFICES ASSUME IInv, [Next]_vars PROVE IInv'
  OBVIOUS
<1>0. TypeOK /\ SessionInv /\ LockInv /\ IndexInv
  BY DEF IInv
<1>1. TypeOK' /\ SessionInv' /\ LockInv' /\ IndexInv'
  BY <1>0, StepTypes, StepSession, StepLock, StepIndex
<1>2. ASSUME NEW p \in Processes, Connect(p) \/ Step(p) \/ Crash(p) \/ \E outcome \in Outcomes : Lock(p, outcome)
      PROVE  (WorkInv /\ RecordInv /\ ProgressInv /\ OnceInv)'
  <2>1. PICK outcome \in Outcomes :
           Connect(p) \/ NextFile(p) \/ ReadApplied(p, outcome) \/ Begin(p, outcome)
             \/ Execute(p, outcome) \/ Record(p, outcome) \/ Commit(p, outcome)
             \/ Rollback(p, outcome) \/ Unlock(p, outcome) \/ Crash(p) \/ Lock(p, outcome)
    <3>1. "done" \in Outcomes
      BY DEF Outcomes
    <3> QED
      BY <1>2, <3>1 DEF Step
  <2> QED
    BY <1>1, <2>1, StepKeeps
<1>3. ASSUME NEW s \in Sessions, NoticesClientGone(s) \/ KillsSession(s)
      PROVE  (WorkInv /\ RecordInv /\ ProgressInv /\ OnceInv)'
  BY <1>3, EndKeeps DEF NoticesClientGone, KillsSession
<1>4. ASSUME UNCHANGED vars PROVE (WorkInv /\ RecordInv /\ ProgressInv /\ OnceInv)'
  <2>1. UNCHANGED <<dialect, files, session, owner, work, records, effects, pc, connection, applied, index, result>>
    BY <1>4 DEF vars, dbVars, procVars
  <2>2. WorkInv'
    BY <2>1 DEF IInv, WorkInv, WorkOf, HasDone, Current, Implicit, Usable
  <2>3. RecordInv'
    BY <2>1 DEF IInv, RecordInv, RecordOf, Current, Implicit, Usable
  <2>4. ProgressInv'
    BY <2>1 DEF IInv, ProgressInv, ProgressOf, Recorded
  <2>5. OnceInv'
    BY <2>1 DEF IInv, OnceInv, Once, Implicit
  <2> QED
    BY <2>2, <2>3, <2>4, <2>5
<1>5. (WorkInv /\ RecordInv /\ ProgressInv /\ OnceInv)'
  BY <1>2, <1>3, <1>4 DEF Next, Rest
<1> QED
  BY <1>1, <1>5 DEF IInv

\* So it always holds.
LEMMA Inductive == Spec => []IInv
  BY InitInv, StepInv, PTL DEF Spec

--------------------------------------------------------------------------------
\* The results.

\* Every variable of Migrate and of the database keeps its type.
THEOREM TypeCorrect == Spec => []TypeOK
<1>1. IInv => TypeOK
  BY DEF IInv
<1> QED
  BY <1>1, Inductive, PTL

\* Between Lock and Unlock only one replica has a session that still reaches the database,
\* whatever became of the others' answers: their statements cannot mix.
THEOREM OneMigratesAtATime ==
    Spec => [](\A p, q \in Processes :
                 pc[p] \in Locked /\ Usable(p) /\ pc[q] \in Locked /\ Usable(q) => p = q)
<1>1. IInv => \A p, q \in Processes :
                 pc[p] \in Locked /\ Usable(p) /\ pc[q] \in Locked /\ Usable(q) => p = q
  <2> SUFFICES ASSUME IInv, NEW p \in Processes, NEW q \in Processes,
                      pc[p] \in Locked, Usable(p), pc[q] \in Locked, Usable(q)
               PROVE  p = q
    OBVIOUS
  <2>1. connection[p] = connection[q]
    BY DEF IInv, LockInv
  <2>2. connection[p] # 0
    BY DEF IInv, SessionInv, Locked, AtFile, InTransaction
  <2> QED
    BY <2>1, <2>2 DEF IInv, SessionInv
<1> QED
  BY <1>1, Inductive, PTL

\* The records only grow: no statement, commit, crash or end of a session takes one back.
THEOREM RecordsStay == Spec => [][records \subseteq records']_vars
<1>1. IInv /\ [Next]_vars => [records \subseteq records']_vars
  <2> SUFFICES ASSUME IInv, Next PROVE records \subseteq records'
    BY DEF vars, dbVars
  <2>0. TypeOK /\ SessionInv /\ IndexInv /\ "done" \in Outcomes
    BY DEF IInv, Outcomes
  <2>1. ASSUME NEW p \in Processes, Connect(p) \/ Step(p) \/ Crash(p) \/ \E outcome \in Outcomes : Lock(p, outcome)
        PROVE  records \subseteq records'
    <3>1. Grows(p)
      BY <2>0, <2>1, StepsGrow DEF Step
    <3> QED
      BY <3>1 DEF Grows
  <2>2. ASSUME NEW s \in Sessions, NoticesClientGone(s) \/ KillsSession(s) PROVE records \subseteq records'
    BY <2>2 DEF NoticesClientGone, KillsSession, End
  <2>3. ASSUME Rest PROVE records \subseteq records'
    BY <2>3 DEF Rest, vars, dbVars
  <2> QED
    BY <2>1, <2>2, <2>3 DEF Next
<1> QED
  BY <1>1, Inductive, PTL DEF Spec

\* However many replicas call Migrate, crash, lose answers and sessions: the statements of
\* a file are committed with its record and only once (MySQL's own commits: at least once
\* before it), and a nil result means that every file of the replica is recorded.
THEOREM AppliedOnce == Spec => []MigratedOnce
<1>1. IInv => MigratedOnce
  <2> SUFFICES ASSUME IInv PROVE MigratedOnce
    OBVIOUS
  <2>1. \A n \in Names : Once(n)
    BY DEF IInv, OnceInv
  <2>2. ASSUME NEW p \in Processes, pc[p] = "idle", result[p] = "nil"
        PROVE  \A file \in ToSet(files[p]) : <<file.name, file.sum>> \in records
    <3>1. Recorded(p, Len(files[p])) /\ files[p] \in Seq(File)
      BY <2>2 DEF IInv, ProgressInv, ProgressOf, TypeOK
    <3>2. \A file \in ToSet(files[p]) : \E i \in 1..Len(files[p]) : file = files[p][i]
      BY <3>1 DEF ToSet
    <3>3. \A i \in 1..Len(files[p]) : i <= Len(files[p])
      BY <3>1
    <3> QED
      BY <3>1, <3>2, <3>3 DEF Recorded
  <2> QED
    BY <2>1, <2>2 DEF MigratedOnce, Once
<1> QED
  BY <1>1, Inductive, PTL
================================================================================
