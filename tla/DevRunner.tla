------------------------------ MODULE DevRunner ------------------------------
(***************************************************************************)
(* The development runner (internal/dev): a watcher that polls the source  *)
(* files, a debounce timer, builds, and one child process that is replaced *)
(* by each new build, or restored when the new one does not start.         *)
(*                                                                         *)
(* A file is the number of its last edit, or Removed.  Fingerprints are    *)
(* compared, so what is undone between two scans goes unnoticed: a file    *)
(* that is created and removed in that time counts as not edited.          *)
(* Executables are the numbers of their builds, children those of their    *)
(* start.                                                                  *)
(***************************************************************************)
EXTENDS Naturals, Sequences, FiniteSets

CONSTANTS
    Files,     \* the relevant source files
    MaxEdits,  \* bound: how often files are edited
    Capacity   \* the buffer of watcher.changes and of watcher.errors

ASSUME CapacityAssumption == Capacity \in Nat \ {0} /\ MaxEdits \in Nat

Removed == MaxEdits + 1  \* the fingerprint of a file that does not exist

VARIABLES
    disk, edits,        \* the files and the number of their edits
    watcher,            \* where watcher.loop is: "idle", "scanning", "reporting", "stopped"
    snapshot, current,  \* watcher.snapshot and the one being taken
    todo,               \* the files yet to be scanned, or compared
    changes, errors,    \* how many messages the two channels hold
    timer,              \* the debounce timer: "off", "armed", "fired"
    pc,                 \* where Run is
    caller,             \* who called Stop: "swap" or "final"
    process, binary,    \* runner.process and runner.processBinary; 0: none
    candidate, old,     \* the locals candidate and oldBinary of rebuildAndSwap
    children,           \* the children: "runs", "gone" (not waited for yet) or "done"
    binaries, builds,   \* the executables under .vial/bin, and builder.sequence
    contextEnded,       \* the context of Run has ended
    failed,             \* Run returns an error
    seen,               \* history: the edits made before the last build began
    leaked              \* history: executables that could not be restored

sourceVars  == <<disk, edits>>
watcherVars == <<watcher, snapshot, current, todo>>
swapVars    == <<process, binary, candidate, old, children, binaries, leaked>>
buildVars   == <<builds, seen>>
runVars     == <<pc, caller, failed>>
vars == <<sourceVars, watcherVars, changes, errors, timer, swapVars, buildVars, runVars,
          contextEnded>>

\* NewRunner: the first snapshot is taken before the loop of the watcher starts.
Init ==
    /\ disk = [f \in Files |-> 0] /\ edits = 0
    /\ watcher = "idle" /\ snapshot = disk /\ current = disk /\ todo = {}
    /\ changes = 0 /\ errors = 0 /\ timer = "off"
    /\ pc = "build" /\ caller = "swap" /\ failed = FALSE
    /\ process = 0 /\ binary = 0 /\ candidate = 0 /\ old = 0
    /\ children = <<>> /\ binaries = {} /\ leaked = {}
    /\ builds = 0 /\ seen = 0
    /\ contextEnded = FALSE

--------------------------------------------------------------------------------
\* The surroundings.

\* A file is written, created or removed.  The snapshot knows the file that is removed.
Edit(f) ==
    /\ edits < MaxEdits
    /\ edits' = edits + 1
    /\ \E v \in {edits + 1, Removed} \ {disk[f]} :
         /\ v = Removed => snapshot[f] # Removed
         /\ disk' = [disk EXCEPT ![f] = v]
    /\ UNCHANGED <<watcherVars, changes, errors, timer, swapVars, buildVars, runVars, contextEnded>>

ContextEnds ==
    /\ ~contextEnded
    /\ contextEnded' = TRUE
    /\ UNCHANGED <<sourceVars, watcherVars, changes, errors, timer, swapVars, buildVars, runVars>>

\* A child ends by itself or at the interrupt, which it may ignore.
ChildExits(i) ==
    /\ children[i] = "runs"
    /\ children' = [children EXCEPT ![i] = "gone"]
    /\ UNCHANGED <<sourceVars, watcherVars, changes, errors, timer, process, binary, candidate,
                   old, binaries, leaked, buildVars, runVars, contextEnded>>

\* The goroutine of StartProcess: Wait returns and done is closed.
ChildDone(i) ==
    /\ children[i] = "gone"
    /\ children' = [children EXCEPT ![i] = "done"]
    /\ UNCHANGED <<sourceVars, watcherVars, changes, errors, timer, process, binary, candidate,
                   old, binaries, leaked, buildVars, runVars, contextEnded>>

--------------------------------------------------------------------------------
\* The watcher.  Files change while it walks over them.

Tick ==
    /\ watcher = "idle"
    /\ pc # "closing"
    /\ watcher' = "scanning"
    /\ todo' = Files
    /\ UNCHANGED <<sourceVars, snapshot, current, changes, errors, timer, swapVars, buildVars,
                   runVars, contextEnded>>

ScanFile(f) ==
    /\ watcher = "scanning"
    /\ f \in todo
    /\ todo' = todo \ {f}
    /\ current' = [current EXCEPT ![f] = disk[f]]
    /\ UNCHANGED <<sourceVars, watcher, snapshot, changes, errors, timer, swapVars, buildVars,
                   runVars, contextEnded>>

\* The scan failed, at whichever file: what it has read is forgotten, the snapshot stays,
\* and the error is dropped when the channel is full.
ScanFails ==
    /\ watcher = "scanning"
    /\ todo = {}
    /\ watcher' = "idle"
    /\ errors' = IF errors < Capacity THEN errors + 1 ELSE errors
    /\ UNCHANGED <<sourceVars, snapshot, current, todo, changes, timer, swapVars, buildVars,
                   runVars, contextEnded>>

ScanEnds ==
    /\ watcher = "scanning"
    /\ todo = {}
    /\ watcher' = "reporting"
    /\ todo' = {f \in Files : current[f] # snapshot[f]}
    /\ UNCHANGED <<sourceVars, snapshot, current, changes, errors, timer, swapVars, buildVars,
                   runVars, contextEnded>>

\* A change is reported, or dropped when the channel is full.
ReportChange(f) ==
    /\ watcher = "reporting"
    /\ f \in todo
    /\ todo' = todo \ {f}
    /\ changes' = IF changes < Capacity THEN changes + 1 ELSE changes
    /\ UNCHANGED <<sourceVars, watcher, snapshot, current, errors, timer, swapVars, buildVars,
                   runVars, contextEnded>>

TakeSnapshot ==
    /\ watcher = "reporting"
    /\ todo = {}
    /\ snapshot' = current
    /\ watcher' = "idle"
    /\ UNCHANGED <<sourceVars, current, todo, changes, errors, timer, swapVars, buildVars, runVars,
                   contextEnded>>

\* Close waits until the loop has seen it, after the scan it may be in.
WatcherStops ==
    /\ watcher = "idle"
    /\ pc = "closing"
    /\ watcher' = "stopped"
    /\ UNCHANGED <<sourceVars, snapshot, current, todo, changes, errors, timer, swapVars, buildVars,
                   runVars, contextEnded>>

--------------------------------------------------------------------------------
\* Run.  Every branch writes a line, and returns when it cannot be written.

Return(bad) ==
    /\ pc' = IF bad THEN "final" ELSE "loop"
    /\ failed' = (failed \/ bad)
    /\ UNCHANGED caller

\* The next iteration of the select, when several cases are ready any of them.
SelectContext ==
    /\ pc = "loop" /\ contextEnded
    /\ pc' = "final"
    /\ UNCHANGED <<sourceVars, watcherVars, changes, errors, timer, swapVars, buildVars, caller,
                   failed, contextEnded>>

SelectChange(bad) ==
    /\ pc = "loop" /\ changes > 0
    /\ changes' = changes - 1
    /\ timer' = IF bad THEN timer ELSE "armed"
    /\ Return(bad)
    /\ UNCHANGED <<sourceVars, watcherVars, errors, swapVars, buildVars, contextEnded>>

SelectTimer(bad) ==
    /\ pc = "loop" /\ timer = "fired"
    /\ timer' = "off"
    /\ pc' = IF bad THEN "final" ELSE "build"
    /\ failed' = (failed \/ bad)
    /\ UNCHANGED <<sourceVars, watcherVars, changes, errors, swapVars, buildVars, caller,
                   contextEnded>>

SelectError(bad) ==
    /\ pc = "loop" /\ errors > 0
    /\ errors' = errors - 1
    /\ Return(bad)
    /\ UNCHANGED <<sourceVars, watcherVars, changes, timer, swapVars, buildVars, contextEnded>>

\* The application has ended: its executable is removed.
SelectExit(bad) ==
    /\ pc = "loop" /\ process # 0 /\ children[process] = "done"
    /\ Return(bad)
    /\ IF bad THEN UNCHANGED <<process, binary, binaries>>
       ELSE process' = 0 /\ binary' = 0 /\ binaries' = binaries \ {binary}
    /\ UNCHANGED <<sourceVars, watcherVars, changes, errors, timer, candidate, old, children,
                   leaked, buildVars, contextEnded>>

TimerFires ==
    /\ timer = "armed"
    /\ timer' = "fired"
    /\ UNCHANGED <<sourceVars, watcherVars, changes, errors, swapVars, buildVars, runVars,
                   contextEnded>>

--------------------------------------------------------------------------------
\* rebuildAndSwap.

BuildBegins ==
    /\ pc = "build"
    /\ builds' = builds + 1
    /\ seen' = edits
    /\ pc' = "building"
    /\ UNCHANGED <<sourceVars, watcherVars, changes, errors, timer, swapVars, caller, failed,
                   contextEnded>>

\* Faulty: the changes seen during the build are taken as built.
BuildEndsDrained(ok, bad) ==
    /\ pc = "building"
    /\ changes' = 0
    /\ IF ok
       THEN /\ candidate' = builds /\ binaries' = binaries \union {builds}
            /\ pc' = IF process # 0 THEN "stop" ELSE "start"
            /\ caller' = "swap"
            /\ UNCHANGED failed
       ELSE Return(bad) /\ UNCHANGED <<candidate, binaries>>
    /\ UNCHANGED <<sourceVars, watcherVars, errors, timer, process, binary, old, children, leaked,
                   buildVars, contextEnded>>

\* A build that fails, also because its context has ended, leaves no executable.
BuildEnds(ok, bad) ==
    /\ pc = "building"
    /\ IF ok
       THEN /\ candidate' = builds /\ binaries' = binaries \union {builds}
            /\ pc' = IF process # 0 THEN "stop" ELSE "start"
            /\ caller' = "swap"
            /\ UNCHANGED failed
       ELSE Return(bad) /\ UNCHANGED <<candidate, binaries>>
    /\ UNCHANGED <<sourceVars, watcherVars, changes, errors, timer, process, binary, old, children,
                   leaked, buildVars, contextEnded>>

\* The new application runs and the old executable is removed, or the old one is tried.
StartChild(ok, bad) ==
    /\ pc = "start"
    /\ candidate' = 0
    /\ IF ok
       THEN /\ children' = Append(children, "runs") /\ process' = Len(children')
            /\ binary' = candidate /\ binaries' = binaries \ {old} /\ old' = 0
            /\ Return(bad)
       ELSE /\ binaries' = binaries \ {candidate}
            /\ IF old # 0 THEN pc' = "restore" /\ UNCHANGED <<failed, caller>> ELSE Return(bad)
            /\ UNCHANGED <<children, process, binary, old>>
    /\ UNCHANGED <<sourceVars, watcherVars, changes, errors, timer, leaked, buildVars, contextEnded>>

\* When the old one does not start either nobody knows its executable any more.
Restore(ok, bad) ==
    /\ pc = "restore"
    /\ old' = 0
    /\ IF ok
       THEN /\ children' = Append(children, "runs") /\ process' = Len(children')
            /\ binary' = old
            /\ UNCHANGED leaked
       ELSE leaked' = leaked \union {old} /\ UNCHANGED <<children, process, binary>>
    /\ Return(bad)
    /\ UNCHANGED <<sourceVars, watcherVars, changes, errors, timer, candidate, binaries, buildVars,
                   contextEnded>>

--------------------------------------------------------------------------------
\* Process.Stop, called by rebuildAndSwap and at the end by stopCurrent.

\* Faulty: the swap goes on although the old application could not be stopped.
StopReturnsAnyway(ok, bad) ==
    IF caller = "swap"
    THEN /\ process' = 0 /\ binary' = 0 /\ old' = binary
         /\ pc' = "start"
         /\ UNCHANGED <<caller, failed, candidate, binaries>>
    ELSE /\ process' = 0 /\ binary' = 0 /\ binaries' = binaries \ {binary}
         /\ failed' = (failed \/ ~ok \/ bad)
         /\ pc' = "close"
         /\ UNCHANGED <<caller, candidate, old>>

\* What the caller does with the answer: the swap is given up when the old application
\* could not be stopped; stopCurrent forgets it and returns the error.
StopReturns(ok, bad) ==
    \/ /\ caller = "swap" /\ ok
       /\ process' = 0 /\ binary' = 0 /\ old' = binary
       /\ pc' = "start"
       /\ UNCHANGED <<caller, failed, candidate, binaries>>
    \/ /\ caller = "swap" /\ ~ok
       /\ binaries' = binaries \ {candidate} /\ candidate' = 0
       /\ Return(bad)
       /\ UNCHANGED <<process, binary, old>>
    \/ /\ caller = "final"
       /\ process' = 0 /\ binary' = 0 /\ binaries' = binaries \ {binary}
       /\ failed' = (failed \/ ~ok \/ bad)
       /\ pc' = "close"
       /\ UNCHANGED <<caller, candidate, old>>

Moves(next) ==
    /\ pc' = next
    /\ UNCHANGED <<caller, failed, process, binary, candidate, old, binaries>>

StopStep(bad) ==
    /\ \/ /\ pc = "stop"
          /\ IF children[process] = "done" THEN StopReturns(TRUE, bad) ELSE Moves("waiting")
          /\ UNCHANGED children
       \/ /\ pc = "waiting"
          /\ \/ children[process] = "done" /\ StopReturns(TRUE, bad)
             \/ Moves("killing")
          /\ UNCHANGED children
       \* The signal may be refused, and a child that has just ended is not found.
       \/ /\ pc = "killing"
          /\ \/ /\ children' = [children EXCEPT ![process] = IF @ = "runs" THEN "gone" ELSE @]
                /\ Moves("killed")
             \/ StopReturns(FALSE, bad) /\ UNCHANGED children
       \/ /\ pc = "killed"
          /\ \/ children[process] = "done" /\ StopReturns(TRUE, bad)
             \/ StopReturns(FALSE, bad)
          /\ UNCHANGED children
    /\ UNCHANGED <<sourceVars, watcherVars, changes, errors, timer, leaked, buildVars, contextEnded>>

\* The deferred calls: stopCurrent, then watcher.Close.
Final ==
    /\ \/ /\ pc = "final"
          /\ caller' = "final"
          /\ pc' = IF process = 0 THEN "close" ELSE "stop"
       \/ pc = "close" /\ pc' = "closing" /\ UNCHANGED caller
       \/ pc = "closing" /\ watcher = "stopped" /\ pc' = "returned" /\ UNCHANGED caller
    /\ UNCHANGED <<sourceVars, watcherVars, changes, errors, timer, swapVars, buildVars, failed,
                   contextEnded>>

Rest == pc = "returned" /\ UNCHANGED vars

--------------------------------------------------------------------------------
Scan ==
    \/ Tick \/ ScanEnds \/ TakeSnapshot \/ WatcherStops
    \/ \E f \in Files : ScanFile(f) \/ ReportChange(f)

Swap(bad) ==
    \/ BuildBegins
    \/ \E ok \in BOOLEAN : BuildEnds(ok, bad) \/ StartChild(ok, bad) \/ Restore(ok, bad)
    \/ StopStep(bad)
    \/ Final

Next ==
    \/ \E f \in Files : Edit(f)
    \/ ContextEnds
    \/ \E i \in DOMAIN children : ChildExits(i) \/ ChildDone(i)
    \/ Scan \/ ScanFails
    \/ TimerFires
    \/ SelectContext
    \/ \E bad \in BOOLEAN :
         SelectChange(bad) \/ SelectTimer(bad) \/ SelectError(bad) \/ SelectExit(bad) \/ Swap(bad)
    \/ Rest

Spec == Init /\ [][Next]_vars

\* The goroutines run, a build ends, the timers fire and a scan does not fail for ever.
\* The select picks any of its ready cases, so that none is passed over for ever.
LiveSpec ==
    /\ Spec
    /\ WF_vars(Scan) /\ SF_vars(ScanEnds) /\ WF_vars(TimerFires)
    /\ WF_vars(\E bad \in BOOLEAN : Swap(bad))
    /\ SF_vars(SelectContext)
    /\ SF_vars(\E bad \in BOOLEAN : SelectChange(bad))
    /\ SF_vars(\E bad \in BOOLEAN : SelectTimer(bad))

--------------------------------------------------------------------------------
\* Properties.

Places == {"build", "building", "start", "restore", "loop", "stop", "waiting", "killing",
           "killed", "final", "close", "closing", "returned"}

\* Every variable has its type; the channels never hold more than they can, and every
\* executable known, present or lost is that of a build.
TypeOK ==
    /\ disk \in [Files -> 0..Removed] /\ edits \in 0..MaxEdits
    /\ watcher \in {"idle", "scanning", "reporting", "stopped"}
    /\ snapshot \in [Files -> 0..Removed] /\ current \in [Files -> 0..Removed] /\ todo \subseteq Files
    /\ changes \in 0..Capacity /\ errors \in 0..Capacity
    /\ timer \in {"off", "armed", "fired"}
    /\ pc \in Places /\ caller \in {"swap", "final"}
    /\ children \in Seq({"runs", "gone", "done"}) /\ process \in 0..Len(children)
    /\ builds \in Nat /\ seen \in 0..edits
    /\ binary \in 0..builds /\ candidate \in 0..builds /\ old \in 0..builds
    /\ binaries \subseteq 1..builds /\ leaked \subseteq 1..builds
    /\ contextEnded \in BOOLEAN /\ failed \in BOOLEAN

\* At most one application runs, the one the runner will stop: none is forgotten by a
\* swap, a failed stop or a failed start, except by a Run that returns an error.  The
\* executable of the running application, and the one kept for the restore, exist, and
\* when Run has returned none is left that could have been removed.
OneApplication ==
    /\ \A i \in DOMAIN children :
         children[i] = "runs" => i = process \/ (failed /\ pc \in {"close", "closing", "returned"})
    /\ {binary, old} \ {0} \subseteq binaries
    /\ pc = "returned" => binaries \subseteq leaked

\* Dropping notifications loses no change: again and again every edit made so far has
\* been followed by a build that began after it, until Run returns, which it does when
\* its context ends.
ChangesAreBuilt ==
    []<>((seen = edits /\ ~contextEnded) \/ pc = "returned")
================================================================================
