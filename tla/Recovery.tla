------------------------------- MODULE Recovery -------------------------------
(***************************************************************************)
(* Crashes of the processes that own runs, and the recovery from the rows  *)
(* they leave: Reconcile, RecoverOnly and ResumeWithRecovery of            *)
(* internal/orchestrator/recovery.go, with Attach and watchAttached of     *)
(* internal/runtime/runtime.go.  `omni recover`, `omni run --resume` and   *)
(* the start of the daemon take these steps.                               *)
(*                                                                         *)
(* A recovery is one sequential process with a goroutine per attempt it    *)
(* attaches to; it may die at any statement, too.  It is started when no   *)
(* process that owns a run is alive, one at a time.  Each row is written   *)
(* by a statement of its own.  A PID is not given to another process.      *)
(***************************************************************************)
EXTENDS Orchestrator, Sequences

CONSTANTS
    Heir,      \* the run that a resume which finds nothing active goes on to
    Signalled, \* bound: the runs the user may interrupt
    Fragile    \* whether a recovery may die

ASSUME HeirAssumption == Heir \in Run \ Precreated
ASSUME SignalledAssumption == Signalled \subseteq Run
ASSUME FragileAssumption == Fragile \in BOOLEAN

VARIABLES
    rpc,     \* "idle", "look": Reconcile, "own": the loop of ResumeWithRecovery,
             \* "run": it has fallen through to Run
    todo,    \* attempts of the list that was read and not yet visited
    saved,   \* those of the list that had a checkpoint
    script,  \* per attempt, the rows still to be written, each with its status
    watched, \* attempts with an observing goroutine
    mark     \* the attempt whose status is about to become running, if any

recVars == <<rpc, todo, saved, script, watched, mark>>
allVars == <<vars, recVars>>

Table == {"worker", "attempt", "run", "task"}

RecoveryTypeOK ==
    /\ TypeOK
    /\ rpc \in {"idle", "look", "own", "run"}
    /\ todo \subseteq Attempt /\ saved \subseteq Attempt
    /\ DOMAIN script = Attempt
    /\ \A a \in Attempt : \A i \in DOMAIN script[a] :
           i <= 4 /\ script[a][i] \in Table \X {"completed", "failed", "interrupted"}
    /\ watched \subseteq Attempt
    /\ mark \subseteq Attempt /\ Cardinality(mark) <= 1

NoScript == [a \in Attempt |-> <<>>]

RecoveryInit ==
    /\ Init
    /\ rpc = "idle" /\ todo = {} /\ saved = {} /\ watched = {} /\ mark = {}
    /\ script = NoScript

-----------------------------------------------------------------------------
(* Crashes *)

Live(r) == pc[r] \notin {"idle", "done", "killed"}

\* SIGKILL of the owner.  Its worker has a session of its own and may live on.
Crash(r) ==
    /\ Live(r)
    /\ Goto(r, "killed")
    /\ num' = [num EXCEPT ![r] = 1] /\ c5' = [c5 EXCEPT ![r] = {}]
    /\ exited' = [exited EXCEPT ![r] = FALSE] /\ passed' = [passed EXCEPT ![r] = FALSE]
    /\ final' = [final EXCEPT ![r] = "failed"] /\ cancelled' = cancelled \ {r}
    /\ UNCHANGED <<storeVars, worldVars, adopting, recVars>>

RecoveryCrash ==
    /\ Fragile /\ rpc \in {"look", "own"}
    /\ rpc' = "idle" /\ todo' = {} /\ saved' = {} /\ watched' = {} /\ mark' = {}
    /\ script' = NoScript
    /\ UNCHANGED vars

-----------------------------------------------------------------------------
(* What the recovery reads and writes *)

\* GetWorkerByAttempt: the worker rows of an attempt row; the last one counts.
Workers(a)  == {b \in Attempt : RowOf(b) = a /\ worker[b] # "absent"}
WorkerOf(a) == CHOOSE b \in Workers(a) : \A c \in Workers(a) : c[2] <= b[2]

\* Seeded fault: only the checkpoint is evidence.
LivesNever(a) == FALSE

\* kill(pid, 0)
Lives(a) == Workers(a) # {} /\ proc[WorkerOf(a)] = "alive"

\* The statements that take an attempt with its worker, if it has one, its run
\* and its task to s.
Terminalize(a, s, order) ==
    LET rows == IF Workers(a) = {} THEN <<"attempt", "run", "task">> ELSE order
    IN  script' = [script EXCEPT ![a] = [i \in DOMAIN rows |-> <<rows[i], s>>]]

\* What the sequential code must finish before it goes on.
Writing == mark # {} \/ \E a \in Attempt \ watched : script[a] # <<>>

WriteRow(a) ==
    LET t == Head(script[a])[1]
        s == Head(script[a])[2] IN
    /\ script[a] # <<>>
    /\ script' = [script EXCEPT ![a] = Tail(@)]
    /\ watched' = IF Len(script[a]) = 1 THEN watched \ {a} ELSE watched
    /\ IF t = "worker"  THEN UpdateWorkerStatus(WorkerOf(a), s) ELSE UNCHANGED worker
    /\ IF t = "attempt" THEN UpdateAttemptStatus(a, s)     ELSE UNCHANGED attempt
    /\ IF t = "run"     THEN UpdateRunStatus(a[1], s)      ELSE UNCHANGED run
    /\ IF t = "task"    THEN UpdateTaskStatus(a[1], s)     ELSE UNCHANGED task
    /\ UNCHANGED <<checkpoint, effects, candidate, adopted, tombstones, localVars,
                   worldVars, adopting, rpc, todo, saved, mark>>

-----------------------------------------------------------------------------
(* Reconcile *)

ReadList(list) ==
    /\ \A r \in Run : ~Live(r)
    /\ rpc = "idle" \/ (rpc = "run" /\ ~At(Heir, "idle"))
    /\ rpc' = "look"
    /\ todo' = list /\ saved' = list \cap checkpoint
    /\ UNCHANGED <<vars, script, watched, mark>>

\* Seeded faults: every attempt that is not completed is taken for active; a
\* pending attempt is not.
ScanUnfinished == ReadList({a \in Attempt : attempt[a] \notin {"absent", "completed"}})
ScanRunning    == ReadList({a \in Attempt : attempt[a] = "running"})

Scan == ReadList(ActiveAttempts)

Preserve(a) ==
    /\ rpc = "look" /\ a \in todo /\ ~Writing
    /\ a \in saved \/ Lives(a)
    /\ todo' = todo \ {a}
    /\ UNCHANGED <<vars, rpc, saved, script, watched, mark>>

Interrupt(a) ==
    /\ rpc = "look" /\ a \in todo /\ ~Writing
    /\ a \notin saved /\ ~Lives(a)
    /\ todo' = todo \ {a}
    /\ Terminalize(a, "interrupted", <<"worker", "attempt", "run", "task">>)
    /\ UNCHANGED <<vars, rpc, saved, watched, mark>>

\* RecoverOnly and the daemon stop after Reconcile.
Reconciled ==
    /\ rpc = "look" /\ todo = {} /\ ~Writing
    /\ rpc' = "idle" /\ saved' = {}
    /\ UNCHANGED <<vars, todo, script, watched, mark>>

-----------------------------------------------------------------------------
(* ResumeWithRecovery after Reconcile *)

Reread ==
    /\ rpc = "look" /\ todo = {} /\ ~Writing /\ ActiveAttempts # {}
    /\ rpc' = "own" /\ todo' = ActiveAttempts /\ saved' = {}
    /\ UNCHANGED <<vars, script, watched, mark>>

FallThrough ==
    /\ rpc = "look" /\ todo = {} /\ ~Writing /\ ActiveAttempts = {}
    /\ At(Heir, "idle")
    /\ rpc' = "run" /\ saved' = {}
    /\ UNCHANGED <<vars, todo, script, watched, mark>>

\* No worker row, a dead worker, or one that Attach does not recognise: the
\* start time it compares is that of RecordWorkerPID, in whole seconds.
Refuse(a) ==
    /\ rpc = "own" /\ a \in todo /\ ~Writing
    /\ todo' = todo \ {a}
    /\ Terminalize(a, "failed", <<"attempt", "worker", "run", "task">>)
    /\ UNCHANGED <<vars, rpc, saved, watched, mark>>

\* It looks at the process again.  Its check of the identity may refuse a
\* living worker: that is the choice between Reown and Refuse.
Attach(a) == Lives(a)

\* Seeded fault: the loop does not wait for its own writes.
ReownEager(a) ==
    /\ rpc = "own" /\ a \in todo /\ Lives(a)
    /\ todo' = todo \ {a} /\ watched' = watched \cup {a} /\ mark' = mark \cup {a}
    /\ UNCHANGED <<vars, rpc, saved, script>>

\* The goroutine is started before the status is written.
Reown(a) ==
    /\ rpc = "own" /\ a \in todo /\ ~Writing
    /\ Attach(a)
    /\ todo' = todo \ {a} /\ watched' = watched \cup {a} /\ mark' = {a}
    /\ UNCHANGED <<vars, rpc, saved, script>>

MarkRunning ==
    /\ \E a \in mark : UpdateAttemptStatus(a, "running")
    /\ mark' = {}
    /\ UNCHANGED <<run, task, worker, checkpoint, effects, candidate, adopted, tombstones,
                   localVars, worldVars, adopting, rpc, todo, saved, script, watched>>

\* Seeded fault: the exit code of a process that is not a child is read as 0.
ObserverExitZero(a) ==
    /\ a \in watched /\ script[a] = <<>>
    /\ proc[WorkerOf(a)] # "alive"
    /\ Terminalize(a, IF proc[WorkerOf(a)] = "exit0" THEN "completed" ELSE "failed",
                   <<"worker", "attempt", "run", "task">>)
    /\ UNCHANGED <<vars, rpc, todo, saved, watched, mark>>

\* watchAttached cannot wait for a process that is not its child: the exit
\* code is -1, the supervisor says CRASHED and the validator is not run.
ObserverExit(a) ==
    /\ a \in watched /\ script[a] = <<>>
    /\ proc[WorkerOf(a)] # "alive"
    /\ Terminalize(a, "failed", <<"worker", "attempt", "run", "task">>)
    /\ UNCHANGED <<vars, rpc, todo, saved, watched, mark>>

\* Seeded fault: the observation has no time limit.
ObserverPatient(a) == FALSE /\ UNCHANGED allVars

\* The 30 minutes of its context are over; nothing is written.
ObserverTimeout(a) ==
    /\ a \in watched /\ script[a] = <<>>
    /\ watched' = watched \ {a}
    /\ UNCHANGED <<vars, rpc, todo, saved, script, mark>>

\* wg.Wait
Resumed ==
    /\ rpc = "own" /\ todo = {} /\ ~Writing /\ watched = {}
    /\ rpc' = "idle"
    /\ UNCHANGED <<vars, todo, saved, script, watched, mark>>

-----------------------------------------------------------------------------

RecoveryStep ==
    \/ Reconciled \/ Reread \/ FallThrough \/ MarkRunning \/ Resumed
    \/ \E a \in Attempt : Preserve(a) \/ Interrupt(a) \/ Refuse(a) \/ Reown(a) \/ WriteRow(a)

ObserverStep(a) == ObserverExit(a) \/ ObserverTimeout(a)

MayStart(r) == IF r = Heir THEN rpc = "run" ELSE rpc = "idle"

OwnerStep(r) ==
    /\ At(r, "idle") => MayStart(r)
    /\ RunStep(r) \/ Quiescent(r) \/ (Live(r) /\ r \in Signalled /\ Cancel(r))
    /\ UNCHANGED recVars

RecoveryNext ==
    \/ \E r \in Run : OwnerStep(r) \/ Crash(r)
    \/ \E a \in Attempt : WorkerExits(a) /\ UNCHANGED recVars
    \/ Scan \/ RecoveryStep \/ RecoveryCrash
    \/ \E a \in Attempt : ObserverStep(a)

RecoverySpec == RecoveryInit /\ [][RecoveryNext]_allVars

\* The process runs and time passes.  No worker need ever exit.
RecoveryFairSpec ==
    /\ RecoverySpec
    /\ WF_allVars(RecoveryStep)
    /\ \A a \in Attempt : WF_allVars(ObserverStep(a))

-----------------------------------------------------------------------------
(* Properties *)

\* A worker that lives and is on record is never given up as interrupted,
\* whichever statement its owner or an earlier recovery died at (Reconcile
\* 50-62, R10).
LivingWorkerKept ==
    \A a \in Attempt : proc[a] = "alive" /\ worker[a] # "absent"
                           => attempt[RowOf(a)] # "interrupted"

\* Only a validator's verdict completes anything: no crash and no recovery
\* makes a run, an attempt or a worker completed without one (watchAttached
\* 502-515, R11: "Don't invent 0 success when we can't verify").
NoInventedSuccess ==
    /\ \A a \in Attempt : attempt[a] = "completed"
                            => \E b \in accepted : RowOf(b) = a
    /\ \A a \in Attempt : worker[a] = "completed" => a \in accepted
    /\ \A r \in Run : "completed" \in {run[r], task[r]}
                            => \E n \in Number : <<r, n, "COMPLETE">> \in effects

\* What Reconcile leaves active it leaves for a reason that a second pass
\* finds again unless a worker has died: a checkpoint or a worker on record.
\* So the resume after it always finds a worker to look at (Reconcile 34-35,
\* ResumeWithRecovery 151-159).
ReconcileDecides ==
    rpc = "own" \/ (rpc = "look" /\ ~Writing) =>
        \A a \in IF rpc = "own" THEN todo ELSE ActiveAttempts \ todo : Workers(a) # {}

\* A run that was recorded as completed stays so (Reconcile 36-80).
CompletedKept ==
    [][\A r \in Run : run[r] = "completed" => run'[r] = "completed"]_allVars

\* A recovery comes to its end, or to Run, although the workers it attaches
\* to may never exit (ResumeWithRecovery 188-230).
RecoveryEnds == rpc \in {"look", "own"} ~> rpc \in {"idle", "run"}

-----------------------------------------------------------------------------

\* "Reconcile scans the store for orphaned runs (status != completed/failed)
\* and transitions them to a recoverable state" (recovery.go:30): when it has
\* ended, no run without a process is left pending.
OrphansReconciled ==
    rpc = "run" => \A r \in Run \ {Heir} : At(r, "killed") => run[r] # "pending"
=============================================================================
