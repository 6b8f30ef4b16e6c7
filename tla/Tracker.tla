------------------------------- MODULE Tracker -------------------------------
(***************************************************************************)
(* The scheduler of internal/daemon/tracker.go over the task graph of      *)
(* DagStore: one poll loop that leases paths and dispatches pending tasks, *)
(* one goroutine per dispatched task that runs it and propagates its       *)
(* result, and ResumeActiveTasks after a start.                            *)
(*                                                                         *)
(* The Go mutex t.mu is held by poll from beginning to end, by             *)
(* ResumeActiveTasks, by Close and by the first half of a goroutine's      *)
(* deferred function; it is free iff neither poll nor resume is under way. *)
(* The store is touched with and without t.mu, so each statement of the    *)
(* goroutines interleaves with each statement of poll.                     *)
(*                                                                         *)
(* orchestrator.Run is abstracted to what the goroutine looks at: whether  *)
(* it returned an error, and the first COMPLETE or FAIL of its decisions.  *)
(***************************************************************************)
EXTENDS DagStore, Integers, FiniteSets

CONSTANTS
    MaxWorkers,  \* --max-workers, any integer the flag parses to
    OwnedPaths,  \* per task, the paths poll splits and trims from owned_paths
    Outcomes     \* what Run may end in without a cancellation

ASSUME MaxWorkersAssumption == MaxWorkers \in Int
ASSUME OwnedPathsAssumption == OwnedPaths \in [Task -> Seq(Path)]
ASSUME OutcomesAssumption ==
    Outcomes \subseteq {"complete", "fail", "error", "none", "noattempt"}

VARIABLES
    active,    \* keys of t.active: the tasks that count against the limit
    closed,    \* t.closed
    cancelled, \* the context given to Start is done
    pollPc,    \* "idle", or where poll is while it holds t.mu
    ready,     \* tasks of poll's GetReadyTasks snapshot not yet visited
    cand,      \* the task poll is leasing paths for
    got,       \* len(acquired): paths of cand leased in this visit
    resuming,  \* rows ResumeActiveTasks has still to visit
    pc,        \* where each goroutine is; pc[Resumer] is ResumeActiveTasks
    arg,       \* argument of the dag method a process is in
    kids       \* children UnblockDependents has still to visit

trackerVars == <<active, closed, cancelled, pollPc, ready, cand, got,
                 resuming, pc, arg, kids>>
pollVars    == <<pollPc, ready, cand, got>>
goVars      == <<pc, arg, kids>>

Resumer == 0
Proc    == Task \cup {Resumer}

\* Program counters from executeTask to the end of the deferred t.mu section.
ExecPc == {"spawned", "run", "unblock", "child", "count", "failchild",
           "pendchild", "faildeps", "exit"}
ProcPc == ExecPc \cup {"idle", "release", "call", "resume"}

Executing == {t \in Task : pc[t] \in ExecPc}

\* NewTrackerWithWorkers clamps the pool size to at least one.
WorkerLimit == IF MaxWorkers < 1 THEN 1 ELSE MaxWorkers

\* Seeded fault: one worker too many.
HasRoom == Cardinality(active) <= WorkerLimit

HasFreeWorker == Cardinality(active) < WorkerLimit

MuFree == pollPc = "idle" /\ pc[Resumer] \in {"idle", "call"}

PathsOf(t) == {OwnedPaths[t][i] : i \in 1 .. Len(OwnedPaths[t])}

TrackerTypeOK ==
    /\ active    \in SUBSET Task
    /\ closed    \in BOOLEAN
    /\ cancelled \in BOOLEAN
    /\ pollPc    \in {"idle", "next", "lease", "rollback"}
    /\ ready     \in SUBSET Task
    /\ cand      \in IF pollPc \in {"lease", "rollback"} THEN Task ELSE {NoTask}
    /\ got       \in Nat
    /\ resuming  \in SUBSET Task
    /\ pc        \in [Proc -> ProcPc]
    /\ arg       \in [Proc -> Task \cup {NoTask}]
    /\ kids      \in [Proc -> SUBSET Task]

\* No tracker: before NewTracker, and after the process is gone.
TrackerInit ==
    /\ active = {}  /\ closed = FALSE  /\ cancelled = FALSE
    /\ pollPc = "idle"  /\ ready = {}  /\ cand = NoTask  /\ got = 0
    /\ resuming = {}
    /\ pc   = [q \in Proc |-> "idle"]
    /\ arg  = [q \in Proc |-> NoTask]
    /\ kids = [q \in Proc |-> {}]

(***************************************************************************)
(* poll                                                                    *)
(***************************************************************************)

PollStart ==
    /\ MuFree /\ ~closed /\ HasFreeWorker
    /\ pollPc' = "next" /\ ready' = ReadyTasks
    /\ UNCHANGED <<dagVars, active, closed, cancelled, cand, got, resuming, goVars>>

\* Seeded fault: a task already in t.active is not skipped.
TakeEvenIfActive(t) ==
    /\ pollPc = "next" /\ HasFreeWorker /\ t \in ready
    /\ ready' = ready \ {t}
    /\ pollPc' = "lease" /\ cand' = t /\ got' = 0
    /\ UNCHANGED <<dagVars, active, closed, cancelled, resuming, goVars>>

\* One round of the loop: a task already in t.active is passed over.  The
\* query has no ORDER BY, hence any task of the snapshot may come next.
PollVisit(t) ==
    /\ pollPc = "next" /\ HasFreeWorker /\ t \in ready
    /\ ready' = ready \ {t}
    /\ IF t \in active
         THEN UNCHANGED <<pollPc, cand, got>>
         ELSE pollPc' = "lease" /\ cand' = t /\ got' = 0
    /\ UNCHANGED <<dagVars, active, closed, cancelled, resuming, goVars>>

\* AcquirePathLease of the next path; a refusal leads to the rollback.
PollLease ==
    /\ pollPc = "lease" /\ got < Len(OwnedPaths[cand])
    /\ LET p == OwnedPaths[cand][got + 1]
       IN  /\ AcquirePathLease(cand, p)
           /\ IF Acquirable(cand, p)
                THEN got' = got + 1 /\ UNCHANGED pollPc
                ELSE pollPc' = "rollback" /\ UNCHANGED got
    /\ UNCHANGED <<status, column, parents, active, closed, cancelled, ready,
                   cand, resuming, goVars>>

\* Seeded fault: the leases taken before the refusal are kept.
KeepLeases ==
    /\ pollPc = "rollback"
    /\ pollPc' = "next" /\ cand' = NoTask /\ got' = 0
    /\ UNCHANGED <<dagVars, active, closed, cancelled, ready, resuming, goVars>>

\* All leases of the task go, also those taken when it was planned, but
\* only if this visit had acquired at least one.
PollRollback ==
    /\ pollPc = "rollback"
    /\ IF got > 0 THEN ReleasePathLeases(cand) ELSE UNCHANGED lease
    /\ pollPc' = "next" /\ cand' = NoTask /\ got' = 0
    /\ UNCHANGED <<status, column, parents, active, closed, cancelled, ready,
                   resuming, goVars>>

\* executeTask: the task enters t.active and its goroutine is spawned.
PollExecute ==
    /\ pollPc = "lease" /\ got = Len(OwnedPaths[cand])
    /\ active' = active \cup {cand}
    /\ pc' = [pc EXCEPT ![cand] = "spawned"]
    /\ pollPc' = "next" /\ cand' = NoTask /\ got' = 0
    /\ UNCHANGED <<dagVars, closed, cancelled, ready, resuming, arg, kids>>

PollEnd ==
    /\ pollPc = "next" /\ (ready = {} \/ ~HasFreeWorker)
    /\ pollPc' = "idle" /\ ready' = {}
    /\ UNCHANGED <<dagVars, active, closed, cancelled, cand, got, resuming, goVars>>

Poll ==
    \/ PollStart \/ PollLease \/ PollRollback \/ PollExecute \/ PollEnd
    \/ \E t \in Task : PollVisit(t)

(***************************************************************************)
(* The goroutine of executeTask                                            *)
(***************************************************************************)

\* A step of a goroutine that leaves t.mu, the leases and the graph alone.
TrackerRest == UNCHANGED <<active, closed, cancelled, pollVars, resuming>>

\* Seeded fault: the name the task store gives to that status is written.
ActivateAsRunning(t) ==
    /\ pc[t] = "spawned"
    /\ UpdateTaskStatus(t, "running")
    /\ pc' = [pc EXCEPT ![t] = "run"]
    /\ UNCHANGED <<column, parents, lease, arg, kids>> /\ TrackerRest

\* CreateRun, CreateTask, CreateAttempt in the task store, then the dag row.
Activate(t) ==
    /\ pc[t] = "spawned"
    /\ UpdateTaskStatus(t, "active")
    /\ pc' = [pc EXCEPT ![t] = "run"]
    /\ UNCHANGED <<column, parents, lease, arg, kids>> /\ TrackerRest

NoAttempt(t) ==
    /\ pc[t] = "spawned" /\ "noattempt" \in Outcomes
    /\ UpdateTaskStatus(t, "failed")
    /\ pc' = [pc EXCEPT ![t] = "exit"]
    /\ UNCHANGED <<column, parents, lease, arg, kids>> /\ TrackerRest

\* Seeded fault: the dependents are failed although the task completed.
RunCompletePropagatesFail(t) ==
    /\ pc[t] = "run" /\ "complete" \in Outcomes
    /\ UpdateTaskStatus(t, "completed")
    /\ pc' = [pc EXCEPT ![t] = "faildeps"]
    /\ UNCHANGED <<column, parents, lease, arg, kids>> /\ TrackerRest

\* Run returns; the first COMPLETE or FAIL of its decisions is applied.
RunComplete(t) ==
    /\ pc[t] = "run" /\ "complete" \in Outcomes
    /\ UpdateTaskStatus(t, "completed")
    /\ pc'  = [pc EXCEPT ![t] = "unblock"]
    /\ arg' = [arg EXCEPT ![t] = t]
    /\ UNCHANGED <<column, parents, lease, kids>> /\ TrackerRest

RunFail(t) ==
    /\ pc[t] = "run" /\ "fail" \in Outcomes
    /\ UpdateTaskStatus(t, "failed")
    /\ pc' = [pc EXCEPT ![t] = "faildeps"]
    /\ UNCHANGED <<column, parents, lease, arg, kids>> /\ TrackerRest

\* Run returns an error, on its own or because its context is cancelled:
\* the row fails, the dependents are not told.
RunError(t) ==
    /\ pc[t] = "run" /\ ("error" \in Outcomes \/ closed \/ cancelled)
    /\ UpdateTaskStatus(t, "failed")
    /\ pc' = [pc EXCEPT ![t] = "exit"]
    /\ UNCHANGED <<column, parents, lease, arg, kids>> /\ TrackerRest

\* Run returns neither an error nor a COMPLETE or FAIL decision (retries
\* exhausted, validator rejecting every attempt): the row stays active.
RunNone(t) ==
    /\ pc[t] = "run" /\ "none" \in Outcomes
    /\ pc' = [pc EXCEPT ![t] = "exit"]
    /\ UNCHANGED <<dagVars, arg, kids>> /\ TrackerRest

PropagateFail(t) ==
    /\ pc[t] = "faildeps"
    /\ FailDependents(t)
    /\ pc' = [pc EXCEPT ![t] = "exit"]
    /\ UNCHANGED <<column, parents, lease, arg, kids>> /\ TrackerRest

\* Deferred function, first half: delete(t.active, id) under t.mu.
LeaveActive(t) ==
    /\ pc[t] = "exit" /\ MuFree
    /\ active' = active \ {t}
    /\ pc' = [pc EXCEPT ![t] = "release"]
    /\ UNCHANGED <<dagVars, closed, cancelled, pollVars, resuming, arg, kids>>

\* Deferred function, second half, after t.mu is unlocked.
Release(t) ==
    /\ pc[t] = "release"
    /\ ReleasePathLeases(t)
    /\ pc' = [pc EXCEPT ![t] = "idle"]
    /\ UNCHANGED <<status, column, parents, arg, kids>> /\ TrackerRest

(***************************************************************************)
(* UnblockDependents(arg[q]), run by the goroutine of a completed task or  *)
(* by ResumeActiveTasks: the children are read under the store's mutex,    *)
(* which is then unlocked; UnblockIfReady of each child is three           *)
(* statements, each a step.                                                *)
(***************************************************************************)

ReturnPc(q) == IF q = Resumer THEN "resume" ELSE "exit"

\* Seeded fault: children are looked up in the older single-parent column.
ReadColumnChildren(q) ==
    /\ pc[q] = "unblock"
    /\ kids' = [kids EXCEPT ![q] = {c \in Task : column[c] = arg[q]}]
    /\ pc'   = [pc EXCEPT ![q] = "child"]
    /\ UNCHANGED <<dagVars, arg>> /\ TrackerRest

ReadChildren(q) ==
    /\ pc[q] = "unblock"
    /\ kids' = [kids EXCEPT ![q] = Children(arg[q])]
    /\ pc'   = [pc EXCEPT ![q] = "child"]
    /\ UNCHANGED <<dagVars, arg>> /\ TrackerRest

\* Seeded fault: the check of the other parents is left out.
UnblockUnchecked(q, c) ==
    /\ pc[q] = "child" /\ c \in kids[q]
    /\ kids' = [kids EXCEPT ![q] = @ \ {c}]
    /\ pc'  = [pc EXCEPT ![q] = "pendchild"]
    /\ arg' = [arg EXCEPT ![q] = c]
    /\ UNCHANGED dagVars /\ TrackerRest

\* UnblockIfReady: AllParentsComplete, locked on its own.
CheckParents(q, c) ==
    /\ pc[q] = "child" /\ c \in kids[q]
    /\ kids' = [kids EXCEPT ![q] = @ \ {c}]
    /\ IF AllParentsComplete(c)
         THEN pc' = [pc EXCEPT ![q] = "count"] /\ arg' = [arg EXCEPT ![q] = c]
         ELSE UNCHANGED <<pc, arg>>
    /\ UNCHANGED dagVars /\ TrackerRest

\* UnblockIfReady: the count of failed parents, not locked.
CountFailures(q) ==
    /\ pc[q] = "count"
    /\ pc' = [pc EXCEPT ![q] = IF SomeParentFailed(arg[q]) THEN "failchild"
                                                           ELSE "pendchild"]
    /\ UNCHANGED <<dagVars, arg, kids>> /\ TrackerRest

\* UnblockIfReady: the conditional update, not locked.
MoveChild(q) ==
    /\ pc[q] \in {"failchild", "pendchild"}
    /\ MoveBlocked(arg[q], IF pc[q] = "failchild" THEN "failed" ELSE "pending")
    /\ pc' = [pc EXCEPT ![q] = "child"]
    /\ UNCHANGED <<column, parents, lease, arg, kids>> /\ TrackerRest

UnblockReturn(q) ==
    /\ pc[q] = "child" /\ kids[q] = {}
    /\ pc'  = [pc EXCEPT ![q] = ReturnPc(q)]
    /\ arg' = [arg EXCEPT ![q] = NoTask]
    /\ UNCHANGED <<dagVars, kids>> /\ TrackerRest

Unblock(q) ==
    \/ ReadChildren(q) \/ CountFailures(q) \/ MoveChild(q) \/ UnblockReturn(q)
    \/ \E c \in Task : CheckParents(q, c)

(***************************************************************************)
(* ResumeActiveTasks, called once after Start, under t.mu.  Only blocked   *)
(* rows with the single-parent column set are looked at.                   *)
(***************************************************************************)

ResumeStart ==
    /\ pc[Resumer] = "call" /\ pollPc = "idle"
    /\ resuming' = {b \in BlockedTasks : column[b] # NoTask}
    /\ pc' = [pc EXCEPT ![Resumer] = "resume"]
    /\ UNCHANGED <<dagVars, active, closed, cancelled, pollVars, arg, kids>>

\* Seeded fault: the blocked task's own id is passed to UnblockDependents.
ResumeVisitSelf(b) ==
    /\ pc[Resumer] = "resume" /\ b \in resuming
    /\ resuming' = resuming \ {b}
    /\ IF status[column[b]] = "completed"
         THEN /\ pc'  = [pc EXCEPT ![Resumer] = "unblock"]
              /\ arg' = [arg EXCEPT ![Resumer] = b]
         ELSE UNCHANGED <<pc, arg>>
    /\ UNCHANGED <<dagVars, active, closed, cancelled, pollVars, kids>>

ResumeVisit(b) ==
    /\ pc[Resumer] = "resume" /\ b \in resuming
    /\ resuming' = resuming \ {b}
    /\ IF status[column[b]] = "completed"
         THEN /\ pc'  = [pc EXCEPT ![Resumer] = "unblock"]
              /\ arg' = [arg EXCEPT ![Resumer] = column[b]]
         ELSE UNCHANGED <<pc, arg>>
    /\ UNCHANGED <<dagVars, active, closed, cancelled, pollVars, kids>>

ResumeEnd ==
    /\ pc[Resumer] = "resume" /\ resuming = {}
    /\ pc' = [pc EXCEPT ![Resumer] = "idle"]
    /\ UNCHANGED <<dagVars, active, closed, cancelled, pollVars, resuming, arg, kids>>

Resume == ResumeStart \/ ResumeEnd \/ \E b \in Task : ResumeVisit(b)

(***************************************************************************)
(* Start, Close and the end of the process                                 *)
(***************************************************************************)

\* NewTracker, Start, and the call of ResumeActiveTasks under way.
StartTracker ==
    /\ pc' = [pc EXCEPT ![Resumer] = "call"]
    /\ UNCHANGED <<dagVars, arg, kids>> /\ TrackerRest

\* Close cancels and forgets every active task; the goroutines go on.
Close ==
    /\ MuFree
    /\ closed' = TRUE /\ active' = {}
    /\ UNCHANGED <<dagVars, cancelled, pollVars, resuming, goVars>>

CancelContext ==
    /\ cancelled' = TRUE
    /\ UNCHANGED <<dagVars, active, closed, pollVars, resuming, goVars>>

\* The process ends, by itself or killed: memory is lost, the file stays.
ProcessEnds ==
    /\ active' = {}  /\ closed' = FALSE  /\ cancelled' = FALSE
    /\ pollPc' = "idle"  /\ ready' = {}  /\ cand' = NoTask  /\ got' = 0
    /\ resuming' = {}
    /\ pc'   = [q \in Proc |-> "idle"]
    /\ arg'  = [q \in Proc |-> NoTask]
    /\ kids' = [q \in Proc |-> {}]
    /\ UNCHANGED dagVars

Goroutine(t) ==
    \/ Activate(t) \/ NoAttempt(t)
    \/ RunComplete(t) \/ RunFail(t) \/ RunError(t) \/ RunNone(t)
    \/ PropagateFail(t) \/ LeaveActive(t) \/ Release(t)

TrackerNext ==
    \/ Poll
    \/ Resume
    \/ \E t \in Task : Goroutine(t)
    \/ \E q \in Proc : Unblock(q)
=============================================================================
