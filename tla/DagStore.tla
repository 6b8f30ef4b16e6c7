------------------------------ MODULE DagStore ------------------------------
(***************************************************************************)
(* The persistent task graph of internal/dag/dag.go: the tables dag_tasks, *)
(* task_dependencies and path_leases of one SQLite file.                   *)
(*                                                                         *)
(* The file is opened with a single connection, so one SQL statement is    *)
(* one atomic step.  The operators below are the statements, or the whole  *)
(* methods where the method holds the store's mutex over all of its        *)
(* statements.  UnblockDependents and UnblockIfReady do NOT hold it: their *)
(* statements are separate operators, sequenced by the module Tracker.     *)
(*                                                                         *)
(* A task is named by its row id, 1..N in the order of insertion; ids are  *)
(* AUTOINCREMENT, never reused, and rows are never deleted.  Failing SQL   *)
(* statements (disk full, busy) are outside the model.                     *)
(***************************************************************************)
EXTENDS Naturals, Sequences

CONSTANTS
    N,      \* number of task rows ever inserted
    Path    \* the owned paths the plans mention

ASSUME NAssumption == N \in Nat

Task   == 1 .. N
NoTask == 0            \* NULL or 0 in a column that names a task

VARIABLES
    status,     \* dag_tasks.status, "absent" before the row is inserted
    column,     \* dag_tasks.depends_on_task_id, the older single-parent column
    parents,    \* task_dependencies: the rows depends_on_task_id of each task_id
    lease       \* path_leases: owner of each path, NoTask without a row

dagVars == <<status, column, parents, lease>>

Status == {"absent", "pending", "blocked", "active", "completed", "failed"}

DagTypeOK ==
    /\ status  \in [Task -> Status]
    /\ column  \in [Task -> Task \cup {NoTask}]
    /\ parents \in [Task -> SUBSET Task]
    /\ lease   \in [Path -> Task \cup {NoTask}]

DagInit ==
    /\ status  = [t \in Task |-> "absent"]
    /\ column  = [t \in Task |-> NoTask]
    /\ parents = [t \in Task |-> {}]
    /\ lease   = [p \in Path |-> NoTask]

(***************************************************************************)
(* Queries.                                                                *)
(***************************************************************************)

ReadyTasks   == {t \in Task : status[t] = "pending"}
BlockedTasks == {t \in Task : status[t] = "blocked"}
Children(t)  == {c \in Task : t \in parents[c]}

\* A missing JOIN partner is not counted, hence "absent".
AllParentsComplete(t) ==
    \A p \in parents[t] : status[p] \in {"absent", "completed", "failed"}

SomeParentFailed(t) == \E p \in parents[t] : status[p] = "failed"

Terminal(t) == status[t] \in {"completed", "failed"}

\* The result of AcquirePathLease.
Acquirable(t, p) == lease[p] \in {NoTask, t}

(***************************************************************************)
(* Statements that change the tables.  Each names only the variable it     *)
(* writes; the callers add what they leave UNCHANGED.                      *)
(***************************************************************************)

\* Seeded fault: the row keeps the default status of the column.
CreateTaskPending(t, dependsOn) ==
    /\ status[t] = "absent"
    /\ status'  = [status EXCEPT ![t] = "pending"]
    /\ column'  = [column EXCEPT ![t] = dependsOn]
    /\ parents' = [parents EXCEPT ![t] = {dependsOn} \ {NoTask}]

\* INSERT INTO dag_tasks, and the edge when dependsOn > 0.
CreateTaskFull(t, dependsOn) ==
    /\ status[t] = "absent"
    /\ status'  = [status EXCEPT ![t] = IF dependsOn = NoTask THEN "pending"
                                                              ELSE "blocked"]
    /\ column'  = [column EXCEPT ![t] = dependsOn]
    /\ parents' = [parents EXCEPT ![t] = {dependsOn} \ {NoTask}]

AddDependency(t, p) == parents' = [parents EXCEPT ![t] = @ \cup {p}]

UpdateTaskStatus(t, s) == status' = [status EXCEPT ![t] = s]

\* Seeded fault: the status update loses its "AND status='blocked'".
MoveBlockedAlways(t, s) == status' = [status EXCEPT ![t] = s]

\* UPDATE ... SET status=s WHERE id=t AND status='blocked'.
MoveBlocked(t, s) ==
    status' = [status EXCEPT ![t] = IF @ = "blocked" THEN s ELSE @]

\* One UPDATE over the direct children that are blocked.
FailDependents(t) ==
    status' = [c \in Task |->
                 IF t \in parents[c] /\ status[c] = "blocked" THEN "failed"
                                                              ELSE status[c]]

\* Seeded fault: the owner check is skipped and the row replaced.
StealPathLease(t, p) == lease' = [lease EXCEPT ![p] = t]

\* SELECT of the owner, then INSERT OR IGNORE, both under the mutex.
AcquirePathLease(t, p) ==
    lease' = [lease EXCEPT ![p] = IF Acquirable(t, p) THEN t ELSE @]

\* DELETE FROM path_leases WHERE task_id=t.
ReleasePathLeases(t) ==
    lease' = [p \in Path |-> IF lease[p] = t THEN NoTask ELSE lease[p]]
=============================================================================
