------------------------------ MODULE TaskStore ------------------------------
(***************************************************************************)
(* The task store of internal/taskstore/store.go: one SQLite file that the *)
(* runs of a machine share by default.  A statement is one step;           *)
(* statements that fail are outside the model.                             *)
(*                                                                         *)
(* A run has one task.  Attempt rows are named by the run and the attempt  *)
(* number, worker rows by the run and the attempt they were started for.   *)
(***************************************************************************)
EXTENDS Integers

CONSTANTS
    Run,         \* the runs started on the file
    MaxAttempts  \* Config.MaxAttempts of each run

ASSUME MaxAttemptsAssumption == MaxAttempts \in [Run -> Int]

\* Run puts defaultMaxAttempts in the place of a limit that is not positive.
AttemptLimit(r) == IF MaxAttempts[r] <= 0 THEN 3 ELSE MaxAttempts[r]

Number  == UNION {1 .. AttemptLimit(r) : r \in Run}
Attempt == Run \X Number

VARIABLES
    run,         \* runs.status, "absent" until the row is inserted
    task,        \* tasks.status
    attempt,     \* attempts.status
    worker,      \* workers.status
    checkpoint,  \* attempts with a checkpoint_commit
    effects,     \* effect_keys: run, attempt number and decision
    candidate,   \* run_records.candidate_accepted_attempt, 0 if none
    adopted,     \* run_records.final_adopted_attempt, 0 if none
    tombstones   \* runs with a row in tombstones

storeVars == <<run, task, attempt, worker, checkpoint, effects, candidate,
               adopted, tombstones>>

Status == {"absent", "pending", "running", "completed", "failed", "cancelled",
           "interrupted"}
Decision == {"COMPLETE", "CONTINUE", "RETRY_CLEAN", "REPLACE", "FAIL", "VALIDATE"}

IsTerminal(s) == s \in {"completed", "failed", "cancelled"}

StoreTypeOK ==
    /\ run     \in [Run -> Status]     /\ task   \in [Run -> Status]
    /\ attempt \in [Attempt -> Status] /\ worker \in [Attempt -> Status]
    /\ checkpoint \subseteq Attempt
    /\ effects \subseteq Run \X Number \X Decision
    /\ candidate \in [Run -> Number \cup {0}]
    /\ adopted   \in [Run -> Number \cup {0}]
    /\ tombstones \subseteq Run

StoreInit ==
    /\ run = [r \in Run |-> "absent"]         /\ task = run
    /\ attempt = [a \in Attempt |-> "absent"] /\ worker = attempt
    /\ checkpoint = {} /\ effects = {} /\ tombstones = {}
    /\ candidate = [r \in Run |-> 0]          /\ adopted = candidate

ActiveAttempts == {a \in Attempt : attempt[a] \in {"pending", "running"}}

\* GetAttemptsByTask, and its last row in number order.
Rows(r) == {n \in Number : attempt[<<r, n>>] # "absent"}
IsLast(r, n) == n \in Rows(r) /\ \A m \in Rows(r) : m <= n

CreateRunAndTask(r) ==
    /\ run'  = [run EXCEPT ![r] = "pending"]
    /\ task' = [task EXCEPT ![r] = "pending"]

CreateAttempt(a)          == attempt' = [attempt EXCEPT ![a] = "pending"]
UpdateRunStatus(r, s)     == run' = [run EXCEPT ![r] = s]
UpdateTaskStatus(r, s)    == task' = [task EXCEPT ![r] = s]
UpdateAttemptStatus(a, s) == attempt' = [attempt EXCEPT ![a] = s]
RecordWorkerPID(a)        == worker' = [worker EXCEPT ![a] = "running"]
UpdateWorkerStatus(a, s)  == worker' = [worker EXCEPT ![a] = s]

UpdateAttemptCheckpoint(a, dirty) ==
    checkpoint' = IF dirty THEN checkpoint \cup {a} ELSE checkpoint \ {a}

RecordCandidate(r, n) == candidate' = [candidate EXCEPT ![r] = n]
RecordAdoption(r, n)  == adopted' = [adopted EXCEPT ![r] = n]
RecordTombstone(r)    == tombstones' = tombstones \cup {r}
=============================================================================
