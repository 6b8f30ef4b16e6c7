----------------------------- MODULE Orchestrator -----------------------------
(***************************************************************************)
(* The attempt loop of internal/orchestrator/orchestrator.go (Run) for     *)
(* several runs that share a task store, with the processes and worktrees  *)
(* they own and the commands `omni result adopt` and `omni result reject`. *)
(*                                                                         *)
(* pc[r] is the next statement of run r; the locals of Run, createAttempt  *)
(* and observeAndWait that later statements read are variables here.       *)
(*                                                                         *)
(* Left out, because no build of the program takes them or because they    *)
(* touch none of this state: statements of the store that fail, `git       *)
(* worktree list` failing, and the policy registry, mailbox and DAG store  *)
(* of Config (unset outside the tests).  SIGKILL always ends a worker.     *)
(***************************************************************************)
EXTENDS TaskStore, FiniteSets

CONSTANTS
    Coordinated,  \* runs with a coordinator: `omni run --coordinator`
    Precreated,   \* runs of the tracker, whose rows exist before Run starts
    Validated,    \* runs with a validator command
    RepoOf,       \* Config.Repo of each run
    Reviewed      \* bound: the runs the user adopts or rejects

ASSUME RunKindAssumption ==
    /\ Coordinated \subseteq Run /\ Precreated \subseteq Run
    /\ Validated \subseteq Run /\ Reviewed \subseteq Run
    /\ Coordinated \cap Precreated = {}  \* the tracker configures none

VARIABLES
    pc, num, c5, exited, passed, final,
    cancelled,  \* runs whose context is cancelled
    proc,       \* the worker process of an attempt
    worktrees,  \* attempts whose worktree and branch exist
    accepted,   \* attempts whose validator exited with 0
    adopting    \* the attempt a `result adopt` of the run has checked, 0 if none

localVars == <<pc, num, c5, exited, passed, final, cancelled>>
worldVars == <<proc, worktrees, accepted>>
vars == <<storeVars, localVars, worldVars, adopting>>

Step == {"idle", "run", "c5", "begin", "start", "loop", "row", "worker",
         "instruct", "observe", "recover", "validate", "mark", "decide",
         "candidate", "tombstone", "close", "endRun", "endTask", "done",
         "killed"}  \* the process is gone, see Recovery

MaxAutoValidate == 3

TypeOK ==
    /\ StoreTypeOK
    /\ pc \in [Run -> Step]
    /\ num \in [Run -> Nat]
    /\ \A r \in Run : num[r] \in 1 .. AttemptLimit(r) + 1
    /\ c5 \in [Run -> SUBSET Attempt]
    /\ exited \in [Run -> BOOLEAN] /\ passed \in [Run -> BOOLEAN]
    /\ final \in [Run -> {"completed", "failed", "cancelled"}]
    /\ cancelled \subseteq Run
    /\ proc \in [Attempt -> {"none", "alive", "exit0", "crashed", "killed"}]
    /\ worktrees \subseteq Attempt /\ accepted \subseteq Attempt
    /\ adopting \in [Run -> Number \cup {0}]

Init ==
    /\ StoreInit
    /\ pc = [r \in Run |-> "idle"] /\ num = [r \in Run |-> 1]
    /\ c5 = [r \in Run |-> {}]     /\ cancelled = {}
    /\ exited = [r \in Run |-> FALSE] /\ passed = exited
    /\ final = [r \in Run |-> "failed"]
    /\ proc = [a \in Attempt |-> "none"]
    /\ worktrees = {} /\ accepted = {}
    /\ adopting = [r \in Run |-> 0]

-----------------------------------------------------------------------------

At(r, here) == pc[r] = here
Goto(r, there) == pc' = [pc EXCEPT ![r] = there]

Current(r) == <<r, num[r]>>

\* A run of the tracker uses the row it was given for each of its attempts.
RowOf(a) == IF a[1] \in Precreated THEN <<a[1], 1>> ELSE a
Row(r)   == RowOf(Current(r))

\* rc.attempts: the attempts whose worker was recorded.
Tracked(r) == {n \in Number : worker[<<r, n>>] # "absent"}

\* Seeded fault: the process outlives the grace period of Close.
KillNothing(dead) == UNCHANGED proc

Kill(dead) ==
    proc' = [a \in Attempt |->
               IF a \in dead /\ proc[a] = "alive" THEN "killed" ELSE proc[a]]

\* exitCode of observeAndWait: zero unless the worker was seen to exit.
ExitCodeZero(r) == exited[r] => proc[Current(r)] = "exit0"

\* worktree.Manager.Create, which refuses a branch that exists, and Remove.
AddWorktree(a)    == a \notin worktrees /\ worktrees' = worktrees \cup {a}
RemoveWorktree(a) == worktrees' = worktrees \ {a}

\* CurrentAuthority and ValidateMutation: the run must not be behind the rows
\* of its own attempts; the other generations of the intent are read back
\* from the store and are never behind.
AuthorityRejects(r) == \E n \in Rows(r) : n > num[r]

Finalize(r, status) ==
    /\ Goto(r, "tombstone")
    /\ final' = [final EXCEPT ![r] = status]

\* Seeded fault: the listing of the process's own directory is read.
WorktreeListed(a, repo) == a[1] \in Precreated

\* worktreeExists: the tracker's rows are on branch HEAD, which every listing
\* of worktrees contains.
WorktreeExists(a, repo) ==
    \/ a[1] \in Precreated
    \/ a \in worktrees /\ RepoOf[a[1]] = repo

-----------------------------------------------------------------------------
(* Before the loop *)

\* executeTask creates the rows and hands their identifiers to Run.
Precreate(r) ==
    /\ At(r, "idle") /\ r \in Precreated
    /\ Goto(r, "run")
    /\ CreateRunAndTask(r) /\ CreateAttempt(<<r, 1>>)
    /\ UNCHANGED <<worker, checkpoint, effects, candidate, adopted, tombstones,
                   num, c5, exited, passed, final, cancelled, worldVars, adopting>>

ReadActive(r) ==
    /\ At(r, IF r \in Precreated THEN "run" ELSE "idle")
    /\ Goto(r, "c5")
    /\ c5' = [c5 EXCEPT ![r] = ActiveAttempts]
    /\ UNCHANGED <<storeVars, num, exited, passed, final, cancelled, worldVars, adopting>>

\* C5: one attempt of the list read before; its status is not read again.
Visit(r) ==
    /\ At(r, "c5")
    /\ \E a \in c5[r] :
         /\ c5' = [c5 EXCEPT ![r] = @ \ {a}]
         /\ IF WorktreeExists(a, RepoOf[r])
              THEN UNCHANGED attempt
              ELSE UpdateAttemptStatus(a, "cancelled")
    /\ UNCHANGED <<run, task, worker, checkpoint, effects, candidate, adopted, tombstones,
                   pc, num, exited, passed, final, cancelled, worldVars, adopting>>

\* CreateRun, RecordRun and CreateTask, or the rows of Precreate.
Begin(r) ==
    /\ At(r, "c5") /\ c5[r] = {}
    /\ Goto(r, "start")
    /\ IF r \in Precreated THEN UNCHANGED <<run, task>> ELSE CreateRunAndTask(r)
    /\ UNCHANGED <<attempt, worker, checkpoint, effects, candidate, adopted, tombstones,
                   num, c5, exited, passed, final, cancelled, worldVars, adopting>>

\* The first wake: a coordinator may answer FAIL or not answer.
InitialWake(r) ==
    /\ At(r, "start")
    /\ \/ Goto(r, "loop") /\ UNCHANGED final
       \/ r \in Coordinated /\ Finalize(r, "failed")
    /\ UNCHANGED <<storeVars, num, c5, exited, passed, cancelled, worldVars, adopting>>

-----------------------------------------------------------------------------
(* The loop: createAttempt *)

\* Seeded fault: the attempt after the last one is still made.
OutOfAttemptsLate(r) ==
    \/ num[r] > AttemptLimit(r) + 1
    \/ r \notin Coordinated /\ num[r] > MaxAutoValidate

\* Without a coordinator every start is an automatic VALIDATE.
OutOfAttempts(r) ==
    \/ num[r] > AttemptLimit(r)
    \/ r \notin Coordinated /\ num[r] > MaxAutoValidate

Stopped(r) ==
    /\ At(r, "loop")
    /\ \/ r \in cancelled /\ Finalize(r, "cancelled")
       \/ r \notin cancelled /\ OutOfAttempts(r) /\ Finalize(r, "failed")
    /\ UNCHANGED <<storeVars, num, c5, exited, passed, cancelled, worldVars, adopting>>

CreateWorktree(r) ==
    /\ At(r, "loop") /\ r \notin cancelled /\ ~OutOfAttempts(r)
    /\ \/ /\ Goto(r, "row")
          /\ AddWorktree(Current(r))
          /\ UNCHANGED final
       \/ Finalize(r, "failed") /\ UNCHANGED worktrees
    /\ UNCHANGED <<storeVars, num, c5, exited, passed, cancelled, proc, accepted, adopting>>

InsertAttempt(r) ==
    /\ At(r, "row")
    /\ Goto(r, "worker")
    /\ IF r \in Precreated THEN UNCHANGED attempt ELSE CreateAttempt(Current(r))
    /\ UNCHANGED <<run, task, worker, checkpoint, effects, candidate, adopted, tombstones,
                   num, c5, exited, passed, final, cancelled, worldVars, adopting>>

\* A refused or failed start takes the worktree with it and leaves the row.
StartWorker(r) ==
    /\ At(r, "worker")
    /\ \/ /\ ~AuthorityRejects(r)
          /\ Goto(r, "instruct")
          /\ proc' = [proc EXCEPT ![Current(r)] = "alive"]
          /\ UNCHANGED <<worktrees, final>>
       \/ /\ Finalize(r, "failed")
          /\ RemoveWorktree(Current(r))
          /\ UNCHANGED proc
    /\ UNCHANGED <<storeVars, num, c5, exited, passed, cancelled, accepted, adopting>>

RecordWorker(r) ==
    /\ At(r, "instruct")
    /\ Goto(r, "observe")
    /\ RecordWorkerPID(Current(r))
    /\ UNCHANGED <<run, task, attempt, checkpoint, effects, candidate, adopted, tombstones,
                   num, c5, exited, passed, final, cancelled, worldVars, adopting>>

-----------------------------------------------------------------------------
(* The loop: observeAndWait *)

\* Seeded fault: a crash is not taken for an exit.
ObserveCleanExit(r) ==
    /\ At(r, "observe") /\ proc[Current(r)] \notin {"alive", "crashed"}
    /\ Goto(r, "recover")
    /\ exited' = [exited EXCEPT ![r] = TRUE]
    /\ UNCHANGED <<storeVars, num, c5, passed, final, cancelled, worldVars, adopting>>

ObserveExit(r) ==
    /\ At(r, "observe") /\ proc[Current(r)] # "alive"
    /\ Goto(r, "recover")
    /\ exited' = [exited EXCEPT ![r] = TRUE]
    /\ UNCHANGED <<storeVars, num, c5, passed, final, cancelled, worldVars, adopting>>

\* The supervisor closes its channel; no exit is recorded.
ObserveCancel(r) ==
    /\ At(r, "observe") /\ r \in cancelled
    /\ Goto(r, "recover")
    /\ exited' = [exited EXCEPT ![r] = FALSE]
    /\ UNCHANGED <<storeVars, num, c5, passed, final, cancelled, worldVars, adopting>>

\* A silent worker and a coordinator that answers RETRY_CLEAN; any other
\* answer leaves the run where it is.
Quiescent(r) ==
    /\ At(r, "observe") /\ r \in Coordinated
    /\ Goto(r, "recover")
    /\ Kill({Current(r)})
    /\ exited' = [exited EXCEPT ![r] = TRUE]
    /\ UNCHANGED <<storeVars, num, c5, passed, final, cancelled, worktrees, accepted, adopting>>

\* Seeded fault: the checkpoint is made without stopping the worker.
RecoverRunning(r) ==
    /\ At(r, "recover")
    /\ Goto(r, "validate")
    /\ \E dirty \in BOOLEAN : UpdateAttemptCheckpoint(Row(r), dirty)
    /\ UNCHANGED <<run, task, attempt, worker, effects, candidate, adopted, tombstones,
                   num, c5, exited, passed, final, cancelled, worldVars, adopting>>

\* supervisor.Recover stops the worker first.  No checkpoint is made of a
\* clean worktree, or of one the secret scan blocks.
Recover(r) ==
    /\ At(r, "recover")
    /\ Goto(r, "validate")
    /\ Kill({Current(r)})
    /\ \E dirty \in BOOLEAN : UpdateAttemptCheckpoint(Row(r), dirty)
    /\ UNCHANGED <<run, task, attempt, worker, effects, candidate, adopted, tombstones,
                   num, c5, exited, passed, final, cancelled, worktrees, accepted, adopting>>

\* Seeded fault: the verdict of an earlier attempt is not reset.
ValidateStale(r) ==
    /\ At(r, "validate")
    /\ Goto(r, "mark")
    /\ \E ok \in IF r \in Validated THEN BOOLEAN ELSE {FALSE} :
         /\ passed' = [passed EXCEPT ![r] = @ \/ ok]
         /\ accepted' = IF ok THEN accepted \cup {Current(r)} ELSE accepted
         /\ UpdateAttemptStatus(Row(r),
              IF ok /\ ExitCodeZero(r) THEN "completed" ELSE "failed")
    /\ UNCHANGED <<run, task, worker, checkpoint, effects, candidate, adopted, tombstones,
                   num, c5, exited, final, cancelled, proc, worktrees, adopting>>

\* The validator's verdict and the status of the attempt row.
Validate(r) ==
    /\ At(r, "validate")
    /\ Goto(r, "mark")
    /\ \E ok \in IF r \in Validated THEN BOOLEAN ELSE {FALSE} :
         /\ passed' = [passed EXCEPT ![r] = ok]
         /\ accepted' = IF ok THEN accepted \cup {Current(r)} ELSE accepted
         /\ UpdateAttemptStatus(Row(r),
              IF ok /\ ExitCodeZero(r) THEN "completed" ELSE "failed")
    /\ UNCHANGED <<run, task, worker, checkpoint, effects, candidate, adopted, tombstones,
                   num, c5, exited, final, cancelled, proc, worktrees, adopting>>

MarkWorker(r) ==
    /\ At(r, "mark")
    /\ Goto(r, "decide")
    /\ UpdateWorkerStatus(Current(r),
         IF passed[r] /\ ExitCodeZero(r) THEN "completed" ELSE "failed")
    /\ UNCHANGED <<run, task, attempt, checkpoint, effects, candidate, adopted, tombstones,
                   num, c5, exited, passed, final, cancelled, worldVars, adopting>>

-----------------------------------------------------------------------------
(* The loop: the decision *)

\* allowedDecisions; FAIL also stands for a wake that failed.  Without a
\* coordinator the answer is VALIDATE, or COMPLETE once the validator passes.
Decisions(r) ==
    IF r \in Coordinated
      THEN {"RETRY_CLEAN", "FAIL"} \cup
           (IF passed[r] THEN {"COMPLETE"}
            ELSE IF exited[r] THEN {"REPLACE"} ELSE {"CONTINUE"})
      ELSE IF passed[r] THEN {"COMPLETE"} ELSE {"VALIDATE"}

\* DecisionGateway.Validate
GatewayRejects(r, d) == d = "COMPLETE" /\ ~passed[r]

\* A key that is already in effect_keys ends the run; any decision but
\* COMPLETE and FAIL starts another attempt.
Apply(r, d) ==
    IF <<r, num[r], d>> \in effects
      THEN Finalize(r, "cancelled") /\ UNCHANGED num
      ELSE CASE d = "COMPLETE" /\ ~GatewayRejects(r, d) ->
                  /\ Goto(r, "candidate")
                  /\ final' = [final EXCEPT ![r] = "completed"]
                  /\ UNCHANGED num
             [] d = "FAIL" \/ GatewayRejects(r, d) ->
                  Finalize(r, "failed") /\ UNCHANGED num
             [] OTHER ->
                  /\ Goto(r, "loop")
                  /\ num' = [num EXCEPT ![r] = @ + 1]
                  /\ UNCHANGED final

Decide(r) ==
    /\ At(r, "decide")
    /\ \E d \in Decisions(r) :
         /\ Apply(r, d)
         /\ effects' = effects \cup {<<r, num[r], d>>}
    /\ UNCHANGED <<run, task, attempt, worker, checkpoint, candidate, adopted, tombstones,
                   c5, exited, passed, cancelled, worldVars, adopting>>

\* Only a coordinated run has a run_record.
Candidate(r) ==
    /\ At(r, "candidate")
    /\ Goto(r, "tombstone")
    /\ IF r \in Coordinated THEN RecordCandidate(r, num[r]) ELSE UNCHANGED candidate
    /\ UNCHANGED <<run, task, attempt, worker, checkpoint, effects, adopted, tombstones,
                   num, c5, exited, passed, final, cancelled, worldVars, adopting>>

-----------------------------------------------------------------------------
(* finalizeTerminal *)

Tombstone(r) ==
    /\ At(r, "tombstone")
    /\ Goto(r, "close")
    /\ RecordTombstone(r)
    /\ UNCHANGED <<run, task, attempt, worker, checkpoint, effects, candidate, adopted,
                   num, c5, exited, passed, final, cancelled, worldVars, adopting>>

\* Each tracked attempt keeps a terminal status it already has.
CloseAttempts(r) ==
    LET mine == {<<r, n>> : n \in Tracked(r)}
        rows == {RowOf(a) : a \in mine}
        Close(status, S) ==
            [a \in Attempt |-> IF a \in S /\ ~IsTerminal(status[a])
                                 THEN final[r] ELSE status[a]]
    IN  /\ At(r, "close")
        /\ Goto(r, "endRun")
        /\ Kill(mine)
        /\ attempt' = Close(attempt, rows)
        /\ worker'  = Close(worker, mine)
        /\ UNCHANGED <<run, task, checkpoint, effects, candidate, adopted, tombstones,
                       num, c5, exited, passed, final, cancelled, worktrees, accepted, adopting>>

\* Seeded fault: a signal that came late overrides the status.
EndRunCancelled(r) ==
    /\ At(r, "endRun")
    /\ Goto(r, "endTask")
    /\ UpdateRunStatus(r, IF r \in cancelled THEN "cancelled" ELSE final[r])
    /\ UNCHANGED <<task, attempt, worker, checkpoint, effects, candidate, adopted, tombstones,
                   num, c5, exited, passed, final, cancelled, worldVars, adopting>>

EndRun(r) ==
    /\ At(r, "endRun")
    /\ Goto(r, "endTask")
    /\ UpdateRunStatus(r, final[r])
    /\ UNCHANGED <<task, attempt, worker, checkpoint, effects, candidate, adopted, tombstones,
                   num, c5, exited, passed, final, cancelled, worldVars, adopting>>

EndTask(r) ==
    /\ At(r, "endTask")
    /\ Goto(r, "done")
    /\ UpdateTaskStatus(r, final[r])
    /\ UNCHANGED <<run, attempt, worker, checkpoint, effects, candidate, adopted, tombstones,
                   num, c5, exited, passed, final, cancelled, worldVars, adopting>>

-----------------------------------------------------------------------------
(* The world: the user, the worker processes *)

\* SIGINT of `omni run`, or Cancel and Shutdown of the tracker.
Cancel(r) ==
    /\ ~At(r, "idle") /\ ~At(r, "done") /\ r \notin cancelled
    /\ cancelled' = cancelled \cup {r}
    /\ UNCHANGED <<storeVars, pc, num, c5, exited, passed, final, worldVars, adopting>>

WorkerExits(a) ==
    /\ proc[a] = "alive"
    /\ \E how \in {"exit0", "crashed"} : proc' = [proc EXCEPT ![a] = how]
    /\ UNCHANGED <<storeVars, localVars, worktrees, accepted, adopting>>

\* resultAdopt: its checks, ...
Adoptable(r, n) ==
    /\ r \in Coordinated /\ n \in Rows(r)
    /\ attempt[<<r, n>>] = "completed" /\ <<r, n>> \in checkpoint
    /\ candidate[r] = n /\ adopted[r] = 0
    /\ \A m \in Rows(r) : m > n => attempt[<<r, m>>] # "completed"

CheckAdoption(r) ==
    /\ r \in Reviewed /\ adopting[r] = 0
    /\ \E n \in Number : Adoptable(r, n) /\ adopting' = [adopting EXCEPT ![r] = n]
    /\ UNCHANGED <<storeVars, localVars, worldVars>>

\* ... and its writes, which come without a second look.
Adopt(r) ==
    LET n == adopting[r] IN
    /\ n # 0
    /\ adopting' = [adopting EXCEPT ![r] = 0]
    /\ RecordAdoption(r, n)
    /\ UpdateRunStatus(r, "completed") /\ UpdateTaskStatus(r, "completed")
    /\ UpdateAttemptStatus(<<r, n>>, "completed")
    /\ UpdateWorkerStatus(<<r, n>>, "completed")
    /\ UNCHANGED <<checkpoint, effects, candidate, tombstones, localVars, worldVars>>

\* resultReject: the last attempt, whatever its state.
Reject(r) ==
    /\ r \in Reviewed
    /\ \E n \in Number : IsLast(r, n) /\ UpdateAttemptStatus(<<r, n>>, "failed")
    /\ UNCHANGED <<run, task, worker, checkpoint, effects, candidate, adopted, tombstones,
                   localVars, worldVars, adopting>>

-----------------------------------------------------------------------------

RunStep(r) ==
    \/ Precreate(r) \/ ReadActive(r) \/ Visit(r) \/ Begin(r) \/ InitialWake(r)
    \/ Stopped(r) \/ CreateWorktree(r) \/ InsertAttempt(r) \/ StartWorker(r) \/ RecordWorker(r)
    \/ ObserveExit(r) \/ ObserveCancel(r)
    \/ Recover(r) \/ Validate(r) \/ MarkWorker(r) \/ Decide(r) \/ Candidate(r)
    \/ Tombstone(r) \/ CloseAttempts(r) \/ EndRun(r) \/ EndTask(r)

UserStep(r) == Cancel(r) \/ CheckAdoption(r) \/ Adopt(r) \/ Reject(r)

Next ==
    \/ \E r \in Run : RunStep(r) \/ Quiescent(r) \/ UserStep(r)
    \/ \E a \in Attempt : WorkerExits(a)

Spec == Init /\ [][Next]_vars

\* Two waits have no bound: for a worker that lives and is not cancelled
\* (observeAndWait 484-509) and for the validator, a command without context
\* or timeout (599-602).  All other code runs on.  The user, the workers, the
\* validator and a coordinator's RETRY_CLEAN owe nothing.
BoundedStep(r) == ~At(r, "validate") /\ RunStep(r)

FairSpec == Spec /\ \A r \in Run : WF_vars(BoundedStep(r))

-----------------------------------------------------------------------------
(* Properties *)

\* What is offered for adoption, and what is adopted, is one attempt whose
\* validator exited with 0, decided COMPLETE; adoption never moves on to
\* another one (Run 319-351, resultAdopt 422-472).
AdoptionSound ==
    \A r \in Run : \A n \in {candidate[r], adopted[r]} \ {0} :
        /\ candidate[r] = n
        /\ <<r, n>> \in accepted /\ <<r, n, "COMPLETE">> \in effects

\* A worktree is validated only after its worker is dead: what the validator
\* saw is what can be adopted (observeAndWait 517-531).
ValidatedAtRest ==
    [][\A a \in accepted' \ accepted : proc[a] \notin {"none", "alive"}]_vars

\* The C5 pass of one run never cancels the row of an attempt whose worker
\* lives, when the runs share a repository (Run 176-186: "Never kill owner
\* processes; only cancel stale DB records").
LivingRowKept ==
    \A a \in Attempt : proc[a] = "alive" => attempt[RowOf(a)] # "cancelled"

\* A run has one living worker at a time, and no earlier attempt of it is
\* still open when the next one has a worker (Run 277-283).
OneWorker ==
    \A r \in Run : \A n, m \in Number :
        proc[<<r, n>>] = "alive" /\ m < n
          => /\ proc[<<r, m>>] # "alive"
             /\ IsTerminal(worker[<<r, m>>])

\* A run that returned left no living worker, terminal rows for every tracked
\* attempt and its worker, and one terminal status on run and task; it is
\* completed only after a COMPLETE on an accepted attempt (finalizeTerminal
\* 650-687).  An attempt whose worker failed to start is not tracked.
EndsClean ==
    \A r \in Run : At(r, "done") =>
        /\ IsTerminal(run[r]) /\ task[r] = run[r]
        /\ r \in tombstones
        /\ \A n \in Number : proc[<<r, n>>] # "alive"
        /\ \A n \in Tracked(r) : /\ IsTerminal(worker[<<r, n>>])
                                 /\ IsTerminal(attempt[RowOf(<<r, n>>)])
        /\ run[r] = "completed" =>
             \E n \in Number : <<r, n>> \in accepted /\ <<r, n, "COMPLETE">> \in effects

\* A run that was started returns, unless it waits for ever for a living
\* worker that nobody cancels or for its validator: no crash, signal, answer of
\* the coordinator or adoption leaves it anywhere else.
Waits(r) ==
    \/ At(r, "validate")
    \/ At(r, "observe") /\ proc[Current(r)] = "alive" /\ r \notin cancelled

RunReturns ==
    \A r \in Run : <>[]Waits(r) \/ (~At(r, "idle") ~> At(r, "done"))
=============================================================================
