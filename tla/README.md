# TLA+ models of omni_orchestration

`omni` runs coding agents on tasks: it starts a worker process in a git
worktree, watches it, validates what it left, lets a coordinator (an LLM behind
a command line) decide what comes next, and keeps its state in SQLite files. The
fleet runs many such tasks with dependencies and exclusive file paths.

This directory holds TLA+ modules translated from the Go source, TLC runs over
small instances of them, and TLAPS proofs for every instance. Paths below are
relative to the repository. PROJECT.json names, for every definition, the lines
of source it stands for.

Contents: [system](#1-the-system), [modules](#2-modules-and-their-correspondence-to-the-code),
[runs](#3-runs), [fairness](#4-fairness), [proofs](#5-proofs),
[disagreements found](#6-where-the-code-and-its-documents-disagree),
[limits](#7-what-is-not-modelled), [plan](#8-plan), [running](#9-running-it).

## 1. The system

| Component | Source | State it keeps | Operations |
|---|---|---|---|
| DAG store | `internal/dag/dag.go` | SQLite: task rows, dependency edges, path leases | CreateTask*, AddDependency, AcquirePathLease, ReleasePathLeases, UnblockDependents, FailDependents, UpdateTaskStatus |
| Tracker | `internal/daemon/tracker.go` | `active` map, `closed`, the poll loop, one goroutine per task | poll, executeTask, ResumeActiveTasks, Close |
| Fleet command | `cmd/omni/main.go` (fleetCmd) | the plan, the ids of its rows | plan, start, wait, return |
| Daemon | `internal/daemon/daemon.go` | an HTTP server, the tracker, a registry of runs | Start, Shutdown, resumeActive, handlers |
| Mailbox | `internal/mailbox/mailbox.go` | SQLite: envelopes with `acked` and `leased_at` | Enqueue, Dequeue, Ack, Redeliver, ProcessOne |
| Task store | `internal/taskstore/store.go` | SQLite: runs, tasks, attempts, workers, run records, effect keys, tombstones | one method per statement |
| Orchestrator | `internal/orchestrator/orchestrator.go` | the loop of one run, its attempts | Run, createAttempt, observeAndWait, finalizeTerminal, the decision gateway |
| Recovery | `internal/orchestrator/recovery.go` | none of its own | Reconcile, ResumeRun, ResumeWithRecovery, RecoverOnly |
| Authority | `internal/orchestrator/authority.go` | generations read from the task store | CurrentAuthority, ValidateMutation, RecordTombstone |
| Worker runtime | `internal/runtime/runtime.go` | one process, its PTY, two goroutines | Start, Write, Interrupt, Close, Stop, Wait, Attach |
| Supervisor | `internal/supervisor/` | the last emitted state, an event channel | Observe, Recover |
| Worktrees | `internal/worktree/worktree.go` | git worktrees and branches | Create, Checkpoint, Status, Remove |
| Coordinator | `internal/coordinator/coordinator.go`, `runtime.go`, the providers | a generation | Wake, Replace |
| Router | `internal/coordinator/router.go` | none; reads the statistics of the task store | SelectCoordinator |
| Policy | `internal/policy/policy.go` | a registry of capabilities | Check |
| CLI | `cmd/omni/main.go` | none | run, recover, result adopt, result reject, fleet, doctor, stats |
| Hardening, observability, benchmark | `internal/...` | none that others read | read-only or unused by the commands |

How they interact:

- The **fleet command** and the **daemon** own a **tracker**. The tracker polls
  the **DAG store**, and for each ready task starts a goroutine that creates the
  rows of a run in the **task store** and calls **Run**. What Run decided comes
  back as a status of the DAG row, and is propagated to its dependents.
- **Run** creates a worktree, an attempt row and a **runtime**. A **supervisor**
  goroutine watches the runtime and sends state changes over a channel to
  observeAndWait, which stops the worker (Recover), checkpoints, validates and
  wakes the **coordinator**.
- **Recovery** runs in `omni recover`, `omni run --resume` and the start of the
  daemon. It reads the rows a dead process left, ends what is lost, attaches to
  workers that still live, and otherwise goes on to **Run**. With `--coordinator
  auto` the **router** chooses a provider by the records of earlier runs.
- All runs of a machine share one task store file unless they are told
  otherwise (`cmd/omni/main.go:91`); all fleets share one DAG file. The CLI's
  `result adopt` and `result reject` write the same rows from other processes.
- The **mailbox** carries messages between components through SQLite. Only
  tests attach one to a run.

What is hard about it, and what makes each part correct (the full list with
lines is under `hazards` in PROJECT.json):

| Component | Hard behaviour | Correct when |
|---|---|---|
| DAG store, tracker | UnblockDependents runs unlocked statements in several goroutines; poll walks a snapshot; two-phase leasing with rollback; a release after the slot is freed | a task runs after its parents and only once, owners of a path never overlap, no wakeup is lost, nobody waits in a circle |
| Fleet, daemon | killed between two statements, restarted on the same file | what is left behind never breaks the above |
| Mailbox | SELECT and UPDATE in different processes, crashes around the effect, expiring leases | at least once, one claimant, in order, never reopened |
| Task store, orchestrator | runs that cancel each other's rows, signals at any step, a validator and a worker on one directory, adoption from another process | only an accepted attempt is adopted, no worker outlives its run, every run ends |
| Runtime, supervisor | exit watcher, reader, closer and observer of one process; bounded channels | every exit is reported once and truly, a stopped worker is dead, no goroutine is stuck |
| Recovery | killed between any two statements; decisions from half-written rows and PIDs; workers that outlive their owner and cannot be waited for | no living worker is given up, no success is invented, nothing completed is undone, it always ends |
| Router | scores that tie, turn negative or sit at a threshold | the best provider with enough runs is chosen |
| Coordinator | a replacement while an answer is under way | a stale answer is refused |

## 2. Modules and their correspondence to the code

Two SQLite facts hold in all modules: the stores open one connection, so one
statement is one atomic step, and what was written survives a crash. Statements
that fail (full disk, lock timeout) are not modelled. A definition marked *Seeded
fault* in the modules is not part of the specification: it is a variant of a
mapped definition with the mistake its comment names. Put in the place of the
original it makes a property fail (the table `mutants` in PROJECT.json), which
shows that the property depends on that code.

**Fleet: `DagStore`, `Tracker`, `Fleet`, `TaskPool`, `Daemon`.**
`DagStore` has the tables (`status`, `column`, `parents`, `lease`) and one operator
per statement. `Tracker` has the program counter of poll (`pollPc`, with its
snapshot `ready`, the task at hand `cand` and the leases `got` so far) and of every
goroutine (`pc[t]`); the mutex `t.mu` is free iff neither poll nor
ResumeActiveTasks is under way. `Unblock` is UnblockDependents statement by
statement: read the children, check the parents, count failures, move the
child. Run is abstracted to its outcome: COMPLETE, FAIL, an error, neither, or no
attempt row. `Fleet` adds the phases of fleetCmd: planning row by row, running,
closing, down; several invocations share the file, and the process may be
killed in the phases `KillIn` lists. `TaskPool` is the promise to the user with
no database, poll or lease in it: at most `Limit` workers, parents first, owners
of a path apart, one verdict per task. `Fleet` refines it by `Pool`, an INSTANCE
that reads verdicts off terminal rows and busy workers off the goroutines.
`Daemon` composes the same tracker with tasks inserted one by one, each with at
most one parent, and with shutdowns, kills and restarts. (`omnid` itself never
sets the DAGPath that gives a daemon its tracker; the package and its tests do.)

**Mailbox: `Mailbox`.** Rows are `id`, `acked` (0 waiting, -1 claimed, 1
consumed) and `lease`. A consumer is a process that runs ProcessOne: select the
oldest, claim it by compare-and-set, ask the authority, apply, acknowledge. The
replayer takes what Redeliver returns, as the recovery test of the mailbox
does. No command runs a consumer or a replayer yet, so nothing is assumed about when they
run: the properties are safety. Any of them may crash at any statement, `MaxCrashes`
times in a behaviour.

**Runs: `TaskStore`, `Orchestrator`.** `TaskStore` has the rows and one operator
per method. In `Orchestrator`, `pc[r]` is the statement of Run that run r
executes next and the other local variables are the locals later statements
read. The actions follow the function: read the active attempts (C5) and cancel
those whose worktree is missing, one by one; create the rows; first wake; per
attempt worktree, row, process, worker row; observe; Recover; validate; mark the
worker; decide, with the effect key; candidate; and finalizeTerminal as
tombstone, close, run, task. `Adopt` and `Reject` are the CLI, `Cancel` a signal
or the tracker. A run is coordinated iff `--coordinator` was given, which
is also when it has a run_record; runs of the tracker are never coordinated and
use one pre-created attempt row for all of their attempts. The effect-key
conflict, the gateway's refusal and the authority's refusal are guards that never
strike here, because a run asks with its own fresh numbers; they are kept as the
code has them. Attempt, task and run statuses that finalizeTerminal writes for
one run are grouped per loop, since nobody else writes the same rows with other values
at that point; the four writes of an adoption likewise.

**Workers: `WorkerRuntime`, `Supervised`.** `WorkerRuntime` has the process, the
PTY, readOutput, the four stages of watchExit and the stages of Close with its
three timeouts, after the last of which it gives up. `Supervised` adds the supervisor's goroutine (its select, emit
with the bounded channel) and the loop of observeAndWait (receive, wait, wake,
sleep, close, Recover). Close is called from the one goroutine the program calls
it from. `Orchestrator` uses what `Supervised` shows: after Recover the worker is
dead, and an exit is seen.

**Recovery: `Recovery`.** It extends `Orchestrator`: `Crash(r)` kills the process of
run r between any two steps (section 7 names those that stand for several statements) and leaves its worker, which has a session of its own, to
live on. `rpc` is what the one recovering process does: `look` is the loop of
Reconcile over the list it has read (`todo`, `saved`), `own` the loop of
ResumeWithRecovery, `run` its fall through to Run, where the run `Heir` starts in
the same process. The rows of an attempt, its worker, run and task are written by a
statement each: `script[a]` holds the writes that are still to come, so that a kill
of the recovery (`RecoveryCrash`) leaves some of them. An attached worker has an
observing goroutine (`watched`), which writes on its own while the loop goes on, and
`mark` is the write of `running` that comes after the goroutine was started. Attach may
refuse a living worker, for the start time it compares was taken when the row was
written. A recovery starts only when no owner lives (see section 7).

**Routing: `Routing`.** SelectCoordinator and its scores as operators, over counters that
RecordRun, RecordAttemptOutcome and RecordAdoption change as runs do. A score is a
fraction of integers, compared by cross-multiplication.

## 3. Runs

| Run | Instance | States | What it shows |
|---|---|---|---|
| FleetDiamond | 5 tasks, a diamond and one task that lists two shared paths in opposite order; 2 workers; all outcomes; stopped or killed at any step of running or closing, then a second fleet on the same file | 244 138 | DependencyOrder, PathExclusion, WorkerBound, SingleExecution, NoLostWakeup, IdleHolderIsFirst, StatusMachine, ImplementsPool, FleetTerminates: the first fleet ends if every Run completes |
| DaemonRestart | 3 tasks inserted in any shape, 2 starts | 106 598 | ParentFirst, and RestartUnblocks: a child left behind a completed parent is picked up |
| MailboxDelivery | 2 messages, 2 consumers, a replayer, 2 crashes | 225 664 | AckedHandled, SingleClaim, NothingLost, OldestFirst, NeverReopened |
| OrchestratorSolo | one coordinated run, 3 attempts (the default), adopt and reject at any time, workers and a validator that may never end | 495 960 | AdoptionSound, OneWorker, EndsClean, ValidatedAtRest, RunReturns |
| OrchestratorShared | a coordinated run (1 attempt) and a run of the tracker (2 attempts) side by side on one store and repository | 791 083 | LivingRowKept: C5 spares the rows of living workers |
| WorkerSupervised | channels of 2 lines and 3 events, any worker, cancellation at any step, a Close that may give up | 226 627 | ExitTruth, StoppedIsDead, ExitSeen, SupervisorEnds |
| Recovery | a run of the tracker (1 attempt) and one of two attempts with a validator and a signal, on one store and repository; either killed between any two steps; recoveries killed between any two statements, one at a time, again and again | 622 894 | LivingWorkerKept, NoInventedSuccess, ReconcileDecides, LivingRowKept (the C5 pass of a new run spares the rows of workers that outlived their owner), CompletedKept, RecoveryEnds |
| Routing | 4 providers, up to 3 runs of each, 5 rejections, 1 minute, every adoption | 162 694 | ChoiceIsBest, ChoiceFollowsResults |
| FleetChainFailure | chain of 3, the first fails | counterexample | FailurePropagates is violated |
| FleetKillPlanning | killed while planning, then a second fleet | counterexample | DependencyOrder is violated |
| OrchestratorTwoRepos | two runs, two repositories, one store | counterexample | LivingRowKept is violated |
| RecoveryOrphans | a tracker's run killed after its validator, then a resume | counterexample | OrphansReconciled is violated |

`TypeOK` is checked where it is listed in the .cfg. Every bound is a CONSTANT or
named: `N`, `Invocations`, `MaxStarts`, `MaxCrashes`, `MaxAttempts`, `OutputCap`,
`EventCap`, `Reviewed`, the runs a user adopts or rejects, `Signalled`,
the runs a user interrupts, and in `Routing` `MaxRuns`, `MaxRejects`, `MaxMinutes` and
`Named`, the providers a user asks for by name.

Why they are enough:

- Five tasks are the least with two parents racing for one child and, at the
  same time, a competitor for two paths in opposite order with a pool of two.
- Two invocations suffice for a file left behind; what a third finds is again a
  file with terminal, active, blocked and leased rows. The second fleet of FleetDiamond
  has an empty plan, which fleetCmd accepts: its tracker polls and resumes the rows of
  the first; FleetTerminates is therefore stated of the first fleet. A second plan with
  tasks of its own is in FleetKillPlanning; that such a fleet need not end is in section 6. The
  theorems hold for any number of invocations and plans.
- Two messages and two consumers are the least for a lost claim and for order;
  two crashes let a message be left in flight by a consumer and then by the replayer.
- Three attempts are the default and let an earlier attempt be accepted, a later
  one rejected and either one be the candidate. Two runs are the least for C5. In Recovery the
  run whose C5 pass meets a living worker finds its owner dead; two runs that go on side by
  side are in OrchestratorShared and OrchestratorTwoRepos, and LivingRowKeptHolds covers any
  number of them.
- A run with two attempts leaves a row of each kind behind: an open one, a terminal one of
  an earlier attempt, a worker that is recorded and one that is not. The number of
  crashes of the recovery is not bounded.
- Three runs are the threshold of the router: its histories go through it for each
  provider. Five rejections make a score negative (one run can count three), one minute
  halves a time score.
- Three events fill the channel with ACTIVE, QUIESCENT_CANDIDATE, ACTIVE, so that the
  exit itself meets a full channel, as the seventeenth event does in the code.

Deadlock is checked in the fleet, daemon and mailbox runs (`Finished` in `Fleet` is
the stated stutter after the last invocation). In OrchestratorSolo, OrchestratorShared,
OrchestratorTwoRepos, WorkerSupervised, Recovery and RecoveryOrphans the system ends for
good, and in Routing the bounds are used up; their cfgs say CHECK_DEADLOCK FALSE.

## 4. Fairness

- *Fleet and daemon.* The poll loop ticks for ever; goroutines run; Run returns
  once its worker has ended; fleetCmd looks every 3 seconds. Steps that wait for
  `t.mu` have strong fairness, since sync.Mutex hands over to a starving waiter.
  Nothing makes a task fail, a signal arrive or a process die. FleetTerminates
  is conditional on every Run completing, because a failed parent's grandchild does
  block the fleet (section 6).
- *Mailbox.* None. No command runs a consumer or a replayer; what can be said is that
  nothing gets out of their reach (NothingLost).
- *Orchestrator.* The steps of each run, but for its two waits without a bound: for a
  living worker (`orchestrator.go:484-509`) and for the validator, a command without
  context or timeout (`:599-602`). A worker owes no exit, a validator no result, and signals, the
  user and the coordinator's RETRY_CLEAN owe nothing. RunReturns says that a run returns
  unless it stays in one of these waits for ever (`Waits`).
- *Worker.* The goroutines. Nothing makes a worker write, exit or heed a hangup;
  ExitSeen starts from its death.
- *Recovery.* The recovering process and its goroutines, with the 30 minutes of an
  observation. No fairness for owners, for kills or for workers to exit: RecoveryEnds says
  that a recovery needs none of them.

## 5. Proofs

TLAPS proves these for all values of the constants that satisfy the named
assumptions of the modules (finite task sets, a status and an outcome from the
code's lists, integers for the flags): any plan, any number of tasks,
invocations, messages, consumers, crashes, runs, attempts and users, channels of any
capacity.

| Theorem | Module | Rests on |
|---|---|---|
| TypeCorrect | FleetProofs | itself |
| Scheduled | FleetProofs | `SchedInv`, that is `TrackInv` of TrackerProofs and the fleet's phases |
| SingleExecutionHolds, StatusMachineHolds | FleetProofs | `SchedInv` |
| DependencyOrderHolds | FleetProofs | `OrderInv`, and "planning" not in `KillIn` |
| NoLostWakeupHolds | FleetProofs | `WakeInv` |
| PathExclusionHolds | FleetProofs | `LeaseInv` |
| IdleHolderIsFirstHolds | FleetProofs | `HolderInv` |
| WorkerBoundHolds | FleetProofs | `BoundInv` |
| FleetImplementsPool | FleetProofs | `SchedInv`, `OrderInv`, `LeaseInv`, `BoundInv`, `Propagating`, and "planning" not in `KillIn` |
| TypeCorrect | DaemonProofs | itself |
| ParentFirstHolds | DaemonProofs | `DaemonInv`, with `TrackInv` of TrackerProofs |
| TypeCorrect, AckedHandledHolds, SingleClaimHolds, NeverReopenedHolds | MailboxProofs | `MailInv` |
| NothingLostHolds | MailboxProofs | `MailInv`, and `WaitingUnleased` |
| OldestFirstHolds | MailboxProofs | `MailInv`, and `OrderInv` of that module |
| TypeCorrect | OrchestratorProofs | `WithinLimit` |
| AdoptionSoundHolds, OneWorkerHolds, ValidatedAtRestHolds | OrchestratorProofs | `SafeInv` |
| EndsCleanHolds | OrchestratorProofs | `SafeInv`, and `ClosedInv` |
| LivingRowKeptHolds | OrchestratorProofs | `SafeInv`, `RowsKept`, and one repository for all runs |
| OutlivingRowKeptHolds | RecoveryProofs | `RecoveryInv`, `RowsKept`, `Outlives`, and one repository for all runs |
| RecoveryHolds, RecoveryTypesHold, LivingWorkerKeptHolds, NoInventedSuccessHolds, ReconcileDecidesHolds, CompletedKeptHolds | RecoveryProofs | `RecoveryInv` |
| TypeCorrect, ExitTruthHolds, StoppedIsDeadHolds | SupervisedProofs | `SupInv` |
| Recorded | RoutingProofs | itself |
| ChoiceIsBestHolds | RoutingProofs | `Recorded`, the order of fractions, `Leads` |
| ChoiceFollowsResultsHolds | RoutingProofs | ChoiceIsBestHolds, and which way each result moves a score |

- `SchedInv` ties the variables that no single action ties: a task in poll's snapshot
  that is not in `active`, and the candidate poll has taken from it, is pending and
  has no goroutine (`SnapshotPending`, `CandidatePending`); a goroutine's program
  counter says what its row may hold (`RowOf`: pending before it activates the row,
  active while Run executes, never pending again after); an executing goroutine is in
  `active` unless Close has cleared the map (`ActiveTracked`); and what each phase of
  the process excludes. SingleExecution is not inductive: without these parts poll's
  stale snapshot could name a running task.
- `OrderInv` says of every row past planning that its edges are those of the
  plan, that a pending row's parents are completed, and that a goroutine inside
  UnblockIfReady has a child whose parents it has seen completed. Completed is
  final, so the unlocked check stays true until the update. A kill while
  planning breaks the first part, which is why the theorem assumes none and the
  run FleetKillPlanning shows what happens otherwise.
- `WakeInv` is about the first fleet, whose rows no earlier process has left behind. A
  blocked row has edges in the table, and the row the plan is at has them all but for those still
  to be entered (`EdgesIn`); while the fleet plans nothing has completed (`NothingRun`), so no
  parent completes before its child is blocked. Of two parents that complete together, the
  one whose status is written later finds the other completed in its own check; as long as a goroutine
  has that check or the update ahead (`WillUnblock`) the child is not lost.
- `HolderInv` follows the order in which leases are asked for. fleetCmd asks for the paths of
  its tasks row by row and path by path, so while it plans, every path asked for so far has
  an owner (`AskedInOrder`); hence an owner that does not execute has no earlier task that lists
  the path (`HolderFirst`). Once planning is over it stays so, as poll's candidate either gets
  all its paths and executes or, if it got any, gives all its leases back. This needs that the rows of a plan are
  numbered as they are inserted and those of a later invocation after those of an earlier
  one (`InvocationOfAssumption`), which AUTOINCREMENT gives.
- `LeaseInv` says that a goroutine holds the lease of each of its paths and the
  candidate the leases it has taken so far. The lease table is a function of the
  path, so two owners cannot both hold one.
- `BoundInv` counts: until Close, `active` holds at most the limit, and strictly less
  while poll holds a candidate, since poll counts `active` before it leases. By
  `ActiveTracked` the executing goroutines are among them. After Close poll starts
  nothing, so the goroutines it no longer counts can only become fewer.
- `TrackInv`, the part of `SchedInv` that is the tracker's own, is proved once, in
  TrackerProofs, for both of its owners, the fleet and the daemon, and with it that a decided
  status is final (`DecidedStays`).
- `DaemonInv` adds to `TrackInv` that the edge table repeats the column (`OneParent`), that
  whoever is pending or has a goroutine has a completed parent, and what each process in
  UnblockDependents has found out (`ChildChecked`). ResumeActiveTasks and a goroutine
  can be at one child together: since statuses are final once decided, what either has seen
  stays true, and a kill leaves rows for which it is true as well.
- `MailInv` says that a message in a consumer's hands is claimed, that two hands never
  hold the same one, and that a message past its effect was applied or rejected.
  `OrderInv` of MailboxProofs adds that ids stay below the next one and that nothing
  which waits is older than what a consumer has selected: rows are only added at the
  end and none returns to waiting, so Dequeue's SELECT is still right at its UPDATE.
  `WaitingUnleased` says that a row without a lease was never claimed, so that Redeliver's
  query has every unconsumed row whose lease does not still run.
- The refinement maps each step of the fleet to one step of `TaskPool` or to none:
  PollExecute to Begin, the end of a Run to Decide, LeaveActive to Leave, the failing of
  blocked children to Cancel, the end of the process to Vanish, all others to a stutter.
  Each of the pool's guards is one of the invariants at that step: parents first is
  `OrderInv`, apart is `LeaseInv`, the limit is `BoundInv`, not begun twice is
  `SchedInv`. Cancel needs a failed dependency, which `Propagating` provides: a
  goroutine that is about to fail children has a failed parent of theirs in hand.
- `WithinLimit` says that an attempt is named only while its number is within the
  limit, without which `num[r]` could leave the table of attempts.
- `SafeInv` is stated run by run. `WorkerPlace`: only the current attempt has a living
  worker, and only from its start to Recover. `RowsClosed`: the worker rows behind the
  loop are terminal. `VerdictHeld`: what finalizeTerminal will write as completed is the
  last attempt, accepted, with its COMPLETE. `OfferHeld`: the candidate is that attempt,
  and whatever a user is adopting or has adopted is the candidate, so the
  check and the write of `result adopt` cannot be driven apart. `EndWritten`: what
  finalizeTerminal has written so far. One lemma shows that a step of one run leaves the
  rows another run's part speaks of alone.
- `ClosedInv` is about the attempt rows: from the loop of finalizeTerminal on, those of
  tracked attempts are terminal. Neither the C5 pass of another run nor a user reopens
  one, and a run whose attempts share the pre-created row is never adopted.
- `RowsKept` is about the only place where a run writes rows of another: a worker that lives
  has a worktree in its own repository, so the C5 pass of a run in the same repository
  sees its branch. With two repositories it fails, as OrchestratorTwoRepos shows.
- `RecoveryInv` says what any crash may leave and any reader may count on. `OwnerInv`: the
  rows of a run that has not started are fresh; those of a run with a living owner are as
  `SafeInv` has them (`RunInv`), nothing is on record of an attempt it has not come to and what
  it is through with is decided (`OwnRows`). `RecordsHeld`, for every run: no worker is recorded
  after one that lives, so the newest record, the only one recovery looks at, is the
  only one whose worker may live; a row with a checkpoint has a worker on record; an
  interrupted row has no living one (`DeadRow`); a completed run has no active
  attempt. `HandHeld`: a recovery and a living owner exclude each other, and what recovery
  has in hand belongs to runs that are not completed. `ScriptHeld`: what holds of the writes
  that are still to come, and that a row Reconcile has passed has a worker on record or its end among them.
  Recovery's choice of the newest record is a CHOOSE of a maximum, which exists by
  well-founded induction on the numbers of the attempts (`GreatestNumber`).
- *Routing* is an algorithm over counters. `Above`, the comparison of fractions by
  cross-multiplication, is shown to be the strict part of a total preorder (`AboveOrders`).
  `Leads` is what the router's second pass keeps from candidate to candidate: the one it
  holds is qualified and no qualified one seen so far is above it. ChoiceIsBestHolds leaves
  one case open: if somebody is qualified and nobody who is scores above zero, the code takes
  the default, qualified or not, where the documents exclude one that is not (section 6).
  ChoiceFollowsResults compares the choice before and after one result: an adoption raises the score of its
  provider, a rejection or a slower attempt lowers it (`ResultsRaise`, read forwards and
  backwards), no other score moves, and a chosen provider that scores higher while the others
  stay as they are stays chosen (`HigherStays`).
- `Outlives` carries `RowsKept` over the death of an owner: the row of a worker that outlived
  it still has its worktree, and a C5 pass sees that branch whoever runs it. Recoveries write
  such rows but remove no worktree, and what they write to the row of a living worker is not
  `cancelled`.
- `SupInv` has what each stage of watchExit has done (`WatcherStages`), who closed
  the runtime (`CloserStages`: the closed flag is set by a call that is being waited for,
  or by watchExit once the process is dead) and that a terminal state is emitted once,
  truly, and last (`LastEmission`).

Each proof has Init, one lemma per group of actions with one step per action, and a
PTL step. Every safety property of the passing runs has a theorem. What stays with TLC is
liveness (FleetTerminates, RestartUnblocks, RunReturns, ExitSeen, SupervisorEnds,
RecoveryEnds), which the prover does not reach, and the four counterexamples of
section 6.

## 6. Where the code and its documents disagree

Shown by a run (see `findings` in PROJECT.json):

1. FailDependents stops at direct children; a grandchild of a failed task stays
   blocked and the fleet waits for its timer (`dag.go:452`).
2. fleetCmd inserts rows as pending and blocks them afterwards; killed in
   between, it leaves a child the next fleet runs first.
3. C5 looks for every active attempt's branch in the repository of the run that
   starts, and cancels rows of living workers of other repositories
   (`orchestrator.go:177`).
4. Reconcile reads active attempts only. A run that was killed after its one
   attempt row became terminal and before its own row was written stays pending,
   although `recovery.go:30` speaks of orphaned runs.

Seen while translating, without a run of their own:

- fleetCmd returns, and its process ends, as soon as its rows are terminal, before the
  deferred release of leases (`tracker.go:217`): the lease of a completed task can
  stay in the file, and a task of a later fleet on that path is never dispatched until
  that fleet's 10 minute timer ends it. It takes no kill. FleetTerminates is therefore stated
  of the first fleet.
- The router's best score starts at zero with the default. When the scores of all qualified
  providers are zero or negative it chooses the default, even with fewer than three runs or
  none, although `router.go:128` and `docs/PROVIDERS.md:95` exclude providers below the threshold when
  others qualify. ChoiceIsBest therefore states that exclusion for the others only.
- `main.go:447` tells the user to reject before adopting anew; reject does not clear the
  adoption, and every later adopt is refused.
- A row that was active when the process died is never resumed, although
  `tracker_test.go:96` says that the tracker resumes active tasks after a restart.
- `README.md:61` says tombstones are recorded before process signals. The
  RETRY_CLEAN of a silent worker and Recover both stop the worker before
  finalizeTerminal records one (`orchestrator.go:509`, `:518`).
- `docs/RECOVERY_LIMITATIONS.md:33` says the validator runs if the exit code is 0.
  It always runs (`orchestrator.go:525`); a run can be COMPLETE on an attempt whose
  worker crashed, whose row is then failed and which adopt refuses. A
  cancelled run whose validator passes is completed too.
- `supervisor.go:88` says the supervisor never blocks on a slow consumer. With
  a coordinator that takes its 120 seconds, 16 events do not suffice; it blocks,
  and WorkerSupervised shows that nothing is lost by that.
- Starting a worker can fail after its attempt row was inserted: the run is
  failed, the row stays pending until some later C5 finds no worktree, or until Reconcile
  takes the run, which had failed, to interrupted.
- Recovery: a worker whose owner was killed between Start and RecordWorkerPID is on no row;
  its attempt is interrupted while it lives on (`recovery.go:50` wants living workers
  preserved), hence "on record" in LivingWorkerKept. Attach compares the start of the
  process with the time its row was written, in whole seconds: it can refuse a living
  worker, whose rows are then failed and which nobody stops. An attempt preserved for
  its checkpoint is failed by the resume that follows if its worker is dead.
  `running` is written after the goroutine may have written its end
  (`recovery.go:226`). A recovery that dies between its four writes leaves a run that
  the next one does not see. Observers that time out write nothing.
- Runs of which nothing was verified count as the "verified samples" of `router.go:74`.
- FAIL for a silent worker is ignored (`orchestrator.go:492`); CONTINUE waits 30
  seconds although the event it answers may be stale by then.
- Tasks that FailDependents fails keep the leases taken at planning time. A Run
  that ends without COMPLETE or FAIL leaves its DAG row active. Blocked
  rows of multi-parent plans have no parent in the older column and are not
  looked at by ResumeActiveTasks. `depends_on` of a task itself or of a later one is
  dropped. A child created after its parent completed stays blocked. Planned
  paths are not trimmed, polled ones are. Leases compare paths for equality,
  not for containment.
- Dequeue that loses its compare-and-set reports an empty box although messages
  wait. Redeliver also returns messages that were never leased, although `mailbox.go:287`
  speaks of an expired lease: a consumer can claim a message while a replayer has it. A claimed
  message is retried only by a caller of Redeliver. The mailbox's authority is
  asked before the effect, not with it.
- Close of an attached runtime cancels the watcher that would have closed `done`
  (`runtime.go:490`): a later Wait would not return. No command closes an
  attached runtime and then waits.

## 7. What is not modelled

- SQL statements that fail, and with them the refusals of COMPLETE that write
  four rows instead of calling finalizeTerminal (`orchestrator.go:319-345`).
- `git worktree list` failing in C5, which would cancel all active rows. Branch
  names are compared as substrings there; that needs ten attempts to matter.
- Two invocations of `omni fleet run` at the same time. In `Fleet` one follows the other;
  nothing in `main.go` keeps two processes from sharing the DAG file in the temporary
  directory, where each tracker would dispatch the other's rows.
- Kills inside steps that stand for several statements of one run: the rows executeTask creates
  before Run (`Precreate`: CreateRun, CreateTask, CreateAttempt), CreateRun, RecordRun and
  CreateTask of Run (`CreateRunAndTask`, `orchestrator.go:197-212`), the loop of
  finalizeTerminal over attempts, workers and processes (`CloseAttempts`, `:654-684`), and
  the four writes of an adoption and of a rejection.
- A process that survives SIGKILL. Close gives up after 2 seconds with an error, and Recover goes on
  without a checkpoint; that the worker is dead by then rests on the signal alone.
- Mailbox: a failed Ack after the effect (`mailbox.go:364-366`), which leaves the message
  claimed as a crash there does. The replayer is that of the tests: it asks no authority
  and its effect does not fail.
- A machine with several clocks; lease timeouts are a choice, not a duration.
- Wording: prompts, parsing of an LLM's answer, log lines, tables of the CLI. The
  secret scan is part of the choice whether a checkpoint is made.
- The DAG operations only tests call (CreateTaskMultiDep, DetectCircular,
  CheckPathOverlap, UnblockTask); hardening, observability, benchmark.
- Signals sent by PID to a process that has been reaped and its PID reused.
- A recovery that runs while the owner of a run lives. Nothing in the code keeps
  `omni run --resume`, `omni recover` or the daemon's `/api/resume` from it on the shared
  default store; they would attach to that run's worker, and owner and observer write
  the same rows, the last one for good. `Recovery` starts when no owner lives.
- Children of the recovering process itself: a daemon that resumes a worker it started
  could reap it in watchAttached.
- ResumeRun, StaleCoordinatorDetected, and with them the coordinator's generation
  gate: no command calls them, so a generation never changes. The policy registry is
  never set by a command.
- Rounding of the router's floating point numbers.

## 8. Plan

Done, in order of importance:

1. Fleet: DagStore, Tracker, Fleet, TaskPool, Daemon, with proofs and the refinement.
2. Mailbox, with proofs.
3. TaskStore, Orchestrator, WorkerRuntime, Supervised, with proofs.
4. Recovery, composed with Orchestrator under kills, with proofs.
5. Routing, with proofs.

Left:

6. A recovery while the owner lives, as a run of its own that shows which row wins.
7. An abstract specification of a run across crashes (started, decided once, perhaps adopted)
   that `Recovery` implements, as `Fleet` implements `TaskPool`.

## 9. Running it

    tlc -workers 2 -config FleetDiamond.cfg MCFleet.tla
    tlc -workers 2 -config OrchestratorSolo.cfg MCOrchestrator.tla
    tlapm FleetProofs.tla

A run's module is `MC` followed by Fleet, Daemon, Mailbox, Orchestrator,
Supervised, Recovery or Routing. The slowest runs take about two minutes. tlapm takes
about three minutes for FleetProofs and for RecoveryProofs and less than one for each other
module.
