-------------------------------- MODULE Fleet --------------------------------
(***************************************************************************)
(* `omni fleet run` (fleetCmd in cmd/omni/main.go) driving the Tracker.    *)
(* Every invocation opens the same DAG file in the temporary directory,    *)
(* inserts the tasks of its plan, leases their paths, starts a tracker and *)
(* waits until its own tasks are terminal.  The file outlives the process: *)
(* an invocation finds the rows and leases that earlier ones left behind.  *)
(***************************************************************************)
EXTENDS Tracker

CONSTANTS
    Invocations, \* how many times the command is run, one after the other
    InvocationOf,\* per task, the invocation whose plan lists it
    DependsOn,   \* per task, depends_on of the plan
    PlanPaths,   \* per task, owned_paths of the plan, as written there
    KillIn,      \* phases in which the process may be killed
    MayStop      \* whether a signal or the 10 minute timer may fire

Phase == {"planning", "running", "closing", "down"}

ASSUME InvocationsAssumption == Invocations \in Nat \ {0}
\* Rows are numbered in the order of insertion.
ASSUME InvocationOfAssumption ==
    /\ InvocationOf \in [Task -> 1 .. Invocations]
    /\ \A t, u \in Task : t < u => InvocationOf[t] <= InvocationOf[u]
ASSUME DependsOnAssumption == DependsOn \in [Task -> SUBSET Task]
ASSUME PlanPathsAssumption == PlanPaths \in [Task -> Seq(Path)]
ASSUME KillInAssumption == KillIn \subseteq {"planning", "running", "closing"}
ASSUME MayStopAssumption == MayStop \in BOOLEAN

VARIABLES
    phase,     \* where fleetCmd is; "down" between two invocations
    inv,       \* the current invocation
    planQueue, \* tasks of the plan not yet created
    planTask,  \* the task being created, NoTask between two
    planDeps,  \* its edges still to insert
    planIdx    \* how many of its paths have been asked for; -1 before edges end

fleetVars == <<phase, inv, planQueue, planTask, planDeps, planIdx>>
planVars  == <<inv, planQueue, planTask, planDeps, planIdx>>
vars      == <<dagVars, trackerVars, fleetVars>>

PlanOf(i) == {t \in Task : InvocationOf[t] = i}

\* An index in depends_on counts only if taskIDs has it already: an edge to
\* the task itself or to a later one is silently dropped.
EffectiveDeps(t) ==
    {d \in DependsOn[t] : d < t /\ InvocationOf[d] = InvocationOf[t]}

FleetTypeOK ==
    /\ phase     \in Phase
    /\ inv       \in 1 .. Invocations
    /\ planQueue \in SUBSET Task
    /\ planTask  \in Task \cup {NoTask}
    /\ planDeps  \in SUBSET Task
    /\ planIdx   \in Nat \cup {-1}

Init ==
    /\ DagInit
    /\ TrackerInit
    /\ phase = "planning" /\ inv = 1 /\ planQueue = PlanOf(1)
    /\ planTask = NoTask /\ planDeps = {} /\ planIdx = -1

(***************************************************************************)
(* Creating the tasks of the plan, in plan order.  The tracker is not yet  *)
(* running, but the process can be killed between any two statements.      *)
(***************************************************************************)

\* CreateTaskFull with dependsOn 0: the row is born pending, without edges.
PlanCreate(t) ==
    /\ phase = "planning" /\ planTask = NoTask
    /\ t \in planQueue /\ \A u \in planQueue : t <= u
    /\ CreateTaskFull(t, NoTask)
    /\ planQueue' = planQueue \ {t}
    /\ planTask' = t /\ planDeps' = EffectiveDeps(t)
    /\ UNCHANGED <<lease, trackerVars, phase, inv, planIdx>>

PlanEdge(d) ==
    /\ phase = "planning" /\ d \in planDeps
    /\ AddDependency(planTask, d)
    /\ planDeps' = planDeps \ {d}
    /\ UNCHANGED <<status, column, lease, trackerVars, phase, inv, planQueue,
                   planTask, planIdx>>

\* UpdateTaskStatus(blocked) once the edges are in, if there are any.
PlanBlock ==
    /\ phase = "planning" /\ planTask # NoTask /\ planDeps = {} /\ planIdx = -1
    /\ IF EffectiveDeps(planTask) # {} THEN UpdateTaskStatus(planTask, "blocked")
                                       ELSE UNCHANGED status
    /\ planIdx' = 0
    /\ UNCHANGED <<column, parents, lease, trackerVars, phase, inv, planQueue,
                   planTask, planDeps>>

\* The result of AcquirePathLease is ignored.
PlanLease ==
    /\ phase = "planning" /\ planTask # NoTask
    /\ planIdx \in 0 .. Len(PlanPaths[planTask]) - 1
    /\ AcquirePathLease(planTask, PlanPaths[planTask][planIdx + 1])
    /\ planIdx' = planIdx + 1
    /\ UNCHANGED <<status, column, parents, trackerVars, phase, inv, planQueue,
                   planTask, planDeps>>

PlanTaskDone ==
    /\ phase = "planning" /\ planTask # NoTask
    /\ planIdx = Len(PlanPaths[planTask])
    /\ planTask' = NoTask /\ planIdx' = -1
    /\ UNCHANGED <<dagVars, trackerVars, phase, inv, planQueue, planDeps>>

StartFleet ==
    /\ phase = "planning" /\ planTask = NoTask /\ planQueue = {}
    /\ StartTracker
    /\ phase' = "running"
    /\ UNCHANGED planVars

Plan ==
    \/ PlanBlock \/ PlanLease \/ PlanTaskDone \/ StartFleet
    \/ \E t \in Task : PlanCreate(t) \/ PlanEdge(t)

(***************************************************************************)
(* The wait loop and the ways the process ends                             *)
(***************************************************************************)

AllTerminal == \A t \in PlanOf(inv) : Terminal(t)

\* The 3 s ticker finds every task of this invocation terminal.
FleetDone ==
    /\ phase = "running" /\ pc[Resumer] = "idle" /\ AllTerminal
    /\ Close
    /\ phase' = "closing" /\ UNCHANGED planVars

\* SIGINT or SIGTERM: the context given to the tracker is done.
Signal ==
    /\ MayStop /\ phase = "running" /\ ~cancelled
    /\ CancelContext
    /\ UNCHANGED fleetVars

\* ctx.Done or the timer: Close without waiting for the goroutines.
FleetStop ==
    /\ MayStop /\ phase = "running" /\ pc[Resumer] = "idle"
    /\ Close
    /\ phase' = "closing" /\ UNCHANGED planVars

\* fleetCmd returns and the process exits with its goroutines.
Exit ==
    /\ phase = "closing"
    /\ ProcessEnds
    /\ phase' = "down" /\ UNCHANGED planVars

Kill ==
    /\ phase \in KillIn
    /\ ProcessEnds
    /\ phase' = "down"
    /\ planQueue' = {} /\ planTask' = NoTask /\ planDeps' = {} /\ planIdx' = -1
    /\ UNCHANGED inv

NextInvocation ==
    /\ phase = "down" /\ inv < Invocations
    /\ phase' = "planning" /\ inv' = inv + 1 /\ planQueue' = PlanOf(inv + 1)
    /\ UNCHANGED <<dagVars, trackerVars, planTask, planDeps, planIdx>>

\* The last invocation is over.
Finished ==
    /\ phase = "down" /\ inv = Invocations
    /\ UNCHANGED vars

Lifecycle ==
    \/ FleetDone \/ Signal \/ FleetStop \/ Exit \/ Kill \/ NextInvocation
    \/ Finished

Track ==
    /\ phase \in {"running", "closing"}
    /\ TrackerNext
    /\ UNCHANGED fleetVars

Next == Plan \/ Track \/ Lifecycle

Spec == Init /\ [][Next]_vars

(***************************************************************************)
(* Fairness.  The poll loop ticks for ever, sync.Mutex hands the lock to   *)
(* every waiter in the end (strong fairness for the steps that wait for    *)
(* t.mu), Run returns once its worker process ends, and the wait loop of   *)
(* fleetCmd ticks every 3 seconds.  No fairness for failures or signals.   *)
(***************************************************************************)

InTracker(A) == phase \in {"running", "closing"} /\ A /\ UNCHANGED fleetVars

FairSpec ==
    /\ Spec
    /\ WF_vars(Plan)
    /\ WF_vars(InTracker(Poll))
    /\ SF_vars(InTracker(Resume))
    /\ \A q \in Proc : WF_vars(InTracker(Unblock(q)))
    /\ \A t \in Task : /\ WF_vars(InTracker(Goroutine(t)))
                       /\ SF_vars(InTracker(LeaveActive(t)))
    /\ SF_vars(FleetDone)
    /\ WF_vars(Exit)
    /\ WF_vars(NextInvocation)

-----------------------------------------------------------------------------

(* Types of all variables. *)
TypeOK == DagTypeOK /\ TrackerTypeOK /\ FleetTypeOK

(* A goroutine of executeTask exists only for a task all of whose plan     *)
(* dependencies have completed, although UnblockIfReady checks and updates *)
(* without a lock and two parents may run it for one child at once.        *)
DependencyOrder ==
    \A t \in Task : pc[t] # "idle" =>
        \A d \in EffectiveDeps(t) : status[d] = "completed"

(* Two goroutines never own a common path, from the dispatch to the last   *)
(* deferred statement: the leases in the database, taken one at a time and *)
(* rolled back, serialize the tasks (README, "overlapping writes").        *)
PathExclusion ==
    \A t, u \in Task :
        t # u /\ pc[t] # "idle" /\ pc[u] # "idle"
            => PathsOf(t) \cap PathsOf(u) = {}

(* The tasks being executed never outnumber the worker pool, also while    *)
(* Close has emptied t.active under the running goroutines.                *)
WorkerBound == Cardinality(Executing) <= WorkerLimit

(* poll never leases for, and so never dispatches, a task that still has a *)
(* goroutine, however stale its snapshot of the pending rows is.           *)
SingleExecution == cand # NoTask => pc[cand] = "idle"

(* The status machine drawn at the top of dag.go, with the one edge it     *)
(* leaves out (pending to failed, when no attempt can be created): no race *)
(* between propagations, dispatch and restart takes any other edge, and a  *)
(* terminal status never changes.  Planning creates rows and blocks them.  *)
StatusEdge ==
    {<<"pending", "active">>, <<"active", "completed">>, <<"active", "failed">>,
     <<"blocked", "pending">>, <<"blocked", "failed">>, <<"pending", "failed">>}

PlanningEdge == {<<"absent", "pending">>, <<"pending", "blocked">>}

StatusMachine ==
    [][\A t \in Task :
         status'[t] # status[t] =>
            <<status[t], status'[t]>> \in
                IF phase = "planning" THEN PlanningEdge ELSE StatusEdge]_vars

(* As long as no process has died, a blocked task whose parents have all   *)
(* completed is about to be unblocked by one of them: of two parents that  *)
(* finish together, at least one sees both.                                *)
WillUnblock(q, c) ==
    \/ pc[q] = "unblock" /\ arg[q] \in parents[c]
    \/ pc[q] = "child" /\ c \in kids[q]
    \/ pc[q] \in {"count", "pendchild"} /\ (arg[q] = c \/ c \in kids[q])
    \/ pc[q] = "failchild" /\ c \in kids[q]

NoLostWakeup ==
    inv = 1 /\ phase \in {"running", "closing"} =>
        \A c \in Task :
            status[c] = "blocked" /\ (\A p \in parents[c] : status[p] = "completed")
                => \E q \in Task : WillUnblock(q, c)

(* In the first invocation on a fresh file, a lease held by a task that is *)
(* neither executing nor being leased for belongs to the first task of the *)
(* plan that lists the path.  Waiting for such a lease therefore always    *)
(* points to an earlier task, as dependencies do: no cycle of tasks waits  *)
(* for one another, whatever the order in which their paths are listed.    *)
PlanLists(t, p) == \E i \in 1 .. Len(PlanPaths[t]) : PlanPaths[t][i] = p

IdleHolderIsFirst ==
    inv = 1 /\ phase \in {"running", "closing"} =>
        \A p \in Path, t, u \in Task :
            /\ lease[p] = t /\ pc[t] = "idle" /\ cand # t
            /\ PlanLists(u, p)
            => t <= u

(* The fleet implements the worker pool its users are promised.            *)
Pool == INSTANCE TaskPool WITH
            Deps    <- [t \in Task |-> EffectiveDeps(t)],
            Owns    <- [t \in Task |-> PathsOf(t)],
            Limit   <- WorkerLimit,
            verdict <- [t \in Task |-> IF Terminal(t) THEN status[t] ELSE "none"],
            busy    <- Executing

ImplementsPool == Pool!PoolSpec

(* When every Run completes, the first fleet on a fresh file comes to its  *)
(* end: no task waits for ever for a dependency, a path or a worker, in    *)
(* whatever order the tasks list their paths and however small a pool was  *)
(* asked for.  A later fleet need not: FleetDone ends the process as soon  *)
(* as the rows are terminal, and a lease whose release was still to come   *)
(* stays in the file for good, in the way of a new task with that path.    *)
EveryRunCompletes ==
    \A t \in Task : status[t] # "failed" /\ (status[t] = "active" => pc[t] # "exit")

FleetTerminates == []EveryRunCompletes => <>(phase = "down")

-----------------------------------------------------------------------------
(***************************************************************************)
(* What a comment, a test or the README says and the code does not do.     *)
(***************************************************************************)

(* "if parent fails, children cannot proceed", drawn as blocked --(parent  *)
(* failed)--> failed: a task that has failed leaves no child blocked.      *)
FailurePropagates ==
    \A t \in Task : status[t] = "failed" /\ pc[t] = "idle" =>
        \A c \in Children(t) : status[c] # "blocked"
=============================================================================
