----------------------------- MODULE FleetProofs -----------------------------
(***************************************************************************)
(* Proofs about the fleet, for every plan, every number of workers and     *)
(* every set of outcomes: what its users rely on (the order of execution,  *)
(* the exclusion of overlapping paths, the size of the pool, nobody left   *)
(* waiting for a lost wakeup or for a lease held by a waiter), and that it *)
(* implements the worker pool of TaskPool.                                 *)
(***************************************************************************)
EXTENDS Fleet, TrackerProofs, FiniteSetTheorems

(***************************************************************************)
(* Types                                                                   *)
(***************************************************************************)

USE DEF Task, NoTask, Resumer, Proc

LEMMA InitTypes == Init => TypeOK
<1> SUFFICES ASSUME Init PROVE TypeOK
  OBVIOUS
<1>1. StoreTypes
  BY InitStoreTypes DEF Init
<1>3. FleetTypeOK
  BY InvocationsAssumption DEF Init, FleetTypeOK, Phase, PlanOf
<1> QED
  BY <1>1, <1>3 DEF TypeOK, StoreTypes

LEMMA PlanTypes == TypeOK /\ Plan => TypeOK'
<1> SUFFICES ASSUME TypeOK, Plan PROVE TypeOK'
  OBVIOUS
<1> USE DEF TypeOK, DagTypeOK, FleetTypeOK
<1>a. UNCHANGED trackerVars => TrackerTypeOK'
  BY DEF TrackerTypeOK, trackerVars, pollVars
<1>1. ASSUME NEW t \in Task, PlanCreate(t) PROVE TypeOK'
  <2>1. status' \in [Task -> Status] /\ column' \in [Task -> Task \cup {NoTask}]
    BY <1>1 DEF PlanCreate, CreateTaskFull, Status
  <2>3. {NoTask} \ {NoTask} = {}
    OBVIOUS
  <2>4. parents' \in [Task -> SUBSET Task] /\ lease' = lease
    BY <1>1, <2>3 DEF PlanCreate, CreateTaskFull
  <2>5. EffectiveDeps(t) \subseteq Task
    BY DependsOnAssumption DEF EffectiveDeps
  <2>2. FleetTypeOK'
    <3>1. UNCHANGED <<phase, inv, planIdx>>
      BY <1>1 DEF PlanCreate
    <3>2. planQueue' \in SUBSET Task
      BY <1>1 DEF PlanCreate
    <3>3. planTask' \in Task \cup {NoTask}
      BY <1>1 DEF PlanCreate
    <3>4. planDeps' \in SUBSET Task
      BY <1>1, <2>5 DEF PlanCreate
    <3> QED BY <3>1, <3>2, <3>3, <3>4
  <2> QED BY <1>1, <1>a, <2>1, <2>2, <2>4 DEF PlanCreate
<1>2. ASSUME NEW d \in Task, PlanEdge(d) PROVE TypeOK'
  BY <1>2, <1>a DEF PlanEdge, AddDependency
<1>3. CASE PlanBlock
  BY <1>3, <1>a DEF PlanBlock, UpdateTaskStatus, Status
<1>4. CASE PlanLease
  <2>1. DagTypeOK'
    BY <1>4 DEF PlanLease, AcquirePathLease
  <2>2. FleetTypeOK'
    BY <1>4 DEF PlanLease
  <2> QED BY <1>4, <1>a, <2>1, <2>2 DEF PlanLease
<1>5. CASE PlanTaskDone
  BY <1>5, <1>a DEF PlanTaskDone, dagVars
<1>6. CASE StartFleet
  BY <1>6 DEF StartFleet, StartTracker, TrackerRest, dagVars, pollVars, planVars,
             Phase, ProcPc, TrackerTypeOK
<1> QED
  BY <1>1, <1>2, <1>3, <1>4, <1>5, <1>6 DEF Plan

LEMMA LifecycleTypes == TypeOK /\ Lifecycle => TypeOK'
<1> SUFFICES ASSUME TypeOK, Lifecycle PROVE TypeOK'
  OBVIOUS
<1> USE DEF TypeOK, DagTypeOK, TrackerTypeOK, FleetTypeOK, pollVars, goVars, dagVars,
            planVars, Phase
<1>1. CASE FleetDone \/ FleetStop
  BY <1>1 DEF FleetDone, FleetStop, Close
<1>2. CASE Signal
  BY <1>2 DEF Signal, CancelContext, fleetVars
<1>3. CASE Exit \/ Kill
  <2>1. ProcessEnds
    BY <1>3 DEF Exit, Kill
  <2>2. StoreTypes'
    BY <2>1, EndTypes DEF StoreTypes
  <2>3. FleetTypeOK'
    BY <1>3 DEF Exit, Kill
  <2> QED BY <2>2, <2>3 DEF StoreTypes
<1>4. CASE NextInvocation
  <2>1. DagTypeOK' /\ TrackerTypeOK'
    BY <1>4 DEF NextInvocation, trackerVars
  <2>2. inv' \in 1 .. Invocations
    BY <1>4, InvocationsAssumption DEF NextInvocation, FleetTypeOK
  <2>3. PlanOf(inv + 1) \subseteq Task
    BY DEF PlanOf
  <2>4. FleetTypeOK'
    BY <1>4, <2>2, <2>3 DEF NextInvocation
  <2> QED BY <2>1, <2>4
<1>5. CASE Finished
  BY <1>5 DEF Finished, vars, trackerVars, fleetVars
<1> QED
  BY <1>1, <1>2, <1>3, <1>4, <1>5 DEF Lifecycle

(* Every variable keeps its type along every behaviour of the fleet.       *)
THEOREM TypeCorrect == Spec => []TypeOK
<1>1. TypeOK /\ [Next]_vars => TypeOK'
  <2> SUFFICES ASSUME TypeOK, [Next]_vars PROVE TypeOK'
    OBVIOUS
  <2>1. CASE Track
    BY <2>1, TrackerTypes DEF Track, fleetVars, TypeOK, StoreTypes, FleetTypeOK
  <2>2. CASE UNCHANGED vars
    BY <2>2 DEF vars, dagVars, trackerVars, pollVars, fleetVars, TypeOK, DagTypeOK,
                TrackerTypeOK, FleetTypeOK
  <2> QED
    BY <2>1, <2>2, PlanTypes, LifecycleTypes DEF Next
<1> QED
  BY <1>1, InitTypes, PTL DEF Spec

(***************************************************************************)
(* The scheduler's bookkeeping: what t.active, the snapshot of poll and    *)
(* the program counters say about the rows.                                *)
(***************************************************************************)

\* No tracker exists while a plan is entered or no process runs.
TrackerGone ==
    phase \in {"planning", "down"} =>
        /\ \A q \in Proc : pc[q] = "idle"
        /\ pollPc = "idle" /\ ~closed

PlanCursor ==
    /\ phase # "planning" => planTask = NoTask
    /\ planTask = NoTask => planDeps = {} /\ planIdx = -1
    /\ planDeps # {} => planIdx = -1
    /\ planTask # NoTask /\ planIdx = -1 => status[planTask] = "pending"

SchedInv == TrackerGone /\ PlanCursor /\ TrackInv

\* Most steps of the lemmas below need the same definitions.
USE DEF TypeOK, DagTypeOK, TrackerTypeOK, FleetTypeOK, SchedInv, TrackInv, TrackerGone,
        PlanCursor, PollHolds, ActiveTracked, RowOf, SnapshotPending,
        CandidatePending, ExecPc, dagVars, trackerVars, pollVars, goVars,
        fleetVars, planVars, vars, TrackerRest

LEMMA InitSched == Init => SchedInv
  BY DEF Init, DagInit, TrackerInit

LEMMA PlanSched ==
  ASSUME TypeOK, SchedInv, Plan
  PROVE  SchedInv'
<1>1. ASSUME NEW t \in Task, PlanCreate(t) PROVE SchedInv'
  BY <1>1 DEF PlanCreate, CreateTaskFull
<1>2. ASSUME NEW d \in Task, PlanEdge(d) PROVE SchedInv'
  BY <1>2 DEF PlanEdge, AddDependency
<1>3. CASE PlanBlock
  BY <1>3 DEF PlanBlock, UpdateTaskStatus
<1>4. CASE PlanLease
  BY <1>4 DEF PlanLease, AcquirePathLease
<1>5. CASE PlanTaskDone
  BY <1>5, PlanPathsAssumption DEF PlanTaskDone
<1>6. CASE StartFleet
  BY <1>6 DEF StartFleet, StartTracker
<1> QED
  BY <1>1, <1>2, <1>3, <1>4, <1>5, <1>6 DEF Plan

LEMMA LifecycleSched ==
  ASSUME TypeOK, SchedInv, Lifecycle
  PROVE  SchedInv'
<1>1. CASE FleetDone
  BY <1>1 DEF FleetDone, Close, MuFree
<1>2. CASE Signal
  BY <1>2 DEF Signal, CancelContext
<1>3. CASE FleetStop
  BY <1>3 DEF FleetStop, Close, MuFree
<1>4. CASE Exit
  BY <1>4 DEF Exit, ProcessEnds
<1>5. CASE Kill
  BY <1>5 DEF Kill, ProcessEnds
<1>6. CASE NextInvocation
  BY <1>6 DEF NextInvocation
<1>7. CASE Finished
  BY <1>7 DEF Finished
<1> QED
  BY <1>1, <1>2, <1>3, <1>4, <1>5, <1>6, <1>7 DEF Lifecycle

LEMMA StepSched ==
  ASSUME TypeOK, SchedInv, [Next]_vars
  PROVE  SchedInv'
<1>1. CASE Track
  <2>1. TrackInv'
    BY <1>1, TrackerTrack DEF Track, StoreTypes
  <2> QED
    BY <1>1, <2>1 DEF Track
<1>2. CASE UNCHANGED vars
  BY <1>2
<1> QED
  BY <1>1, <1>2, PlanSched, LifecycleSched DEF Next

HIDE DEF TypeOK, DagTypeOK, TrackerTypeOK, FleetTypeOK, SchedInv, TrackInv, TrackerGone,
         PlanCursor, PollHolds, ActiveTracked, RowOf, SnapshotPending,
         CandidatePending, ExecPc, dagVars, trackerVars, pollVars, goVars,
         fleetVars, planVars, vars, TrackerRest

(* The bookkeeping holds at every step of every behaviour. *)
THEOREM Scheduled == Spec => []SchedInv
<1>1. SchedInv /\ TypeOK /\ [Next]_vars => SchedInv'
  BY StepSched
<1> QED
  BY <1>1, InitSched, TypeCorrect, PTL DEF Spec

(* poll never leases for, and so never dispatches, a task that still has a *)
(* goroutine: its row is no longer pending when the goroutine leaves       *)
(* t.active, and the snapshot is read and used under one hold of t.mu.     *)
THEOREM SingleExecutionHolds == Spec => []SingleExecution
<1>1. SchedInv => SingleExecution
  BY DEF SchedInv, TrackInv, CandidatePending, SingleExecution
<1> QED
  BY <1>1, Scheduled, PTL

LEMMA GoroutineStatus ==
  ASSUME TypeOK, SchedInv, NEW u \in Task, Goroutine(u), phase # "planning",
         NEW t \in Task, status'[t] # status[t]
  PROVE  <<status[t], status'[t]>> \in StatusEdge
<1> USE DEF TypeOK, DagTypeOK, SchedInv, TrackInv, RowOf, UpdateTaskStatus, StatusEdge
<1>1. CASE Activate(u)
  BY <1>1 DEF Activate
<1>2. CASE NoAttempt(u)
  BY <1>2 DEF NoAttempt
<1>3. CASE RunComplete(u)
  BY <1>3 DEF RunComplete
<1>4. CASE RunFail(u)
  BY <1>4 DEF RunFail
<1>5. CASE RunError(u)
  BY <1>5 DEF RunError
<1>6. CASE PropagateFail(u)
  BY <1>6 DEF PropagateFail, FailDependents
<1>7. CASE RunNone(u) \/ LeaveActive(u) \/ Release(u)
  BY <1>7 DEF RunNone, LeaveActive, Release, dagVars
<1> QED
  BY <1>1, <1>2, <1>3, <1>4, <1>5, <1>6, <1>7 DEF Goroutine

LEMMA UnblockStatus ==
  ASSUME TypeOK, NEW q \in Proc, Unblock(q),
         NEW t \in Task, status'[t] # status[t]
  PROVE  <<status[t], status'[t]>> \in StatusEdge
<1>1. CASE MoveChild(q)
  BY <1>1 DEF MoveChild, MoveBlocked, StatusEdge, TypeOK, DagTypeOK
<1> QED
  BY <1>1 DEF Unblock, ReadChildren, CheckParents, CountFailures, UnblockReturn,
              dagVars

LEMMA PlanStatus ==
  ASSUME TypeOK, SchedInv, Plan, NEW t \in Task, status'[t] # status[t]
  PROVE  phase = "planning" /\ <<status[t], status'[t]>> \in PlanningEdge
<1> USE DEF TypeOK, DagTypeOK, FleetTypeOK, PlanningEdge
<1>1. ASSUME NEW u \in Task, PlanCreate(u)
      PROVE  phase = "planning" /\ <<status[t], status'[t]>> \in PlanningEdge
  BY <1>1 DEF PlanCreate, CreateTaskFull
<1>2. CASE PlanBlock
  BY <1>2 DEF PlanBlock, UpdateTaskStatus, SchedInv, TrackInv, PlanCursor
<1> QED
  BY <1>1, <1>2 DEF Plan, PlanEdge, PlanLease, PlanTaskDone, StartFleet,
                    StartTracker, dagVars

LEMMA TrackStatus ==
  ASSUME TypeOK, SchedInv, Track, NEW t \in Task, status'[t] # status[t]
  PROVE  phase # "planning" /\ <<status[t], status'[t]>> \in StatusEdge
<1>1. phase # "planning"
  BY DEF Track
<1>2. ~Poll /\ ~Resume
  BY DEF Poll, PollStart, PollVisit, PollLease, PollRollback, PollExecute, PollEnd,
         Resume, ResumeStart, ResumeVisit, ResumeEnd, dagVars
<1> QED
  BY <1>1, <1>2, GoroutineStatus, UnblockStatus DEF Track, TrackerNext

(* No interleaving of dispatch, propagation, planning, restart and death   *)
(* takes a row along an edge the status machine of dag.go does not have.   *)
THEOREM StatusMachineHolds == Spec => StatusMachine
<1>1. ASSUME TypeOK, SchedInv, [Next]_vars, NEW t \in Task, status'[t] # status[t]
      PROVE  <<status[t], status'[t]>> \in
                IF phase = "planning" THEN PlanningEdge ELSE StatusEdge
  <2>1. CASE Plan
    BY <1>1, <2>1, PlanStatus
  <2>2. CASE Track
    BY <1>1, <2>2, TrackStatus
  <2>3. ~Lifecycle /\ ~UNCHANGED vars
    BY <1>1 DEF Lifecycle, FleetDone, Signal, FleetStop, Exit, Kill, NextInvocation,
                Finished, Close, CancelContext, ProcessEnds, dagVars, vars
  <2> QED
    BY <1>1, <2>1, <2>2, <2>3 DEF Next
<1>2. TypeOK /\ SchedInv /\ [Next]_vars =>
        [\A t \in Task : status'[t] # status[t] =>
            <<status[t], status'[t]>> \in
                IF phase = "planning" THEN PlanningEdge ELSE StatusEdge]_vars
  BY <1>1
<1> QED
  BY <1>2, TypeCorrect, Scheduled, PTL DEF Spec, StatusMachine

(***************************************************************************)
(* Order: a task runs after its dependencies, although UnblockIfReady      *)
(* reads and writes without a lock.                                        *)
(***************************************************************************)

DepsDone(t) == \A d \in EffectiveDeps(t) : status[d] = "completed"

\* The edge table holds the plan's edges once a task is entered.
EdgesRecorded(t) ==
    /\ status[t] = "absent" => parents[t] = {}
    /\ status[t] # "absent" /\ t # planTask => parents[t] = EffectiveDeps(t)
    /\ t = planTask => parents[t] \cup planDeps = EffectiveDeps(t)

ParentsExist ==
    /\ \A t \in Task : \A d \in parents[t] : status[d] # "absent"
    /\ \A d \in planDeps : status[d] # "absent"
    /\ phase = "planning" =>
         /\ planQueue \subseteq PlanOf(inv)
         /\ \A u \in PlanOf(inv) : u \in planQueue \/ status[u] # "absent"

UnblockedDone(t) ==
    status[t] \in {"pending", "active", "completed"} /\ ~(t = planTask /\ planIdx = -1)
        => DepsDone(t)

HeldDone(t) == t \in ready \/ t = cand \/ pc[t] # "idle" => DepsDone(t)

\* What a process has found out about the child it is unblocking.
ChildChecked(q) ==
    /\ \A c \in kids[q] : status[c] # "absent"
    /\ pc[q] = "count" =>
         /\ arg[q] \in Task /\ status[arg[q]] # "absent"
         /\ \A d \in EffectiveDeps(arg[q]) : status[d] \in {"completed", "failed"}
    /\ pc[q] = "pendchild" =>
         arg[q] \in Task /\ status[arg[q]] # "absent" /\ DepsDone(arg[q])

OrderInv ==
    /\ ParentsExist
    /\ \A t \in Task : EdgesRecorded(t) /\ UnblockedDone(t) /\ HeldDone(t)
    /\ \A q \in Proc : ChildChecked(q)

LEMMA DepsAreTasks == \A t \in Task : EffectiveDeps(t) \subseteq Task
  BY DependsOnAssumption DEF EffectiveDeps

\* Most steps of the lemmas below need the same definitions.
USE DEF TypeOK, DagTypeOK, TrackerTypeOK, FleetTypeOK, SchedInv, TrackInv, TrackerGone,
        PlanCursor, PollHolds, ActiveTracked, RowOf, SnapshotPending,
        CandidatePending, ExecPc, dagVars, trackerVars, pollVars, goVars,
        fleetVars, planVars, vars, TrackerRest, OrderInv,
        ParentsExist, EdgesRecorded, UnblockedDone, HeldDone, ChildChecked,
        DepsDone

LEMMA InitOrder == Init => OrderInv
  BY DEF Init, DagInit, TrackerInit

LEMMA PlanOrdered ==
  ASSUME TypeOK, SchedInv, OrderInv, "planning" \notin KillIn, Plan
  PROVE  OrderInv'
<1>1. ASSUME NEW t \in Task, PlanCreate(t) PROVE OrderInv'
  <2>1. UNCHANGED <<pc, ready, cand, arg, kids>>
    BY <1>1 DEF PlanCreate
  <2>2. status' = [status EXCEPT ![t] = "pending"] /\ status[t] = "absent"
    BY <1>1 DEF PlanCreate, CreateTaskFull
  <2>0. {NoTask} \ {NoTask} = {}
    OBVIOUS
  <2>3. parents' = [parents EXCEPT ![t] = {}]
    BY <1>1, <2>0 DEF PlanCreate, CreateTaskFull
  <2>4. \A d \in EffectiveDeps(t) : status[d] # "absent" /\ d \in Task
    BY <1>1, DependsOnAssumption DEF PlanCreate, EffectiveDeps, PlanOf
  <2>5. ParentsExist'
    BY <1>1, <2>2, <2>3, <2>4 DEF PlanCreate, PlanOf
  <2>6. \A u \in Task : EdgesRecorded(u)'
    BY <1>1, <2>2, <2>3 DEF PlanCreate
  <2>7. \A u \in Task : UnblockedDone(u)' /\ HeldDone(u)'
    BY <1>1, <2>1, <2>2 DEF PlanCreate
  <2>8. \A q \in Proc : ChildChecked(q)'
    BY <1>1, <2>1, <2>2 DEF PlanCreate
  <2> QED BY <2>5, <2>6, <2>7, <2>8 DEF OrderInv
<1>2. ASSUME NEW d \in Task, PlanEdge(d) PROVE OrderInv'
  BY <1>2 DEF PlanEdge, AddDependency
<1>3. CASE PlanBlock
  <2>1. UNCHANGED <<pc, ready, cand, arg, kids, parents, planTask, planDeps>>
    BY <1>3 DEF PlanBlock
  <2>2. /\ planTask \in Task /\ status[planTask] = "pending"
        /\ status' = IF EffectiveDeps(planTask) # {}
                       THEN [status EXCEPT ![planTask] = "blocked"] ELSE status
    BY <1>3 DEF PlanBlock, UpdateTaskStatus
  <2>3. ParentsExist'
    BY <1>3, <2>1, <2>2 DEF PlanBlock
  <2>4. \A u \in Task : EdgesRecorded(u)'
    BY <1>3, <2>1, <2>2 DEF PlanBlock
  <2>5. \A u \in Task : UnblockedDone(u)' /\ HeldDone(u)'
    BY <1>3, <2>1, <2>2 DEF PlanBlock
  <2>6. \A q \in Proc : ChildChecked(q)'
    BY <1>3, <2>1, <2>2 DEF PlanBlock
  <2> QED BY <2>3, <2>4, <2>5, <2>6 DEF OrderInv
<1>4. CASE PlanLease
  BY <1>4 DEF PlanLease, AcquirePathLease
<1>5. CASE PlanTaskDone
  <2>1. planTask \in Task /\ planIdx \in Nat /\ planDeps = {}
    BY <1>5, PlanPathsAssumption DEF PlanTaskDone
  <2>2. parents[planTask] = EffectiveDeps(planTask)
    BY <2>1
  <2> QED BY <1>5, <2>1, <2>2 DEF PlanTaskDone
<1>6. CASE StartFleet
  BY <1>6 DEF StartFleet, StartTracker
<1> QED
  BY <1>1, <1>2, <1>3, <1>4, <1>5, <1>6 DEF Plan

LEMMA LifecycleOrdered ==
  ASSUME TypeOK, SchedInv, OrderInv, "planning" \notin KillIn, Lifecycle
  PROVE  OrderInv'
<1>1. CASE FleetDone
  BY <1>1 DEF FleetDone, Close, MuFree
<1>2. CASE Signal
  BY <1>2 DEF Signal, CancelContext
<1>3. CASE FleetStop
  BY <1>3 DEF FleetStop, Close, MuFree
<1>4. CASE Exit
  BY <1>4 DEF Exit, ProcessEnds
<1>5. CASE Kill
  BY <1>5 DEF Kill, ProcessEnds
<1>6. CASE NextInvocation
  BY <1>6 DEF NextInvocation
<1>7. CASE Finished
  BY <1>7 DEF Finished
<1> QED
  BY <1>1, <1>2, <1>3, <1>4, <1>5, <1>6, <1>7 DEF Lifecycle

LEMMA PollOrdered ==
  ASSUME TypeOK, SchedInv, OrderInv, "planning" \notin KillIn, Poll,
         phase \in {"running", "closing"},
         UNCHANGED fleetVars
  PROVE  OrderInv'
<1>1. CASE PollStart
  BY <1>1 DEF PollStart, ReadyTasks, MuFree
<1>2. ASSUME NEW t \in Task, PollVisit(t) PROVE OrderInv'
  BY <1>2 DEF PollVisit
<1>3. CASE PollLease
  BY <1>3 DEF PollLease, AcquirePathLease
<1>4. CASE PollRollback
  BY <1>4 DEF PollRollback, ReleasePathLeases
<1>5. CASE PollExecute
  BY <1>5 DEF PollExecute
<1>6. CASE PollEnd
  BY <1>6 DEF PollEnd
<1> QED
  BY <1>1, <1>2, <1>3, <1>4, <1>5, <1>6 DEF Poll

LEMMA ResumeOrdered ==
  ASSUME TypeOK, SchedInv, OrderInv, "planning" \notin KillIn, Resume,
         phase \in {"running", "closing"},
         UNCHANGED fleetVars
  PROVE  OrderInv'
<1>1. CASE ResumeStart
  BY <1>1 DEF ResumeStart
<1>2. ASSUME NEW b \in Task, ResumeVisit(b) PROVE OrderInv'
  BY <1>2 DEF ResumeVisit
<1>3. CASE ResumeEnd
  BY <1>3 DEF ResumeEnd
<1> QED
  BY <1>1, <1>2, <1>3 DEF Resume

LEMMA GoroutineOrdered ==
  ASSUME TypeOK, SchedInv, OrderInv, "planning" \notin KillIn,
         NEW t \in Task, Goroutine(t),
         phase \in {"running", "closing"},
         UNCHANGED fleetVars
  PROVE  OrderInv'
<1>1. CASE Activate(t)
  BY <1>1 DEF Activate, UpdateTaskStatus
<1>2. CASE NoAttempt(t)
  BY <1>2 DEF NoAttempt, UpdateTaskStatus
<1>3. CASE RunComplete(t)
  BY <1>3 DEF RunComplete, UpdateTaskStatus
<1>4. CASE RunFail(t)
  BY <1>4 DEF RunFail, UpdateTaskStatus
<1>5. CASE RunError(t)
  BY <1>5 DEF RunError, UpdateTaskStatus
<1>6. CASE RunNone(t)
  BY <1>6 DEF RunNone
<1>7. CASE PropagateFail(t)
  <2>1. \A u \in Task : \/ status'[u] = status[u]
                        \/ status[u] = "blocked" /\ status'[u] = "failed"
    BY <1>7 DEF PropagateFail, FailDependents
  <2>2. \A u \in Task : pc'[u] # "idle" => pc[u] # "idle"
    BY <1>7 DEF PropagateFail
  <2>3. UNCHANGED <<parents, ready, cand, arg, kids, fleetVars>>
    BY <1>7 DEF PropagateFail
  <2>4. \A q \in Proc : pc'[q] \in {"count", "pendchild"} => pc'[q] = pc[q]
    BY <1>7 DEF PropagateFail
  <2>5. ParentsExist'
    BY <2>1, <2>3
  <2>6. \A u \in Task : EdgesRecorded(u)' /\ UnblockedDone(u)' /\ HeldDone(u)'
    BY <2>1, <2>2, <2>3, DepsAreTasks
  <2>7. \A q \in Proc : ChildChecked(q)'
    BY <2>1, <2>3, <2>4
  <2> QED BY <2>5, <2>6, <2>7 DEF OrderInv
<1>8. CASE LeaveActive(t)
  BY <1>8 DEF LeaveActive, MuFree
<1>9. CASE Release(t)
  BY <1>9 DEF Release, ReleasePathLeases
<1> QED
  BY <1>1, <1>2, <1>3, <1>4, <1>5, <1>6, <1>7, <1>8, <1>9 DEF Goroutine

LEMMA UnblockOrdered ==
  ASSUME TypeOK, SchedInv, OrderInv, "planning" \notin KillIn,
         NEW q \in Proc, Unblock(q),
         phase \in {"running", "closing"},
         UNCHANGED fleetVars
  PROVE  OrderInv'
<1>1. CASE ReadChildren(q)
  BY <1>1 DEF ReadChildren, Children
<1>2. ASSUME NEW c \in Task, CheckParents(q, c) PROVE OrderInv'
  BY <1>2, SMTT(30) DEF CheckParents, AllParentsComplete
<1>3. CASE CountFailures(q)
  BY <1>3 DEF CountFailures, SomeParentFailed
<1>4. CASE MoveChild(q)
  BY <1>4 DEF MoveChild, MoveBlocked
<1>5. CASE UnblockReturn(q)
  BY <1>5 DEF UnblockReturn, ReturnPc
<1> QED
  BY <1>1, <1>2, <1>3, <1>4, <1>5 DEF Unblock

LEMMA StepOrdered ==
  ASSUME TypeOK, SchedInv, OrderInv, "planning" \notin KillIn, [Next]_vars
  PROVE  OrderInv'
<1>1. CASE Track
  BY <1>1, PollOrdered, ResumeOrdered, GoroutineOrdered, UnblockOrdered DEF
      Track, TrackerNext
<1>2. CASE UNCHANGED vars
  BY <1>2
<1> QED
  BY <1>1, <1>2, PlanOrdered, LifecycleOrdered DEF Next

HIDE DEF TypeOK, DagTypeOK, TrackerTypeOK, FleetTypeOK, SchedInv, TrackInv, TrackerGone,
         PlanCursor, PollHolds, ActiveTracked, RowOf, SnapshotPending,
         CandidatePending, ExecPc, dagVars, trackerVars, pollVars, goVars,
         fleetVars, planVars, vars, TrackerRest, OrderInv,
         ParentsExist, EdgesRecorded, UnblockedDone, HeldDone, ChildChecked,
         DepsDone

(* What the edge table, the rows and the program counters say about one    *)
(* another holds at every step, if no process is killed while it enters a  *)
(* plan.                                                                   *)
THEOREM Ordered ==
  ASSUME "planning" \notin KillIn
  PROVE  Spec => []OrderInv
<1>1. OrderInv /\ TypeOK /\ SchedInv /\ [Next]_vars => OrderInv'
  BY StepOrdered
<1> QED
  BY <1>1, InitOrder, TypeCorrect, Scheduled, PTL DEF Spec

(* A task is executed only after all its plan dependencies have completed, *)
(* if no process is killed while it enters a plan: UnblockIfReady decides  *)
(* on statuses it read without a lock, which is sound because a terminal   *)
(* status is stable and the edges are complete before a tracker runs.      *)
THEOREM DependencyOrderHolds ==
  ASSUME "planning" \notin KillIn
  PROVE  Spec => []DependencyOrder
<1>1. OrderInv => DependencyOrder
  BY DEF OrderInv, HeldDone, DepsDone, DependencyOrder
<1> QED
  BY <1>1, Ordered, PTL

(***************************************************************************)
(* Wakeups: of two parents that complete together one unblocks the child.  *)
(***************************************************************************)

\* Only a task with dependencies is blocked, and its edges are in by then.
EdgesIn ==
    /\ planTask # NoTask => parents[planTask] \cup planDeps = EffectiveDeps(planTask)
    /\ \A c \in Task : status[c] = "blocked" => parents[c] # {}

NothingRun == inv = 1 /\ phase = "planning" => \A t \in Task : status[t] # "completed"

WakeInv == EdgesIn /\ NothingRun /\ NoLostWakeup

\* Most steps of the lemmas below need the same definitions.
USE DEF TypeOK, DagTypeOK, TrackerTypeOK, FleetTypeOK, SchedInv, TrackInv, TrackerGone,
        PlanCursor, PollHolds, ActiveTracked, RowOf, SnapshotPending,
        CandidatePending, ExecPc, dagVars, trackerVars, pollVars, goVars,
        fleetVars, planVars, vars, TrackerRest, WakeInv, EdgesIn, NothingRun,
        NoLostWakeup, WillUnblock

LEMMA InitWake == Init => WakeInv
  BY DEF Init, DagInit, TrackerInit

LEMMA PlanWake ==
  ASSUME TypeOK, SchedInv, WakeInv, Plan
  PROVE  WakeInv'
<1>1. ASSUME NEW t \in Task, PlanCreate(t) PROVE WakeInv'
  <2>1. {NoTask} \ {NoTask} = {}
    OBVIOUS
  <2> QED
    BY <1>1, <2>1 DEF PlanCreate, CreateTaskFull
<1>2. ASSUME NEW d \in Task, PlanEdge(d) PROVE WakeInv'
  BY <1>2 DEF PlanEdge, AddDependency
<1>3. CASE PlanBlock
  <2>1. /\ phase = "planning" /\ planTask \in Task /\ planDeps = {}
        /\ UNCHANGED <<phase, inv, parents, planTask, planDeps>>
    BY <1>3 DEF PlanBlock
  <2>2. \/ status' = status
        \/ /\ EffectiveDeps(planTask) # {}
           /\ status' = [status EXCEPT ![planTask] = "blocked"]
    BY <1>3 DEF PlanBlock, UpdateTaskStatus
  <2>3. parents[planTask] = EffectiveDeps(planTask)
    BY <2>1
  <2>6. \A c \in Task : status'[c] = "blocked" =>
          status[c] = "blocked" \/ (c = planTask /\ EffectiveDeps(planTask) # {})
    <3> HIDE DEF WakeInv, SchedInv, TrackInv
    <3> QED
      BY <2>1, <2>2
  <2>4. EdgesIn'
    <3>1. \A c \in Task : status'[c] = "blocked" => parents'[c] # {}
      BY <2>1, <2>3, <2>6
    <3>2. parents'[planTask'] \cup planDeps' = EffectiveDeps(planTask')
      BY <2>1, <2>3
    <3> QED
      BY <3>1, <3>2
  <2>5. NothingRun' /\ NoLostWakeup'
    <3>1. ASSUME NEW t \in Task PROVE status'[t] \in {status[t], "blocked"}
      <4> HIDE DEF WakeInv, SchedInv, TrackInv
      <4> QED
        BY <2>1, <2>2
    <3> QED
      BY <2>1, <3>1
  <2> QED
    BY <2>4, <2>5
<1>4. CASE PlanLease
  BY <1>4 DEF PlanLease
<1>5. CASE PlanTaskDone
  BY <1>5 DEF PlanTaskDone
<1>6. CASE StartFleet
  BY <1>6 DEF StartFleet, StartTracker
<1> QED
  BY <1>1, <1>2, <1>3, <1>4, <1>5, <1>6 DEF Plan

\* A step that neither writes a row nor takes a process out of UnblockDependents.
LEMMA StillWakes ==
  ASSUME TypeOK, WakeInv, UNCHANGED <<inv, planTask, planDeps, status, parents>>,
         phase \in {"running", "closing"}, phase' \in {"running", "closing"},
         \A q \in Task :
           pc[q] \in {"unblock", "child", "count", "pendchild", "failchild"}
             => pc'[q] = pc[q] /\ arg'[q] = arg[q] /\ kids'[q] = kids[q]
  PROVE  WakeInv'
<1>1. \A q, c \in Task : WillUnblock(q, c) => WillUnblock(q, c)'
  OBVIOUS
<1> QED
  BY <1>1

LEMMA LifecycleWake ==
  ASSUME TypeOK, SchedInv, WakeInv, Lifecycle
  PROVE  WakeInv'
<1>1. CASE FleetDone \/ FleetStop
  BY <1>1, StillWakes DEF FleetDone, FleetStop, Close
<1>2. CASE Signal
  BY <1>2, StillWakes DEF Signal, CancelContext
<1>3. CASE Exit \/ Kill
  <2>1. /\ phase' = "down" /\ UNCHANGED <<status, parents, inv>>
        /\ planTask' = NoTask \/ UNCHANGED <<planTask, planDeps>>
    BY <1>3 DEF Exit, Kill, ProcessEnds
  <2> HIDE DEF SchedInv, TrackInv
  <2> QED
    BY <2>1
<1>4. CASE NextInvocation
  <2>1. inv' \in Nat \ {1} /\ UNCHANGED <<status, parents, planTask, planDeps>>
    BY <1>4, InvocationsAssumption DEF NextInvocation
  <2> QED
    BY <2>1
<1>5. CASE Finished
  BY <1>5 DEF Finished
<1> QED
  BY <1>1, <1>2, <1>3, <1>4, <1>5 DEF Lifecycle

LEMMA PollWake ==
  ASSUME TypeOK, SchedInv, WakeInv, Poll, UNCHANGED fleetVars,
         phase \in {"running", "closing"}
  PROVE  WakeInv'
<1>1. CASE PollExecute
  BY <1>1, StillWakes DEF PollExecute
<1>2. CASE ~PollExecute
  <2>1. UNCHANGED <<fleetVars, status, parents, pc, arg, kids>>
    BY <1>2 DEF Poll, PollStart, PollVisit, PollLease, PollRollback, PollEnd
  <2> QED
    BY <2>1, StillWakes
<1> QED
  BY <1>1, <1>2

LEMMA ResumeWake ==
  ASSUME TypeOK, SchedInv, WakeInv, Resume, UNCHANGED fleetVars,
         phase \in {"running", "closing"}
  PROVE  WakeInv'
<1>1. /\ UNCHANGED <<fleetVars, status, parents, kids>>
      /\ \A q \in Task : pc'[q] = pc[q] /\ arg'[q] = arg[q]
  BY DEF Resume, ResumeStart, ResumeVisit, ResumeEnd
<1> QED
  BY <1>1, StillWakes

LEMMA GoroutineWake ==
  ASSUME TypeOK, SchedInv, WakeInv, NEW t \in Task, Goroutine(t), UNCHANGED fleetVars,
         phase \in {"running", "closing"}
  PROVE  WakeInv'
<1>1. CASE RunComplete(t)
  <2>1. UNCHANGED <<fleetVars, parents, kids>>
    BY <1>1 DEF RunComplete
  <2>2. /\ status' = [status EXCEPT ![t] = "completed"]
        /\ pc[t] = "run" /\ pc' = [pc EXCEPT ![t] = "unblock"]
        /\ arg' = [arg EXCEPT ![t] = t]
    BY <1>1 DEF RunComplete, UpdateTaskStatus
  <2>3. \A q, c \in Task : WillUnblock(q, c) => WillUnblock(q, c)'
    BY <2>1, <2>2
  <2>4. \A c \in Task : t \in parents[c] => WillUnblock(t, c)'
    BY <2>1, <2>2
  <2>5. EdgesIn' /\ NothingRun'
    BY <2>1, <2>2
  <2>6. NoLostWakeup'
    <3> SUFFICES ASSUME inv = 1, NEW c \in Task, status'[c] = "blocked",
                        \A p \in parents[c] : status'[p] = "completed"
                 PROVE  \E q \in Task : WillUnblock(q, c)'
      BY <2>1
    <3>1. status[c] = "blocked"
      BY <2>2
    <3>2. CASE t \in parents[c]
      BY <2>4, <3>2
    <3>3. CASE t \notin parents[c]
      BY <2>2, <2>3, <3>1, <3>3
    <3> QED
      BY <3>2, <3>3
  <2> QED
    BY <2>5, <2>6
<1>2. CASE ~RunComplete(t)
  <2>1. UNCHANGED <<fleetVars, parents, kids, arg>>
    BY <1>2 DEF Goroutine, Activate, NoAttempt, RunFail, RunError, RunNone, PropagateFail,
       LeaveActive, Release
  <2>2. \A u \in Task : /\ status'[u] = "blocked" => status[u] = "blocked"
                        /\ status'[u] = "completed" => status[u] = "completed"
    <3> HIDE DEF WakeInv, SchedInv, TrackInv
    <3>1. CASE PropagateFail(t)
      <4>1. \A u \in Task : status'[u] \in {status[u], "failed"}
        BY <3>1 DEF PropagateFail, FailDependents
      <4> QED
        BY <4>1
    <3>2. CASE ~PropagateFail(t)
      <4>1. \/ status' = status
            \/ \E s \in {"active", "failed"} : status' = [status EXCEPT ![t] = s]
        <5>1. CASE Activate(t)
          BY <5>1 DEF Activate, UpdateTaskStatus
        <5>2. CASE NoAttempt(t) \/ RunFail(t) \/ RunError(t)
          BY <5>2 DEF NoAttempt, RunFail, RunError, UpdateTaskStatus
        <5>3. CASE RunNone(t) \/ LeaveActive(t) \/ Release(t)
          BY <5>3 DEF RunNone, LeaveActive, Release
        <5> QED
          BY <1>2, <3>2, <5>1, <5>2, <5>3 DEF Goroutine
      <4> QED
        BY <4>1
    <3> QED
      BY <3>1, <3>2
  <2>3. \A q \in Task :
           pc[q] \in {"unblock", "child", "count", "pendchild", "failchild"} => pc'[q] = pc[q]
    BY <1>2 DEF Goroutine, Activate, NoAttempt, RunFail, RunError, RunNone, PropagateFail,
       LeaveActive, Release
  <2>4. \A q, c \in Task : WillUnblock(q, c) => WillUnblock(q, c)'
    BY <2>1, <2>3
  <2> QED
    BY <2>1, <2>2, <2>4
<1> QED
  BY <1>1, <1>2

LEMMA UnblockWake ==
  ASSUME TypeOK, SchedInv, WakeInv, NEW q \in Proc, Unblock(q), UNCHANGED fleetVars,
         phase \in {"running", "closing"}
  PROVE  WakeInv'
<1>1. CASE ReadChildren(q)
  BY <1>1 DEF ReadChildren, Children
<1>2. ASSUME NEW k \in Task, CheckParents(q, k) PROVE WakeInv'
  <2>1. /\ pc[q] = "child" /\ k \in kids[q]
        /\ kids' = [kids EXCEPT ![q] = @ \ {k}]
        /\ UNCHANGED <<fleetVars, status, parents>>
        /\ \A u \in Task : u # q => pc'[u] = pc[u] /\ arg'[u] = arg[u]
    BY <1>2 DEF CheckParents
  <2>2. \/ pc'[q] = "child" /\ ~AllParentsComplete(k)
        \/ pc'[q] = "count" /\ arg'[q] = k
    BY <1>2 DEF CheckParents
  <2>3. \A u, c \in Task : WillUnblock(u, c) =>
          WillUnblock(u, c)' \/ (u = q /\ c = k /\ ~AllParentsComplete(k))
    BY <2>1, <2>2
  <2>4. ~AllParentsComplete(k) => \E p \in parents[k] : status[p] # "completed"
    BY DEF AllParentsComplete
  <2> QED
    BY <2>1, <2>3, <2>4
<1>3. CASE CountFailures(q)
  BY <1>3 DEF CountFailures, SomeParentFailed
<1>4. CASE MoveChild(q)
  BY <1>4 DEF MoveChild, MoveBlocked
<1>5. CASE UnblockReturn(q)
  BY <1>5 DEF UnblockReturn, ReturnPc
<1> QED
  BY <1>1, <1>2, <1>3, <1>4, <1>5 DEF Unblock

LEMMA StepWake ==
  ASSUME TypeOK, SchedInv, WakeInv, [Next]_vars
  PROVE  WakeInv'
<1>1. CASE Track
  BY <1>1, PollWake, ResumeWake, GoroutineWake, UnblockWake DEF Track, TrackerNext
<1>2. CASE UNCHANGED vars
  BY <1>2
<1> QED
  BY <1>1, <1>2, PlanWake, LifecycleWake DEF Next

HIDE DEF TypeOK, DagTypeOK, TrackerTypeOK, FleetTypeOK, SchedInv, TrackInv, TrackerGone,
         PlanCursor, PollHolds, ActiveTracked, RowOf, SnapshotPending,
         CandidatePending, ExecPc, dagVars, trackerVars, pollVars, goVars,
         fleetVars, planVars, vars, TrackerRest, WakeInv, EdgesIn, NothingRun,
         NoLostWakeup, WillUnblock

(* As long as no process has died, a blocked task whose parents have all   *)
(* completed is in the hands of one of them, although each parent checks   *)
(* the others without a lock.                                              *)
THEOREM NoLostWakeupHolds == Spec => []NoLostWakeup
<1>1. WakeInv /\ TypeOK /\ SchedInv /\ [Next]_vars => WakeInv'
  BY StepWake
<1>2. WakeInv => NoLostWakeup
  BY DEF WakeInv
<1> QED
  BY <1>1, <1>2, InitWake, TypeCorrect, Scheduled, PTL DEF Spec

(***************************************************************************)
(* Path leases                                                             *)
(***************************************************************************)

\* A task keeps the leases of all its paths while it has a goroutine.
HeldLeased ==
    \A t \in Task : pc[t] # "idle" =>
        \A i \in 1 .. Len(OwnedPaths[t]) : lease[OwnedPaths[t][i]] = t

\* poll has leased the first paths of its candidate.
CandidateLeased ==
    cand # NoTask =>
        /\ got <= Len(OwnedPaths[cand])
        /\ \A i \in 1 .. got : lease[OwnedPaths[cand][i]] = cand

LeaseInv == HeldLeased /\ CandidateLeased

\* Most steps of the lemmas below need the same definitions.
USE DEF TypeOK, DagTypeOK, TrackerTypeOK, FleetTypeOK, SchedInv, TrackInv, TrackerGone,
        PlanCursor, PollHolds, ActiveTracked, RowOf, SnapshotPending,
        CandidatePending, ExecPc, dagVars, trackerVars, pollVars, goVars,
        fleetVars, planVars, vars, TrackerRest, LeaseInv, HeldLeased,
        CandidateLeased

LEMMA InitLease == Init => LeaseInv
  BY DEF Init, DagInit, TrackerInit

LEMMA PlanLeased ==
  ASSUME TypeOK, SchedInv, LeaseInv, Plan
  PROVE  LeaseInv'
<1>1. ASSUME NEW t \in Task, PlanCreate(t) PROVE LeaseInv'
  BY <1>1 DEF PlanCreate, CreateTaskFull
<1>2. ASSUME NEW d \in Task, PlanEdge(d) PROVE LeaseInv'
  BY <1>2 DEF PlanEdge, AddDependency
<1>3. CASE PlanBlock
  BY <1>3 DEF PlanBlock, UpdateTaskStatus
<1>4. CASE PlanLease
  BY <1>4 DEF PlanLease, AcquirePathLease
<1>5. CASE PlanTaskDone
  BY <1>5 DEF PlanTaskDone
<1>6. CASE StartFleet
  BY <1>6 DEF StartFleet, StartTracker
<1> QED
  BY <1>1, <1>2, <1>3, <1>4, <1>5, <1>6 DEF Plan

LEMMA LifecycleLeased ==
  ASSUME TypeOK, SchedInv, LeaseInv, Lifecycle
  PROVE  LeaseInv'
<1>1. CASE FleetDone
  BY <1>1 DEF FleetDone, Close, MuFree
<1>2. CASE Signal
  BY <1>2 DEF Signal, CancelContext
<1>3. CASE FleetStop
  BY <1>3 DEF FleetStop, Close, MuFree
<1>4. CASE Exit
  BY <1>4 DEF Exit, ProcessEnds
<1>5. CASE Kill
  BY <1>5 DEF Kill, ProcessEnds
<1>6. CASE NextInvocation
  BY <1>6 DEF NextInvocation
<1>7. CASE Finished
  BY <1>7 DEF Finished
<1> QED
  BY <1>1, <1>2, <1>3, <1>4, <1>5, <1>6, <1>7 DEF Lifecycle

LEMMA PollLeased ==
  ASSUME TypeOK, SchedInv, LeaseInv, Poll,
         phase \in {"running", "closing"},
         UNCHANGED fleetVars
  PROVE  LeaseInv'
<1>1. CASE PollStart
  BY <1>1 DEF PollStart, ReadyTasks, MuFree
<1>2. ASSUME NEW t \in Task, PollVisit(t) PROVE LeaseInv'
  BY <1>2, OwnedPathsAssumption DEF PollVisit
<1>3. CASE PollLease
  BY <1>3, OwnedPathsAssumption DEF PollLease, AcquirePathLease, Acquirable
<1>4. CASE PollRollback
  BY <1>4, OwnedPathsAssumption DEF PollRollback, ReleasePathLeases
<1>5. CASE PollExecute
  BY <1>5, OwnedPathsAssumption DEF PollExecute
<1>6. CASE PollEnd
  BY <1>6 DEF PollEnd
<1> QED
  BY <1>1, <1>2, <1>3, <1>4, <1>5, <1>6 DEF Poll

LEMMA ResumeLeased ==
  ASSUME TypeOK, SchedInv, LeaseInv, Resume,
         phase \in {"running", "closing"},
         UNCHANGED fleetVars
  PROVE  LeaseInv'
<1>1. CASE ResumeStart
  BY <1>1 DEF ResumeStart
<1>2. ASSUME NEW b \in Task, ResumeVisit(b) PROVE LeaseInv'
  BY <1>2 DEF ResumeVisit
<1>3. CASE ResumeEnd
  BY <1>3 DEF ResumeEnd
<1> QED
  BY <1>1, <1>2, <1>3 DEF Resume

LEMMA GoroutineLeased ==
  ASSUME TypeOK, SchedInv, LeaseInv, NEW t \in Task, Goroutine(t),
         phase \in {"running", "closing"},
         UNCHANGED fleetVars
  PROVE  LeaseInv'
<1>1. CASE Activate(t)
  BY <1>1 DEF Activate, UpdateTaskStatus
<1>2. CASE NoAttempt(t)
  BY <1>2 DEF NoAttempt, UpdateTaskStatus
<1>3. CASE RunComplete(t)
  BY <1>3 DEF RunComplete, UpdateTaskStatus
<1>4. CASE RunFail(t)
  BY <1>4 DEF RunFail, UpdateTaskStatus
<1>5. CASE RunError(t)
  BY <1>5 DEF RunError, UpdateTaskStatus
<1>6. CASE RunNone(t)
  BY <1>6 DEF RunNone
<1>7. CASE PropagateFail(t)
  BY <1>7 DEF PropagateFail, FailDependents
<1>8. CASE LeaveActive(t)
  BY <1>8 DEF LeaveActive, MuFree
<1>9. CASE Release(t)
  <2>1. \A p \in Path, u \in Task : u # t /\ lease[p] = u => lease'[p] = u
    BY <1>9 DEF Release, ReleasePathLeases
  <2>2. /\ pc'[t] = "idle" /\ pc[t] # "idle"
        /\ \A u \in Task : u # t => pc'[u] = pc[u]
    BY <1>9 DEF Release
  <2>3. \A u \in Task : \A i \in 1 .. Len(OwnedPaths[u]) : OwnedPaths[u][i] \in Path
    BY OwnedPathsAssumption
  <2>4. HeldLeased'
    BY <2>1, <2>2, <2>3
  <2>5. UNCHANGED <<cand, got>> /\ cand # t
    BY <1>9, <2>2 DEF Release
  <2>6. CandidateLeased'
    BY <2>1, <2>3, <2>5
  <2> QED BY <2>4, <2>6 DEF LeaseInv
<1> QED
  BY <1>1, <1>2, <1>3, <1>4, <1>5, <1>6, <1>7, <1>8, <1>9 DEF Goroutine

LEMMA UnblockLeased ==
  ASSUME TypeOK, SchedInv, LeaseInv, NEW q \in Proc, Unblock(q),
         phase \in {"running", "closing"},
         UNCHANGED fleetVars
  PROVE  LeaseInv'
<1>1. CASE ReadChildren(q)
  BY <1>1 DEF ReadChildren
<1>2. ASSUME NEW c \in Task, CheckParents(q, c) PROVE LeaseInv'
  BY <1>2 DEF CheckParents
<1>3. CASE CountFailures(q)
  BY <1>3 DEF CountFailures
<1>4. CASE MoveChild(q)
  BY <1>4 DEF MoveChild, MoveBlocked
<1>5. CASE UnblockReturn(q)
  BY <1>5 DEF UnblockReturn, ReturnPc
<1> QED
  BY <1>1, <1>2, <1>3, <1>4, <1>5 DEF Unblock

LEMMA StepLeased ==
  ASSUME TypeOK, SchedInv, LeaseInv, [Next]_vars
  PROVE  LeaseInv'
<1>1. CASE Track
  BY <1>1, PollLeased, ResumeLeased, GoroutineLeased, UnblockLeased DEF Track,
      TrackerNext
<1>2. CASE UNCHANGED vars
  BY <1>2
<1> QED
  BY <1>1, <1>2, PlanLeased, LifecycleLeased DEF Next

HIDE DEF TypeOK, DagTypeOK, TrackerTypeOK, FleetTypeOK, SchedInv, TrackInv, TrackerGone,
         PlanCursor, PollHolds, ActiveTracked, RowOf, SnapshotPending,
         CandidatePending, ExecPc, dagVars, trackerVars, pollVars, goVars,
         fleetVars, planVars, vars, TrackerRest, LeaseInv, HeldLeased,
         CandidateLeased

(* Whoever is dispatched holds the lease of every path it owns, from       *)
(* before its goroutine is spawned to its last statement.                  *)
THEOREM Leased == Spec => []LeaseInv
<1>1. LeaseInv /\ TypeOK /\ SchedInv /\ [Next]_vars => LeaseInv'
  BY StepLeased
<1> QED
  BY <1>1, InitLease, TypeCorrect, Scheduled, PTL DEF Spec

(* Two goroutines never own a common path: each has leased its own, and a  *)
(* lease has one owner.                                                    *)
THEOREM PathExclusionHolds == Spec => []PathExclusion
<1>1. LeaseInv => PathExclusion
  BY DEF LeaseInv, HeldLeased, PathExclusion, PathsOf
<1> QED
  BY <1>1, Leased, PTL

(***************************************************************************)
(* Who holds a lease without running: no cycle of tasks waits for paths.   *)
(***************************************************************************)

\* In the first planning, the tasks entered so far have asked for their paths.
AskedInOrder ==
    inv = 1 /\ phase = "planning" =>
        /\ planQueue \subseteq PlanOf(1)
        /\ \A u \in Task : u \notin planQueue /\ u \in PlanOf(1) /\ u # planTask =>
             \A i \in 1 .. Len(PlanPaths[u]) : lease[PlanPaths[u][i]] # NoTask
        /\ \A i \in 1 .. planIdx : lease[PlanPaths[planTask][i]] # NoTask
        /\ planTask # NoTask => planTask \in PlanOf(1) /\ \A u \in planQueue : planTask < u

\* poll's candidate has taken no lease of its own before its first path.
HolderFirst ==
    inv = 1 /\ phase # "down" =>
        \A p \in Path, t, u \in Task :
            /\ lease[p] = t /\ pc[t] = "idle" /\ (cand # t \/ got = 0)
            /\ PlanLists(u, p)
            => t <= u

HolderInv == AskedInOrder /\ HolderFirst

\* Most steps of the lemmas below need the same definitions.
USE DEF TypeOK, DagTypeOK, TrackerTypeOK, FleetTypeOK, SchedInv, TrackInv, TrackerGone,
        PlanCursor, PollHolds, ActiveTracked, RowOf, SnapshotPending,
        CandidatePending, ExecPc, dagVars, trackerVars, pollVars, goVars,
        fleetVars, planVars, vars, TrackerRest, HolderInv, AskedInOrder,
        HolderFirst

LEMMA InitHolder == Init => HolderInv
  BY DEF Init, DagInit, TrackerInit

\* The plan enters its tasks in order: a path that is free has not been listed.
LEMMA PlanLeaseFirst ==
  ASSUME TypeOK, SchedInv, HolderInv, PlanLease
  PROVE  HolderInv'
<1> DEFINE p == PlanPaths[planTask][planIdx + 1]
<1>1. /\ phase = "planning" /\ planTask \in Task
      /\ planIdx \in Nat /\ planIdx + 1 \in 1 .. Len(PlanPaths[planTask])
      /\ planIdx' = planIdx + 1
      /\ UNCHANGED <<phase, inv, planQueue, planTask, pc, cand, got>>
  BY PlanPathsAssumption DEF PlanLease
<1>2. p \in Path
  BY <1>1, PlanPathsAssumption
<1>3. lease' = [lease EXCEPT ![p] = IF lease[p] \in {NoTask, planTask} THEN planTask ELSE @]
  BY DEF PlanLease, AcquirePathLease, Acquirable
<1>4. \A q \in Path : lease'[q] = lease[q] \/ (q = p /\ lease[p] = NoTask /\ lease'[p] = planTask)
  BY <1>1, <1>2, <1>3
<1>5. lease'[p] # NoTask
  BY <1>1, <1>2, <1>3
<1>6. \A u \in Task : \A i \in 1 .. Len(PlanPaths[u]) : PlanPaths[u][i] \in Path
  BY PlanPathsAssumption
<1>7. AskedInOrder'
  <2> SUFFICES ASSUME inv = 1 PROVE AskedInOrder'
    BY <1>1
  <2>1. ASSUME NEW u \in Task, u \notin planQueue, u \in PlanOf(1), u # planTask,
               NEW i \in 1 .. Len(PlanPaths[u])
        PROVE  lease'[PlanPaths[u][i]] # NoTask
    BY <1>1, <1>4, <1>6, <2>1
  <2>2. ASSUME NEW i \in 1 .. planIdx + 1
        PROVE  lease'[PlanPaths[planTask][i]] # NoTask
    <3>1. i = planIdx + 1 \/ i \in 1 .. planIdx
      BY <1>1
    <3>2. PlanPaths[planTask][i] \in Path
      BY <1>1, <1>6, <3>1
    <3> QED
      BY <1>1, <1>4, <1>5, <3>1, <3>2
  <2> QED
    BY <1>1, <2>1, <2>2
<1>8. HolderFirst'
  <2> SUFFICES ASSUME inv = 1, NEW q \in Path, NEW t \in Task, NEW u \in Task,
                      lease'[q] = t, PlanLists(u, q)
               PROVE  t <= u
    BY <1>1 DEF PlanLists
  <2>1. pc[t] = "idle" /\ cand = NoTask
    BY <1>1
  <2>2. CASE lease'[q] = lease[q]
    BY <1>1, <2>1, <2>2
  <2>3. CASE q = p /\ lease[p] = NoTask /\ t = planTask
    <3> SUFFICES ASSUME u < t PROVE FALSE
      OBVIOUS
    <3>1. u \in PlanOf(1)
      BY <1>1, <2>3, InvocationOfAssumption DEF PlanOf
    <3>2. u \notin planQueue
      BY <1>1, <2>3
    <3>3. PICK i \in 1 .. Len(PlanPaths[u]) : PlanPaths[u][i] = q
      BY DEF PlanLists
    <3> QED
      BY <1>1, <2>3, <3>1, <3>2, <3>3
  <2> QED
    BY <1>4, <2>2, <2>3
<1> QED
  BY <1>7, <1>8

LEMMA PlanHolder ==
  ASSUME TypeOK, SchedInv, HolderInv, Plan
  PROVE  HolderInv'
<1>1. ASSUME NEW t \in Task, PlanCreate(t) PROVE HolderInv'
  <2>1. /\ planTask = NoTask /\ planIdx = -1 /\ t \in planQueue /\ \A u \in planQueue : t <= u
        /\ planQueue' = planQueue \ {t} /\ planTask' = t
        /\ UNCHANGED <<lease, trackerVars, phase, inv, planIdx>>
    BY <1>1 DEF PlanCreate
  <2>2. AskedInOrder'
    <3> HIDE DEF SchedInv, TrackInv, HolderFirst, TrackerTypeOK
    <3>1. t \in PlanOf(1) \/ ~(inv = 1 /\ phase = "planning")
      BY <2>1
    <3>2. planIdx' = -1 /\ \A u \in planQueue' : u # t /\ t <= u
      BY <2>1
    <3>3. \A u \in planQueue' : t < u
      <4>1. \A u \in planQueue : u \in Nat
        BY NAssumption
      <4>2. t \in planQueue /\ planQueue' \subseteq planQueue
        BY <2>1
      <4> HIDE DEF TypeOK, HolderInv
      <4> QED
        BY <3>2, <4>1, <4>2
    <3>4. ASSUME NEW u \in Task, u \notin planQueue', u # planTask'
          PROVE  u \notin planQueue /\ u # planTask
      BY <2>1, <3>4, NAssumption
    <3>5. 1 .. planIdx' = {}
      BY <3>2
    <3>6. ASSUME inv = 1, phase = "planning"
          PROVE  \A u \in Task : u \notin planQueue' /\ u \in PlanOf(1) /\ u # planTask' =>
                   \A i \in 1 .. Len(PlanPaths[u]) : lease'[PlanPaths[u][i]] # NoTask
      <4> HIDE DEF Task, NoTask
      <4> QED
        BY <2>1, <3>4, <3>6
    <3> HIDE DEF Task, NoTask
    <3> QED
      BY <2>1, <3>1, <3>3, <3>5, <3>6
  <2>3. HolderFirst'
    BY <2>1 DEF PlanLists
  <2> QED
    BY <2>2, <2>3
<1>2. ASSUME NEW d \in Task, PlanEdge(d) PROVE HolderInv'
  BY <1>2 DEF PlanEdge, PlanLists
<1>3. CASE PlanBlock
  BY <1>3 DEF PlanBlock, PlanLists
<1>4. CASE PlanLease
  BY <1>4, PlanLeaseFirst
<1>5. CASE PlanTaskDone
  <2>1. /\ planTask \in Task /\ planIdx = Len(PlanPaths[planTask])
        /\ planTask' = NoTask /\ planIdx' = -1
        /\ UNCHANGED <<lease, trackerVars, phase, inv, planQueue>>
    BY <1>5 DEF PlanTaskDone
  <2>2. AskedInOrder'
    BY <2>1
  <2>3. HolderFirst'
    BY <2>1 DEF PlanLists
  <2> QED
    BY <2>2, <2>3
<1>6. CASE StartFleet
  BY <1>6 DEF StartFleet, StartTracker, PlanLists
<1> QED
  BY <1>1, <1>2, <1>3, <1>4, <1>5, <1>6 DEF Plan

LEMMA LifecycleHolder ==
  ASSUME TypeOK, SchedInv, HolderInv, Lifecycle
  PROVE  HolderInv'
<1>1. CASE FleetDone
  BY <1>1 DEF FleetDone, Close, PlanLists
<1>2. CASE FleetStop
  BY <1>2 DEF FleetStop, Close, PlanLists
<1>3. CASE Signal
  BY <1>3 DEF Signal, CancelContext, PlanLists
<1>4. CASE Exit \/ Kill
  BY <1>4 DEF Exit, Kill
<1>5. CASE NextInvocation
  <2>1. inv' \in Nat \ {1}
    BY <1>5, InvocationsAssumption DEF NextInvocation
  <2> QED
    BY <2>1
<1>6. CASE Finished
  BY <1>6 DEF Finished, PlanLists
<1> QED
  BY <1>1, <1>2, <1>3, <1>4, <1>5, <1>6 DEF Lifecycle

LEMMA PollHolder ==
  ASSUME TypeOK, SchedInv, HolderInv, Poll, UNCHANGED fleetVars,
         phase \in {"running", "closing"}
  PROVE  HolderInv'
<1>1. CASE PollStart
  BY <1>1 DEF PollStart, PlanLists
<1>2. ASSUME NEW t \in Task, PollVisit(t) PROVE HolderInv'
  BY <1>2 DEF PollVisit, PlanLists
<1>3. CASE PollLease
  BY <1>3, OwnedPathsAssumption DEF PollLease, AcquirePathLease, Acquirable, PlanLists
<1>4. CASE PollRollback
  BY <1>4 DEF PollRollback, ReleasePathLeases, PlanLists
<1>5. CASE PollExecute
  BY <1>5 DEF PollExecute, PlanLists
<1>6. CASE PollEnd
  BY <1>6 DEF PollEnd, PlanLists
<1> QED
  BY <1>1, <1>2, <1>3, <1>4, <1>5, <1>6 DEF Poll

\* Whoever becomes idle has released its leases.
LEMMA OthersHolder ==
  ASSUME TypeOK, SchedInv, HolderInv, UNCHANGED fleetVars,
         phase \in {"running", "closing"},
         \/ Resume \/ \E t \in Task : Goroutine(t)
         \/ \E q \in Proc : Unblock(q)
  PROVE  HolderInv'
<1>1. UNCHANGED <<cand, got>>
  BY DEF Resume, ResumeStart, ResumeVisit, ResumeEnd, Goroutine, Activate, NoAttempt,
     RunComplete, RunFail, RunError, RunNone, PropagateFail, LeaveActive, Release,
     Unblock, ReadChildren, CheckParents, CountFailures, MoveChild, UnblockReturn
<1>2. ASSUME NEW t \in Task, Release(t) PROVE HolderInv'
  BY <1>1, <1>2 DEF Release, ReleasePathLeases, PlanLists
<1>3. CASE ~ \E t \in Task : Release(t)
  <2>1. lease' = lease
    BY <1>3 DEF Resume, ResumeStart, ResumeVisit, ResumeEnd, Goroutine, Activate, NoAttempt,
       RunComplete, RunFail, RunError, RunNone, PropagateFail, LeaveActive,
       Unblock, ReadChildren, CheckParents, CountFailures, MoveChild, UnblockReturn
  <2>2. \A t \in Task : pc'[t] = "idle" => pc[t] = "idle"
    BY <1>3 DEF Resume, ResumeStart, ResumeVisit, ResumeEnd, Goroutine, Activate, NoAttempt,
       RunComplete, RunFail, RunError, RunNone, PropagateFail, LeaveActive,
       Unblock, ReadChildren, CheckParents, CountFailures, MoveChild, UnblockReturn, ReturnPc
  <2> QED
    BY <1>1, <2>1, <2>2 DEF PlanLists
<1> QED
  BY <1>2, <1>3

LEMMA StepHolder ==
  ASSUME TypeOK, SchedInv, HolderInv, [Next]_vars
  PROVE  HolderInv'
<1>1. CASE Track
  BY <1>1, PollHolder, OthersHolder DEF Track, TrackerNext
<1>2. CASE UNCHANGED vars
  BY <1>2, SMTT(30) DEF PlanLists
<1> QED
  BY <1>1, <1>2, PlanHolder, LifecycleHolder DEF Next

HIDE DEF TypeOK, DagTypeOK, TrackerTypeOK, FleetTypeOK, SchedInv, TrackInv, TrackerGone,
         PlanCursor, PollHolds, ActiveTracked, RowOf, SnapshotPending,
         CandidatePending, ExecPc, dagVars, trackerVars, pollVars, goVars,
         fleetVars, planVars, vars, TrackerRest, HolderInv, AskedInOrder,
         HolderFirst

(* In the first invocation, a lease that is held without a goroutine or a  *)
(* dispatch under way belongs to the first task of the plan that lists the *)
(* path: poll's partial leases never survive its visit.                    *)
THEOREM IdleHolderIsFirstHolds == Spec => []IdleHolderIsFirst
<1>1. HolderInv /\ TypeOK /\ SchedInv /\ [Next]_vars => HolderInv'
  BY StepHolder
<1>2. HolderInv => IdleHolderIsFirst
  BY DEF HolderInv, HolderFirst, IdleHolderIsFirst
<1> QED
  BY <1>1, <1>2, InitHolder, TypeCorrect, Scheduled, PTL DEF Spec

(***************************************************************************)
(* The size of the pool                                                    *)
(***************************************************************************)

\* poll counts t.active before it leases for a candidate; after Close the
\* goroutines are no longer counted, but poll never starts another one.
BoundInv ==
    /\ ~closed => Cardinality(active) <= WorkerLimit
    /\ ~closed /\ cand # NoTask => Cardinality(active) < WorkerLimit
    /\ WorkerBound

LEMMA TasksFinite ==
  ASSUME NEW S \in SUBSET Task
  PROVE  IsFiniteSet(S) /\ Cardinality(S) \in Nat
<1>1. IsFiniteSet(Task)
  BY NAssumption, FS_Interval
<1> QED
  BY <1>1, FS_Subset, FS_CardinalityType

LEMMA LimitPositive == WorkerLimit \in Nat /\ 1 <= WorkerLimit
  BY MaxWorkersAssumption DEF WorkerLimit

LEMMA InitBound == Init => BoundInv
<1> SUFFICES ASSUME Init PROVE BoundInv
  OBVIOUS
<1>1. active = {} /\ Executing = {} /\ cand = NoTask
  BY DEF Init, TrackerInit, Executing, ExecPc
<1> QED
  BY <1>1, LimitPositive, FS_EmptySet DEF BoundInv, WorkerBound

\* A step after which neither t.active nor the executing tasks have grown.
LEMMA NotGrown ==
  ASSUME BoundInv, active \in SUBSET Task, Executing \in SUBSET Task,
         active' \subseteq active, Executing' \subseteq Executing,
         closed => closed', cand' \in {cand, NoTask}
  PROVE  BoundInv'
<1>1. /\ Cardinality(active') \in Nat /\ Cardinality(active') <= Cardinality(active)
      /\ Cardinality(Executing') \in Nat
      /\ Cardinality(Executing') <= Cardinality(Executing)
  BY TasksFinite, FS_Subset
<1>2. Cardinality(active) \in Nat /\ Cardinality(Executing) \in Nat
  BY TasksFinite
<1>3. WorkerLimit' = WorkerLimit
  BY DEF WorkerLimit
<1> QED
  BY <1>1, <1>2, <1>3, LimitPositive DEF BoundInv, WorkerBound

\* poll picks a candidate only if there is room.
LEMMA VisitBound ==
  ASSUME TypeOK, SchedInv, BoundInv, NEW t \in Task, PollVisit(t)
  PROVE  BoundInv'
<1>1. /\ UNCHANGED <<active, closed, Executing, WorkerLimit>>
      /\ Cardinality(active) < WorkerLimit
  BY DEF PollVisit, HasFreeWorker, Executing, WorkerLimit, goVars
<1> QED
  BY <1>1 DEF BoundInv, WorkerBound

\* A dispatched task goes into t.active, where all executing tasks are.
LEMMA ExecuteBound ==
  ASSUME TypeOK, SchedInv, BoundInv, PollExecute
  PROVE  BoundInv'
<1> USE DEF TypeOK, TrackerTypeOK
<1>1. cand \in Task /\ ~closed
  BY DEF PollExecute, SchedInv, TrackInv, PollHolds
<1>2. Cardinality(active) < WorkerLimit /\ Cardinality(active) \in Nat
  BY <1>1, TasksFinite DEF BoundInv
<1>3. Cardinality(active \cup {cand}) <= Cardinality(active) + 1
  BY <1>1, TasksFinite, FS_AddElement
<1>4. Executing \subseteq active
  BY <1>1 DEF Executing, SchedInv, TrackInv, ActiveTracked
<1>5. active' = active \cup {cand} /\ Executing' \subseteq active'
  BY <1>1, <1>4 DEF PollExecute, Executing
<1>6. /\ Cardinality(active') \in Nat
      /\ Cardinality(Executing') \in Nat
      /\ Cardinality(Executing') <= Cardinality(active')
  BY <1>1, <1>5, TasksFinite, FS_Subset
<1>7. cand' = NoTask /\ WorkerLimit' = WorkerLimit
  BY DEF PollExecute, WorkerLimit
<1> QED
  BY <1>2, <1>3, <1>5, <1>6, <1>7, LimitPositive DEF BoundInv, WorkerBound

\* Every other step.
LEMMA OtherBound ==
  ASSUME TypeOK, SchedInv, [Next]_vars, ~PollExecute, \A t \in Task : ~PollVisit(t)
  PROVE  \/ /\ active' \subseteq active /\ Executing' \subseteq Executing
            /\ closed => closed'
            /\ cand' \in {cand, NoTask}
         \/ ProcessEnds
<1> USE DEF TypeOK, TrackerTypeOK, Executing, ExecPc, dagVars, trackerVars,
            pollVars, goVars, TrackerRest
<1>1. CASE Plan
  BY <1>1 DEF Plan, PlanCreate, PlanEdge, PlanBlock, PlanLease, PlanTaskDone,
              StartFleet, StartTracker
<1>2. CASE Lifecycle
  BY <1>2 DEF Lifecycle, FleetDone, Signal, FleetStop, Exit, Kill, NextInvocation,
              Finished, Close, CancelContext, vars
<1>3. CASE Poll
  BY <1>3 DEF Poll, PollStart, PollLease, PollRollback, PollEnd
<1>4. CASE Resume
  BY <1>4 DEF Resume, ResumeStart, ResumeVisit, ResumeEnd
<1>5. ASSUME NEW t \in Task, Goroutine(t)
      PROVE  /\ active' \subseteq active /\ Executing' \subseteq Executing
             /\ closed => closed'
             /\ cand' \in {cand, NoTask}
  BY <1>5 DEF Goroutine, Activate, NoAttempt, RunComplete, RunFail, RunError,
              RunNone, PropagateFail, LeaveActive, Release
<1>6. ASSUME NEW q \in Proc, Unblock(q)
      PROVE  /\ active' \subseteq active /\ Executing' \subseteq Executing
             /\ closed => closed'
             /\ cand' \in {cand, NoTask}
  BY <1>6 DEF Unblock, ReadChildren, CheckParents, CountFailures, MoveChild,
              UnblockReturn, ReturnPc
<1>7. CASE UNCHANGED vars
  BY <1>7 DEF vars
<1> QED
  BY <1>1, <1>2, <1>3, <1>4, <1>5, <1>6, <1>7 DEF Next, Track, TrackerNext

(* poll dispatches only while fewer tasks than the pool has workers are    *)
(* counted in t.active, and after Close not at all.                        *)
THEOREM Bounded == Spec => []BoundInv
<1>1. ASSUME BoundInv, TypeOK, SchedInv, [Next]_vars PROVE BoundInv'
  <2>1. CASE ProcessEnds
    <3>1. active' = {} /\ Executing' = {} /\ cand' = NoTask
      BY <2>1 DEF ProcessEnds, Executing, ExecPc
    <3>2. WorkerLimit' = WorkerLimit
      BY DEF WorkerLimit
    <3> QED
      BY <3>1, <3>2, LimitPositive, FS_EmptySet DEF BoundInv, WorkerBound
  <2>2. CASE PollExecute \/ \E t \in Task : PollVisit(t)
    BY <1>1, <2>2, ExecuteBound, VisitBound
  <2>3. active \in SUBSET Task /\ Executing \in SUBSET Task
    BY <1>1 DEF TypeOK, TrackerTypeOK, Executing
  <2> QED
    BY <1>1, <2>1, <2>2, <2>3, OtherBound, NotGrown
<1> QED
  BY <1>1, InitBound, TypeCorrect, Scheduled, PTL DEF Spec

(* No more tasks execute than the pool has workers, also after Close has   *)
(* emptied t.active, against which poll counts.                            *)
THEOREM WorkerBoundHolds == Spec => []WorkerBound
<1>1. BoundInv => WorkerBound
  BY DEF BoundInv
<1> QED
  BY <1>1, Bounded, PTL

(***************************************************************************)
(* The fleet implements the worker pool of TaskPool: every step of         *)
(* planning, leasing, polling, unblocking and restarting is a step of the  *)
(* pool or leaves what its users see alone.                                *)
(***************************************************************************)

\* Who is about to fail a dependent knows a parent that has failed.
Propagating ==
    /\ \A t \in Task : pc[t] = "faildeps" => status[t] = "failed"
    /\ \A q \in Proc : pc[q] \in {"count", "failchild"} => arg[q] \in Task
    /\ \A q \in Proc : pc[q] = "failchild" =>
         \E d \in parents[arg[q]] : status[d] = "failed"

LEMMA InitPropagating == Init => Propagating
  BY DEF Init, DagInit, TrackerInit, Propagating

\* A failed row stays failed and edges are added to rows that run nothing.
LEMMA FailedStays ==
  ASSUME TypeOK, SchedInv, [Next]_vars, NEW t \in Task, status[t] = "failed"
  PROVE  status'[t] = "failed"
<1>1. CASE Plan
  BY <1>1, PlanStatus DEF PlanningEdge
<1>2. CASE Track
  BY <1>2, TrackStatus DEF StatusEdge
<1>3. CASE Lifecycle
  BY <1>3 DEF Lifecycle, FleetDone, Signal, FleetStop, Exit, Kill, NextInvocation,
              Finished, Close, CancelContext, ProcessEnds, dagVars, vars
<1>4. CASE UNCHANGED vars
  BY <1>4 DEF vars, dagVars
<1> QED
  BY <1>1, <1>2, <1>3, <1>4 DEF Next

LEMMA TrackPropagating ==
  ASSUME TypeOK, SchedInv, Propagating, Track
  PROVE  Propagating'
<1> USE DEF TypeOK, DagTypeOK, TrackerTypeOK, Propagating, TrackerRest, pollVars,
            goVars, dagVars
<1>0. \A t \in Task : status[t] = "failed" => status'[t] = "failed"
  BY FailedStays DEF Next
<1>1. CASE Poll
  BY <1>0, <1>1 DEF Poll, PollStart, PollVisit, PollLease, PollRollback, PollExecute,
         PollEnd
<1>2. CASE Resume
  <2>1. UNCHANGED <<status, parents>>
    BY <1>2 DEF Resume, ResumeStart, ResumeVisit, ResumeEnd
  <2>2. \A q \in Proc : pc'[q] \in {"count", "failchild", "faildeps"} =>
                          pc'[q] = pc[q] /\ arg'[q] = arg[q]
    BY <1>2 DEF Resume, ResumeStart, ResumeVisit, ResumeEnd
  <2> QED
    BY <2>1, <2>2
<1>3. ASSUME NEW u \in Task, Goroutine(u) PROVE Propagating'
  <2>1. parents' = parents
    BY <1>3 DEF Goroutine, Activate, NoAttempt, RunComplete, RunFail, RunError,
                RunNone, PropagateFail, LeaveActive, Release
  <2>2. \A q \in Proc : pc'[q] \in {"count", "failchild"} =>
                          pc'[q] = pc[q] /\ arg'[q] = arg[q]
    BY <1>3 DEF Goroutine, Activate, NoAttempt, RunComplete, RunFail, RunError,
                RunNone, PropagateFail, LeaveActive, Release
  <2>3. \A t \in Task : pc'[t] = "faildeps" /\ pc[t] # "faildeps" => status'[t] = "failed"
    BY <1>3 DEF Goroutine, Activate, NoAttempt, RunComplete, RunFail, RunError,
                RunNone, PropagateFail, LeaveActive, Release, UpdateTaskStatus
  <2> QED
    BY <1>0, <2>1, <2>2, <2>3
<1>4. ASSUME NEW q \in Proc, Unblock(q) PROVE Propagating'
  <2>1. parents' = parents
    BY <1>4 DEF Unblock, ReadChildren, CheckParents, CountFailures, MoveChild,
                UnblockReturn
  <2>2. \A t \in Task : pc'[t] = "faildeps" => pc[t] = "faildeps"
    BY <1>4 DEF Unblock, ReadChildren, CheckParents, CountFailures, MoveChild,
                UnblockReturn, ReturnPc
  <2>3. \A r \in Proc : pc'[r] \in {"count", "failchild"} =>
            \/ pc'[r] = pc[r] /\ arg'[r] = arg[r]
            \/ arg'[r] \in Task /\ (pc'[r] = "failchild" => SomeParentFailed(arg'[r]))
    BY <1>4 DEF Unblock, ReadChildren, CheckParents, CountFailures, MoveChild,
                UnblockReturn, ReturnPc, SomeParentFailed
  <2> QED
    BY <1>0, <2>1, <2>2, <2>3 DEF SomeParentFailed
<1> QED
  BY <1>1, <1>2, <1>3, <1>4 DEF Track, TrackerNext

LEMMA StepPropagating ==
  ASSUME TypeOK, SchedInv, Propagating, [Next]_vars
  PROVE  Propagating'
<1> USE DEF TypeOK, DagTypeOK, TrackerTypeOK, Propagating
<1>0. \A t \in Task : status[t] = "failed" => status'[t] = "failed"
  BY FailedStays
<1>1. CASE Plan
  <2>1. \A q \in Proc : pc[q] = "idle" /\ pc'[q] \in {"idle", "call"}
    BY <1>1 DEF Plan, PlanCreate, PlanEdge, PlanBlock, PlanLease, PlanTaskDone,
                StartFleet, StartTracker, trackerVars, SchedInv, TrackInv, TrackerGone
  <2> QED
    BY <2>1
<1>2. CASE Lifecycle
  <2>1. \/ \A q \in Proc : pc'[q] = "idle"
        \/ UNCHANGED <<pc, arg, status, parents>>
    BY <1>2 DEF Lifecycle, FleetDone, Signal, FleetStop, Exit, Kill, NextInvocation,
                Finished, Close, CancelContext, ProcessEnds, dagVars, goVars,
                trackerVars, vars
  <2> QED
    BY <2>1
<1>3. CASE UNCHANGED vars
  BY <1>3 DEF vars, dagVars, trackerVars
<1> QED
  BY <1>1, <1>2, <1>3, TrackPropagating DEF Next

-----------------------------------------------------------------------------
(***************************************************************************)
(* The steps.  What the pool sees of a state are the verdicts, which       *)
(* depend on status alone, and the tasks being executed.                   *)
(***************************************************************************)

LEMMA InitPool == Init => Pool!PoolInit
  BY DEF Init, DagInit, TrackerInit, Pool!PoolInit, Terminal, Executing, ExecPc

\* Neither a verdict nor the set of executing tasks changes.
LEMMA Unseen ==
  ASSUME \A t \in Task : status'[t] = status[t] \/ (~Terminal(t) /\ ~Terminal(t)'),
         Executing' = Executing
  PROVE  UNCHANGED Pool!poolVars
  BY DEF Pool!poolVars, Terminal

LEMMA PlanPool == ASSUME TypeOK, SchedInv, Plan PROVE UNCHANGED Pool!poolVars
<1>1. \A t \in Task : status'[t] = status[t] \/ (~Terminal(t) /\ ~Terminal(t)')
  BY PlanStatus DEF PlanningEdge, Terminal
<1>2. \A t \in Task : pc'[t] = pc[t]
  BY DEF Plan, PlanCreate, PlanEdge, PlanBlock, PlanLease, PlanTaskDone, StartFleet,
         StartTracker, trackerVars, TypeOK, TrackerTypeOK
<1> QED
  BY <1>1, <1>2, Unseen DEF Executing

LEMMA LifecyclePool == ASSUME TypeOK, Lifecycle PROVE [Pool!PoolNext]_Pool!poolVars
<1>1. status' = status
  BY DEF Lifecycle, FleetDone, Signal, FleetStop, Exit, Kill, NextInvocation,
         Finished, Close, CancelContext, ProcessEnds, dagVars, vars
<1>2. CASE Exit \/ Kill
  <2>1. Executing' = {}
    BY <1>2 DEF Exit, Kill, ProcessEnds, Executing, ExecPc
  <2> QED
    BY <1>1, <2>1 DEF Pool!PoolNext, Pool!Vanish, Terminal
<1>3. CASE ~(Exit \/ Kill)
  <2>1. pc' = pc
    BY <1>3 DEF Lifecycle, FleetDone, Signal, FleetStop, NextInvocation, Finished,
                Close, CancelContext, goVars, trackerVars, vars
  <2> QED
    BY <1>1, <2>1, Unseen DEF Executing
<1> QED
  BY <1>2, <1>3

\* The abstract module counts with its own instance of the same definition.
LEMMA SameCount == \A S : Pool!Cardinality(S) = Cardinality(S)
  BY DEF Pool!Cardinality, Cardinality

\* executeTask begins the candidate: its dependencies are done (HeldDone), it
\* has leased every path it owns and every executing task has leased its own,
\* and the tasks being executed are among those counted in t.active.
LEMMA ExecutePool ==
  ASSUME TypeOK, SchedInv, OrderInv, LeaseInv, BoundInv, PollExecute
  PROVE  Pool!Begin(cand)
<1> USE DEF TypeOK, DagTypeOK, TrackerTypeOK
<1>1. cand \in Task /\ ~closed /\ status[cand] = "pending" /\ pc[cand] = "idle"
  BY DEF PollExecute, SchedInv, TrackInv, PollHolds, CandidatePending
<1>2. cand \notin Executing /\ ~Terminal(cand)
  BY <1>1 DEF Executing, ExecPc, Terminal
<1>3. \A d \in EffectiveDeps(cand) : d \in Task /\ status[d] = "completed"
  BY <1>1, DepsAreTasks DEF OrderInv, HeldDone, DepsDone
<1>4. \A u \in Executing : PathsOf(u) \cap PathsOf(cand) = {}
  BY <1>1, <1>2, SMTT(30) DEF PollExecute, LeaseInv, HeldLeased, CandidateLeased, PathsOf,
                    Executing, ExecPc
<1>5. Cardinality(Executing) < WorkerLimit
  <2>1. Executing \subseteq active /\ active \subseteq Task
    BY <1>1 DEF Executing, SchedInv, TrackInv, ActiveTracked
  <2>2. Cardinality(active) < WorkerLimit
    BY <1>1 DEF BoundInv
  <2>3. IsFiniteSet(active) /\ Cardinality(active) \in Nat
    BY <2>1, TasksFinite
  <2>4. Cardinality(Executing) <= Cardinality(active) /\ Cardinality(Executing) \in Nat
    BY <2>1, <2>3, FS_Subset, TasksFinite
  <2> QED
    BY <2>2, <2>3, <2>4, LimitPositive
<1>6. Executing' = Executing \cup {cand}
  BY <1>1 DEF PollExecute, Executing, ExecPc
<1>7. status' = status
  BY DEF PollExecute, dagVars
<1> DEFINE verdict == [t \in Task |-> IF Terminal(t) THEN status[t] ELSE "none"]
           Deps == [t \in Task |-> EffectiveDeps(t)]
           Owns == [t \in Task |-> PathsOf(t)]
<1>8. \A d \in Deps[cand] : verdict[d] = "completed"
  BY <1>1, <1>3 DEF Terminal
<1>9. \A u \in Executing : Owns[u] \cap Owns[cand] = {}
  BY <1>1, <1>4 DEF Executing
<1>10. verdict' = verdict /\ verdict[cand] = "none"
  BY <1>1, <1>2, <1>7 DEF Terminal
<1> QED
  BY <1>2, <1>5, <1>6, <1>8, <1>9, <1>10, SameCount DEF Pool!Begin

LEMMA PollPool ==
  ASSUME TypeOK, SchedInv, OrderInv, LeaseInv, BoundInv, Poll
  PROVE  [Pool!PoolNext]_Pool!poolVars
<1>1. CASE PollExecute
  <2>1. cand \in Task
    BY <1>1 DEF PollExecute, TypeOK, TrackerTypeOK
  <2> QED
    BY <1>1, <2>1, ExecutePool DEF Pool!PoolNext
<1>2. CASE ~PollExecute
  <2>1. UNCHANGED <<status, pc>>
    BY <1>2 DEF Poll, PollStart, PollVisit, PollLease, PollRollback, PollEnd, dagVars,
                goVars
  <2> QED
    BY <2>1, Unseen DEF Executing, Terminal
<1> QED
  BY <1>1, <1>2

LEMMA ResumePool ==
  ASSUME TypeOK, Resume
  PROVE  UNCHANGED Pool!poolVars
<1>1. status' = status /\ \A t \in Task : pc'[t] = pc[t]
  BY DEF Resume, ResumeStart, ResumeVisit, ResumeEnd, dagVars, TypeOK, TrackerTypeOK
<1> QED
  BY <1>1, Unseen DEF Executing, Terminal

\* The row of an executing task gets its final status.
LEMMA DecidePool ==
  ASSUME NEW t \in Task, NEW v \in {"completed", "failed"}, TypeOK,
         t \in Executing, ~Terminal(t), UpdateTaskStatus(t, v),
         Executing' = Executing
  PROVE  Pool!PoolNext
<1>1. Pool!Decide(t, v)
  BY DEF Pool!Decide, UpdateTaskStatus, Terminal, TypeOK, DagTypeOK
<1> QED
  BY <1>1 DEF Pool!PoolNext

\* Unrun tasks below a failed one are failed.
LEMMA CancelPool ==
  ASSUME TypeOK, NEW S \in SUBSET Task,
         \A c \in S : /\ c \notin Executing /\ ~Terminal(c)
                     /\ \E d \in EffectiveDeps(c) : status[d] = "failed",
         status' = [c \in Task |-> IF c \in S THEN "failed" ELSE status[c]],
         Executing' = Executing
  PROVE  Pool!PoolNext
<1> DEFINE verdict == [t \in Task |-> IF Terminal(t) THEN status[t] ELSE "none"]
           Deps == [t \in Task |-> EffectiveDeps(t)]
<1>1. \A c \in S : verdict[c] = "none" /\ \E d \in Deps[c] : verdict[d] = "failed"
  BY DepsAreTasks DEF Terminal
<1>2. verdict' = [t \in Task |-> IF t \in S THEN "failed" ELSE verdict[t]]
  BY DEF Terminal, TypeOK, DagTypeOK
<1>3. Pool!Cancel(S)
  BY <1>1, <1>2 DEF Pool!Cancel
<1> QED
  BY <1>3 DEF Pool!PoolNext

LEMMA GoroutinePool ==
  ASSUME TypeOK, SchedInv, OrderInv, Propagating, NEW t \in Task, Goroutine(t)
  PROVE  [Pool!PoolNext]_Pool!poolVars
<1> USE DEF TypeOK, TrackerTypeOK, DagTypeOK, SchedInv, TrackInv, RowOf, ExecPc
<1>1. CASE NoAttempt(t) \/ RunComplete(t) \/ RunFail(t) \/ RunError(t)
  <2>1. t \in Executing /\ ~Terminal(t)
    BY <1>1 DEF NoAttempt, RunComplete, RunFail, RunError, Executing, Terminal
  <2>2. Executing' = Executing
    BY <1>1 DEF NoAttempt, RunComplete, RunFail, RunError, Executing
  <2>3. PICK v \in {"completed", "failed"} : UpdateTaskStatus(t, v)
    BY <1>1 DEF NoAttempt, RunComplete, RunFail, RunError
  <2> QED
    BY <2>1, <2>2, <2>3, DecidePool
<1>2. CASE Activate(t) \/ RunNone(t) \/ Release(t)
  <2>1. Executing' = Executing
    BY <1>2 DEF Activate, RunNone, Release, Executing
  <2>2. \A u \in Task : status'[u] = status[u] \/ (~Terminal(u) /\ ~Terminal(u)')
    BY <1>2 DEF Activate, RunNone, Release, UpdateTaskStatus, Terminal, dagVars
  <2> QED
    BY <2>1, <2>2, Unseen
<1>3. CASE LeaveActive(t)
  <2>1. t \in Executing /\ Executing' = Executing \ {t} /\ status' = status
    BY <1>3 DEF LeaveActive, Executing, dagVars
  <2> QED
    BY <2>1 DEF Pool!PoolNext, Pool!Leave, Terminal
<1>4. CASE PropagateFail(t)
  <2> DEFINE S == {c \in Task : t \in parents[c] /\ status[c] = "blocked"}
  <2>1. \A c \in S : c \notin Executing /\ ~Terminal(c) /\ t \in EffectiveDeps(c)
    BY DEF Executing, Terminal, OrderInv, EdgesRecorded
  <2>2. status[t] = "failed" /\ Executing' = Executing
    BY <1>4 DEF PropagateFail, Propagating, Executing
  <2>3. status' = [c \in Task |-> IF c \in S THEN "failed" ELSE status[c]]
    BY <1>4 DEF PropagateFail, FailDependents
  <2> QED
    BY <2>1, <2>2, <2>3, CancelPool
<1> QED
  BY <1>1, <1>2, <1>3, <1>4 DEF Goroutine

LEMMA UnblockPool ==
  ASSUME TypeOK, SchedInv, OrderInv, Propagating, NEW q \in Proc, Unblock(q)
  PROVE  [Pool!PoolNext]_Pool!poolVars
<1> USE DEF TypeOK, TrackerTypeOK, DagTypeOK
<1>1. Executing' = Executing
  BY DEF Unblock, ReadChildren, CheckParents, CountFailures, MoveChild, UnblockReturn,
         ReturnPc, Executing, ExecPc
<1>2. CASE MoveChild(q) /\ pc[q] = "failchild" /\ status[arg[q]] = "blocked"
  <2>1. /\ arg[q] \in Task /\ arg[q] \notin Executing /\ ~Terminal(arg[q])
        /\ \E d \in EffectiveDeps(arg[q]) : status[d] = "failed"
    BY <1>2 DEF Propagating, SchedInv, TrackInv, RowOf, ExecPc, Executing, Terminal, OrderInv,
                EdgesRecorded
  <2>2. status' = [c \in Task |-> IF c \in {arg[q]} THEN "failed" ELSE status[c]]
    BY <1>2, <2>1 DEF MoveChild, MoveBlocked
  <2>3. {arg[q]} \in SUBSET Task
    BY <2>1
  <2> QED
    BY <1>1, <2>1, <2>2, <2>3, CancelPool
<1>3. CASE ~(MoveChild(q) /\ pc[q] = "failchild" /\ status[arg[q]] = "blocked")
  <2>1. \A u \in Task : status'[u] = status[u] \/ (~Terminal(u) /\ ~Terminal(u)')
    <3>1. CASE MoveChild(q)
      BY <1>3, <3>1 DEF MoveChild, MoveBlocked, Terminal
    <3>2. CASE ~MoveChild(q)
      BY <3>2 DEF Unblock, ReadChildren, CheckParents, CountFailures, UnblockReturn,
                  dagVars
    <3> QED
      BY <3>1, <3>2
  <2> QED
    BY <1>1, <2>1, Unseen
<1> QED
  BY <1>2, <1>3

LEMMA StepPool ==
  ASSUME TypeOK, SchedInv, OrderInv, LeaseInv, BoundInv, Propagating, [Next]_vars
  PROVE  [Pool!PoolNext]_Pool!poolVars
<1>1. CASE UNCHANGED vars
  BY <1>1, Unseen DEF vars, dagVars, trackerVars, Executing, Terminal
<1> QED
  BY <1>1, PlanPool, LifecyclePool, PollPool, ResumePool, GoroutinePool, UnblockPool
  DEF Next, Track, TrackerNext

(* Every behaviour of the fleet is, for its users, one of the worker pool: *)
(* if no process is killed while it enters a plan.                         *)
THEOREM FleetImplementsPool ==
  ASSUME "planning" \notin KillIn
  PROVE  Spec => ImplementsPool
<1>1. Propagating /\ TypeOK /\ SchedInv /\ [Next]_vars => Propagating'
  BY StepPropagating
<1>2. TypeOK /\ SchedInv /\ OrderInv /\ LeaseInv /\ BoundInv /\ Propagating
        /\ [Next]_vars => [Pool!PoolNext]_Pool!poolVars
  BY StepPool
<1> QED
  BY <1>1, <1>2, InitPropagating, InitPool, TypeCorrect, Scheduled, Ordered, Leased,
     Bounded, PTL DEF Spec, ImplementsPool, Pool!PoolSpec
=============================================================================
