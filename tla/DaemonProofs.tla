---------------------------- MODULE DaemonProofs ----------------------------
(***************************************************************************)
(* Proofs about the daemon, for every number of tasks, of workers and of   *)
(* restarts: the types, and that a task runs after its parent.             *)
(***************************************************************************)
EXTENDS Daemon, TrackerProofs

USE DEF Task, NoTask, Resumer, Proc

(***************************************************************************)
(* Types                                                                   *)
(***************************************************************************)

LEMMA CreateTypes ==
  ASSUME TypeOK, NEW t \in Task, NEW d \in Task \cup {NoTask}, CreateTask(t, d)
  PROVE  TypeOK'
<1> USE DEF TypeOK, DagTypeOK, Status
<1>1. /\ status' \in [Task -> Status] /\ column' \in [Task -> Task \cup {NoTask}]
      /\ lease' = lease
  BY DEF CreateTask, CreateTaskFull
<1>2. parents' \in [Task -> SUBSET Task]
  <2>1. {d} \ {NoTask} \subseteq Task
    OBVIOUS
  <2> QED
    BY <2>1 DEF CreateTask, CreateTaskFull
<1>3. TrackerTypeOK' /\ UNCHANGED <<up, starts>>
  BY DEF CreateTask, TrackerTypeOK, trackerVars, daemonVars
<1> QED
  BY <1>1, <1>2, <1>3

LEMMA StepTypes == TypeOK /\ [Next]_vars => TypeOK'
<1> SUFFICES ASSUME TypeOK, [Next]_vars PROVE TypeOK'
  OBVIOUS
<1>a. StoreTypes
  BY DEF TypeOK, StoreTypes
<1>1. StoreTypes' /\ UNCHANGED daemonVars => TypeOK'
  BY DEF TypeOK, StoreTypes, daemonVars
<1>2. CASE DaemonStart
  BY <1>a, <1>2, StartTypes, MaxStartsAssumption DEF TypeOK, StoreTypes, DaemonStart
<1>3. CASE Shutdown
  BY <1>a, <1>3, CloseTypes DEF TypeOK, StoreTypes, Shutdown
<1>4. CASE DaemonExit \/ Kill
  BY <1>a, <1>4, EndTypes DEF TypeOK, StoreTypes, DaemonExit, Kill
<1>5. CASE Track
  BY <1>a, <1>1, <1>5, TrackerTypes DEF Track
<1>6. CASE UNCHANGED vars
  BY <1>a, <1>1, <1>6, StillTypes DEF vars
<1> QED
  BY <1>2, <1>3, <1>4, <1>5, <1>6, CreateTypes DEF Next

(* The variables of the daemon keep their types, whatever is killed and    *)
(* started again.                                                          *)
THEOREM TypeCorrect == Spec => []TypeOK
<1>1. Init => TypeOK
  BY InitStoreTypes, MaxStartsAssumption DEF Init, TypeOK, StoreTypes
<1> QED
  BY <1>1, StepTypes, PTL DEF Spec

(***************************************************************************)
(* A task runs after its parent.                                           *)
(***************************************************************************)

\* The edge table repeats the column, and both name a row that exists.
OneParent(t) ==
    /\ column[t] = NoTask => parents[t] = {}
    /\ column[t] # NoTask => /\ parents[t] = {column[t]}
                             /\ status[t] # "absent" /\ status[column[t]] # "absent"

ParentDone(t) == column[t] # NoTask => status[column[t]] = "completed"

\* What a process has found out about the child it is unblocking.
ChildChecked(q) ==
    /\ \A c \in kids[q] : status[c] # "absent"
    /\ pc[q] \in {"count", "pendchild"} => arg[q] \in Task /\ status[arg[q]] # "absent"
    /\ pc[q] = "count" => \A d \in parents[arg[q]] : Terminal(d)
    /\ pc[q] = "pendchild" => ParentDone(arg[q])

DaemonInv ==
    /\ TrackInv
    /\ \A t \in Task :
         /\ OneParent(t)
         /\ status[t] = "pending" \/ pc[t] # "idle" => ParentDone(t)
    /\ \A q \in Proc : ChildChecked(q)

\* Most steps of the lemmas below need the same definitions.
USE DEF TypeOK, StoreTypes, DagTypeOK, TrackerTypeOK, DaemonInv, OneParent, ParentDone,
        ChildChecked, Terminal, dagVars, trackerVars, daemonVars, vars,
        pollVars, goVars, TrackerRest

LEMMA InitParents == Init => DaemonInv
  BY InitTrack DEF Init, DagInit, TrackerInit

LEMMA CreateParents ==
  ASSUME TypeOK, DaemonInv, NEW t \in Task, NEW d \in Task \cup {NoTask}, CreateTask(t, d)
  PROVE  DaemonInv'
<1>1. /\ UNCHANGED trackerVars /\ status[t] = "absent" /\ (d # NoTask => status[d] # "absent")
      /\ status' = [status EXCEPT ![t] = IF d = NoTask THEN "pending" ELSE "blocked"]
      /\ column' = [column EXCEPT ![t] = d]
      /\ parents' = [parents EXCEPT ![t] = {d} \ {NoTask}]
  BY DEF CreateTask, CreateTaskFull
<1>2. pc[t] = "idle" /\ cand # t /\ (t \in ready => t \in active)
  BY <1>1 DEF TrackInv, RowOf, CandidatePending, SnapshotPending, ProcPc
<1>3. TrackInv'
  BY <1>1, <1>2 DEF TrackInv, PollHolds, ActiveTracked, RowOf, SnapshotPending,
     CandidatePending
<1>4. \A u \in Task : OneParent(u)'
  <2>1. d # NoTask => {d} \ {NoTask} = {d}
    OBVIOUS
  <2>2. {NoTask} \ {NoTask} = {}
    OBVIOUS
  <2> QED
    BY <1>1, <2>1, <2>2
<1>5. \A u \in Task : (status[u] = "pending" \/ pc[u] # "idle" => ParentDone(u))'
  BY <1>1, <1>2
<1>6. \A q \in Proc : ChildChecked(q)'
  BY <1>1
<1> QED
  BY <1>3, <1>4, <1>5, <1>6

\* A step of the tracker leaves the graph alone and what is decided decided.
LEMMA GraphStays ==
  ASSUME TypeOK, DaemonInv, TrackerNext
  PROVE  /\ column' = column /\ parents' = parents
         /\ \A t \in Task : Terminal(t) => status'[t] = status[t]
         /\ \A t \in Task : status[t] # "absent" => status'[t] # "absent"
         /\ \A t \in Task : ParentDone(t) => ParentDone(t)'
<1>1. column' = column /\ parents' = parents
  <2>1. CASE Poll \/ Resume
    BY <2>1 DEF Poll, PollStart, PollVisit, PollLease, PollRollback, PollExecute, PollEnd,
       Resume, ResumeStart, ResumeVisit, ResumeEnd
  <2>2. ASSUME NEW t \in Task, Goroutine(t) PROVE column' = column /\ parents' = parents
    BY <2>2 DEF Goroutine, Activate, NoAttempt, RunComplete, RunFail, RunError,
       RunNone, PropagateFail, LeaveActive, Release
  <2>3. ASSUME NEW q \in Proc, Unblock(q) PROVE column' = column /\ parents' = parents
    BY <2>3 DEF Unblock, ReadChildren, CheckParents, CountFailures, MoveChild, UnblockReturn
  <2> QED
    BY <2>1, <2>2, <2>3 DEF TrackerNext
<1>2. \A t \in Task : Terminal(t) => status'[t] = status[t]
  BY DecidedStays
<1>3. \A t \in Task : status[t] # "absent" => status'[t] # "absent"
  BY StatusWrites DEF StatusWrite
<1> QED
  BY <1>1, <1>2, <1>3

\* Who becomes pending or gets a goroutine has a parent that completed.
LEMMA Started ==
  ASSUME TypeOK, DaemonInv, TrackerNext, NEW t \in Task,
         status'[t] = "pending" \/ pc'[t] # "idle"
  PROVE  ParentDone(t)
<1>1. status'[t] = "pending" => ParentDone(t)
  <2>1. StatusWrite(t)
    BY StatusWrites
  <2> HIDE DEF ParentDone, OneParent, TypeOK
  <2> QED
    BY <2>1 DEF StatusWrite
<1>2. pc'[t] # "idle" => pc[t] # "idle" \/ t = cand
  <2>1. CASE Poll \/ Resume
    BY <2>1 DEF Poll, PollStart, PollVisit, PollLease, PollRollback, PollExecute, PollEnd,
       Resume, ResumeStart, ResumeVisit, ResumeEnd
  <2>2. ASSUME NEW u \in Task, Goroutine(u) PROVE pc'[t] # "idle" => pc[t] # "idle"
    BY <2>2 DEF Goroutine, Activate, NoAttempt, RunComplete, RunFail, RunError,
       RunNone, PropagateFail, LeaveActive, Release
  <2>3. ASSUME NEW q \in Proc, Unblock(q) PROVE pc'[t] # "idle" => pc[t] # "idle"
    BY <2>3 DEF Unblock, ReadChildren, CheckParents, CountFailures, MoveChild,
       UnblockReturn, ReturnPc
  <2> QED
    BY <2>1, <2>2, <2>3 DEF TrackerNext
<1>3. t = cand => status[t] = "pending"
  BY DEF TrackInv, CandidatePending
<1> QED
  BY <1>1, <1>2, <1>3

\* What a process found out about a child stays true while it acts on it.
LEMMA StillChecked ==
  ASSUME TypeOK, DaemonInv, TrackerNext, NEW q \in Proc,
         kids'[q] \subseteq kids[q],
         pc'[q] \in {"count", "pendchild"} => pc'[q] = pc[q] /\ arg'[q] = arg[q]
  PROVE  ChildChecked(q)'
<1>1. ChildChecked(q) /\ kids[q] \subseteq Task
  OBVIOUS
<1>2. /\ parents' = parents
      /\ \A t \in Task : Terminal(t) => status'[t] = status[t]
      /\ \A t \in Task : status[t] # "absent" => status'[t] # "absent"
      /\ \A t \in Task : ParentDone(t) => ParentDone(t)'
  BY GraphStays
<1>3. \A t \in Task : parents[t] \subseteq Task
  OBVIOUS
<1> HIDE DEF TypeOK, DaemonInv, ParentDone
<1> QED
  BY <1>1, <1>2, <1>3

LEMMA ChildrenChecked ==
  ASSUME TypeOK, DaemonInv, TrackerNext, NEW q \in Proc
  PROVE  ChildChecked(q)'
<1>1. CASE Poll \/ Resume
  <2>1. kids' = kids /\ (pc'[q] \in {"count", "pendchild"} => pc'[q] = pc[q] /\ arg'[q] = arg[q])
    BY <1>1 DEF Poll, PollStart, PollVisit, PollLease, PollRollback, PollExecute, PollEnd,
       Resume, ResumeStart, ResumeVisit, ResumeEnd
  <2> QED
    BY <2>1, StillChecked
<1>2. ASSUME NEW u \in Task, Goroutine(u) PROVE ChildChecked(q)'
  <2>1. kids' = kids /\ (pc'[q] \in {"count", "pendchild"} => pc'[q] = pc[q] /\ arg'[q] = arg[q])
    BY <1>2 DEF Goroutine, Activate, NoAttempt, RunComplete, RunFail, RunError,
       RunNone, PropagateFail, LeaveActive, Release
  <2> QED
    BY <2>1, StillChecked
<1>3. ASSUME NEW p \in Proc, Unblock(p) PROVE ChildChecked(q)'
  <2>1. CASE p # q \/ MoveChild(p) \/ UnblockReturn(p)
    <3>1. kids'[q] \subseteq kids[q] /\
          (pc'[q] \in {"count", "pendchild"} => pc'[q] = pc[q] /\ arg'[q] = arg[q])
      BY <1>3, <2>1 DEF Unblock, ReadChildren, CheckParents, CountFailures, MoveChild,
         UnblockReturn, ReturnPc
    <3> QED
      BY <3>1, StillChecked
  <2>2. CASE ReadChildren(q)
    <3>1. kids'[q] = Children(arg[q]) /\ pc'[q] = "child" /\ status' = status
      BY <2>2 DEF ReadChildren
    <3>2. \A c \in Children(arg[q]) : status[c] # "absent"
      BY DEF Children
    <3> QED
      BY <3>1, <3>2
  <2>3. ASSUME NEW c \in Task, CheckParents(q, c) PROVE ChildChecked(q)'
    <3>1. /\ c \in kids[q] /\ kids'[q] \subseteq kids[q] /\ pc[q] = "child"
          /\ UNCHANGED <<status, column, parents>>
          /\ \/ AllParentsComplete(c) /\ pc'[q] = "count" /\ arg'[q] = c
             \/ pc'[q] = pc[q]
      BY <2>3 DEF CheckParents
    <3>2. AllParentsComplete(c) => \A d \in parents[c] : Terminal(d)
      BY DEF AllParentsComplete
    <3> QED
      BY <3>1, <3>2
  <2>4. CASE CountFailures(q)
    <3>1. /\ pc[q] = "count" /\ arg'[q] = arg[q] /\ kids' = kids
          /\ UNCHANGED <<status, column, parents>>
          /\ pc'[q] = IF SomeParentFailed(arg[q]) THEN "failchild" ELSE "pendchild"
      BY <2>4 DEF CountFailures
    <3>2. ~SomeParentFailed(arg[q]) => ParentDone(arg[q])
      BY <3>1 DEF SomeParentFailed
    <3> QED
      BY <3>1, <3>2
  <2> QED
    BY <1>3, <2>1, <2>2, <2>3, <2>4 DEF Unblock
<1> QED
  BY <1>1, <1>2, <1>3 DEF TrackerNext

LEMMA StepParents ==
  ASSUME TypeOK, DaemonInv, [Next]_vars
  PROVE  DaemonInv'
<1>1. CASE Track
  <2>1. TrackerNext
    BY <1>1 DEF Track
  <2>2. TrackInv'
    BY <2>1, TrackerTrack
  <2>3. \A t \in Task : OneParent(t)'
    <3>1. /\ column' = column /\ parents' = parents
          /\ \A t \in Task : status[t] # "absent" => status'[t] # "absent"
      BY <2>1, GraphStays
    <3>2. \A t \in Task : OneParent(t) /\ column[t] \in Task \cup {NoTask}
      OBVIOUS
    <3> HIDE DEF TypeOK, DaemonInv
    <3> QED
      BY <3>1, <3>2
  <2>4. \A t \in Task : (status[t] = "pending" \/ pc[t] # "idle" => ParentDone(t))'
    BY <2>1, GraphStays, Started
  <2> QED
    BY <2>1, <2>2, <2>3, <2>4, ChildrenChecked
<1>2. CASE DaemonStart
  BY <1>2, StartTrack DEF DaemonStart, StartTracker
<1>3. CASE Shutdown
  BY <1>3, CloseTrack DEF Shutdown, Close
<1>4. CASE DaemonExit \/ Kill
  <2>1. ProcessEnds
    BY <1>4 DEF DaemonExit, Kill
  <2>2. TrackInv'
    BY <2>1, EndTrack
  <2>3. /\ UNCHANGED dagVars /\ \A q \in Proc : pc'[q] = "idle" /\ kids'[q] = {}
    BY <2>1 DEF ProcessEnds
  <2> QED
    BY <2>2, <2>3
<1>5. CASE UNCHANGED vars
  BY <1>5, StillTrack
<1> QED
  BY <1>1, <1>2, <1>3, <1>4, <1>5, CreateParents DEF Next

(* A goroutine exists only for a task whose parent has completed, also     *)
(* when ResumeActiveTasks and a goroutine unblock the same child and when  *)
(* the parent was decided before a restart.                                *)
THEOREM ParentFirstHolds == Spec => []ParentFirst
<1>1. DaemonInv => ParentFirst
  BY DEF ParentFirst
<1> HIDE DEF TypeOK, DaemonInv, vars
<1> QED
  BY <1>1, InitParents, StepParents, TypeCorrect, PTL DEF Spec
=============================================================================
