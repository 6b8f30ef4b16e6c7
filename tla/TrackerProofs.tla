---------------------------- MODULE TrackerProofs ----------------------------
(***************************************************************************)
(* Proofs about the tracker by itself, for whoever owns it: the types of   *)
(* its variables and of the tables, and its bookkeeping.                   *)
(***************************************************************************)
EXTENDS Tracker, TLAPS

(***************************************************************************)
(* Types                                                                   *)
(***************************************************************************)

USE DEF Task, NoTask, Resumer, Proc

StoreTypes == DagTypeOK /\ TrackerTypeOK

LEMMA InitStoreTypes == DagInit /\ TrackerInit => StoreTypes
<1> SUFFICES ASSUME DagInit, TrackerInit PROVE StoreTypes
  OBVIOUS
<1>1. DagTypeOK
  BY DEF DagInit, DagTypeOK, Status
<1>2. TrackerTypeOK
  BY DEF TrackerInit, TrackerTypeOK, ProcPc, ExecPc
<1> QED
  BY <1>1, <1>2 DEF StoreTypes

LEMMA PollTypes ==
  ASSUME StoreTypes, Poll
  PROVE  StoreTypes'
<1> USE DEF StoreTypes, DagTypeOK, TrackerTypeOK, goVars
<1>b. UNCHANGED dagVars => DagTypeOK'
  BY DEF dagVars
<1>1. CASE PollStart
  BY <1>1, <1>b DEF PollStart, ReadyTasks, MuFree
<1>2. ASSUME NEW t \in Task, PollVisit(t) PROVE StoreTypes'
  BY <1>2, <1>b DEF PollVisit
<1>3. CASE PollLease
  <2>1. DagTypeOK'
    BY <1>3 DEF PollLease, AcquirePathLease
  <2>2. TrackerTypeOK'
    BY <1>3 DEF PollLease
  <2> QED BY <2>1, <2>2
<1>4. CASE PollRollback
  <2>1. DagTypeOK'
    BY <1>4 DEF PollRollback, ReleasePathLeases
  <2>2. TrackerTypeOK'
    BY <1>4 DEF PollRollback
  <2> QED BY <2>1, <2>2
<1>5. CASE PollExecute
  <2>1. active' \in SUBSET Task
    BY <1>5 DEF PollExecute
  <2>2. pc' \in [Proc -> ProcPc]
    BY <1>5 DEF PollExecute, ProcPc, ExecPc
  <2> QED BY <1>5, <1>b, <2>1, <2>2 DEF PollExecute
<1>6. CASE PollEnd
  BY <1>6, <1>b DEF PollEnd
<1> QED
  BY <1>1, <1>2, <1>3, <1>4, <1>5, <1>6 DEF Poll

LEMMA ResumeTypes ==
  ASSUME StoreTypes, Resume
  PROVE  StoreTypes'
<1> USE DEF StoreTypes, TrackerTypeOK, pollVars, ProcPc, ExecPc
<1>b. UNCHANGED dagVars => DagTypeOK'
  BY DEF dagVars, DagTypeOK
<1>1. CASE ResumeStart
  BY <1>1, <1>b DEF ResumeStart, BlockedTasks
<1>2. ASSUME NEW b \in Task, ResumeVisit(b) PROVE StoreTypes'
  <2>1. column[b] \in Task \cup {NoTask}
    BY DEF DagTypeOK
  <2>2. pc' \in [Proc -> ProcPc] /\ arg' \in [Proc -> Task \cup {NoTask}]
    BY <1>2, <2>1 DEF ResumeVisit
  <2>3. resuming' \in SUBSET Task
    BY <1>2 DEF ResumeVisit
  <2> QED BY <1>2, <1>b, <2>2, <2>3 DEF ResumeVisit
<1>3. CASE ResumeEnd
  BY <1>3, <1>b DEF ResumeEnd
<1> QED
  BY <1>1, <1>2, <1>3 DEF Resume

LEMMA GoroutineTypes ==
  ASSUME StoreTypes, NEW t \in Task, Goroutine(t)
  PROVE  StoreTypes'
<1> USE DEF StoreTypes, DagTypeOK, TrackerTypeOK, TrackerRest, pollVars, ProcPc, ExecPc,
            Status
<1>1. CASE Activate(t)
  BY <1>1 DEF Activate, UpdateTaskStatus
<1>2. CASE NoAttempt(t)
  BY <1>2 DEF NoAttempt, UpdateTaskStatus
<1>3. CASE RunComplete(t)
  BY <1>3 DEF RunComplete, UpdateTaskStatus
<1>4. CASE RunFail(t)
  BY <1>4 DEF RunFail, UpdateTaskStatus
<1>5. CASE RunError(t)
  BY <1>5 DEF RunError, UpdateTaskStatus
<1>6. CASE RunNone(t)
  BY <1>6 DEF RunNone, dagVars
<1>7. CASE PropagateFail(t)
  BY <1>7 DEF PropagateFail, FailDependents
<1>8. CASE LeaveActive(t)
  BY <1>8 DEF LeaveActive, dagVars
<1>9. CASE Release(t)
  BY <1>9 DEF Release, ReleasePathLeases
<1> QED
  BY <1>1, <1>2, <1>3, <1>4, <1>5, <1>6, <1>7, <1>8, <1>9 DEF Goroutine

LEMMA UnblockTypes ==
  ASSUME StoreTypes, NEW q \in Proc, Unblock(q)
  PROVE  StoreTypes'
<1> USE DEF StoreTypes, DagTypeOK, TrackerTypeOK, TrackerRest, pollVars, ProcPc, ExecPc,
            Status, dagVars
<1>1. CASE ReadChildren(q)
  BY <1>1 DEF ReadChildren, Children
<1>2. ASSUME NEW c \in Task, CheckParents(q, c) PROVE StoreTypes'
  BY <1>2 DEF CheckParents
<1>3. CASE CountFailures(q)
  BY <1>3 DEF CountFailures
<1>4. CASE MoveChild(q)
  BY <1>4 DEF MoveChild, MoveBlocked
<1>5. CASE UnblockReturn(q)
  BY <1>5 DEF UnblockReturn, ReturnPc
<1> QED
  BY <1>1, <1>2, <1>3, <1>4, <1>5 DEF Unblock

LEMMA TrackerTypes ==
  ASSUME StoreTypes, TrackerNext
  PROVE  StoreTypes'
  BY PollTypes, ResumeTypes, GoroutineTypes, UnblockTypes DEF TrackerNext

LEMMA StartTypes ==
  ASSUME StoreTypes, StartTracker
  PROVE  StoreTypes'
  BY DEF StoreTypes, DagTypeOK, TrackerTypeOK, StartTracker, TrackerRest, dagVars, pollVars, ProcPc

LEMMA CloseTypes ==
  ASSUME StoreTypes, Close \/ CancelContext
  PROVE  StoreTypes'
  BY DEF StoreTypes, DagTypeOK, TrackerTypeOK, Close, CancelContext, dagVars, pollVars, goVars

LEMMA EndTypes ==
  ASSUME StoreTypes, ProcessEnds
  PROVE  StoreTypes'
<1>1. DagTypeOK'
  BY DEF ProcessEnds, StoreTypes, DagTypeOK, dagVars
<1>2. /\ pc' \in [Proc -> ProcPc]
      /\ arg' \in [Proc -> Task \cup {NoTask}]
      /\ kids' \in [Proc -> SUBSET Task]
  BY DEF ProcessEnds, ProcPc
<1>3. TrackerTypeOK'
  BY <1>2 DEF ProcessEnds, TrackerTypeOK
<1> QED
  BY <1>1, <1>3 DEF StoreTypes

LEMMA StillTypes ==
  ASSUME StoreTypes, UNCHANGED <<dagVars, trackerVars>>
  PROVE  StoreTypes'
  BY DEF StoreTypes, DagTypeOK, TrackerTypeOK, dagVars, trackerVars

(***************************************************************************)
(* The scheduler's bookkeeping: what t.active, the snapshot of poll and    *)
(* the program counters say about the rows.                                *)
(***************************************************************************)

PollHolds ==
    /\ pollPc = "idle" => ready = {}
    /\ closed => pollPc = "idle"

ActiveTracked == ~closed => \A t \in Task : pc[t] \in ExecPc => t \in active

\* The row of a task whose goroutine is at a given program counter.
RowOf(t) ==
    /\ pc[t] \notin {"call", "resume"}
    /\ pc[t] = "spawned" => status[t] = "pending"
    /\ pc[t] = "run" => status[t] = "active"
    /\ pc[t] \notin {"idle", "spawned", "run"}
         => status[t] \in {"active", "completed", "failed"}

SnapshotPending ==
    \A t \in ready : t \notin active => status[t] = "pending" /\ pc[t] = "idle"

CandidatePending ==
    cand # NoTask => status[cand] = "pending" /\ pc[cand] = "idle"

TrackInv ==
    /\ PollHolds /\ ActiveTracked
    /\ (\A t \in Task : RowOf(t))
    /\ SnapshotPending /\ CandidatePending

\* Most steps of the lemmas below need the same definitions.
USE DEF StoreTypes, DagTypeOK, TrackerTypeOK, TrackInv, PollHolds, ActiveTracked,
        RowOf, SnapshotPending, CandidatePending, ExecPc, dagVars, trackerVars,
        pollVars, goVars, TrackerRest

LEMMA InitTrack == DagInit /\ TrackerInit => TrackInv
  BY DEF DagInit, TrackerInit

LEMMA PollTrack ==
  ASSUME StoreTypes, TrackInv, Poll
  PROVE  TrackInv'
<1>1. CASE PollStart
  BY <1>1 DEF PollStart, ReadyTasks, MuFree
<1>2. ASSUME NEW t \in Task, PollVisit(t) PROVE TrackInv'
  BY <1>2 DEF PollVisit
<1>3. CASE PollLease
  BY <1>3 DEF PollLease, AcquirePathLease
<1>4. CASE PollRollback
  BY <1>4 DEF PollRollback, ReleasePathLeases
<1>5. CASE PollExecute
  BY <1>5 DEF PollExecute
<1>6. CASE PollEnd
  BY <1>6 DEF PollEnd
<1> QED
  BY <1>1, <1>2, <1>3, <1>4, <1>5, <1>6 DEF Poll

LEMMA ResumeTrack ==
  ASSUME StoreTypes, TrackInv, Resume
  PROVE  TrackInv'
<1>1. CASE ResumeStart
  BY <1>1 DEF ResumeStart
<1>2. ASSUME NEW b \in Task, ResumeVisit(b) PROVE TrackInv'
  BY <1>2, SMTT(30) DEF ResumeVisit
<1>3. CASE ResumeEnd
  BY <1>3 DEF ResumeEnd
<1> QED
  BY <1>1, <1>2, <1>3 DEF Resume

LEMMA GoroutineTrack ==
  ASSUME StoreTypes, TrackInv, NEW t \in Task, Goroutine(t)
  PROVE  TrackInv'
<1>1. CASE Activate(t)
  BY <1>1 DEF Activate, UpdateTaskStatus
<1>2. CASE NoAttempt(t)
  BY <1>2 DEF NoAttempt, UpdateTaskStatus
<1>3. CASE RunComplete(t)
  BY <1>3 DEF RunComplete, UpdateTaskStatus
<1>4. CASE RunFail(t)
  BY <1>4 DEF RunFail, UpdateTaskStatus
<1>5. CASE RunError(t)
  BY <1>5 DEF RunError, UpdateTaskStatus
<1>6. CASE RunNone(t)
  BY <1>6 DEF RunNone
<1>7. CASE PropagateFail(t)
  BY <1>7 DEF PropagateFail, FailDependents
<1>8. CASE LeaveActive(t)
  BY <1>8 DEF LeaveActive, MuFree
<1>9. CASE Release(t)
  BY <1>9 DEF Release, ReleasePathLeases
<1> QED
  BY <1>1, <1>2, <1>3, <1>4, <1>5, <1>6, <1>7, <1>8, <1>9 DEF Goroutine

LEMMA UnblockTrack ==
  ASSUME StoreTypes, TrackInv, NEW q \in Proc, Unblock(q)
  PROVE  TrackInv'
<1>1. CASE ReadChildren(q)
  BY <1>1 DEF ReadChildren
<1>2. ASSUME NEW c \in Task, CheckParents(q, c) PROVE TrackInv'
  BY <1>2 DEF CheckParents
<1>3. CASE CountFailures(q)
  BY <1>3 DEF CountFailures
<1>4. CASE MoveChild(q)
  BY <1>4 DEF MoveChild, MoveBlocked
<1>5. CASE UnblockReturn(q)
  BY <1>5 DEF UnblockReturn, ReturnPc
<1> QED
  BY <1>1, <1>2, <1>3, <1>4, <1>5 DEF Unblock

LEMMA TrackerTrack ==
  ASSUME StoreTypes, TrackInv, TrackerNext
  PROVE  TrackInv'
  BY PollTrack, ResumeTrack, GoroutineTrack, UnblockTrack DEF TrackerNext

LEMMA StartTrack ==
  ASSUME StoreTypes, TrackInv, StartTracker
  PROVE  TrackInv'
  BY DEF StartTracker

LEMMA CloseTrack ==
  ASSUME StoreTypes, TrackInv, Close \/ CancelContext
  PROVE  TrackInv'
<1>1. CASE Close
  BY <1>1 DEF Close, MuFree
<1>2. CASE CancelContext
  BY <1>2 DEF CancelContext
<1> QED
  BY <1>1, <1>2

LEMMA EndTrack ==
  ASSUME StoreTypes, ProcessEnds
  PROVE  TrackInv'
  BY DEF ProcessEnds

LEMMA StillTrack ==
  ASSUME TrackInv, UNCHANGED <<dagVars, trackerVars>>
  PROVE  TrackInv'
  OBVIOUS

\* Who writes which status: a goroutine that of its own task; the status of
\* a blocked row is written by those who decide or unblock a parent.
StatusWrite(t) ==
    \/ status'[t] = status[t]
    \/ pc[t] = "spawned" /\ status'[t] \in {"active", "failed"}
    \/ pc[t] = "run" /\ status'[t] \in {"completed", "failed"}
    \/ status[t] = "blocked" /\ status'[t] = "failed"
    \/ /\ status[t] = "blocked" /\ status'[t] = "pending"
       /\ \E q \in Proc : pc[q] = "pendchild" /\ arg[q] = t

HIDE DEF StoreTypes, TrackInv, TrackerTypeOK

LEMMA StatusWrites ==
  ASSUME StoreTypes, TrackerNext, NEW t \in Task
  PROVE  StatusWrite(t)
<1>0. status \in [Task -> Status]
  BY DEF StoreTypes
<1> USE DEF StatusWrite
<1>1. CASE Poll \/ Resume
  BY <1>1 DEF Poll, PollStart, PollVisit, PollLease, PollRollback, PollExecute, PollEnd,
     Resume, ResumeStart, ResumeVisit, ResumeEnd
<1>2. ASSUME NEW u \in Task, Goroutine(u) PROVE StatusWrite(t)
  <2>1. CASE PropagateFail(u)
    BY <1>0, <2>1 DEF PropagateFail, FailDependents
  <2>2. CASE ~PropagateFail(u)
    BY <1>0, <1>2, <2>2 DEF Goroutine, Activate, NoAttempt, RunComplete, RunFail, RunError,
       RunNone, LeaveActive, Release, UpdateTaskStatus
  <2> QED
    BY <2>1, <2>2
<1>3. ASSUME NEW q \in Proc, Unblock(q) PROVE StatusWrite(t)
  <2>1. CASE MoveChild(q)
    BY <1>0, <2>1 DEF MoveChild, MoveBlocked
  <2>2. CASE ~MoveChild(q)
    BY <1>3, <2>2 DEF Unblock, ReadChildren, CheckParents, CountFailures, UnblockReturn
  <2> QED
    BY <2>1, <2>2
<1> QED
  BY <1>1, <1>2, <1>3 DEF TrackerNext

\* What was decided stays decided.
LEMMA DecidedStays ==
  ASSUME StoreTypes, TrackInv, TrackerNext, NEW t \in Task, Terminal(t)
  PROVE  status'[t] = status[t]
  BY StatusWrites DEF StatusWrite, Terminal, TrackInv
=============================================================================
