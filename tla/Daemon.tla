------------------------------- MODULE Daemon -------------------------------
(***************************************************************************)
(* The daemon (internal/daemon/daemon.go) with a DAG file: Start runs the  *)
(* tracker and ResumeActiveTasks, Shutdown closes it.  Tasks are inserted  *)
(* with dag.Store.CreateTask while it is up, each with at most one parent, *)
(* recorded in the column as well as in the edge table (as tracker_test.go *)
(* does).  The daemon is killed or shut down and started again.            *)
(***************************************************************************)
EXTENDS Tracker

CONSTANT MaxStarts   \* bound: the last start is not followed by an end

ASSUME MaxStartsAssumption == MaxStarts \in Nat \ {0}

VARIABLES
    up,       \* "down", "up", or "closing" between Shutdown and exit
    starts    \* how many times the daemon was started

daemonVars == <<up, starts>>
vars == <<dagVars, trackerVars, daemonVars>>

Init ==
    /\ DagInit
    /\ TrackerInit
    /\ up = "down" /\ starts = 0

DaemonStart ==
    /\ up = "down" /\ starts < MaxStarts
    /\ StartTracker
    /\ up' = "up" /\ starts' = starts + 1

\* CreateTask(run, title, dependsOn): the next id, an existing parent or 0.
\* The parent's status is read but not looked at.
CreateTask(t, d) ==
    /\ up = "up"
    /\ \A u \in Task : status[u] = "absent" => t <= u
    /\ d # NoTask => status[d] # "absent"
    /\ CreateTaskFull(t, d)
    /\ UNCHANGED <<lease, trackerVars, daemonVars>>

Shutdown ==
    /\ up = "up" /\ starts < MaxStarts /\ pc[Resumer] = "idle"
    /\ Close
    /\ up' = "closing" /\ UNCHANGED starts

DaemonExit ==
    /\ up = "closing"
    /\ ProcessEnds
    /\ up' = "down" /\ UNCHANGED starts

Kill ==
    /\ up # "down" /\ starts < MaxStarts
    /\ ProcessEnds
    /\ up' = "down" /\ UNCHANGED starts

Track == up # "down" /\ TrackerNext /\ UNCHANGED daemonVars

Next ==
    \/ DaemonStart \/ Shutdown \/ DaemonExit \/ Kill \/ Track
    \/ \E t \in Task, d \in Task \cup {NoTask} : CreateTask(t, d)

Spec == Init /\ [][Next]_vars

(* The operator starts the daemon again, and its loop, its goroutines and  *)
(* the waiters for t.mu make progress.                                     *)
InTracker(A) == up # "down" /\ A /\ UNCHANGED daemonVars

FairSpec ==
    /\ Spec
    /\ WF_vars(DaemonStart)
    /\ WF_vars(DaemonExit)
    /\ WF_vars(InTracker(Poll))
    /\ SF_vars(InTracker(Resume))
    /\ \A q \in Proc : WF_vars(InTracker(Unblock(q)))
    /\ \A t \in Task : /\ WF_vars(InTracker(Goroutine(t)))
                       /\ SF_vars(InTracker(LeaveActive(t)))

-----------------------------------------------------------------------------

(* Types of all variables. *)
TypeOK ==
    /\ DagTypeOK /\ TrackerTypeOK
    /\ up \in {"down", "up", "closing"} /\ starts \in 0 .. MaxStarts

(* A goroutine exists only for a task whose parent has completed, also     *)
(* when ResumeActiveTasks and a goroutine of the first poll unblock the    *)
(* same child and when the parent was decided before a restart.            *)
ParentFirst ==
    \A t \in Task : pc[t] # "idle" /\ column[t] # NoTask =>
        status[column[t]] = "completed"

(* A task that a death of the daemon left blocked although its parent had  *)
(* completed (between the parent's status update and UnblockDependents) is *)
(* unblocked after a restart, by ResumeActiveTasks.                        *)
RestartUnblocks ==
    \A c \in Task :
        (/\ up = "down" /\ starts < MaxStarts /\ status[c] = "blocked"
         /\ column[c] # NoTask /\ status[column[c]] = "completed")
            ~> status[c] # "blocked"
=============================================================================
