--------------------------- MODULE OrchestratorProofs ---------------------------
(***************************************************************************)
(* Proofs about the attempt loop: for any number of runs on one store, any *)
(* limits, coordinators, validators and users.                             *)
(***************************************************************************)
EXTENDS Orchestrator, TLAPS

(***************************************************************************)
(* Attempt numbers                                                         *)
(***************************************************************************)

LEMMA LimitIsPositive == \A r \in Run : AttemptLimit(r) \in Nat /\ 1 <= AttemptLimit(r)
  BY MaxAttemptsAssumption DEF AttemptLimit

LEMMA NumberInRange ==
  ASSUME NEW r \in Run, NEW n \in 1 .. AttemptLimit(r)
  PROVE  n \in Number /\ <<r, n>> \in Attempt
  BY DEF Number, Attempt

LEMMA FirstAttempt == \A r \in Run : 1 \in Number /\ <<r, 1>> \in Attempt
<1> TAKE r \in Run
<1>1. 1 \in 1 .. AttemptLimit(r)
  BY LimitIsPositive
<1> QED
  BY <1>1, NumberInRange

LEMMA NumbersArePositive == Number \subseteq Nat \ {0}
  BY LimitIsPositive DEF Number

(***************************************************************************)
(* Types.  An attempt is named only while its number is within the limit.  *)
(***************************************************************************)

InAttempt == {"row", "worker", "instruct", "observe", "recover", "validate", "mark",
              "decide", "candidate"}

WithinLimit == \A r \in Run : pc[r] \in InAttempt => num[r] <= AttemptLimit(r)

TypeInv == TypeOK /\ WithinLimit

USE DEF At, Goto, Current, Finalize

LEMMA InitTypes == Init => TypeInv
  BY LimitIsPositive DEF Init, StoreInit, TypeInv, TypeOK, StoreTypeOK, WithinLimit,
     Status, Step, InAttempt

LEMMA CurrentIsAttempt ==
  ASSUME TypeInv, NEW r \in Run, pc[r] \in InAttempt
  PROVE  num[r] \in Number /\ num[r] \in 1 .. AttemptLimit(r)
         /\ <<r, num[r]>> \in Attempt
<1>1. num[r] \in 1 .. AttemptLimit(r)
  BY LimitIsPositive DEF TypeInv, TypeOK, WithinLimit
<1> QED
  BY <1>1, NumberInRange

LEMMA RowIsAttempt ==
  ASSUME NEW a \in Attempt
  PROVE  RowOf(a) \in Attempt /\ a[1] \in Run /\ a[2] \in Number /\ RowOf(a)[1] = a[1]
<1>1. PICK r \in Run, n \in Number : a = <<r, n>>
  BY DEF Attempt
<1>2. <<r, 1>> \in Attempt
  BY FirstAttempt
<1> QED
  BY <1>1, <1>2 DEF RowOf

LEMMA StartTypes ==
  ASSUME TypeInv, NEW r \in Run,
         Precreate(r) \/ ReadActive(r) \/ Visit(r) \/ Begin(r) \/ InitialWake(r)
  PROVE  TypeInv'
<1> USE DEF TypeInv, TypeOK, StoreTypeOK, WithinLimit, Step, InAttempt, worldVars, storeVars
<1>1. CASE Precreate(r)
  <2>1. <<r, 1>> \in Attempt
    BY FirstAttempt
  <2> QED
    BY <1>1, <2>1 DEF Precreate, CreateRunAndTask, CreateAttempt, Status
<1>2. CASE ReadActive(r)
  BY <1>2 DEF ReadActive, ActiveAttempts
<1>3. CASE Visit(r)
  BY <1>3 DEF Visit, UpdateAttemptStatus, Status
<1>4. CASE Begin(r)
  BY <1>4 DEF Begin, CreateRunAndTask, Status
<1>5. CASE InitialWake(r)
  BY <1>5 DEF InitialWake
<1> QED
  BY <1>1, <1>2, <1>3, <1>4, <1>5

LEMMA AttemptTypes ==
  ASSUME TypeInv, NEW r \in Run,
         \/ Stopped(r) \/ CreateWorktree(r) \/ InsertAttempt(r) \/ StartWorker(r)
         \/ RecordWorker(r)
  PROVE  TypeInv'
<1> USE DEF TypeInv, TypeOK, StoreTypeOK, WithinLimit, Step, InAttempt, worldVars, storeVars
<1>1. CASE Stopped(r)
  BY <1>1 DEF Stopped
<1>2. CASE CreateWorktree(r)
  <2>1. num[r] \in 1 .. AttemptLimit(r)
    BY <1>2, LimitIsPositive DEF CreateWorktree, OutOfAttempts
  <2>2. <<r, num[r]>> \in Attempt
    BY <2>1, NumberInRange
  <2> QED
    BY <1>2, <2>1, <2>2, SMTT(30) DEF CreateWorktree, AddWorktree
<1>3. CASE InsertAttempt(r)
  BY <1>3, CurrentIsAttempt DEF InsertAttempt, CreateAttempt, Status
<1>4. CASE StartWorker(r)
  BY <1>4, CurrentIsAttempt DEF StartWorker, RemoveWorktree
<1>5. CASE RecordWorker(r)
  BY <1>5, CurrentIsAttempt DEF RecordWorker, RecordWorkerPID, Status
<1> QED
  BY <1>1, <1>2, <1>3, <1>4, <1>5

LEMMA ObserveTypes ==
  ASSUME TypeInv, NEW r \in Run,
         \/ ObserveExit(r) \/ ObserveCancel(r) \/ Quiescent(r) \/ Recover(r)
         \/ Validate(r) \/ MarkWorker(r)
  PROVE  TypeInv'
<1> USE DEF TypeInv, TypeOK, StoreTypeOK, WithinLimit, Step, InAttempt, worldVars, storeVars
<1>1. CASE ObserveExit(r) \/ ObserveCancel(r)
  BY <1>1 DEF ObserveExit, ObserveCancel
<1>2. CASE Quiescent(r)
  BY <1>2 DEF Quiescent, Kill
<1>3. CASE Recover(r)
  <2>1. <<r, num[r]>> \in Attempt
    BY <1>3, CurrentIsAttempt DEF Recover
  <2>2. Row(r) \in Attempt
    BY <2>1, RowIsAttempt DEF Row
  <2>3. checkpoint' \subseteq Attempt
    BY <1>3, <2>2 DEF Recover, UpdateAttemptCheckpoint
  <2> QED
    BY <1>3, <2>3 DEF Recover, Kill
<1>4. CASE Validate(r)
  <2>1. <<r, num[r]>> \in Attempt
    BY <1>4, CurrentIsAttempt DEF Validate
  <2>2. Row(r) \in Attempt
    BY <2>1, RowIsAttempt DEF Row
  <2>3. PICK ok \in BOOLEAN :
          /\ passed' = [passed EXCEPT ![r] = ok]
          /\ accepted' = IF ok THEN accepted \cup {<<r, num[r]>>} ELSE accepted
          /\ UpdateAttemptStatus(Row(r), IF ok /\ ExitCodeZero(r) THEN "completed" ELSE "failed")
    BY <1>4 DEF Validate
  <2>4. attempt' \in [Attempt -> Status]
    BY <2>2, <2>3 DEF UpdateAttemptStatus, Status
  <2>5. accepted' \subseteq Attempt /\ passed' \in [Run -> BOOLEAN]
    BY <2>1, <2>3
  <2> QED
    BY <1>4, <2>4, <2>5 DEF Validate
<1>5. CASE MarkWorker(r)
  BY <1>5, CurrentIsAttempt DEF MarkWorker, UpdateWorkerStatus, Status
<1> QED
  BY <1>1, <1>2, <1>3, <1>4, <1>5

LEMMA EndTypes ==
  ASSUME TypeInv, NEW r \in Run,
         \/ Decide(r) \/ Candidate(r) \/ Tombstone(r) \/ CloseAttempts(r) \/ EndRun(r)
         \/ EndTask(r)
  PROVE  TypeInv'
<1> USE DEF TypeInv, TypeOK, StoreTypeOK, WithinLimit, Step, InAttempt, worldVars, storeVars
<1>1. CASE Decide(r)
  <2>1. num[r] \in Number /\ num[r] \in 1 .. AttemptLimit(r)
    BY <1>1, CurrentIsAttempt DEF Decide
  <2>2. PICK d \in Decisions(r) : Apply(r, d) /\ effects' = effects \cup {<<r, num[r], d>>}
    BY <1>1 DEF Decide
  <2>3. d \in Decision
    BY <2>2 DEF Decisions, Decision
  <2>4. effects' \subseteq Run \X Number \X Decision
    BY <2>1, <2>2, <2>3
  <2>5. /\ pc' \in [Run -> Step] /\ num' \in [Run -> Nat]
        /\ final' \in [Run -> {"completed", "failed", "cancelled"}]
        /\ \A s \in Run : num'[s] \in 1 .. AttemptLimit(s) + 1
        /\ WithinLimit'
    BY <2>1, <2>2, LimitIsPositive DEF Apply
  <2> QED
    BY <1>1, <2>4, <2>5 DEF Decide
<1>2. CASE Candidate(r)
  BY <1>2, CurrentIsAttempt DEF Candidate, RecordCandidate
<1>3. CASE Tombstone(r)
  BY <1>3 DEF Tombstone, RecordTombstone
<1>4. CASE CloseAttempts(r)
  BY <1>4 DEF CloseAttempts, Kill, Status
<1>5. CASE EndRun(r)
  BY <1>5 DEF EndRun, UpdateRunStatus, Status
<1>6. CASE EndTask(r)
  BY <1>6 DEF EndTask, UpdateTaskStatus, Status
<1> QED
  BY <1>1, <1>2, <1>3, <1>4, <1>5, <1>6

LEMMA WorldTypes ==
  ASSUME TypeInv,
         \/ \E r \in Run : UserStep(r)
         \/ \E a \in Attempt : WorkerExits(a)
  PROVE  TypeInv'
<1> USE DEF TypeInv, TypeOK, StoreTypeOK, WithinLimit, Step, InAttempt, worldVars, storeVars,
            localVars
<1>1. ASSUME NEW r \in Run, Cancel(r) \/ CheckAdoption(r) PROVE TypeInv'
  BY <1>1 DEF Cancel, CheckAdoption
<1>2. ASSUME NEW r \in Run, Adopt(r) PROVE TypeInv'
  <2>1. adopting[r] \in Number /\ <<r, adopting[r]>> \in Attempt
    BY <1>2 DEF Adopt, Attempt
  <2> QED
    BY <1>2, <2>1 DEF Adopt, RecordAdoption, UpdateRunStatus, UpdateTaskStatus,
          UpdateAttemptStatus, UpdateWorkerStatus, Status
<1>3. ASSUME NEW r \in Run, Reject(r) PROVE TypeInv'
  BY <1>3 DEF Reject, UpdateAttemptStatus, Status
<1>4. ASSUME NEW a \in Attempt, WorkerExits(a) PROVE TypeInv'
  BY <1>4 DEF WorkerExits
<1> QED
  BY <1>1, <1>2, <1>3, <1>4 DEF UserStep

LEMMA StepTypes == ASSUME TypeInv, [Next]_vars PROVE TypeInv'
<1>1. CASE UNCHANGED vars
  BY <1>1 DEF vars, storeVars, localVars, worldVars, TypeInv, TypeOK, StoreTypeOK,
              WithinLimit
<1> QED
  BY <1>1, StartTypes, AttemptTypes, ObserveTypes, EndTypes, WorldTypes
  DEF Next, RunStep

(* Every variable keeps its type, and no run names an attempt beyond its   *)
(* limit, along every behaviour.                                           *)
THEOREM TypesHold == Spec => []TypeInv
<1>1. TypeInv /\ [Next]_vars => TypeInv'
  BY StepTypes
<1> QED
  BY <1>1, InitTypes, PTL DEF Spec

(* Every variable keeps its type along every behaviour.                    *)
THEOREM TypeCorrect == Spec => []TypeOK
  BY TypesHold, PTL DEF TypeInv

(***************************************************************************)
(* What a run leaves behind, what can be adopted and which workers live.   *)
(***************************************************************************)

Ending == {"tombstone", "close", "endRun", "endTask", "done"}

\* Only the current attempt has a living worker, from its start to Recover.
WorkerPlace(r) ==
    /\ \A n \in Number : proc[<<r, n>>] = "alive" =>
           n = num[r] /\ pc[r] \in {"instruct", "observe", "recover"}
    /\ pc[r] \in {"instruct", "observe", "recover", "validate"}
         => proc[<<r, num[r]>>] # "none"

\* The worker rows of the attempts the run is through with are terminal.
RowsClosed(r) ==
    /\ \A n \in Number : n < num[r] => IsTerminal(worker[<<r, n>>])
    /\ pc[r] \in {"decide", "candidate"} => IsTerminal(worker[<<r, num[r]>>])
    /\ pc[r] \in {"endRun", "endTask", "done"} =>
         \A n \in Number : worker[<<r, n>>] # "absent" => IsTerminal(worker[<<r, n>>])

\* A run is completed on the strength of its last attempt.
VerdictHeld(r) ==
    /\ pc[r] \in {"mark", "decide"} /\ passed[r] => <<r, num[r]>> \in accepted
    /\ pc[r] = "candidate" => final[r] = "completed"
    /\ final[r] = "completed" =>
         /\ pc[r] \in Ending \cup {"candidate"}
         /\ num[r] \in Number /\ <<r, num[r]>> \in accepted
         /\ <<r, num[r], "COMPLETE">> \in effects

OfferHeld(r) ==
    /\ candidate[r] # 0 =>
         candidate[r] = num[r] /\ pc[r] \in Ending /\ final[r] = "completed"
    /\ adopting[r] # 0 => adopting[r] = candidate[r]
    /\ adopted[r] # 0 => adopted[r] = candidate[r]

EndWritten(r) ==
    /\ pc[r] \in Ending \ {"tombstone"} => r \in tombstones
    /\ pc[r] \in {"endTask", "done"} => run[r] = final[r]
    /\ pc[r] = "done" => task[r] = final[r]

RunInv(r) ==
    WorkerPlace(r) /\ RowsClosed(r) /\ VerdictHeld(r) /\ OfferHeld(r) /\ EndWritten(r)

SafeInv == \A r \in Run : RunInv(r)

LEMMA InitSafe == Init => SafeInv
<1> SUFFICES ASSUME Init, NEW r \in Run PROVE RunInv(r)
  BY DEF SafeInv
<1>1. \A n \in Number : <<r, n>> \in Attempt /\ ~(n < 1)
  BY NumbersArePositive DEF Attempt
<1> QED
  BY <1>1 DEF Init, StoreInit, RunInv, WorkerPlace, RowsClosed, VerdictHeld, OfferHeld,
     EndWritten, Ending

\* Attempts are tuples: the facts about them that the steps below need.
LEMMA Tuples ==
  /\ \A r \in Run, n \in Number : <<r, n>> \in Attempt
  /\ \A r, s \in Run, m, n \in Number : <<r, m>> = <<s, n>> => r = s /\ m = n
  BY DEF Attempt

USE DEF TypeInv, TypeOK, StoreTypeOK, worldVars, storeVars, localVars, RunInv,
        WorkerPlace, RowsClosed, VerdictHeld, OfferHeld, EndWritten, Ending, IsTerminal

LEMMA StartSafe ==
  ASSUME TypeInv, NEW r \in Run, RunInv(r), NEW s \in Run, RunInv(s),
         Precreate(r) \/ ReadActive(r) \/ Visit(r) \/ Begin(r) \/ InitialWake(r)
  PROVE  RunInv(s)'
<1>1. CASE Precreate(r)
  BY <1>1 DEF Precreate, CreateRunAndTask
<1>2. CASE ReadActive(r)
  BY <1>2 DEF ReadActive
<1>3. CASE Visit(r)
  BY <1>3 DEF Visit
<1>4. CASE Begin(r)
  BY <1>4 DEF Begin, CreateRunAndTask
<1>5. CASE InitialWake(r)
  BY <1>5 DEF InitialWake
<1> QED
  BY <1>1, <1>2, <1>3, <1>4, <1>5

LEMMA AttemptSafe ==
  ASSUME TypeInv, NEW r \in Run, RunInv(r), NEW s \in Run, RunInv(s),
         \/ Stopped(r) \/ CreateWorktree(r) \/ InsertAttempt(r) \/ StartWorker(r)
         \/ RecordWorker(r)
  PROVE  RunInv(s)'
<1>1. CASE Stopped(r)
  BY <1>1 DEF Stopped
<1>2. CASE CreateWorktree(r)
  BY <1>2 DEF CreateWorktree
<1>3. CASE InsertAttempt(r)
  BY <1>3 DEF InsertAttempt
<1>4. CASE StartWorker(r)
  BY <1>4, CurrentIsAttempt, Tuples, SMTT(30) DEF StartWorker, InAttempt
<1>5. CASE RecordWorker(r)
  BY <1>5, CurrentIsAttempt, Tuples DEF RecordWorker, RecordWorkerPID, InAttempt
<1> QED
  BY <1>1, <1>2, <1>3, <1>4, <1>5

LEMMA ObserveSafe ==
  ASSUME TypeInv, NEW r \in Run, RunInv(r), NEW s \in Run, RunInv(s),
         \/ ObserveExit(r) \/ ObserveCancel(r) \/ Quiescent(r) \/ Recover(r)
         \/ Validate(r) \/ MarkWorker(r)
  PROVE  RunInv(s)'
<1>1. CASE ObserveExit(r)
  BY <1>1 DEF ObserveExit
<1>2. CASE ObserveCancel(r)
  BY <1>2 DEF ObserveCancel
<1>3. CASE Quiescent(r)
  BY <1>3, CurrentIsAttempt, Tuples DEF Quiescent, Kill, InAttempt
<1>4. CASE Recover(r)
  BY <1>4, CurrentIsAttempt, Tuples DEF Recover, Kill, InAttempt
<1>5. CASE Validate(r)
  BY <1>5, CurrentIsAttempt, Tuples DEF Validate, InAttempt
<1>6. CASE MarkWorker(r)
  BY <1>6, CurrentIsAttempt, Tuples DEF MarkWorker, UpdateWorkerStatus, InAttempt
<1> QED
  BY <1>1, <1>2, <1>3, <1>4, <1>5, <1>6

\* COMPLETE passes the gateway only with a passed validator, and is recorded.
LEMMA DecideSafe ==
  ASSUME TypeInv, NEW r \in Run, RunInv(r), NEW s \in Run, RunInv(s), Decide(r)
  PROVE  RunInv(s)'
<1>1. PICK d \in Decisions(r) : Apply(r, d) /\ effects' = effects \cup {<<r, num[r], d>>}
  BY DEF Decide
<1>2. num[r] \in Number /\ pc[r] = "decide" /\ \A n \in Number : n \in Nat
  BY CurrentIsAttempt, NumbersArePositive DEF Decide, InAttempt
<1>3. UNCHANGED <<run, task, worker, candidate, adopted, tombstones, passed, proc,
                  accepted, adopting>>
  BY DEF Decide
<1>4. CASE s # r
  <2>1. pc'[s] = pc[s] /\ num'[s] = num[s] /\ final'[s] = final[s]
    BY <1>1, <1>4 DEF Apply
  <2> QED
    BY <1>1, <1>3, <2>1
<1>5. CASE s = r /\ pc'[r] = "loop"
  <2>1. num'[r] = num[r] + 1 /\ final'[r] = final[r]
    BY <1>1, <1>5 DEF Apply
  <2>2. \A n \in Number : n < num[r] + 1 => n < num[r] \/ n = num[r]
    BY <1>2
  <2> QED
    BY <1>2, <1>3, <1>5, <2>1, <2>2
<1>6. CASE s = r /\ pc'[r] # "loop"
  <2>1. num' = num
    BY <1>1, <1>6 DEF Apply
  <2>2. \/ pc'[r] = "tombstone" /\ final'[r] \in {"failed", "cancelled"}
        \/ pc'[r] = "candidate" /\ final'[r] = "completed" /\ passed[r] /\ d = "COMPLETE"
    BY <1>1, <1>6 DEF Apply, GatewayRejects
  <2> QED
    BY <1>1, <1>2, <1>3, <1>6, <2>1, <2>2
<1> QED
  BY <1>4, <1>5, <1>6

LEMMA EndSafe ==
  ASSUME TypeInv, NEW r \in Run, RunInv(r), NEW s \in Run, RunInv(s),
         Candidate(r) \/ Tombstone(r) \/ CloseAttempts(r) \/ EndRun(r) \/ EndTask(r)
  PROVE  RunInv(s)'
<1>1. CASE Candidate(r)
  BY <1>1, CurrentIsAttempt DEF Candidate, RecordCandidate, InAttempt
<1>2. CASE Tombstone(r)
  BY <1>2 DEF Tombstone, RecordTombstone
<1>3. CASE CloseAttempts(r)
  <2>1. UNCHANGED <<run, task, effects, candidate, adopted, tombstones, num, passed,
                    final, accepted, adopting>>
    BY <1>3 DEF CloseAttempts
  <2>2. \A n \in Number : proc'[<<s, n>>] = proc[<<s, n>>] \/ proc'[<<s, n>>] = "killed"
    BY <1>3, Tuples DEF CloseAttempts, Kill
  <2>3. \A n \in Number : /\ worker'[<<s, n>>] = "absent" <=> worker[<<s, n>>] = "absent"
                          /\ IsTerminal(worker[<<s, n>>]) => IsTerminal(worker'[<<s, n>>])
    <3>1. final[r] # "absent"
      OBVIOUS
    <3>2. worker' = [a \in Attempt |->
                       IF a \in {<<r, n>> : n \in Tracked(r)} /\ ~IsTerminal(worker[a])
                         THEN final[r] ELSE worker[a]]
      BY <1>3 DEF CloseAttempts
    <3> HIDE DEF RunInv, TypeInv, IsTerminal
    <3>3. \A n \in Number : \/ worker'[<<s, n>>] = worker[<<s, n>>]
                            \/ /\ worker[<<s, n>>] # "absent" /\ worker'[<<s, n>>] = final[r]
                               /\ ~IsTerminal(worker[<<s, n>>])
      BY <3>2, Tuples DEF Tracked
    <3> QED
      BY <3>1, <3>3
  <2>4. s = r => \A n \in Number : worker'[<<s, n>>] # "absent" => IsTerminal(worker'[<<s, n>>])
    BY <1>3, Tuples DEF CloseAttempts, Tracked
  <2>5. pc' = [pc EXCEPT ![r] = "endRun"] /\ pc[r] = "close"
    BY <1>3 DEF CloseAttempts
  <2>6. pc[s] \in InAttempt => num[s] \in Number
    BY CurrentIsAttempt
  <2>7. \A n \in Number : proc'[<<s, n>>] \notin {"none", "alive"} \/ proc'[<<s, n>>] = proc[<<s, n>>]
    BY <2>2
  <2>8. WorkerPlace(s)'
    BY <2>1, <2>5, <2>6, <2>7, SMTT(30) DEF InAttempt
  <2>9. RowsClosed(s)'
    BY <2>1, <2>3, <2>4, <2>5, <2>6 DEF InAttempt
  <2>10. VerdictHeld(s)' /\ OfferHeld(s)' /\ EndWritten(s)'
    BY <2>1, <2>5
  <2> QED
    BY <2>8, <2>9, <2>10
<1>4. CASE EndRun(r)
  BY <1>4 DEF EndRun, UpdateRunStatus
<1>5. CASE EndTask(r)
  BY <1>5 DEF EndTask, UpdateTaskStatus
<1> QED
  BY <1>1, <1>2, <1>3, <1>4, <1>5

\* An adoption comes after a completion: it writes what finalizeTerminal writes.
LEMMA UserSafe ==
  ASSUME TypeInv, NEW r \in Run, RunInv(r), NEW s \in Run, RunInv(s), UserStep(r)
  PROVE  RunInv(s)'
<1>1. CASE Cancel(r)
  BY <1>1 DEF Cancel
<1>2. CASE CheckAdoption(r)
  BY <1>2 DEF CheckAdoption, Adoptable
<1>3. CASE Adopt(r)
  <2>1. adopting[r] \in Number /\ adopting[r] = candidate[r] /\ final[r] = "completed"
    BY <1>3 DEF Adopt
  <2>2. /\ UNCHANGED <<tombstones, effects, candidate, pc, num, passed, final, proc, accepted>>
        /\ adopting' = [adopting EXCEPT ![r] = 0]
        /\ adopted' = [adopted EXCEPT ![r] = adopting[r]]
        /\ run' = [run EXCEPT ![r] = "completed"] /\ task' = [task EXCEPT ![r] = "completed"]
    BY <1>3 DEF Adopt, RecordAdoption, UpdateRunStatus, UpdateTaskStatus
  <2>3. \A n \in Number :
          IsTerminal(worker'[<<s, n>>]) \/ worker'[<<s, n>>] = worker[<<s, n>>]
    BY <1>3, <2>1, Tuples DEF Adopt, UpdateWorkerStatus
  <2>4. WorkerPlace(s)' /\ RowsClosed(s)'
    BY <2>2, <2>3, CurrentIsAttempt DEF InAttempt
  <2>5. VerdictHeld(s)' /\ OfferHeld(s)' /\ EndWritten(s)'
    BY <2>1, <2>2
  <2> QED
    BY <2>4, <2>5
<1>4. CASE Reject(r)
  BY <1>4 DEF Reject
<1> QED
  BY <1>1, <1>2, <1>3, <1>4 DEF UserStep

LEMMA ExitSafe ==
  ASSUME TypeInv, NEW s \in Run, RunInv(s), NEW a \in Attempt, WorkerExits(a)
  PROVE  RunInv(s)'
BY Tuples DEF WorkerExits

HIDE DEF TypeInv, TypeOK, StoreTypeOK, worldVars, storeVars, localVars, RunInv,
         WorkerPlace, RowsClosed, VerdictHeld, OfferHeld, EndWritten, Ending, IsTerminal

\* A step of run r, seen from run s, which may be r.
LEMMA RunSafe ==
  ASSUME TypeInv, NEW r \in Run, RunInv(r), NEW s \in Run, RunInv(s),
         RunStep(r) \/ Quiescent(r) \/ UserStep(r)
  PROVE  RunInv(s)'
BY StartSafe, AttemptSafe, ObserveSafe, DecideSafe, EndSafe, UserSafe DEF RunStep

LEMMA StepSafe == ASSUME TypeInv, SafeInv, [Next]_vars PROVE SafeInv'
<1>1. CASE UNCHANGED vars
  BY <1>1 DEF vars, SafeInv, storeVars, localVars, worldVars, RunInv, WorkerPlace,
     RowsClosed, VerdictHeld, OfferHeld, EndWritten
<1> QED
  BY <1>1, RunSafe, ExitSafe DEF Next, SafeInv

(* What each statement of a run may rely on about its worker, its rows,    *)
(* its verdict and what is offered for adoption.                           *)
THEOREM SafeHolds == Spec => []SafeInv
<1>1. TypeInv /\ SafeInv /\ [Next]_vars => SafeInv'
  BY StepSafe
<1> QED
  BY <1>1, InitSafe, TypesHold, PTL DEF Spec

(* What is adopted is the one attempt that was accepted and offered,       *)
(* whatever the user adopts and rejects meanwhile.                         *)
THEOREM AdoptionSoundHolds == Spec => []AdoptionSound
<1>1. SafeInv => AdoptionSound
  BY DEF SafeInv, RunInv, VerdictHeld, OfferHeld, AdoptionSound
<1> QED
  BY <1>1, SafeHolds, PTL

(* A run never has two living workers, and has closed the rows of earlier  *)
(* attempts before it starts the next one.                                 *)
THEOREM OneWorkerHolds == Spec => []OneWorker
<1>1. TypeInv /\ SafeInv => OneWorker
  <2> SUFFICES ASSUME SafeInv, NEW r \in Run, NEW n \in Number, NEW m \in Number,
                      proc[<<r, n>>] = "alive", m < n
               PROVE  proc[<<r, m>>] # "alive" /\ IsTerminal(worker[<<r, m>>])
    BY DEF OneWorker
  <2>1. n = num[r] /\ m \in Nat /\ n \in Nat
    BY NumbersArePositive DEF SafeInv, RunInv, WorkerPlace
  <2> QED
    BY <2>1 DEF SafeInv, RunInv, WorkerPlace, RowsClosed
<1> QED
  BY <1>1, SafeHolds, TypesHold, PTL

(***************************************************************************)
(* The attempt rows behind finalizeTerminal.                               *)
(***************************************************************************)

Closed == {"endRun", "endTask", "done"}

\* The rows of tracked attempts are terminal.
AttemptsClosed(r) ==
    pc[r] \in Closed =>
        \A n \in Number : worker[<<r, n>>] # "absent" => IsTerminal(attempt[RowOf(<<r, n>>)])

\* The tracker's runs, whose attempts share a row, are not adopted.
AdoptsOwnRow(r) == adopting[r] # 0 => r \in Coordinated

ClosedInv == \A r \in Run : AttemptsClosed(r) /\ AdoptsOwnRow(r)

\* Other statuses become terminal ones, no worker is added and the loop is not left.
LEMMA ClosedKept ==
  ASSUME TypeInv, ClosedInv, NEW r \in Run,
         pc'[r] \in Closed => pc[r] \in Closed,
         \A n \in Number : worker'[<<r, n>>] # "absent" => worker[<<r, n>>] # "absent",
         \A a \in Attempt : IsTerminal(attempt'[a]) \/ attempt'[a] = attempt[a]
  PROVE  AttemptsClosed(r)'
<1> SUFFICES ASSUME pc'[r] \in Closed, NEW n \in Number, worker'[<<r, n>>] # "absent"
             PROVE  IsTerminal(attempt[RowOf(<<r, n>>)])'
  BY DEF AttemptsClosed
<1>1. IsTerminal(attempt[RowOf(<<r, n>>)])
  BY DEF ClosedInv, AttemptsClosed
<1>2. RowOf(<<r, n>>) \in Attempt
  BY Tuples, RowIsAttempt
<1> QED
  BY <1>1, <1>2 DEF IsTerminal

\* The steps that write no attempt row, and worker rows only within the loop.
LEMMA RowsLeft ==
  ASSUME TypeInv, ClosedInv, NEW r \in Run, NEW s \in Run,
         \/ ReadActive(r) \/ Begin(r) \/ InitialWake(r) \/ Stopped(r)
         \/ CreateWorktree(r) \/ StartWorker(r) \/ ObserveExit(r) \/ ObserveCancel(r)
         \/ Quiescent(r) \/ Recover(r) \/ Decide(r) \/ Candidate(r) \/ Tombstone(r)
         \/ EndRun(r) \/ EndTask(r) \/ Cancel(r) \/ CheckAdoption(r)
  PROVE  AttemptsClosed(s)'
<1>1. attempt' = attempt /\ worker' = worker
  BY DEF ReadActive, Begin, InitialWake, Stopped, CreateWorktree, StartWorker, ObserveExit,
     ObserveCancel, Quiescent, Recover, Decide, Candidate, Tombstone, EndRun, EndTask, Cancel,
     CheckAdoption, storeVars
<1>2. pc'[s] \in Closed => pc[s] \in Closed
  BY DEF Closed, ReadActive, Begin, InitialWake, Stopped, CreateWorktree, StartWorker,
     ObserveExit, ObserveCancel, Quiescent, Recover, Decide, Apply, Candidate, Tombstone,
     EndRun, EndTask, Cancel, CheckAdoption, localVars, TypeInv, TypeOK
<1> QED
  BY <1>1, <1>2, ClosedKept

\* A run inserts rows only of its own and only before it is closed.
LEMMA RowsInserted ==
  ASSUME TypeInv, ClosedInv, NEW r \in Run, NEW s \in Run,
         Precreate(r) \/ InsertAttempt(r) \/ RecordWorker(r) \/ MarkWorker(r)
  PROVE  AttemptsClosed(s)'
<1>1. /\ pc' = [pc EXCEPT ![r] = pc'[r]]
      /\ pc'[r] \notin Closed
      /\ pc \in [Run -> Step]
  BY DEF Closed, Precreate, InsertAttempt, RecordWorker, MarkWorker, TypeInv, TypeOK
<1>2. CASE s = r
  BY <1>1, <1>2 DEF AttemptsClosed
<1>3. CASE s # r
  <2>1. pc'[s] = pc[s]
    BY <1>1, <1>3
  <2>2. \A n \in Number : attempt'[<<s, n>>] = attempt[<<s, n>>]
                          /\ worker'[<<s, n>>] = worker[<<s, n>>]
    BY <1>3, Tuples DEF Precreate, InsertAttempt, RecordWorker, MarkWorker, CreateAttempt,
       RecordWorkerPID, UpdateWorkerStatus, TypeInv, TypeOK, StoreTypeOK
  <2>3. \A n \in Number : attempt'[RowOf(<<s, n>>)] = attempt[RowOf(<<s, n>>)]
    BY <2>2, FirstAttempt DEF RowOf
  <2> QED
    BY <2>1, <2>2, <2>3 DEF ClosedInv, AttemptsClosed, IsTerminal
<1> QED
  BY <1>2, <1>3

\* Every status that is written without an insert is terminal.
LEMMA RowsEnded ==
  ASSUME TypeInv, ClosedInv, NEW r \in Run, NEW s \in Run,
         Visit(r) \/ Validate(r) \/ Reject(r)
  PROVE  AttemptsClosed(s)'
<1>1. \A a \in Attempt : IsTerminal(attempt'[a]) \/ attempt'[a] = attempt[a]
  BY DEF Visit, Validate, Reject, UpdateAttemptStatus, IsTerminal, TypeInv, TypeOK, StoreTypeOK
<1>2. worker' = worker /\ (pc'[s] \in Closed => pc[s] \in Closed)
  BY DEF Closed, Visit, Validate, Reject, localVars, TypeInv, TypeOK
<1> QED
  BY <1>1, <1>2, ClosedKept

LEMMA RowsClose ==
  ASSUME TypeInv, ClosedInv, NEW r \in Run, NEW s \in Run, CloseAttempts(r)
  PROVE  AttemptsClosed(s)'
<1> DEFINE mine == {<<r, n>> : n \in Tracked(r)}
           rows == {RowOf(a) : a \in mine}
<1>1. /\ \A a \in Attempt : attempt'[a] = IF a \in rows /\ ~IsTerminal(attempt[a])
                                             THEN final[r] ELSE attempt[a]
      /\ \A a \in Attempt : worker'[a] = IF a \in mine /\ ~IsTerminal(worker[a])
                                             THEN final[r] ELSE worker[a]
      /\ pc' = [pc EXCEPT ![r] = "endRun"]
  BY DEF CloseAttempts
<1>2. IsTerminal(final[r])
  BY DEF IsTerminal, TypeInv, TypeOK
<1>3. \A a \in Attempt : IsTerminal(attempt'[a]) \/ attempt'[a] = attempt[a]
  BY <1>1, <1>2
<1>4. ASSUME NEW n \in Number, worker'[<<s, n>>] # "absent"
      PROVE  worker[<<s, n>>] # "absent"
  <2>1. CASE <<s, n>> \in mine
    <3>1. PICK m \in Tracked(r) : <<s, n>> = <<r, m>>
      BY <2>1
    <3> QED
      BY <3>1 DEF Tracked
  <2>2. CASE <<s, n>> \notin mine
    BY <1>1, <1>4, <2>2, Tuples
  <2> QED
    BY <2>1, <2>2
<1>5. CASE s # r
  <2>1. pc'[s] = pc[s]
    BY <1>1, <1>5 DEF TypeInv, TypeOK
  <2> QED
    BY <1>3, <1>4, <2>1, ClosedKept
<1>6. CASE s = r
  <2> SUFFICES ASSUME NEW n \in Number, worker'[<<r, n>>] # "absent"
               PROVE  IsTerminal(attempt[RowOf(<<r, n>>)])'
    BY <1>6 DEF AttemptsClosed
  <2>1. n \in Tracked(r)
    BY <1>4, <1>6 DEF Tracked
  <2>2. RowOf(<<r, n>>) \in rows /\ RowOf(<<r, n>>) \in Attempt
    BY <2>1, Tuples, RowIsAttempt
  <2>3. IsTerminal(attempt'[RowOf(<<r, n>>)])
    <3> HIDE DEF rows
    <3> QED
      BY <1>1, <1>2, <2>2
  <2> QED
    BY <2>3 DEF IsTerminal
<1> QED
  BY <1>5, <1>6

\* An adoption may add the worker row of an attempt it completes.
LEMMA RowsAdopted ==
  ASSUME TypeInv, ClosedInv, NEW r \in Run, NEW s \in Run, Adopt(r)
  PROVE  AttemptsClosed(s)'
<1> DEFINE n == adopting[r]
<1>1. /\ n \in Number /\ r \notin Precreated /\ <<r, n>> \in Attempt
      /\ pc' = pc
      /\ attempt' = [attempt EXCEPT ![<<r, n>>] = "completed"]
      /\ worker' = [worker EXCEPT ![<<r, n>>] = "completed"]
  BY RunKindAssumption, Tuples DEF Adopt, ClosedInv, AdoptsOwnRow, UpdateAttemptStatus,
     UpdateWorkerStatus, localVars, TypeInv, TypeOK
<1>2. /\ \A a \in Attempt : IsTerminal(attempt'[a]) \/ attempt'[a] = attempt[a]
      /\ IsTerminal(attempt'[<<r, n>>])
  BY <1>1 DEF IsTerminal, TypeInv, TypeOK, StoreTypeOK
<1> SUFFICES ASSUME pc[s] \in Closed, NEW m \in Number, worker'[<<s, m>>] # "absent"
             PROVE  IsTerminal(attempt[RowOf(<<s, m>>)])'
  BY <1>1 DEF AttemptsClosed
<1>3. CASE <<s, m>> = <<r, n>>
  <2>1. RowOf(<<s, m>>) = <<r, n>>
    BY <1>1, <1>3 DEF RowOf
  <2> QED
    BY <1>2, <2>1 DEF IsTerminal
<1>4. CASE <<s, m>> # <<r, n>>
  <2>1. worker'[<<s, m>>] = worker[<<s, m>>]
    BY <1>1, <1>4, Tuples DEF TypeInv, TypeOK, StoreTypeOK
  <2>2. IsTerminal(attempt[RowOf(<<s, m>>)])
    BY <2>1 DEF ClosedInv, AttemptsClosed
  <2>3. RowOf(<<s, m>>) \in Attempt
    BY Tuples, RowIsAttempt
  <2> QED
    BY <1>2, <2>2, <2>3 DEF IsTerminal
<1> QED
  BY <1>3, <1>4

\* `result adopt` looks at coordinated runs only.
LEMMA AdoptsOwn ==
  ASSUME TypeInv, ClosedInv, [Next]_vars, NEW s \in Run
  PROVE  AdoptsOwnRow(s)'
<1>0. AdoptsOwnRow(s)
  BY DEF ClosedInv
<1>1. ASSUME NEW r \in Run, CheckAdoption(r) PROVE AdoptsOwnRow(s)'
  BY <1>0, <1>1 DEF CheckAdoption, Adoptable, AdoptsOwnRow, TypeInv, TypeOK
<1>2. ASSUME NEW r \in Run, Adopt(r) PROVE AdoptsOwnRow(s)'
  BY <1>0, <1>2 DEF Adopt, AdoptsOwnRow, TypeInv, TypeOK
<1>3. CASE adopting' = adopting
  BY <1>0, <1>3 DEF AdoptsOwnRow
<1> QED
  BY <1>1, <1>2, <1>3 DEF Next, RunStep, UserStep, Precreate, ReadActive, Visit, Begin,
     InitialWake, Stopped, CreateWorktree, InsertAttempt, StartWorker, RecordWorker,
     ObserveExit, ObserveCancel, Quiescent, Recover, Validate, MarkWorker, Decide, Candidate,
     Tombstone, CloseAttempts, EndRun, EndTask, Cancel, Reject, WorkerExits, vars

LEMMA StepClosed == ASSUME TypeInv, ClosedInv, [Next]_vars PROVE ClosedInv'
<1> SUFFICES ASSUME NEW s \in Run PROVE AttemptsClosed(s)'
  BY AdoptsOwn DEF ClosedInv
<1>1. CASE UNCHANGED vars \/ \E a \in Attempt : WorkerExits(a)
  <2>1. attempt' = attempt /\ worker' = worker /\ pc' = pc
    BY <1>1 DEF vars, WorkerExits, storeVars, localVars
  <2> QED
    BY <2>1, ClosedKept
<1>2. CASE \E r \in Run : RunStep(r) \/ Quiescent(r) \/ UserStep(r)
  BY <1>2, RowsLeft, RowsInserted, RowsEnded, RowsClose, RowsAdopted DEF RunStep, UserStep
<1> QED
  BY <1>1, <1>2 DEF Next

(* A run that has returned leaves nothing alive and no row of a tracked    *)
(* attempt or its worker open, and is completed only if an attempt was     *)
(* accepted, also when an adoption writes between its last statements.     *)
THEOREM EndsCleanHolds == Spec => []EndsClean
<1>1. TypeInv /\ SafeInv /\ ClosedInv => EndsClean
  <2> SUFFICES ASSUME TypeInv, SafeInv, ClosedInv, NEW r \in Run, pc[r] = "done"
               PROVE  /\ IsTerminal(run[r]) /\ task[r] = run[r]
                      /\ r \in tombstones
                      /\ \A n \in Number : proc[<<r, n>>] # "alive"
                      /\ \A n \in Tracked(r) : /\ IsTerminal(worker[<<r, n>>])
                                               /\ IsTerminal(attempt[RowOf(<<r, n>>)])
                      /\ run[r] = "completed" =>
                           \E n \in Number : /\ <<r, n>> \in accepted
                                             /\ <<r, n, "COMPLETE">> \in effects
    BY DEF EndsClean
  <2> USE DEF SafeInv, RunInv
  <2>1. IsTerminal(run[r]) /\ task[r] = run[r] /\ r \in tombstones
    BY DEF EndWritten, Ending, IsTerminal, TypeInv, TypeOK
  <2>2. /\ \A n \in Number : proc[<<r, n>>] # "alive"
        /\ \A n \in Tracked(r) : IsTerminal(worker[<<r, n>>])
    BY DEF WorkerPlace, RowsClosed, Tracked
  <2>3. \A n \in Tracked(r) : IsTerminal(attempt[RowOf(<<r, n>>)])
    BY DEF ClosedInv, AttemptsClosed, Closed, Tracked
  <2>4. run[r] = "completed" =>
          \E n \in Number : <<r, n>> \in accepted /\ <<r, n, "COMPLETE">> \in effects
    BY DEF VerdictHeld, EndWritten
  <2> QED
    BY <2>1, <2>2, <2>3, <2>4
<1>2. Init => ClosedInv
  BY DEF Init, ClosedInv, AttemptsClosed, AdoptsOwnRow, Closed
<1>3. TypeInv /\ ClosedInv /\ [Next]_vars => ClosedInv'
  BY StepClosed
<1> QED
  BY <1>1, <1>2, <1>3, SafeHolds, TypesHold, PTL DEF Spec

(* A validator runs only on the worktree of a worker that was started and  *)
(* is dead.                                                                *)
THEOREM ValidatedAtRestHolds == Spec => ValidatedAtRest
<1>1. ASSUME TypeInv, SafeInv, [Next]_vars, NEW a \in accepted' \ accepted
      PROVE  proc[a] \notin {"none", "alive"}
  <2>1. PICK r \in Run : Validate(r)
    <3> HIDE DEF TypeInv
    <3>1. ASSUME NEW r \in Run,
                 \/ Precreate(r) \/ ReadActive(r) \/ Visit(r) \/ Begin(r) \/ InitialWake(r)
                 \/ Stopped(r) \/ CreateWorktree(r) \/ InsertAttempt(r) \/ StartWorker(r)
          PROVE  accepted' = accepted
      BY <3>1 DEF Precreate, ReadActive, Visit, Begin, InitialWake, Stopped, CreateWorktree,
         InsertAttempt, StartWorker, worldVars
    <3>2. ASSUME NEW r \in Run,
                 \/ RecordWorker(r) \/ ObserveExit(r) \/ ObserveCancel(r) \/ Recover(r)
                 \/ MarkWorker(r) \/ Decide(r) \/ Candidate(r) \/ Tombstone(r)
          PROVE  accepted' = accepted
      BY <3>2 DEF RecordWorker, ObserveExit, ObserveCancel, Recover, MarkWorker, Decide,
         Candidate, Tombstone, worldVars
    <3>3. ASSUME NEW r \in Run,
                 CloseAttempts(r) \/ EndRun(r) \/ EndTask(r) \/ Quiescent(r) \/ UserStep(r)
          PROVE  accepted' = accepted
      BY <3>3 DEF CloseAttempts, EndRun, EndTask, Quiescent, UserStep, Cancel, CheckAdoption,
         Adopt, Reject, worldVars
    <3>4. ASSUME NEW b \in Attempt, WorkerExits(b) PROVE accepted' = accepted
      BY <3>4 DEF WorkerExits, worldVars
    <3>5. CASE UNCHANGED vars
      BY <3>5 DEF vars, worldVars
    <3> QED
      BY <1>1, <3>1, <3>2, <3>3, <3>4, <3>5 DEF Next, RunStep
  <2>2. a = <<r, num[r]>> /\ pc[r] = "validate" /\ num[r] \in Number
    BY <1>1, <2>1, CurrentIsAttempt DEF Validate, InAttempt
  <2> QED
    BY <1>1, <2>2 DEF SafeInv, RunInv, WorkerPlace
<1>2. TypeInv /\ SafeInv /\ [Next]_vars =>
        [\A a \in accepted' \ accepted : proc[a] \notin {"none", "alive"}]_vars
  BY <1>1
<1> QED
  BY <1>2, SafeHolds, TypesHold, PTL DEF Spec, ValidatedAtRest

(***************************************************************************)
(* Runs that share a repository: the C5 pass of one leaves the rows of     *)
(* another's living attempts alone.                                        *)
(***************************************************************************)

\* The worktree of an attempt exists before its row and as long as its worker
\* may live; the row a tracker's run was given is cancelled only at the end.
RowKept(r) ==
    /\ pc[r] \in {"row", "worker", "instruct", "observe", "recover"}
         => <<r, num[r]>> \in worktrees
    /\ pc[r] \in {"worker", "instruct", "observe", "recover"} /\ r \notin Precreated
         => attempt[<<r, num[r]>>] # "cancelled"
    /\ r \in Precreated /\ attempt[<<r, 1>>] = "cancelled"
         => pc[r] \in {"endRun", "endTask", "done", "killed"}

RowsKept == \A r \in Run : RowKept(r)

OneRepository == \A r, s \in Run : RepoOf[r] = RepoOf[s]

USE DEF TypeInv, TypeOK, StoreTypeOK, worldVars, storeVars, localVars, RowKept

\* The steps that write neither an attempt row nor a worktree.
LEMMA RowsUntouched ==
  ASSUME TypeInv, RowsKept, NEW r \in Run,
         \/ ReadActive(r) \/ Begin(r) \/ InitialWake(r) \/ Stopped(r) \/ RecordWorker(r)
         \/ ObserveExit(r) \/ ObserveCancel(r) \/ Quiescent(r) \/ Recover(r)
         \/ MarkWorker(r) \/ Decide(r) \/ Candidate(r) \/ Tombstone(r) \/ EndRun(r)
         \/ EndTask(r)
  PROVE  RowsKept'
<1> SUFFICES ASSUME NEW s \in Run PROVE RowKept(s)'
  BY DEF RowsKept
<1>0. RowKept(s)
  BY DEF RowsKept
<1>1. UNCHANGED <<attempt, worktrees>>
  BY DEF ReadActive, Begin, InitialWake, Stopped, RecordWorker, ObserveExit,
     ObserveCancel, Quiescent, Recover, MarkWorker, Decide, Candidate, Tombstone,
     EndRun, EndTask
<1>2. CASE Decide(r)
  <2>1. /\ pc[r] = "decide" /\ pc'[r] \in {"loop", "candidate", "tombstone"}
        /\ \A q \in Run \ {r} : pc'[q] = pc[q] /\ num'[q] = num[q]
    BY <1>2 DEF Decide, Apply
  <2> QED
    BY <1>0, <1>1, <2>1
<1>3. CASE ~Decide(r)
  <2>1. num' = num
    BY <1>3 DEF ReadActive, Begin, InitialWake, Stopped, RecordWorker, ObserveExit,
       ObserveCancel, Quiescent, Recover, MarkWorker, Candidate, Tombstone, EndRun, EndTask
  <2>2. /\ \A q \in Run \ {r} : pc'[q] = pc[q]
        /\ pc'[r] \in {"row", "worker", "instruct", "observe", "recover"} =>
             pc[r] \in {"instruct", "observe"}
        /\ pc[r] \in {"endRun", "endTask", "done", "killed"} => pc'[r] \in {"endTask", "done"}
    BY <1>3 DEF ReadActive, Begin, InitialWake, Stopped, RecordWorker, ObserveExit,
       ObserveCancel, Quiescent, Recover, MarkWorker, Candidate, Tombstone, EndRun, EndTask
  <2> QED
    BY <1>0, <1>1, <2>1, <2>2
<1> QED
  BY <1>2, <1>3

LEMMA RowsWritten ==
  ASSUME TypeInv, RowsKept, OneRepository, NEW r \in Run,
         \/ Precreate(r) \/ Visit(r) \/ CreateWorktree(r) \/ InsertAttempt(r)
         \/ StartWorker(r) \/ Validate(r) \/ CloseAttempts(r)
  PROVE  RowsKept'
<1> SUFFICES ASSUME NEW s \in Run PROVE RowKept(s)'
  BY DEF RowsKept
<1>0. RowKept(s) /\ (pc[s] \in InAttempt => num[s] \in Number)
  BY CurrentIsAttempt DEF RowsKept
<1>9. <<r, 1>> \in Attempt /\ <<s, 1>> \in Attempt /\ 1 \in Number
  BY FirstAttempt
<1>1. CASE Precreate(r)
  BY <1>0, <1>1, <1>9, Tuples DEF Precreate, CreateAttempt, InAttempt
<1>2. CASE Visit(r)
  <2>1. PICK a \in c5[r] : IF WorktreeExists(a, RepoOf[r])
                              THEN UNCHANGED attempt ELSE UpdateAttemptStatus(a, "cancelled")
    BY <1>2 DEF Visit
  <2>2. UNCHANGED <<pc, num, worktrees>> /\ a \in Attempt
    BY <1>2, <2>1 DEF Visit
  <2>3. s \in Precreated => attempt'[<<s, 1>>] = attempt[<<s, 1>>]
    BY <1>9, <2>1, <2>2 DEF UpdateAttemptStatus, WorktreeExists
  <2>4. \A n \in Number : <<s, n>> \in worktrees => attempt'[<<s, n>>] = attempt[<<s, n>>]
    BY <2>1, <2>2, Tuples DEF UpdateAttemptStatus, WorktreeExists, OneRepository
  <2> QED
    BY <1>0, <2>2, <2>3, <2>4 DEF InAttempt
<1>3. CASE CreateWorktree(r)
  BY <1>0, <1>3 DEF CreateWorktree, AddWorktree
<1>4. CASE InsertAttempt(r)
  BY <1>0, <1>4, <1>9, Tuples, CurrentIsAttempt DEF InsertAttempt, CreateAttempt, InAttempt
<1>5. CASE StartWorker(r)
  BY <1>0, <1>5, Tuples, CurrentIsAttempt DEF StartWorker, RemoveWorktree, InAttempt
<1>6. CASE Validate(r)
  <2>1. \E v \in {"completed", "failed"} : attempt' = [attempt EXCEPT ![Row(r)] = v]
    BY <1>6 DEF Validate, UpdateAttemptStatus
  <2>2. \A a \in Attempt : attempt'[a] = "cancelled" => attempt[a] = "cancelled"
    BY <2>1
  <2>3. worktrees' = worktrees /\ num' = num /\ pc[r] = "validate" /\ pc' = [pc EXCEPT ![r] = "mark"]
    BY <1>6 DEF Validate
  <2> QED
    BY <1>0, <1>9, <2>2, <2>3, Tuples DEF InAttempt
<1>7. CASE CloseAttempts(r)
  <2>1. \A a \in Attempt : a[1] # r => attempt'[a] = attempt[a]
    <3>1. \A n \in Number : RowOf(<<r, n>>)[1] = r
      BY DEF RowOf
    <3>2. ASSUME NEW b \in {RowOf(a) : a \in {<<r, n>> : n \in Tracked(r)}} PROVE b[1] = r
      <4>1. PICK n \in Tracked(r) : b = RowOf(<<r, n>>)
        OBVIOUS
      <4> QED
        BY <3>1, <4>1 DEF Tracked
    <3>3. \A a \in Attempt : a \notin {RowOf(b) : b \in {<<r, n>> : n \in Tracked(r)}}
                               => attempt'[a] = attempt[a]
      BY <1>7 DEF CloseAttempts
    <3> QED
      BY <3>2, <3>3
  <2>2. worktrees' = worktrees /\ num' = num /\ pc[r] = "close" /\ pc' = [pc EXCEPT ![r] = "endRun"]
    BY <1>7 DEF CloseAttempts
  <2>3. s # r => \A n \in Number : attempt'[<<s, n>>] = attempt[<<s, n>>]
    BY <2>1, Tuples
  <2> QED
    BY <1>0, <1>9, <2>2, <2>3 DEF InAttempt
<1> QED
  BY <1>1, <1>2, <1>3, <1>4, <1>5, <1>6, <1>7

LEMMA RowsInTheWorld ==
  ASSUME TypeInv, RowsKept,
         \/ \E r \in Run : UserStep(r)
         \/ \E a \in Attempt : WorkerExits(a)
  PROVE  RowsKept'
<1> SUFFICES ASSUME NEW s \in Run PROVE RowKept(s)'
  BY DEF RowsKept
<1>0. RowKept(s) /\ (pc[s] \in InAttempt => num[s] \in Number)
  BY CurrentIsAttempt DEF RowsKept
<1>1. UNCHANGED <<pc, num, worktrees>>
  BY DEF UserStep, Cancel, CheckAdoption, Adopt, Reject, WorkerExits
<1>2. \A a \in Attempt : attempt'[a] = "cancelled" => attempt[a] = "cancelled"
  BY DEF UserStep, Cancel, CheckAdoption, Adopt, Reject, WorkerExits, UpdateAttemptStatus
<1>3. <<s, 1>> \in Attempt
  BY FirstAttempt
<1> QED
  BY <1>0, <1>1, <1>2, <1>3, Tuples DEF InAttempt

(* With one repository, no run's C5 pass ever cancels the row of an        *)
(* attempt whose worker lives, however stale the list it goes through.     *)
THEOREM LivingRowKeptHolds ==
  ASSUME OneRepository
  PROVE  Spec => []LivingRowKept
<1>1. Init => RowsKept
  <2>1. \A r \in Run : <<r, 1>> \in Attempt
    BY FirstAttempt
  <2>2. Init => /\ \A r \in Run : pc[r] = "idle"
                /\ \A a \in Attempt : attempt[a] = "absent"
    BY DEF Init, StoreInit
  <2> QED
    BY <2>1, <2>2 DEF RowsKept
<1>2. TypeInv /\ RowsKept /\ [Next]_vars => RowsKept'
  <2> SUFFICES ASSUME TypeInv, RowsKept, [Next]_vars PROVE RowsKept'
    OBVIOUS
  <2>1. CASE UNCHANGED vars
    BY <2>1 DEF vars, RowsKept
  <2> QED
    BY <2>1, OneRepository, RowsUntouched, RowsWritten, RowsInTheWorld DEF Next, RunStep
<1>3. SafeInv /\ RowsKept => LivingRowKept
  <2> SUFFICES ASSUME SafeInv, RowsKept, NEW r \in Run, NEW n \in Number,
                      proc[<<r, n>>] = "alive"
               PROVE  attempt[RowOf(<<r, n>>)] # "cancelled"
    BY DEF LivingRowKept, Attempt
  <2>1. n = num[r] /\ pc[r] \in {"instruct", "observe", "recover"}
    BY DEF SafeInv, RunInv, WorkerPlace
  <2> QED
    BY <2>1 DEF RowsKept, RowOf
<1> QED
  BY <1>1, <1>2, <1>3, TypesHold, SafeHolds, PTL DEF Spec
=============================================================================
