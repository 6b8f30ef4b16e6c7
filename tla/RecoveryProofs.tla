----------------------------- MODULE RecoveryProofs -----------------------------
(***************************************************************************)
(* Proofs about crashes and recovery: what the rows say of the workers,    *)
(* whichever statement an owner or an earlier recovery died at, for any    *)
(* number of runs, limits, coordinators and crashes.                       *)
(***************************************************************************)
EXTENDS Recovery, OrchestratorProofs, SequenceTheorems, FiniteSetTheorems,
        WellFoundedInduction

\* A run that has not started has left no trace.
Fresh(r) ==
    /\ num[r] = 1 /\ final[r] = "failed"
    /\ candidate[r] = 0 /\ adopted[r] = 0 /\ adopting[r] = 0
    /\ run[r] = "absent" /\ task[r] = "absent"
    /\ \A n \in Number : /\ attempt[<<r, n>>] = "absent" /\ worker[<<r, n>>] = "absent"
                         /\ proc[<<r, n>>] = "none"

\* The rows of a run with a living owner: nothing is on record of an attempt
\* it has not come to, those it is through with are decided, its current
\* worker is on record from observe on, and its own row stays open to the end.
OwnRows(r) ==
    /\ \A n \in Number : n > num[r] =>
         /\ worker[<<r, n>>] = "absent"
         /\ r \notin Precreated => attempt[<<r, n>>] = "absent"
    /\ r \in Precreated => \A n \in Number \ {1} : attempt[<<r, n>>] = "absent"
    /\ \A n \in Number : n < num[r] => IsTerminal(attempt[RowOf(<<r, n>>)])
    /\ \A n \in Number : attempt[<<r, n>>] # "interrupted"
    /\ pc[r] \in {"observe", "recover", "validate", "mark", "decide", "candidate"}
         => worker[<<r, num[r]>>] # "absent"
    /\ pc[r] \in {"mark", "decide", "candidate"} \/ final[r] = "completed"
         => IsTerminal(attempt[Row(r)])
    /\ final[r] = "completed" => IsTerminal(worker[<<r, num[r]>>])
    /\ pc[r] # "endTask" => run[r] \in {"absent", "pending"}

OwnerInv(r) ==
    /\ pc[r] = "idle" => Fresh(r)
    /\ pc[r] \notin {"done", "killed"} => RunInv(r) /\ OwnRows(r)

\* No living worker on record.
DeadRow(a) ==
    \A b \in Attempt : RowOf(b) = a /\ worker[b] # "absent" => proc[b] # "alive"

\* What the rows say of the processes, whoever wrote them last.
RecordsHeld ==
    /\ \A r \in Run, m, n \in Number :
         proc[<<r, n>>] = "alive" /\ m > n => worker[<<r, m>>] = "absent"
    /\ \A r \in Run, n \in Number : worker[<<r, n>>] # "absent" => n <= AttemptLimit(r)
    /\ \A a \in checkpoint : Workers(a) # {}
    /\ \A a \in Attempt : attempt[a] = "interrupted" => DeadRow(a)
    /\ \A a \in ActiveAttempts : run[a[1]] # "completed"
    /\ \A r \in Run : \A a \in c5[r] : attempt[a] # "absent"

Write == Table \X {"failed", "interrupted"}

HandTypes ==
    /\ rpc \in {"idle", "look", "own", "run"}
    /\ todo \subseteq Attempt /\ saved \subseteq Attempt /\ watched \subseteq Attempt
    /\ mark = {} \/ \E a \in Attempt : mark = {a}
    /\ script \in [Attempt -> Seq(Write)]
    /\ \A a \in Attempt : Len(script[a]) <= 4

InHand(a) == a \in todo \cup watched \cup mark \/ script[a] # <<>>

\* A recovery and a living owner exclude each other; what it has in hand is
\* an attempt of a run that is not completed, and it writes no completion.
HandHeld ==
    /\ rpc \in {"idle", "run"} => saved = {} /\ \A a \in Attempt : ~InHand(a)
    /\ rpc \in {"look", "own"} => \A r \in Run : ~Live(r)
    /\ rpc = "look" => watched = {} /\ mark = {}
    /\ rpc = "own" => saved = {}
    /\ saved \subseteq checkpoint
    /\ \A a \in Attempt : InHand(a) => attempt[a] # "absent" /\ run[a[1]] # "completed"

ScriptHeld ==
    /\ \A a \in Attempt : \A i \in 1 .. Len(script[a]) :
         /\ script[a][i][1] = "worker" => Workers(a) # {}
         /\ script[a][i][2] = "interrupted" => DeadRow(a)
    /\ rpc = "look" => \A a \in ActiveAttempts \ todo :
         Workers(a) # {} \/ \E i \in 1 .. Len(script[a]) : script[a][i][1] = "attempt"
    /\ rpc = "own" => \A a \in todo : Workers(a) # {}

RecoveryInv ==
    /\ TypeInv /\ HandTypes
    /\ \A r \in Run : OwnerInv(r)
    /\ RecordsHeld /\ NoInventedSuccess /\ HandHeld /\ ScriptHeld

(***************************************************************************)
(* The last worker of a row                                                *)
(***************************************************************************)

LEMMA LeastNumber ==
  ASSUME NEW S \in SUBSET Nat, S # {}
  PROVE  \E n \in S : \A m \in S : n <= m
<1>1. PICK n \in S : \A m \in S : <<m, n>> \notin OpToRel(<, Nat)
  <2> HIDE DEF OpToRel
  <2> QED
    BY NatLessThanWellFounded, WFMin
<1>2. \A m \in S : ~(m < n)
  BY <1>1 DEF OpToRel
<1> QED
  BY <1>2

LEMMA GreatestNumber ==
  ASSUME NEW S \in SUBSET Nat, S # {}, NEW k \in Nat, \A n \in S : n <= k
  PROVE  \E n \in S : \A m \in S : m <= n
<1> DEFINE T == {k - n : n \in S}
<1>1. T \in SUBSET Nat /\ T # {}
  <2>1. \A n \in S : k - n \in Nat
    OBVIOUS
  <2>2. T \subseteq Nat
    BY <2>1
  <2>3. PICK n \in S : TRUE
    OBVIOUS
  <2>4. k - n \in T
    BY <2>3
  <2> QED
    BY <2>2, <2>4
<1>2. PICK t \in T : \A u \in T : t <= u
  BY <1>1, LeastNumber
<1>3. PICK n \in S : t = k - n
  BY <1>2
<1>4. \A m \in S : k - n <= k - m
  BY <1>2, <1>3
<1> QED
  BY <1>4

USE DEF At, Goto, Current, Finalize

\* WorkerOf is one of the row's workers, and the only one that may live.
LEMMA WorkerOfIsWorker ==
  ASSUME RecordsHeld, NEW a \in Attempt, Workers(a) # {}
  PROVE  WorkerOf(a) \in Workers(a) /\ \A c \in Workers(a) : c[2] <= WorkerOf(a)[2]
<1> DEFINE S == {b[2] : b \in Workers(a)}
<1>1. a[1] \in Run /\ AttemptLimit(a[1]) \in Nat
  BY RowIsAttempt, LimitIsPositive
<1>2. \A b \in Workers(a) : /\ b[1] = a[1] /\ b[2] \in Nat /\ b[2] <= AttemptLimit(a[1])
                            /\ b = <<b[1], b[2]>>
  <2> TAKE b \in Workers(a)
  <2>1. b \in Attempt /\ RowOf(b) = a /\ worker[b] # "absent"
    BY DEF Workers
  <2>2. b[1] \in Run /\ b[2] \in Number /\ b[1] = a[1] /\ b = <<b[1], b[2]>>
    BY <2>1, RowIsAttempt DEF Attempt
  <2> QED
    BY <2>1, <2>2, NumbersArePositive DEF RecordsHeld
<1>3. S \in SUBSET Nat /\ S # {} /\ \A n \in S : n <= AttemptLimit(a[1])
  BY <1>2
<1>4. PICK n \in S : \A m \in S : m <= n
  BY <1>1, <1>3, GreatestNumber
<1>5. \E b \in Workers(a) : \A c \in Workers(a) : c[2] <= b[2]
  BY <1>4
<1> QED
  BY <1>5 DEF WorkerOf

LEMMA OnlyLastLives ==
  ASSUME RecordsHeld, NEW a \in Attempt, ~Lives(a)
  PROVE  DeadRow(a)
<1> SUFFICES ASSUME NEW b \in Attempt, RowOf(b) = a, worker[b] # "absent",
                    proc[b] = "alive"
             PROVE  FALSE
  BY DEF DeadRow
<1>1. b \in Workers(a)
  BY DEF Workers
<1>2. WorkerOf(a) \in Workers(a) /\ b[2] <= WorkerOf(a)[2]
  BY <1>1, WorkerOfIsWorker
<1> DEFINE w == WorkerOf(a)
<1> HIDE DEF w
<1>3. /\ w \in Attempt /\ RowOf(w) = a /\ worker[w] # "absent" /\ b[2] <= w[2]
      /\ w[1] \in Run /\ w[2] \in Number /\ b[2] \in Number /\ w[1] = b[1]
      /\ w = <<w[1], w[2]>> /\ b = <<w[1], b[2]>>
  BY <1>2, RowIsAttempt DEF Workers, Attempt, w
<1>4. w[2] \in Nat /\ b[2] \in Nat /\ ~(w[2] > b[2])
  BY <1>3, NumbersArePositive DEF RecordsHeld
<1>5. b = w
  BY <1>3, <1>4
<1> QED
  BY <1>1, <1>5 DEF Lives, w

(***************************************************************************)
(* Scripts                                                                 *)
(***************************************************************************)

LEMMA EmptyScript ==
  /\ <<>> \in Seq(Write) /\ Len(<<>>) = 0
  /\ \A s \in Seq(Write) : Len(s) \in Nat /\ (s = <<>> <=> Len(s) = 0)
  BY EmptySeq, LenProperties

\* A script begins with the row of the worker only if there is one, and
\* always has the row of the attempt.
LEMMA ScriptWritten ==
  ASSUME HandTypes, NEW a \in Attempt, NEW s \in {"failed", "interrupted"},
         \/ Terminalize(a, s, <<"worker", "attempt", "run", "task">>)
         \/ Terminalize(a, s, <<"attempt", "worker", "run", "task">>)
  PROVE  /\ script' \in [Attempt -> Seq(Write)]
         /\ \A b \in Attempt \ {a} : script'[b] = script[b]
         /\ script'[a] # <<>> /\ \A b \in Attempt : Len(script'[b]) <= 4
         /\ \A i \in 1 .. Len(script'[a]) :
              /\ script'[a][i][1] = "worker" => Workers(a) # {}
              /\ script'[a][i][2] = s
         /\ \E i \in 1 .. Len(script'[a]) : script'[a][i][1] = "attempt"
<1>1. PICK rows \in {<<"attempt", "run", "task">>, <<"worker", "attempt", "run", "task">>,
                     <<"attempt", "worker", "run", "task">>} :
        /\ script' = [script EXCEPT ![a] = [i \in DOMAIN rows |-> <<rows[i], s>>]]
        /\ rows # <<"attempt", "run", "task">> => Workers(a) # {}
  BY DEF Terminalize
<1> DEFINE new == [i \in DOMAIN rows |-> <<rows[i], s>>]
<1>2. rows \in Seq(Table) /\ Len(rows) \in {3, 4} /\ DOMAIN rows = 1 .. Len(rows)
  <2>1. CASE rows = <<"attempt", "run", "task">>
    BY <2>1 DEF Table
  <2>2. CASE rows = <<"worker", "attempt", "run", "task">>
    BY <2>2 DEF Table
  <2>3. CASE rows = <<"attempt", "worker", "run", "task">>
    BY <2>3 DEF Table
  <2> QED
    BY <2>1, <2>2, <2>3
<1>3. new \in Seq(Write) /\ Len(new) = Len(rows)
  <2>1. \A i \in 1 .. Len(rows) : <<rows[i], s>> \in Write
    BY <1>2 DEF Write
  <2>2. new \in [1 .. Len(rows) -> Write]
    BY <1>2, <2>1
  <2> HIDE DEF new
  <2> QED
    BY <1>2, <2>2
<1>4. \A i \in 1 .. Len(rows) : new[i][1] = rows[i] /\ new[i][2] = s
  BY <1>2
<1>5. /\ \E i \in 1 .. Len(rows) : rows[i] = "attempt"
      /\ \A i \in 1 .. Len(rows) : rows[i] = "worker" => Workers(a) # {}
  <2>1. rows[1] = "attempt" \/ rows[2] = "attempt"
    BY <1>1
  <2>2. CASE rows = <<"attempt", "run", "task">>
    BY <2>2
  <2>3. CASE rows # <<"attempt", "run", "task">>
    BY <1>1, <1>2, <2>1, <2>3
  <2> QED
    BY <2>2, <2>3
<1>6. script'[a] = new /\ script \in [Attempt -> Seq(Write)]
  BY <1>1 DEF HandTypes
<1> HIDE DEF new
<1>7. script'[a] # <<>>
  <2>1. Len(new) # 0
    BY <1>2, <1>3
  <2>2. new # <<>>
    BY <2>1, EmptyScript, Zenon
  <2> QED
    BY <1>6, <2>2
<1>8. script' \in [Attempt -> Seq(Write)] /\ \A b \in Attempt \ {a} : script'[b] = script[b]
  BY <1>1, <1>3, <1>6
<1>9. Len(script'[a]) = Len(rows) /\ \A i \in 1 .. Len(rows) : script'[a][i] = new[i]
  BY <1>3, <1>6
<1>10. \A i \in 1 .. Len(script'[a]) : /\ script'[a][i][1] = "worker" => Workers(a) # {}
                                       /\ script'[a][i][2] = s
  BY <1>4, <1>5, <1>9
<1>11. \E i \in 1 .. Len(script'[a]) : script'[a][i][1] = "attempt"
  BY <1>4, <1>5, <1>9
<1>12. ASSUME NEW b \in Attempt PROVE Len(script'[b]) <= 4
  <2>1. CASE b = a
    BY <1>2, <1>9, <2>1, SMTT(30)
  <2>2. CASE b # a
    <3>1. Len(script[b]) <= 4 /\ script'[b] = script[b]
      BY <1>8, <2>2 DEF HandTypes
    <3> QED
      BY <3>1
  <2> QED
    BY <2>1, <2>2
<1> QED
  BY <1>7, <1>8, <1>10, <1>11, <1>12

\* What is left of a script once its first row is written.
LEMMA ScriptRest ==
  ASSUME HandTypes, NEW a \in Attempt, script[a] # <<>>,
         script' = [script EXCEPT ![a] = Tail(@)]
  PROVE  /\ script' \in [Attempt -> Seq(Write)]
         /\ \A b \in Attempt \ {a} : script'[b] = script[b]
         /\ Len(script[a]) \in Nat \ {0} /\ Len(script'[a]) = Len(script[a]) - 1
         /\ \A i \in 1 .. Len(script'[a]) : script'[a][i] = script[a][i + 1]
         /\ Head(script[a]) = script[a][1] /\ Head(script[a]) \in Write
<1>1. script \in [Attempt -> Seq(Write)] /\ script[a] \in Seq(Write)
  BY DEF HandTypes
<1> DEFINE old == script[a]
<1>2. old \in Seq(Write) /\ old # <<>>
  BY <1>1
<1>3. script'[a] = Tail(old)
  BY <1>1
<1> HIDE DEF old
<1>4. /\ Head(old) \in Write /\ Tail(old) \in Seq(Write) /\ Len(Tail(old)) = Len(old) - 1
      /\ \A i \in 1 .. Len(Tail(old)) : Tail(old)[i] = old[i + 1]
  BY <1>2, HeadTailProperties
<1>5. Len(old) \in Nat \ {0} /\ Head(old) = old[1]
  BY <1>2, EmptySeq
<1> USE DEF old
<1>6. script' \in [Attempt -> Seq(Write)] /\ \A b \in Attempt \ {a} : script'[b] = script[b]
  BY <1>1, <1>4
<1> QED
  BY <1>3, <1>4, <1>5, <1>6

(***************************************************************************)
(* The initial states, and runs that have not started                      *)
(***************************************************************************)

\* A run that has not started keeps what a run may rely on.
LEMMA FreshSafe ==
  ASSUME NEW r \in Run, pc[r] = "idle", Fresh(r)
  PROVE  RunInv(r) /\ OwnRows(r)
<1>1. \A n \in Number : ~(n < 1)
  BY NumbersArePositive
<1>2. RunInv(r)
  BY <1>1 DEF Fresh, RunInv, WorkerPlace, RowsClosed, VerdictHeld, OfferHeld, EndWritten,
     Ending
<1>3. OwnRows(r)
  BY <1>1 DEF Fresh, OwnRows, IsTerminal
<1> QED
  BY <1>2, <1>3

LEMMA InitRecovery == RecoveryInit => RecoveryInv
<1> SUFFICES ASSUME RecoveryInit PROVE RecoveryInv
  OBVIOUS
<1>1. TypeInv
  BY InitTypes DEF RecoveryInit
<1>2. HandTypes
  BY EmptyScript DEF RecoveryInit, HandTypes, NoScript
<1>3. \A r \in Run : pc[r] = "idle" /\ Fresh(r)
  BY Tuples DEF RecoveryInit, Init, StoreInit, Fresh
<1>4. \A r \in Run : OwnerInv(r)
  BY <1>3, FreshSafe DEF OwnerInv
<1>5. RecordsHeld
  BY Tuples DEF RecoveryInit, Init, StoreInit, RecordsHeld, ActiveAttempts
<1>6. NoInventedSuccess
  BY DEF RecoveryInit, Init, StoreInit, NoInventedSuccess
<1>7. HandHeld /\ ScriptHeld
  BY EmptyScript DEF RecoveryInit, HandHeld, ScriptHeld, InHand, NoScript
<1> QED
  BY <1>1, <1>2, <1>4, <1>5, <1>6, <1>7 DEF RecoveryInv

(***************************************************************************)
(* What the step of an owner leaves alone                                  *)
(***************************************************************************)

OwnerMove(r) == RunStep(r) \/ Quiescent(r) \/ Cancel(r)

OthersKept(r) ==
    /\ \A s \in Run \ {r} : /\ pc'[s] = pc[s] /\ num'[s] = num[s] /\ final'[s] = final[s]
                            /\ run'[s] = run[s] /\ task'[s] = task[s]
                            /\ candidate'[s] = candidate[s]
    /\ adopted' = adopted /\ adopting' = adopting
    /\ \A s \in Run \ {r}, n \in Number : /\ worker'[<<s, n>>] = worker[<<s, n>>]
                                          /\ proc'[<<s, n>>] = proc[<<s, n>>]

\* No row vanishes or becomes interrupted, and of the rows of other runs a C5
\* pass cancels some.
RowsGrow(r) ==
    \A a \in Attempt :
        /\ attempt[a] # "absent" => attempt'[a] # "absent"
        /\ attempt'[a] = "interrupted" => attempt[a] = "interrupted"
        /\ attempt'[a] \in {attempt[a], "cancelled"} \/ a[1] = r
        /\ a[1] # r /\ (a[1] \in Precreated \/ attempt[a] = "absent" \/ ~Visit(r))
             => attempt'[a] = attempt[a]

WorkersGrow(r) ==
    \A a \in Attempt :
        /\ worker[a] # "absent" => worker'[a] # "absent"
        /\ worker'[a] # "absent" => \/ worker[a] # "absent"
                                    \/ a = <<r, num[r]>> /\ pc[r] \in {"instruct", "mark"}

USE DEF TypeInv, TypeOK, StoreTypeOK, worldVars, storeVars, localVars

LEMMA OwnerKeepsOthers ==
  ASSUME TypeInv, NEW r \in Run, OwnerMove(r)
  PROVE  OthersKept(r)
<1> USE DEF OthersKept
<1>1. CASE Precreate(r) \/ ReadActive(r) \/ Visit(r) \/ Begin(r) \/ InitialWake(r)
  BY <1>1 DEF Precreate, ReadActive, Visit, Begin, InitialWake, CreateRunAndTask
<1>2. CASE Stopped(r) \/ CreateWorktree(r) \/ InsertAttempt(r)
  BY <1>2 DEF Stopped, CreateWorktree, InsertAttempt
<1>3. CASE StartWorker(r) \/ RecordWorker(r) \/ MarkWorker(r)
  BY <1>3, Tuples, CurrentIsAttempt
  DEF StartWorker, RecordWorker, RecordWorkerPID, MarkWorker, UpdateWorkerStatus, InAttempt
<1>4. CASE ObserveExit(r) \/ ObserveCancel(r) \/ Validate(r) \/ Cancel(r)
  BY <1>4 DEF ObserveExit, ObserveCancel, Validate, Cancel
<1>5. CASE Quiescent(r) \/ Recover(r)
  <2>1. proc' = [a \in Attempt |-> IF a \in {<<r, num[r]>>} /\ proc[a] = "alive"
                                     THEN "killed" ELSE proc[a]]
    BY <1>5 DEF Quiescent, Recover, Kill
  <2>2. \A s \in Run \ {r}, n \in Number : proc'[<<s, n>>] = proc[<<s, n>>]
    BY <2>1, Tuples
  <2> QED
    BY <1>5, <2>2 DEF Quiescent, Recover
<1>6. CASE Decide(r)
  BY <1>6 DEF Decide, Apply
<1>7. CASE Candidate(r) \/ Tombstone(r) \/ EndRun(r) \/ EndTask(r)
  BY <1>7 DEF Candidate, RecordCandidate, Tombstone, EndRun, UpdateRunStatus, EndTask,
     UpdateTaskStatus
<1>8. CASE CloseAttempts(r)
  <2> DEFINE mine == {<<r, n>> : n \in Tracked(r)}
  <2>1. \A s \in Run \ {r}, n \in Number : <<s, n>> \in Attempt /\ <<s, n>> \notin mine
    BY Tuples DEF Tracked
  <2>2. /\ proc' = [a \in Attempt |-> IF a \in mine /\ proc[a] = "alive"
                                        THEN "killed" ELSE proc[a]]
        /\ worker' = [a \in Attempt |-> IF a \in mine /\ ~IsTerminal(worker[a])
                                          THEN final[r] ELSE worker[a]]
    BY <1>8 DEF CloseAttempts, Kill
  <2> HIDE DEF mine
  <2>3. \A s \in Run \ {r}, n \in Number : /\ worker'[<<s, n>>] = worker[<<s, n>>]
                                           /\ proc'[<<s, n>>] = proc[<<s, n>>]
    BY <2>1, <2>2
  <2> QED
    BY <1>8, <2>3 DEF CloseAttempts
<1> QED
  BY <1>1, <1>2, <1>3, <1>4, <1>5, <1>6, <1>7, <1>8 DEF OwnerMove, RunStep

LEMMA OwnerGrowsWorkers ==
  ASSUME TypeInv, NEW r \in Run, OwnerMove(r)
  PROVE  WorkersGrow(r)
<1> USE DEF WorkersGrow
<1>1. CASE RecordWorker(r)
  BY <1>1, CurrentIsAttempt DEF RecordWorker, RecordWorkerPID, InAttempt
<1>2. CASE MarkWorker(r)
  BY <1>2, CurrentIsAttempt DEF MarkWorker, UpdateWorkerStatus, InAttempt
<1>3. CASE CloseAttempts(r)
  <2>1. ASSUME NEW a \in Attempt
        PROVE  worker'[a] = worker[a] \/ (worker'[a] # "absent" /\ worker[a] # "absent")
    BY <1>3, Tuples DEF CloseAttempts, Tracked
  <2> QED
    BY <2>1
<1>4. CASE ~RecordWorker(r) /\ ~MarkWorker(r) /\ ~CloseAttempts(r)
  <2>1. worker' = worker
    BY <1>4 DEF OwnerMove, RunStep, Precreate, ReadActive, Visit, Begin, InitialWake,
       Stopped, CreateWorktree, InsertAttempt, StartWorker, ObserveExit, ObserveCancel,
       Quiescent, Recover, Validate, Decide, Candidate, Tombstone, EndRun, EndTask, Cancel
  <2> QED
    BY <2>1
<1> QED
  BY <1>1, <1>2, <1>3, <1>4

LEMMA OwnerGrowsRows ==
  ASSUME TypeInv, NEW r \in Run, OwnerMove(r), \A a \in c5[r] : attempt[a] # "absent"
  PROVE  RowsGrow(r)
<1> USE DEF RowsGrow
<1>0. /\ \A n \in Number : RowOf(<<r, n>>)[1] = r
      /\ pc[r] \in InAttempt => num[r] \in Number
  BY CurrentIsAttempt DEF RowOf
<1>1. CASE Precreate(r)
  BY <1>1 DEF Precreate, CreateAttempt
<1>2. CASE Visit(r)
  BY <1>2 DEF Visit, UpdateAttemptStatus, WorktreeExists
<1>3. CASE InsertAttempt(r)
  BY <1>3, SMTT(30) DEF InsertAttempt, CreateAttempt
<1>4. CASE Validate(r)
  <2>1. PICK v \in {"completed", "failed"} : attempt' = [attempt EXCEPT ![Row(r)] = v]
    BY <1>4 DEF Validate, UpdateAttemptStatus
  <2>2. Row(r)[1] = r
    BY <1>0, <1>4 DEF Validate, InAttempt, Row
  <2> QED
    BY <2>1, <2>2
<1>5. CASE CloseAttempts(r)
  <2> DEFINE rows == {RowOf(a) : a \in {<<r, n>> : n \in Tracked(r)}}
  <2>1. attempt' = [a \in Attempt |-> IF a \in rows /\ ~IsTerminal(attempt[a])
                                        THEN final[r] ELSE attempt[a]]
    BY <1>5 DEF CloseAttempts
  <2>2. ASSUME NEW a \in rows PROVE a[1] = r
    <3>1. PICK n \in Tracked(r) : a = RowOf(<<r, n>>)
      OBVIOUS
    <3> QED
      BY <1>0, <3>1 DEF Tracked
  <2> HIDE DEF rows
  <2> QED
    BY <2>1, <2>2
<1>6. CASE ~(\/ Precreate(r) \/ Visit(r) \/ InsertAttempt(r) \/ Validate(r)
             \/ CloseAttempts(r))
  <2>1. attempt' = attempt
    BY <1>6 DEF OwnerMove, RunStep, ReadActive, Begin, InitialWake, Stopped,
       CreateWorktree, StartWorker, RecordWorker, ObserveExit, ObserveCancel, Quiescent,
       Recover, MarkWorker, Decide, Candidate, Tombstone, EndRun, EndTask, Cancel
  <2> QED
    BY <2>1
<1> QED
  BY <1>1, <1>2, <1>3, <1>4, <1>5, <1>6

(***************************************************************************)
(* What an owner may rely on                                               *)
(***************************************************************************)

LEMMA OtherOwner ==
  ASSUME TypeInv, NEW r \in Run, OwnerMove(r), pc[r] \notin {"done", "killed"},
         OwnerInv(r), \A a \in c5[r] : attempt[a] # "absent",
         NEW s \in Run \ {r}, OwnerInv(s)
  PROVE  OwnerInv(s)'
<1>1. OthersKept(r) /\ RowsGrow(r)
  BY OwnerKeepsOthers, OwnerGrowsRows
<1>2. /\ pc'[s] = pc[s] /\ num'[s] = num[s] /\ final'[s] = final[s]
      /\ run'[s] = run[s] /\ task'[s] = task[s] /\ candidate'[s] = candidate[s]
      /\ adopted'[s] = adopted[s] /\ adopting'[s] = adopting[s]
      /\ \A n \in Number : /\ worker'[<<s, n>>] = worker[<<s, n>>]
                           /\ proc'[<<s, n>>] = proc[<<s, n>>]
  BY <1>1 DEF OthersKept
<1>3. \A n \in Number : /\ attempt'[<<s, n>>] \in {attempt[<<s, n>>], "cancelled"}
                        /\ attempt[<<s, n>>] = "absent" => attempt'[<<s, n>>] = "absent"
  BY <1>1, Tuples DEF RowsGrow
<1>4. pc[s] = "idle" => Fresh(s)'
  BY <1>2, <1>3 DEF OwnerInv, Fresh
<1>5. ASSUME pc[s] \notin {"done", "killed"} PROVE RunInv(s)' /\ OwnRows(s)'
  <2>1. RunInv(s)'
    BY <1>5, RunSafe DEF OwnerInv, OwnerMove, UserStep
  <2>2. RowOf(<<s, num[s]>>) = (IF s \in Precreated THEN <<s, 1>> ELSE <<s, num[s]>>)
        /\ \A n \in Number : RowOf(<<s, n>>) = (IF s \in Precreated THEN <<s, 1>> ELSE <<s, n>>)
    BY DEF RowOf
  <2>3. /\ pc[s] \in InAttempt => num[s] \in Number
        /\ final[s] = "completed" => num[s] \in Number
        /\ 1 \in Number
    BY <1>5, CurrentIsAttempt, FirstAttempt DEF OwnerInv, RunInv, VerdictHeld
  <2>4. OwnRows(s)
    BY <1>5 DEF OwnerInv
  <2>5. \A n \in Number : IsTerminal(attempt[<<s, n>>]) => IsTerminal(attempt'[<<s, n>>])
    BY <1>3 DEF IsTerminal
  <2>6. OwnRows(s)'
    BY <1>2, <1>3, <2>2, <2>3, <2>4, <2>5 DEF OwnRows, Row, InAttempt
  <2> QED
    BY <2>1, <2>6
<1> QED
  BY <1>2, <1>4, <1>5 DEF OwnerInv

\* The steps that write no attempt row, no worker row and no number.
LEMMA SelfPlain ==
  ASSUME TypeInv, NEW r \in Run, RunInv(r), OwnRows(r),
         \/ ReadActive(r) \/ Begin(r) \/ InitialWake(r) \/ Stopped(r) \/ CreateWorktree(r)
         \/ StartWorker(r) \/ ObserveExit(r) \/ ObserveCancel(r) \/ Quiescent(r)
         \/ Recover(r) \/ Candidate(r) \/ Tombstone(r) \/ EndRun(r) \/ Cancel(r)
  PROVE  OwnRows(r)'
<1>1. UNCHANGED <<attempt, worker, num>>
  BY DEF ReadActive, Begin, InitialWake, Stopped, CreateWorktree, StartWorker,
     ObserveExit, ObserveCancel, Quiescent, Recover, Candidate, Tombstone, EndRun, Cancel
<1>2. final'[r] = "completed" => final[r] = "completed"
  BY DEF ReadActive, Begin, InitialWake, Stopped, CreateWorktree, StartWorker,
     ObserveExit, ObserveCancel, Quiescent, Recover, Candidate, Tombstone, EndRun, Cancel
<1>3. /\ pc'[r] \notin {"mark", "decide"}
         \/ pc'[r] = pc[r]
      /\ pc'[r] = "candidate" => pc[r] = "candidate"
      /\ pc'[r] \in {"observe", "recover", "validate"} =>
           pc[r] \in {"observe", "recover", "validate"}
  BY DEF ReadActive, Begin, InitialWake, Stopped, CreateWorktree, StartWorker,
     ObserveExit, ObserveCancel, Quiescent, Recover, Candidate, Tombstone, EndRun, Cancel
<1>4. \/ pc'[r] = "endTask"
      \/ run'[r] = "pending"
      \/ run'[r] = run[r] /\ pc[r] # "endTask"
  BY DEF ReadActive, Begin, InitialWake, Stopped, CreateWorktree, StartWorker,
     ObserveExit, ObserveCancel, Quiescent, Recover, Candidate, Tombstone, EndRun, Cancel,
     CreateRunAndTask
<1> QED
  BY <1>1, <1>2, <1>3, <1>4 DEF OwnRows, Row

LEMMA SelfStarts ==
  ASSUME TypeInv, NEW r \in Run, OwnerInv(r), \A a \in c5[r] : attempt[a] # "absent",
         Precreate(r) \/ Visit(r) \/ InsertAttempt(r) \/ RecordWorker(r)
  PROVE  OwnRows(r)'
<1>0. /\ \A n \in Number : RowOf(<<r, n>>) = IF r \in Precreated THEN <<r, 1>> ELSE <<r, n>>
      /\ Row(r) = IF r \in Precreated THEN <<r, 1>> ELSE <<r, num[r]>>
      /\ 1 \in Number
  BY FirstAttempt DEF RowOf, Row
<1>1. CASE Precreate(r)
  <2>1. Fresh(r) /\ RunInv(r)
    BY <1>1 DEF Precreate, OwnerInv
  <2>2. /\ num' = num /\ final' = final /\ worker' = worker /\ run'[r] = "pending"
        /\ pc'[r] = "run"
        /\ attempt' = [attempt EXCEPT ![<<r, 1>>] = "pending"]
    BY <1>1 DEF Precreate, CreateRunAndTask, CreateAttempt
  <2>3. \A n \in Number : n \in Nat \ {0} /\ <<r, n>> \in Attempt
    BY NumbersArePositive, Tuples
  <2>4. r \in Precreated
    BY <1>1 DEF Precreate
  <2> QED
    BY <1>0, <2>1, <2>2, <2>3, <2>4, Tuples DEF OwnRows, Fresh
<1>2. CASE Visit(r)
  <2>1. /\ UNCHANGED <<run, worker, pc, num, final>> /\ pc[r] = "c5"
        /\ \A a \in Attempt : /\ attempt'[a] \in {attempt[a], "cancelled"}
                              /\ attempt[a] = "absent" => attempt'[a] = "absent"
    BY <1>2 DEF Visit, UpdateAttemptStatus
  <2>2. OwnRows(r) /\ final[r] # "completed"
    BY <2>1 DEF OwnerInv, RunInv, VerdictHeld, Ending
  <2> QED
    BY <1>0, <2>1, <2>2, Tuples DEF OwnRows, IsTerminal
<1>3. CASE InsertAttempt(r)
  <2>1. /\ UNCHANGED <<run, worker, num, final>> /\ pc[r] = "row" /\ pc'[r] = "worker"
        /\ attempt' = IF r \in Precreated THEN attempt
                        ELSE [attempt EXCEPT ![<<r, num[r]>>] = "pending"]
    BY <1>3 DEF InsertAttempt, CreateAttempt
  <2>2. OwnRows(r) /\ final[r] # "completed" /\ num[r] \in Number
    BY <2>1, CurrentIsAttempt DEF OwnerInv, RunInv, VerdictHeld, Ending, InAttempt
  <2>3. \A n \in Number : n \in Nat
    BY NumbersArePositive
  <2> QED
    BY <1>0, <2>1, <2>2, <2>3, Tuples DEF OwnRows
<1>4. CASE RecordWorker(r)
  <2>1. /\ UNCHANGED <<run, attempt, num, final>> /\ pc[r] = "instruct" /\ pc'[r] = "observe"
        /\ worker' = [worker EXCEPT ![<<r, num[r]>>] = "running"]
    BY <1>4 DEF RecordWorker, RecordWorkerPID
  <2>2. OwnRows(r) /\ final[r] # "completed" /\ num[r] \in Number
    BY <2>1, CurrentIsAttempt DEF OwnerInv, RunInv, VerdictHeld, Ending, InAttempt
  <2>3. \A n \in Number : n \in Nat
    BY NumbersArePositive
  <2> QED
    BY <1>0, <2>1, <2>2, <2>3, Tuples DEF OwnRows
<1> QED
  BY <1>1, <1>2, <1>3, <1>4

\* Every attempt but the current one is decided before the next is begun, and
\* with a COMPLETE the current one is, too: finalizeTerminal finds none open.
LEMMA SelfDecides ==
  ASSUME TypeInv, NEW r \in Run, RunInv(r), OwnRows(r),
         Validate(r) \/ MarkWorker(r) \/ Decide(r) \/ CloseAttempts(r)
  PROVE  OwnRows(r)'
<1>0. /\ \A n \in Number : RowOf(<<r, n>>) = IF r \in Precreated THEN <<r, 1>> ELSE <<r, n>>
      /\ Row(r) = IF r \in Precreated THEN <<r, 1>> ELSE <<r, num[r]>>
      /\ 1 \in Number
  BY FirstAttempt DEF RowOf, Row
<1>9. \A n \in Number : n \in Nat /\ <<r, n>> \in Attempt
  BY NumbersArePositive, Tuples
<1>1. CASE Validate(r)
  <2>1. PICK v \in {"completed", "failed"} : attempt' = [attempt EXCEPT ![Row(r)] = v]
    BY <1>1 DEF Validate, UpdateAttemptStatus
  <2>2. UNCHANGED <<run, worker, num, final>> /\ pc[r] = "validate" /\ pc'[r] = "mark"
    BY <1>1 DEF Validate
  <2>3. final[r] # "completed" /\ num[r] \in Number
    BY <2>2, CurrentIsAttempt DEF RunInv, VerdictHeld, Ending, InAttempt
  <2>4. \A n \in Number : \/ attempt'[<<r, n>>] = attempt[<<r, n>>]
                          \/ <<r, n>> = Row(r) /\ attempt'[<<r, n>>] = v
    BY <1>9, <2>1
  <2>5. attempt'[Row(r)] = v /\ Row(r)' = Row(r)
    BY <1>0, <1>9, <2>1, <2>2, <2>3 DEF Row
  <2>6. \A n \in Number : <<r, n>> = Row(r) => n = 1 \/ (r \notin Precreated /\ n = num[r])
    BY <1>0, <2>3, Tuples
  <2>7. \A n \in Number : IsTerminal(attempt[RowOf(<<r, n>>)]) => IsTerminal(attempt'[RowOf(<<r, n>>)])
    BY <1>0, <2>1, <2>4 DEF IsTerminal
  <2> QED
    BY <1>9, <2>2, <2>3, <2>4, <2>5, <2>6, <2>7 DEF OwnRows, IsTerminal
<1>2. CASE MarkWorker(r)
  <2>1. PICK v \in {"completed", "failed"} : worker' = [worker EXCEPT ![<<r, num[r]>>] = v]
    BY <1>2 DEF MarkWorker, UpdateWorkerStatus
  <2>2. UNCHANGED <<run, attempt, num, final>> /\ pc[r] = "mark" /\ pc'[r] = "decide"
    BY <1>2 DEF MarkWorker
  <2>3. final[r] # "completed" /\ num[r] \in Number
    BY <2>2, CurrentIsAttempt DEF RunInv, VerdictHeld, Ending, InAttempt
  <2>4. \A n \in Number : n > num[r] => worker'[<<r, n>>] = worker[<<r, n>>]
    BY <1>9, <2>1, <2>3, Tuples
  <2>5. worker'[<<r, num[r]>>] = v /\ Row(r)' = Row(r)
    BY <1>9, <2>1, <2>2, <2>3 DEF Row
  <2> QED
    BY <2>2, <2>3, <2>4, <2>5 DEF OwnRows
<1>3. CASE Decide(r)
  <2>1. PICK d \in Decisions(r) : Apply(r, d)
    BY <1>3 DEF Decide
  <2>2. UNCHANGED <<run, attempt, worker>> /\ pc[r] = "decide"
    BY <1>3 DEF Decide
  <2>3. num[r] \in Number
    BY <2>2, CurrentIsAttempt DEF InAttempt
  <2>4. CASE pc'[r] = "loop"
    <3>1. num'[r] = num[r] + 1 /\ final'[r] = final[r] /\ final[r] # "completed"
      BY <2>1, <2>2, <2>4 DEF Apply, RunInv, VerdictHeld, Ending
    <3>2. \A n \in Number : /\ n < num[r] + 1 => n < num[r] \/ n = num[r]
                            /\ n > num[r] + 1 => n > num[r]
      <4>1. \A k, n \in Nat : /\ n < k + 1 => n < k \/ n = k
                             /\ n > k + 1 => n > k
        OBVIOUS
      <4> TAKE n \in Number
      <4>2. n \in Nat /\ num[r] \in Nat
        BY <1>9, <2>3
      <4> QED
        BY <4>1, <4>2
    <3>3. \A n \in Number : n < num[r] + 1 => IsTerminal(attempt[RowOf(<<r, n>>)])
      BY <2>2, <3>2 DEF OwnRows, Row
    <3> QED
      BY <2>2, <2>4, <3>1, <3>2, <3>3 DEF OwnRows
  <2>5. CASE pc'[r] # "loop"
    <3>1. num' = num /\ pc'[r] \in {"candidate", "tombstone"}
      BY <2>1, <2>5 DEF Apply
    <3>2. IsTerminal(worker[<<r, num[r]>>])
      BY <2>2 DEF RunInv, RowsClosed
    <3> QED
      BY <2>2, <3>1, <3>2 DEF OwnRows, Row
  <2> QED
    BY <2>4, <2>5
<1>4. CASE CloseAttempts(r)
  <2> DEFINE mine == {<<r, n>> : n \in Tracked(r)}
             rows == {RowOf(a) : a \in mine}
  <2>1. /\ attempt' = [a \in Attempt |-> IF a \in rows /\ ~IsTerminal(attempt[a])
                                           THEN final[r] ELSE attempt[a]]
        /\ worker' = [a \in Attempt |-> IF a \in mine /\ ~IsTerminal(worker[a])
                                          THEN final[r] ELSE worker[a]]
    BY <1>4 DEF CloseAttempts
  <2>2. UNCHANGED <<run, num, final>> /\ pc[r] = "close" /\ pc'[r] = "endRun"
    BY <1>4 DEF CloseAttempts
  <2>3. final[r] \in {"completed", "failed", "cancelled"}
    OBVIOUS
  <2>20. \A n \in Tracked(r) : n \in Number /\ ~(n > num[r])
    BY DEF OwnRows, Tracked
  <2>21. \A n \in Number : <<r, n>> \in mine => n \in Tracked(r)
    BY <2>20, Tuples
  <2>22. \A n \in Number : <<r, n>> \in rows =>
           IF r \in Precreated THEN n = 1 ELSE n \in Tracked(r)
    <3> SUFFICES ASSUME NEW n \in Number, <<r, n>> \in rows
                 PROVE  IF r \in Precreated THEN n = 1 ELSE n \in Tracked(r)
      OBVIOUS
    <3>1. PICK m \in Tracked(r) : <<r, n>> = RowOf(<<r, m>>)
      OBVIOUS
    <3>2. m \in Number
      BY <2>20
    <3> HIDE DEF mine, rows
    <3> QED
      BY <1>0, <3>1, <3>2, Tuples
  <2>4. \A n \in Number : n > num[r] => /\ <<r, n>> \notin mine
                                        /\ r \notin Precreated => <<r, n>> \notin rows
    BY <2>20, <2>21, <2>22
  <2>5. r \in Precreated => \A n \in Number \ {1} : <<r, n>> \notin rows
    BY <2>22
  <2>6. \A a \in Attempt : /\ IsTerminal(attempt[a]) => attempt'[a] = attempt[a]
                           /\ attempt'[a] \in {attempt[a], final[r]}
                           /\ IsTerminal(worker[a]) => worker'[a] = worker[a]
    BY <2>1
  <2>7. \A n \in Number : n > num[r] => /\ worker'[<<r, n>>] = worker[<<r, n>>]
                                        /\ r \notin Precreated =>
                                             attempt'[<<r, n>>] = attempt[<<r, n>>]
    BY <1>9, <2>1, <2>4
  <2>8. r \in Precreated => \A n \in Number \ {1} : attempt'[<<r, n>>] = attempt[<<r, n>>]
    BY <1>9, <2>1, <2>5
  <2> HIDE DEF mine, rows
  <2>9. Row(r)' = Row(r)
    BY <2>2 DEF Row
  <2>10. final[r] = "completed" => num[r] \in Number
    BY DEF RunInv, VerdictHeld
  <2>11. \A n \in Number : n < num[r] => IsTerminal(attempt'[RowOf(<<r, n>>)])
    BY <1>0, <1>9, <2>6 DEF OwnRows
  <2>12. \A n \in Number : attempt'[<<r, n>>] # "interrupted"
    BY <1>9, <2>3, <2>6 DEF OwnRows
  <2>13. final[r] = "completed" => /\ IsTerminal(attempt'[Row(r)])
                                   /\ IsTerminal(worker'[<<r, num[r]>>])
    BY <1>0, <1>9, <2>6, <2>10 DEF OwnRows
  <2> QED
    BY <2>2, <2>7, <2>8, <2>9, <2>11, <2>12, <2>13 DEF OwnRows
<1> QED
  BY <1>1, <1>2, <1>3, <1>4

LEMMA SelfOwner ==
  ASSUME TypeInv, NEW r \in Run, OwnerMove(r), pc[r] \notin {"done", "killed"},
         OwnerInv(r), \A a \in c5[r] : attempt[a] # "absent"
  PROVE  /\ OwnerInv(r)'
         /\ pc'[r] # "done" => OwnRows(r)'
         /\ RunInv(r)'
<1>1. RunInv(r) /\ OwnRows(r)
  BY DEF OwnerInv
<1>2. RunInv(r)'
  BY <1>1, RunSafe DEF OwnerMove, UserStep
<1>3. pc'[r] # "done" => OwnRows(r)'
  <2>1. EndTask(r) => pc'[r] = "done"
    BY DEF EndTask
  <2> QED
    BY <1>1, <2>1, SelfPlain, SelfStarts, SelfDecides DEF OwnerMove, RunStep
<1>4. pc'[r] # "idle"
  BY DEF OwnerMove, RunStep, Precreate, ReadActive, Visit, Begin, InitialWake, Stopped,
     CreateWorktree, InsertAttempt, StartWorker, RecordWorker, ObserveExit, ObserveCancel,
     Quiescent, Recover, Validate, MarkWorker, Decide, Apply, Candidate, Tombstone,
     CloseAttempts, EndRun, EndTask, Cancel
<1> QED
  BY <1>2, <1>3, <1>4 DEF OwnerInv

(***************************************************************************)
(* The records after a step of an owner                                    *)
(***************************************************************************)

LEMMA OwnerRecords ==
  ASSUME TypeInv, NEW r \in Run, OwnerMove(r), pc[r] \notin {"done", "killed"},
         \A s \in Run : OwnerInv(s), RecordsHeld
  PROVE  RecordsHeld'
<1>0. \A a \in c5[r] : attempt[a] # "absent"
  BY DEF RecordsHeld
<1>1. OthersKept(r) /\ RowsGrow(r) /\ WorkersGrow(r)
  BY <1>0, OwnerKeepsOthers, OwnerGrowsRows, OwnerGrowsWorkers
<1>2. RunInv(r) /\ OwnRows(r) /\ RunInv(r)' /\ (pc'[r] # "done" => OwnRows(r)')
  BY <1>0, SelfOwner DEF OwnerInv
<1>3. EndTask(r) => UNCHANGED <<proc, worker, run, attempt, num>> /\ pc[r] = "endTask"
  BY DEF EndTask
<1>4. pc'[r] = "done" => EndTask(r)
  BY DEF OwnerMove, RunStep, Precreate, ReadActive, Visit, Begin, InitialWake, Stopped,
     CreateWorktree, InsertAttempt, StartWorker, RecordWorker, ObserveExit, ObserveCancel,
     Quiescent, Recover, Validate, MarkWorker, Decide, Apply, Candidate, Tombstone,
     CloseAttempts, EndRun, Cancel
<1>5. \A s \in Run, m \in Number, n \in Number :
        proc'[<<s, n>>] = "alive" /\ m > n => worker'[<<s, m>>] = "absent"
  <2>1. ASSUME NEW s \in Run \ {r}, NEW m \in Number, NEW n \in Number,
               proc'[<<s, n>>] = "alive", m > n
        PROVE  worker'[<<s, m>>] = "absent"
    BY <1>1, <2>1 DEF OthersKept, RecordsHeld
  <2>2. ASSUME NEW m \in Number, NEW n \in Number, proc'[<<r, n>>] = "alive", m > n
        PROVE  worker'[<<r, m>>] = "absent"
    <3>1. CASE pc'[r] = "done"
      BY <1>3, <1>4, <2>2, <3>1 DEF RecordsHeld
    <3>2. CASE pc'[r] # "done"
      BY <1>2, <2>2, <3>2 DEF RunInv, WorkerPlace, OwnRows
    <3> QED
      BY <3>1, <3>2
  <2> QED
    BY <2>1, <2>2
<1>6. \A s \in Run, n \in Number : worker'[<<s, n>>] # "absent" => n <= AttemptLimit(s)
  <2> SUFFICES ASSUME NEW s \in Run, NEW n \in Number, worker'[<<s, n>>] # "absent"
               PROVE  n <= AttemptLimit(s)
    OBVIOUS
  <2>1. \/ worker[<<s, n>>] # "absent"
        \/ s = r /\ n = num[r] /\ pc[r] \in {"instruct", "mark"}
    BY <1>1, Tuples DEF WorkersGrow
  <2> QED
    BY <2>1 DEF RecordsHeld, TypeInv, WithinLimit, InAttempt
<1>7. \A a \in Attempt : Workers(a) \subseteq Workers(a)'
  BY <1>1 DEF WorkersGrow, Workers
<1>8. \A a \in checkpoint' : Workers(a)' # {}
  <2>1. checkpoint \subseteq Attempt
    OBVIOUS
  <2>2. CASE Recover(r)
    <3>1. /\ checkpoint' \subseteq checkpoint \cup {Row(r)} /\ pc[r] = "recover"
      BY <2>2 DEF Recover, UpdateAttemptCheckpoint
    <3>2. <<r, num[r]>> \in Attempt
      BY <3>1, CurrentIsAttempt DEF InAttempt
    <3>3. <<r, num[r]>> \in Workers(Row(r)) /\ Row(r) \in Attempt
      BY <1>2, <3>1, <3>2, RowIsAttempt DEF OwnRows, Workers, Row
    <3> QED
      BY <1>7, <2>1, <3>1, <3>3 DEF RecordsHeld
  <2>3. CASE ~Recover(r)
    <3>1. checkpoint' = checkpoint
      BY <2>3 DEF OwnerMove, RunStep, Precreate, ReadActive, Visit, Begin, InitialWake,
         Stopped, CreateWorktree, InsertAttempt, StartWorker, RecordWorker, ObserveExit,
         ObserveCancel, Quiescent, Validate, MarkWorker, Decide, Candidate, Tombstone,
         CloseAttempts, EndRun, EndTask, Cancel
    <3> QED
      BY <1>7, <2>1, <3>1 DEF RecordsHeld
  <2> QED
    BY <2>2, <2>3
<1>9. ASSUME NEW a \in Attempt, attempt'[a] = "interrupted" PROVE DeadRow(a)'
  <2>1. attempt[a] = "interrupted" /\ a[1] \in Run /\ a[1] # r
    BY <1>1, <1>2, <1>9, RowIsAttempt DEF RowsGrow, OwnRows, Attempt
  <2>2. ASSUME NEW b \in Attempt, RowOf(b) = a, worker'[b] # "absent" PROVE proc'[b] # "alive"
    <3>1. b[1] \in Run \ {r} /\ b[2] \in Number /\ b = <<b[1], b[2]>>
      BY <2>1, <2>2, RowIsAttempt DEF Attempt
    <3>2. worker'[b] = worker[b] /\ proc'[b] = proc[b]
      BY <1>1, <3>1 DEF OthersKept
    <3>3. DeadRow(a)
      BY <2>1 DEF RecordsHeld
    <3> QED
      BY <2>2, <3>2, <3>3 DEF DeadRow
  <2> QED
    BY <2>2 DEF DeadRow, RowOf
<1>10. ASSUME NEW a \in ActiveAttempts' PROVE run'[a[1]] # "completed"
  <2>1. a \in Attempt /\ attempt'[a] \in {"pending", "running"}
        /\ a[1] \in Run /\ a[2] \in Number /\ a = <<a[1], a[2]>>
    BY <1>10, RowIsAttempt DEF ActiveAttempts, Attempt
  <2>2. CASE a[1] # r
    BY <1>1, <2>1, <2>2 DEF RowsGrow, OthersKept, RecordsHeld, ActiveAttempts
  <2>3. CASE a[1] = r /\ pc'[r] = "done"
    BY <1>3, <1>4, <2>1, <2>3 DEF RecordsHeld, ActiveAttempts
  <2>4. CASE a[1] = r /\ pc'[r] \notin {"done", "endTask"}
    BY <1>2, <2>4 DEF OwnRows
  <2>5. CASE a[1] = r /\ pc'[r] = "endTask"
    <3>1. \A n \in Number : attempt'[<<r, n>>] \in {"pending", "running"} => final'[r] # "completed"
      <4> SUFFICES ASSUME NEW n \in Number, final'[r] = "completed"
                   PROVE  attempt'[<<r, n>>] \notin {"pending", "running"}
        OBVIOUS
      <4>1. OwnRows(r)' /\ num'[r] \in Number
        BY <1>2, <2>5 DEF RunInv, VerdictHeld
      <4>2. /\ IsTerminal(attempt'[RowOf(<<r, num'[r]>>)])
            /\ n < num'[r] => IsTerminal(attempt'[RowOf(<<r, n>>)])
            /\ n > num'[r] /\ r \notin Precreated => attempt'[<<r, n>>] = "absent"
            /\ r \in Precreated /\ n # 1 => attempt'[<<r, n>>] = "absent"
        BY <4>1 DEF OwnRows, Row, RowOf
      <4>3. n \in Nat /\ num'[r] \in Nat
        BY <4>1, NumbersArePositive
      <4> QED
        BY <4>2, <4>3 DEF RowOf, IsTerminal
    <3>2. run'[r] = final'[r]
      BY <1>2, <2>5 DEF RunInv, EndWritten
    <3> QED
      BY <2>1, <2>5, <3>1, <3>2
  <2> QED
    BY <2>2, <2>3, <2>4, <2>5
<1>11. ASSUME NEW s \in Run, NEW a \in c5'[s] PROVE attempt'[a] # "absent"
  <2>1. \/ a \in c5[s]
        \/ attempt' = attempt /\ a \in ActiveAttempts
    <3>1. CASE ReadActive(r)
      BY <1>11, <3>1 DEF ReadActive
    <3>2. CASE Visit(r)
      <4>1. c5'[s] \subseteq c5[s]
        BY <3>2 DEF Visit
      <4> QED
        BY <1>11, <4>1
    <3>3. CASE ~ReadActive(r) /\ ~Visit(r)
      <4>1. c5' = c5
        BY <3>3 DEF OwnerMove, RunStep, Precreate, Begin, InitialWake, Stopped,
           CreateWorktree, InsertAttempt, StartWorker, RecordWorker, ObserveExit,
           ObserveCancel, Quiescent, Recover, Validate, MarkWorker, Decide, Candidate,
           Tombstone, CloseAttempts, EndRun, EndTask, Cancel
      <4> QED
        BY <1>11, <4>1
    <3> QED
      BY <3>1, <3>2, <3>3
  <2>2. a \in Attempt
    BY <2>1 DEF ActiveAttempts
  <2> QED
    BY <1>1, <2>1, <2>2 DEF RowsGrow, RecordsHeld, ActiveAttempts
<1> QED
  BY <1>5, <1>6, <1>8, <1>9, <1>10, <1>11 DEF RecordsHeld

\* finalizeTerminal closes nothing as completed that was not accepted.
LEMMA OwnerInvents ==
  ASSUME TypeInv, NEW r \in Run, OwnerMove(r), pc[r] \notin {"done", "killed"},
         OwnerInv(r), \A a \in c5[r] : attempt[a] # "absent", NoInventedSuccess
  PROVE  NoInventedSuccess'
<1>1. RunInv(r) /\ OwnRows(r) /\ OthersKept(r) /\ RunInv(r)'
  BY OwnerKeepsOthers, SelfOwner DEF OwnerInv
<1>2. accepted \subseteq accepted' /\ effects \subseteq effects'
  BY DEF OwnerMove, RunStep, Precreate, ReadActive, Visit, Begin, InitialWake,
     Stopped, CreateWorktree, InsertAttempt, StartWorker, RecordWorker, ObserveExit,
     ObserveCancel, Quiescent, Recover, Validate, MarkWorker, Decide, Candidate,
     Tombstone, CloseAttempts, EndRun, EndTask, Cancel
<1>3. ASSUME NEW a \in Attempt, attempt'[a] = "completed", attempt[a] # "completed"
      PROVE  \E b \in accepted' : RowOf(b) = a
  <2>1. CASE Validate(r)
    <3>1. PICK ok \in BOOLEAN :
            /\ accepted' = IF ok THEN accepted \cup {<<r, num[r]>>} ELSE accepted
            /\ attempt' = [attempt EXCEPT ![Row(r)] =
                             IF ok /\ ExitCodeZero(r) THEN "completed" ELSE "failed"]
      BY <2>1 DEF Validate, UpdateAttemptStatus
    <3> QED
      BY <1>3, <3>1 DEF Row
  <2>2. CASE CloseAttempts(r)
    <3> DEFINE rows == {RowOf(b) : b \in {<<r, n>> : n \in Tracked(r)}}
    <3>1. /\ attempt' = [b \in Attempt |-> IF b \in rows /\ ~IsTerminal(attempt[b])
                                             THEN final[r] ELSE attempt[b]]
      BY <2>2 DEF CloseAttempts
    <3>2. final[r] = "completed" /\ a \in rows /\ ~IsTerminal(attempt[a])
      BY <1>3, <3>1
    <3>3. PICK n \in Tracked(r) : a = RowOf(<<r, n>>)
      BY <3>2
    <3>4. n \in Number /\ ~(n > num[r]) /\ num[r] \in Number /\ n \in Nat /\ num[r] \in Nat
      BY <1>1, <3>2, <3>3, NumbersArePositive DEF Tracked, OwnRows, RunInv, VerdictHeld
    <3>5. n < num[r] \/ n = num[r]
      BY <3>4
    <3> QED
      BY <1>1, <3>2, <3>3, <3>4, <3>5 DEF OwnRows, Row
  <2>3. CASE ~Validate(r) /\ ~CloseAttempts(r)
    <3>1. attempt' = attempt \/ \E b \in Attempt, s \in {"pending", "cancelled"} :
                                   attempt' = [attempt EXCEPT ![b] = s]
      <4>1. CASE Precreate(r)
        BY <4>1, FirstAttempt DEF Precreate, CreateAttempt
      <4>2. CASE Visit(r)
        BY <4>2 DEF Visit, UpdateAttemptStatus
      <4>3. CASE InsertAttempt(r)
        BY <4>3, CurrentIsAttempt DEF InsertAttempt, CreateAttempt, InAttempt
      <4>4. CASE ~Precreate(r) /\ ~Visit(r) /\ ~InsertAttempt(r)
        BY <2>3, <4>4 DEF OwnerMove, RunStep, ReadActive, Begin, InitialWake, Stopped,
           CreateWorktree, StartWorker, RecordWorker, ObserveExit, ObserveCancel,
           Quiescent, Recover, MarkWorker, Decide, Candidate, Tombstone, EndRun, EndTask,
           Cancel
      <4> QED
        BY <4>1, <4>2, <4>3, <4>4
    <3> QED
      BY <1>3, <3>1
  <2> QED
    BY <2>1, <2>2, <2>3
<1>4. ASSUME NEW a \in Attempt, worker'[a] = "completed", worker[a] # "completed"
      PROVE  a \in accepted'
  <2>1. CASE MarkWorker(r)
    <3>1. pc[r] = "mark" /\ worker' = [worker EXCEPT ![<<r, num[r]>>] =
                              IF passed[r] /\ ExitCodeZero(r) THEN "completed" ELSE "failed"]
      BY <2>1 DEF MarkWorker, UpdateWorkerStatus
    <3> QED
      BY <1>1, <1>2, <1>4, <3>1 DEF RunInv, VerdictHeld
  <2>2. CASE CloseAttempts(r)
    <3>1. final[r] = "completed" /\ a \in {<<r, n>> : n \in Tracked(r)} /\ ~IsTerminal(worker[a])
      BY <1>4, <2>2 DEF CloseAttempts
    <3>2. PICK n \in Tracked(r) : a = <<r, n>>
      BY <3>1
    <3>3. n \in Number /\ ~(n > num[r]) /\ num[r] \in Number /\ n \in Nat /\ num[r] \in Nat
      BY <1>1, <3>1, <3>2, NumbersArePositive DEF Tracked, OwnRows, RunInv, VerdictHeld
    <3>4. n < num[r] \/ n = num[r]
      BY <3>3
    <3> QED
      BY <1>1, <3>1, <3>2, <3>3, <3>4 DEF OwnRows, RunInv, RowsClosed
  <2>3. CASE ~MarkWorker(r) /\ ~CloseAttempts(r)
    <3>1. worker' = worker \/ worker' = [worker EXCEPT ![<<r, num[r]>>] = "running"]
      BY <2>3 DEF OwnerMove, RunStep, Precreate, ReadActive, Visit, Begin, InitialWake,
         Stopped, CreateWorktree, InsertAttempt, StartWorker, RecordWorker,
         RecordWorkerPID, ObserveExit, ObserveCancel, Quiescent, Recover, Validate,
         Decide, Candidate, Tombstone, EndRun, EndTask, Cancel
    <3> QED
      BY <1>4, <3>1
  <2> QED
    BY <2>1, <2>2, <2>3
<1>5. ASSUME NEW s \in Run, "completed" \in {run'[s], task'[s]},
             "completed" \notin {run[s], task[s]}
      PROVE  \E n \in Number : <<s, n, "COMPLETE">> \in effects'
  <2>1. s = r
    BY <1>1, <1>5 DEF OthersKept
  <2>2. final'[r] = "completed"
    <3>1. \/ UNCHANGED <<run, task>> 
          \/ run'[r] = "pending" /\ task'[r] = "pending"
          \/ run'[r] \in {run[r], final[r]} /\ task'[r] \in {task[r], final[r]} /\ final' = final
      BY DEF OwnerMove, RunStep, Precreate, ReadActive, Visit, Begin, InitialWake, Stopped,
         CreateWorktree, InsertAttempt, StartWorker, RecordWorker, ObserveExit,
         ObserveCancel, Quiescent, Recover, Validate, MarkWorker, Decide, Candidate,
         Tombstone, CloseAttempts, EndRun, EndTask, Cancel, CreateRunAndTask,
         UpdateRunStatus, UpdateTaskStatus
    <3> QED
      BY <1>5, <2>1, <3>1
  <2> QED
    BY <1>1, <2>1, <2>2 DEF RunInv, VerdictHeld
<1>6. \A b \in Attempt : RowOf(b)' = RowOf(b)
  BY DEF RowOf
<1> QED
  BY <1>2, <1>3, <1>4, <1>5 DEF NoInventedSuccess, RowOf

(***************************************************************************)
(* Steps of owners, crashes and exits                                      *)
(***************************************************************************)

LEMMA NothingInHand ==
  ASSUME HandTypes, HandHeld, rpc \in {"idle", "run"}
  PROVE  /\ todo = {} /\ saved = {} /\ watched = {} /\ mark = {}
         /\ \A a \in Attempt : script[a] = <<>>
  BY DEF HandTypes, HandHeld, InHand

LEMMA EmptyHand ==
  ASSUME HandTypes', rpc' \in {"idle", "run"}, saved' = {},
         todo' = {}, watched' = {}, mark' = {}, \A a \in Attempt : script'[a] = <<>>
  PROVE  HandHeld' /\ ScriptHeld'
  BY EmptyScript DEF HandHeld, ScriptHeld, InHand

LEMMA StepOfOwner ==
  ASSUME RecoveryInv, NEW r \in Run, OwnerStep(r)
  PROVE  RecoveryInv'
<1>1. OwnerMove(r) /\ UNCHANGED recVars /\ (pc[r] = "idle" => MayStart(r))
  BY DEF OwnerStep, OwnerMove
<1>2. pc[r] \notin {"done", "killed"}
  BY DEF OwnerStep, Live, RunStep, Precreate, ReadActive, Visit, Begin, InitialWake,
     Stopped, CreateWorktree, InsertAttempt, StartWorker, RecordWorker, ObserveExit,
     ObserveCancel, Quiescent, Recover, Validate, MarkWorker, Decide, Candidate,
     Tombstone, CloseAttempts, EndRun, EndTask
<1>3. /\ TypeInv /\ HandTypes /\ (\A s \in Run : OwnerInv(s))
      /\ RecordsHeld /\ NoInventedSuccess /\ HandHeld /\ ScriptHeld
      /\ \A a \in c5[r] : attempt[a] # "absent"
  BY DEF RecoveryInv, RecordsHeld
<1>4. rpc \in {"idle", "run"}
  BY <1>1, <1>2, <1>3 DEF HandHeld, HandTypes, Live, MayStart
<1> HIDE DEF TypeInv, OwnerMove
<1>5. TypeInv'
  BY <1>1, <1>3, StepTypes DEF OwnerMove, Next, UserStep
<1>6. \A s \in Run : OwnerInv(s)'
  BY <1>1, <1>2, <1>3, OtherOwner, SelfOwner
<1>7. RecordsHeld' /\ NoInventedSuccess'
  BY <1>1, <1>2, <1>3, OwnerRecords, OwnerInvents
<1>8. HandTypes'
  BY <1>1, <1>3 DEF HandTypes, recVars
<1>9. HandHeld' /\ ScriptHeld'
  BY <1>1, <1>3, <1>4, <1>8, NothingInHand, EmptyHand DEF recVars
<1> QED
  BY <1>5, <1>6, <1>7, <1>8, <1>9 DEF RecoveryInv

\* A crash forgets the process, never a row: what was recorded while the
\* owner lived still holds.
LEMMA StepOfCrash ==
  ASSUME RecoveryInv, NEW r \in Run, Crash(r)
  PROVE  RecoveryInv'
<1>1. /\ TypeInv /\ HandTypes /\ (\A s \in Run : OwnerInv(s))
      /\ RecordsHeld /\ NoInventedSuccess /\ HandHeld /\ ScriptHeld
  BY DEF RecoveryInv
<1>2. /\ UNCHANGED <<storeVars, worldVars, adopting, recVars>> /\ Live(r)
      /\ pc' = [pc EXCEPT ![r] = "killed"] /\ num' = [num EXCEPT ![r] = 1]
      /\ c5' = [c5 EXCEPT ![r] = {}] /\ final' = [final EXCEPT ![r] = "failed"]
      /\ exited' = [exited EXCEPT ![r] = FALSE] /\ passed' = [passed EXCEPT ![r] = FALSE]
      /\ cancelled' = cancelled \ {r}
  BY DEF Crash
<1>3. TypeInv'
  BY <1>1, <1>2, LimitIsPositive DEF WithinLimit, Step, InAttempt
<1>4. ASSUME NEW s \in Run PROVE OwnerInv(s)'
  <2>1. CASE s = r
    <3>1. pc'[s] = "killed"
      BY <1>1, <1>2, <2>1
    <3> QED
      BY <3>1 DEF OwnerInv
  <2>2. CASE s # r
    <3>1. /\ UNCHANGED <<run, task, attempt, worker, effects, candidate, adopted, tombstones,
                         proc, accepted, adopting>>
          /\ pc'[s] = pc[s] /\ num'[s] = num[s] /\ final'[s] = final[s]
          /\ passed'[s] = passed[s]
      BY <1>2, <2>2
    <3> QED
      BY <1>1, <3>1, SMTT(30) DEF OwnerInv, Fresh, RunInv, OwnRows, WorkerPlace, RowsClosed,
         VerdictHeld, OfferHeld, EndWritten, Row, RowOf
  <2> QED
    BY <2>1, <2>2
<1>5. RecordsHeld'
  BY <1>1, <1>2 DEF RecordsHeld, Workers, DeadRow, ActiveAttempts, RowOf
<1>6. NoInventedSuccess'
  BY <1>1, <1>2 DEF NoInventedSuccess, RowOf
<1>7. HandTypes'
  BY <1>1, <1>2 DEF HandTypes, recVars
<1>8. rpc \in {"idle", "run"}
  BY <1>1, <1>2 DEF HandTypes, HandHeld
<1>9. HandHeld' /\ ScriptHeld'
  BY <1>1, <1>2, <1>7, <1>8, NothingInHand, EmptyHand DEF recVars
<1> QED
  BY <1>3, <1>4, <1>5, <1>6, <1>7, <1>9 DEF RecoveryInv

LEMMA StepOfWorker ==
  ASSUME RecoveryInv, NEW a \in Attempt, WorkerExits(a), UNCHANGED recVars
  PROVE  RecoveryInv'
<1>1. /\ TypeInv /\ HandTypes /\ (\A s \in Run : OwnerInv(s))
      /\ RecordsHeld /\ NoInventedSuccess /\ HandHeld /\ ScriptHeld
  BY DEF RecoveryInv
<1>2. TypeInv'
  BY <1>1, StepTypes DEF Next
<1>3. /\ UNCHANGED <<storeVars, localVars, worktrees, accepted, adopting>>
      /\ \A b \in Attempt : proc'[b] = "alive" => proc[b] = "alive"
      /\ \A b \in Attempt : proc[b] = "none" => proc'[b] = "none"
  BY DEF WorkerExits
<1>4. ASSUME NEW s \in Run PROVE OwnerInv(s)'
  <2>1. OwnRows(s) => OwnRows(s)'
    BY <1>3 DEF OwnRows, Row, RowOf
  <2>2. Fresh(s) => Fresh(s)'
    BY <1>3, Tuples DEF Fresh
  <2> HIDE DEF TypeInv
  <2>3. RunInv(s) => RunInv(s)'
    BY <1>1, ExitSafe
  <2>4. pc' = pc
    BY <1>3
  <2> QED
    BY <1>1, <2>1, <2>2, <2>3, <2>4 DEF OwnerInv
<1>5. \A b \in Attempt : DeadRow(b) => DeadRow(b)'
  BY <1>3 DEF DeadRow, RowOf
<1>6. RecordsHeld'
  BY <1>1, <1>3, <1>5, Tuples DEF RecordsHeld, Workers, ActiveAttempts, RowOf
<1>7. NoInventedSuccess'
  BY <1>1, <1>3 DEF NoInventedSuccess, RowOf
<1>8. HandTypes' /\ HandHeld'
  BY <1>1, <1>3 DEF HandTypes, HandHeld, InHand, Live, recVars
<1>9. ScriptHeld'
  <2>1. /\ script' = script /\ rpc' = rpc /\ todo' = todo
        /\ ActiveAttempts' = ActiveAttempts
        /\ \A b \in Attempt : Workers(b)' = Workers(b)
    BY <1>3 DEF recVars, Workers, ActiveAttempts, RowOf
  <2>2. todo \subseteq Attempt /\ ActiveAttempts \subseteq Attempt
    BY <1>1 DEF HandTypes, ActiveAttempts
  <2> HIDE DEF TypeInv
  <2> QED
    BY <1>1, <1>5, <2>1, <2>2 DEF ScriptHeld
<1> QED
  BY <1>2, <1>4, <1>6, <1>7, <1>8, <1>9 DEF RecoveryInv

(***************************************************************************)
(* Steps of a recovery that write no row                                   *)
(***************************************************************************)

Rest == TypeInv /\ (\A r \in Run : OwnerInv(r)) /\ RecordsHeld /\ NoInventedSuccess

LEMMA RestKept == Rest /\ UNCHANGED vars => Rest'
<1> SUFFICES ASSUME Rest, UNCHANGED vars PROVE Rest'
  OBVIOUS
<1>1. TypeInv'
  BY StepTypes DEF Rest
<1>2. UNCHANGED <<run, task, attempt, worker, checkpoint, effects, candidate, adopted,
                  tombstones, pc, num, c5, exited, passed, final, cancelled, proc,
                  worktrees, accepted, adopting>>
  BY DEF vars
<1>3. ASSUME NEW r \in Run PROVE OwnerInv(r)'
  BY <1>2 DEF Rest, OwnerInv, Fresh, RunInv, OwnRows, WorkerPlace, RowsClosed,
     VerdictHeld, OfferHeld, EndWritten, Row, RowOf
<1>4. RecordsHeld'
  <2> HIDE DEF TypeInv
  <2> QED
    BY <1>2 DEF Rest, RecordsHeld, Workers, DeadRow, ActiveAttempts, RowOf
<1>5. NoInventedSuccess'
  <2> HIDE DEF TypeInv
  <2> QED
    BY <1>2 DEF Rest, NoInventedSuccess, RowOf
<1> QED
  BY <1>1, <1>3, <1>4, <1>5 DEF Rest

\* What the two lists and the scripts speak of.
SameStore ==
    /\ run' = run /\ attempt' = attempt /\ checkpoint' = checkpoint /\ pc' = pc
    /\ ActiveAttempts' = ActiveAttempts
    /\ \A a \in Attempt : Workers(a)' = Workers(a) /\ DeadRow(a)' = DeadRow(a)

LEMMA StoreKept == UNCHANGED vars => SameStore
  BY DEF vars, SameStore, Workers, DeadRow, ActiveAttempts, RowOf

LEMMA NoScriptNoAttempt ==
  ASSUME HandTypes, HandHeld, ~Writing, rpc = "look"
  PROVE  \A a \in Attempt : script[a] = <<>> /\ Len(script[a]) = 0
  BY EmptyScript DEF HandHeld, Writing

HIDE DEF TypeInv, TypeOK, StoreTypeOK, worldVars, storeVars, localVars

LEMMA LookSteps ==
  ASSUME RecoveryInv, NEW a \in Attempt, Scan \/ Preserve(a) \/ Interrupt(a)
  PROVE  HandTypes' /\ HandHeld' /\ ScriptHeld'
<1>0. HandTypes /\ RecordsHeld /\ HandHeld /\ ScriptHeld
  BY DEF RecoveryInv
<1>1. CASE Scan
  <2>1. /\ rpc \in {"idle", "run"} /\ rpc' = "look" /\ todo' = ActiveAttempts
        /\ saved' = ActiveAttempts \cap checkpoint /\ \A r \in Run : ~Live(r)
        /\ UNCHANGED <<vars, script, watched, mark>>
    BY <1>1 DEF Scan, ReadList
  <2>2. SameStore
    BY <2>1, StoreKept
  <2>3. /\ watched = {} /\ mark = {} /\ \A b \in Attempt : script[b] = <<>>
    BY <1>0, <2>1, NothingInHand
  <2>4. HandTypes'
    BY <1>0, <2>1 DEF HandTypes, ActiveAttempts
  <2>5. HandHeld'
    BY <1>0, <2>1, <2>2, <2>3
    DEF HandHeld, InHand, SameStore, RecordsHeld, ActiveAttempts, Live
  <2>6. ScriptHeld'
    BY <2>1, <2>2, <2>3, EmptyScript DEF ScriptHeld, SameStore
  <2> QED
    BY <2>4, <2>5, <2>6
<1>2. CASE Preserve(a)
  <2>1. /\ rpc = "look" /\ todo' = todo \ {a} /\ (a \in saved \/ Lives(a))
        /\ UNCHANGED <<vars, rpc, saved, script, watched, mark>>
    BY <1>2 DEF Preserve
  <2>2. SameStore
    BY <2>1, StoreKept
  <2>3. Workers(a) # {}
    BY <1>0, <1>2 DEF Preserve, HandHeld, RecordsHeld, Lives
  <2>4. HandTypes'
    BY <1>0, <1>2 DEF HandTypes, Preserve
  <2>5. HandHeld'
    BY <1>0, <1>2, <2>2 DEF HandHeld, InHand, SameStore, Live, Preserve
  <2>6. rpc' = rpc /\ script' = script /\ todo' = todo \ {a} /\ rpc = "look"
    BY <1>2 DEF Preserve
  <2>7. \A b \in ActiveAttempts \ todo' :
          Workers(b) # {} \/ \E i \in 1 .. Len(script'[b]) : script'[b][i][1] = "attempt"
    BY <1>0, <2>3, <2>6 DEF ScriptHeld
  <2>8. /\ \A b \in Attempt : Workers(b)' = Workers(b) /\ DeadRow(b)' = DeadRow(b)
        /\ ActiveAttempts' = ActiveAttempts /\ ActiveAttempts \subseteq Attempt
    BY <2>2 DEF SameStore, ActiveAttempts
  <2>9. ScriptHeld'
    BY <1>0, <2>6, <2>7, <2>8 DEF ScriptHeld
  <2> QED
    BY <2>4, <2>5, <2>9
<1>3. CASE Interrupt(a)
  <2>1. /\ rpc = "look" /\ rpc' = rpc /\ a \in todo /\ todo' = todo \ {a} /\ ~Lives(a)
        /\ Terminalize(a, "interrupted", <<"worker", "attempt", "run", "task">>)
        /\ UNCHANGED <<vars, saved, watched, mark>>
    BY <1>3 DEF Interrupt
  <2>2. SameStore
    BY <2>1, StoreKept
  <2>3. DeadRow(a)
    BY <1>0, <2>1, OnlyLastLives
  <2>4. /\ script' \in [Attempt -> Seq(Write)]
        /\ \A b \in Attempt \ {a} : script'[b] = script[b]
        /\ \A b \in Attempt : Len(script'[b]) <= 4
        /\ \A i \in 1 .. Len(script'[a]) : script'[a][i][1] = "worker" => Workers(a) # {}
        /\ \E i \in 1 .. Len(script'[a]) : script'[a][i][1] = "attempt"
    BY <1>0, <2>1, ScriptWritten
  <2>5. HandTypes'
    BY <1>0, <2>1, <2>4 DEF HandTypes
  <2>6. \A b \in Attempt : InHand(b)' => InHand(b)
    BY <2>1, <2>4 DEF InHand
  <2>7. HandHeld'
    BY <1>0, <2>1, <2>2, <2>6 DEF HandHeld, SameStore, Live
  <2>8. \A b \in Attempt : \A i \in 1 .. Len(script'[b]) :
          /\ script'[b][i][1] = "worker" => Workers(b) # {}
          /\ script'[b][i][2] = "interrupted" => DeadRow(b)
    BY <1>0, <2>3, <2>4 DEF ScriptHeld
  <2>9. \A b \in ActiveAttempts \ todo' :
          Workers(b) # {} \/ \E i \in 1 .. Len(script'[b]) : script'[b][i][1] = "attempt"
    <3> TAKE b \in ActiveAttempts \ todo'
    <3>1. CASE b = a
      BY <2>4, <3>1
    <3>2. CASE b # a
      BY <1>0, <2>1, <2>4, <3>2 DEF ScriptHeld, ActiveAttempts
    <3> QED
      BY <3>1, <3>2
  <2>10. \A b \in Attempt : Workers(b)' = Workers(b) /\ DeadRow(b)' = DeadRow(b)
    BY <2>2 DEF SameStore
  <2>11. ActiveAttempts' = ActiveAttempts /\ ActiveAttempts \subseteq Attempt /\ rpc' = "look"
    BY <2>1, <2>2 DEF SameStore, ActiveAttempts
  <2>12. ScriptHeld'
    BY <2>8, <2>9, <2>10, <2>11 DEF ScriptHeld
  <2> QED
    BY <2>5, <2>7, <2>12
<1> QED
  BY <1>1, <1>2, <1>3

LEMMA LookEnds ==
  ASSUME RecoveryInv, Reconciled \/ Reread \/ FallThrough
  PROVE  HandTypes' /\ HandHeld' /\ ScriptHeld'
<1>0. HandTypes /\ RecordsHeld /\ HandHeld /\ ScriptHeld
  BY DEF RecoveryInv
<1>1. /\ rpc = "look" /\ todo = {} /\ ~Writing /\ saved' = {}
      /\ UNCHANGED <<vars, script, watched, mark>>
      /\ watched = {} /\ mark = {}
  BY <1>0 DEF Reconciled, Reread, FallThrough, HandHeld
<1>2. \A a \in Attempt : script[a] = <<>> /\ Len(script[a]) = 0
  BY <1>0, <1>1, NoScriptNoAttempt
<1>3. SameStore
  BY <1>1, StoreKept
<1>4. HandTypes'
  BY <1>0, <1>1 DEF HandTypes, Reconciled, Reread, FallThrough, ActiveAttempts
<1>5. CASE Reconciled \/ FallThrough
  <2>1. rpc' \in {"idle", "run"} /\ todo' = {}
    BY <1>1, <1>5 DEF Reconciled, FallThrough
  <2> QED
    BY <1>1, <1>2, <1>4, <2>1, EmptyHand
<1>6. CASE Reread
  <2>1. rpc' = "own" /\ todo' = ActiveAttempts
    BY <1>6 DEF Reread
  <2>2. HandHeld'
    BY <1>0, <1>1, <1>2, <1>3, <2>1
    DEF HandHeld, InHand, SameStore, RecordsHeld, ActiveAttempts, Live
  <2>3. \A a \in ActiveAttempts : Workers(a) # {}
    BY <1>0, <1>1, <1>2 DEF ScriptHeld, ActiveAttempts
  <2>4. /\ \A a \in Attempt : Len(script'[a]) = 0 /\ Workers(a)' = Workers(a)
        /\ ActiveAttempts \subseteq Attempt
    BY <1>1, <1>2, <1>3 DEF SameStore, ActiveAttempts
  <2>5. ScriptHeld'
    BY <2>1, <2>3, <2>4 DEF ScriptHeld
  <2> QED
    BY <1>4, <2>2, <2>5
<1> QED
  BY <1>5, <1>6

\* Both give the attempt up as failed.
LEMMA GivenUp ==
  ASSUME RecoveryInv, NEW a \in Attempt, Refuse(a) \/ ObserverExit(a)
  PROVE  HandTypes' /\ HandHeld' /\ ScriptHeld'
<1>0. HandTypes /\ HandHeld /\ ScriptHeld
  BY DEF RecoveryInv
<1>1. /\ todo' \subseteq todo /\ InHand(a) /\ rpc' = rpc
      /\ UNCHANGED <<vars, saved, watched, mark>>
      /\ \/ Terminalize(a, "failed", <<"worker", "attempt", "run", "task">>)
         \/ Terminalize(a, "failed", <<"attempt", "worker", "run", "task">>)
  BY DEF Refuse, ObserverExit, InHand
<1>2. rpc = "own"
  BY <1>0 DEF Refuse, ObserverExit, HandHeld, HandTypes, InHand
<1>3. SameStore
  BY <1>1, StoreKept
<1>4. /\ script' \in [Attempt -> Seq(Write)]
      /\ \A b \in Attempt \ {a} : script'[b] = script[b]
      /\ \A b \in Attempt : Len(script'[b]) <= 4
      /\ \A i \in 1 .. Len(script'[a]) : /\ script'[a][i][1] = "worker" => Workers(a) # {}
                                         /\ script'[a][i][2] = "failed"
  BY <1>0, <1>1, ScriptWritten
<1>5. HandTypes'
  BY <1>0, <1>1, <1>4 DEF HandTypes
<1>6. \A b \in Attempt : InHand(b)' => InHand(b)
  BY <1>1, <1>4 DEF InHand
<1>7. HandHeld'
  BY <1>0, <1>1, <1>2, <1>3, <1>6 DEF HandHeld, SameStore, Live
<1>8. \A b \in Attempt : \A i \in 1 .. Len(script'[b]) :
        /\ script'[b][i][1] = "worker" => Workers(b) # {}
        /\ script'[b][i][2] = "interrupted" => DeadRow(b)
  BY <1>0, <1>4 DEF ScriptHeld
<1>9. \A b \in Attempt : Workers(b)' = Workers(b) /\ DeadRow(b)' = DeadRow(b)
  BY <1>3 DEF SameStore
<1>10. \A b \in todo' : b \in Attempt /\ Workers(b) # {}
  BY <1>0, <1>1, <1>2 DEF ScriptHeld, HandTypes
<1>11. ScriptHeld'
  BY <1>1, <1>2, <1>8, <1>9, <1>10 DEF ScriptHeld
<1> QED
  BY <1>5, <1>7, <1>11

LEMMA OwnSteps ==
  ASSUME RecoveryInv, NEW a \in Attempt,
         Reown(a) \/ ObserverTimeout(a) \/ Resumed \/ RecoveryCrash
  PROVE  HandTypes' /\ HandHeld' /\ ScriptHeld'
<1>0. HandTypes /\ HandHeld /\ ScriptHeld
  BY DEF RecoveryInv
<1>1. UNCHANGED vars
  BY DEF Reown, ObserverTimeout, Resumed, RecoveryCrash
<1>2. SameStore
  BY <1>1, StoreKept
<1>3. CASE Reown(a) \/ ObserverTimeout(a)
  <2>1. /\ rpc' = rpc /\ todo' \subseteq todo /\ saved' = saved /\ script' = script
        /\ watched' \subseteq watched \cup {a} /\ (mark' = mark \/ mark' = {a}) /\ InHand(a)
    BY <1>3 DEF Reown, ObserverTimeout, InHand
  <2>2. rpc = "own"
    BY <1>0, <1>3 DEF Reown, ObserverTimeout, HandHeld, HandTypes, InHand
  <2>3. HandTypes'
    BY <1>0, <2>1 DEF HandTypes
  <2>4. \A b \in Attempt : InHand(b)' => InHand(b)
    BY <2>1 DEF InHand
  <2>5. HandHeld'
    BY <1>0, <1>2, <2>1, <2>2, <2>4 DEF HandHeld, SameStore, Live
  <2>6. \A b \in todo' : b \in Attempt /\ Workers(b) # {}
    BY <1>0, <2>1, <2>2 DEF ScriptHeld, HandTypes
  <2>7. \A b \in Attempt : Workers(b)' = Workers(b) /\ DeadRow(b)' = DeadRow(b)
    BY <1>2 DEF SameStore
  <2>8. ScriptHeld'
    BY <1>0, <2>1, <2>2, <2>6, <2>7 DEF ScriptHeld
  <2> QED
    BY <2>3, <2>5, <2>8
<1>4. CASE Resumed
  <2>1. /\ rpc' = "idle" /\ todo' = {} /\ watched' = {} /\ mark' = {} /\ saved' = saved
        /\ script' = script /\ \A b \in Attempt : script[b] = <<>>
    BY <1>4 DEF Resumed, Writing
  <2>2. saved = {}
    BY <1>0, <1>4 DEF Resumed, HandHeld
  <2>3. HandTypes'
    BY <1>0, <2>1 DEF HandTypes
  <2> QED
    BY <2>1, <2>2, <2>3, EmptyHand
<1>5. CASE RecoveryCrash
  <2>1. HandTypes'
    BY <1>5, EmptyScript DEF HandTypes, RecoveryCrash, NoScript
  <2> QED
    BY <1>5, <2>1, EmptyHand DEF RecoveryCrash, NoScript
<1> QED
  BY <1>3, <1>4, <1>5

(***************************************************************************)
(* Steps of a recovery that write a row                                    *)
(***************************************************************************)

\* A run that has not started stays so: none of its attempts is in hand.
LEMMA NotStarted ==
  ASSUME HandHeld, \A r \in Run : OwnerInv(r), NEW a \in Attempt, InHand(a)
  PROVE  pc[a[1]] # "idle" /\ a[1] \in Run
<1>1. a[1] \in Run /\ a[2] \in Number /\ a = <<a[1], a[2]>>
  BY DEF Attempt
<1>2. attempt[a] # "absent"
  BY DEF HandHeld
<1> QED
  BY <1>1, <1>2 DEF OwnerInv, Fresh

LEMMA StillFresh ==
  ASSUME NEW r \in Run, pc'[r] = "idle" => Fresh(r)', pc'[r] \in {"idle", "done", "killed"}
  PROVE  OwnerInv(r)'
<1>1. \A n \in Number : ~(n < 1)
  BY NumbersArePositive
<1>2. pc'[r] = "idle" => RunInv(r)'
  BY <1>1 DEF Fresh, RunInv, WorkerPlace, RowsClosed, VerdictHeld, OfferHeld, EndWritten,
     Ending
<1>3. pc'[r] = "idle" => OwnRows(r)'
  BY <1>1 DEF Fresh, OwnRows, IsTerminal
<1> QED
  BY <1>2, <1>3 DEF OwnerInv

LEMMA StepOfMark ==
  ASSUME RecoveryInv, MarkRunning
  PROVE  RecoveryInv'
<1>0. /\ TypeInv /\ HandTypes /\ (\A s \in Run : OwnerInv(s))
      /\ RecordsHeld /\ NoInventedSuccess /\ HandHeld /\ ScriptHeld
  BY DEF RecoveryInv
<1>1. PICK a \in mark : attempt' = [attempt EXCEPT ![a] = "running"]
  BY DEF MarkRunning, UpdateAttemptStatus
<1>2. /\ mark' = {}
      /\ UNCHANGED <<run, task, worker, checkpoint, effects, candidate, adopted, tombstones,
                     pc, num, c5, exited, passed, final, cancelled, proc, worktrees, accepted,
                     adopting, rpc, todo, saved, script, watched>>
  BY DEF MarkRunning, localVars, worldVars
<1>3. a \in Attempt /\ InHand(a) /\ attempt[a] # "absent" /\ run[a[1]] # "completed"
  BY <1>0, <1>1 DEF HandTypes, InHand, HandHeld
<1>4. rpc = "own" /\ \A r \in Run : pc[r] \in {"idle", "done", "killed"}
  BY <1>0, <1>1 DEF HandTypes, HandHeld, Live, InHand
<1>5. TypeInv'
  BY <1>0, <1>1, <1>2 DEF TypeInv, TypeOK, StoreTypeOK, WithinLimit, Status
<1>6. \A b \in Attempt : attempt'[b] = IF b = a THEN "running" ELSE attempt[b]
  BY <1>0, <1>1 DEF TypeInv, TypeOK, StoreTypeOK
<1>7. ASSUME NEW r \in Run PROVE OwnerInv(r)'
  <2>1. ASSUME pc[r] = "idle" PROVE Fresh(r)'
    <3>1. \A n \in Number : <<r, n>> \in Attempt /\ <<r, n>> # a
      BY <1>0, <1>3, <2>1, Tuples, NotStarted
    <3>2. Fresh(r)
      BY <1>0, <2>1 DEF OwnerInv
    <3> QED
      BY <1>2, <1>6, <3>1, <3>2 DEF Fresh
  <2> QED
    BY <1>2, <1>4, <2>1, StillFresh
<1>8. \A b \in Attempt : Workers(b)' = Workers(b) /\ DeadRow(b)' = DeadRow(b)
  BY <1>2 DEF Workers, DeadRow, RowOf
<1>9. RecordsHeld'
  <2>1. checkpoint \subseteq Attempt /\ \A r \in Run : c5[r] \subseteq Attempt
    BY <1>0 DEF TypeInv, TypeOK, StoreTypeOK
  <2>2. \A b \in Attempt : attempt'[b] = "interrupted" => DeadRow(b)'
    BY <1>0, <1>6, <1>8 DEF RecordsHeld
  <2>3. \A b \in ActiveAttempts' : run'[b[1]] # "completed"
    BY <1>0, <1>2, <1>3, <1>6 DEF RecordsHeld, ActiveAttempts
  <2>4. \A r \in Run : \A b \in c5'[r] : attempt'[b] # "absent"
    BY <1>0, <1>2, <1>6, <2>1 DEF RecordsHeld
  <2>5. \A b \in checkpoint' : Workers(b)' # {}
    BY <1>0, <1>2, <1>8, <2>1 DEF RecordsHeld
  <2> QED
    BY <1>0, <1>2, <2>2, <2>3, <2>4, <2>5 DEF RecordsHeld
<1>10. NoInventedSuccess'
  BY <1>0, <1>2, <1>6 DEF NoInventedSuccess, RowOf
<1>11. HandTypes'
  BY <1>0, <1>2 DEF HandTypes
<1>12. HandHeld'
  BY <1>0, <1>2, <1>4, <1>6 DEF HandHeld, InHand, Live
<1>13. ScriptHeld'
  BY <1>0, <1>2, <1>4, <1>8 DEF ScriptHeld, HandTypes
<1> QED
  BY <1>5, <1>7, <1>9, <1>10, <1>11, <1>12, <1>13 DEF RecoveryInv

\* What a statement of a recovery writes.
LEMMA RowWritten ==
  ASSUME RecoveryInv, NEW a \in Attempt, WriteRow(a)
  PROVE  /\ InHand(a) /\ rpc \in {"look", "own"}
         /\ \E t \in Table, s \in {"failed", "interrupted"} :
              /\ script[a][1] = <<t, s>>
              /\ s = "interrupted" => DeadRow(a)
              /\ IF t = "worker"
                   THEN \E w \in Workers(a) : worker' = [worker EXCEPT ![w] = s]
                   ELSE worker' = worker
              /\ attempt' = IF t = "attempt" THEN [attempt EXCEPT ![a] = s] ELSE attempt
              /\ run' = IF t = "run" THEN [run EXCEPT ![a[1]] = s] ELSE run
              /\ task' = IF t = "task" THEN [task EXCEPT ![a[1]] = s] ELSE task
<1>0. HandTypes /\ RecordsHeld /\ HandHeld /\ ScriptHeld /\ script[a] # <<>>
  BY DEF RecoveryInv, WriteRow
<1>1. InHand(a) /\ rpc \in {"look", "own"}
  BY <1>0 DEF InHand, HandHeld, HandTypes
<1>2. /\ Len(script[a]) \in Nat \ {0} /\ Head(script[a]) = script[a][1]
      /\ Head(script[a]) \in Write
  BY <1>0, ScriptRest DEF WriteRow
<1>3. PICK t \in Table, s \in {"failed", "interrupted"} : Head(script[a]) = <<t, s>>
  BY <1>2 DEF Write
<1>4. 1 \in 1 .. Len(script[a])
  BY <1>2
<1>5. /\ t = "worker" => Workers(a) # {}
      /\ s = "interrupted" => DeadRow(a)
  BY <1>0, <1>2, <1>3, <1>4 DEF ScriptHeld
<1>6. t = "worker" => WorkerOf(a) \in Workers(a)
  BY <1>0, <1>5, WorkerOfIsWorker
<1>7. /\ IF t = "worker" THEN worker' = [worker EXCEPT ![WorkerOf(a)] = s]
                         ELSE worker' = worker
      /\ attempt' = IF t = "attempt" THEN [attempt EXCEPT ![a] = s] ELSE attempt
      /\ run' = IF t = "run" THEN [run EXCEPT ![a[1]] = s] ELSE run
      /\ task' = IF t = "task" THEN [task EXCEPT ![a[1]] = s] ELSE task
  BY <1>3 DEF WriteRow, UpdateWorkerStatus, UpdateAttemptStatus, UpdateRunStatus,
     UpdateTaskStatus
<1> QED
  BY <1>1, <1>2, <1>3, <1>5, <1>6, <1>7

LEMMA StepOfWrite ==
  ASSUME RecoveryInv, NEW a \in Attempt, WriteRow(a)
  PROVE  RecoveryInv'
<1>0. /\ TypeInv /\ HandTypes /\ (\A r \in Run : OwnerInv(r))
      /\ RecordsHeld /\ NoInventedSuccess /\ HandHeld /\ ScriptHeld
  BY DEF RecoveryInv
<1>1. InHand(a) /\ rpc \in {"look", "own"}
  BY RowWritten
<1>2. PICK t \in Table, s \in {"failed", "interrupted"} :
        /\ script[a][1] = <<t, s>>
        /\ s = "interrupted" => DeadRow(a)
        /\ IF t = "worker"
             THEN \E w \in Workers(a) : worker' = [worker EXCEPT ![w] = s]
             ELSE worker' = worker
        /\ attempt' = IF t = "attempt" THEN [attempt EXCEPT ![a] = s] ELSE attempt
        /\ run' = IF t = "run" THEN [run EXCEPT ![a[1]] = s] ELSE run
        /\ task' = IF t = "task" THEN [task EXCEPT ![a[1]] = s] ELSE task
  BY RowWritten
<1>3. /\ UNCHANGED <<checkpoint, effects, candidate, adopted, tombstones, pc, num, c5, exited,
                     passed, final, cancelled, proc, worktrees, accepted, adopting, rpc,
                     todo, saved, mark>>
      /\ script[a] # <<>> /\ script' = [script EXCEPT ![a] = Tail(@)]
      /\ watched' \subseteq watched
  BY DEF WriteRow, localVars, worldVars
<1>4. /\ a[1] \in Run /\ pc[a[1]] # "idle" /\ attempt[a] # "absent" /\ run[a[1]] # "completed"
      /\ \A r \in Run : pc[r] \in {"idle", "done", "killed"}
  BY <1>0, <1>1, NotStarted DEF HandHeld, Live
<1>5. /\ attempt \in [Attempt -> Status] /\ worker \in [Attempt -> Status]
      /\ run \in [Run -> Status] /\ task \in [Run -> Status]
      /\ checkpoint \subseteq Attempt /\ \A r \in Run : c5[r] \subseteq Attempt
  BY <1>0 DEF TypeInv, TypeOK, StoreTypeOK
<1>6. Workers(a) \subseteq Attempt /\ \A w \in Workers(a) : w[1] = a[1] /\ worker[w] # "absent"
  BY RowIsAttempt DEF Workers
<1>7. /\ attempt' \in [Attempt -> Status] /\ worker' \in [Attempt -> Status]
      /\ run' \in [Run -> Status] /\ task' \in [Run -> Status]
  BY <1>2, <1>4, <1>5, <1>6 DEF Status
<1>8. /\ \A b \in Attempt : attempt'[b] \in {attempt[b], s} /\ (b # a => attempt'[b] = attempt[b])
      /\ \A b \in Attempt : /\ worker'[b] \in {worker[b], s}
                            /\ worker[b] = "absent" <=> worker'[b] = "absent"
                            /\ b[1] # a[1] => worker'[b] = worker[b]
      /\ \A r \in Run : /\ run'[r] \in {run[r], s} /\ task'[r] \in {task[r], s}
                        /\ r # a[1] => run'[r] = run[r] /\ task'[r] = task[r]
  BY <1>2, <1>4, <1>5, <1>6
<1>9. TypeInv'
  BY <1>0, <1>3, <1>7 DEF TypeInv, TypeOK, StoreTypeOK, WithinLimit
<1>10. ASSUME NEW r \in Run PROVE OwnerInv(r)'
  <2>1. ASSUME pc[r] = "idle" PROVE Fresh(r)'
    <3>1. \A n \in Number : <<r, n>> \in Attempt /\ <<r, n>> # a
      BY <1>4, <2>1, Tuples
    <3>2. Fresh(r) /\ r # a[1]
      BY <1>0, <1>4, <2>1 DEF OwnerInv
    <3>3. \A n \in Number : /\ attempt'[<<r, n>>] = attempt[<<r, n>>]
                            /\ worker'[<<r, n>>] = "absent" <=> worker[<<r, n>>] = "absent"
      BY <1>8, <3>1
    <3>4. run'[r] = run[r] /\ task'[r] = task[r]
      BY <1>8, <3>2
    <3> QED
      BY <1>3, <3>2, <3>3, <3>4 DEF Fresh
  <2> QED
    BY <1>3, <1>4, <2>1, StillFresh
<1>11. \A b \in Attempt : Workers(b)' = Workers(b) /\ DeadRow(b)' = DeadRow(b)
  BY <1>3, <1>8 DEF Workers, DeadRow, RowOf
<1>12. RecordsHeld'
  <2>1. \A r \in Run, m \in Number, n \in Number :
          proc'[<<r, n>>] = "alive" /\ m > n => worker'[<<r, m>>] = "absent"
    BY <1>0, <1>3, <1>8, Tuples DEF RecordsHeld
  <2>2. \A r \in Run, n \in Number : worker'[<<r, n>>] # "absent" => n <= AttemptLimit(r)
    BY <1>0, <1>8, Tuples DEF RecordsHeld
  <2>3. \A b \in checkpoint' : Workers(b)' # {}
    BY <1>0, <1>3, <1>5, <1>11 DEF RecordsHeld
  <2>4. \A b \in Attempt : attempt'[b] = "interrupted" => DeadRow(b)'
    BY <1>0, <1>2, <1>8, <1>11 DEF RecordsHeld
  <2>5. \A b \in ActiveAttempts' : run'[b[1]] # "completed"
    <3> TAKE b \in ActiveAttempts'
    <3>1. b \in ActiveAttempts /\ b[1] \in Run
      BY <1>8, RowIsAttempt DEF ActiveAttempts
    <3> QED
      BY <1>0, <1>8, <3>1 DEF RecordsHeld
  <2>6. \A r \in Run : \A b \in c5'[r] : attempt'[b] # "absent"
    BY <1>0, <1>3, <1>5, <1>8 DEF RecordsHeld
  <2> QED
    BY <2>1, <2>2, <2>3, <2>4, <2>5, <2>6 DEF RecordsHeld
<1>13. NoInventedSuccess'
  <2>1. \A b \in Attempt : /\ attempt'[b] = "completed" => attempt[b] = "completed"
                           /\ worker'[b] = "completed" => worker[b] = "completed"
    BY <1>8
  <2>2. \A r \in Run : "completed" \in {run'[r], task'[r]} => "completed" \in {run[r], task[r]}
    BY <1>8
  <2> QED
    BY <1>0, <1>3, <2>1, <2>2 DEF NoInventedSuccess, RowOf
<1>14. /\ script' \in [Attempt -> Seq(Write)]
       /\ \A b \in Attempt \ {a} : script'[b] = script[b]
       /\ Len(script[a]) \in Nat \ {0} /\ Len(script'[a]) = Len(script[a]) - 1
       /\ \A i \in 1 .. Len(script'[a]) : script'[a][i] = script[a][i + 1]
  BY <1>0, <1>3, ScriptRest
<1>15. HandTypes'
  <2>1. ASSUME NEW b \in Attempt PROVE Len(script'[b]) <= 4
    <3>1. CASE b = a
      <4>1. Len(script[a]) <= 4
        BY <1>0 DEF HandTypes
      <4> QED
        BY <1>14, <3>1, <4>1
    <3>2. CASE b # a
      <4>1. Len(script[b]) <= 4 /\ script'[b] = script[b]
        BY <1>0, <1>14, <3>2 DEF HandTypes
      <4> QED
        BY <4>1
    <3> QED
      BY <3>1, <3>2
  <2> QED
    BY <1>0, <1>3, <1>14, <2>1 DEF HandTypes
<1>16. \A b \in Attempt : InHand(b)' => InHand(b)
  BY <1>3, <1>14 DEF InHand
<1>17. HandHeld'
  <2>1. \A b \in Attempt : InHand(b)' => attempt'[b] # "absent" /\ run'[b[1]] # "completed"
    <3> SUFFICES ASSUME NEW b \in Attempt, InHand(b)'
                 PROVE  attempt'[b] # "absent" /\ run'[b[1]] # "completed"
      OBVIOUS
    <3>1. attempt[b] # "absent" /\ run[b[1]] # "completed" /\ b[1] \in Run
      BY <1>0, <1>16, RowIsAttempt DEF HandHeld
    <3> QED
      BY <1>8, <3>1
  <2> QED
    BY <1>0, <1>1, <1>3, <2>1 DEF HandHeld, Live
<1>18. ASSUME NEW b \in Attempt, NEW i \in 1 .. Len(script'[b])
       PROVE  /\ script'[b][i][1] = "worker" => Workers(b) # {}
              /\ script'[b][i][2] = "interrupted" => DeadRow(b)
  <2>1. CASE b # a
    <3>1. script'[b] = script[b]
      BY <1>0, <1>14, <2>1 DEF HandTypes
    <3>2. i \in 1 .. Len(script[b])
      BY <1>18, <3>1
    <3>3. \A k \in 1 .. Len(script[b]) :
            /\ script[b][k][1] = "worker" => Workers(b) # {}
            /\ script[b][k][2] = "interrupted" => DeadRow(b)
      BY <1>0 DEF ScriptHeld
    <3> QED
      BY <3>1, <3>2, <3>3
  <2>2. CASE b = a
    <3>1. i + 1 \in 1 .. Len(script[a]) /\ script'[a][i] = script[a][i + 1]
      BY <1>14, <1>18, <2>2
    <3> QED
      BY <1>0, <2>2, <3>1 DEF ScriptHeld
  <2> QED
    BY <2>1, <2>2
<1>19. ASSUME rpc = "look", NEW b \in ActiveAttempts' \ todo, Workers(b) = {}
       PROVE  \E i \in 1 .. Len(script'[b]) : script'[b][i][1] = "attempt"
  <2>1. b \in ActiveAttempts \ todo /\ (b = a => t # "attempt")
    BY <1>2, <1>5, <1>8, <1>19 DEF ActiveAttempts
  <2>2. PICK i \in 1 .. Len(script[b]) : script[b][i][1] = "attempt"
    BY <1>0, <1>19, <2>1 DEF ScriptHeld
  <2>3. CASE b # a
    BY <1>14, <2>1, <2>2, <2>3 DEF ActiveAttempts
  <2>4. CASE b = a
    <3>1. i # 1
      BY <1>2, <2>1, <2>2, <2>4
    <3>2. i - 1 \in 1 .. Len(script'[a]) /\ script'[a][i - 1] = script[a][i]
      BY <1>14, <2>2, <2>4, <3>1
    <3> QED
      BY <2>2, <2>4, <3>2
  <2> QED
    BY <2>3, <2>4
<1>20. /\ ActiveAttempts' \subseteq Attempt /\ todo \subseteq Attempt
       /\ rpc = "own" => \A b \in todo : Workers(b) # {}
  BY <1>0 DEF ActiveAttempts, HandTypes, ScriptHeld
<1>21. ScriptHeld'
  BY <1>3, <1>11, <1>18, <1>19, <1>20 DEF ScriptHeld
<1> QED
  BY <1>9, <1>10, <1>12, <1>13, <1>15, <1>17, <1>21 DEF RecoveryInv

(***************************************************************************)
(* The invariant, and what follows from it                                 *)
(***************************************************************************)

LEMMA StepRecovery == ASSUME RecoveryInv, [RecoveryNext]_allVars PROVE RecoveryInv'
<1>1. RecoveryInv <=> Rest /\ HandTypes /\ HandHeld /\ ScriptHeld
  BY DEF RecoveryInv, Rest
<1>2. RecoveryInv' <=> Rest' /\ HandTypes' /\ HandHeld' /\ ScriptHeld'
  BY DEF RecoveryInv, Rest
<1>3. CASE UNCHANGED allVars
  <2>1. UNCHANGED vars /\ UNCHANGED recVars
    BY <1>3 DEF allVars
  <2>2. Rest' /\ SameStore
    BY <1>1, <2>1, RestKept, StoreKept
  <2>3. HandTypes' /\ HandHeld'
    BY <1>1, <2>1, <2>2 DEF HandTypes, HandHeld, InHand, SameStore, Live, recVars
  <2>4. ActiveAttempts \subseteq Attempt /\ todo \subseteq Attempt
    BY <1>1 DEF ActiveAttempts, HandTypes
  <2>5. ScriptHeld'
    BY <1>1, <2>1, <2>2, <2>4 DEF ScriptHeld, SameStore, recVars
  <2> QED
    BY <1>2, <2>2, <2>3, <2>5
<1>4. CASE \/ Scan \/ Reconciled \/ Reread \/ FallThrough \/ Resumed \/ RecoveryCrash
           \/ \E a \in Attempt : Preserve(a) \/ Interrupt(a) \/ Refuse(a) \/ Reown(a)
                                   \/ ObserverStep(a)
  <2>1. UNCHANGED vars
    BY <1>4 DEF Scan, ReadList, Reconciled, Reread, FallThrough, Resumed, RecoveryCrash,
       Preserve, Interrupt, Refuse, Reown, ObserverStep, ObserverExit, ObserverTimeout
  <2>2. Rest'
    BY <1>1, <2>1, RestKept
  <2>3. HandTypes' /\ HandHeld' /\ ScriptHeld'
    <3>1. CASE \E a \in Attempt : \/ Preserve(a) \/ Interrupt(a) \/ Refuse(a) \/ Reown(a)
                                  \/ ObserverStep(a)
      BY <3>1, LookSteps, GivenUp, OwnSteps DEF ObserverStep
    <3>2. CASE Reconciled \/ Reread \/ FallThrough
      BY <3>2, LookEnds
    <3>3. CASE Scan \/ Resumed \/ RecoveryCrash
      <4>1. <<Heir, 1>> \in Attempt
        BY FirstAttempt, HeirAssumption
      <4> QED
        BY <3>3, <4>1, LookSteps, OwnSteps
    <3> QED
      BY <1>4, <3>1, <3>2, <3>3
  <2> QED
    BY <1>2, <2>2, <2>3
<1>5. CASE MarkRunning \/ \E a \in Attempt : WriteRow(a)
  BY <1>5, StepOfMark, StepOfWrite
<1>6. CASE \/ \E r \in Run : OwnerStep(r) \/ Crash(r)
           \/ \E a \in Attempt : WorkerExits(a) /\ UNCHANGED recVars
  BY <1>6, StepOfOwner, StepOfCrash, StepOfWorker
<1> QED
  BY <1>3, <1>4, <1>5, <1>6 DEF RecoveryNext, RecoveryStep

(* Whoever dies at whichever statement, the rows keep saying what they     *)
(* must of the processes, and a recovery has in hand only what is left of  *)
(* runs that are not completed.                                            *)
THEOREM RecoveryHolds == RecoverySpec => []RecoveryInv
<1>1. RecoveryInv /\ [RecoveryNext]_allVars => RecoveryInv'
  BY StepRecovery
<1> QED
  BY <1>1, InitRecovery, PTL DEF RecoverySpec

(* Every variable keeps its type, crashes and recoveries included; no      *)
(* script is longer than the four rows of an attempt, and one attempt at   *)
(* most is about to be marked running.                                     *)
THEOREM RecoveryTypesHold == RecoverySpec => []RecoveryTypeOK
<1>1. RecoveryInv => RecoveryTypeOK
  <2> SUFFICES ASSUME RecoveryInv PROVE RecoveryTypeOK
    OBVIOUS
  <2>1. TypeOK /\ HandTypes
    BY DEF RecoveryInv, TypeInv
  <2>2. mark \subseteq Attempt /\ Cardinality(mark) <= 1
    <3>1. CASE mark = {}
      BY <3>1, FS_EmptySet
    <3>2. CASE mark # {}
      <4>1. PICK a \in Attempt : mark = {a}
        BY <2>1, <3>2 DEF HandTypes
      <4>2. Cardinality({a}) = 1
        BY FS_Singleton
      <4> QED
        BY <4>1, <4>2
    <3> QED
      BY <3>1, <3>2
  <2>3. ASSUME NEW a \in Attempt, NEW i \in DOMAIN script[a]
        PROVE  i <= 4 /\ script[a][i] \in Table \X {"completed", "failed", "interrupted"}
    <3>1. script[a] \in Seq(Write) /\ Len(script[a]) <= 4
      BY <2>1 DEF HandTypes
    <3>2. i \in 1 .. Len(script[a]) /\ Len(script[a]) \in Nat
      BY <2>3, <3>1, LenProperties
    <3>3. script[a][i] \in Write
      BY <3>1, <3>2, ElementOfSeq
    <3> QED
      BY <3>1, <3>2, <3>3 DEF Write
  <2>4. DOMAIN script = Attempt
    BY <2>1 DEF HandTypes
  <2> QED
    BY <2>1, <2>2, <2>3, <2>4 DEF RecoveryTypeOK, HandTypes
<1> QED
  BY <1>1, RecoveryHolds, PTL

(* A worker that lives and is on record is never given up as interrupted,  *)
(* whichever statement its owner or an earlier recovery died at.           *)
THEOREM LivingWorkerKeptHolds == RecoverySpec => []LivingWorkerKept
<1>1. RecoveryInv => LivingWorkerKept
  BY RowIsAttempt DEF RecoveryInv, RecordsHeld, DeadRow, LivingWorkerKept
<1> QED
  BY <1>1, RecoveryHolds, PTL

(* Neither a crash nor a recovery makes anything completed without a       *)
(* validator's verdict and, for runs and tasks, a COMPLETE on record.      *)
THEOREM NoInventedSuccessHolds == RecoverySpec => []NoInventedSuccess
<1>1. RecoveryInv => NoInventedSuccess
  BY DEF RecoveryInv
<1> QED
  BY <1>1, RecoveryHolds, PTL

(* What Reconcile leaves active has a worker on record: the resume that    *)
(* follows it finds one to look at for every attempt of its list.          *)
THEOREM ReconcileDecidesHolds == RecoverySpec => []ReconcileDecides
<1>1. RecoveryInv => ReconcileDecides
  <2> SUFFICES ASSUME RecoveryInv PROVE ReconcileDecides
    OBVIOUS
  <2>1. HandTypes /\ HandHeld /\ ScriptHeld
    BY DEF RecoveryInv
  <2>2. rpc = "own" => \A a \in todo : Workers(a) # {}
    BY <2>1 DEF ScriptHeld
  <2>3. ASSUME rpc = "look", ~Writing, NEW a \in ActiveAttempts \ todo
        PROVE  Workers(a) # {}
    <3>1. a \in Attempt /\ Len(script[a]) = 0
      BY <2>1, <2>3, NoScriptNoAttempt DEF ActiveAttempts
    <3> QED
      BY <2>1, <2>3, <3>1 DEF ScriptHeld
  <2> QED
    BY <2>2, <2>3 DEF ReconcileDecides
<1> QED
  BY <1>1, RecoveryHolds, PTL

(* No owner and no recovery ever takes a run back that was recorded as     *)
(* completed.                                                              *)
THEOREM CompletedKeptHolds == RecoverySpec => CompletedKept
<1>1. ASSUME RecoveryInv, [RecoveryNext]_allVars, NEW r \in Run, run[r] = "completed"
      PROVE  run'[r] = "completed"
  <2>0. /\ TypeInv /\ (\A s \in Run : OwnerInv(s)) /\ HandHeld
        /\ \A s \in Run : \A a \in c5[s] : attempt[a] # "absent"
    BY <1>1 DEF RecoveryInv, RecordsHeld
  <2>1. ASSUME NEW s \in Run, OwnerStep(s) PROVE run'[r] = "completed"
    <3>1. OwnerMove(s)
      BY <2>1 DEF OwnerStep, OwnerMove
    <3>2. CASE s # r
      BY <1>1, <2>0, <3>1, <3>2, OwnerKeepsOthers DEF OthersKept
    <3>3. CASE s = r
      <4>1. pc[r] \notin {"done", "killed"}
        BY <2>1, <3>3
        DEF OwnerStep, Live, RunStep, Precreate, ReadActive, Visit, Begin, InitialWake,
            Stopped, CreateWorktree, InsertAttempt, StartWorker, RecordWorker,
            ObserveExit, ObserveCancel, Quiescent, Recover, Validate, MarkWorker, Decide,
            Candidate, Tombstone, CloseAttempts, EndRun, EndTask
      <4>2. pc[r] = "endTask"
        BY <1>1, <2>0, <4>1 DEF OwnerInv, OwnRows
      <4>3. run' = run
        BY <3>1, <3>3, <4>2
        DEF OwnerMove, RunStep, Precreate, ReadActive, Visit, Begin, InitialWake,
            Stopped, CreateWorktree, InsertAttempt, StartWorker, RecordWorker,
            ObserveExit, ObserveCancel, Quiescent, Recover, Validate, MarkWorker, Decide,
            Candidate, Tombstone, CloseAttempts, EndRun, EndTask, Cancel, storeVars
      <4> QED
        BY <1>1, <4>3
    <3> QED
      BY <3>2, <3>3
  <2>2. ASSUME NEW a \in Attempt, WriteRow(a) PROVE run'[r] = "completed"
    <3>1. run[a[1]] # "completed" /\ (run' = run \/ \E s \in {"failed", "interrupted"} :
                                                   run' = [run EXCEPT ![a[1]] = s])
      BY <1>1, <2>0, <2>2, RowWritten DEF HandHeld
    <3> QED
      BY <1>1, <2>0, <3>1 DEF TypeInv, TypeOK, StoreTypeOK
  <2>3. CASE UNCHANGED run
    BY <1>1, <2>3
  <2>4. \/ UNCHANGED run
        \/ \E s \in Run : OwnerStep(s)
        \/ \E a \in Attempt : WriteRow(a)
    BY <1>1 DEF RecoveryNext, RecoveryStep, Crash, WorkerExits, Scan, ReadList, Reconciled,
       Reread, FallThrough, MarkRunning, Resumed, Preserve, Interrupt, Refuse, Reown,
       RecoveryCrash, ObserverStep, ObserverExit, ObserverTimeout, allVars, vars, storeVars
  <2> QED
    BY <2>1, <2>2, <2>3, <2>4
<1>2. RecoveryInv /\ [RecoveryNext]_allVars =>
        [\A r \in Run : run[r] = "completed" => run'[r] = "completed"]_allVars
  BY <1>1
<1> QED
  BY <1>2, RecoveryHolds, PTL DEF RecoverySpec, CompletedKept

(***************************************************************************)
(* The C5 pass of a new run and the workers that outlived their owners     *)
(***************************************************************************)

\* A living worker, its owner dead or not, has its worktree and its row.
Outlives(r) ==
    \A n \in Number : proc[<<r, n>>] = "alive" =>
        <<r, n>> \in worktrees /\ attempt[RowOf(<<r, n>>)] # "cancelled"

LEMMA OwnersKeepRows ==
  ASSUME RecoveryInv, RowsKept, OneRepository, NEW r \in Run, OwnerStep(r)
  PROVE  RowsKept'
<1>1. TypeInv
  BY DEF RecoveryInv
<1>2. RunStep(r) \/ Quiescent(r) \/ UserStep(r)
  BY DEF OwnerStep, UserStep
<1> HIDE DEF TypeInv, RowKept
<1> QED
  BY <1>1, <1>2, RowsUntouched, RowsWritten, RowsInTheWorld DEF RunStep

\* Recovery writes no row to cancelled, and a crash writes none.
LEMMA OthersKeepRows ==
  ASSUME RecoveryInv, RowsKept, UNCHANGED worktrees,
         \A a \in Attempt : attempt'[a] = "cancelled" => attempt[a] = "cancelled",
         \/ UNCHANGED <<pc, num>>
         \/ \E r \in Run : /\ pc' = [pc EXCEPT ![r] = "killed"]
                            /\ num' = [num EXCEPT ![r] = 1]
  PROVE  RowsKept'
<1> SUFFICES ASSUME NEW s \in Run PROVE RowKept(s)'
  BY DEF RowsKept
<1>1. RowKept(s) /\ TypeInv /\ (pc[s] \in InAttempt => num[s] \in Number)
  BY CurrentIsAttempt DEF RowsKept, RecoveryInv
<1>2. <<s, 1>> \in Attempt
  BY FirstAttempt
<1>3. pc'[s] = "killed" \/ (pc'[s] = pc[s] /\ num'[s] = num[s])
  BY <1>1 DEF TypeInv, TypeOK
<1> QED
  BY <1>1, <1>2, <1>3, Tuples DEF RowKept, InAttempt

\* A run looks after its own living worker, by RowsKept, and spares those of
\* the others: its C5 pass sees their worktrees, and it removes only its own.
LEMMA OwnersSpareWorkers ==
  ASSUME RecoveryInv, RecoveryInv', RowsKept', OneRepository,
         NEW r \in Run, OwnerStep(r), NEW s \in Run, Outlives(s)
  PROVE  Outlives(s)'
<1> SUFFICES ASSUME NEW n \in Number, proc'[<<s, n>>] = "alive"
             PROVE  <<s, n>> \in worktrees' /\ attempt'[RowOf(<<s, n>>)] # "cancelled"
  BY DEF Outlives, RowOf
<1>1. OwnerMove(r) /\ TypeInv /\ OwnerInv(r) /\ OwnerInv(r)'
  BY DEF OwnerStep, OwnerMove, RecoveryInv
<1>2. pc[r] \notin {"done", "killed"} /\ pc'[r] # "killed"
  BY <1>1
  DEF OwnerStep, Live, RunStep, Precreate, ReadActive, Visit, Begin, InitialWake,
      Stopped, CreateWorktree, InsertAttempt, StartWorker, RecordWorker, ObserveExit,
      ObserveCancel, Quiescent, Recover, Validate, MarkWorker, Decide, Apply, Candidate,
      Tombstone, CloseAttempts, EndRun, EndTask, Cancel, TypeInv, TypeOK, localVars
<1>3. CASE s = r
  <2>1. pc'[r] # "done"
    <3>1. pc'[r] = "done" => pc[r] = "endTask" /\ proc' = proc
      BY <1>1, <1>2
      DEF OwnerMove, RunStep, Precreate, ReadActive, Visit, Begin, InitialWake,
          Stopped, CreateWorktree, InsertAttempt, StartWorker, RecordWorker, ObserveExit,
          ObserveCancel, Quiescent, Recover, Validate, MarkWorker, Decide, Apply, Candidate,
          Tombstone, CloseAttempts, EndRun, EndTask, Cancel, TypeInv, TypeOK, localVars,
          worldVars
    <3> QED
      BY <1>1, <1>2, <1>3, <3>1 DEF OwnerInv, RunInv, WorkerPlace
  <2>2. n = num'[r] /\ pc'[r] \in {"instruct", "observe", "recover"}
    BY <1>1, <1>2, <1>3, <2>1 DEF OwnerInv, RunInv, WorkerPlace
  <2> QED
    BY <1>3, <2>2 DEF RowsKept, RowKept, RowOf
<1>4. CASE s # r
  <2>1. proc[<<s, n>>] = "alive"
    BY <1>1, <1>4, OwnerKeepsOthers DEF OthersKept
  <2>2. <<s, n>> \in worktrees /\ attempt[RowOf(<<s, n>>)] # "cancelled"
    BY <2>1 DEF Outlives
  <2>3. <<s, n>> \in worktrees'
    <3>1. \/ worktrees' = worktrees
          \/ worktrees' = worktrees \cup {<<r, num[r]>>}
          \/ worktrees' = worktrees \ {<<r, num[r]>>}
      BY <1>1
      DEF OwnerMove, RunStep, Precreate, ReadActive, Visit, Begin, InitialWake,
          Stopped, CreateWorktree, InsertAttempt, StartWorker, RecordWorker, ObserveExit,
          ObserveCancel, Quiescent, Recover, Validate, MarkWorker, Decide, Apply, Candidate,
          Tombstone, CloseAttempts, EndRun, EndTask, Cancel, AddWorktree, RemoveWorktree,
          worldVars
    <3> QED
      BY <1>4, <2>2, <3>1
  <2>4. RowOf(<<s, n>>) \in Attempt /\ RowOf(<<s, n>>)[1] = s
    BY Tuples, RowIsAttempt
  <2>5. CASE Visit(r)
    <3>1. PICK a \in c5[r] : IF WorktreeExists(a, RepoOf[r])
                                THEN UNCHANGED attempt ELSE UpdateAttemptStatus(a, "cancelled")
      BY <2>5 DEF Visit
    <3>2. a \in Attempt
      BY <1>1, <3>1 DEF TypeInv, TypeOK
    <3>3. WorktreeExists(RowOf(<<s, n>>), RepoOf[r])
      BY <2>2 DEF WorktreeExists, RowOf, OneRepository
    <3>4. attempt'[RowOf(<<s, n>>)] = attempt[RowOf(<<s, n>>)]
      BY <1>1, <2>4, <3>1, <3>2, <3>3 DEF UpdateAttemptStatus, TypeInv, TypeOK, StoreTypeOK
    <3> QED
      BY <2>2, <2>3, <3>4
  <2>6. CASE ~Visit(r)
    <3>1. attempt'[RowOf(<<s, n>>)] = attempt[RowOf(<<s, n>>)]
      BY <1>1, <1>4, <2>4, <2>6, OwnerGrowsRows DEF RowsGrow, RecoveryInv, RecordsHeld
    <3> QED
      BY <2>2, <2>3, <3>1
  <2> QED
    BY <2>5, <2>6
<1> QED
  BY <1>3, <1>4

\* Recovery, kills and exits: no row is cancelled, no worktree removed, and no
\* worker started.
LEMMA RestOfRecovery ==
  ASSUME RecoveryInv, [RecoveryNext]_allVars, ~\E r \in Run : OwnerStep(r)
  PROVE  /\ UNCHANGED worktrees
         /\ \A a \in Attempt : attempt'[a] = "cancelled" => attempt[a] = "cancelled"
         /\ \A a \in Attempt : proc'[a] = "alive" => proc[a] = "alive"
         /\ \/ UNCHANGED <<pc, num>>
            \/ \E r \in Run : /\ pc' = [pc EXCEPT ![r] = "killed"]
                               /\ num' = [num EXCEPT ![r] = 1]
<1>1. ASSUME NEW r \in Run, Crash(r)
      PROVE  /\ UNCHANGED <<worktrees, attempt, proc>>
             /\ pc' = [pc EXCEPT ![r] = "killed"] /\ num' = [num EXCEPT ![r] = 1]
  BY <1>1 DEF Crash, Goto, storeVars, worldVars
<1>2. ASSUME NEW a \in Attempt, WorkerExits(a)
      PROVE  /\ UNCHANGED <<worktrees, attempt, pc, num>>
             /\ \A b \in Attempt : proc'[b] = "alive" => proc[b] = "alive"
  BY <1>2 DEF WorkerExits, RecoveryInv, TypeInv, TypeOK, storeVars, localVars
<1>3. ASSUME NEW a \in Attempt, WriteRow(a)
      PROVE  /\ UNCHANGED <<worktrees, proc, pc, num>>
             /\ \A b \in Attempt : attempt'[b] = "cancelled" => attempt[b] = "cancelled"
  <2>1. attempt' = attempt \/ \E s \in {"failed", "interrupted"} :
                                 attempt' = [attempt EXCEPT ![a] = s]
    BY <1>3, RowWritten
  <2> QED
    BY <1>3, <2>1 DEF WriteRow, RecoveryInv, TypeInv, TypeOK, StoreTypeOK, localVars, worldVars
<1>4. ASSUME MarkRunning
      PROVE  /\ UNCHANGED <<worktrees, proc, pc, num>>
             /\ \A b \in Attempt : attempt'[b] = "cancelled" => attempt[b] = "cancelled"
  BY <1>4 DEF MarkRunning, UpdateAttemptStatus, RecoveryInv, TypeInv, TypeOK, StoreTypeOK,
     localVars, worldVars
<1>5. \/ UNCHANGED <<worktrees, attempt, proc, pc, num>>
      \/ MarkRunning \/ \E r \in Run : Crash(r)
      \/ \E a \in Attempt : WriteRow(a) \/ WorkerExits(a)
  BY DEF RecoveryNext, RecoveryStep, Scan, ReadList, Reconciled, Reread, FallThrough,
     Resumed, Preserve, Interrupt, Refuse, Reown, RecoveryCrash, ObserverStep, ObserverExit,
     ObserverTimeout, allVars, vars, storeVars, localVars, worldVars
<1> QED
  BY <1>1, <1>2, <1>3, <1>4, <1>5

(* With one repository, the C5 pass of a run spares the rows of living     *)
(* workers, those of runs whose owner was killed included: neither a crash *)
(* nor a recovery takes a worktree away or cancels a row.                  *)
THEOREM OutlivingRowKeptHolds ==
  ASSUME OneRepository
  PROVE  RecoverySpec => []LivingRowKept
<1> DEFINE Inv == RecoveryInv /\ RowsKept /\ \A r \in Run : Outlives(r)
<1>1. RecoveryInit => Inv
  <2> SUFFICES ASSUME RecoveryInit PROVE Inv
    OBVIOUS
  <2>1. RecoveryInv
    BY InitRecovery
  <2>2. /\ \A r \in Run : pc[r] = "idle"
        /\ \A a \in Attempt : attempt[a] = "absent" /\ proc[a] = "none"
    BY DEF RecoveryInit, Init, StoreInit
  <2>3. RowsKept
    BY <2>2, FirstAttempt DEF RowsKept, RowKept
  <2>4. \A r \in Run : Outlives(r)
    BY <2>2, Tuples DEF Outlives
  <2> QED
    BY <2>1, <2>3, <2>4
<1>2. Inv /\ [RecoveryNext]_allVars => Inv'
  <2> SUFFICES ASSUME RecoveryInv, RowsKept, \A r \in Run : Outlives(r),
                      [RecoveryNext]_allVars
               PROVE  Inv'
    OBVIOUS
  <2>1. RecoveryInv'
    BY StepRecovery
  <2>2. CASE \E r \in Run : OwnerStep(r)
    <3>1. PICK r \in Run : OwnerStep(r)
      BY <2>2
    <3>2. RowsKept'
      BY <3>1, OneRepository, OwnersKeepRows
    <3>3. \A s \in Run : Outlives(s)'
      BY <2>1, <3>1, <3>2, OneRepository, OwnersSpareWorkers
    <3> QED
      BY <2>1, <3>2, <3>3
  <2>3. CASE ~\E r \in Run : OwnerStep(r)
    <3>1. /\ UNCHANGED worktrees
          /\ \A a \in Attempt : attempt'[a] = "cancelled" => attempt[a] = "cancelled"
          /\ \A a \in Attempt : proc'[a] = "alive" => proc[a] = "alive"
          /\ \/ UNCHANGED <<pc, num>>
             \/ \E r \in Run : /\ pc' = [pc EXCEPT ![r] = "killed"]
                                /\ num' = [num EXCEPT ![r] = 1]
      BY <2>3, RestOfRecovery
    <3>2. RowsKept'
      BY <3>1, OthersKeepRows
    <3>3. \A s \in Run : Outlives(s)'
      BY <3>1, Tuples, RowIsAttempt DEF Outlives, RowOf
    <3> QED
      BY <2>1, <3>2, <3>3
  <2> QED
    BY <2>2, <2>3
<1>3. Inv => LivingRowKept
  BY DEF Outlives, LivingRowKept, Attempt
<1> QED
  BY <1>1, <1>2, <1>3, PTL DEF RecoverySpec
=============================================================================
