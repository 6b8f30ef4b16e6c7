---------------------------- MODULE SupervisedProofs ----------------------------
(***************************************************************************)
(* Proofs about one observed worker: for channels of any capacity, any     *)
(* behaviour of the process, and a cancellation at any step.               *)
(***************************************************************************)
EXTENDS Supervised, TLAPS

(***************************************************************************)
(* The invariant                                                           *)
(***************************************************************************)

\* Before Start there is nothing to watch, to read from or to close.
Unstarted ==
    /\ proc = "none" <=> watcher = "none"
    /\ proc = "none" => loop = "start" /\ reader = "none" /\ closer = "none"
    /\ loop = "start" => sup = "none" /\ current = "UNKNOWN" /\ events = <<>>
                         /\ closer = "none" /\ ~exited

\* What each stage of watchExit has done.
WatcherStages ==
    /\ watcher \in {"cancel", "close", "drain", "report", "ended"} => Dead
    /\ done <=> watcher = "ended"
    /\ done => exitVal = proc

\* r.closed is set by a call of Close or, once the process is dead, by
\* watchExit; a call that has returned leaves it dead; one that has not is
\* being waited for.
CloserStages ==
    /\ closer # "none" => closed
    /\ closed /\ closer = "none" => Dead
    /\ closer \in {"await", "returned"} => Dead
    /\ closer \in {"peek", "hangup", "grace", "kill", "await"} => loop \in {"close", "stop"}

\* A terminal state is emitted once, truly, and as the last.
LastEmission ==
    /\ current \in Terminal =>
         /\ done /\ (current = "EXITED" <=> proc = "exit0")
         /\ sup = "ended" \/ (sup = "send" /\ ending)
    /\ \A i \in 1 .. Len(events) : events[i] \in Terminal => sup = "ended" /\ done

SupInv ==
    /\ TypeOK /\ Unstarted /\ WatcherStages /\ CloserStages /\ LastEmission
    /\ ExitTruth /\ StoppedIsDead

USE EventCapAssumption, OutputCapAssumption

LEMMA InitInv == Init => SupInv
<1> SUFFICES ASSUME Init PROVE SupInv
  OBVIOUS
<1>1. events \in Seq(State) /\ Len(events) = 0
  BY DEF Init
<1>2. TypeOK
  <2>1. RuntimeTypeOK
    <3>1. /\ ptmxOpen \in BOOLEAN /\ ctxDone \in BOOLEAN /\ closed \in BOOLEAN
          /\ done \in BOOLEAN
      BY Zenon DEF Init, RuntimeInit
    <3> QED
      BY <3>1 DEF Init, RuntimeInit, RuntimeTypeOK
  <2>2. silent \in BOOLEAN /\ ending \in BOOLEAN /\ cancelled \in BOOLEAN /\ exited \in BOOLEAN
    BY Zenon DEF Init
  <2> QED
    BY <1>1, <2>1, <2>2 DEF Init, TypeOK, State
<1>3. Unstarted /\ WatcherStages /\ CloserStages /\ StoppedIsDead
  BY DEF Init, RuntimeInit, Unstarted, WatcherStages, CloserStages, StoppedIsDead
<1>4. LastEmission /\ ExitTruth
  BY <1>1 DEF Init, Terminal, LastEmission, ExitTruth
<1> QED
  BY <1>2, <1>3, <1>4 DEF SupInv

(***************************************************************************)
(* The process and its reader                                              *)
(***************************************************************************)

\* Whoever is dead stays what it is.
LEMMA ProcessSteps ==
  ASSUME SupInv, Start \/ ProcessEnds \/ HangupEnds, UNCHANGED <<superVars, loopVars>>
  PROVE  SupInv'
<1> USE DEF SupInv, TypeOK, RuntimeTypeOK, Unstarted, WatcherStages, CloserStages,
        LastEmission, ExitTruth, StoppedIsDead, Dead, superVars, loopVars
<1>1. CASE Start
  BY <1>1 DEF Start
<1>2. CASE ProcessEnds
  BY <1>2 DEF ProcessEnds
<1>3. CASE HangupEnds
  BY <1>3 DEF HangupEnds
<1> QED
  BY <1>1, <1>2, <1>3

LEMMA ReaderSteps ==
  ASSUME SupInv, ReadLine \/ SendLine \/ ReaderEnds, UNCHANGED <<superVars, loopVars>>
  PROVE  SupInv'
<1> USE DEF SupInv, TypeOK, RuntimeTypeOK, Unstarted, WatcherStages, CloserStages,
        LastEmission, ExitTruth, StoppedIsDead, Dead, superVars, loopVars
<1>1. CASE ReadLine
  BY <1>1 DEF ReadLine
<1>2. CASE SendLine
  BY <1>2 DEF SendLine
<1>3. CASE ReaderEnds
  BY <1>3 DEF ReaderEnds
<1> QED
  BY <1>1, <1>2, <1>3

(***************************************************************************)
(* watchExit and Close                                                     *)
(***************************************************************************)

LEMMA WatcherSteps ==
  ASSUME SupInv, WatchExit, UNCHANGED <<superVars, loopVars>>
  PROVE  SupInv'
<1> USE DEF SupInv, TypeOK, RuntimeTypeOK, Unstarted, WatcherStages, CloserStages,
        LastEmission, ExitTruth, StoppedIsDead, Dead, superVars, loopVars
<1>1. CASE Reap
  BY <1>1 DEF Reap
<1>2. CASE CancelReader
  BY <1>2 DEF CancelReader
<1>3. CASE ClosePty
  <2>1. ptmxOpen' \in BOOLEAN /\ closed' \in BOOLEAN /\ closed'
    BY <1>3, Zenon DEF ClosePty
  <2>2. TypeOK'
    BY <1>3, <2>1 DEF ClosePty
  <2>3. UNCHANGED <<proc, done, exitVal, reader, closer>> /\ watcher = "close" /\ watcher' = "drain"
    BY <1>3 DEF ClosePty
  <2>4. (Unstarted /\ WatcherStages /\ CloserStages)'
    BY <2>1, <2>3
  <2>5. (LastEmission /\ ExitTruth /\ StoppedIsDead)'
    BY <2>3
  <2> QED
    BY <2>2, <2>4, <2>5
<1>4. CASE Drain
  BY <1>4 DEF Drain
<1>5. CASE Report
  BY <1>5 DEF Report
<1> QED
  BY <1>1, <1>2, <1>3, <1>4, <1>5 DEF WatchExit

LEMMA CloserSteps ==
  ASSUME SupInv, CloseStep, UNCHANGED <<superVars, loopVars>>
  PROVE  SupInv'
<1> USE DEF SupInv, TypeOK, RuntimeTypeOK, Unstarted, WatcherStages, CloserStages,
        LastEmission, ExitTruth, StoppedIsDead, Dead, superVars, loopVars
<1>1. CASE ClosePeek
  BY <1>1 DEF ClosePeek
<1>2. CASE CloseHangup
  <2>1. ptmxOpen' \in BOOLEAN /\ ctxDone' \in BOOLEAN
    BY <1>2, Zenon DEF CloseHangup
  <2>2. TypeOK'
    BY <1>2, <2>1 DEF CloseHangup
  <2> QED
    BY <1>2, <2>2 DEF CloseHangup
<1>3. CASE CloseGrace
  BY <1>3 DEF CloseGrace
<1>4. CASE CloseKill
  BY <1>4 DEF CloseKill
<1>5. CASE CloseAwait
  BY <1>5 DEF CloseAwait
<1> QED
  BY <1>1, <1>2, <1>3, <1>4, <1>5 DEF CloseStep

(***************************************************************************)
(* Observe                                                                 *)
(***************************************************************************)

\* emit keeps what was said of the last emission if a terminal state it is
\* given is that of the process.
LEMMA EmitSteps ==
  ASSUME SupInv, sup \in {"boot", "select"}, NEW to \in State, NEW last \in BOOLEAN,
         Emit(to, last), UNCHANGED <<events, silent, loopVars, proc, done, exitVal>>,
         to \in Terminal => last /\ done /\ (to = "EXITED" <=> proc = "exit0")
  PROVE  LastEmission' /\ sup' \in {"send", "ended", "select"} /\ current' \in State
         /\ ending' \in BOOLEAN
  BY DEF SupInv, LastEmission, Emit, TypeOK, State, Terminal

LEMMA ObserveSteps ==
  ASSUME SupInv, Observe
  PROVE  SupInv'
<1> USE DEF SupInv
<1>1. CASE SupBoot \/ SupCancelled \/ SupExit \/ SupTick
  <2>1. UNCHANGED <<runtimeVars, silent, events, loopVars>>
    BY <1>1 DEF SupBoot, SupCancelled, SupExit, SupTick
  <2>2. LastEmission' /\ sup' \in {"send", "ended", "select"} /\ current' \in State
        /\ ending' \in BOOLEAN
    <3>1. done => Dead /\ exitVal = proc
      BY DEF WatcherStages
    <3>2. CASE SupBoot
      BY <2>1, <3>1, <3>2, EmitSteps
         DEF SupBoot, ExitState, State, Terminal, runtimeVars
    <3>3. CASE SupCancelled
      BY <2>1, <3>3, EmitSteps DEF SupCancelled, State, Terminal, runtimeVars
    <3>4. CASE SupExit
      BY <2>1, <3>1, <3>4, EmitSteps DEF SupExit, ExitState, State, Terminal, runtimeVars
    <3>5. CASE SupTick
      BY <2>1, <3>5, EmitSteps DEF SupTick, State, Terminal, runtimeVars
    <3> QED
      BY <1>1, <3>2, <3>3, <3>4, <3>5
  <2>3. sup # "none" /\ loop # "start"
    BY <1>1 DEF SupBoot, SupCancelled, SupExit, SupTick, Unstarted
  <2> QED
    BY <2>1, <2>2, <2>3 DEF TypeOK, RuntimeTypeOK, Unstarted, WatcherStages, CloserStages,
       ExitTruth, StoppedIsDead, Dead, runtimeVars, loopVars
<1>2. CASE SupOutput
  <2>1. LastEmission' /\ sup' \in {"send", "ended", "select"} /\ current' \in State
        /\ ending' \in BOOLEAN
    BY <1>2 DEF SupOutput, LastEmission, Emit, TypeOK, State, Terminal, loopVars
  <2>2. sup # "none" /\ loop # "start"
    BY <1>2 DEF SupOutput, Unstarted
  <2>3. TypeOK'
    <3>1. silent' \in BOOLEAN
      BY <1>2, Zenon DEF SupOutput
    <3> QED
      BY <1>2, <2>1, <3>1 DEF SupOutput, TypeOK, RuntimeTypeOK, loopVars
  <2> QED
    BY <1>2, <2>1, <2>2, <2>3 DEF SupOutput, Unstarted, WatcherStages,
       CloserStages, ExitTruth, StoppedIsDead, Dead, loopVars
<1>3. CASE SupSend
  <2>1. CASE UNCHANGED events
    BY <1>3, <2>1 DEF SupSend, TypeOK, RuntimeTypeOK, Unstarted, WatcherStages,
       CloserStages, LastEmission, ExitTruth, StoppedIsDead, Dead, runtimeVars, loopVars
  <2>2. CASE Len(events) < EventCap /\ events' = Append(events, current)
    <3>1. /\ events' \in Seq(State) /\ Len(events') = Len(events) + 1
          /\ \A i \in 1 .. Len(events) : events'[i] = events[i]
          /\ events'[Len(events) + 1] = current
      BY <2>2 DEF TypeOK
    <3>2. TypeOK'
      BY <1>3, <2>2, <3>1 DEF SupSend, TypeOK, RuntimeTypeOK, runtimeVars, loopVars
    <3>3. \A i \in 1 .. Len(events) : events[i] \notin Terminal
      BY <1>3 DEF SupSend, LastEmission
    <3>4. current \in Terminal => sup' = "ended" /\ done /\ Dead /\ (current = "EXITED" <=> proc = "exit0")
      BY <1>3 DEF SupSend, LastEmission, WatcherStages
    <3>5. \A i \in 1 .. Len(events') : events'[i] \in Terminal =>
            i = Len(events') /\ sup' = "ended" /\ done /\ (events'[i] = "EXITED" <=> proc = "exit0")
      BY <3>1, <3>3, <3>4 DEF TypeOK
    <3> QED
      BY <1>3, <3>2, <3>4, <3>5 DEF SupSend, Unstarted, WatcherStages, CloserStages, LastEmission,
         ExitTruth, StoppedIsDead, Dead, runtimeVars, loopVars
  <2> QED
    BY <1>3, <2>1, <2>2 DEF SupSend
<1> QED
  BY <1>1, <1>2, <1>3 DEF Observe

(***************************************************************************)
(* observeAndWait and Recover                                              *)
(***************************************************************************)

LEMMA LoopSteps ==
  ASSUME SupInv, Loop
  PROVE  SupInv'
<1> USE DEF SupInv
<1>1. CASE LoopReceive
  <2>1. CASE events # <<>>
    <3>1. /\ events' = Tail(events) /\ events' \in Seq(State) /\ Len(events') = Len(events) - 1
          /\ \A i \in 1 .. Len(events') : events'[i] = events[i + 1] /\ i + 1 \in 1 .. Len(events)
      BY <1>1, <2>1 DEF LoopReceive, TypeOK
    <3>2. loop' \in {"wait", "wake", "receive"}
      BY <1>1, <2>1 DEF LoopReceive
    <3>3. TypeOK'
      <4>1. Len(events') <= EventCap /\ Len(events) \in Nat
        BY <3>1 DEF TypeOK
      <4>2. UNCHANGED <<runtimeVars, sup, current, silent, ending, cancelled, exited, exitCode>>
        BY <1>1 DEF LoopReceive
      <4> QED
        BY <3>1, <3>2, <4>1, <4>2 DEF TypeOK, RuntimeTypeOK, runtimeVars
    <3>4. \A i \in 1 .. Len(events') : events'[i] \in Terminal =>
            i = Len(events') /\ sup = "ended" /\ done /\ (events'[i] = "EXITED" <=> proc = "exit0")
      <4> TAKE i \in 1 .. Len(events')
      <4>1. events'[i] = events[i + 1] /\ i + 1 \in 1 .. Len(events)
        BY <3>1
      <4>2. events[i + 1] \in Terminal =>
              i + 1 = Len(events) /\ sup = "ended" /\ done /\ (events[i + 1] = "EXITED" <=> proc = "exit0")
        <5>1. events[i + 1] \in Terminal =>
                /\ i + 1 = Len(events)
                /\ events[i + 1] = "EXITED" <=> proc = "exit0"
          BY <4>1, Zenon DEF ExitTruth
        <5>2. events[i + 1] \in Terminal => sup = "ended" /\ done
          BY <4>1, Zenon DEF LastEmission
        <5> QED
          BY <5>1, <5>2
      <4>3. i + 1 = Len(events) => i = Len(events')
        <5>1. Len(events) \in Nat /\ Len(events') = Len(events) - 1
          BY <3>1 DEF TypeOK
        <5> QED
          BY <5>1
      <4> QED
        BY <4>1, <4>2, <4>3
    <3> QED
      BY <1>1, <3>2, <3>3, <3>4 DEF LoopReceive, Unstarted, WatcherStages, CloserStages,
         LastEmission, ExitTruth, StoppedIsDead, Dead, runtimeVars
  <2>2. CASE events = <<>>
    BY <1>1, <2>2 DEF LoopReceive, TypeOK, RuntimeTypeOK, Unstarted, WatcherStages,
       CloserStages, LastEmission, ExitTruth, StoppedIsDead, Dead, runtimeVars
  <2> QED
    BY <2>1, <2>2
<1> USE DEF TypeOK, RuntimeTypeOK, Unstarted, WatcherStages, CloserStages, LastEmission,
        ExitTruth, StoppedIsDead, Dead, runtimeVars, superVars
<1>2. CASE LoopStart
  BY <1>2 DEF LoopStart, Terminal
<1>3. CASE LoopWait
  BY <1>3 DEF LoopWait
<1>4. CASE LoopWake \/ LoopSleep
  BY <1>4 DEF LoopWake, LoopSleep
<1>5. CASE LoopClose
  <2>1. loop' \in {"close", "wait"} /\ closed' \in BOOLEAN
    BY <1>5 DEF LoopClose, CloseEnter
  <2>2. TypeOK'
    BY <1>5, <2>1 DEF LoopClose, CloseEnter
  <2> QED
    BY <1>5, <2>1, <2>2 DEF LoopClose, CloseEnter
<1>6. CASE LoopRecover
  <2>1. CASE closed
    BY <1>6, <2>1 DEF LoopRecover
  <2>2. CASE ~closed
    <3>1. closed' \in BOOLEAN /\ closed'
      BY <1>6, <2>2, Zenon DEF LoopRecover, CloseEnter
    <3>2. TypeOK'
      BY <1>6, <2>2, <3>1 DEF LoopRecover, CloseEnter
    <3> QED
      BY <1>6, <2>2, <3>1, <3>2 DEF LoopRecover, CloseEnter
  <2> QED
    BY <2>1, <2>2
<1>7. CASE LoopStopped
  BY <1>7 DEF LoopStopped
<1>8. CASE LoopReturn
  <2>1. cancelled' \in BOOLEAN
    BY <1>8, Zenon DEF LoopReturn
  <2>2. TypeOK'
    BY <1>8, <2>1 DEF LoopReturn
  <2> QED
    BY <1>8, <2>2 DEF LoopReturn
<1> QED
  BY <1>1, <1>2, <1>3, <1>4, <1>5, <1>6, <1>7, <1>8 DEF Loop

LEMMA NextInv == SupInv /\ [Next]_vars => SupInv'
<1> SUFFICES ASSUME SupInv, [Next]_vars PROVE SupInv'
  OBVIOUS
<1>1. CASE Worker
  BY <1>1, ProcessSteps, ReaderSteps, WatcherSteps, CloserSteps DEF Worker
<1>2. CASE Silence \/ Cancel \/ UNCHANGED vars
  <2>1. /\ UNCHANGED <<runtimeVars, sup, current, ending, events, loop, exited, exitCode>>
        /\ silent' \in BOOLEAN /\ cancelled' \in BOOLEAN
    <3>1. CASE Silence
      BY <3>1, Zenon DEF Silence, loopVars, SupInv, TypeOK
    <3>2. CASE Cancel
      BY <3>2, Zenon DEF Cancel, superVars, SupInv, TypeOK
    <3>3. CASE UNCHANGED vars
      BY <3>3, Zenon DEF vars, superVars, loopVars, SupInv, TypeOK
    <3> QED
      BY <1>2, <3>1, <3>2, <3>3
  <2> QED
    BY <2>1 DEF runtimeVars, SupInv, TypeOK, RuntimeTypeOK, Unstarted, WatcherStages,
       CloserStages, LastEmission, ExitTruth, StoppedIsDead, Dead
<1> QED
  BY <1>1, <1>2, ObserveSteps, LoopSteps DEF Next

(***************************************************************************)
(* The theorems                                                            *)
(***************************************************************************)

THEOREM Supervision == Spec => []SupInv
<1> QED
  BY InitInv, NextInv, PTL DEF Spec

\* TypeOK of Supervised: also, the two channels never hold more than they can.
THEOREM TypeCorrect == Spec => []TypeOK
<1>1. SupInv => TypeOK
  BY DEF SupInv
<1> QED
  BY <1>1, Supervision, PTL

\* What the loop takes for an exit is one (emit, observeAndWait).
THEOREM ExitTruthHolds == Spec => []ExitTruth
<1>1. SupInv => ExitTruth
  BY DEF SupInv
<1> QED
  BY <1>1, Supervision, PTL

\* No living worker is left behind by Recover (Recover, Close).
THEOREM StoppedIsDeadHolds == Spec => []StoppedIsDead
<1>1. SupInv => StoppedIsDead
  BY DEF SupInv
<1> QED
  BY <1>1, Supervision, PTL
=============================================================================
