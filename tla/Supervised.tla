------------------------------ MODULE Supervised ------------------------------
(***************************************************************************)
(* One attempt's worker under observation: the Runtime, the goroutine of   *)
(* Supervisor.Observe (internal/supervisor/supervisor.go) and the loop of  *)
(* observeAndWait (internal/orchestrator/orchestrator.go 470-523) that     *)
(* reads its events, down to Recover, which stops the worker.              *)
(***************************************************************************)
EXTENDS WorkerRuntime, Sequences

CONSTANT EventCap  \* capacity of the event channel, 16 in Observe

ASSUME EventCapAssumption == EventCap \in Nat \ {0}

VARIABLES
    sup,       \* Observe: "none", "boot", "select", "send", "return", "ended"
    current,   \* the state it last emitted
    silent,    \* no line was received for QuiescenceTimeout
    ending,    \* it returns after the send
    events,    \* the event channel
    cancelled, \* the context of the loop and the supervisor
    loop,      \* observeAndWait, by statement
    exited, exitCode  \* its locals

superVars == <<sup, current, silent, ending, events>>
loopVars  == <<cancelled, loop, exited, exitCode>>
vars == <<runtimeVars, superVars, loopVars>>

Terminal == {"EXITED", "CRASHED"}
State    == {"UNKNOWN", "ACTIVE", "QUIESCENT_CANDIDATE"} \cup Terminal

TypeOK ==
    /\ RuntimeTypeOK
    /\ sup \in {"none", "boot", "select", "send", "ended"}
    /\ current \in State /\ silent \in BOOLEAN /\ ending \in BOOLEAN
    /\ cancelled \in BOOLEAN /\ exited \in BOOLEAN
    /\ events \in Seq(State) /\ Len(events) <= EventCap
    /\ loop \in {"start", "receive", "wait", "wake", "sleep", "close", "recover",
                 "stop", "validate", "returned"}
    /\ exitCode \in {"zero", "other"}

Init ==
    /\ RuntimeInit
    /\ sup = "none" /\ current = "UNKNOWN" /\ silent = FALSE /\ ending = FALSE
    /\ events = <<>>
    /\ cancelled = FALSE /\ loop = "start" /\ exited = FALSE /\ exitCode = "zero"

-----------------------------------------------------------------------------
(* Observe *)

\* emit: nothing for a repeated state or after a terminal one.
Emit(to, last) ==
    LET mute == current = to \/ current \in Terminal IN
    /\ current' = IF mute THEN current ELSE to
    /\ sup' = IF ~mute THEN "send" ELSE IF last THEN "ended" ELSE "select"
    /\ ending' = last

ExitState == IF exitVal = "exit0" THEN "EXITED" ELSE "CRASHED"

\* The bootstrap: a process that has exited is reported without ACTIVE.
SupBoot ==
    /\ sup = "boot"
    /\ IF done THEN Emit(ExitState, TRUE) ELSE Emit("ACTIVE", FALSE)
    /\ UNCHANGED <<runtimeVars, silent, events, loopVars>>

SupCancelled ==
    /\ sup = "select" /\ cancelled
    /\ Emit("UNKNOWN", TRUE)
    /\ UNCHANGED <<runtimeVars, silent, events, loopVars>>

\* A closed output channel is received from again and again, to no effect.
SupOutput ==
    /\ sup = "select" /\ output > 0
    /\ output' = output - 1
    /\ silent' = FALSE
    /\ Emit("ACTIVE", FALSE)
    /\ UNCHANGED <<proc, ptmxOpen, ctxDone, closed, done, exitVal,
                   reader, watcher, closer, events, loopVars>>

\* Seeded fault: every exit that was seen counts as clean.
SupExitClean ==
    /\ sup = "select" /\ done
    /\ Emit("EXITED", TRUE)
    /\ UNCHANGED <<runtimeVars, silent, events, loopVars>>

SupExit ==
    /\ sup = "select" /\ done
    /\ Emit(ExitState, TRUE)
    /\ UNCHANGED <<runtimeVars, silent, events, loopVars>>

SupTick ==
    /\ sup = "select" /\ silent /\ current = "ACTIVE"
    /\ Emit("QUIESCENT_CANDIDATE", FALSE)
    /\ UNCHANGED <<runtimeVars, silent, events, loopVars>>

\* Seeded fault: the send does not look at the context.
SupSendBlocking ==
    /\ sup = "send"
    /\ Len(events) < EventCap /\ events' = Append(events, current)
    /\ sup' = IF ending THEN "ended" ELSE "select"
    /\ UNCHANGED <<runtimeVars, current, silent, ending, loopVars>>

\* The send of emit: it waits for room, or drops the event when cancelled.
SupSend ==
    /\ sup = "send"
    /\ \/ Len(events) < EventCap /\ events' = Append(events, current)
       \/ cancelled /\ UNCHANGED events
    /\ sup' = IF ending THEN "ended" ELSE "select"
    /\ UNCHANGED <<runtimeVars, current, silent, ending, loopVars>>

\* QuiescenceTimeout passes since the last line received.
Silence ==
    /\ sup # "none" /\ ~silent
    /\ silent' = TRUE
    /\ UNCHANGED <<runtimeVars, sup, current, ending, events, loopVars>>

Observe == SupBoot \/ SupCancelled \/ SupOutput \/ SupExit \/ SupTick \/ SupSend

-----------------------------------------------------------------------------
(* observeAndWait *)

\* createAttempt started the worker.
LoopStart ==
    /\ loop = "start" /\ proc # "none"
    /\ loop' = "receive" /\ sup' = "boot"
    /\ UNCHANGED <<runtimeVars, current, silent, ending, events, cancelled, exited, exitCode>>

LoopReceive ==
    /\ loop = "receive"
    /\ \/ /\ events # <<>>
          /\ events' = Tail(events)
          /\ loop' = CASE Head(events) \in Terminal -> "wait"
                       [] Head(events) = "QUIESCENT_CANDIDATE" -> "wake"
                       [] OTHER -> "receive"
       \/ /\ events = <<>> /\ sup = "ended"
          /\ loop' = "recover"
          /\ UNCHANGED events
    /\ UNCHANGED <<runtimeVars, sup, current, silent, ending, cancelled, exited, exitCode>>

\* Seeded fault: the event is kept in the place of its code.
LoopWaitRaw ==
    /\ loop = "wait" /\ done
    /\ loop' = "recover"
    /\ exited' = TRUE /\ exitCode' = exitVal
    /\ UNCHANGED <<runtimeVars, superVars, cancelled>>

\* rt.Wait, after a terminal event and after RETRY_CLEAN.
LoopWait ==
    /\ loop = "wait" /\ done
    /\ loop' = "recover"
    /\ exited' = TRUE
    /\ exitCode' = IF exitVal = "exit0" THEN "zero" ELSE "other"
    /\ UNCHANGED <<runtimeVars, superVars, cancelled>>

\* CONTINUE, RETRY_CLEAN, or any other answer or none.
LoopWake ==
    /\ loop = "wake"
    /\ loop' \in {"sleep", "close", "receive"}
    /\ UNCHANGED <<runtimeVars, superVars, cancelled, exited, exitCode>>

LoopSleep ==
    /\ loop = "sleep"
    /\ loop' = "receive"
    /\ UNCHANGED <<runtimeVars, superVars, cancelled, exited, exitCode>>

LoopClose ==
    /\ loop = "close"
    /\ \/ closer = "none" /\ CloseEnter /\ UNCHANGED loop
       \/ closer = "returned" /\ loop' = "wait" /\ UNCHANGED runtimeVars
    /\ UNCHANGED <<superVars, cancelled, exited, exitCode>>

\* Recover: Stop, which skips a runtime that is closed, then the validator.
LoopRecover ==
    /\ loop = "recover"
    /\ IF closed
         THEN loop' = "validate" /\ UNCHANGED runtimeVars
         ELSE loop' = "stop" /\ CloseEnter
    /\ UNCHANGED <<superVars, cancelled, exited, exitCode>>

LoopStopped ==
    /\ loop = "stop" /\ closer = "returned"
    /\ loop' = "validate"
    /\ UNCHANGED <<runtimeVars, superVars, cancelled, exited, exitCode>>

\* The deferred cancel.
LoopReturn ==
    /\ loop = "validate"
    /\ loop' = "returned" /\ cancelled' = TRUE
    /\ UNCHANGED <<runtimeVars, superVars, exited, exitCode>>

Loop == LoopStart \/ LoopReceive \/ LoopWait \/ LoopWake \/ LoopSleep
        \/ LoopClose \/ LoopRecover \/ LoopStopped \/ LoopReturn

\* The run's own context: SIGINT, Cancel or Shutdown.
Cancel ==
    /\ ~cancelled /\ loop # "start"
    /\ cancelled' = TRUE
    /\ UNCHANGED <<runtimeVars, superVars, loop, exited, exitCode>>

-----------------------------------------------------------------------------

Worker == (Start \/ ProcessEnds \/ HangupEnds \/ ReadLine \/ SendLine \/ ReaderEnds
              \/ WatchExit \/ CloseStep)
          /\ UNCHANGED <<superVars, loopVars>>

Next == Worker \/ Observe \/ Silence \/ Loop \/ Cancel

Spec == Init /\ [][Next]_vars

\* The goroutines run on; nothing makes a worker write, exit or heed a
\* hangup, the user cancel, or time pass in silence.
FairSpec ==
    /\ Spec
    /\ WF_vars((SendLine \/ ReaderEnds) /\ UNCHANGED <<superVars, loopVars>>)
    /\ WF_vars(WatchExit /\ UNCHANGED <<superVars, loopVars>>)
    /\ WF_vars(CloseStep /\ UNCHANGED <<superVars, loopVars>>)
    /\ WF_vars(Observe) /\ WF_vars(Loop)

-----------------------------------------------------------------------------
(* Properties *)

\* What the loop takes for an exit is one: the code it reads is the code of
\* the process, and a terminal event names the kind of exit; nothing follows
\* it on the channel (emit, observeAndWait 484-491).
ExitTruth ==
    /\ exited => Dead /\ (exitCode = "zero" <=> proc = "exit0")
    /\ \A i \in 1 .. Len(events) : events[i] \in Terminal =>
         /\ i = Len(events)
         /\ events[i] = "EXITED" <=> proc = "exit0"

\* Recover leaves no living worker behind, whichever way the loop ended and
\* whoever closed the runtime first (Recover 57-67, Close 247-314).
StoppedIsDead == loop \in {"validate", "returned"} => Dead

\* The death of a worker ends the loop, whatever was queued before it, also
\* while the coordinator is asked or the loop sleeps.
ExitSeen == Dead ~> loop = "returned"

\* The supervisor's goroutine never outlives its attempt for long.
SupervisorEnds == loop = "returned" ~> sup = "ended"
=============================================================================
