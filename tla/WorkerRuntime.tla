---------------------------- MODULE WorkerRuntime ----------------------------
(***************************************************************************)
(* One worker process and its Runtime (internal/runtime/runtime.go): the   *)
(* PTY, the goroutines readOutput and watchExit, and Start, Close, Stop    *)
(* and Wait as the orchestrator calls them, all from one goroutine.        *)
(*                                                                         *)
(* A line of output is only a count, bounded by the channel's own          *)
(* capacity.  Time appears as the choice of a timeout.  SIGKILL ends a     *)
(* process, and a closed PTY ends a blocked Read.  Attach, which only      *)
(* recovery calls, Write and Interrupt are outside this module.            *)
(***************************************************************************)
EXTENDS Integers

CONSTANT OutputCap  \* capacity of the output channel, 64 in Start

ASSUME OutputCapAssumption == OutputCap \in Nat \ {0}

VARIABLES
    proc,      \* the process: "none", "alive", "exit0", "crashed", "killed"
    ptmxOpen,  \* the PTY master
    ctxDone,   \* r.ctx is cancelled
    closed,    \* r.closed
    done,      \* r.done is closed
    exitVal,   \* r.exitVal, "none" until it is stored
    output,    \* lines in r.output
    reader,    \* readOutput: "none", "reading", "sending", "ended"
    watcher,   \* watchExit: "none", "wait", "cancel", "close", "drain", "report", "ended"
    closer     \* the call of Close: "none", "peek", "hangup", "grace", "kill", "await", "returned"

runtimeVars == <<proc, ptmxOpen, ctxDone, closed, done, exitVal, output,
                 reader, watcher, closer>>

Dead == proc \in {"exit0", "crashed", "killed"}

RuntimeTypeOK ==
    /\ proc \in {"none", "alive", "exit0", "crashed", "killed"}
    /\ ptmxOpen \in BOOLEAN /\ ctxDone \in BOOLEAN /\ closed \in BOOLEAN
    /\ done \in BOOLEAN
    /\ exitVal \in {"none", "exit0", "crashed", "killed"}
    /\ output \in 0 .. OutputCap
    /\ reader \in {"none", "reading", "sending", "ended"}
    /\ watcher \in {"none", "wait", "cancel", "close", "drain", "report", "ended"}
    /\ closer \in {"none", "peek", "hangup", "grace", "kill", "await", "returned"}

RuntimeInit ==
    /\ proc = "none" /\ exitVal = "none"
    /\ ptmxOpen = FALSE /\ ctxDone = FALSE /\ closed = FALSE
    /\ done = FALSE /\ output = 0
    /\ reader = "none" /\ watcher = "none" /\ closer = "none"

-----------------------------------------------------------------------------
(* The process *)

Start ==
    /\ proc = "none"
    /\ proc' = "alive" /\ ptmxOpen' = TRUE
    /\ reader' = "reading" /\ watcher' = "wait"
    /\ UNCHANGED <<ctxDone, closed, done, exitVal, output, closer>>

ProcessEnds ==
    /\ proc = "alive"
    /\ proc' \in {"exit0", "crashed"}
    /\ UNCHANGED <<ptmxOpen, ctxDone, closed, done, exitVal, output,
                   reader, watcher, closer>>

\* A process may ignore the hangup of its terminal.
HangupEnds ==
    /\ proc = "alive" /\ ~ptmxOpen
    /\ proc' \in {"exit0", "crashed", "killed"}
    /\ UNCHANGED <<ptmxOpen, ctxDone, closed, done, exitVal, output,
                   reader, watcher, closer>>

-----------------------------------------------------------------------------
(* readOutput *)

ReadLine ==
    /\ reader = "reading" /\ ptmxOpen /\ ~ctxDone
    /\ reader' = "sending"
    /\ UNCHANGED <<proc, ptmxOpen, ctxDone, closed, done, exitVal, output,
                   watcher, closer>>

\* A full channel drops the line.
SendLine ==
    /\ reader = "sending"
    /\ reader' = "reading"
    /\ output' = IF output < OutputCap THEN output + 1 ELSE output
    /\ UNCHANGED <<proc, ptmxOpen, ctxDone, closed, done, exitVal, watcher, closer>>

ReaderEnds ==
    /\ reader = "reading"
    /\ ~ptmxOpen \/ ctxDone \/ Dead
    /\ reader' = "ended"
    /\ UNCHANGED <<proc, ptmxOpen, ctxDone, closed, done, exitVal, output,
                   watcher, closer>>

-----------------------------------------------------------------------------
(* watchExit *)

Reap ==
    /\ watcher = "wait" /\ Dead
    /\ watcher' = "cancel"
    /\ UNCHANGED <<proc, ptmxOpen, ctxDone, closed, done, exitVal, output,
                   reader, closer>>

CancelReader ==
    /\ watcher = "cancel"
    /\ watcher' = "close" /\ ctxDone' = TRUE
    /\ UNCHANGED <<proc, ptmxOpen, closed, done, exitVal, output, reader, closer>>

ClosePty ==
    /\ watcher = "close"
    /\ watcher' = "drain" /\ ptmxOpen' = FALSE /\ closed' = TRUE
    /\ UNCHANGED <<proc, ctxDone, done, exitVal, output, reader, closer>>

\* The output channel is closed once nobody sends on it any more; what the
\* supervisor then receives from it has no effect.
Drain ==
    /\ watcher = "drain" /\ reader = "ended"
    /\ watcher' = "report"
    /\ UNCHANGED <<proc, ptmxOpen, ctxDone, closed, done, exitVal, output, reader, closer>>

\* Seeded fault: the branch for a signal forgets to close done.
ReportUnlessKilled ==
    /\ watcher = "report"
    /\ watcher' = "ended" /\ done' = (proc # "killed") /\ exitVal' = proc
    /\ UNCHANGED <<proc, ptmxOpen, ctxDone, closed, output, reader, closer>>

\* doneOnce: the event is stored, then done is closed.
Report ==
    /\ watcher = "report"
    /\ watcher' = "ended" /\ done' = TRUE /\ exitVal' = proc
    /\ UNCHANGED <<proc, ptmxOpen, ctxDone, closed, output, reader, closer>>

WatchExit == Reap \/ CancelReader \/ ClosePty \/ Drain \/ Report

-----------------------------------------------------------------------------
(* Close and Stop *)

\* The call returns at once when r.closed is set already.
CloseEnter ==
    /\ closer' = IF closed THEN "returned" ELSE "peek"
    /\ closed' = TRUE
    /\ UNCHANGED <<proc, ptmxOpen, ctxDone, done, exitVal, output, reader, watcher>>

\* 200 ms for a process that has just exited.
ClosePeek ==
    /\ closer = "peek"
    /\ \/ done /\ closer' = "returned"
       \/ closer' = "hangup"
    /\ UNCHANGED <<proc, ptmxOpen, ctxDone, closed, done, exitVal, output,
                   reader, watcher>>

CloseHangup ==
    /\ closer = "hangup"
    /\ closer' = "grace" /\ ptmxOpen' = FALSE /\ ctxDone' = TRUE
    /\ UNCHANGED <<proc, closed, done, exitVal, output, reader, watcher>>

\* Seeded fault: the grace period ends the call, without SIGKILL.
CloseGraceGivesUp ==
    /\ closer = "grace"
    /\ closer' = "returned"
    /\ UNCHANGED <<proc, ptmxOpen, ctxDone, closed, done, exitVal, output,
                   reader, watcher>>

CloseGrace ==
    /\ closer = "grace"
    /\ \/ done /\ closer' = "returned"
       \/ closer' = "kill"
    /\ UNCHANGED <<proc, ptmxOpen, ctxDone, closed, done, exitVal, output,
                   reader, watcher>>

CloseKill ==
    /\ closer = "kill"
    /\ closer' = "await"
    /\ proc' = IF proc = "alive" THEN "killed" ELSE proc
    /\ UNCHANGED <<ptmxOpen, ctxDone, closed, done, exitVal, output, reader, watcher>>

\* The exit is reported, or Close gives up after 2 s with an error: Recover
\* then goes on without a checkpoint, and the validator runs all the same.
CloseAwait ==
    /\ closer = "await"
    /\ closer' = "returned"
    /\ UNCHANGED <<proc, ptmxOpen, ctxDone, closed, done, exitVal, output,
                   reader, watcher>>

CloseStep == ClosePeek \/ CloseHangup \/ CloseGrace \/ CloseKill \/ CloseAwait
=============================================================================
