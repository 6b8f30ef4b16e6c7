------------------------------- MODULE Mailbox -------------------------------
(***************************************************************************)
(* The durable mailbox of internal/mailbox/mailbox.go: one table of        *)
(* envelopes in a SQLite file, consumers that claim, check, apply and      *)
(* acknowledge messages, and a replayer that picks up what Redeliver       *)
(* returns.  No command of the repository runs either of them yet: both    *)
(* are used as its tests use them, and no fairness is assumed of them.     *)
(*                                                                         *)
(* Every consumer and the replayer is a process of its own with its own    *)
(* Store, the case the compare-and-set of Dequeue is for: the mutex of a   *)
(* Store orders nothing between them, one SQL statement is one step.       *)
(*                                                                         *)
(* An envelope is its message_id.  What the Authority callback looks at    *)
(* (epochs and generations) is reduced to its verdict, and leased_at to    *)
(* whether the lease timeout given to Redeliver has passed since.          *)
(***************************************************************************)
EXTENDS Naturals, Integers, FiniteSets

CONSTANTS
    Message,      \* message ids that are ever sent
    Consumer,     \* processes that run a Consumer
    RecipientOf,  \* per message, its recipient
    Serves,       \* per consumer, the recipient it dequeues for
    NoMessage,    \* no envelope
    MaxCrashes    \* bound: how many processes die in a behaviour

ASSUME NoMessageAssumption == NoMessage \notin Message
ASSUME MaxCrashesAssumption == MaxCrashes \in Nat

VARIABLES
    id,        \* row id, 0 before the message is inserted
    nextId,    \* the next AUTOINCREMENT id
    acked,     \* column acked: 0 waiting, -1 in flight, 1 consumed
    lease,     \* column leased_at: "none", "fresh", or "expired"
    stale,     \* messages the Authority rejects from now on
    pc,        \* where each consumer is in ProcessOne
    msg,       \* the message it selected
    replay,    \* messages returned by Redeliver and not yet handled
    replayPc,  \* "idle", or where the replayer is with its oldest message
    applied,   \* messages whose effect was applied, by whomever
    rejected,  \* messages a consumer acknowledged unapplied
    crashes    \* processes that died so far

rowVars  == <<id, nextId, acked, lease>>
consVars == <<pc, msg>>
repVars  == <<replay, replayPc>>
vars == <<rowVars, stale, consVars, repVars, applied, rejected, crashes>>

Enqueued == {m \in Message : id[m] # 0}

\* Rows of a recipient that Dequeue looks for.
Waiting(r) == {m \in Enqueued : RecipientOf[m] = r /\ acked[m] = 0}

OldestOf(S) == {m \in S : \A n \in S : id[m] <= id[n]}

\* A consumer at one of these holds the envelope it dequeued.
HoldingPc == {"claimed", "rejecting", "effect", "applied"}

Holding(c) == pc[c] \in HoldingPc

Init ==
    /\ id = [m \in Message |-> 0] /\ nextId = 1
    /\ acked = [m \in Message |-> 0]
    /\ lease = [m \in Message |-> "none"]
    /\ stale = {}
    /\ pc  = [c \in Consumer |-> "idle"]
    /\ msg = [c \in Consumer |-> NoMessage]
    /\ replay = {} /\ replayPc = "idle"
    /\ applied = {} /\ rejected = {} /\ crashes = 0

(***************************************************************************)
(* The sender                                                              *)
(***************************************************************************)

\* Seeded fault: INSERT OR REPLACE, a retry of the sender starts anew.
EnqueueReplace(m) ==
    /\ id' = [id EXCEPT ![m] = nextId] /\ nextId' = nextId + 1
    /\ acked' = [acked EXCEPT ![m] = 0]
    /\ lease' = [lease EXCEPT ![m] = "none"]
    /\ nextId <= Cardinality(Message) + 1
    /\ UNCHANGED <<stale, consVars, repVars, applied, rejected, crashes>>

\* INSERT OR IGNORE: a duplicate changes nothing.
Enqueue(m) ==
    /\ IF id[m] = 0
         THEN id' = [id EXCEPT ![m] = nextId] /\ nextId' = nextId + 1
         ELSE UNCHANGED <<id, nextId>>
    /\ UNCHANGED <<acked, lease, stale, consVars, repVars, applied, rejected,
                   crashes>>

\* The run, task or attempt of the message is superseded or cancelled.
Supersede(m) ==
    /\ m \notin stale
    /\ stale' = stale \cup {m}
    /\ UNCHANGED <<rowVars, consVars, repVars, applied, rejected, crashes>>

\* The lease timeout passes (nobody looks at the lease of a consumed row).
LeaseExpires(m) ==
    /\ lease[m] = "fresh" /\ acked[m] = -1
    /\ lease' = [lease EXCEPT ![m] = "expired"]
    /\ UNCHANGED <<id, nextId, acked, stale, consVars, repVars, applied, rejected,
                   crashes>>

(***************************************************************************)
(* Consumer.ProcessOne                                                     *)
(***************************************************************************)

\* A consumer moves; the rows stay as they are.
Moves(c, from, to) == pc[c] = from /\ pc' = [pc EXCEPT ![c] = to]

\* Seeded fault: the query has no ORDER BY.
SelectAny(c) ==
    /\ \E m \in Waiting(Serves[c]) : msg' = [msg EXCEPT ![c] = m]
    /\ Moves(c, "idle", "selected")
    /\ UNCHANGED <<rowVars, stale, repVars, applied, rejected, crashes>>

\* Dequeue, first statement.  Without a row ProcessOne returns at once.
Select(c) ==
    /\ \E m \in OldestOf(Waiting(Serves[c])) : msg' = [msg EXCEPT ![c] = m]
    /\ Moves(c, "idle", "selected")
    /\ UNCHANGED <<rowVars, stale, repVars, applied, rejected, crashes>>

\* Seeded fault: the update lacks its "AND acked=0".
ClaimUnguarded(c) ==
    /\ Moves(c, "selected", "claimed")
    /\ acked' = [acked EXCEPT ![msg[c]] = -1]
    /\ lease' = [lease EXCEPT ![msg[c]] = "fresh"]
    /\ UNCHANGED <<id, nextId, msg, stale, repVars, applied, rejected, crashes>>

\* Dequeue, second statement: the compare-and-set.
Claim(c) ==
    /\ Moves(c, "selected", "claimed") /\ acked[msg[c]] = 0
    /\ acked' = [acked EXCEPT ![msg[c]] = -1]
    /\ lease' = [lease EXCEPT ![msg[c]] = "fresh"]
    /\ UNCHANGED <<id, nextId, msg, stale, repVars, applied, rejected, crashes>>

\* The row was claimed in between: ProcessOne returns (false, nil).
ClaimLost(c) ==
    /\ Moves(c, "selected", "idle") /\ acked[msg[c]] # 0
    /\ msg' = [msg EXCEPT ![c] = NoMessage]
    /\ UNCHANGED <<rowVars, stale, repVars, applied, rejected, crashes>>

Authorize(c) ==
    /\ Moves(c, "claimed", IF msg[c] \in stale THEN "rejecting" ELSE "effect")
    /\ UNCHANGED <<rowVars, msg, stale, repVars, applied, rejected, crashes>>

ApplyEffect(c) ==
    /\ Moves(c, "effect", "applied")
    /\ applied' = applied \cup {msg[c]}
    /\ UNCHANGED <<rowVars, msg, stale, repVars, rejected, crashes>>

\* onEffect returns an error: the row stays in flight.
EffectFails(c) ==
    /\ Moves(c, "effect", "idle")
    /\ msg' = [msg EXCEPT ![c] = NoMessage]
    /\ UNCHANGED <<rowVars, stale, repVars, applied, rejected, crashes>>

\* Seeded fault: the column is counted up instead of set.
AckIncrements(m) == acked' = [acked EXCEPT ![m] = @ + 1]

\* UPDATE ... SET acked=1 ... WHERE message_id=m AND acked<=0.
Ack(m) == acked' = [acked EXCEPT ![m] = 1]

\* Seeded fault: the message is acknowledged before its effect.
AckEarly(c) ==
    /\ pc[c] \in {"rejecting", "effect"}
    /\ Ack(msg[c])
    /\ rejected' = IF pc[c] = "rejecting" THEN rejected \cup {msg[c]} ELSE rejected
    /\ pc'  = [pc EXCEPT ![c] = "idle"]
    /\ msg' = [msg EXCEPT ![c] = NoMessage]
    /\ UNCHANGED <<id, nextId, lease, stale, repVars, applied, crashes>>

Acknowledge(c) ==
    /\ pc[c] \in {"rejecting", "applied"}
    /\ Ack(msg[c])
    /\ rejected' = IF pc[c] = "rejecting" THEN rejected \cup {msg[c]} ELSE rejected
    /\ pc'  = [pc EXCEPT ![c] = "idle"]
    /\ msg' = [msg EXCEPT ![c] = NoMessage]
    /\ UNCHANGED <<id, nextId, lease, stale, repVars, applied, crashes>>

Crash(c) ==
    /\ pc[c] # "idle" /\ crashes < MaxCrashes
    /\ pc'  = [pc EXCEPT ![c] = "idle"]
    /\ msg' = [msg EXCEPT ![c] = NoMessage]
    /\ crashes' = crashes + 1
    /\ UNCHANGED <<rowVars, stale, repVars, applied, rejected>>

ProcessOne(c) ==
    \/ Select(c) \/ Claim(c) \/ ClaimLost(c) \/ Authorize(c)
    \/ ApplyEffect(c) \/ EffectFails(c) \/ Acknowledge(c)

(***************************************************************************)
(* The replayer: for each message of Redeliver, the effect, then Ack, as   *)
(* mailbox_test.go does it after a restart.  It asks no authority, and its *)
(* effect, a map of the test, cannot fail.                                 *)
(***************************************************************************)

\* Seeded fault: rows in flight are left out.
RedeliverableWaiting == {m \in Enqueued : acked[m] = 0}

Redeliverable == {m \in Enqueued : acked[m] <= 0 /\ lease[m] # "fresh"}

Redeliver ==
    /\ replayPc = "idle" /\ Redeliverable # {}
    /\ replay' = Redeliverable /\ replayPc' = "effect"
    /\ UNCHANGED <<rowVars, stale, consVars, applied, rejected, crashes>>

ReplayEffect ==
    /\ replayPc = "effect"
    /\ applied' = applied \cup OldestOf(replay)
    /\ replayPc' = "ack"
    /\ UNCHANGED <<rowVars, stale, consVars, replay, rejected, crashes>>

ReplayAck ==
    /\ replayPc = "ack"
    /\ \E m \in OldestOf(replay) :
         /\ Ack(m)
         /\ replay' = replay \ {m}
         /\ replayPc' = IF replay = {m} THEN "idle" ELSE "effect"
    /\ UNCHANGED <<id, nextId, lease, stale, consVars, applied, rejected, crashes>>

ReplayCrash ==
    /\ replayPc # "idle" /\ crashes < MaxCrashes
    /\ replay' = {} /\ replayPc' = "idle" /\ crashes' = crashes + 1
    /\ UNCHANGED <<rowVars, stale, consVars, applied, rejected>>

Replay == Redeliver \/ ReplayEffect \/ ReplayAck

Next ==
    \/ \E m \in Message : Enqueue(m) \/ Supersede(m) \/ LeaseExpires(m)
    \/ \E c \in Consumer : ProcessOne(c) \/ Crash(c)
    \/ Replay \/ ReplayCrash

Spec == Init /\ [][Next]_vars

-----------------------------------------------------------------------------

(* Types of all variables. *)
TypeOK ==
    /\ id     \in [Message -> Nat] /\ nextId \in Nat \ {0}
    /\ acked  \in [Message -> {-1, 0, 1}]
    /\ lease  \in [Message -> {"none", "fresh", "expired"}]
    /\ stale  \in SUBSET Message
    /\ pc     \in [Consumer -> {"idle", "selected"} \cup HoldingPc]
    /\ msg    \in [Consumer -> Message \cup {NoMessage}]
    /\ \A c \in Consumer : pc[c] = "idle" <=> msg[c] = NoMessage
    /\ replay \in SUBSET Message /\ replayPc \in {"idle", "effect", "ack"}
    /\ applied \in SUBSET Message /\ rejected \in SUBSET Message
    /\ crashes \in 0 .. MaxCrashes

(* A consumed message took effect or was rejected by the authority: no     *)
(* crash, failing effect, lost claim or replay consumes it otherwise.      *)
AckedHandled == \A m \in Message : acked[m] = 1 => m \in applied \cup rejected

(* Two consumers never work on one message, whatever process they run in   *)
(* and whether leases expire under them.                                   *)
SingleClaim ==
    \A c, d \in Consumer : c # d /\ Holding(c) /\ Holding(d) => msg[c] # msg[d]

(* A message that is claimed is the oldest of its recipient that waits:    *)
(* the time between SELECT and UPDATE cannot let an older one slip in.     *)
OldestFirst ==
    [][\A m \in Message : acked[m] = 0 /\ acked'[m] = -1 =>
           m \in OldestOf(Waiting(RecipientOf[m]))]_vars

(* A consumed message stays consumed and a claimed one is never waiting    *)
(* again, under duplicates from the sender and late acknowledgements.      *)
NeverReopened ==
    [][\A m \in Message : /\ acked[m] = 1 => acked'[m] = 1
                          /\ acked[m] # 0 => acked'[m] # 0]_vars

(* At least once: a message nobody has handled is one that Redeliver       *)
(* returns, at the latest when the lease somebody took on it has run out,  *)
(* wherever that process died and however often the effect has failed.     *)
NothingLost ==
    \A m \in Enqueued :
        \/ m \in applied \cup rejected
        \/ m \in Redeliverable
        \/ acked[m] = -1 /\ lease[m] = "fresh"
=============================================================================
