---------------------------- MODULE MailboxProofs ----------------------------
(***************************************************************************)
(* Proofs about the mailbox, for any messages, consumers and crashes.      *)
(***************************************************************************)
EXTENDS Mailbox, TLAPS

(***************************************************************************)
(* The inductive invariant: a message that is held is no longer waiting,   *)
(* and whoever is about to acknowledge it has applied it or rejects it.    *)
(***************************************************************************)

HeldClaimed == \A c \in Consumer : Holding(c) => acked[msg[c]] # 0

AppliedFirst ==
    /\ \A c \in Consumer : pc[c] = "applied" => msg[c] \in applied
    /\ replayPc = "ack" => OldestOf(replay) \subseteq applied

ReplayEnqueued == replay \subseteq Enqueued

MailInv ==
    /\ TypeOK /\ HeldClaimed /\ AppliedFirst /\ ReplayEnqueued
    /\ AckedHandled /\ SingleClaim

USE DEF MailInv, TypeOK, HeldClaimed, AppliedFirst, ReplayEnqueued, AckedHandled,
        SingleClaim, Holding, HoldingPc, Enqueued, rowVars, consVars, repVars,
        vars

LEMMA InitMail == Init => MailInv
  BY MaxCrashesAssumption DEF Init

LEMMA EnqueueMail == ASSUME MailInv, NEW m \in Message, Enqueue(m) PROVE MailInv'
<1>1. replay' = replay /\ \A n \in replay : id'[n] = id[n]
  BY DEF Enqueue
<1>2. OldestOf(replay)' = OldestOf(replay)
  BY <1>1 DEF OldestOf
<1> QED
  BY <1>1, <1>2 DEF Enqueue

LEMMA TimeMail ==
  ASSUME MailInv, NEW m \in Message, Supersede(m) \/ LeaseExpires(m)
  PROVE  MailInv'
<1>1. OldestOf(replay)' = OldestOf(replay)
  BY DEF OldestOf, Supersede, LeaseExpires
<1> QED
  BY <1>1 DEF Supersede, LeaseExpires

LEMMA ProcessOneMail ==
  ASSUME MailInv, NEW c \in Consumer, ProcessOne(c) \/ Crash(c)
  PROVE  MailInv'
<1>0. OldestOf(replay)' = OldestOf(replay) /\ Enqueued' = Enqueued
  BY DEF OldestOf, ProcessOne, Select, Claim, ClaimLost, Authorize, ApplyEffect,
         EffectFails, Acknowledge, Crash
<1> USE <1>0, NoMessageAssumption DEF Moves
<1>1. CASE Select(c)
  BY <1>1 DEF Select, OldestOf, Waiting
<1>2. CASE Claim(c)
  BY <1>2 DEF Claim
<1>3. CASE ClaimLost(c)
  BY <1>3 DEF ClaimLost
<1>4. CASE Authorize(c)
  BY <1>4 DEF Authorize
<1>5. CASE ApplyEffect(c)
  BY <1>5 DEF ApplyEffect
<1>6. CASE EffectFails(c)
  BY <1>6 DEF EffectFails
<1>7. CASE Acknowledge(c)
  BY <1>7 DEF Acknowledge, Ack
<1>8. CASE Crash(c)
  BY <1>8, MaxCrashesAssumption DEF Crash
<1> QED
  BY <1>1, <1>2, <1>3, <1>4, <1>5, <1>6, <1>7, <1>8 DEF ProcessOne

LEMMA ReplayMail == ASSUME MailInv, Replay \/ ReplayCrash PROVE MailInv'
<1>1. CASE Redeliver
  BY <1>1 DEF Redeliver, Redeliverable
<1>2. CASE ReplayEffect
  BY <1>2 DEF ReplayEffect, OldestOf
<1>3. CASE ReplayAck
  BY <1>3 DEF ReplayAck, OldestOf, Ack
<1>4. CASE ReplayCrash
  BY <1>4, MaxCrashesAssumption DEF ReplayCrash
<1> QED
  BY <1>1, <1>2, <1>3, <1>4 DEF Replay

LEMMA MailInvariant == Spec => []MailInv
<1>1. MailInv /\ [Next]_vars => MailInv'
  <2> SUFFICES ASSUME MailInv, [Next]_vars PROVE MailInv'
    OBVIOUS
  <2>1. CASE UNCHANGED vars
    BY <2>1 DEF OldestOf
  <2> QED
    BY <2>1, EnqueueMail, TimeMail, ProcessOneMail, ReplayMail DEF Next
<1> QED
  BY <1>1, InitMail, PTL DEF Spec

\* Only a claim takes a lease.
WaitingUnleased == \A m \in Message : acked[m] = 0 => lease[m] # "fresh"

LEMMA NextUnleased == MailInv /\ WaitingUnleased /\ [Next]_vars => WaitingUnleased'
<1> SUFFICES ASSUME MailInv, WaitingUnleased, [Next]_vars PROVE WaitingUnleased'
  OBVIOUS
<1>1. CASE \E c \in Consumer : Claim(c) \/ Acknowledge(c)
  BY <1>1 DEF WaitingUnleased, Claim, Acknowledge, Ack, Moves
<1>2. CASE ReplayAck \/ \E m \in Message : LeaseExpires(m)
  BY <1>2 DEF WaitingUnleased, ReplayAck, Ack, OldestOf, LeaseExpires
<1> QED
  BY <1>1, <1>2 DEF WaitingUnleased, Next, Enqueue, Supersede, ProcessOne, Select,
     ClaimLost, Authorize, ApplyEffect, EffectFails, Crash, Replay, Redeliver,
     ReplayEffect, ReplayCrash

(* TypeOK of Mailbox: also, an idle consumer has no envelope in hand.       *)
THEOREM TypeCorrect == Spec => []TypeOK
<1>1. MailInv => TypeOK
  OBVIOUS
<1> QED
  BY <1>1, MailInvariant, PTL

(* No message is consumed without an effect or a rejection.                *)
THEOREM AckedHandledHolds == Spec => []AckedHandled
<1>1. MailInv => AckedHandled
  OBVIOUS
<1> QED
  BY <1>1, MailInvariant, PTL

(* No message is lost: what nobody has handled Redeliver returns, or will  *)
(* when the lease on it runs out.                                          *)
THEOREM NothingLostHolds == Spec => []NothingLost
<1>1. Init => WaitingUnleased
  BY DEF Init, WaitingUnleased
<1>2. MailInv /\ WaitingUnleased /\ [Next]_vars => WaitingUnleased'
  BY NextUnleased
<1>3. MailInv /\ WaitingUnleased => NothingLost
  BY DEF WaitingUnleased, NothingLost, Redeliverable
<1> QED
  BY <1>1, <1>2, <1>3, MailInvariant, PTL DEF Spec

(* Two processes never work on the same message through Dequeue: the claim *)
(* is a compare-and-set and nothing puts a row back to waiting.            *)
THEOREM SingleClaimHolds == Spec => []SingleClaim
<1>1. MailInv => SingleClaim
  OBVIOUS
<1> QED
  BY <1>1, MailInvariant, PTL

(* Claims and acknowledgements are never undone, whatever the sender sends *)
(* again and however late an acknowledgement arrives.                      *)
THEOREM NeverReopenedHolds == Spec => NeverReopened
<1>1. ASSUME MailInv, [Next]_vars, NEW m \in Message
      PROVE  /\ acked[m] = 1 => acked'[m] = 1
             /\ acked[m] # 0 => acked'[m] # 0
  <2>1. CASE \E c \in Consumer : Claim(c)
    BY <1>1, <2>1 DEF Claim, Moves
  <2>2. CASE ReplayAck \/ \E c \in Consumer : Acknowledge(c)
    BY <1>1, <2>2 DEF ReplayAck, Acknowledge, Ack, OldestOf
  <2> QED
    BY <1>1, <2>1, <2>2 DEF Next, Enqueue, Supersede, LeaseExpires, ProcessOne,
       Select, ClaimLost, Authorize, ApplyEffect, EffectFails, Crash, Replay,
       Redeliver, ReplayEffect, ReplayCrash
<1>2. MailInv /\ [Next]_vars =>
        [\A m \in Message : /\ acked[m] = 1 => acked'[m] = 1
                            /\ acked[m] # 0 => acked'[m] # 0]_vars
  BY <1>1
<1> QED
  BY <1>2, MailInvariant, PTL DEF Spec, NeverReopened

(***************************************************************************)
(* Order.  What a consumer has selected is no younger than what waits:     *)
(* rows are only ever added at the end, and none returns to waiting.       *)
(***************************************************************************)

IdsBelowNext == \A m \in Message : id[m] < nextId

NoneOlder(c) ==
    pc[c] = "selected" =>
        /\ id[msg[c]] # 0 /\ RecipientOf[msg[c]] = Serves[c]
        /\ \A n \in Waiting(Serves[c]) : id[msg[c]] <= id[n]

OrderInv == IdsBelowNext /\ \A c \in Consumer : NoneOlder(c)

LEMMA InitOrder == Init => OrderInv
  BY DEF Init, OrderInv, IdsBelowNext, NoneOlder

LEMMA EnqueueOrder ==
  ASSUME MailInv, OrderInv, NEW m \in Message, Enqueue(m)
  PROVE  OrderInv'
<1>1. CASE id[m] # 0
  BY <1>1 DEF Enqueue, OrderInv, IdsBelowNext, NoneOlder, Waiting
<1>2. CASE id[m] = 0
  <2>1. /\ id'[m] = nextId /\ nextId' = nextId + 1
        /\ \A n \in Message \ {m} : id'[n] = id[n]
        /\ UNCHANGED <<acked, pc, msg>>
    BY <1>2 DEF Enqueue
  <2>2. IdsBelowNext'
    BY <2>1 DEF OrderInv, IdsBelowNext
  <2>3. ASSUME NEW c \in Consumer PROVE NoneOlder(c)'
    <3> SUFFICES ASSUME pc[c] = "selected" PROVE NoneOlder(c)'
      BY <2>1 DEF NoneOlder
    <3>1. msg[c] \in Message
      BY NoMessageAssumption
    <3>2. id[msg[c]] # 0 /\ RecipientOf[msg[c]] = Serves[c]
          /\ \A n \in Waiting(Serves[c]) : id[msg[c]] <= id[n]
      BY DEF OrderInv, NoneOlder
    <3>3. msg[c] # m /\ id'[msg[c]] = id[msg[c]] /\ id[msg[c]] < nextId
      BY <1>2, <2>1, <3>1, <3>2 DEF OrderInv, IdsBelowNext
    <3>4. \A n \in Waiting(Serves[c])' : n = m \/ n \in Waiting(Serves[c])
      BY <2>1 DEF Waiting
    <3>5. \A n \in Waiting(Serves[c])' : id[msg[c]] <= id'[n]
      BY <2>1, <3>1, <3>2, <3>3, <3>4 DEF Waiting
    <3> QED
      BY <2>1, <3>2, <3>3, <3>5 DEF NoneOlder
  <2> QED
    BY <2>2, <2>3 DEF OrderInv
<1> QED
  BY <1>1, <1>2

\* No other step adds to what waits.
LEMMA WaitingShrinks ==
  ASSUME MailInv, [Next]_vars, UNCHANGED <<id, nextId>>
  PROVE  \A r : Waiting(r)' \subseteq Waiting(r)
<1>1. \A m \in Message : acked'[m] = 0 => acked[m] = 0
  <2>1. CASE \E c \in Consumer : Claim(c)
    BY <2>1 DEF Claim, Moves
  <2>2. CASE ReplayAck \/ \E c \in Consumer : Acknowledge(c)
    BY <2>2 DEF ReplayAck, Acknowledge, Ack, OldestOf
  <2> QED
    BY <2>1, <2>2 DEF Next, Enqueue, Supersede, LeaseExpires, ProcessOne,
       Select, ClaimLost, Authorize, ApplyEffect, EffectFails, Crash, Replay,
       Redeliver, ReplayEffect, ReplayCrash
<1> QED
  BY <1>1 DEF Waiting

\* Only Select takes a consumer to "selected", and only with an oldest message.
LEMMA SelectedBefore ==
  ASSUME MailInv, [Next]_vars, NEW c \in Consumer, pc'[c] = "selected"
  PROVE  Select(c) \/ (pc[c] = "selected" /\ msg'[c] = msg[c])
<1>1. CASE \E d \in Consumer : ProcessOne(d) \/ Crash(d)
  BY <1>1 DEF ProcessOne, Select, Claim, ClaimLost, Authorize, ApplyEffect,
     EffectFails, Acknowledge, Crash, Moves
<1>2. CASE ~ \E d \in Consumer : ProcessOne(d) \/ Crash(d)
  BY <1>2 DEF Next, Enqueue, Supersede, LeaseExpires, Replay, Redeliver,
     ReplayEffect, ReplayAck, ReplayCrash
<1> QED
  BY <1>1, <1>2

LEMMA NextOrder == MailInv /\ OrderInv /\ [Next]_vars => OrderInv'
<1> SUFFICES ASSUME MailInv, OrderInv, [Next]_vars PROVE OrderInv'
  OBVIOUS
<1>1. CASE \E m \in Message : Enqueue(m)
  BY <1>1, EnqueueOrder
<1>2. CASE UNCHANGED <<id, nextId>>
  <2>1. IdsBelowNext'
    BY <1>2 DEF OrderInv, IdsBelowNext
  <2>2. ASSUME NEW c \in Consumer, pc'[c] = "selected" PROVE NoneOlder(c)'
    <3>1. Waiting(Serves[c])' \subseteq Waiting(Serves[c])
      BY <1>2, WaitingShrinks
    <3>2. CASE Select(c)
      <4>1. PICK m \in OldestOf(Waiting(Serves[c])) : msg' = [msg EXCEPT ![c] = m]
        BY <3>2 DEF Select
      <4>2. msg'[c] = m /\ id[m] # 0 /\ RecipientOf[m] = Serves[c]
            /\ \A n \in Waiting(Serves[c]) : id[m] <= id[n]
        BY <4>1 DEF OldestOf, Waiting
      <4> QED
        BY <1>2, <3>1, <4>2 DEF NoneOlder
    <3>3. CASE pc[c] = "selected" /\ msg'[c] = msg[c]
      BY <1>2, <3>1, <3>3 DEF NoneOlder, OrderInv
    <3> QED
      BY <2>2, <3>2, <3>3, SelectedBefore
  <2> QED
    BY <2>1, <2>2 DEF OrderInv, NoneOlder
<1> QED
  BY <1>1, <1>2 DEF Next, Supersede, LeaseExpires, ProcessOne, Select, Claim, ClaimLost,
     Authorize, ApplyEffect, EffectFails, Acknowledge, Ack, Crash, Replay, Redeliver,
     ReplayEffect, ReplayAck, ReplayCrash

(* Dequeue claims the oldest message that waits for its recipient, however *)
(* much happens between its SELECT and its UPDATE.                         *)
THEOREM OldestFirstHolds == Spec => OldestFirst
<1>1. ASSUME MailInv, OrderInv, [Next]_vars, NEW m \in Message,
             acked[m] = 0, acked'[m] = -1
      PROVE  m \in OldestOf(Waiting(RecipientOf[m]))
  <2>1. PICK c \in Consumer : Claim(c) /\ msg[c] = m
    <3>1. ASSUME NEW c \in Consumer, Claim(c) PROVE msg[c] = m
      <4>1. acked' = [acked EXCEPT ![msg[c]] = -1]
        BY <3>1 DEF Claim
      <4>2. acked'[m] # acked[m]
        BY <1>1
      <4> QED
        BY <4>1, <4>2
    <3>2. CASE ReplayAck \/ \E c \in Consumer : Acknowledge(c)
      BY <1>1, <3>2 DEF ReplayAck, Acknowledge, Ack, OldestOf
    <3>3. (\E c \in Consumer : Claim(c)) \/ ReplayAck \/ \E c \in Consumer : Acknowledge(c)
      BY <1>1 DEF Next, Enqueue, Supersede, LeaseExpires, ProcessOne, Select, ClaimLost,
         Authorize, ApplyEffect, EffectFails, Crash, Replay, Redeliver, ReplayEffect, ReplayCrash
    <3> QED
      BY <3>1, <3>2, <3>3
  <2>2. id[m] # 0 /\ RecipientOf[m] = Serves[c]
        /\ \A n \in Waiting(Serves[c]) : id[m] <= id[n]
    BY <1>1, <2>1 DEF Claim, Moves, OrderInv, NoneOlder
  <2> QED
    BY <1>1, <2>2 DEF OldestOf, Waiting
<1>2. MailInv /\ OrderInv /\ [Next]_vars =>
        [\A m \in Message : acked[m] = 0 /\ acked'[m] = -1 =>
           m \in OldestOf(Waiting(RecipientOf[m]))]_vars
  BY <1>1
<1>3. Spec => []OrderInv
  BY InitOrder, NextOrder, MailInvariant, PTL DEF Spec
<1> QED
  BY <1>2, <1>3, MailInvariant, PTL DEF Spec, OldestFirst
=============================================================================
