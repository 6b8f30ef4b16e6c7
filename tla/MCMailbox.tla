------------------------------ MODULE MCMailbox ------------------------------
(* Messages for one recipient and the processes that compete for them. *)
EXTENDS Mailbox

CONSTANTS m1, m2, c1, c2, r1

OneBox   == [m \in Message |-> r1]
ServeOne == [c \in Consumer |-> r1]
=============================================================================
