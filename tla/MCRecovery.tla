------------------------------ MODULE MCRecovery ------------------------------
(* A run that is killed and a recovery that may go on to a run of its own. *)
EXTENDS Recovery, TLC

CONSTANTS r1, r2

\* The tracker's run r1 and the heir r2; in RecoveryOrphans r1 tries twice.
TwoThenOne == r1 :> 2 @@ r2 :> 1
OneThenTwo == r1 :> 1 @@ r2 :> 2
OneRepo    == [r \in Run |-> "repo"]
=============================================================================
