------------------------------ MODULE MCDaemon ------------------------------
(* A daemon whose tasks own no paths, as dag.Store.CreateTask creates them. *)
EXTENDS Daemon

NoPaths == [t \in Task |-> <<>>]
=============================================================================
