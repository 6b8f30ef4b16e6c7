------------------------------ MODULE MCRouting ------------------------------
(* Histories in which three providers are asked for by name. *)
EXTENDS Routing

SomeNamed == {"codex", "claude", "agy"}
=============================================================================
