----------------------------- MODULE MCSupervised -----------------------------
(* One worker under observation; the cfg shrinks the two channels so that  *)
(* they fill up.                                                           *)
EXTENDS Supervised
=============================================================================
