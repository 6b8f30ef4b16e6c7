--------------------------- MODULE MCOrchestrator ---------------------------
(* One or two runs on one task store. *)
EXTENDS Orchestrator, TLC

CONSTANTS r1, r2

\* MaxAttempts unset, hence defaultMaxAttempts.
SoloLimit == [r \in Run |-> 0]

\* The tracker's run r2 makes two attempts on its one row.
SharedLimit == r1 :> 1 @@ r2 :> 2
TwoLimits   == [r \in Run |-> 1]

OneRepo  == [r \in Run |-> "repo"]
TwoRepos == r1 :> "repo1" @@ r2 :> "repo2"
=============================================================================
