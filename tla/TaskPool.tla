------------------------------ MODULE TaskPool ------------------------------
(***************************************************************************)
(* What a user of the fleet is promised (README.md, "Fleet"), without      *)
(* leases, polling, goroutines or a database: a pool of at most Limit      *)
(* workers runs each task after the tasks it depends on have completed,    *)
(* never next to a task that owns one of its paths, and decides it once.   *)
(***************************************************************************)
EXTENDS Naturals, FiniteSets

CONSTANTS
    Task,   \* the tasks
    Deps,   \* per task, the tasks it depends on
    Owns,   \* per task, the set of paths it owns
    Limit   \* size of the worker pool

VARIABLES
    verdict, \* "none" until the task is decided
    busy     \* tasks that occupy a worker

poolVars == <<verdict, busy>>

PoolInit ==
    /\ verdict = [t \in Task |-> "none"]
    /\ busy = {}

Begin(t) ==
    /\ t \notin busy /\ verdict[t] = "none"
    /\ \A d \in Deps[t] : verdict[d] = "completed"
    /\ \A u \in busy : Owns[u] \cap Owns[t] = {}
    /\ Cardinality(busy) < Limit
    /\ busy' = busy \cup {t}
    /\ UNCHANGED verdict

Decide(t, v) ==
    /\ t \in busy /\ verdict[t] = "none"
    /\ verdict' = [verdict EXCEPT ![t] = v]
    /\ UNCHANGED busy

Leave(t) ==
    /\ t \in busy
    /\ busy' = busy \ {t}
    /\ UNCHANGED verdict

\* Tasks that can never run because a dependency failed are failed unrun.
Cancel(S) ==
    /\ \A t \in S : /\ t \notin busy /\ verdict[t] = "none"
                    /\ \E d \in Deps[t] : verdict[d] = "failed"
    /\ verdict' = [t \in Task |-> IF t \in S THEN "failed" ELSE verdict[t]]
    /\ UNCHANGED busy

\* The process dies with its workers.
Vanish == busy' = {} /\ UNCHANGED verdict

PoolNext ==
    \/ \E t \in Task : Begin(t) \/ Leave(t)
    \/ \E t \in Task, v \in {"completed", "failed"} : Decide(t, v)
    \/ \E S \in SUBSET Task : Cancel(S)
    \/ Vanish

PoolSpec == PoolInit /\ [][PoolNext]_poolVars
=============================================================================
