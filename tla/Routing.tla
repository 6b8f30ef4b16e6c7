-------------------------------- MODULE Routing --------------------------------
(***************************************************************************)
(* `omni run --coordinator auto`: SelectCoordinator of                     *)
(* internal/coordinator/router.go over the run_records that earlier runs   *)
(* left in the task store, as StatsFor sums them up.                       *)
(*                                                                         *)
(* Scores are exact fractions here, so that two different histories may    *)
(* tie where the floating point numbers of the program may differ in the   *)
(* last bit.  Durations are counted in minutes.                            *)
(***************************************************************************)
EXTENDS Integers, Sequences, SequencesExt

CONSTANTS
    Named,      \* providers that a user may ask for by name
    MaxRuns,    \* bound: runs of a provider
    MaxRejects, \* bound: rejected attempts, over all providers
    MaxMinutes  \* bound: minutes, over all providers

Candidates == <<"codex", "claude", "agy", "reasonix">>  \* autoEligible
Default    == "codex"
NoID       == ""      \* of the best candidate, before there is one
Provider   == ToSet(Candidates)

ASSUME NamedAssumption == Named \subseteq Provider
ASSUME BoundAssumption == MaxRuns \in Nat /\ MaxRejects \in Nat /\ MaxMinutes \in Nat

VARIABLES
    runs,     \* COUNT(*)
    adoptions,\* rows with a final_adopted_attempt
    rejects,  \* SUM(validator_reject_count)
    minutes   \* SUM(duration_ms)

vars == <<runs, adoptions, rejects, minutes>>

Total(f) == f["codex"] + f["claude"] + f["agy"] + f["reasonix"]

Init ==
    /\ runs = [p \in Provider |-> 0] /\ adoptions = runs
    /\ rejects = runs /\ minutes = runs

-----------------------------------------------------------------------------
(* The router *)

\* StoreStatsAdapter.StatsFor
Stats == [runs |-> runs, adoptions |-> adoptions, rejects |-> rejects, minutes |-> minutes]

MinAutoSamples == 3
AttemptLimit   == 3  \* defaultMaxAttempts

\* ProviderCapabilities
ModelSelection  == Provider
EffortSelection == {"claude", "agy"}

\* Seeded fault: a rejection counts in favour.
ScoreFlipped(stats, p) ==
    LET n == stats.runs[p]
    IN  IF n = 0 THEN <<0, 1>>
        ELSE <<(7 * stats.adoptions[p] + 5 * stats.rejects[p]) * (n + stats.minutes[p]) + 3 * n * n,
               n * (n + stats.minutes[p])>>

\* score, in twentieths, as a fraction.  ReposMatched is always zero.  Rejected
\* attempts are set against runs, so that the score may be negative.
Score(stats, p) ==
    LET n == stats.runs[p]
    IN  IF n = 0 THEN <<0, 1>>
        ELSE <<(7 * stats.adoptions[p] + 5 * (n - stats.rejects[p])) * (n + stats.minutes[p]) + 3 * n * n,
               n * (n + stats.minutes[p])>>

\* scoreWithModel
ScoreWithModel(stats, p, model, effort) ==
    LET bonus == (IF model /\ p \in ModelSelection THEN 2 ELSE 0)
                   + (IF effort /\ p \in EffortSelection THEN 1 ELSE 0)
        base  == Score(stats, p)
    IN  <<base[1] + bonus * base[2], base[2]>>

Above(s, t) == s[1] * t[2] > t[1] * s[2]
Ties(s, t)  == s[1] * t[2] = t[1] * s[2]

Qualified(stats, p) == stats.runs[p] >= MinAutoSamples

\* Seeded fault: the last of equals is taken.
BetterOrEqual(s, best, p) == Above(s, best) \/ Ties(s, best)

Better(s, best, p) == Above(s, best) \/ (Ties(s, best) /\ p = Default)

\* The second pass, candidate by candidate: the best so far is kept with its
\* score; none has zero.
Keep(stats, model, effort, best, p) ==
    LET s == ScoreWithModel(stats, p, model, effort)
    IN  IF Qualified(stats, p) /\ Better(s, best.score, p) THEN [id |-> p, score |-> s] ELSE best

Second(stats, model, effort) ==
    LET Then(best, i) == Keep(stats, model, effort, best, Candidates[i])
    IN  Then(Then(Then(Then([id |-> NoID, score |-> <<0, 1>>], 1), 2), 3), 4)

\* Without a qualified candidate the first that takes a model, or the default.
SelectCoordinator(stats, model, effort) ==
    IF \A p \in Provider : ~Qualified(stats, p)
      THEN IF model
             THEN Candidates[SelectInSeq(Candidates, LAMBDA p : p \in ModelSelection)]
             ELSE Default
      ELSE LET best == Second(stats, model, effort).id IN IF best = NoID THEN Default ELSE best

-----------------------------------------------------------------------------
(* The records *)

\* RecordRun, with the provider that was named or selected.
RecordRun(p) ==
    /\ runs[p] < MaxRuns
    /\ p \in Named \/ \E model, effort \in BOOLEAN : p = SelectCoordinator(Stats, model, effort)
    /\ runs' = [runs EXCEPT ![p] = @ + 1]
    /\ UNCHANGED <<adoptions, rejects, minutes>>

\* Of the attempts of a run that is adopted at least one was accepted.
MoreRejects(p) == rejects[p] < AttemptLimit * runs[p] - adoptions[p]
MoreAdoptions(p) ==
    adoptions[p] < runs[p] /\ rejects[p] < AttemptLimit * runs[p] - adoptions[p]

RecordAttemptOutcome(p, passed, duration) ==
    /\ runs[p] > 0
    /\ ~passed => MoreRejects(p) /\ Total(rejects) < MaxRejects
    /\ Total(minutes) + duration <= MaxMinutes
    /\ rejects' = IF passed THEN rejects ELSE [rejects EXCEPT ![p] = @ + 1]
    /\ minutes' = [minutes EXCEPT ![p] = @ + duration]
    /\ UNCHANGED <<runs, adoptions>>

RecordAdoption(p) ==
    /\ MoreAdoptions(p)
    /\ adoptions' = [adoptions EXCEPT ![p] = @ + 1]
    /\ UNCHANGED <<runs, rejects, minutes>>

Next ==
    \E p \in Provider :
        \/ RecordRun(p) \/ RecordAdoption(p)
        \/ \E passed \in BOOLEAN, duration \in {0, 1} : RecordAttemptOutcome(p, passed, duration)

Spec == Init /\ [][Next]_vars

-----------------------------------------------------------------------------
(* Properties *)

\* What is promised (SelectCoordinator 90-103, docs/PROVIDERS.md 88-94), for
\* every history and both preferences: the default if nobody has enough runs;
\* otherwise a best of those that have, ties to the default, then to the
\* earlier in the list.  "Below-threshold providers are excluded when eligible
\* candidates exist" (PROVIDERS.md 95, router.go 128) does not hold of the
\* default: where nobody with enough runs scores above zero the code falls
\* back on it, whatever its own runs.  It holds of all others.
Best(stats, model, effort) ==
    {p \in Provider :
       /\ Qualified(stats, p) /\ Above(ScoreWithModel(stats, p, model, effort), <<0, 1>>)
       /\ \A q \in Provider : Qualified(stats, q) =>
            ~Above(ScoreWithModel(stats, q, model, effort), ScoreWithModel(stats, p, model, effort))}

Position(p) == CHOOSE i \in DOMAIN Candidates : Candidates[i] = p

ChoiceIsBest ==
    \A model, effort \in BOOLEAN :
        LET choice == SelectCoordinator(Stats, model, effort)
            best   == Best(Stats, model, effort)
        IN  /\ (\A p \in Provider : ~Qualified(Stats, p)) => choice = Default
            /\ best # {} => choice \in best /\ \A p \in best : Position(choice) <= Position(p)
            /\ (\E q \in Provider : Qualified(Stats, q)) /\ choice # Default => Qualified(Stats, choice)

\* The statistics steer the right way: adopting a result of the provider that
\* would be chosen never turns the router away from it, and a rejected or
\* slower attempt never turns it towards that provider, unless it is the
\* default that is left when nobody scores.
ChoiceFollowsResults ==
    [][\A model, effort \in BOOLEAN :
         LET before == SelectCoordinator(Stats, model, effort)
             after  == SelectCoordinator(Stats', model, effort)
         IN  /\ adoptions'[before] > adoptions[before] => after = before
             /\ /\ after # Default
                /\ rejects'[after] > rejects[after] \/ minutes'[after] > minutes[after]
                => before = after]_vars
=============================================================================
