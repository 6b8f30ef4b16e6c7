------------------------------- MODULE MCFleet -------------------------------
(* Small plans for model-checking the fleet. *)
EXTENDS Fleet

CONSTANTS a, b

\* A diamond 1 -> {2, 3} -> 4 and an independent task 5; 2 and 5 list the same
\* two paths in opposite orders.  With two invocations the plan of the second
\* is empty: it carries on what the first left behind.
DiamondDeps   == <<{}, {1}, {1}, {2, 3}, {}>>
DiamondPaths  == << <<a>>, <<b, a>>, <<>>, <<>>, <<a, b>> >>
AllInTheFirst == [t \in Task |-> 1]

\* Two invocations: 1 -> 2, then one task.
TwoThenOne == <<1, 1, 2>>
PairDeps   == <<{}, {1}, {}>>

\* A chain 1 -> 2 -> 3, on disjoint paths or on none.
ChainDeps  == [t \in Task |-> {t - 1} \cap Task]
NoPaths    == [t \in Task |-> <<>>]
=============================================================================
