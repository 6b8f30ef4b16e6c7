SPECIFICATION Spec
CONSTANTS
    Named <- SomeNamed
    MaxRuns = 3
    MaxRejects = 5
    MaxMinutes = 1
INVARIANT ChoiceIsBest
PROPERTY ChoiceFollowsResults
CHECK_DEADLOCK FALSE
