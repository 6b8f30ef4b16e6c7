SPECIFICATION FairSpec
CONSTANTS
    Path = {}
    N = 3
    MaxWorkers = 2
    MaxStarts = 2
    OwnedPaths <- NoPaths
    Outcomes = {"complete", "fail"}
INVARIANTS
    TypeOK
    ParentFirst
PROPERTIES
    RestartUnblocks
