SPECIFICATION FairSpec
CONSTANTS
    OutputCap = 2
    EventCap = 3
INVARIANTS TypeOK ExitTruth StoppedIsDead
PROPERTIES ExitSeen SupervisorEnds
CHECK_DEADLOCK FALSE
