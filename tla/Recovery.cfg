SPECIFICATION RecoveryFairSpec
CONSTANTS
    r1 = r1
    r2 = r2
    Run = {r1, r2}
    Heir = r2
    Signalled = {r2}
    Fragile = TRUE
    Coordinated = {}
    Precreated = {r1}
    Validated = {r2}
    Reviewed = {}
    MaxAttempts <- OneThenTwo
    RepoOf <- OneRepo
INVARIANTS
    RecoveryTypeOK
    LivingWorkerKept
    NoInventedSuccess
    ReconcileDecides
    LivingRowKept
PROPERTIES
    CompletedKept
    RecoveryEnds
CHECK_DEADLOCK FALSE
