SPECIFICATION RecoverySpec
CONSTANTS
    r1 = r1
    r2 = r2
    Run = {r1, r2}
    Heir = r2
    Signalled = {}
    Fragile = FALSE
    Coordinated = {}
    Precreated = {r1}
    Validated = {r1}
    Reviewed = {}
    MaxAttempts <- TwoThenOne
    RepoOf <- OneRepo
INVARIANT OrphansReconciled
CHECK_DEADLOCK FALSE
