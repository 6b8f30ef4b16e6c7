SPECIFICATION Spec
CONSTANTS
    r1 = r1
    r2 = r2
    Run = {r1, r2}
    MaxAttempts <- TwoLimits
    Coordinated = {r1, r2}
    Precreated = {}
    Validated = {r1, r2}
    RepoOf <- TwoRepos
    Reviewed = {}
INVARIANTS LivingRowKept
CHECK_DEADLOCK FALSE
