SPECIFICATION Spec
CONSTANTS
    r1 = r1
    r2 = r2
    Run = {r1, r2}
    MaxAttempts <- SharedLimit
    Coordinated = {r1}
    Precreated = {r2}
    Validated = {r1, r2}
    RepoOf <- OneRepo
    Reviewed = {}
INVARIANTS LivingRowKept
CHECK_DEADLOCK FALSE
