SPECIFICATION FairSpec
CONSTANTS
    r1 = r1
    r2 = r2
    Run = {r1}
    MaxAttempts <- SoloLimit
    Coordinated = {r1}
    Precreated = {}
    Validated = {r1}
    RepoOf <- OneRepo
    Reviewed = {r1}
INVARIANTS TypeOK AdoptionSound OneWorker EndsClean
PROPERTIES ValidatedAtRest RunReturns
CHECK_DEADLOCK FALSE
