SPECIFICATION Spec
CONSTANTS
    a = a
    b = b
    Path = {a, b}
    N = 3
    MaxWorkers = 1
    Invocations = 1
    InvocationOf <- AllInTheFirst
    DependsOn <- ChainDeps
    PlanPaths <- NoPaths
    OwnedPaths <- NoPaths
    Outcomes = {"fail"}
    KillIn = {}
    MayStop = FALSE
INVARIANT FailurePropagates
