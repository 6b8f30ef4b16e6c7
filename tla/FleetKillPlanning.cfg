SPECIFICATION Spec
CONSTANTS
    a = a
    b = b
    Path = {a, b}
    N = 3
    MaxWorkers = 1
    Invocations = 2
    InvocationOf <- TwoThenOne
    DependsOn <- PairDeps
    PlanPaths <- NoPaths
    OwnedPaths <- NoPaths
    Outcomes = {"complete"}
    KillIn = {"planning"}
    MayStop = FALSE
INVARIANT DependencyOrder
