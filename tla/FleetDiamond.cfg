SPECIFICATION FairSpec
CONSTANTS
    a = a
    b = b
    Path = {a, b}
    N = 5
    MaxWorkers = 2
    Invocations = 2
    InvocationOf <- AllInTheFirst
    DependsOn <- DiamondDeps
    PlanPaths <- DiamondPaths
    OwnedPaths <- DiamondPaths
    Outcomes = {"complete", "fail", "error", "none", "noattempt"}
    KillIn = {"running", "closing"}
    MayStop = TRUE
INVARIANTS
    TypeOK
    DependencyOrder
    PathExclusion
    WorkerBound
    SingleExecution
    NoLostWakeup
    IdleHolderIsFirst
PROPERTIES
    StatusMachine
    ImplementsPool
    FleetTerminates
