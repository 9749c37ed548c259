SPECIFICATION Spec
CONSTANTS
    n1 = n1
    n2 = n2
    h1 = h1
    h2 = h2
    r1 = r1
    r2 = r2
    Nodes <- TwoNodes
    Deps <- SecondNeedsFirst
    Hinted = {n1}
    Audit <- AuditRequired
    Hosts = {h1, h2}
    MainCheckouts = {h1, h2}
    Runners = {r1, r2}
    HostOf <- OnFirstHost
    AutoRunners = {r1, r2}
    HandActors = {}
    Auditors = {h2}
    Reviewers = {h1}
    Invalidators = {}
    AgentRetryMax = 2
    EngineerRetryMax = 1
    PlanRejectMax = 1
    MaxNumber = 4
    MaxRejected = 2
    MaxInvalidations = 0
    MaxFaults = 1
    NoNode = NoNode
INVARIANTS
    InputsAccepted LadderHolds
PROPERTIES
    HistoryKept
CHECK_DEADLOCK FALSE
