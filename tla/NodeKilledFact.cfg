SPECIFICATION Spec
CONSTANTS
    n1 = n1
    n2 = n2
    h1 = h1
    h2 = h2
    r1 = r1
    r2 = r2
    Nodes <- OneNode
    Deps <- NoDeps
    Hinted = {}
    Audit <- AuditRequired
    Hosts = {h1, h2}
    MainCheckouts = {h1, h2}
    Runners = {r1}
    HostOf <- OnFirstHost
    AutoRunners = {r1}
    HandActors = {}
    Auditors = {}
    Reviewers = {}
    Invalidators = {}
    AgentRetryMax = 2
    EngineerRetryMax = 1
    PlanRejectMax = 1
    MaxNumber = 4
    MaxRejected = 1
    MaxInvalidations = 1
    MaxFaults = 0
    NoNode = NoNode
INVARIANTS
    FactSignalled
CHECK_DEADLOCK FALSE
