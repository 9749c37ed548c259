SPECIFICATION Spec
CONSTANTS
    n1 = n1
    n2 = n2
    h1 = h1
    h2 = h2
    r1 = r1
    r2 = r2
    Nodes <- OneNode
    Deps <- NoDeps
    Hinted = {}
    Audit <- AuditOptional
    Hosts = {h1, h2}
    MainCheckouts = {h1, h2}
    Runners = {r1, r2}
    HostOf <- OnOwnHost
    AutoRunners = {}
    HandActors = {"agent", "engineer"}
    Auditors = {}
    Reviewers = {h1}
    Invalidators = {}
    AgentRetryMax = 1
    EngineerRetryMax = 1
    PlanRejectMax = 1
    MaxNumber = 2
    MaxRejected = 1
    MaxInvalidations = 0
    MaxFaults = 0
    NoNode = NoNode
INVARIANTS
    RunsInv
CHECK_DEADLOCK FALSE
