SPECIFICATION FairSpec
CONSTANTS
    n1 = n1
    n2 = n2
    h1 = h1
    h2 = h2
    r1 = r1
    r2 = r2
    Nodes <- TwoNodes
    Deps <- SecondNeedsFirst
    Hinted = {n1, n2}
    Audit <- AuditRequired
    Hosts = {h1, h2}
    MainCheckouts = {h1, h2}
    Runners = {r1, r2}
    HostOf <- OnFirstHost
    AutoRunners = {r1, r2}
    HandActors = {}
    Auditors = {h2}
    Reviewers = {}
    Invalidators = {h2}
    AgentRetryMax = 1
    EngineerRetryMax = 1
    PlanRejectMax = 1
    MaxNumber = 2
    MaxRejected = 0
    MaxInvalidations = 1
    MaxFaults = 1
    NoNode = NoNode
PROPERTIES
    AutoReturns
CHECK_DEADLOCK FALSE
