SPECIFICATION TreeSpec
CONSTANTS
    G = G
    P = P
    A = A
    B = B
    laptop = laptop
    server = server
    r1 = r1
    r2 = r2
    Nodes = {G, P, A, B}
    Parent <- ThreeLevels
    NoNode = NoNode
    Grown = {G}
    Audit <- FirstAudited
    Hosts = {laptop, server}
    Runners = {r1, r2}
    HostOf <- OnServer
    Approvers <- ByLaptop
    Auditors <- AuditByLaptop
    Invalidators <- ByLaptop
    Killers <- ByLaptop
    MayWeaken = FALSE
    AgentRetryMax = 1
    EngineerRetryMax = 1
    PlanRejectMax = 1
    MaxNumber = 3
    MaxFacts = 3
    MaxMutations = 1
    MaxFaults = 1
INVARIANTS
    TreeTypeOK  NoneLeftOpen
PROPERTIES
    CompletedOnEvidence  
CHECK_DEADLOCK FALSE
