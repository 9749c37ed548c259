SPECIFICATION Spec
CONSTANTS
    n1 = n1  n2 = n2  h1 = h1  h2 = h2  r1 = r1  r2 = r2  r3 = r3
    NoClaim = NoClaim  NoRef = NoRef  NoRun = NoRun  NoOp = NoOp
    Nodes <- OneNode
    Hosts <- TwoHosts
    Runs <- ThreeRuns
    Runners <- NoRuns
    NodeOf <- AllOnN1
    HostOf <- R3Remote
    RetryMax = 1
    AllowTakeover = TRUE
    MaxFaults = 1
    MaxOwn = 2
    MaxRenew = 0
    MaxLifecycle = 0
INVARIANTS ResumeInheritsTurns
PROPERTIES TenureUnbroken
CHECK_DEADLOCK FALSE
