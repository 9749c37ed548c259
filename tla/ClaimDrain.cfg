SPECIFICATION FairSpec
CONSTANTS
    n1 = n1  n2 = n2  h1 = h1  h2 = h2  r1 = r1  r2 = r2  r3 = r3
    NoClaim = NoClaim  NoRef = NoRef  NoRun = NoRun  NoOp = NoOp
    Nodes <- TwoNodes
    Hosts <- OneHost
    Runs <- TwoRuns
    Runners <- TwoRuns
    NodeOf <- TwoNodesOf
    HostOf <- PairOnH1
    RetryMax = 4
    AllowTakeover = FALSE
    MaxFaults = 0
    MaxOwn = 1
    MaxRenew = 0
    MaxLifecycle = 2
PROPERTIES RunnerClaimReleased
CHECK_DEADLOCK FALSE
