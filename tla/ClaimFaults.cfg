SPECIFICATION Spec
CONSTANTS
    n1 = n1  n2 = n2  h1 = h1  h2 = h2  r1 = r1  r2 = r2  r3 = r3
    NoClaim = NoClaim  NoRef = NoRef  NoRun = NoRun  NoOp = NoOp
    Nodes <- OneNode
    Hosts <- OneHost
    Runs <- TwoRuns
    Runners <- OnlyR1
    NodeOf <- PairOnN1
    HostOf <- PairOnH1
    RetryMax = 2
    AllowTakeover = FALSE
    MaxFaults = 1
    MaxOwn = 3
    MaxRenew = 1
    MaxLifecycle = 1
INVARIANTS ProtocolInv
PROPERTIES MainKeepsEveryCommit TokenPublishesOnce ImplementsLedger
CHECK_DEADLOCK FALSE
