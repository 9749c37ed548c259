SPECIFICATION FairHostSpec
CONSTANTS
    Nodes = {n1, n2}
    MaxTurns = 2
    phone = phone
    tablet = tablet
    Devices = {phone, tablet}
    KeyLists <- OnlyPhone
    MaxRuns = 2
    MaxRequests = 1
    MaxLists = 1

     
PROPERTIES
    TurnsEnd VerdictsAreGiven
CHECK_DEADLOCK FALSE
