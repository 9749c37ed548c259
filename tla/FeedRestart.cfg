SPECIFICATION Spec
CONSTANTS
    h1 = h1
    h2 = h2
    c1 = c1
    c2 = c2
    Rooms = {1}
    Hosts <- TwoHosts
    Clients <- NoClients
    ServedBy <- ServedByFirst
    BufferSize = 1
    ChannelSize = 1
    MaxPublishers = 1
    MaxEvents = 4
    MaxLostLines = 1
    MaxRestarts = 1
    MaxConnects = 1
    NoHost = NoHost
    DeadHost = DeadHost
INVARIANTS
    JournalInv
CHECK_DEADLOCK FALSE
