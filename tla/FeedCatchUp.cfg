SPECIFICATION Spec
CONSTANTS
    h1 = h1
    h2 = h2
    c1 = c1
    c2 = c2
    Rooms = {1}
    Hosts <- OneHost
    Clients <- OneClient
    ServedBy <- ServedByFirst
    BufferSize = 2
    ChannelSize = 2
    MaxPublishers = 1
    MaxEvents = 5
    MaxLostLines = 0
    MaxRestarts = 0
    MaxConnects = 1
    NoHost = NoHost
    DeadHost = DeadHost
INVARIANTS
    FeedComplete SeqIdentifiesEvent
CHECK_DEADLOCK FALSE
