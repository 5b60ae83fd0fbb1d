SPECIFICATION Spec
CONSTANTS
    Client = Client
    Server = Server
    Foreign = {Server}
    Size <- Sizes
    Mistaken <- SomeHeads
    MaxMessage = 1
    Capacity = 3
    MaxSends <- AtMost
    MaxConnections = 2
    MaxBreaks = 1
CHECK_DEADLOCK FALSE
INVARIANT MessagesInTurn
INVARIANT Framed
INVARIANT WithinLimit
