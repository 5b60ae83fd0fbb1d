SPECIFICATION Spec
CONSTANTS
    Client = Client
    Server = Server
    Senders = {Client, Server}
    Receivers = {Client, Server}
    Clearers = {Client}
    Body <- Bodies
    Capacity = 2
    Backlog = 2
    Reconnects = TRUE
    Timeouts = {Client, Server}
    MaxPending = 2
    MaxPackets <- AtMost
    MaxConnections = 2
    MaxBreaks = 1
    MaxFailures <- AtMost
CHECK_DEADLOCK FALSE
INVARIANT QueuedOrWritten
INVARIANT ReceivedInTurn
INVARIANT LeaksAreFailures
PROPERTY Faithful
PROPERTY CallsReturn
