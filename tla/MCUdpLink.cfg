SPECIFICATION Spec
CONSTANTS
    a = a
    Server = Server
    Clients = {a}
    Size <- Sizes
    Limit <- Limits
    SeqMod = 5
    MaxSends <- AtMost
    MaxPorts = 2
    MaxCopies = 1
CHECK_DEADLOCK FALSE
INVARIANT LossObserved
INVARIANT DeliveredWhole
