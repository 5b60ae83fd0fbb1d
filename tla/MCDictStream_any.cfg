SPECIFICATION Spec
CONSTANTS
    a = a
    b = b
    s1 = s1
    s2 = s2
    x = x
    y = y
    z = z
    Peers = {a, b}
    Other <- Across
    Senders = {a, b}
    Streams = {s1}
    Strings = {x, y}
    IdMod = 4
    Setup <- Two
    Settable <- SomeSettings
    Events = {"lose", "delta", "reuse", "batch", "configure", "resetBoth", "sendReset"}
    MaxRecords = 2
    MaxControls = 1
    NoString = NoString
    NoPacket = NoPacket
SYMMETRY Alike
CHECK_DEADLOCK FALSE
INVARIANT Accounted
