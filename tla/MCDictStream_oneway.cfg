SPECIFICATION Spec
CONSTANTS
    a = a
    b = b
    s1 = s1
    s2 = s2
    x = x
    y = y
    z = z
    Peers = {a, b}
    Other <- Across
    Senders = {a}
    Streams = {s1}
    Strings = {x, y, z}
    IdMod = 4
    Setup <- Two
    Settable <- NoSettings
    Events = {"delta", "resetBoth"}
    MaxRecords = 5
    MaxControls = 1
    NoString = NoString
    NoPacket = NoPacket
CHECK_DEADLOCK FALSE
INVARIANT NeverMisread
INVARIANT NoneRefused
INVARIANT SameDictionary
