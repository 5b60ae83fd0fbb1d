SPECIFICATION Spec
CONSTANTS
    reading = reading
    id = id
    on = on
    off = off
    s1 = s1
    s2 = s2
    CounterFields = {reading}
    OtherFields = {}
    Modulus = 3
    Texts = {on, off}
    Schemas = {s1}
    Configs <- OnlyNoReuse
    FirstConfig <- NoReuse
    SeqMod = 3
    Events = {"loseFull"}
    MaxRecords = 6
    MaxControls = 0
    NoPayload = NoPayload
    NoPacket = NoPacket
CHECK_DEADLOCK FALSE
INVARIANT NeverMisdecode
