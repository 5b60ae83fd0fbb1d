SPECIFICATION Spec
CONSTANTS
    reading = reading
    id = id
    on = on
    off = off
    s1 = s1
    s2 = s2
    CounterFields = {reading}
    OtherFields = {}
    Modulus = 3
    Texts = {on, off}
    Schemas = {s1}
    Configs <- OnlyNoReuse
    FirstConfig <- NoReuse
    SeqMod = 3
    Events = {"loseDelta", "resetSender", "resetReceiver"}
    MaxRecords = 5
    MaxControls = 1
    NoPayload = NoPayload
    NoPacket = NoPacket
CHECK_DEADLOCK FALSE
INVARIANT DeltaInv
INVARIANT OutageBounded
PROPERTY FaithfulStream
