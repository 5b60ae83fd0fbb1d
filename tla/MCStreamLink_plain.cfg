SPECIFICATION Spec
CONSTANTS
    reading = reading
    id = id
    on = on
    off = off
    s1 = s1
    s2 = s2
    CounterFields = {reading}
    OtherFields = {id}
    Modulus = 2
    Texts = {on, off}
    Schemas = {s1, s2}
    Configs <- PlainConfigs
    FirstConfig <- Batching
    SeqMod = 2
    Events = {"configure", "apply", "overtake", "recover"}
    MaxRecords = 4
    MaxControls = 1
    NoPayload = NoPayload
    NoPacket = NoPacket
CHECK_DEADLOCK FALSE
INVARIANT NeverMisdecode
INVARIANT Conserved
