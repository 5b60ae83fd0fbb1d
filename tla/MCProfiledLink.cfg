SPECIFICATION ProfiledSpec
CONSTANTS
    reading = reading
    id = id
    on = on
    off = off
    s1 = s1
    s2 = s2
    CounterFields = {reading}
    OtherFields = {id}
    Modulus = 2
    Texts = {on, off}
    Schemas = {s1, s2}
    Configs <- AdaptiveConfigs
    FirstConfig <- Eager
    SeqMod = 2
    Events = {"configure", "resetSender"}
    MaxRecords = 4
    MaxControls = 1
    NoPayload = NoPayload
    NoPacket = NoPacket
    Profilers <- SomeProfilers
    UserConfigs <- Chosen
    Profiles <- SomeProfiles
    FirstProfiler <- Long
    Repetition <- Half
    HitRate <- Half
    Unchanged <- Third
    Calls = {"send", "setStream", "setDictionary", "applyProfile", "setAdaptive", "resetProfiler"}
    Nothing = Nothing
CHECK_DEADLOCK FALSE
INVARIANT TypeOK
INVARIANT NeverMisdecode
INVARIANT NothingRejected
INVARIANT InSync
INVARIANT UserWins
INVARIANT DecisionInForce
