SPECIFICATION Spec
CONSTANTS
    Bits = 3
    OmitMark = 6
    NoName = "none"
    Definitions <- AllDefinitions
    Sends <- SenderStrings
    Known <- ReceiverStrings
    BatchMark = 4
    DeltaMark = 5
    ControlMark = 6
    CrcMark = 7
    CrcBytes = 2
    Poly <- SmallPoly
    Jobs <- SomeJobs
    Limit = 2
CHECK_DEADLOCK FALSE
INVARIANT RoundTrip
INVARIANT WholeOnly
INVARIANT OverlongRefused
INVARIANT EnvelopeKept
INVARIANT CorruptionRefused
INVARIANT FoundApart
INVARIANT NoiseCostsNothing
INVARIANT FoundDecodes
