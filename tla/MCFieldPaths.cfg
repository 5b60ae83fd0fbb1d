SPECIFICATION FieldSpec
CONSTANTS
    Byte = 4
    Half = 16
    Word = 64
    Grain = 4
    hello = hello
    bye = bye
    field = field
    note = note
    other = other
    Objects <- TriedObjects
    Schemas <- TwoFields
CHECK_DEADLOCK FALSE
INVARIANT FieldRebuilt
INVARIANT JsonKept
