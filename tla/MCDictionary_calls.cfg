SPECIFICATION Spec
CONSTANTS
    a = a
    b = b
    c = c
    d = d
    Strings = {a, b, c, d}
    IdMod = 4
    Limits = {0, 1, 2, 3}
    Calls = {"configure", "update", "evict", "reset"}
    MaxQueue = 4
SYMMETRY Renamings
INVARIANT RefsResolve
INVARIANT Consistent
INVARIANT CreateSucceeds
INVARIANT ConfigureEnds
PROPERTY StableIds
