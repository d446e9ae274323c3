SPECIFICATION Spec
CONSTANTS
    me = me
    i1 = i1
    i2 = i2
    d1 = d1
    d2 = d2
    k1 = k1
    Ids = {me, i1, i2}
    Self = me
    Dests = {d1, d2}
    Versions = {5, 6}
    Keys = {k1}
    NoKey = NoKey
    None = None
    Capacity = 2
    MaxFailures = 1
    UnreliableAt = 1
    EvictAge = 1
    StableWindow = 0
    MaxContacts = 1
    MaxSaved = 2
    MaxPending = 0
SYMMETRY Symmetry
INVARIANT OneEntryPerDestination
