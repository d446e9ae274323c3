SPECIFICATION Spec
CONSTANTS
    me = me
    i1 = i1
    i2 = i2
    i3 = i3
    d1 = d1
    d2 = d2
    d3 = d3
    Ids = {me, i1, i2, i3}
    Self = me
    Dests = {d1, d2, d3}
    Versions = {6}
    Keys = {}
    NoKey = NoKey
    None = None
    Capacity = 2
    MaxFailures = 2
    UnreliableAt = 1
    EvictAge = 1
    StableWindow = 0
    MaxContacts = 0
    MaxSaved = 1
    MaxPending = 1
SYMMETRY Symmetry
INVARIANTS WithinCapacity
PROPERTY StablePeersOutliveDead
