SPECIFICATION Spec
CONSTANTS
    n1 = n1
    n2 = n2
    n3 = n3
    Nodes = {n1, n2, n3}
    Seeds = {n1, n2}
    None = None
    Torn = Torn
    Malformed = Malformed
    Small = 2
    MaxSaved = 2
    MaxPersist = 2
PROPERTY SeedsOutliveEviction
