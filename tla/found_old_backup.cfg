SPECIFICATION Spec
CONSTANTS
    None = None
    Torn = Torn
    Files = {"f", "g"}
    Slots = 1
    MayDamage = TRUE
INVARIANT FallbackIsOwn
CHECK_DEADLOCK FALSE
