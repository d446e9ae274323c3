SPECIFICATION Spec
CONSTANTS
    Sizes = {1}
    MaxSize = 2
    MaxWire = 3
    MaxSent = 1
INVARIANT NoDesync
CHECK_DEADLOCK FALSE
