SPECIFICATION Spec
CONSTANTS
    Capacity = 3
    Ticks = {7}
    Checksums = {0, 9}
    ScrubBytes = {300}
    Bits = {7}
    MissingBits = {2}
    ReasonCodes = {16}
INVARIANT RingInv
PROPERTY IsBoundedLog
