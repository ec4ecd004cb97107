SPECIFICATION FwSpec
CONSTANTS
    AddressSpace = 7
    MaxRegions = 2
    Threshold = 3
    Permissions = {}
    MaxViolations = 0
INVARIANTS FwInv NeverBlocked ChecksAreExact
PROPERTY ProtectionOnlyGrows
