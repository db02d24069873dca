\* A rejected login is followed by a layer-2 request.
SPECIFICATION Spec
CONSTANTS
    Worker = {w1}
    Device = {d1, d2}
    Ip <- ThreeAddresses
    NumJobs = 1
    L2Attempts = 2
    MaxRescans = 2
    Spelling = {s1}
    StaleInventory = FALSE
    Leases = FALSE
    Modes <- AllModes
    Lengths <- AllLengths
    Nobody = Nobody
INVARIANTS
    FallbackWhenUnavailable
