\* One batch of two jobs, planned from an up-to-date inventory.
SPECIFICATION Spec
CONSTANTS
    Worker = {w1}
    Device = {d1, d2}
    Ip <- ThreeAddresses
    NumJobs = 2
    L2Attempts = 1
    MaxRescans = 1
    Spelling = {s1}
    StaleInventory = FALSE
    Leases = FALSE
    Modes <- StaticOnly
    Lengths <- ShortOnly
    Nobody = Nobody
SYMMETRY Symmetry
INVARIANTS
    OneAtATime
    NoStaticClash
PROPERTIES
    EveryStepCounts
