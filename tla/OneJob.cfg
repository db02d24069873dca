\* One job in either mode: stale inventory, moving DHCP leases, every password.
SPECIFICATION Spec
CONSTANTS
    Worker = {w1}
    Device = {d1, d2}
    Ip <- ThreeAddresses
    NumJobs = 1
    L2Attempts = 2
    MaxRescans = 2
    Spelling = {s1}
    StaleInventory = TRUE
    Leases = TRUE
    Modes <- AllModes
    Lengths <- AllLengths
    Nobody = Nobody
SYMMETRY Symmetry
INVARIANTS
    TypeOK
    OnlyTheTarget
    VerifiedWasReal
    FallbackOnly
    FailedSentNothing
    SecretDiscipline
PROPERTIES
    KeepsPromiseSafely
