\* The abstract promise, with its liveness, and the end of every password; the
\* device spells its MAC address in two ways and is listed, and planned, twice,
\* at one address or at two.
SPECIFICATION Spec
CONSTANTS
    Worker = {w1}
    Device = {d1}
    Ip <- TwoAddresses
    NumJobs = 2
    L2Attempts = 1
    MaxRescans = 1
    Spelling = {s1, s2}
    StaleInventory = TRUE
    Leases = FALSE
    Modes <- StaticOnly
    Lengths <- ShortOrLong
    Nobody = Nobody
PROPERTIES
    KeepsPromise
    SecretsAreWiped
