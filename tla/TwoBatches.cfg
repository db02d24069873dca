\* Two batches at once, one job each, for the same device, which moves on its
\* own as well.  The password is too long for layer 2.
SPECIFICATION SurveyedSpec
CONSTANTS
    Worker = {w1, w2}
    Device = {d1}
    Ip <- TwoAddresses
    NumJobs = 1
    L2Attempts = 1
    MaxRescans = 2
    Spelling = {s1, s2}
    StaleInventory = FALSE
    Leases = TRUE
    Modes <- AllModes
    Lengths <- LongOnly
    Nobody = Nobody
SYMMETRY WorkerSymmetry
PROPERTIES
    VerdictIsFresh
