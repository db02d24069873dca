\* Two batches of one window of either frontend that overlap; every discovery
\* ends and every batch is reported.
SPECIFICATION Spec
CONSTANTS
    Device = {d1}
    WithMac = {d1}
    Ip <- OneAddress
    Hideable = {}
    MaxBatches = 2
    Frontend <- BothFrontends
    Absent = Absent
INVARIANTS
    FreedOnce
PROPERTIES
    ScanEnds
    BatchReported
