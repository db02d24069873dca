\* Both frontends: one device with a MAC address, one without.
SPECIFICATION Spec
CONSTANTS
    Device = {d1, d2}
    WithMac = {d1}
    Ip <- ThreeAddresses
    Hideable = {d1}
    MaxBatches = 1
    Frontend <- BothFrontends
    Absent = Absent
INVARIANTS
    TypeOK
    OneScan
    PasswordScope
    NeverLockedOut
PROPERTIES
    RefreshKeepsTargets
