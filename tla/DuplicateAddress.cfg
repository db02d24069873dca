\* An address the inventory shows for a selected device is handed to another.
SPECIFICATION Spec
CONSTANTS
    Octet = 4
    Bits = 8
    LastUnicast = 2
    Loopback = 1
    LinkLocal <- TwoTwo
    Row = {r1, r2, r3}
    Mac = {m1, m2}
    NoMac = NoMac
    Start <- OneStart
    Mask <- OneRowMask
    Gateway <- GatewayInside
    Place <- Places
    RowMask <- OneRowMask
    RowGateway <- GatewayInside
    MaxSelected = 2
    NotAnAddress = NotAnAddress
SYMMETRY Symmetry
INVARIANTS
    NoAddressOfAnother
\* A plan is refused or accepted once.
CHECK_DEADLOCK FALSE
