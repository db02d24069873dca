\* Selections of up to three rows out of three: twin rows, rows without a MAC
\* address, every kind of mask.
SPECIFICATION Spec
CONSTANTS
    Octet = 4
    Bits = 8
    LastUnicast = 2
    Loopback = 1
    LinkLocal <- TwoTwo
    Row = {r1, r2, r3}
    Mac = {m1, m2}
    NoMac = NoMac
    Start <- Starts
    Mask <- Masks
    Gateway <- Gateways
    Place <- Places
    RowMask <- OneRowMask
    RowGateway <- GatewayInside
    MaxSelected = 3
    NotAnAddress = NotAnAddress
SYMMETRY Symmetry
INVARIANTS
    TypeOK
    OneSubnet
    PlanIsFree
    PlanIsAdmissible
    ArithmeticIsBitwise
\* A plan is refused or accepted once.
CHECK_DEADLOCK FALSE
