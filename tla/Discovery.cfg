\* A window scan and a rescan on one port.
SPECIFICATION Spec
CONSTANTS
    window = window
    rescan = rescan
    cam = cam
    nvr = nvr
    Scan = {window, rescan}
    Device = {cam, nvr}
    Ip = {a1, a2}
    Retries <- TwoAndOne
    Speaks <- OneEach
    XmlMac <- Unnamed
    Moving = {cam}
INVARIANTS
    TypeOK
    NobodyHidden
PROPERTIES
    IsSurvey
