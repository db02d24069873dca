\* Launches, settings and hand-written files in any order.
SPECIFICATION Spec
CONSTANTS
    Path = {p0, p1}
    DefaultPath = p0
    Environment = p1
    Address = {a1}
    Timeout <- TimeoutsAtLimits
    Empty = Empty
    NotGiven = NotGiven
    LoaderPath = LoaderPath
    NoFile = NoFile
INVARIANTS
    TypeOK
    TimeoutInRange
    FileNeverRefused
    SettingsSurvive
    LibraryReleased
