SPECIFICATION Spec
CONSTANTS
    s1 = s1
    s2 = s2
    Service = {s1, s2}
    NoService = NoService
    Path = {p1, p2}
    Content = {a}
    Valid = {a}
    NoConnection = NoConnection
    Deleted = Deleted
    HasAuthority = TRUE
    SlowService = FALSE
    Refused <- SecondRefused
    MaxInbox = 2
    MaxToken = 3
    MaxChain = 2
INVARIANTS
    BatchCounterExact
    AnnouncedIsKnown
    NothingFromExited
SYMMETRY Symmetry
CHECK_DEADLOCK FALSE
