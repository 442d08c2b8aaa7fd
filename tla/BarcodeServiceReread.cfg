\* As BarcodeService.cfg.
CONSTANTS
    s1 = s1
    mouse = mouse
    Node = {s1, mouse}
    Scanner = {s1}
    NotUsb = {}
    ReportSizes = {5, 8}
    FirstFd = 5
    MaxFd = 8
    MaxPlugs = 2
    MaxScans = 2
    MaxStarts = 1
    QuitAfter = 2
    MaxFile = 2
    MaxAction = 2
    MaxEdits = 2
SPECIFICATION MCSpec
INVARIANT
    ScannersStayOpen
CHECK_DEADLOCK FALSE
