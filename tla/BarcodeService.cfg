\* A scanner and another hidraw node; four descriptors, the last three above the
\* size of the shorter of the reports.
\* For the dispatcher two files and two calls, its ten seconds cut to two.
CONSTANTS
    s1 = s1
    mouse = mouse
    Node = {s1, mouse}
    Scanner = {s1}
    NotUsb = {}
    ReportSizes = {5, 8}
    FirstFd = 5
    MaxFd = 8
    MaxPlugs = 2
    MaxScans = 2
    MaxStarts = 1
    QuitAfter = 2
    MaxFile = 2
    MaxAction = 2
    MaxEdits = 2
SPECIFICATION MCSpec
INVARIANTS
    ScannersOpen
    PrintedInOrder
PROPERTIES
    ScansPrinted
    DispatcherServes
CHECK_DEADLOCK FALSE
