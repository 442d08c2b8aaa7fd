\* Two buttons, a policy that changes, a check that fails, a daemon that exits;
\* two plugins that keep a hostname, a call that saves it;
\* two directories of GConf, two new versions of their contents.
CONSTANTS
    MaxButton = 2
    MaxChange = 1
    MaxFault = 1
    HostName = {"one", "two"}
    Modifiers = {"keyfile"}
    MaxEdit = 1
    MaxCall = 1
    MaxExit = 1
    MaxDir = 2
    MaxVersion = 3
    MaxList = 3
    MaxNotes = 1
    MaxStart = 2
SPECIFICATION MCFairSpec
INVARIANTS
    ButtonsRight
    HostnameFollows
    InStep
PROPERTY
    CallersAnswered
CHECK_DEADLOCK FALSE
