SPECIFICATION MCSpec
\* Two nodes, two calls, two daemons;
\* one change of the configuration files and one SetLogging;
\* two plugins that watch two paths of two files.
CONSTANTS
    h0 = h0
    h1 = h1
    root = root
    user = user
    Iface = {h0, h1}
    Driverless = {h1}
    Caller = {root, user}
    Root = root
    HasAuthority = TRUE
    MaxPlugs = 2
    MaxCalls = 2
    MaxStarts = 2
    DefaultDomains = {"CORE", "BT"}
    LevelArg = {"", "WARN", "DEBUG", "LOUD"}
    MaxWrites = 1
    MaxSets = 1
    Plugin = {reader, writer}
    Path = {path, link}
    MaxInodes = 2
    MaxEdits = 2
    MaxWatches = 2
INVARIANTS
    NothingMissed
    NoGhosts
    StartsAsAsked
    FilesWatched
PROPERTIES
    OnlyGrantedCallsRule
CHECK_DEADLOCK FALSE
