\* Two paths, a service that restarts once or that changes a connection twice:
\* signals, replies and idle functions cross.
\* A manager that starts, changes and exits or starts again; the bus lost once.
CONSTANTS
    Path <- Paths2
    MaxStart = 2
    MaxVersion = 3
    MaxInbox = 2
    MaxSpent = 4
    Callback = {c1}
    MaxEvents = 3
    MaxDowns = 1
SPECIFICATION MCFairSpec
INVARIANT
    FollowsWhenQuiet
PROPERTY
    FollowerSpec
    ReadComes
    Reattaches
    OldApiReturns
CHECK_DEADLOCK FALSE
