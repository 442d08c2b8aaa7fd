\* Two devices, a daemon that restarts: calls overtake signals.  Two calls on a
\* connection that others change or remove once.
CONSTANTS
    MaxStart = 2
    MaxPath = 2
    MaxChange = 2
    MaxInbox = 3
    Call = {1, 2}
    Value = {"a", "b"}
    ReadOnly = {"b"}
    Invalid = {"none"}
    MaxOther = 1
SPECIFICATION MCSpec
INVARIANT
    DevicesFollow
    CallsSeen
PROPERTY
    ValuesFollow
CHECK_DEADLOCK FALSE
