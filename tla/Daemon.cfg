SPECIFICATION MCSpec
\* Two daemons and an outage; two applets of one session and one of another.
CONSTANTS
    d1 = d1
    d2 = d2
    Process = {d1, d2}
    Checkable <- SmallPid
    Nobody = Nobody
    Foreigner = Foreigner
    ForeignerComes = TRUE
    MaxOutages = 1
    Applet = {a1, a2}
    Other = other
    NoOwner = noone
    MaxDowns = 2
    MaxStarts = 2
INVARIANTS
    ServingOwnsNames
    RetryPending
PROPERTIES
    QuitObeyed
    Reconnects
    ComesBack
CHECK_DEADLOCK FALSE
