SPECIFICATION FairSpec
\* As UserSettingsOne.cfg, and nobody sets priv->authority.
CONSTANTS
    s1 = s1
    s2 = s2
    Service = {s1}
    NoService = NoService
    Path = {p1, p2}
    Content = {a, bad}
    Valid = {a}
    NoConnection = NoConnection
    Deleted = Deleted
    HasAuthority = FALSE
    SlowService = FALSE
    Refused <- NoneRefused
    MaxInbox = 1
    MaxToken = 3
    MaxChain = 2
PROPERTY
    ProxySettles
CHECK_DEADLOCK FALSE
