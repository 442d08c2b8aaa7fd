\* Two connections, three changes outside while bmcli runs; a table of three fields.
\* One connection, three edits of the copy or of GConf between any other steps.
CONSTANTS
    Connection = {"c1", "c2"}
    MaxChange = 3
    Wide = {"W"}
    ZeroWidth = {"Z"}
    NotSet <- NotSetMC
    Value <- ValuesMC
    Uuid <- UuidMC
    Edits <- EditsMC
    MaxEdits = 3
    IntBits = 10
    LongBits = 6
SPECIFICATION MCSpec
INVARIANT
    ListedAll
    LinesReadBack
    DiffIsCompare
    KeptAsWritten
PROPERTY
    Ends
CHECK_DEADLOCK FALSE
