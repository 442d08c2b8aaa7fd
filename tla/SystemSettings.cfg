\* Two files, two values, two calls: edits, early announcements and PolicyKit's answers cross.
CONSTANTS
    File = {f0, f1}
    NoFile = NoFile
    Object <- Objects2
    NoObject = NoObject
    Value = {v}
    NoSettings = NoSettings
    Call <- Calls2
    CanModify = TRUE
    MaxEdit = 1
SPECIFICATION FairSpec
INVARIANT
    ToldAsListed
    CopiesAgree
PROPERTY
    StoreSpec
    CallsAnswered
CHECK_DEADLOCK FALSE
