SPECIFICATION Spec
CONSTANTS
    None = None
    Values <- Texts
    Empty <- Blank
    Owners <- AllOwners
    MaxDisturbances = 3
INVARIANTS
    TypeOK
    SkippedIsInSync
PROPERTIES
    LocalEditsSurvive
    RemoteEditsSurvive
    Settles
CHECK_DEADLOCK FALSE
