SPECIFICATION FairSpec
CONSTANTS
    Issues <- OneIssue
    MaxGenerations = 1
    Reconcilers = {r1}
    NoLease = NoLease
    MaxVersion = 2
    MaxFaults = 1
    MaxRounds = 1
    MaxPRs = 0
    MaxHead = 1
    Checks <- OneCheck
    Required <- OneCheck
    OperatorHeads = {}
    AutoMergeOn = TRUE
    LaggingSearch = FALSE
    PersonPRs = FALSE
    Reviews <- Clear
PROPERTIES
    GivenUpIsHandedOff
CHECK_DEADLOCK FALSE
