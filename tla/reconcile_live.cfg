SPECIFICATION FairSpec
CONSTANTS
    Issues <- OneIssue
    MaxGenerations = 1
    Reconcilers = {r1}
    NoLease = NoLease
    MaxVersion = 2
    MaxFaults = 1
    MaxRounds = 1
    MaxPRs = 2
    MaxHead = 1
    Checks <- OneCheck
    Required <- OneCheck
    OperatorHeads = {}
    AutoMergeOn = FALSE
    LaggingSearch = FALSE
    PersonPRs = FALSE
    Reviews <- Clear
PROPERTIES
    ExhaustedTasksAreWithdrawn
    MergedWorkIsClosed
    ClosedLeftoverDropsNothing
CHECK_DEADLOCK FALSE
