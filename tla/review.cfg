SPECIFICATION Spec
CONSTANTS
    Issues <- OneIssue
    MaxGenerations = 1
    Reconcilers = {r1}
    NoLease = NoLease
    MaxVersion = 6
    MaxFaults = 1
    MaxRounds = 2
    MaxPRs = 1
    MaxHead = 2
    Checks <- OneCheck
    Required <- OneCheck
    OperatorHeads = {2}
    AutoMergeOn = TRUE
    LaggingSearch = FALSE
    PersonPRs = FALSE
    Reviews <- Blocking
INVARIANTS
    TypeOK
    ArmedOutsideOperatorPaths
PROPERTIES
    ReviewIsAsPromised
    VerdictFitsRound
CHECK_DEADLOCK FALSE
