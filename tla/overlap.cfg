SPECIFICATION Spec
CONSTANTS
    Issues <- OneIssue
    MaxGenerations = 1
    Reconcilers = {r1, r2}
    NoLease = NoLease
    MaxVersion = 2
    MaxFaults = 0
    MaxRounds = 1
    MaxPRs = 1
    MaxHead = 1
    Checks <- OneCheck
    Required <- OneCheck
    OperatorHeads = {}
    AutoMergeOn = FALSE
    LaggingSearch = FALSE
    PersonPRs = TRUE
    Reviews <- Undecided
INVARIANTS
    ApprovedMeansMerged
PROPERTIES
    ArmedOnEvidence
    OrphanMergesAreDeliveries
SYMMETRY
    Interchangeable
CHECK_DEADLOCK FALSE
