SPECIFICATION FairSpec
CONSTANTS
    Issues <- OneIssue
    MaxGenerations = 2
    Reconcilers = {}
    NoLease = NoLease
    MaxVersion = 1
    MaxFaults = 1
    Limit = 1
    MaxEdits = 1
    Webhooks = TRUE
INVARIANTS
    TypeOK
    NoGenerationGap
    
PROPERTIES
    FreshAttemptNeedsACause
    RetryIsServed
CHECK_DEADLOCK FALSE
