SPECIFICATION Spec
CONSTANTS
    Issues <- OneIssue
    MaxGenerations = 2
    Reconcilers = {}
    NoLease = NoLease
    MaxVersion = 1
    MaxFaults = 0
    Limit = 1
    MaxEdits = 0
    Webhooks = FALSE
INVARIANT
    OneLiveAttempt
CHECK_DEADLOCK FALSE
