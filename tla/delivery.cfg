SPECIFICATION Spec
CONSTANTS
    None = None
    MaxFaults = 1
    Branches = {b1}
    Changes = {c1}
    Removers = {r1}
    Canonical = {c}
    Legacy = {l}
    Undeclared = {}
    Main = m
    Expected = {}
    Clones = {n1, n2}
    MaxCommits = 3
    FewCommits = 2
    Explicit = {}
    Repos = {r1}
    PullRequests = {1}
    Commands = {c1, c2}
    MaxCuts = 1
    Worktrees = {w1}
    MaxMain = 2
    MaxOwn = 1
    Tasks = {t1, t2}
    Issues = {i1}
    SprintIds = {s1, s2}
    Members = {t1}
    Planners = {p1}
    Limit = 1
    Backlogged = {1, 2, 3}
    DependsOn <- MCDependsOn
    Ranks = {1, 5}
    ReadyLimit = 2
    ClosedLimit = 1
    Pickers = {p1}
    MaxChanges = 1
    Required = {"prd"}
    Recommended = {}
    Stories = {s1}
    Fixers = {f1, f2}
    TaskThreshold = 1
    Pages = {"p1"}
    Titles = {"t1", "t2"}
    Pipelines = {"q1"}
    Machines = {"m1", "m2"}
    Hands = {"h1", "h2"}
    MachineOf <- MCMachineOf
    Files = {"a1", "b1"}
    Home <- MCHome
    Units = {"a", "b"}
    Refers <- MCRefers
    Imports <- MCImports
    MaxRevision = 2
    MaxVersion = 3
    MaxAuthored = 1
    MaxCustomised = 1
INVARIANTS
    TypeOK
    WorktreesKeepWork
    VersionsFollowMain
    LastWordHolds
    
    PickIsActionable
    APageBecomesOneTask
PROPERTIES
    
    
    
    
    PinsAndCopiesAreTrue
CHECK_DEADLOCK FALSE
