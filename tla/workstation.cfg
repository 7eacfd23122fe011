SPECIFICATION Spec
CONSTANTS
    None = None
    MaxFaults = 1
    Pids = {p1, p2, p3}
    VcorePids = {1, 2}
    Agents = {a1, a2}
    Callers = {c1, c2}
    Conns = {n1}
    Services = {db, web}
    critical = {db}
    frontend = web
    Files = {f1, f2}
    Months = {1, 2}
    Keys = {"k"}
    Values = {x1, x2}
    Inodes = {i1, i2, i3}
    Writers = {w1, w2}
    Slugs = {"a", "b"}
    Fields = {"x", "y"}
    MaxNumber = 2
    Hands = {h1, h2}
    Dirs <- MCDirs
    Parent <- MCParent
    TopLevel = {"cache", "specs"}
    Wipeable = {"cache"}
    Managed = {"r.git"}
    Budget = 0
    MaxLines = 2
    MaxSeconds = 2
    Runs = {r1, r2}
    Consumers = 4
    SecretMaps <- MCSecretMaps
    Probed = {1, 4}
    Steps = 2
    Declared <- MCStep
    Operators = {o1}
    MaxChanges = 2
    MaxRuns = 2
INVARIANTS
    TypeOK
    ProcessesAreRecorded
    RevocationHolds
    
    NothingOfValueGoes
    RotationTellsTheTruth
PROPERTIES
    
    RunbookKeepsItsWord
CHECK_DEADLOCK FALSE
