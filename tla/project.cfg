SPECIFICATION Spec
CONSTANTS
    NFiles = 3
    Builds = {1, 2}
    t1 = t1  t2 = t2
    Trees = {t1, t2}
    Tree <- MCTree
    Flawed <- MCFlawed
    k1 = k1
    Keys = {k1}
    VerifierKey = k1
    None = None
    MaxChanges = 4
    a = a  b = b  p1 = p1  p2 = p2
    Tips = {a, b}
    DependsOn <- MCDependsOn
    Procs = {p1, p2}
    Free = Free
    Broken = Broken
    MaxTrail = 3
    w1 = w1  w2 = w2
    Writers = {w1, w2}
    Idle = Idle
    Garbage = Garbage
    MaxRaised = 2
    c1 = c1  c2 = c2  x = x  y = y  f1 = f1  f2 = f2
    Clients = {c1, c2}
    Nobody = Nobody
    Commits = {x, y}
    Wanted <- MCWanted
    EvidenceFiles = {f1, f2}
    Missing = Missing
    Torn = Torn
    PerPage = 1
    MaxRuns = 2
    MaxAttempts = 2
SYMMETRY Symmetry
INVARIANTS TypeOK AllOrNothing NothingLost OnlyWhatWasSigned EligibleAsApproved
           HistoryAccounts LogAsPromised InstalledAsAsked
CHECK_DEADLOCK FALSE
