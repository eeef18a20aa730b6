SPECIFICATION RepliesSpec
CONSTANTS
    a = a
    b = b
    c = c
    d = d
    q1 = q1
    q2 = q2
    Unnamed = Unnamed
    NotNumber = NotNumber
    Absent = Absent
    Strangers = {x}
    Requests <- MCRequests
    Answering <- MCAnswering
    Values <- MCValues
    Minimums <- MCMinimums
    Scale = 100
    Tie = 1
    Eps = 2
    SumTol = 4
    ScoreTol = 50
    MaxOptions = 3
    MaxLevels = 3
    PairBudget = 4
    TotalBudget = 7
    MaxBody = 8
    o1 = o1
    o2 = o2
    e1 = e1
    e2 = e2
    w1 = w1
    w2 = w2
    Entries = {e1, e2}
    Owners = {o1, o2}
    Callers = {w1, w2}
    Bytes <- MCBytes
    MaxBytes = 2
    MaxAge = 0
    MaxStores = 2
    MaxTime = 1
    MaxCrashes = 1
SYMMETRY Symmetry
INVARIANTS
    DecisionFollowsChosen
    LimitsExact
    UsableReplyAccepted
    LoadsWhole
    ErasureComplete
    SweepsExact
