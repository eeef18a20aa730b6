SPECIFICATION FairServerSpec
CONSTANTS
    d1 = d1
    d2 = d2
    Instances = {1, 2}
    StateDirs <- Two
    Layouts <- SharedOrNot
    c1 = c1
    c2 = c2
    Conns <- Pair
    Requests <- EnqueueAndAny
    MaxConnections <- TwoThenOne
    Nobody = Nobody
    MaxTroubles = 1
INVARIANTS OneOwner
PROPERTIES ClientsServed AnsweredRuns TeardownEnds
CHECK_DEADLOCK FALSE
