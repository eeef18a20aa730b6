SPECIFICATION FairSupervise
CONSTANTS
    s1 = s1
    s2 = s2
    Supervisors <- Pair
    MaxRestarts <- OneRestart
    CrashWindow = 1
    DiagnosticQueue = 1
    Platforms = {"linux", "other"}
    Fds = {3, 4}
    MaxTime = 1
    MaxFailures = 1
INVARIANTS OneChild PipesKept
PROPERTIES StopReturns OrphansEnd
CHECK_DEADLOCK FALSE
