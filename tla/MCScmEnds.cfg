SPECIFICATION FairSpec
CONSTANTS
    P1 = P1
    Procs = {P1}
    Verbs = {"stop", "uninstall", "start"}
    MaxStarts = 3
    Bounded = FALSE
CHECK_DEADLOCK FALSE
PROPERTIES
    WaitsEnd
