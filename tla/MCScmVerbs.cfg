SPECIFICATION Spec
CONSTANTS
    Procs = {P1, P2}
    P1 = P1
    P2 = P2
    Verbs = {"stop", "uninstall", "start"}
    MaxStarts = 2
    Bounded = TRUE
CHECK_DEADLOCK FALSE
INVARIANTS
    WaitsAreSound
    ConfirmedHappened
    UninstalledStaysStopped
SYMMETRY Symmetry
