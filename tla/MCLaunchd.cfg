CONSTANTS
    S1 = S1
    Specs = {S1, S2, S3}
    Kept = {S1, S2}
    Always = {S1}
    Runs = {R1, R2}
    Verbs = {"install", "uninstall", "enable", "disable", "start", "stop", "kill", "status", "list"}
    Initially <- FirstPlists
    Mishaps = {"calls", "crash", "stranger"}
SYMMETRY Symmetry
SPECIFICATION Spec
INVARIANTS
    WithinBounds
    PlistIsSomewhere
    ConfirmedStartRan
    LoadedIsOnDisk
CHECK_DEADLOCK FALSE
