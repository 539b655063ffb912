CONSTANTS
    Runs = {R1, R2}
    Specs <- MCAllSpecs
    NoSpec = NoSpec
    Verbs = {"install", "enable", "disable", "uninstall"}
    MaxMeddling = 1
    MaxMishaps = 1
    Mishaps = {"calls", "crash"}
SYMMETRY Symmetry
SPECIFICATION Spec
INVARIANTS
    UpdatesAreSound
    UnmarkedIsWindow
    CanLogOn
PROPERTIES
    DoneReadsBack
    UninstallIsTrue
CHECK_DEADLOCK FALSE
