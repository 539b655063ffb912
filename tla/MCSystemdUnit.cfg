CONSTANTS
    Runs = {R1, R2}
    Specs = {S1, S2}
    Verbs = {"install", "uninstall"}
    MaxEdits = 1
    Mishaps = {"calls", "crash"}
SYMMETRY Symmetry
SPECIFICATION Spec
INVARIANTS
    TypeOK
    NoSilentUninstall
    StrandedIsNamed
    InstallsSettle
PROPERTIES
    KeepsCustody
    UninstallClearsItsOwn
CHECK_DEADLOCK FALSE
