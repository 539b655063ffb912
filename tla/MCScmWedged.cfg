CONSTANTS
    Runs = {R1}
    Specs <- MCSpecs
    NoSpec = NoSpec
    Verbs = {"install"}
    MaxMeddling = 0
    MaxMishaps = 1
    Mishaps = {"calls", "crash"}
SPECIFICATION Spec
INVARIANT ReinstallNeverWedges
CHECK_DEADLOCK FALSE
