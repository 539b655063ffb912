CONSTANTS
    Runs = {R1}
    Specs = {S1, S2}
    Verbs = {"install"}
    MaxEdits = 0
    Mishaps = {"crash"}
SPECIFICATION Spec
PROPERTY InterruptedCanBeRedone
CHECK_DEADLOCK FALSE
