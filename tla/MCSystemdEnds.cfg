CONSTANTS
    Runs = {R1, R2}
    Specs = {S1}
    Verbs = {"install", "uninstall", "enable"}
    MaxEdits = 1
    Mishaps = {"links", "crash", "directories", "dropins"}
SPECIFICATION FairSpec
PROPERTY VerbsAnswer
CHECK_DEADLOCK FALSE
