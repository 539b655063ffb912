SPECIFICATION FairSpec
CONSTANTS
    NoCode = NoCode
    Half = 4096
    DaemonCodes <- MCDaemonCodes
    OsErrors <- MCOsErrors
    KilledCode = 1
INVARIANTS
    TypeOK
    AcceptedStopWins
    NoStoppedOverSurvivors
    RecordTellsOutcome
PROPERTIES
    StopPendingBeforeTeardown
    KeepsPromise
    RunEnds
