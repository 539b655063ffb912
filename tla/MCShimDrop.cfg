SPECIFICATION FairSpec
CONSTANTS
    NoCode = NoCode
    Half = 4096
    DaemonCodes = {0}
    OsErrors = {NoCode}
    KilledCode = 1
PROPERTIES
    StoppedIsReported
