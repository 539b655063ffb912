SPECIFICATION FairSpec
CONSTANTS
    Killers = {K1, K2}
    Pids = {1, 2}
    MaxStarts = 2
    MaxStrangers = 1
CHECK_DEADLOCK FALSE
INVARIANTS
    TypeOK
    KillsAreDistinct
    NoMissedRelease
PROPERTIES
    StrangersLive
    TerminatedIsRecorded
    KillEnds
