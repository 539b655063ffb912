SPECIFICATION Spec
CONSTANTS
    Millis = 2
    MaxU32 = 3
    MaxInstant = 9
    MaxMeddling = 1
    MaxNow = 1
    Hosts <- MCHosts
    Faults = {"spawn", "watch", "probe", "make", "silent"}
    Verbs = {"start", "stop", "restart", "kill", "enable", "disable", "install", "install_start", "status"}
    Budgets <- MCBudgets
    Ids = 2
INVARIANTS
    TurnsAreSound
    HostIsJudged
    AnswersAreTrue
    OkIsEarned
    StartFollowsStop
    MillisKeepDeadline
PROPERTIES
    BoundedEnds
