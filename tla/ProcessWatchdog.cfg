SPECIFICATION FairSpec
CONSTANTS
    Stale = 3
    Horizon = 6
INVARIANTS CrashIsReal HealthyIsQuiet
PROPERTIES NoBeatAfterClose CrashSettled
CHECK_DEADLOCK FALSE
