SPECIFICATION FairSpec
CONSTANTS
    Settings <- LiveSettings
    NoTask = NoTask
PROPERTY ReloadEnds
PROPERTY ShutdownEnds
CHECK_DEADLOCK FALSE
