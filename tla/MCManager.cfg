SPECIFICATION Spec
CONSTANTS
    Settings <- AllSettings
    NoTask = NoTask
INVARIANT BooksAreExact
PROPERTY ReloadIsComplete
CHECK_DEADLOCK FALSE
