SPECIFICATION DriverSpec
CONSTANTS
    LongOpts <- MCLongOpts
    Lines <- MCLines
    Sources <- MCSources
    MaxRuns = 2
    MaxEdits = 1
    MaxClock = 2
INVARIANTS
    DoesWhatWasAsked
    FailureWritesNothing
CHECK_DEADLOCK FALSE
