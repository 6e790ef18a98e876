SPECIFICATION DriverSpec
CONSTANTS
    LongOpts <- MCLongOpts
    Lines <- MCLines
    Sources <- MCSources
    MaxRuns = 2
    MaxEdits = 1
    MaxClock = 2
INVARIANT
    ParseErrorsAreFailures
CHECK_DEADLOCK FALSE
