\* The stop that waits for a poller that waits for it.
CONSTANTS
    MaxBytes = 2
    MaxReports = 2
SPECIFICATION FairSpec
PROPERTIES PollerStops
CHECK_DEADLOCK FALSE
