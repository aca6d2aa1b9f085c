SPECIFICATION Spec
CONSTANTS
    Workers = {w1, w2}
    MaxJobs = 3
    MaxFailures = 0
    MaxRestarts = 0
    MaxEvents = 3
PROPERTIES MissingZonesAreWritten
CHECK_DEADLOCK FALSE
