CONSTANTS
    Jobs = {j1}
    Runs = {1, 2}
    Items = 1
    MaxRetries = 1
    MaxFaults = 1
    Callers = {a, b}
    MaxScore = 2
    MaxStops = 2
    None = None
SPECIFICATION Spec
CHECK_DEADLOCK FALSE
PROPERTIES RecordAdvances JobsResumed StopEnds
