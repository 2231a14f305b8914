SPECIFICATION EngineSpec
CONSTANTS
    Absent = Absent
    None = None
    Failures = {}
    Gap = TRUE
    MaxVersion = 3
    MaxQueue = 2
    MaxFaults = 0
    MaxRuns = 2
CHECK_DEADLOCK FALSE
PROPERTIES AbortWaits
