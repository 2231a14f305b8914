SPECIFICATION EngineSpec
CONSTANTS
    Absent = Absent
    None = None
    Failures = {"write", "remove", "rename", "read", "adopt"}
    Gap = FALSE
    MaxVersion = 3
    MaxQueue = 2
    MaxFaults = 2
    MaxRuns = 2
CHECK_DEADLOCK FALSE
INVARIANTS MainIsWhole EngineSafety
PROPERTIES AbortWaits CommandsReturn
