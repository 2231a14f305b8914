SPECIFICATION Spec
CONSTANTS
    Items <- MCItems
    Others = {"m"}
    Dirs = {"F", "F/G"}
    How <- MCHow
    Above <- MCAbove
    Bytes <- MCBytes
    Chunks = 1
    Limit = 2
    Budget = 3
    SerializeByDir = TRUE
    MaxForeign = 1
    MaxFaults = 1
INVARIANTS Safety DirectoryIsExclusive QuietBatchSucceeds MissingParentIsRecreated
PROPERTIES BatchEnds
CHECK_DEADLOCK FALSE
