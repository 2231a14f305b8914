SPECIFICATION FairSpec
CONSTANTS
    Absent = Absent
    Failures = {}
    MaxVersion = 3
    MaxQueue = 3
    MaxFaults = 2
INVARIANTS TypeOK OnlyCopyIsSafe
PROPERTIES AtomicSpec SettledIsDurable RequestIsServed
