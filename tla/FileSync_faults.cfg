SPECIFICATION Spec
CONSTANTS
    b1 = b1
    b2 = b2
    b3 = b3
    None = None
    Body = {b1, b2, b3}
    Size <- MCSize
    SizeLimit = 1
    SkipBudget = 1
    Decisions = {"hold", "tie", "local", "remote", "clean", "markers"}
    Env = {"crash", "stop", "throw", "noProof", "noAnswer"}
    MaxEdits = 2
    MaxForeign = 1
    MaxFaults = 1
SYMMETRY SameSize
INVARIANTS TypeOK
PROPERTIES LocalWorkIsKept
