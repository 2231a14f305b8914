SPECIFICATION FairSpec
CONSTANTS
    b1 = b1
    b2 = b2
    b3 = b3
    None = None
    Body = {b1, b2}
    Size <- MCSize
    SizeLimit = 0
    SkipBudget = 1
    Decisions = {"local", "remote", "clean"}
    Env = {"crash"}
    MaxEdits = 1
    MaxForeign = 1
    MaxFaults = 1
INVARIANTS ArmedHasNoGhost
PROPERTIES Settles
