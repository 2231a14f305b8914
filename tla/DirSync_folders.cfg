SPECIFICATION FairSpec
CONSTANTS
  Dirs <- Three
  MassDeleteLimit = 1
  MassDeleteMin = 1
  MassDeleteShare = 2
  ForceEvery = 1
  Faults = {"list", "partial", "request", "vault", "cancel"}
  Overlap = FALSE
  MaxUser = 2
  MaxForeign = 2
  MaxFaults = 1
CHECK_DEADLOCK FALSE
INVARIANTS Safety
PROPERTIES DeletionIsMeant TrashIsProven FoldersConverge
