SPECIFICATION FairSpec
CONSTANTS
  f = f
  g = g
  a = a
  b = b
  None = None
  D = D
  Files <- Two
  InD <- Inner
  Body <- Bodies
  Env = {"partial", "request", "vault", "save", "crash"}
  MaxActs = 2
  MaxMirrors = 1
CHECK_DEADLOCK FALSE
INVARIANTS Safety
PROPERTIES NothingIsSentBack MirrorConverges
