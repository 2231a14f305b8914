SPECIFICATION FairSpec
CONSTANTS
  f = f
  g = g
  h = h
  a = a
  b = b
  None = None
  Files <- Two
  Body <- Bodies
  MassDeleteLimit = 1
  ForceEvery = 1
  Decisions = {"local", "remote", "hold"}
  Env = {"vanish", "false404", "partial", "request", "vault", "crash"}
  MaxUser = 1
  MaxForeign = 2
  MaxFaults = 1
CHECK_DEADLOCK FALSE
INVARIANTS Safety RootLossKeepsFiles
PROPERTIES VaultConverges
