SPECIFICATION FairSpec
CONSTANTS
  v1 = v1
  v2 = v2
  w2 = w2
  None = None
  Body <- Bodies
  Version <- Numbers
  TooNew <- Newest
  ByTime = {"local", "remote"}
  Env = {"crash", "manifest"}
  MaxUser = 2
  MaxForeign = 1
  MaxFaults = 1
CHECK_DEADLOCK FALSE
INVARIANTS Safety
PROPERTIES SettingsWaitForRestart DeleteIsUninstall BundleConverges
