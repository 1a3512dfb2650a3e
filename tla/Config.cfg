SPECIFICATION Spec
CONSTANTS
  IPs <- MCIPs
  Hosts <- MCHosts
  IntMod = 64
  MaxPort = 7
  Files <- MCFiles
INVARIANTS
  LoadedAsDeclared
  SavedConfigReloads
CHECK_DEADLOCK FALSE
