SPECIFICATION Spec
CONSTANTS
  Runs = {r1, r2}
  Pids = {p1, p2, p3}
  Addrs <- MCAddrs
  Faults = {"reboot", "pid reused"}
PROPERTY RefusedOnlyIfRunning
CHECK_DEADLOCK FALSE
