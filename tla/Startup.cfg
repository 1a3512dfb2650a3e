SPECIFICATION Spec
CONSTANTS
  Runs = {r1, r2, r3}
  Pids = {p1, p2, p3, p4}
  Addrs <- MCAddrs
  Faults = {"launcher killed", "reboot", "pid reused", "file fails"}
INVARIANTS
  TypeOK
  OneDaemon
  FileNamesDaemon
SYMMETRY MCSymmetry
CHECK_DEADLOCK FALSE
