SPECIFICATION LoopSpec
CONSTANTS
  Listeners = {"l1", "l2"}
  List <- MCList
  Conns = {c1, c2, c3, c4}
  MaxOpen = 2
  Backlog = 2
  Platforms = {"kept", "aborted"}
  LaunchFails = TRUE
INVARIANTS
  TypeOK
  AcceptNeverWaits
PROPERTIES
  ServedWhileThereIsRoom
  EveryConnectionServed
CHECK_DEADLOCK FALSE
