SPECIFICATION Spec
CONSTANTS
  Answers <- MCAnswers
  Letters = {"j", "a"}
  MaxName = 3
  Ports = {1, 2}
  Remote = 1
  Local = 2
  Timeouts = {TRUE, FALSE}
INVARIANTS
  TypeOK
  SocketClosed
PROPERTIES
  HeardOut
  WaitedOut
  LookupEnds
CHECK_DEADLOCK FALSE
