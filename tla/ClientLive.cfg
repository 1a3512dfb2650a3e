SPECIFICATION FairSpec
CONSTANTS
  Configs <- MCLive
  Users = {"joe"}
  SndBuf = 1
  RcvBuf = 2
  BufSiz = 2
  IntMod = 64
  Second = 10
  MaxBytes = 2
PROPERTIES
  ClientGoneEndsSession
  IdleSessionEnds
  RelayIsNotStuck
CHECK_DEADLOCK FALSE
