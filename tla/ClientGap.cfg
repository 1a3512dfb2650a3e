SPECIFICATION Spec
CONSTANTS
  Configs <- MCTimeouts
  Users = {"joe"}
  SndBuf = 1
  RcvBuf = 2
  BufSiz = 2
  IntMod = 64
  Second = 10
  MaxBytes = 2
INVARIANT BouncesEveryByte
CHECK_DEADLOCK FALSE
