SPECIFICATION Spec
CONSTANTS
  Configs <- MCAllConfigs
  Users = {"joe"}
  SndBuf = 1
  RcvBuf = 2
  BufSiz = 2
  IntMod = 64
  Second = 10
  MaxBytes = 2
INVARIANTS
  TypeOK
  RemoteStreamExact
  NothingHeldBack
  ClientStreamOrdered
  ClientStreamExact
  RepliesEndTheSession
PROPERTIES
  OrderlyEnd
  ImplementsStream
CHECK_DEADLOCK FALSE
