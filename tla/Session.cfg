SPECIFICATION FairSession
CONSTANTS
  c1 = c1  c2 = c2  c3 = c3
  a = a  b = b
  Conn = {c1, c2, c3}
  Name = {a}
  NoName = NoName
  NoInode = NoInode
  Requests <- UploadsAndOther
  After <- AfterTheFirst
  HeaderLen = 1
  SizeLen = 1
  MaxEvents = 2
  PeersReset = TRUE
  Faults = {}
  Backend = "epoll"
  SendRoom = 3
  ReadRoom = 2
  LocalFaults <- Failing
INVARIANTS ClientTypeOK SuccessIsRead SuccessIsStored  NoAnswerLost
PROPERTY EveryClientEnds
CHECK_DEADLOCK FALSE
