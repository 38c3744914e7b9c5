SPECIFICATION Spec
CONSTANTS
  c1 = c1  c2 = c2  c3 = c3  c4 = c4
  a = a  b = b
  Conn = {c1, c2, c3}
  Name = {a, b}
  NoName = NoName
  NoInode = NoInode
  Requests <- UploadAndUse
  After <- NoWaiting
  HeaderLen = 1
  SizeLen = 1
  MaxEvents = 3
  PeersReset = FALSE
  Faults = {"eagain"}
  Backend = "epoll"
INVARIANTS IInv AnswerInv ResponseFraming SentInPlace
PROPERTY ClosedComplete
CHECK_DEADLOCK FALSE
