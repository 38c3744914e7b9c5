SPECIFICATION Spec
CONSTANTS
  c1 = c1  c2 = c2  c3 = c3  c4 = c4
  a = a  b = b
  Conn = {c1}
  Name = {a, b}
  NoName = NoName
  NoInode = NoInode
  Requests <- OneNulLine
  After <- NoWaiting
  HeaderLen = 1
  SizeLen = 1
  MaxEvents = 1
  PeersReset = FALSE
  Faults = {}
  Backend = "epoll"
INVARIANT MalformedIsRejected
