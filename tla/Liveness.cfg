SPECIFICATION FairSpec
CONSTANTS
  c1 = c1  c2 = c2  c3 = c3  c4 = c4
  a = a  b = b
  Conn = {c1, c2}
  Name = {a, b}
  NoName = NoName
  NoInode = NoInode
  Requests <- AllCommands
  After <- NoWaiting
  HeaderLen = 2
  SizeLen = 2
  MaxEvents = 2
  PeersReset = FALSE
  Faults = {}
  Backend = "epoll"
INVARIANT WakeInv
PROPERTIES Served 
