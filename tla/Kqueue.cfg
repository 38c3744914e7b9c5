SPECIFICATION FairSpec
CONSTANTS
  c1 = c1  c2 = c2  c3 = c3  c4 = c4
  a = a  b = b
  Conn = {c1, c2}
  Name = {a, b}
  NoName = NoName
  NoInode = NoInode
  Requests <- AllCommands
  After <- NoWaiting
  HeaderLen = 1
  SizeLen = 1
  MaxEvents = 1
  PeersReset = FALSE
  Faults = {}
  Backend = "kqueue"
INVARIANT NoUseAfterFree
 
