SPECIFICATION Spec
CONSTANTS
  c1 = c1  c2 = c2  c3 = c3  c4 = c4
  a = a  b = b
  Conn = {c1, c2, c3, c4}
  Name = {a, b}
  NoName = NoName
  NoInode = NoInode
  Requests <- InTurn
  After <- OneAfterAnother
  HeaderLen = 1
  SizeLen = 1
  MaxEvents = 4
  PeersReset = FALSE
  Faults = {"open"}
  Backend = "epoll"
INVARIANTS StoreInv DiskMatchesList StoredIsOneUpload
PROPERTY ImplementsStore
