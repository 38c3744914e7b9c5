SPECIFICATION FairSpec
CONSTANTS
  Conn = {c1, c2, c3}
  Fd = {3, 4, 5, 6, 7}
  NoFd = NoFd
  None = None
  MaxEvents = 3
  Backends = {"epoll", "kqueue"}
  Faults = {"mkdtemp", "socket", "loop", "wait", "accept"}
INVARIANTS RInv EventsReachTheirClient MapAgrees FilesHeld ListenerHeard StopsSoon
PROPERTIES Stops DirectoryRemoved
