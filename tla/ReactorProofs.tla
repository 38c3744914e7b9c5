--------------------------- MODULE ReactorProofs ---------------------------
(***************************************************************************)
(* Proofs, for every value of the constants and over either back end, that *)
(* RInv holds in every reachable state of the process, and with it that    *)
(* events reach the client they were reported for, although descriptor     *)
(* numbers are reused; that the map agrees with the open sockets; and that *)
(* open files are held by the client that opened them.  From LoopInv, that *)
(* waiting connections are heard, SIGINT ends the loop, and the directory  *)
(* is removed.                                                             *)
(*                                                                         *)
(* The argument: a new descriptor is one that was free, so nothing in the  *)
(* map, in the batch or in a client speaks of it; and a socket is closed   *)
(* by its own client's handler only, which is handling the one event that  *)
(* the batch has of it.                                                    *)
(***************************************************************************)
EXTENDS Reactor, WellFoundedInduction, TLAPS

-----------------------------------------------------------------------------
(***************************************************************************)
(* Descriptors.                                                            *)
(***************************************************************************)
LEMMA KindsApart ==
  /\ Free[1] = "free" /\ Listen[1] = "listen" /\ Loop[1] = "loop"
  /\ \A c \in Conn : /\ Sock(c)[1] = "socket" /\ Sock(c)[2] = c
                     /\ File(c)[1] = "file" /\ File(c)[2] = c
BY DEF Free, Listen, Loop, Sock, File

Kind == {Free, Listen, Loop} \cup {Sock(c) : c \in Conn} \cup {File(c) : c \in Conn}

LEMMA LowestIsFree ==
  ASSUME FreeFds # {}
  PROVE  Lowest \in Fd /\ fds[Lowest] = Free
<1> DEFINE R == {ss \in Nat \X Nat : ss[1] < ss[2]}
<1>1. IsWellFoundedOn(R, Nat)
  BY NatLessThanWellFounded DEF OpToRel
<1>2. FreeFds \subseteq Nat
  BY ReactorAssumption DEF FreeFds
<1> HIDE DEF R
<1>3. PICK m \in FreeFds : \A k \in FreeFds : <<k, m>> \notin R
  BY <1>1, <1>2, WFMin
<1>4. ASSUME NEW k \in FreeFds PROVE m <= k
  <2>1. k < m => <<k, m>> \in R
    BY <1>2 DEF R
  <2>2. k \in Nat /\ m \in Nat
    BY <1>2
  <2> QED
    BY <1>3, <2>1, <2>2
<1>5. \E f \in FreeFds : \A g \in FreeFds : f <= g
  BY <1>4
<1>6. Lowest \in FreeFds
  BY <1>5 DEF Lowest
<1> QED
  BY <1>6 DEF FreeFds

-----------------------------------------------------------------------------
(***************************************************************************)
(* RInv in two parts: the types, and the rest.                             *)
(***************************************************************************)
Rest ==
  /\ EventsReachTheirClient /\ MapAgrees /\ FilesHeld
  /\ OneEventAsked /\ RegisteredIsOpen
  /\ OneEventEach /\ NeverBoth
  /\ WaitingOnce /\ OnlyOpenHold
  /\ NothingYet /\ ListenerOpen

LEMMA RInvParts == RInv <=> TypeOK /\ Rest
BY DEF RInv, Rest

(* Which socket an event, or a client, belongs to.                         *)
LEMMA EventOwner ==
  ASSUME TypeOK, Rest, NEW e \in batch, e.conn # None
  PROVE  /\ e.conn \in Conn /\ e.fd \in Fd
         /\ fd_to_client[e.fd] = e.conn /\ fds[e.fd] = Sock(e.conn)
         /\ client[e.conn].fd = e.fd /\ sock[e.conn] = "open"
<1>1. e.conn \in Conn /\ e.fd \in Fd
  BY DEF TypeOK
<1>2. fd_to_client[e.fd] = e.conn
  BY DEF Rest, EventsReachTheirClient, Get
<1> QED
  BY <1>1, <1>2 DEF Rest, MapAgrees

LEMMA ClientOf ==
  ASSUME TypeOK, Rest, NEW f \in Fd, fd_to_client[f] # None
  PROVE  LET c == fd_to_client[f] IN
         /\ c \in Conn /\ fds[f] = Sock(c)
         /\ client[c].fd = f /\ sock[c] = "open"
<1>1. fd_to_client[f] \in Conn
  BY DEF TypeOK
<1> QED
  BY <1>1 DEF Rest, MapAgrees

(* A step that touches neither descriptors nor clients, and takes events   *)
(* from the batch at most, preserves the rest.                             *)
LEMMA QuietPreserves ==
  ASSUME Rest,
         UNCHANGED <<fds, interest, fd_to_client, client, listen_fd, sock, backlog>>,
         batch' \subseteq batch,
         pc' \in {"start", "bind", "create"} => pc \in {"start", "bind", "create"},
         \/ pc' \in {"start", "bind", "cleanup", "exited"}
         \/ pc \notin {"start", "bind", "cleanup", "exited"}
  PROVE  Rest'
<1>1. EventsReachTheirClient' /\ NeverBoth' /\ OneEventEach'
  BY DEF Rest, EventsReachTheirClient, NeverBoth, OneEventEach, Get, ListenEvent
<1>2. MapAgrees' /\ FilesHeld'
  BY DEF Rest, MapAgrees, FilesHeld
<1>3. OneEventAsked' /\ RegisteredIsOpen'
  BY DEF Rest, OneEventAsked, RegisteredIsOpen
<1>4. NothingYet'
  BY DEF Rest, NothingYet
<1>5. ListenerOpen'
  BY DEF Rest, ListenerOpen
<1>6. WaitingOnce' /\ OnlyOpenHold'
  BY DEF Rest, WaitingOnce, OnlyOpenHold
<1> QED
  BY <1>1, <1>2, <1>3, <1>4, <1>5, <1>6 DEF Rest

-----------------------------------------------------------------------------
(***************************************************************************)
(* Starting.                                                               *)
(***************************************************************************)
LEMMA BuildPreserves ==
  ASSUME TypeOK, Rest, build_temp_directory
  PROVE  TypeOK' /\ Rest'
<1> USE DEF build_temp_directory, loopVars, netVars, clientVars
<1>1. TypeOK'
  BY DEF TypeOK, Point
<1>2. Rest'
  BY QuietPreserves
<1> QED
  BY <1>1, <1>2

LEMMA BindPreserves ==
  ASSUME TypeOK, Rest, create_and_bind_socket
  PROVE  TypeOK' /\ Rest'
<1> USE DEF create_and_bind_socket, loopVars, netVars, clientVars, fileVars
<1>1. CASE /\ FreeFds # {} /\ listen_fd' = Lowest
           /\ fds' = Opened(Lowest, Listen) /\ pc' = "create"
  <2> DEFINE f0 == Lowest
  <2>1. f0 \in Fd /\ fds[f0] = Free
    BY <1>1, LowestIsFree
  <2> HIDE DEF f0
  <2>2. fds' = [fds EXCEPT ![f0] = Listen] /\ listen_fd' = f0
    BY <1>1 DEF Opened, f0
  <2>3. fds \in [Fd -> Kind] /\ fds' \in [Fd -> Kind]
    BY <2>1, <2>2 DEF TypeOK, Kind
  <2>4. batch = {} /\ batch' = {}
    BY DEF Rest, NothingYet
  <2>5. TypeOK'
    BY <1>1, <2>1, <2>2, <2>3 DEF TypeOK, Point, Kind
  <2>6. \A f \in Fd : \A c \in Conn :
          /\ fds'[f] = Sock(c) <=> fds[f] = Sock(c)
          /\ fds'[f] = File(c) <=> fds[f] = File(c)
    BY <2>1, <2>2, <2>3, KindsApart
  <2>7. MapAgrees' /\ FilesHeld'
    BY <2>6 DEF Rest, MapAgrees, FilesHeld
  <2>8. OneEventAsked' /\ RegisteredIsOpen'
    BY <2>1, <2>2, <2>3, KindsApart DEF Rest, OneEventAsked, RegisteredIsOpen
  <2>9. EventsReachTheirClient' /\ OneEventEach' /\ NeverBoth' /\ NothingYet'
    BY <2>4 DEF EventsReachTheirClient, OneEventEach, NeverBoth, NothingYet
  <2>10. ListenerOpen'
    BY <2>1, <2>2, <2>3 DEF ListenerOpen
  <2>11. WaitingOnce' /\ OnlyOpenHold'
    BY DEF Rest, WaitingOnce, OnlyOpenHold
  <2> QED
    BY <2>5, <2>7, <2>8, <2>9, <2>10, <2>11 DEF Rest
<1>2. CASE pc' = "cleanup" /\ UNCHANGED <<listen_fd, fds>>
  <2>1. TypeOK'
    BY <1>2 DEF TypeOK, Point
  <2>2. Rest'
    BY <1>2, QuietPreserves
  <2> QED
    BY <2>1, <2>2
<1> QED
  BY <1>1, <1>2

LEMMA CreatePreserves ==
  ASSUME TypeOK, Rest, event_loop_create
  PROVE  TypeOK' /\ Rest'
<1> USE DEF event_loop_create, loopVars, clientVars, fileVars
<1>1. CASE /\ FreeFds # {} /\ event_loop_fd' = Lowest
           /\ fds' = Opened(Lowest, Loop)
           /\ interest' = [interest EXCEPT ![listen_fd] = {"READ"}]
           /\ armed' = (armed \/ backlog # <<>>)
           /\ pc' = "test"
  <2> DEFINE f0 == Lowest
  <2>1. f0 \in Fd /\ fds[f0] = Free
    BY <1>1, LowestIsFree
  <2> HIDE DEF f0
  <2>2. fds' = [fds EXCEPT ![f0] = Loop] /\ event_loop_fd' = f0
    BY <1>1 DEF Opened, f0
  <2>3. fds \in [Fd -> Kind] /\ fds' \in [Fd -> Kind]
    BY <2>1, <2>2 DEF TypeOK, Kind
  <2>4. batch = {} /\ batch' = {}
    BY DEF Rest, NothingYet
  <2>5. listen_fd \in Fd /\ fds[listen_fd] = Listen /\ listen_fd' = listen_fd
    BY DEF Rest, ListenerOpen
  <2>6. TypeOK'
    BY <1>1, <2>1, <2>2, <2>3, <2>5 DEF TypeOK, Point, Kind
  <2>7. \A f \in Fd : \A c \in Conn :
          /\ fds'[f] = Sock(c) <=> fds[f] = Sock(c)
          /\ fds'[f] = File(c) <=> fds[f] = File(c)
    BY <2>1, <2>2, <2>3, KindsApart
  <2>8. MapAgrees' /\ FilesHeld'
    BY <2>7 DEF Rest, MapAgrees, FilesHeld
  <2>9. fds'[listen_fd] = Listen
    BY <2>1, <2>2, <2>3, <2>5, KindsApart
  <2>10. interest \in [Fd -> SUBSET {"READ", "WRITE"}]
    BY DEF TypeOK
  <2>11. \A f \in Fd : interest'[f] = IF f = listen_fd THEN {"READ"} ELSE interest[f]
    BY <1>1, <2>10
  <2>12. OneEventAsked'
    BY <2>11 DEF Rest, OneEventAsked
  <2>13. RegisteredIsOpen'
    BY <2>1, <2>2, <2>3, <2>9, <2>11, KindsApart DEF Rest, RegisteredIsOpen
  <2>14. EventsReachTheirClient' /\ OneEventEach' /\ NeverBoth' /\ NothingYet'
    BY <2>4 DEF EventsReachTheirClient, OneEventEach, NeverBoth, NothingYet
  <2>15. ListenerOpen'
    BY <2>5, <2>9 DEF ListenerOpen
  <2>16. WaitingOnce' /\ OnlyOpenHold'
    BY DEF Rest, WaitingOnce, OnlyOpenHold
  <2> QED
    BY <2>6, <2>8, <2>12, <2>13, <2>14, <2>15, <2>16 DEF Rest
<1>2. CASE pc' = "cleanup" /\ UNCHANGED <<event_loop_fd, fds, interest, armed>>
  <2>1. TypeOK'
    BY <1>2 DEF TypeOK, Point
  <2>2. Rest'
    BY <1>2, QuietPreserves
  <2> QED
    BY <2>1, <2>2
<1> QED
  BY <1>1, <1>2

-----------------------------------------------------------------------------
(***************************************************************************)
(* Steps of the loop that touch no descriptor.                             *)
(***************************************************************************)
LEMMA TestRunningPreserves ==
  ASSUME TypeOK, Rest, TestRunning
  PROVE  TypeOK' /\ Rest'
<1> USE DEF TestRunning, loopVars, netVars, clientVars, fileVars
<1>1. TypeOK'
  BY DEF TypeOK, Point
<1>2. Rest'
  BY QuietPreserves
<1> QED
  BY <1>1, <1>2

LEMMA EnterWaitPreserves ==
  ASSUME TypeOK, Rest, EnterWait
  PROVE  TypeOK' /\ Rest'
<1> USE DEF EnterWait, loopVars, netVars, clientVars, fileVars
<1>1. TypeOK'
  BY DEF TypeOK, Point
<1>2. Rest'
  BY QuietPreserves
<1> QED
  BY <1>1, <1>2

LEMMA EndOfBatchPreserves ==
  ASSUME TypeOK, Rest, EndOfBatch
  PROVE  TypeOK' /\ Rest'
<1> USE DEF EndOfBatch, loopVars, netVars, clientVars, fileVars
<1>1. TypeOK'
  BY DEF TypeOK, Point
<1>2. Rest'
  BY QuietPreserves
<1> QED
  BY <1>1, <1>2

LEMMA BeginAcceptPreserves ==
  ASSUME TypeOK, Rest, BeginAccept
  PROVE  TypeOK' /\ Rest'
<1> USE DEF BeginAccept, loopVars, netVars, clientVars, fileVars
<1>1. TypeOK'
  BY DEF TypeOK, Point
<1>2. Rest'
  BY QuietPreserves
<1> QED
  BY <1>1, <1>2

LEMMA EndAcceptPreserves ==
  ASSUME TypeOK, Rest, EndAccept
  PROVE  TypeOK' /\ Rest'
<1> USE DEF EndAccept, loopVars, netVars, clientVars, fileVars
<1>1. TypeOK'
  BY DEF TypeOK, Point
<1>2. Rest'
  BY QuietPreserves
<1> QED
  BY <1>1, <1>2

LEMMA SigIntPreserves ==
  ASSUME TypeOK, Rest, SigInt
  PROVE  TypeOK' /\ Rest'
<1> USE DEF SigInt, loopVars, netVars, clientVars, fileVars
<1>1. TypeOK'
  BY DEF TypeOK, Point
<1>2. Rest'
  BY QuietPreserves
<1> QED
  BY <1>1, <1>2

LEMMA ConnectPreserves ==
  ASSUME TypeOK, Rest, NEW c \in Conn, Connect(c)
  PROVE  TypeOK' /\ Rest'
<1> USE DEF Connect, loopVars, clientVars, fileVars
<1> DEFINE n == Len(backlog)
<1>1. backlog \in Seq(Conn) /\ n \in Nat /\ DOMAIN backlog = 1 .. n
  BY DEF TypeOK
<1>2. /\ DOMAIN backlog' = 1 .. n + 1 /\ backlog'[n + 1] = c
      /\ \A i \in 1 .. n : backlog'[i] = backlog[i] /\ backlog[i] \in Conn
      /\ backlog' \in Seq(Conn)
  BY <1>1
<1>3. sock \in [Conn -> {"none", "backlog", "open", "closed"}] /\ armed \in BOOLEAN
  BY DEF TypeOK
<1>4. \A d \in Conn : sock'[d] = IF d = c THEN "backlog" ELSE sock[d]
  BY <1>3
<1>5. sock' \in [Conn -> {"none", "backlog", "open", "closed"}] /\ armed' \in BOOLEAN
  BY <1>3
<1>6. TypeOK'
  BY <1>2, <1>5 DEF TypeOK
<1>7. EventsReachTheirClient' /\ OneEventEach' /\ NeverBoth' /\ NothingYet'
  BY DEF Rest, EventsReachTheirClient, OneEventEach, NeverBoth, NothingYet,
         Get, ListenEvent
<1>8. MapAgrees' /\ FilesHeld' /\ OnlyOpenHold'
  BY <1>4 DEF Rest, MapAgrees, FilesHeld, OnlyOpenHold
<1>9. OneEventAsked' /\ RegisteredIsOpen' /\ ListenerOpen'
  BY DEF Rest, OneEventAsked, RegisteredIsOpen, ListenerOpen
<1>10. \A i \in 1 .. n : sock[backlog[i]] = "backlog" /\ backlog[i] # c
  BY <1>1 DEF Rest, WaitingOnce
<1>11. \A i, j \in 1 .. n : backlog[i] = backlog[j] => i = j
  BY <1>1 DEF Rest, WaitingOnce
<1>12. \A i \in 1 .. n + 1 : i = n + 1 \/ i \in 1 .. n
  BY <1>1
<1>13. WaitingOnce'
  <2>1. \A i \in 1 .. n + 1 : sock'[backlog'[i]] = "backlog"
    BY <1>2, <1>4, <1>10, <1>12
  <2>2. \A i, j \in 1 .. n + 1 : backlog'[i] = backlog'[j] => i = j
    BY <1>2, <1>10, <1>11, <1>12
  <2> QED
    BY <1>2, <2>1, <2>2 DEF WaitingOnce
<1> QED
  BY <1>6, <1>7, <1>8, <1>9, <1>13 DEF Rest

(* The exit: everything is closed and forgotten.                           *)
LEMMA CleanupPreserves ==
  ASSUME TypeOK, Rest, cleanup
  PROVE  TypeOK' /\ Rest'
<1> USE DEF cleanup, cleanup_temp_directory, loopVars
<1>1. fds' = [f \in Fd |-> Free] /\ (\A f \in Fd : fds'[f] = Free)
  OBVIOUS
<1>2. FilesLeft \in BOOLEAN /\ NoClient \in [fd : Fd \cup {NoFd}, file_fd : Fd \cup {NoFd}]
  BY DEF FilesLeft, NoClient, TypeOK
<1>3. \A c \in Conn : sock'[c] # "open" /\ client'[c] = NoClient
  BY DEF TypeOK
<1>4. TypeOK'
  <2>1. fds' \in [Fd -> Kind] /\ interest' \in [Fd -> SUBSET {"READ", "WRITE"}]
    BY DEF Kind
  <2>2. sock' \in [Conn -> {"none", "backlog", "open", "closed"}]
    OBVIOUS
  <2>3. /\ fd_to_client' \in [Fd -> Conn \cup {None}]
        /\ client' \in [Conn -> [fd : Fd \cup {NoFd}, file_fd : Fd \cup {NoFd}]]
    BY <1>2
  <2>4. files' \in BOOLEAN /\ temp_dir' \in {"none", "made", "removed"}
    BY <1>2 DEF TypeOK
  <2>5. backlog' = <<>> /\ armed' = FALSE /\ batch' = {} /\ pc' = "exited"
    OBVIOUS
  <2>6. UNCHANGED <<backend, running, handled, missed, listen_fd, event_loop_fd>>
    OBVIOUS
  <2> HIDE DEF cleanup, cleanup_temp_directory, loopVars
  <2>7. /\ backend' \in Backends /\ running' \in BOOLEAN /\ handled' \in Nat
        /\ listen_fd' \in Fd \cup {NoFd} /\ event_loop_fd' \in Fd \cup {NoFd}
        /\ missed' \in BOOLEAN
    BY <2>6 DEF TypeOK
  <2>8. backlog' \in Seq(Conn)
    BY <2>5
  <2> QED
    BY <2>1, <2>2, <2>3, <2>4, <2>5, <2>7, <2>8 DEF TypeOK, Point, Kind
<1>5. \A f \in Fd : \A c \in Conn :
        /\ fds'[f] # Sock(c) /\ fds'[f] # File(c)
        /\ fd_to_client'[f] # c /\ client'[c].file_fd # f
  BY <1>1, <1>3, KindsApart, ReactorAssumption DEF NoClient
<1>6. MapAgrees' /\ FilesHeld'
  BY <1>3, <1>5 DEF MapAgrees, FilesHeld
<1>7. EventsReachTheirClient' /\ OneEventEach' /\ NeverBoth' /\ NothingYet'
  BY DEF EventsReachTheirClient, OneEventEach, NeverBoth, NothingYet
<1>8. OneEventAsked' /\ RegisteredIsOpen' /\ ListenerOpen'
  BY DEF OneEventAsked, RegisteredIsOpen, ListenerOpen
<1>9. WaitingOnce' /\ OnlyOpenHold'
  BY <1>3 DEF WaitingOnce, OnlyOpenHold
<1> QED
  BY <1>4, <1>6, <1>7, <1>8, <1>9 DEF Rest

-----------------------------------------------------------------------------
(***************************************************************************)
(* accept: the descriptor is one that was free, so neither the map nor the *)
(* batch nor a client speaks of it.                                        *)
(***************************************************************************)
LEMMA FreeIsForgotten ==
  ASSUME TypeOK, Rest, NEW f \in Fd, fds[f] = Free
  PROVE  /\ fd_to_client[f] = None
         /\ interest[f] = {}
         /\ \A c \in Conn : sock[c] = "open" => client[c].fd # f
         /\ \A c \in Conn : client[c].file_fd # f
         /\ \A e \in batch : e.conn # None => e.fd # f
<1>1. \A c \in Conn : fds[f] # Sock(c) /\ fds[f] # File(c)
  BY KindsApart
<1>2. fd_to_client[f] \in Conn \cup {None}
  BY DEF TypeOK
<1>3. \A c \in Conn : fd_to_client[f] # c /\ client[c].file_fd # f
  BY <1>1 DEF Rest, MapAgrees, FilesHeld
<1>4. fd_to_client[f] = None
  BY <1>2, <1>3
<1>5. fds[f] # Listen /\ fds[f][1] # "socket"
  BY KindsApart
<1>6. interest[f] = {}
  BY <1>5 DEF Rest, RegisteredIsOpen
<1>7. \A c \in Conn : sock[c] = "open" => client[c].fd # f
  BY <1>3 DEF Rest, MapAgrees
<1>8. ASSUME NEW e \in batch, e.conn # None PROVE e.fd # f
  BY <1>1, <1>8, EventOwner
<1> QED
  BY <1>3, <1>4, <1>6, <1>7, <1>8

LEMMA AcceptOnePreserves ==
  ASSUME TypeOK, Rest, AcceptOne
  PROVE  TypeOK' /\ Rest'
<1> DEFINE c == Head(backlog)
           f0 == Lowest
<1>1. f0 \in Fd /\ fds[f0] = Free
  BY LowestIsFree DEF AcceptOne
<1> HIDE DEF f0
<1>2. backlog \in Seq(Conn) /\ backlog # <<>> /\ c \in Conn /\ Tail(backlog) \in Seq(Conn)
  BY DEF AcceptOne, TypeOK
<1>3. /\ DOMAIN backlog = 1 .. Len(backlog) /\ Len(backlog) \in Nat \ {0}
      /\ c = backlog[1]
      /\ DOMAIN Tail(backlog) = 1 .. Len(backlog) - 1
      /\ \A i \in 1 .. Len(backlog) - 1 : Tail(backlog)[i] = backlog[i + 1]
  BY <1>2
<1>4. sock[c] = "backlog" /\ client[c] = NoClient
  BY <1>2, <1>3 DEF Rest, WaitingOnce, OnlyOpenHold
<1> HIDE DEF c
<1>5. /\ sock' = [sock EXCEPT ![c] = "open"]
      /\ backlog' = Tail(backlog)
      /\ fds' = [fds EXCEPT ![f0] = Sock(c)]
      /\ interest' = [interest EXCEPT ![f0] = {"READ"}]
      /\ client' = [client EXCEPT ![c] = [fd |-> f0, file_fd |-> NoFd]]
      /\ fd_to_client' = [fd_to_client EXCEPT ![f0] = c]
      /\ pc = "accept" /\ pc' = "accept"
  BY DEF AcceptOne, AfterAccept, Opened, client_create, f0, c
<1>6. UNCHANGED <<loopVars, armed, missed, batch, listen_fd, event_loop_fd, fileVars>>
  BY DEF AcceptOne
<1>7. /\ sock \in [Conn -> {"none", "backlog", "open", "closed"}]
      /\ fds \in [Fd -> Kind] /\ Sock(c) \in Kind
      /\ interest \in [Fd -> SUBSET {"READ", "WRITE"}]
      /\ fd_to_client \in [Fd -> Conn \cup {None}]
      /\ client \in [Conn -> [fd : Fd \cup {NoFd}, file_fd : Fd \cup {NoFd}]]
  BY <1>2 DEF TypeOK, Kind
<1>8. TypeOK'
  <2>1. sock' \in [Conn -> {"none", "backlog", "open", "closed"}]
    BY <1>2, <1>5, <1>7
  <2>2. fds' \in [Fd -> Kind]
    BY <1>1, <1>5, <1>7
  <2>3. interest' \in [Fd -> SUBSET {"READ", "WRITE"}]
    BY <1>1, <1>5, <1>7
  <2>4. fd_to_client' \in [Fd -> Conn \cup {None}]
    BY <1>1, <1>2, <1>5, <1>7
  <2>5. client' \in [Conn -> [fd : Fd \cup {NoFd}, file_fd : Fd \cup {NoFd}]]
    BY <1>1, <1>2, <1>5, <1>7
  <2>6. /\ backend' \in Backends /\ running' \in BOOLEAN /\ handled' \in Nat
        /\ armed' \in BOOLEAN /\ missed' \in BOOLEAN
        /\ batch' \subseteq [fd : Fd, events : SUBSET {"READ", "WRITE", "ERROR"},
                             conn : Conn \cup {None}]
        /\ listen_fd' \in Fd \cup {NoFd} /\ event_loop_fd' \in Fd \cup {NoFd}
        /\ temp_dir' \in {"none", "made", "removed"} /\ files' \in BOOLEAN
    BY <1>6 DEF TypeOK, loopVars, fileVars
  <2>7. backlog' \in Seq(Conn) /\ pc' \in Point
    BY <1>2, <1>5 DEF Point
  <2> QED
    BY <2>1, <2>2, <2>3, <2>4, <2>5, <2>6, <2>7 DEF TypeOK, Kind
<1>9. /\ \A f \in Fd : /\ fds'[f] = (IF f = f0 THEN Sock(c) ELSE fds[f])
                       /\ interest'[f] = (IF f = f0 THEN {"READ"} ELSE interest[f])
                       /\ fd_to_client'[f] = (IF f = f0 THEN c ELSE fd_to_client[f])
      /\ \A d \in Conn : /\ sock'[d] = (IF d = c THEN "open" ELSE sock[d])
                         /\ client'[d] = (IF d = c THEN [fd |-> f0, file_fd |-> NoFd]
                                                   ELSE client[d])
  BY <1>5, <1>7
<1>10. /\ fd_to_client[f0] = None /\ interest[f0] = {}
       /\ \A d \in Conn : sock[d] = "open" => client[d].fd # f0
       /\ \A d \in Conn : client[d].file_fd # f0
       /\ \A e \in batch : e.conn # None => e.fd # f0
  BY <1>1, FreeIsForgotten
<1>11. \A f \in Fd : fd_to_client[f] # c /\ fds[f] # Sock(c) /\ fds[f] # File(c)
  <2>1. \A f \in Fd : fd_to_client[f] # c /\ fds[f] # Sock(c)
    BY <1>2, <1>4 DEF Rest, MapAgrees
  <2>2. client[c].file_fd = NoFd /\ NoFd \notin Fd
    BY <1>4, ReactorAssumption DEF NoClient
  <2>3. \A f \in Fd : fds[f] # File(c)
    BY <1>2, <2>2 DEF Rest, FilesHeld
  <2> QED
    BY <2>1, <2>3
<1>12. EventsReachTheirClient'
  <2> SUFFICES ASSUME NEW e \in batch, e.conn # None
               PROVE  fd_to_client'[e.fd] = e.conn
    BY <1>6 DEF EventsReachTheirClient, Get
  <2>1. e.fd \in Fd /\ fd_to_client[e.fd] = e.conn
    BY EventOwner
  <2> QED
    BY <1>9, <1>10, <2>1
<1>13. MapAgrees'
  <2>1. ASSUME NEW f \in Fd, NEW d \in Conn
        PROVE  /\ fd_to_client'[f] = d <=> fds'[f] = Sock(d)
               /\ fd_to_client'[f] = d => client'[d].fd = f /\ sock'[d] = "open"
    <3>1. /\ fd_to_client[f] = d <=> fds[f] = Sock(d)
          /\ fd_to_client[f] = d => client[d].fd = f /\ sock[d] = "open"
      BY DEF Rest, MapAgrees
    <3>2. Sock(d) = Sock(c) <=> d = c
      BY <1>2, KindsApart
    <3> QED
      BY <1>9, <1>11, <3>1, <3>2
  <2>2. ASSUME NEW d \in Conn, sock'[d] = "open"
        PROVE  client'[d].fd \in Fd /\ fd_to_client'[client'[d].fd] = d
    <3>1. CASE d = c
      BY <1>1, <1>2, <1>9, <3>1
    <3>2. CASE d # c
      <4>1. sock[d] = "open" /\ client'[d] = client[d]
        BY <1>9, <2>2, <3>2
      <4>2. client[d].fd \in Fd /\ fd_to_client[client[d].fd] = d /\ client[d].fd # f0
        BY <1>10, <4>1 DEF Rest, MapAgrees
      <4> QED
        BY <1>9, <4>1, <4>2
    <3> QED
      BY <3>1, <3>2
  <2> QED
    BY <2>1, <2>2 DEF MapAgrees
<1>14. FilesHeld'
  <2> SUFFICES ASSUME NEW f \in Fd, NEW d \in Conn
               PROVE  fds'[f] = File(d) <=> client'[d].file_fd = f
    BY DEF FilesHeld
  <2>1. fds[f] = File(d) <=> client[d].file_fd = f
    BY DEF Rest, FilesHeld
  <2>2. Sock(c) # File(d) /\ NoFd # f
    BY <1>2, KindsApart, ReactorAssumption
  <2> QED
    BY <1>9, <1>10, <1>11, <2>1, <2>2
<1>15. OneEventAsked' /\ RegisteredIsOpen'
  BY <1>2, <1>9, KindsApart DEF Rest, OneEventAsked, RegisteredIsOpen
<1>16. OneEventEach' /\ NeverBoth' /\ NothingYet'
  BY <1>5, <1>6 DEF Rest, OneEventEach, NeverBoth, NothingYet, ListenEvent
<1>17. ListenerOpen'
  <2>1. listen_fd \in Fd /\ fds[listen_fd] = Listen
    BY <1>5 DEF Rest, ListenerOpen
  <2>2. listen_fd # f0
    BY <1>1, <2>1, KindsApart
  <2> QED
    BY <1>6, <1>9, <2>1, <2>2 DEF ListenerOpen
<1>18. WaitingOnce'
  <2> DEFINE n == Len(backlog)
  <2>1. \A i \in 1 .. n : sock[backlog[i]] = "backlog" /\ backlog[i] \in Conn
    BY <1>2, <1>3 DEF Rest, WaitingOnce
  <2>2. \A i, j \in 1 .. n : backlog[i] = backlog[j] => i = j
    BY <1>3 DEF Rest, WaitingOnce
  <2>3. \A i \in 1 .. n - 1 : i + 1 \in 1 .. n /\ i + 1 # 1 /\ 1 \in 1 .. n
    BY <1>3
  <2>4. ASSUME NEW i \in 1 .. n - 1 PROVE sock'[backlog[i + 1]] = "backlog"
    BY <1>3, <1>9, <2>1, <2>2, <2>3
  <2>5. ASSUME NEW i \in 1 .. n - 1, NEW j \in 1 .. n - 1, backlog[i + 1] = backlog[j + 1]
        PROVE  i = j
    <3>1. i + 1 = j + 1
      BY <2>2, <2>3, <2>5
    <3> QED
      BY <1>3, <3>1
  <2>6. /\ DOMAIN backlog' = 1 .. n - 1
        /\ \A i \in 1 .. n - 1 : backlog'[i] = backlog[i + 1]
    BY <1>3, <1>5
  <2>7. \A i \in DOMAIN backlog' : sock'[backlog'[i]] = "backlog"
    BY <2>4, <2>6
  <2>8. \A i, j \in DOMAIN backlog' : backlog'[i] = backlog'[j] => i = j
    BY <2>5, <2>6
  <2> QED
    BY <2>7, <2>8 DEF WaitingOnce
<1>19. OnlyOpenHold'
  BY <1>9 DEF Rest, OnlyOpenHold
<1> QED
  BY <1>8, <1>12, <1>13, <1>14, <1>15, <1>16, <1>17, <1>18, <1>19 DEF Rest

-----------------------------------------------------------------------------
(***************************************************************************)
(* The wait: the events are of open sockets, one for each.                 *)
(***************************************************************************)
LEMMA WatchedIsSocket ==
  ASSUME TypeOK, Rest, NEW f \in Watched
  PROVE  /\ f \in Fd /\ Owner(f) \in Conn /\ fds[f] = Sock(Owner(f))
         /\ fd_to_client[f] = Owner(f)
<1>1. f \in Fd /\ interest[f] # {} /\ fds[f] # Listen
  BY DEF Watched
<1>2. fds[f] \in Kind /\ fds[f][1] = "socket"
  BY <1>1 DEF Rest, RegisteredIsOpen, TypeOK, Kind
<1>3. PICK c \in Conn : fds[f] = Sock(c)
  BY <1>2, KindsApart DEF Kind
<1>4. Owner(f) = c
  BY <1>3, KindsApart DEF Owner
<1> QED
  BY <1>1, <1>3, <1>4 DEF Rest, MapAgrees

LEMMA EventsOfOne ==
  ASSUME TypeOK, Rest, NEW f \in Watched, NEW X \in Events(f), NEW e \in X
  PROVE  /\ e.fd = f /\ e.conn = Owner(f)
         /\ e \in [fd : Fd, events : SUBSET {"READ", "WRITE", "ERROR"}, conn : Conn]
         /\ ~({"READ", "WRITE"} \subseteq e.events)
         /\ \A x \in X : x = e
<1> DEFINE Event(S) == [fd |-> f, events |-> S, conn |-> Owner(f)]
<1>1. f \in Fd /\ Owner(f) \in Conn
  BY WatchedIsSocket
<1>2. interest[f] = {"READ"} \/ interest[f] = {"WRITE"}
  BY <1>1 DEF Rest, OneEventAsked, Watched
<1>3. PICK S \in SUBSET (interest[f] \cup {"ERROR"}) : X = {Event(S)}
  <2>1. CASE E!EdgeTriggered
    BY <2>1 DEF Events
  <2>2. CASE ~E!EdgeTriggered
    <3>1. PICK T \in SUBSET interest[f] : T # {} /\ X = {Event({x}) : x \in T}
      BY <2>2 DEF Events
    <3>2. T = interest[f]
      BY <1>2, <3>1
    <3>3. X = {Event(interest[f])}
      BY <1>2, <3>1, <3>2
    <3> QED
      BY <3>3
  <2> QED
    BY <2>1, <2>2
<1>4. e = Event(S)
  BY <1>3
<1>5. S \in SUBSET {"READ", "WRITE", "ERROR"} /\ ~({"READ", "WRITE"} \subseteq S)
  BY <1>2
<1> QED
  BY <1>1, <1>3, <1>4, <1>5

LEMMA WaitPreserves ==
  ASSUME TypeOK, Rest, event_loop_wait
  PROVE  TypeOK' /\ Rest'
<1>1. /\ UNCHANGED <<backend, running, sock, backlog, missed, fds, interest>>
      /\ UNCHANGED <<listen_fd, event_loop_fd, fd_to_client, client, temp_dir, files>>
      /\ pc = "wait"
  BY DEF event_loop_wait, clientVars, fileVars
<1>2. CASE pc' = "cleanup" /\ UNCHANGED <<batch, armed, handled>>
  <2>1. TypeOK'
    BY <1>1, <1>2 DEF TypeOK, Point
  <2>2. Rest'
    BY <1>1, <1>2, QuietPreserves
  <2> QED
    BY <2>1, <2>2
<1>3. CASE /\ \E R \in SUBSET Watched : \E ev \in [R -> UNION {Events(f) : f \in R}] :
                /\ \A f \in R : ev[f] \in Events(f)
                /\ \E L \in SUBSET {x \in {ListenEvent} : ListenReady} :
                     /\ batch' = (UNION {ev[f] : f \in R}) \cup L
                     /\ armed' = (armed /\ L = {})
           /\ handled' = IF running THEN 0 ELSE handled + 1
           /\ pc' = "batch"
  <2>1. PICK R \in SUBSET Watched : \E ev \in [R -> UNION {Events(f) : f \in R}] :
           /\ \A f \in R : ev[f] \in Events(f)
           /\ \E L \in SUBSET {x \in {ListenEvent} : ListenReady} :
                /\ batch' = (UNION {ev[f] : f \in R}) \cup L
                /\ armed' = (armed /\ L = {})
    BY <1>3
  <2>2. PICK ev \in [R -> UNION {Events(f) : f \in R}] :
           /\ \A f \in R : ev[f] \in Events(f)
           /\ \E L \in SUBSET {x \in {ListenEvent} : ListenReady} :
                /\ batch' = (UNION {ev[f] : f \in R}) \cup L
                /\ armed' = (armed /\ L = {})
    BY <2>1
  <2>3. PICK L \in SUBSET {ListenEvent} :
          /\ batch' = (UNION {ev[f] : f \in R}) \cup L
          /\ armed' = (armed /\ L = {})
    BY <2>2
  <2>4. listen_fd \in Fd /\ fds[listen_fd] = Listen
    BY <1>1 DEF Rest, ListenerOpen
  <2>5. \A e \in batch' : e = ListenEvent \/ \E f \in R : e \in ev[f]
    <3> TAKE e \in batch'
    <3>1. e \in UNION {ev[f] : f \in R} \/ e \in L
      BY <2>3
    <3>2. ASSUME e \in UNION {ev[f] : f \in R} PROVE \E f \in R : e \in ev[f]
      <4>1. PICK X \in {ev[f] : f \in R} : e \in X
        BY <3>2
      <4> QED
        BY <4>1
    <3> QED
      BY <3>1, <3>2
  <2>6. \A f \in R : \A e \in ev[f] :
          /\ e.fd = f /\ e.conn = Owner(f)
          /\ e \in [fd : Fd, events : SUBSET {"READ", "WRITE", "ERROR"}, conn : Conn]
          /\ ~({"READ", "WRITE"} \subseteq e.events)
          /\ \A x \in ev[f] : x = e
    <3> TAKE f \in R
    <3> TAKE e \in ev[f]
    <3>1. f \in Watched /\ ev[f] \in Events(f)
      BY <2>2
    <3> QED
      BY <3>1, EventsOfOne
  <2>7. \A f \in R : /\ f \in Fd /\ f # listen_fd
                     /\ Owner(f) \in Conn /\ fd_to_client[f] = Owner(f)
    BY <2>4, WatchedIsSocket DEF Watched
  <2>8. /\ ListenEvent.fd = listen_fd /\ ListenEvent.conn = None
        /\ ListenEvent.events = {"READ"}
        /\ ListenEvent \in [fd : Fd, events : SUBSET {"READ", "WRITE", "ERROR"},
                            conn : Conn \cup {None}]
    BY <2>4 DEF ListenEvent
  <2>9. batch' \subseteq [fd : Fd, events : SUBSET {"READ", "WRITE", "ERROR"},
                         conn : Conn \cup {None}]
    BY <2>5, <2>6, <2>8
  <2>10. armed' \in BOOLEAN /\ handled' \in Nat
    BY <1>3, <2>3 DEF TypeOK
  <2>11. TypeOK'
    BY <1>1, <1>3, <2>9, <2>10 DEF TypeOK, Point
  <2>12. EventsReachTheirClient'
    <3> SUFFICES ASSUME NEW e \in batch', e.conn # None
                 PROVE  fd_to_client[e.fd] = e.conn
      BY <1>1 DEF EventsReachTheirClient, Get
    <3> QED
      BY <2>5, <2>6, <2>7, <2>8
  <2>13. OneEventEach'
    <3> SUFFICES ASSUME NEW e \in batch', NEW x \in batch', e.fd = x.fd
                 PROVE  e = x
      BY DEF OneEventEach
    <3> QED
      BY <2>5, <2>6, <2>7, <2>8
  <2>14. NeverBoth'
    <3> SUFFICES ASSUME NEW e \in batch'
                 PROVE  /\ ~({"READ", "WRITE"} \subseteq e.events)
                        /\ e.conn = None => e = ListenEvent
      BY <1>1 DEF NeverBoth, ListenEvent
    <3> QED
      BY <2>5, <2>6, <2>7, <2>8, ReactorAssumption
  <2>15. MapAgrees' /\ FilesHeld' /\ OneEventAsked' /\ RegisteredIsOpen'
    BY <1>1 DEF Rest, MapAgrees, FilesHeld, OneEventAsked, RegisteredIsOpen
  <2>16. WaitingOnce' /\ OnlyOpenHold' /\ NothingYet' /\ ListenerOpen'
    BY <1>1, <1>3 DEF Rest, WaitingOnce, OnlyOpenHold, NothingYet, ListenerOpen
  <2> QED
    BY <2>11, <2>12, <2>13, <2>14, <2>15, <2>16 DEF Rest
<1> QED
  BY <1>2, <1>3 DEF event_loop_wait

-----------------------------------------------------------------------------
(***************************************************************************)
(* A handler: it has the client its event is of, and the event is the only *)
(* one of its descriptor, so whatever the handler does to that descriptor  *)
(* no event left in the batch speaks of it.                                *)
(***************************************************************************)
EventType == [fd : Fd, events : SUBSET {"READ", "WRITE", "ERROR"},
              conn : Conn \cup {None}]

Kept == UNCHANGED <<pc, loopVars, backlog, armed, missed, listen_fd,
                    event_loop_fd, temp_dir>>

LEMMA HandledAlone ==
  ASSUME TypeOK, Rest, NEW e \in batch, e # ListenEvent,
         HandleIgnored(e) \/ HandleError(e) \/ HandleReady(e)
  PROVE  /\ e.conn # None
         /\ batch' = batch \ {e}
         /\ \/ HandlerCloses(e.conn) \/ HandlerWaits(e.conn)
            \/ HandlerOpens(e.conn) \/ HandlerClosesFile(e.conn)
<1>1. e.conn # None
  BY DEF Rest, NeverBoth
<1>2. Get(e.fd) = e.conn /\ e.conn \in Conn /\ None \notin Conn
  BY <1>1, EventOwner, ReactorAssumption DEF Get
<1>3. CASE HandleError(e)
  BY <1>1, <1>2, <1>3 DEF HandleError, Handled
<1>4. CASE HandleReady(e)
  <2>1. PICK event \in e.events : Handled(e, event)
    BY <1>4 DEF HandleReady
  <2>2. /\ e \in EventType /\ "ERROR" \notin e.events
        /\ ~({"READ", "WRITE"} \subseteq e.events)
    BY <1>4 DEF HandleReady, TypeOK, EventType, Rest, NeverBoth
  <2>3. e.events \ {event} = {}
    BY <2>1, <2>2 DEF EventType
  <2>4. [e EXCEPT !.events = @ \ {event}].events = {}
    BY <2>2, <2>3 DEF EventType
  <2>5. batch' = batch \ {e}
    BY <2>1, <2>4 DEF Handled
  <2> QED
    BY <1>1, <1>2, <1>4, <2>5 DEF HandleReady
<1>5. ~HandleIgnored(e)
  BY <1>2 DEF HandleIgnored
<1> QED
  BY <1>3, <1>4, <1>5

LEMMA OthersKeepTheirs ==
  ASSUME TypeOK, Rest, Kept, NEW e \in batch, e.conn # None,
         batch' = batch \ {e},
         \A g \in Fd : g # e.fd => fd_to_client'[g] = fd_to_client[g]
  PROVE  /\ EventsReachTheirClient' /\ OneEventEach'
         /\ NeverBoth' /\ NothingYet'
         /\ batch' \subseteq EventType
<1>1. listen_fd' = listen_fd /\ pc' = pc
  BY DEF Kept
<1>2. EventsReachTheirClient'
  <2> SUFFICES ASSUME NEW x \in batch', x.conn # None
               PROVE  fd_to_client'[x.fd] = x.conn
    BY DEF EventsReachTheirClient, Get
  <2>1. x \in batch /\ x.fd # e.fd
    BY DEF Rest, OneEventEach
  <2>2. x.fd \in Fd /\ fd_to_client[x.fd] = x.conn
    BY <2>1, EventOwner
  <2> QED
    BY <2>1, <2>2
<1>3. OneEventEach' /\ NeverBoth' /\ NothingYet'
  BY <1>1 DEF Rest, OneEventEach, NeverBoth, NothingYet, ListenEvent
<1>4. batch' \subseteq EventType
  BY DEF TypeOK, EventType
<1> QED
  BY <1>2, <1>3, <1>4

(* What Kept keeps of the types.                                           *)
LEMMA KeptTypes ==
  ASSUME TypeOK, Kept
  PROVE  /\ backend' \in Backends /\ pc' \in Point /\ running' \in BOOLEAN
         /\ handled' \in Nat /\ backlog' \in Seq(Conn)
         /\ armed' \in BOOLEAN /\ missed' \in BOOLEAN
         /\ listen_fd' \in Fd \cup {NoFd} /\ event_loop_fd' \in Fd \cup {NoFd}
         /\ temp_dir' \in {"none", "made", "removed"}
BY DEF TypeOK, Kept, loopVars

LEMMA FilesAfterTypes == ASSUME TypeOK PROVE FilesAfter \subseteq BOOLEAN
BY DEF TypeOK, FilesAfter

LEMMA WaitingIsNotOpen ==
  ASSUME TypeOK, Rest, Kept, NEW c \in Conn, sock[c] = "open",
         \A d \in Conn : d # c => sock'[d] = sock[d]
  PROVE  WaitingOnce'
<1>1. backlog' = backlog /\ \A i \in DOMAIN backlog : backlog[i] \in Conn
  BY DEF TypeOK, Kept
<1>2. \A i \in DOMAIN backlog : sock[backlog[i]] = "backlog"
  BY DEF Rest, WaitingOnce
<1>3. \A i \in DOMAIN backlog : sock'[backlog[i]] = "backlog"
  BY <1>1, <1>2
<1>4. \A i, j \in DOMAIN backlog : backlog[i] = backlog[j] => i = j
  BY DEF Rest, WaitingOnce
<1> QED
  BY <1>1, <1>3, <1>4 DEF WaitingOnce

(* The listening socket is open as long as no step of a handler closes it. *)
LEMMA ListenerKept ==
  ASSUME TypeOK, Rest, Kept,
         \A g \in Fd : fds[g] = Listen => fds'[g] = Listen
  PROVE  ListenerOpen'
BY DEF Rest, ListenerOpen, Kept

(* What the client of an open connection has.                              *)
LEMMA Holding ==
  ASSUME TypeOK, Rest, NEW c \in Conn, sock[c] = "open"
  PROVE  /\ client[c].fd \in Fd /\ fds[client[c].fd] = Sock(c)
         /\ fd_to_client[client[c].fd] = c
         /\ client[c].file_fd \in Fd \cup {NoFd}
         /\ client[c].file_fd \in Fd => fds[client[c].file_fd] = File(c)
         /\ client[c].file_fd # client[c].fd
<1>1. client[c].fd \in Fd \cup {NoFd} /\ client[c].file_fd \in Fd \cup {NoFd}
  BY DEF TypeOK
<1>2. client[c].fd \in Fd /\ fd_to_client[client[c].fd] = c
  BY DEF Rest, MapAgrees
<1>3. fds[client[c].fd] = Sock(c)
  BY <1>2 DEF Rest, MapAgrees
<1>4. client[c].file_fd \in Fd => fds[client[c].file_fd] = File(c)
  BY DEF Rest, FilesHeld
<1> QED
  BY <1>1, <1>2, <1>3, <1>4, KindsApart

LEMMA ClosesPreserves ==
  ASSUME TypeOK, Rest, Kept, NEW e \in batch, e.conn # None,
         batch' = batch \ {e}, HandlerCloses(e.conn)
  PROVE  TypeOK' /\ Rest'
<1> DEFINE c  == e.conn
           f  == e.fd
           ff == client[c].file_fd
<1>1. /\ c \in Conn /\ f \in Fd /\ client[c].fd = f /\ sock[c] = "open"
      /\ fds[f] = Sock(c) /\ fd_to_client[f] = c
      /\ ff \in Fd \cup {NoFd} /\ (ff \in Fd => fds[ff] = File(c)) /\ ff # f
  <2>1. c \in Conn /\ f \in Fd /\ client[c].fd = f /\ sock[c] = "open"
    BY EventOwner
  <2> QED
    BY <2>1, Holding
<1>2. /\ interest' = [interest EXCEPT ![f] = {}]
      /\ fds' = Closed({f, ff} \cap Fd)
      /\ sock' = [sock EXCEPT ![c] = "closed"]
      /\ fd_to_client' = [fd_to_client EXCEPT ![f] = None]
      /\ client' = [client EXCEPT ![c] = NoClient]
      /\ files' \in BOOLEAN
  BY <1>1, FilesAfterTypes
  DEF HandlerCloses, close_and_cleanup, ClosedWith, Unmapped
<1> HIDE DEF c, f, ff
<1>3. /\ sock \in [Conn -> {"none", "backlog", "open", "closed"}]
      /\ fds \in [Fd -> Kind] /\ Free \in Kind
      /\ interest \in [Fd -> SUBSET {"READ", "WRITE"}]
      /\ fd_to_client \in [Fd -> Conn \cup {None}]
      /\ client \in [Conn -> [fd : Fd \cup {NoFd}, file_fd : Fd \cup {NoFd}]]
      /\ NoClient \in [fd : Fd \cup {NoFd}, file_fd : Fd \cup {NoFd}]
  BY DEF TypeOK, Kind, NoClient
<1>4. /\ \A g \in Fd : /\ fds'[g] = (IF g = f \/ g = ff THEN Free ELSE fds[g])
                       /\ interest'[g] = (IF g = f THEN {} ELSE interest[g])
                       /\ fd_to_client'[g] = (IF g = f THEN None ELSE fd_to_client[g])
      /\ \A d \in Conn : /\ sock'[d] = (IF d = c THEN "closed" ELSE sock[d])
                         /\ client'[d] = (IF d = c THEN NoClient ELSE client[d])
  BY <1>2, <1>3 DEF Closed
<1>5. /\ EventsReachTheirClient' /\ OneEventEach' /\ NeverBoth' /\ NothingYet'
      /\ batch' \subseteq EventType
  BY <1>4, OthersKeepTheirs DEF f
<1>6. TypeOK'
  <2>1. fds' \in [Fd -> Kind]
    BY <1>2, <1>3 DEF Closed
  <2>2. sock' \in [Conn -> {"none", "backlog", "open", "closed"}]
    BY <1>1, <1>2, <1>3
  <2>3. interest' \in [Fd -> SUBSET {"READ", "WRITE"}]
    BY <1>1, <1>2, <1>3
  <2>4. fd_to_client' \in [Fd -> Conn \cup {None}]
    BY <1>1, <1>2, <1>3
  <2>5. client' \in [Conn -> [fd : Fd \cup {NoFd}, file_fd : Fd \cup {NoFd}]]
    BY <1>1, <1>2, <1>3
  <2> QED
    BY <1>2, <1>5, <2>1, <2>2, <2>3, <2>4, <2>5, KeptTypes DEF TypeOK, Kind, EventType
<1>7. None \notin Conn /\ NoFd \notin Fd
  BY ReactorAssumption
<1>8. MapAgrees'
  <2>1. ASSUME NEW g \in Fd, NEW d \in Conn
        PROVE  /\ fd_to_client'[g] = d <=> fds'[g] = Sock(d)
               /\ fd_to_client'[g] = d => client'[d].fd = g /\ sock'[d] = "open"
    <3>1. /\ fd_to_client[g] = d <=> fds[g] = Sock(d)
          /\ fd_to_client[g] = d => client[d].fd = g /\ sock[d] = "open"
      BY DEF Rest, MapAgrees
    <3>2. Free # Sock(d) /\ File(c) # Sock(d)
      BY <1>1, KindsApart
    <3>3. fd_to_client'[g] = d <=> fds'[g] = Sock(d)
      BY <1>1, <1>4, <1>7, <3>1, <3>2
    <3>4. fd_to_client'[g] = d => client'[d].fd = g /\ sock'[d] = "open"
      BY <1>1, <1>4, <1>7, <3>1
    <3> QED
      BY <3>3, <3>4
  <2>2. ASSUME NEW d \in Conn, sock'[d] = "open"
        PROVE  client'[d].fd \in Fd /\ fd_to_client'[client'[d].fd] = d
    <3>1. d # c /\ sock[d] = "open" /\ client'[d] = client[d]
      BY <1>4, <2>2
    <3>2. client[d].fd \in Fd /\ fd_to_client[client[d].fd] = d
      BY <3>1 DEF Rest, MapAgrees
    <3>3. client[d].fd # f
      BY <1>1, <3>1, <3>2
    <3> QED
      BY <1>4, <3>1, <3>2, <3>3
  <2> QED
    BY <2>1, <2>2 DEF MapAgrees
<1>9. FilesHeld'
  <2> SUFFICES ASSUME NEW g \in Fd, NEW d \in Conn
               PROVE  fds'[g] = File(d) <=> client'[d].file_fd = g
    BY DEF FilesHeld
  <2>1. fds[g] = File(d) <=> client[d].file_fd = g
    BY DEF Rest, FilesHeld
  <2>2. Free # File(d) /\ Sock(c) # File(d) /\ (File(c) = File(d) => c = d)
    BY <1>1, KindsApart
  <2>3. NoClient.file_fd # g
    BY <1>7 DEF NoClient
  <2>4. CASE d = c
    BY <1>4, <2>1, <2>2, <2>3, <2>4 DEF ff
  <2>5. CASE d # c
    BY <1>1, <1>4, <2>1, <2>2, <2>5
  <2> QED
    BY <2>4, <2>5
<1>10. OneEventAsked' /\ RegisteredIsOpen'
  <2>1. ff \in Fd => interest[ff] = {}
    <3>1. File(c) # Listen /\ File(c)[1] # "socket"
      BY <1>1, KindsApart
    <3> QED
      BY <1>1, <3>1 DEF Rest, RegisteredIsOpen
  <2> QED
    BY <1>4, <2>1 DEF Rest, OneEventAsked, RegisteredIsOpen
<1>11. ListenerOpen'
  <2>1. \A g \in Fd : fds[g] = Listen => fds'[g] = Listen
    BY <1>1, <1>4, KindsApart
  <2> QED
    BY <2>1, ListenerKept
<1>12. WaitingOnce' /\ OnlyOpenHold'
  <2>1. WaitingOnce'
    BY <1>1, <1>4, WaitingIsNotOpen
  <2> QED
    BY <1>4, <2>1 DEF Rest, OnlyOpenHold
<1> QED
  BY <1>5, <1>6, <1>8, <1>9, <1>10, <1>11, <1>12 DEF Rest

(* The events asked for are one event, of an open socket.                  *)
LEMMA Asks ==
  ASSUME TypeOK, Rest, NEW f \in Fd, NEW c \in Conn, fds[f] = Sock(c), fds'[f] = Sock(c),
         NEW event \in {"READ", "WRITE"}, modify_event_loop(f, event),
         \A g \in Fd : interest[g] # {} => fds'[g] = fds[g]
  PROVE  /\ interest' \in [Fd -> SUBSET {"READ", "WRITE"}]
         /\ OneEventAsked' /\ RegisteredIsOpen'
<1>1. interest \in [Fd -> SUBSET {"READ", "WRITE"}]
  BY DEF TypeOK
<1>2. interest' = [interest EXCEPT ![f] = {event}]
  BY DEF modify_event_loop, Modified
<1>3. \A g \in Fd : interest'[g] = (IF g = f THEN {event} ELSE interest[g])
  BY <1>1, <1>2
<1>4. OneEventAsked'
  BY <1>3 DEF Rest, OneEventAsked
<1>5. RegisteredIsOpen'
  BY <1>3, KindsApart DEF Rest, RegisteredIsOpen
<1> QED
  BY <1>1, <1>2, <1>4, <1>5

(* A free descriptor, or a file's, is not registered.                      *)
LEMMA RegisteredIsNoFile ==
  ASSUME Rest, NEW f \in Fd, interest[f] # {}
  PROVE  fds[f] # Free /\ \A c \in Conn : fds[f] # File(c)
BY KindsApart DEF Rest, RegisteredIsOpen

LEMMA WaitsPreserves ==
  ASSUME TypeOK, Rest, Kept, NEW e \in batch, e.conn # None,
         batch' = batch \ {e}, HandlerWaits(e.conn)
  PROVE  TypeOK' /\ Rest'
<1> DEFINE c  == e.conn
           f  == e.fd
           ff == client[c].file_fd
<1>1. /\ c \in Conn /\ f \in Fd /\ client[c].fd = f /\ sock[c] = "open"
      /\ fds[f] = Sock(c) /\ fd_to_client[f] = c
      /\ ff \in Fd \cup {NoFd} /\ (ff \in Fd => fds[ff] = File(c)) /\ ff # f
  <2>1. c \in Conn /\ f \in Fd /\ client[c].fd = f /\ sock[c] = "open"
    BY EventOwner
  <2> QED
    BY <2>1, Holding
<1>2. PICK event \in {"READ", "WRITE"} : modify_event_loop(f, event)
  BY <1>1 DEF HandlerWaits
<1>3. /\ UNCHANGED <<fds, sock, fd_to_client, client>>
      /\ files' \in BOOLEAN
  BY FilesAfterTypes DEF HandlerWaits, clientVars
<1>4. /\ EventsReachTheirClient' /\ OneEventEach' /\ NeverBoth' /\ NothingYet'
      /\ batch' \subseteq EventType
  BY <1>3, OthersKeepTheirs
<1> HIDE DEF c, f, ff
<1>5. /\ interest' \in [Fd -> SUBSET {"READ", "WRITE"}]
      /\ OneEventAsked' /\ RegisteredIsOpen'
  BY <1>1, <1>2, <1>3, Asks
<1>6. TypeOK'
  BY <1>3, <1>4, <1>5, KeptTypes DEF TypeOK, EventType
<1>7. MapAgrees' /\ FilesHeld'
  BY <1>3 DEF Rest, MapAgrees, FilesHeld
<1>8. WaitingOnce' /\ OnlyOpenHold'
  BY <1>3 DEF Rest, Kept, WaitingOnce, OnlyOpenHold
<1>9. ListenerOpen'
  BY <1>3, ListenerKept
<1> QED
  BY <1>4, <1>5, <1>6, <1>7, <1>8, <1>9 DEF Rest

LEMMA OpensPreserves ==
  ASSUME TypeOK, Rest, Kept, NEW e \in batch, e.conn # None,
         batch' = batch \ {e}, HandlerOpens(e.conn)
  PROVE  TypeOK' /\ Rest'
<1> DEFINE c  == e.conn
           f  == e.fd
           ff == client[c].file_fd
<1>1. /\ c \in Conn /\ f \in Fd /\ client[c].fd = f /\ sock[c] = "open"
      /\ fds[f] = Sock(c) /\ fd_to_client[f] = c
      /\ ff \in Fd \cup {NoFd} /\ (ff \in Fd => fds[ff] = File(c)) /\ ff # f
  <2>1. c \in Conn /\ f \in Fd /\ client[c].fd = f /\ sock[c] = "open"
    BY EventOwner
  <2> QED
    BY <2>1, Holding
<1> DEFINE f0 == Lowest
<1>2. ff = NoFd /\ f0 \in Fd /\ fds[f0] = Free
  BY LowestIsFree DEF HandlerOpens
<1> HIDE DEF f0
<1>3. /\ fds' = [fds EXCEPT ![f0] = File(c)]
      /\ client' = [client EXCEPT ![c].file_fd = f0]
      /\ UNCHANGED <<sock, fd_to_client>>
      /\ files' \in BOOLEAN
  BY FilesAfterTypes DEF HandlerOpens, Opened, f0
<1>4. PICK event \in {"READ", "WRITE"} : modify_event_loop(f, event)
  BY <1>1 DEF HandlerOpens
<1>5. /\ EventsReachTheirClient' /\ OneEventEach' /\ NeverBoth' /\ NothingYet'
      /\ batch' \subseteq EventType
  BY <1>3, OthersKeepTheirs
<1> HIDE DEF c, f, ff
<1>6. /\ sock \in [Conn -> {"none", "backlog", "open", "closed"}]
      /\ fds \in [Fd -> Kind]
      /\ interest \in [Fd -> SUBSET {"READ", "WRITE"}]
      /\ fd_to_client \in [Fd -> Conn \cup {None}]
      /\ client \in [Conn -> [fd : Fd \cup {NoFd}, file_fd : Fd \cup {NoFd}]]
  BY DEF TypeOK, Kind
<1>7. File(c) \in Kind /\ NoFd \notin Fd
  BY <1>1, ReactorAssumption DEF Kind
<1>8. \A g \in Fd : fds'[g] = (IF g = f0 THEN File(c) ELSE fds[g])
  BY <1>3, <1>6
<1>9. \A d \in Conn : /\ client'[d].fd = client[d].fd
                      /\ client'[d].file_fd = (IF d = c THEN f0 ELSE client[d].file_fd)
                      /\ d # c => client'[d] = client[d]
  BY <1>3, <1>6
<1>10. f # f0
  BY <1>1, <1>2, KindsApart
<1>11. \A g \in Fd : interest[g] # {} => fds'[g] = fds[g]
  BY <1>2, <1>8, RegisteredIsNoFile
<1>12. /\ interest' \in [Fd -> SUBSET {"READ", "WRITE"}]
      /\ OneEventAsked' /\ RegisteredIsOpen'
  BY <1>1, <1>4, <1>8, <1>10, <1>11, Asks
<1>13. fds' \in [Fd -> Kind]
  BY <1>2, <1>3, <1>7, <1>6
<1>14. client' \in [Conn -> [fd : Fd \cup {NoFd}, file_fd : Fd \cup {NoFd}]]
  BY <1>2, <1>3, <1>6
<1>15. TypeOK'
  BY <1>6, <1>5, <1>12, <1>3, <1>13, <1>14, KeptTypes DEF TypeOK, Kind, EventType
<1>16. MapAgrees'
  <2>1. \A g \in Fd : \A d \in Conn : fds'[g] = Sock(d) <=> fds[g] = Sock(d)
    <3> TAKE g \in Fd
    <3> TAKE d \in Conn
    <3>1. File(c) # Sock(d) /\ Free # Sock(d)
      BY <1>1, KindsApart
    <3> QED
      BY <1>2, <1>8, <3>1
  <2> QED
    BY <1>3, <1>9, <2>1 DEF Rest, MapAgrees
<1>17. FilesHeld'
  <2> SUFFICES ASSUME NEW g \in Fd, NEW d \in Conn
               PROVE  fds'[g] = File(d) <=> client'[d].file_fd = g
    BY DEF FilesHeld
  <2>1. fds[g] = File(d) <=> client[d].file_fd = g
    BY DEF Rest, FilesHeld
  <2>2. client[c].file_fd = NoFd
    BY <1>2 DEF ff
  <2>3. Free # File(d) /\ (File(c) = File(d) => c = d)
    BY <1>1, KindsApart
  <2>4. (g = f0 => fds'[g] = File(c)) /\ (g # f0 => fds'[g] = fds[g])
    BY <1>8
  <2>5. CASE d = c
    BY <1>7, <1>9, <2>4, <2>1, <2>2, <2>5
  <2>6. CASE d # c
    BY <1>2, <1>9, <2>3, <2>4, <2>1, <2>6
  <2> QED
    BY <2>5, <2>6
<1>18. WaitingOnce' /\ OnlyOpenHold'
  BY <1>1, <1>3, <1>9 DEF Rest, Kept, WaitingOnce, OnlyOpenHold
<1>19. ListenerOpen'
  <2>1. \A g \in Fd : fds[g] = Listen => fds'[g] = Listen
    BY <1>2, <1>8, KindsApart
  <2> QED
    BY <2>1, ListenerKept
<1> QED
  BY <1>5, <1>12, <1>15, <1>16, <1>17, <1>18, <1>19 DEF Rest

LEMMA ClosesFilePreserves ==
  ASSUME TypeOK, Rest, Kept, NEW e \in batch, e.conn # None,
         batch' = batch \ {e}, HandlerClosesFile(e.conn)
  PROVE  TypeOK' /\ Rest'
<1> DEFINE c  == e.conn
           f  == e.fd
           ff == client[c].file_fd
<1>1. /\ c \in Conn /\ f \in Fd /\ client[c].fd = f /\ sock[c] = "open"
      /\ fds[f] = Sock(c) /\ fd_to_client[f] = c
      /\ ff \in Fd \cup {NoFd} /\ (ff \in Fd => fds[ff] = File(c)) /\ ff # f
  <2>1. c \in Conn /\ f \in Fd /\ client[c].fd = f /\ sock[c] = "open"
    BY EventOwner
  <2> QED
    BY <2>1, Holding
<1>2. ff # NoFd /\ ff \in Fd
  BY <1>1 DEF HandlerClosesFile
<1>3. /\ fds' = Closed({ff})
      /\ client' = [client EXCEPT ![c].file_fd = NoFd]
      /\ UNCHANGED <<sock, fd_to_client, files>>
  BY DEF HandlerClosesFile
<1>4. modify_event_loop(f, "WRITE")
  BY <1>1 DEF HandlerClosesFile
<1>5. /\ EventsReachTheirClient' /\ OneEventEach' /\ NeverBoth' /\ NothingYet'
      /\ batch' \subseteq EventType
  BY <1>3, OthersKeepTheirs
<1> HIDE DEF c, f, ff
<1>6. /\ sock \in [Conn -> {"none", "backlog", "open", "closed"}]
      /\ fds \in [Fd -> Kind]
      /\ interest \in [Fd -> SUBSET {"READ", "WRITE"}]
      /\ fd_to_client \in [Fd -> Conn \cup {None}]
      /\ client \in [Conn -> [fd : Fd \cup {NoFd}, file_fd : Fd \cup {NoFd}]]
  BY DEF TypeOK, Kind
<1>7. Free \in Kind /\ NoFd \notin Fd
  BY ReactorAssumption DEF Kind
<1>8. \A g \in Fd : fds'[g] = (IF g = ff THEN Free ELSE fds[g])
  BY <1>3, <1>6 DEF Closed
<1>9. \A d \in Conn : /\ client'[d].fd = client[d].fd
                      /\ client'[d].file_fd = (IF d = c THEN NoFd ELSE client[d].file_fd)
                      /\ d # c => client'[d] = client[d]
  BY <1>3, <1>6
<1>10. \A g \in Fd : interest[g] # {} => fds'[g] = fds[g]
  BY <1>1, <1>2, <1>8, RegisteredIsNoFile
<1>11. /\ interest' \in [Fd -> SUBSET {"READ", "WRITE"}]
      /\ OneEventAsked' /\ RegisteredIsOpen'
  BY <1>1, <1>4, <1>8, <1>10, Asks
<1>12. fds' \in [Fd -> Kind]
  BY <1>3, <1>7, <1>6 DEF Closed
<1>13. client' \in [Conn -> [fd : Fd \cup {NoFd}, file_fd : Fd \cup {NoFd}]]
  BY <1>3, <1>6
<1>14. TypeOK'
  BY <1>6, <1>5, <1>11, <1>3, <1>12, <1>13, KeptTypes DEF TypeOK, Kind, EventType
<1>15. MapAgrees'
  <2>1. \A g \in Fd : \A d \in Conn : fds'[g] = Sock(d) <=> fds[g] = Sock(d)
    <3> TAKE g \in Fd
    <3> TAKE d \in Conn
    <3>1. File(c) # Sock(d) /\ Free # Sock(d)
      BY <1>1, KindsApart
    <3> QED
      BY <1>1, <1>2, <1>8, <3>1
  <2> QED
    BY <1>3, <1>9, <2>1 DEF Rest, MapAgrees
<1>16. FilesHeld'
  <2> SUFFICES ASSUME NEW g \in Fd, NEW d \in Conn
               PROVE  fds'[g] = File(d) <=> client'[d].file_fd = g
    BY DEF FilesHeld
  <2>1. fds[g] = File(d) <=> client[d].file_fd = g
    BY DEF Rest, FilesHeld
  <2>2. client[c].file_fd = ff
    BY DEF ff
  <2>3. Free # File(d) /\ (File(c) = File(d) => c = d)
    BY <1>1, KindsApart
  <2>4. (g = ff => fds'[g] = Free) /\ (g # ff => fds'[g] = fds[g])
    BY <1>8
  <2>5. CASE d = c
    BY <1>7, <1>9, <2>3, <2>4, <2>1, <2>2, <2>5
  <2>6. CASE d # c
    BY <1>1, <1>2, <1>9, <2>3, <2>4, <2>1, <2>6
  <2> QED
    BY <2>5, <2>6
<1>17. WaitingOnce' /\ OnlyOpenHold'
  BY <1>1, <1>3, <1>9 DEF Rest, Kept, WaitingOnce, OnlyOpenHold
<1>18. ListenerOpen'
  <2>1. \A g \in Fd : fds[g] = Listen => fds'[g] = Listen
    BY <1>1, <1>2, <1>8, KindsApart
  <2> QED
    BY <2>1, ListenerKept
<1> QED
  BY <1>5, <1>11, <1>14, <1>15, <1>16, <1>17, <1>18 DEF Rest

LEMMA DispatchPreserves ==
  ASSUME TypeOK, Rest, Dispatch
  PROVE  TypeOK' /\ Rest'
<1>1. Kept
  BY DEF Dispatch, Kept
<1>2. PICK e \in batch : /\ e # ListenEvent
                         /\ HandleIgnored(e) \/ HandleError(e) \/ HandleReady(e)
  BY DEF Dispatch
<1>3. /\ e.conn # None /\ batch' = batch \ {e}
      /\ \/ HandlerCloses(e.conn) \/ HandlerWaits(e.conn)
         \/ HandlerOpens(e.conn) \/ HandlerClosesFile(e.conn)
  BY <1>2, HandledAlone
<1>4. CASE HandlerCloses(e.conn)
  BY <1>1, <1>3, <1>4, ClosesPreserves
<1>5. CASE HandlerWaits(e.conn)
  BY <1>1, <1>3, <1>5, WaitsPreserves
<1>6. CASE HandlerOpens(e.conn)
  BY <1>1, <1>3, <1>6, OpensPreserves
<1>7. CASE HandlerClosesFile(e.conn)
  BY <1>1, <1>3, <1>7, ClosesFilePreserves
<1> QED
  BY <1>3, <1>4, <1>5, <1>6, <1>7

-----------------------------------------------------------------------------
(***************************************************************************)
(* The invariant.                                                          *)
(***************************************************************************)
LEMMA InitHolds == Init => TypeOK /\ Rest
<1> SUFFICES ASSUME Init PROVE TypeOK /\ Rest
  OBVIOUS
<1> USE DEF Init
<1>1. /\ \A f \in Fd : fds[f] = Free /\ interest[f] = {} /\ fd_to_client[f] = None
      /\ \A c \in Conn : sock[c] = "none" /\ client[c] = NoClient
      /\ batch = {} /\ backlog = <<>> /\ pc = "start"
  OBVIOUS
<1>2. TypeOK
  <2>1. fds \in [Fd -> Kind]
    BY DEF Kind
  <2>2. client \in [Conn -> [fd : Fd \cup {NoFd}, file_fd : Fd \cup {NoFd}]]
    BY DEF NoClient
  <2>3. sock \in [Conn -> {"none", "backlog", "open", "closed"}]
    OBVIOUS
  <2>4. backlog \in Seq(Conn)
    OBVIOUS
  <2>5. /\ backend \in Backends /\ pc \in Point /\ running \in BOOLEAN
        /\ handled \in Nat
        /\ armed \in BOOLEAN /\ missed \in BOOLEAN /\ files \in BOOLEAN
        /\ temp_dir \in {"none", "made", "removed"}
        /\ listen_fd \in Fd \cup {NoFd} /\ event_loop_fd \in Fd \cup {NoFd}
    BY DEF Point
  <2>6. /\ interest \in [Fd -> SUBSET {"READ", "WRITE"}]
        /\ fd_to_client \in [Fd -> Conn \cup {None}]
        /\ batch = {}
    OBVIOUS
  <2> HIDE DEF Init
  <2> QED
    BY <2>1, <2>2, <2>3, <2>5, <2>6, <2>4 DEF TypeOK, Kind
<1> HIDE DEF Init
<1>3. None \notin Conn /\ NoFd \notin Fd
  BY ReactorAssumption
<1>4. MapAgrees
  BY <1>1, <1>3, KindsApart DEF MapAgrees
<1>5. FilesHeld
  BY <1>1, <1>3, KindsApart DEF FilesHeld, NoClient
<1>6. OneEventAsked /\ RegisteredIsOpen /\ ListenerOpen
  BY <1>1 DEF OneEventAsked, RegisteredIsOpen, ListenerOpen
<1>7. EventsReachTheirClient /\ OneEventEach /\ NeverBoth /\ NothingYet
  BY <1>1 DEF EventsReachTheirClient, OneEventEach, NeverBoth, NothingYet
<1>8. WaitingOnce /\ OnlyOpenHold
  BY <1>1 DEF WaitingOnce, OnlyOpenHold
<1> QED
  BY <1>2, <1>4, <1>5, <1>6, <1>7, <1>8 DEF Rest

LEMMA StutterPreserves ==
  ASSUME TypeOK, Rest, UNCHANGED vars
  PROVE  TypeOK' /\ Rest'
<1>1. /\ UNCHANGED <<backend, pc, running, handled, sock, backlog, armed, missed>>
      /\ UNCHANGED <<fds, interest, batch, listen_fd, event_loop_fd>>
      /\ UNCHANGED <<fd_to_client, client, temp_dir, files>>
  BY DEF vars, loopVars, netVars, clientVars, fileVars
<1>2. TypeOK'
  BY <1>1 DEF TypeOK
<1>3. Rest'
  BY <1>1, QuietPreserves
<1> QED
  BY <1>2, <1>3

LEMMA NextPreserves ==
  ASSUME TypeOK, Rest, [Next]_vars
  PROVE  TypeOK' /\ Rest'
<1>1. CASE Main
  BY <1>1, BuildPreserves, BindPreserves, CreatePreserves, TestRunningPreserves,
     EnterWaitPreserves, WaitPreserves, EndOfBatchPreserves, BeginAcceptPreserves,
     AcceptOnePreserves, EndAcceptPreserves, DispatchPreserves, CleanupPreserves
  DEF Main
<1>2. CASE SigInt
  BY <1>2, SigIntPreserves
<1>3. CASE \E c \in Conn : Connect(c)
  BY <1>3, ConnectPreserves
<1>4. CASE Exited \/ UNCHANGED vars
  BY <1>4, StutterPreserves DEF Exited
<1> QED
  BY <1>1, <1>2, <1>3, <1>4 DEF Next

(* The process keeps its descriptors, its map and its event loop in step,  *)
(* whatever arrives, fails and is interrupted (server.c:188-226, 695-784). *)
THEOREM ReactorInvariant == Spec => []RInv
<1>1. Init => RInv
  BY InitHolds, RInvParts
<1>2. RInv /\ [Next]_vars => RInv'
  <2> SUFFICES ASSUME RInv, [Next]_vars PROVE RInv'
    OBVIOUS
  <2>1. TypeOK' /\ Rest'
    BY RInvParts, NextPreserves
  <2> QED
    BY <2>1 DEF RInv, Rest
<1> QED
  BY <1>1, <1>2, PTL DEF Spec

(* An event is handled with the client of the socket it was reported for,  *)
(* although a handler earlier in the batch may close sockets, and accept   *)
(* may get their numbers again (server.c:758-780).                         *)
THEOREM EventsReach == Spec => []EventsReachTheirClient
<1>1. RInv => EventsReachTheirClient
  BY DEF RInv
<1> QED
  BY <1>1, ReactorInvariant, PTL

(* The map names exactly the open connections, each under the descriptor   *)
(* of its own socket (server.c:205-226, 706-707).                          *)
THEOREM MapCorrect == Spec => []MapAgrees
<1>1. RInv => MapAgrees
  BY DEF RInv
<1> QED
  BY <1>1, ReactorInvariant, PTL

(* A descriptor is open on a file exactly while one client holds it: none  *)
(* leaks, and none that is another's is closed (server.c:205-212).         *)
THEOREM FilesHeldCorrect == Spec => []FilesHeld
<1>1. RInv => FilesHeld
  BY DEF RInv
<1> QED
  BY <1>1, ReactorInvariant, PTL

-----------------------------------------------------------------------------
(***************************************************************************)
(* The listening socket, SIGINT and the directory.                         *)
(***************************************************************************)
SignalSeen == handled = 0 \/ (handled = 1 /\ ~running /\ pc \notin {"call", "wait"})

ListenerWatched == InLoop => interest[listen_fd] # {}

NotMadeYet == pc = "start" => temp_dir = "none"

HandledFirst == pc \in {"test", "call", "wait"} => batch = {}

LoopInv ==
  SignalSeen /\ ListenerWatched /\ ListenerHeard /\ NotMadeYet /\ HandledFirst

(* A handler works on its own socket, so the listening socket's event and  *)
(* registration outlive it.                                                *)
LEMMA DispatchLeavesListener ==
  ASSUME TypeOK, Rest, Dispatch, ListenerWatched
  PROVE  /\ UNCHANGED <<pc, backend, running, handled, backlog, armed, missed,
                        listen_fd, temp_dir>>
         /\ ListenEvent \in batch => ListenEvent \in batch'
         /\ ListenerWatched'
<1>1. UNCHANGED <<pc, backend, running, handled, backlog, armed, missed,
                  listen_fd, temp_dir>>
  BY DEF Dispatch, loopVars
<1>2. PICK e \in batch \ {ListenEvent} :
        HandleIgnored(e) \/ HandleError(e) \/ HandleReady(e)
  BY DEF Dispatch
<1>3. /\ e.conn # None /\ batch' = batch \ {e}
      /\ \/ HandlerCloses(e.conn) \/ HandlerWaits(e.conn)
         \/ HandlerOpens(e.conn) \/ HandlerClosesFile(e.conn)
  BY <1>2, HandledAlone
<1>4. /\ e.conn \in Conn /\ e.fd \in Fd /\ fds[e.fd] = Sock(e.conn)
      /\ client[e.conn].fd = e.fd
  BY <1>2, <1>3, EventOwner
<1>5. PICK S \in SUBSET {"READ", "WRITE"} : interest' = [interest EXCEPT ![e.fd] = S]
  <2>1. CASE HandlerCloses(e.conn)
    BY <1>4, <2>1 DEF HandlerCloses, close_and_cleanup
  <2>2. CASE HandlerWaits(e.conn)
    BY <1>4, <2>2 DEF HandlerWaits, modify_event_loop, Modified
  <2>3. CASE HandlerOpens(e.conn)
    BY <1>4, <2>3 DEF HandlerOpens, modify_event_loop, Modified
  <2>4. CASE HandlerClosesFile(e.conn)
    BY <1>4, <2>4 DEF HandlerClosesFile, modify_event_loop, Modified
  <2> QED
    BY <1>3, <2>1, <2>2, <2>3, <2>4
<1>6. ASSUME InLoop PROVE interest'[listen_fd] # {}
  <2>1. listen_fd \in Fd /\ fds[listen_fd] = Listen /\ interest[listen_fd] # {}
    BY <1>6 DEF InLoop, Rest, ListenerOpen, ListenerWatched
  <2>2. listen_fd # e.fd
    BY <1>4, <2>1, KindsApart
  <2>3. interest'[listen_fd] = interest[listen_fd]
    BY <1>5, <2>1, <2>2 DEF TypeOK
  <2> QED
    BY <2>1, <2>3
<1>7. ListenerWatched'
  BY <1>1, <1>6 DEF ListenerWatched, InLoop
<1> QED
  BY <1>1, <1>2, <1>3, <1>7

LEMMA LoopInvStart == Init => LoopInv
BY DEF Init, LoopInv, SignalSeen, ListenerWatched, ListenerHeard, NotMadeYet,
       InLoop, HandledFirst

LEMMA LoopInvNext ==
  ASSUME TypeOK, Rest, LoopInv, [Next]_vars
  PROVE  LoopInv'
<1> USE DEF loopVars, netVars, clientVars, fileVars
<1>1. CASE build_temp_directory \/ create_and_bind_socket
  <2>1. pc' \in {"bind", "create", "cleanup", "exited"} /\ UNCHANGED handled
        /\ pc \in {"start", "bind"} /\ UNCHANGED running
    BY <1>1 DEF build_temp_directory, create_and_bind_socket
  <2> QED
    BY <2>1 DEF LoopInv, SignalSeen, ListenerWatched, ListenerHeard, NotMadeYet, InLoop,
                HandledFirst
<1>2. CASE event_loop_create
  <2>1. /\ pc = "create" /\ UNCHANGED <<handled, running, backlog, listen_fd, backend>>
        /\ \/ pc' = "cleanup"
           \/ /\ pc' = "test" /\ armed' = (armed \/ backlog # <<>>)
              /\ interest' = [interest EXCEPT ![listen_fd] = {"READ"}]
    BY <1>2 DEF event_loop_create
  <2>2. pc' = "test" => interest'[listen_fd'] # {}
    <3>1. listen_fd \in Fd
      BY <2>1 DEF Rest, ListenerOpen
    <3>2. interest \in [Fd -> SUBSET {"READ", "WRITE"}] /\ listen_fd' = listen_fd
      BY <2>1 DEF TypeOK
    <3>3. CASE pc' = "test"
      BY <2>1, <3>1, <3>2, <3>3
    <3> QED
      BY <3>3
  <2>3. pc' = "test" /\ backlog' # <<>> => ListenReady'
    BY <2>1 DEF ListenReady
  <2>4. ListenerWatched' /\ ListenerHeard'
    BY <2>1, <2>2, <2>3 DEF ListenerWatched, ListenerHeard, InLoop
  <2>5. HandledFirst'
    BY <1>2, <2>1 DEF event_loop_create, Rest, NothingYet, HandledFirst
  <2> QED
    BY <2>1, <2>4, <2>5 DEF LoopInv, SignalSeen, NotMadeYet
<1>3. CASE TestRunning \/ EnterWait \/ EndOfBatch
  <2>1. /\ UNCHANGED <<handled, running, backlog, armed, missed, interest>>
        /\ UNCHANGED <<listen_fd, backend, batch>>
        /\ \/ pc = "test" /\ running /\ pc' = "call"
           \/ pc = "test" /\ pc' = "cleanup"
           \/ pc = "call" /\ pc' = "wait"
           \/ pc = "batch" /\ pc' = "test"
    BY <1>3 DEF TestRunning, EnterWait, EndOfBatch, GoesOn
  <2>2. SignalSeen'
    BY <2>1 DEF LoopInv, SignalSeen
  <2>3. ListenerWatched' /\ NotMadeYet'
    BY <2>1 DEF LoopInv, ListenerWatched, InLoop, NotMadeYet
  <2>4. ListenerHeard'
    BY <2>1 DEF LoopInv, ListenerHeard, InLoop, ListenReady, ListenEvent,
                E!EdgeTriggered
  <2>5. HandledFirst'
    BY <1>3, <2>1 DEF LoopInv, HandledFirst, EndOfBatch, TestRunning, EnterWait
  <2> QED
    BY <2>2, <2>3, <2>4, <2>5 DEF LoopInv
<1>4. CASE event_loop_wait
  <2>1. /\ pc = "wait" /\ UNCHANGED <<running, backlog, missed, interest>>
        /\ UNCHANGED <<listen_fd, backend>>
        /\ pc' \in {"batch", "cleanup"}
        /\ pc' = "batch" => handled' = IF running THEN 0 ELSE handled + 1
        /\ pc' = "cleanup" => handled' = handled
    BY <1>4 DEF event_loop_wait
  <2>2. SignalSeen'
    BY <2>1 DEF LoopInv, SignalSeen
  <2>3. ListenerWatched' /\ NotMadeYet'
    BY <2>1 DEF LoopInv, ListenerWatched, InLoop, NotMadeYet
  <2>4. pc' = "batch" => (armed => armed' \/ ListenEvent \in batch')
    BY <1>4, <2>1 DEF event_loop_wait
  <2>5. ListenReady /\ backlog # <<>> => ListenReady' \/ ListenEvent \in batch'
                                         \/ pc' = "cleanup"
    BY <2>1, <2>4 DEF ListenReady, E!EdgeTriggered
  <2>6. ListenerHeard'
    <3>1. backlog # <<>> /\ ~missed => ListenReady
      BY <2>1 DEF LoopInv, ListenerHeard, InLoop, HandledFirst
    <3>2. ListenEvent' = ListenEvent
      BY <2>1 DEF ListenEvent
    <3> QED
      BY <2>1, <2>5, <3>1, <3>2 DEF ListenerHeard, InLoop
  <2>7. HandledFirst'
    BY <2>1 DEF HandledFirst
  <2> QED
    BY <2>2, <2>3, <2>6, <2>7 DEF LoopInv
<1>5. CASE BeginAccept \/ AcceptOne \/ EndAccept
  <2>1. /\ pc \in {"batch", "accept"} /\ pc' \in {"batch", "accept"}
        /\ UNCHANGED <<running, handled, listen_fd, backend>>
        /\ pc' = "batch" => (missed' \/ backlog' = <<>>)
    BY <1>5 DEF BeginAccept, AcceptOne, EndAccept, AfterAccept
  <2>2. interest'[listen_fd] # {}
    <3>1. /\ listen_fd \in Fd /\ fds[listen_fd] = Listen /\ interest[listen_fd] # {}
      BY <2>1 DEF InLoop, Rest, ListenerOpen, LoopInv, ListenerWatched
    <3>2. CASE AcceptOne
      <4>1. Lowest \in Fd /\ fds[Lowest] = Free
        BY <3>2, LowestIsFree DEF AcceptOne
      <4>2. Lowest # listen_fd
        BY <3>1, <4>1, KindsApart
      <4>3. interest' = [interest EXCEPT ![Lowest] = {"READ"}]
        BY <3>2 DEF AcceptOne
      <4> QED
        BY <3>1, <4>2, <4>3 DEF TypeOK
    <3>3. CASE BeginAccept \/ EndAccept
      BY <3>1, <3>3 DEF BeginAccept, EndAccept
    <3> QED
      BY <1>5, <3>2, <3>3
  <2>3. SignalSeen' /\ NotMadeYet' /\ HandledFirst'
    BY <2>1 DEF LoopInv, SignalSeen, NotMadeYet, HandledFirst
  <2>4. ListenerWatched' /\ ListenerHeard'
    BY <2>1, <2>2 DEF ListenerWatched, ListenerHeard
  <2> QED
    BY <2>3, <2>4 DEF LoopInv
<1>6. CASE Dispatch
  <2>1. /\ UNCHANGED <<pc, backend, running, handled, backlog, armed, missed,
                       listen_fd, temp_dir>>
        /\ ListenEvent \in batch => ListenEvent \in batch'
        /\ ListenerWatched'
    BY <1>6, DispatchLeavesListener DEF LoopInv
  <2>2. SignalSeen' /\ NotMadeYet' /\ HandledFirst'
    BY <1>6, <2>1 DEF LoopInv, SignalSeen, NotMadeYet, HandledFirst, Dispatch
  <2>3. ListenerHeard'
    BY <2>1 DEF LoopInv, ListenerHeard, InLoop, ListenReady, ListenEvent,
                E!EdgeTriggered
  <2> QED
    BY <2>1, <2>2, <2>3 DEF LoopInv
<1>7. CASE cleanup
  <2>1. pc' = "exited" /\ pc = "cleanup" /\ UNCHANGED <<handled, running>>
    BY <1>7 DEF cleanup
  <2> QED
    BY <2>1 DEF LoopInv, SignalSeen, ListenerWatched, ListenerHeard, NotMadeYet, InLoop,
                HandledFirst
<1>8. CASE SigInt
  <2>1. /\ UNCHANGED <<handled, backlog, armed, missed, interest, listen_fd>>
        /\ UNCHANGED <<backend, batch, temp_dir>>
        /\ ~running'
        /\ pc' = pc \/ (pc = "wait" /\ pc' = "test")
        /\ running \/ pc = "wait"
    BY <1>8 DEF SigInt
  <2>2. SignalSeen'
    BY <2>1 DEF LoopInv, SignalSeen
  <2>3. ListenerWatched' /\ NotMadeYet'
    BY <2>1 DEF LoopInv, ListenerWatched, InLoop, NotMadeYet
  <2>4. ListenerHeard'
    BY <2>1 DEF LoopInv, ListenerHeard, InLoop, ListenReady, ListenEvent,
                E!EdgeTriggered
  <2>5. HandledFirst'
    BY <2>1 DEF LoopInv, HandledFirst
  <2> QED
    BY <2>2, <2>3, <2>4, <2>5 DEF LoopInv
<1>9. CASE \E c \in Conn : Connect(c)
  <2>1. /\ UNCHANGED <<pc, handled, running, missed, interest, listen_fd>>
        /\ UNCHANGED <<backend, batch, temp_dir>>
        /\ armed' = (armed \/ (E!EdgeTriggered /\ interest[listen_fd] # {}))
    BY <1>9 DEF Connect
  <2>2. SignalSeen' /\ NotMadeYet' /\ HandledFirst'
    BY <2>1 DEF LoopInv, SignalSeen, NotMadeYet, HandledFirst
  <2>3. ListenerWatched'
    BY <2>1 DEF LoopInv, ListenerWatched, InLoop
  <2>4. ListenerHeard'
    <3>1. InLoop' => interest[listen_fd] # {}
      BY <2>1 DEF LoopInv, ListenerWatched, InLoop
    <3>2. InLoop' /\ backlog' # <<>> => ListenReady'
      BY <2>1, <3>1 DEF ListenReady, E!EdgeTriggered
    <3> QED
      BY <3>2 DEF ListenerHeard
  <2> QED
    BY <2>2, <2>3, <2>4 DEF LoopInv
<1>10. CASE Exited \/ UNCHANGED vars
  <2>1. UNCHANGED <<pc, handled, running, missed, interest, listen_fd, backend,
                    batch, temp_dir, backlog, armed>>
    BY <1>10 DEF Exited, vars
  <2> QED
    BY <2>1 DEF LoopInv, SignalSeen, ListenerWatched, ListenerHeard, NotMadeYet,
                InLoop, ListenReady, ListenEvent, E!EdgeTriggered, HandledFirst
<1> QED
  BY <1>1, <1>2, <1>3, <1>4, <1>5, <1>6, <1>7, <1>8, <1>9, <1>10 DEF Next, Main

LEMMA AlwaysLoopInv == Spec => []LoopInv
<1>1. RInv /\ LoopInv /\ [Next]_vars => LoopInv'
  BY RInvParts, LoopInvNext
<1> QED
  BY <1>1, LoopInvStart, ReactorInvariant, PTL DEF Spec

(* With either back end no connection is left waiting by a loop that has   *)
(* not had an accept fail: what arrives while the listening socket is      *)
(* being emptied is accepted or reported (server.c:691-709, 760-763).      *)
THEOREM ListenerIsHeard == Spec => []ListenerHeard
<1>1. LoopInv => ListenerHeard
  BY DEF LoopInv
<1> QED
  BY <1>1, AlwaysLoopInv, PTL

(* A SIGINT lets at most one more batch be handled, wherever main is when  *)
(* it comes (server.c:74-76, 751-757).                                     *)
THEOREM SignalStopsSoon == Spec => []StopsSoon
<1>1. LoopInv => StopsSoon
  BY DEF LoopInv, SignalSeen, StopsSoon
<1> QED
  BY <1>1, AlwaysLoopInv, PTL

(* An exit that finds a free descriptor removes the directory              *)
(* (server.c:85-113, 782).                                                 *)
THEOREM DirectoryIsRemoved == Spec => DirectoryRemoved
<1> DEFINE A == pc' = "exited" /\ temp_dir = "made" /\ FreeFds # {}
                  => temp_dir' = "removed"
<1>1. ASSUME RInv, LoopInv, [Next]_vars PROVE [A]_vars
  <2> SUFFICES ASSUME Next, ~UNCHANGED vars, pc' = "exited", temp_dir = "made",
                      FreeFds # {}
               PROVE  temp_dir' = "removed"
    BY <1>1
  <2>1. CASE cleanup
    BY <2>1 DEF cleanup, cleanup_temp_directory, FilesLeft
  <2>2. CASE build_temp_directory
    BY <1>1, <2>2 DEF build_temp_directory, LoopInv, NotMadeYet
  <2>3. CASE SigInt
    BY <2>3 DEF SigInt
  <2>4. CASE Dispatch
    <3>1. pc = "batch" /\ pc' = pc
      BY <2>4 DEF Dispatch
    <3> QED
      BY <3>1
  <2>5. CASE \E c \in Conn : Connect(c)
    BY <2>5 DEF Connect
  <2>6. CASE create_and_bind_socket \/ event_loop_create \/ TestRunning \/ EnterWait
    BY <2>6 DEF create_and_bind_socket, event_loop_create, TestRunning, EnterWait
  <2>7. CASE event_loop_wait \/ EndOfBatch \/ BeginAccept \/ AcceptOne \/ EndAccept
    BY <2>7 DEF event_loop_wait, EndOfBatch, BeginAccept, AcceptOne, EndAccept,
                AfterAccept
  <2>8. CASE Exited
    BY <2>8 DEF Exited
  <2> QED
    BY <2>1, <2>2, <2>3, <2>4, <2>5, <2>6, <2>7, <2>8 DEF Next, Main
<1> QED
  BY <1>1, AlwaysLoopInv, ReactorInvariant, PTL DEF Spec, DirectoryRemoved

=============================================================================
