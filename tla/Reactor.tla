------------------------------ MODULE Reactor ------------------------------
(***************************************************************************)
(* The process around the connection handlers: main of src/server.c from   *)
(* its first line to its exit, with the descriptors it is given, the       *)
(* listening socket, the event loop, the map from descriptors to clients,  *)
(* SIGINT, and the temporary directory it makes and removes.               *)
(*                                                                         *)
(* FileServer has the handlers in full and calls connections by name.      *)
(* Here a connection has a descriptor, which the next one accepted may get *)
(* again, and a handler is any of the things a handler of FileServer does  *)
(* to descriptors: wait on, ask for the other event, open its file, close  *)
(* it, end the connection.  Which sockets are ready is any choice.         *)
(***************************************************************************)
EXTENDS Integers, Sequences, FiniteSets

CONSTANTS
  Conn,          \* the connections that ever arrive
  Fd,            \* descriptor numbers the process may have (RLIMIT_NOFILE)
  NoFd,          \* -1
  None,          \* no connection; the null pointer
  MaxEvents,     \* MAX_EVENTS
  Backends,      \* the event loops to look at
  Faults         \* calls that may fail: "mkdtemp", "socket", "loop",
                 \* "wait", "accept"

ASSUME ReactorAssumption ==
  /\ Fd \subseteq Nat /\ NoFd \notin Fd
  /\ IsFiniteSet(Fd) /\ IsFiniteSet(Conn)
  /\ None \notin Conn
  /\ MaxEvents \in Nat \ {0}
  /\ Backends \subseteq {"epoll", "kqueue"}

VARIABLES
  backend,       \* the event loop this server is built with
  pc,            \* where main is
  running,       \* cleared by signal_handler
  handled,       \* batches begun since SIGINT (history)
  (* The kernel. *)
  sock,          \* "none", "backlog", "open" or "closed", per connection
  backlog,       \* connections waiting to be accepted, in order
  armed,         \* the listening socket is on epoll's ready list
  missed,        \* an accept failed and left connections waiting (history)
  fds,           \* what each descriptor is open on
  interest,      \* registered events of each descriptor, {} if not registered
  batch,         \* the events still to be handled
  (* The process. *)
  listen_fd, event_loop_fd,
  fd_to_client,  \* the map: a client, named by its connection, per descriptor
  client,        \* the client_t of each connection
  (* The file system. *)
  temp_dir,      \* "none", "made" or "removed"
  files          \* whether there are files in it

loopVars == <<backend, running, handled>>
netVars  == <<sock, backlog, armed, missed>>
clientVars == <<fd_to_client, client>>
fileVars == <<temp_dir, files>>
vars == <<pc, loopVars, netVars, fds, interest, batch, listen_fd,
          event_loop_fd, clientVars, fileVars>>

-----------------------------------------------------------------------------
(***************************************************************************)
(* Descriptors: a call that makes one gets the lowest that is free, and    *)
(* fails if none is (EMFILE).                                              *)
(***************************************************************************)
E == INSTANCE EventLoop WITH Backend <- backend

Free   == <<"free", None>>
Listen == <<"listen", None>>
Loop   == <<"loop", None>>
Sock(c) == <<"socket", c>>
File(c) == <<"file", c>>

FreeFds == {f \in Fd : fds[f] = Free}
Lowest  == CHOOSE f \in FreeFds : \A g \in FreeFds : f <= g

Opened(f, what) == [fds EXCEPT ![f] = what]
Closed(S) == [f \in Fd |-> IF f \in S THEN Free ELSE fds[f]]

(* fds[f] for a descriptor of a client.                                    *)
Owner(f) == fds[f][2]

NoClient == [fd |-> NoFd, file_fd |-> NoFd]

client_create(fd) == [fd |-> fd, file_fd |-> NoFd]

-----------------------------------------------------------------------------
(***************************************************************************)
(* Starting.                                                               *)
(***************************************************************************)
build_temp_directory ==
  /\ pc = "start"
  /\ \/ temp_dir' = "made" /\ pc' = "bind"
     \/ "mkdtemp" \in Faults /\ pc' = "exited" /\ UNCHANGED temp_dir
  /\ UNCHANGED <<loopVars, netVars, fds, interest, batch, listen_fd,
                 event_loop_fd, clientVars, files>>

(* A bind, listen or fcntl that fails closes the socket and starts the     *)
(* cleanup.                                                                *)
create_and_bind_socket ==
  /\ pc = "bind"
  /\ \/ /\ FreeFds # {}
        /\ listen_fd' = Lowest
        /\ fds' = Opened(Lowest, Listen)
        /\ pc' = "create"
     \/ /\ FreeFds = {} \/ "socket" \in Faults
        /\ pc' = "cleanup"
        /\ UNCHANGED <<listen_fd, fds>>
  /\ UNCHANGED <<loopVars, netVars, interest, batch, event_loop_fd,
                 clientVars, fileVars>>

event_loop_create ==
  /\ pc = "create"
  /\ \/ /\ FreeFds # {}
        /\ event_loop_fd' = Lowest
        /\ fds' = Opened(Lowest, Loop)
        /\ interest' = [interest EXCEPT ![listen_fd] = {"READ"}]
        /\ armed' = (armed \/ backlog # <<>>)
        /\ pc' = "test"
     \/ /\ FreeFds = {} \/ "loop" \in Faults
        /\ pc' = "cleanup"
        /\ UNCHANGED <<event_loop_fd, fds, interest, armed>>
  /\ UNCHANGED <<loopVars, sock, backlog, missed, batch, listen_fd,
                 clientVars, fileVars>>

-----------------------------------------------------------------------------
(***************************************************************************)
(* The loop of main.                                                       *)
(***************************************************************************)
(* A slip: for (;;) instead of while (running).                            *)
NeverStops == TRUE

GoesOn == running

TestRunning ==
  /\ pc = "test"
  /\ pc' = IF GoesOn THEN "call" ELSE "cleanup"
  /\ UNCHANGED <<loopVars, netVars, fds, interest, batch, listen_fd,
                 event_loop_fd, clientVars, fileVars>>

(* The process enters the kernel.  A signal that comes before this does    *)
(* not interrupt the wait.                                                 *)
EnterWait ==
  /\ pc = "call"
  /\ pc' = "wait"
  /\ UNCHANGED <<loopVars, netVars, fds, interest, batch, listen_fd,
                 event_loop_fd, clientVars, fileVars>>

ListenReady == IF E!EdgeTriggered THEN armed ELSE backlog # <<>>

(* One socket's events: together in one element for epoll, and for kqueue  *)
(* in one element per filter.  conn (history) is whose socket it was.      *)
Events(f) ==
  LET Event(S) == [fd |-> f, events |-> S, conn |-> Owner(f)] IN
  IF E!EdgeTriggered
    THEN {{Event(S)} : S \in (SUBSET (interest[f] \cup {"ERROR"})) \ {{}}}
    ELSE {{Event({e}) : e \in S} : S \in (SUBSET interest[f]) \ {{}}}

Watched == {f \in Fd : interest[f] # {} /\ fds[f] # Listen}

ListenEvent == [fd |-> listen_fd, events |-> {"READ"}, conn |-> None]

(* event_loop_wait returns: up to MaxEvents events of ready sockets; or -1.*)
event_loop_wait ==
  /\ pc = "wait"
  /\ \/ /\ \E R \in SUBSET Watched : \E ev \in [R -> UNION {Events(f) : f \in R}] :
             /\ \A f \in R : ev[f] \in Events(f)
             /\ \E L \in SUBSET {x \in {ListenEvent} : ListenReady} :
                  /\ batch' = (UNION {ev[f] : f \in R}) \cup L
                  /\ armed' = (armed /\ L = {})
        /\ batch' # {} /\ Cardinality(batch') <= MaxEvents
        /\ handled' = IF running THEN 0 ELSE handled + 1
        /\ pc' = "batch"
     \/ /\ "wait" \in Faults
        /\ pc' = "cleanup"
        /\ UNCHANGED <<batch, armed, handled>>
  /\ UNCHANGED <<backend, running, sock, backlog, missed, fds, interest,
                 listen_fd, event_loop_fd, clientVars, fileVars>>

EndOfBatch ==
  /\ pc = "batch" /\ batch = {}
  /\ pc' = "test"
  /\ UNCHANGED <<loopVars, netVars, fds, interest, batch, listen_fd,
                 event_loop_fd, clientVars, fileVars>>

-----------------------------------------------------------------------------
(***************************************************************************)
(* accept_connections, call by call: connections may arrive between two    *)
(* calls of accept.                                                        *)
(***************************************************************************)
BeginAccept ==
  /\ pc = "batch" /\ ListenEvent \in batch
  /\ batch' = batch \ {ListenEvent}
  /\ pc' = "accept"
  /\ UNCHANGED <<loopVars, netVars, fds, interest, listen_fd, event_loop_fd,
                 clientVars, fileVars>>

(* A slip: one connection is accepted per event.                           *)
AcceptsOnce == "batch"

AfterAccept == "accept"

AcceptOne ==
  /\ pc = "accept" /\ backlog # <<>> /\ FreeFds # {}
  /\ LET c == Head(backlog)
         f == Lowest IN
     /\ sock' = [sock EXCEPT ![c] = "open"]
     /\ backlog' = Tail(backlog)
     /\ fds' = Opened(f, Sock(c))
     /\ interest' = [interest EXCEPT ![f] = {"READ"}]
     /\ client' = [client EXCEPT ![c] = client_create(f)]
     /\ fd_to_client' = [fd_to_client EXCEPT ![f] = c]
  /\ pc' = AfterAccept
  /\ UNCHANGED <<loopVars, armed, missed, batch, listen_fd, event_loop_fd,
                 fileVars>>

(* EAGAIN: nobody is waiting.  Any other error ends the loop as well, with *)
(* connections waiting or not.                                             *)
EndAccept ==
  /\ pc = "accept"
  /\ backlog = <<>> \/ FreeFds = {} \/ "accept" \in Faults
  /\ missed' = (missed \/ backlog # <<>>)
  /\ pc' = "batch"
  /\ UNCHANGED <<loopVars, sock, backlog, armed, fds, interest, batch,
                 listen_fd, event_loop_fd, clientVars, fileVars>>

-----------------------------------------------------------------------------
(***************************************************************************)
(* The handlers, for an event e of the descriptor e.fd.                    *)
(***************************************************************************)
Get(f) == fd_to_client[f]             \* dictionary_get

Handled(e, event) ==
  batch' = (batch \ {e}) \cup
             {x \in {[e EXCEPT !.events = @ \ {event}]} :
                event # "ERROR" /\ x.events # {}}

(* A slip: the file is left open.                                          *)
FileLeftOpen(cl) == {cl.fd}

(* client_destroy closes the file, close_and_cleanup the socket.           *)
ClosedWith(cl) == {cl.fd, cl.file_fd} \cap Fd

(* A slip: the map keeps the client.                                       *)
StaysMapped(f) == fd_to_client

Unmapped(f) == [fd_to_client EXCEPT ![f] = None]

close_and_cleanup(c, fs) ==
  /\ interest' = [interest EXCEPT ![client[c].fd] = {}]
  /\ fds' = Closed(ClosedWith(client[c]))
  /\ sock' = [sock EXCEPT ![c] = "closed"]
  /\ fd_to_client' = Unmapped(client[c].fd)
  /\ client' = [client EXCEPT ![c] = NoClient]
  /\ files' = fs

(* What a handler may do to the directory: nothing; make a file, which     *)
(* takes a descriptor if only for a while; remove one.                     *)
FilesAfter == {files, FALSE} \cup {x \in {TRUE} : files \/ FreeFds # {}}

(* A slip: kqueue's old filter is not deleted.                             *)
AddsFilter(f, event) == interest[f] \cup {event}

Modified(f, event) == {event}

modify_event_loop(f, event) ==
  interest' = [interest EXCEPT ![f] = Modified(f, event)]

HandlerCloses(c) == \E fs \in FilesAfter : close_and_cleanup(c, fs)

(* It goes on reading or begins to write, with the file it has or without. *)
HandlerWaits(c) ==
  /\ \E event \in {"READ", "WRITE"} : modify_event_loop(client[c].fd, event)
  /\ files' \in FilesAfter
  /\ UNCHANGED <<fds, sock, clientVars>>

(* An upload opens its file, or a download one that is there, and goes on. *)
(* Without a descriptor it goes on as on any other error.                  *)
HandlerOpens(c) ==
  /\ client[c].file_fd = NoFd /\ FreeFds # {}
  /\ fds' = Opened(Lowest, File(c))
  /\ client' = [client EXCEPT ![c].file_fd = Lowest]
  /\ files' \in FilesAfter
  /\ \E event \in {"READ", "WRITE"} : modify_event_loop(client[c].fd, event)
  /\ UNCHANGED <<sock, fd_to_client>>

(* An upload's file is closed before the response is sent.                 *)
HandlerClosesFile(c) ==
  /\ client[c].file_fd # NoFd
  /\ fds' = Closed({client[c].file_fd})
  /\ client' = [client EXCEPT ![c].file_fd = NoFd]
  /\ modify_event_loop(client[c].fd, "WRITE")
  /\ UNCHANGED <<sock, fd_to_client, files>>

HandleIgnored(e) ==
  /\ Get(e.fd) = None
  /\ batch' = batch \ {e}
  /\ UNCHANGED <<fds, interest, sock, clientVars, files>>

HandleError(e) ==
  /\ Get(e.fd) # None /\ "ERROR" \in e.events
  /\ Handled(e, "ERROR")
  /\ HandlerCloses(Get(e.fd))

HandleReady(e) ==
  /\ Get(e.fd) # None /\ "ERROR" \notin e.events
  /\ \E event \in e.events :
       /\ event = "WRITE" => "READ" \notin e.events
       /\ Handled(e, event)
  /\ LET c == Get(e.fd) IN
     \/ HandlerCloses(c) \/ HandlerWaits(c)
     \/ HandlerOpens(c) \/ HandlerClosesFile(c)

Dispatch ==
  /\ pc = "batch"
  /\ \E e \in batch \ {ListenEvent} :
       HandleIgnored(e) \/ HandleError(e) \/ HandleReady(e)
  /\ UNCHANGED <<pc, loopVars, backlog, armed, missed, listen_fd,
                 event_loop_fd, temp_dir>>

-----------------------------------------------------------------------------
(***************************************************************************)
(* SIGINT and the end.                                                     *)
(***************************************************************************)
(* The handler clears running, and a wait that has begun returns EINTR.    *)
SigInt ==
  /\ pc # "exited" /\ (running \/ pc = "wait")
  /\ running' = FALSE
  /\ pc' = IF pc = "wait" THEN "test" ELSE pc
  /\ UNCHANGED <<backend, handled, netVars, fds, interest, batch, listen_fd,
                 event_loop_fd, clientVars, fileVars>>

(* A slip: the files are not looked for.                                   *)
RemovesNothing == files

(* readdir finds every file; opendir needs a descriptor of its own.        *)
FilesLeft == FreeFds = {} /\ files

cleanup_temp_directory ==
  /\ files' = FilesLeft
  /\ temp_dir' = IF files' THEN temp_dir ELSE "removed"         \* rmdir

(* cleanup, and the exit of the process, which closes what is still open.  *)
cleanup ==
  /\ pc = "cleanup"
  /\ cleanup_temp_directory
  /\ fds' = [f \in Fd |-> Free]
  /\ interest' = [f \in Fd |-> {}]
  /\ sock' = [c \in Conn |-> IF sock[c] = "none" THEN "none" ELSE "closed"]
  /\ backlog' = <<>> /\ armed' = FALSE
  /\ fd_to_client' = [f \in Fd |-> None]
  /\ client' = [c \in Conn |-> NoClient]
  /\ batch' = {}
  /\ pc' = "exited"
  /\ UNCHANGED <<loopVars, missed, listen_fd, event_loop_fd>>

-----------------------------------------------------------------------------
(* A peer connects, once the process listens.                              *)
Connect(c) ==
  /\ sock[c] = "none" /\ listen_fd # NoFd /\ pc # "exited"
  /\ sock' = [sock EXCEPT ![c] = "backlog"]
  /\ backlog' = Append(backlog, c)
  /\ armed' = (armed \/ (E!EdgeTriggered /\ interest[listen_fd] # {}))
  /\ UNCHANGED <<pc, loopVars, missed, fds, interest, batch, listen_fd,
                 event_loop_fd, clientVars, fileVars>>

Exited == pc = "exited" /\ UNCHANGED vars

Init ==
  /\ backend \in Backends
  /\ pc = "start" /\ running = TRUE /\ handled = 0
  /\ sock = [c \in Conn |-> "none"]
  /\ backlog = <<>> /\ armed = FALSE /\ missed = FALSE
  /\ fds = [f \in Fd |-> Free]
  /\ interest = [f \in Fd |-> {}]
  /\ batch = {}
  /\ listen_fd = NoFd /\ event_loop_fd = NoFd
  /\ fd_to_client = [f \in Fd |-> None]
  /\ client = [c \in Conn |-> NoClient]
  /\ temp_dir = "none" /\ files = FALSE

Main ==
  \/ build_temp_directory \/ create_and_bind_socket \/ event_loop_create
  \/ TestRunning \/ EnterWait \/ event_loop_wait \/ EndOfBatch
  \/ BeginAccept \/ AcceptOne \/ EndAccept
  \/ Dispatch \/ cleanup

Next == Main \/ SigInt \/ (\E c \in Conn : Connect(c)) \/ Exited

Spec == Init /\ [][Next]_vars

(* The process runs.  Signals and peers come when they like.               *)
FairSpec == Spec /\ WF_vars(Main)

-----------------------------------------------------------------------------
(***************************************************************************)
(* What the process promises.                                              *)
(***************************************************************************)
Point == {"start", "bind", "create", "test", "call", "wait", "batch",
          "accept", "cleanup", "exited"}

TypeOK ==
  /\ backend \in Backends
  /\ pc \in Point /\ running \in BOOLEAN /\ handled \in Nat
  /\ sock \in [Conn -> {"none", "backlog", "open", "closed"}]
  /\ backlog \in Seq(Conn)
  /\ armed \in BOOLEAN /\ missed \in BOOLEAN
  /\ fds \in [Fd -> {Free, Listen, Loop} \cup {Sock(c) : c \in Conn}
                       \cup {File(c) : c \in Conn}]
  /\ interest \in [Fd -> SUBSET {"READ", "WRITE"}]
  /\ batch \subseteq [fd : Fd, events : SUBSET {"READ", "WRITE", "ERROR"},
                      conn : Conn \cup {None}]
  /\ listen_fd \in Fd \cup {NoFd} /\ event_loop_fd \in Fd \cup {NoFd}
  /\ fd_to_client \in [Fd -> Conn \cup {None}]
  /\ client \in [Conn -> [fd : Fd \cup {NoFd}, file_fd : Fd \cup {NoFd}]]
  /\ temp_dir \in {"none", "made", "removed"} /\ files \in BOOLEAN

(* An event is handled with the client of the socket it was reported for,  *)
(* although the descriptor in it may have been closed, and given to a new  *)
(* connection, by what was handled earlier in the same batch               *)
(* (server.c:758-780).                                                     *)
EventsReachTheirClient ==
  \A e \in batch : e.conn # None => Get(e.fd) = e.conn

(* The map leads from the descriptor of every open connection to its       *)
(* client and from no other: none is left behind by close_and_cleanup to   *)
(* meet the descriptor's next owner (server.c:205-226, 706-707).           *)
MapAgrees ==
  /\ \A f \in Fd : \A c \in Conn :
       /\ fd_to_client[f] = c <=> fds[f] = Sock(c)
       /\ fd_to_client[f] = c => client[c].fd = f /\ sock[c] = "open"
  /\ \A c \in Conn :
       sock[c] = "open" => client[c].fd \in Fd /\ fd_to_client[client[c].fd] = c

(* A descriptor is open on a file exactly while a client holds it, and no  *)
(* two hold one: nothing leaks, and nothing is closed that has become      *)
(* another's (server.c:205-212).                                           *)
FilesHeld ==
  \A f \in Fd : \A c \in Conn : fds[f] = File(c) <=> client[c].file_fd = f

(* What these three rest on, and every step preserves: a registered        *)
(* descriptor is the listening socket's or a client's and asks for one     *)
(* event, no two events of a batch are of one descriptor, a connection     *)
(* waits once and holds nothing, and the listening socket is open once it  *)
(* was made (server.c:188-226, 700-707, 742-763).                          *)
OneEventAsked == \A f \in Fd : interest[f] \in {{}, {"READ"}, {"WRITE"}}

RegisteredIsOpen ==
  \A f \in Fd : interest[f] # {} => fds[f] = Listen \/ fds[f][1] = "socket"

OneEventEach ==
  \A e, x \in batch : e.fd = x.fd => e = x

NeverBoth ==
  \A e \in batch :
    ~({"READ", "WRITE"} \subseteq e.events) /\ (e.conn = None => e = ListenEvent)

WaitingOnce ==
  /\ \A i \in DOMAIN backlog : sock[backlog[i]] = "backlog"
  /\ \A i, j \in DOMAIN backlog : backlog[i] = backlog[j] => i = j

OnlyOpenHold == \A c \in Conn : sock[c] # "open" => client[c] = NoClient

NothingYet == pc \in {"start", "bind", "create"} => batch = {}

ListenerOpen ==
  pc \notin {"start", "bind", "cleanup", "exited"} =>
    listen_fd \in Fd /\ fds[listen_fd] = Listen

RInv ==
  /\ TypeOK
  /\ EventsReachTheirClient /\ MapAgrees /\ FilesHeld
  /\ OneEventAsked /\ RegisteredIsOpen
  /\ OneEventEach /\ NeverBoth
  /\ WaitingOnce /\ OnlyOpenHold
  /\ NothingYet /\ ListenerOpen

(* Unless an accept has failed, a waiting connection is known to the loop: *)
(* the listening socket is ready, in the batch or being emptied, whatever  *)
(* arrives between two accepts (server.c:695-701, edge triggering).        *)
InLoop == pc \in {"test", "call", "wait", "batch", "accept"}

ListenerHeard ==
  InLoop /\ backlog # <<>> /\ ~missed
    => ListenReady \/ ListenEvent \in batch \/ pc = "accept"

(* After SIGINT at most one more batch is handled, whenever the signal     *)
(* comes (server.c:74-76, 751-757).                                        *)
StopsSoon == handled <= 1

(* A SIGINT that does not come between the test of running and the wait    *)
(* ends the process without another event (FairSpec).                      *)
Stops == ~running /\ pc \notin {"call", "wait"} ~> pc = "exited"

(* No failed start leaves a directory behind, and no end of the loop that  *)
(* finds a free descriptor (server.c:85-99, 735-746).                      *)
DirectoryRemoved ==
  [][pc' = "exited" /\ temp_dir = "made" /\ FreeFds # {}
       => temp_dir' = "removed"]_vars

(* "Server shutdown removes the temporary files and the temporary          *)
(* directory" (docs/design.md:197).                                        *)
ShutdownRemoves == pc = "exited" => temp_dir # "made"

=============================================================================
