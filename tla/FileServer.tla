----------------------------- MODULE FileServer -----------------------------
(***************************************************************************)
(* The file server of src/server.c: one thread, one event loop, one        *)
(* client_t state machine per connection, a directory of uploaded files    *)
(* and the in-memory list of their names.                                  *)
(*                                                                         *)
(* A handler runs to its end before the loop looks at another event, and   *)
(* its sockets never block, so a handler is one step.  What happens around *)
(* it -- the peers sending, closing, resetting, reading late; other        *)
(* connections' handlers between two calls of this one -- is interleaved   *)
(* with it.  A byte stream is a sequence of units: HeaderLen units of      *)
(* command line, SizeLen units of size field, then body units.             *)
(***************************************************************************)
EXTENDS Integers, Sequences, FiniteSets, Collections, EventLoop

CONSTANTS
  Conn,          \* the connections that ever arrive, one request each
  Name,          \* file names, as stored (after strncpy into filename)
  NoName,        \* no file name in the command line
  NoInode,       \* no file, no open file
  Requests,      \* Requests[c]: what the peer of c may choose to send
  After,         \* After[c]: whose end the peer of c awaits to connect
  HeaderLen,     \* units in a command line, the last one the newline
  SizeLen,       \* units in a size field, sizeof(size_t)
  MaxEvents,     \* MAX_EVENTS, what one wait may report
  PeersReset,    \* whether peers may break a connection (RST)
  Faults         \* system calls that may fail in this instance

Verb == {"LIST", "GET", "PUT", "DELETE"}

(* "UNKNOWN" is any other verb.  "NUL" is a line with a zero byte before   *)
(* its newline, "LONG" one that fills header_buf without a newline.        *)
Request ==
  [verb : Verb \cup {"UNKNOWN", "NUL", "LONG"}, name : Name \cup {NoName},
   size : Nat,     \* the size field of a PUT
   len  : Nat]     \* how many units the peer sends before it closes

(* Nothing after the command line is read unless the command is PUT, so a  *)
(* peer that sends such bytes sends nothing the server tells apart.        *)
ASSUME ConstantsAssumption ==
  /\ Requests \in [Conn -> SUBSET Request]
  /\ \A c \in Conn : \A r \in Requests[c] :
       r.verb # "PUT" => r.len <= HeaderLen
  /\ After \in [Conn -> SUBSET Conn]
  /\ NoName \notin Name
  /\ NoInode \notin Conn
  /\ HeaderLen \in Nat \ {0}
  /\ SizeLen \in Nat \ {0}
  /\ MaxEvents \in Nat \ {0}
  /\ PeersReset \in BOOLEAN
  /\ Faults \subseteq {"open", "pwrite", "eagain"}

VARIABLES
  (* The kernel's side of the sockets, and the peers. *)
  req,           \* the request each peer has chosen
  sock,          \* "none", "backlog", "open" or "closed", per connection
  arrived,       \* units that have reached the server's receive queue
  taken,         \* units the server has read from it
  fin,           \* connections whose peer has closed its sending side
  rst,           \* connections the peer has reset
  full,          \* connections whose send buffer is full
  resp,          \* the response units the server's socket has accepted
  (* The event loop. *)
  interest,      \* registered events, {} when not registered
  armed,         \* epoll's ready list
  batch,         \* what the last event_loop_wait returned, per connection
  (* The server. *)
  client,        \* the client_t of each connection (fd_to_client)
  server_files,  \* the vector of file names
  (* The temporary directory. *)
  dir,           \* directory: the inode of each name
  data           \* inode contents; an inode is named by its creator

peerVars  == <<req, arrived, fin>>
writeVars == <<resp, full, rst>>
diskVars  == <<dir, data>>
vars == <<peerVars, sock, taken, writeVars, interest, armed, batch,
          client, server_files, diskVars>>

-----------------------------------------------------------------------------
(***************************************************************************)
(* Data.                                                                   *)
(***************************************************************************)
Least(m, n) == IF m <= n THEN m ELSE n

(* Body unit k of the upload of c is <<c, k>>.  A hole left by a write     *)
(* beyond the end of a file reads as zeros.                                *)
Hole == <<NoInode, 0>>
Unit == (Conn \X Nat) \cup {Hole}

BodyUnits(c, first, n) == [k \in 1..n |-> <<c, first + k - 1>>]

OkLine        == << <<"OK", 1>>, <<"OK", 2>> >>
ErrorLines(m) == << <<"ERROR", 1>>, <<"MESSAGE", m>> >>
SizeField(n)  == << <<"SIZE", n>>, <<"SIZE", n>> >>
Payload(s)    == [k \in 1..Len(s) |-> <<"DATA", s[k]>>]

Message == {"Bad request", "Bad file size", "No such file"}

(* build_list_buffer: a size field, then the names. *)
build_list_buffer(files) ==
  SizeField(Len(files)) \o [i \in 1..Len(files) |-> <<"FILE", files[i]>>]

(* client_create: calloc, so request_verb is GET, the first of the enum.   *)
client_create ==
  [state |-> "RECV_HEADER", request_verb |-> "GET", filename |-> NoName,
   header_len |-> 0, file_fd |-> NoInode, expected_size |-> 0,
   file_size |-> 0, bytes_transferred |-> 0,
   simple_response_buf |-> <<>>, simple_response_sent |-> 0,
   list_buf |-> <<>>, list_sent |-> 0]

Receiving == {"RECV_HEADER", "RECV_PUT_SIZE", "RECV_PUT_DATA"}
Sending   == {"SEND_OK", "SEND_ERROR", "SEND_GET_SIZE", "SEND_GET_DATA",
              "SEND_LIST_DATA"}

(***************************************************************************)
(* System calls on files.  A path that names no file (an empty filename)   *)
(* makes unlink fail and change nothing.                                   *)
(***************************************************************************)
unlink(d, name) == [n \in Name |-> IF n = name THEN NoInode ELSE d[n]]

(* open(O_WRONLY | O_CREAT | O_TRUNC) by c: the inode it opens, empty.     *)
OpenInode(c, d, name) == IF d[name] = NoInode THEN c ELSE d[name]

(* A slip: O_TRUNC is left out.                                            *)
NotTruncated(dt, i) == dt

Truncated(dt, i) == [dt EXCEPT ![i] = <<>>]

pwrite(s, units, offset) ==
  IF units = <<>> THEN s
  ELSE [k \in 1..(IF Len(s) >= offset + Len(units)
                    THEN Len(s) ELSE offset + Len(units)) |->
          IF k > offset /\ k <= offset + Len(units) THEN units[k - offset]
          ELSE IF k <= Len(s) THEN s[k] ELSE Hole]

(***************************************************************************)
(* The kernel's view of a socket.                                          *)
(***************************************************************************)
Eof(c) == c \in fin \/ c \in rst      \* read returns 0, or -1: both end input
Readable(c) == arrived[c] > taken[c] \/ Eof(c)
Writable(c) == c \notin full \/ c \in rst

Poll(c) == Reported(interest[c], Readable(c), Writable(c), c \in rst)

(* A change of the socket puts it on the ready list when its kind of event *)
(* is asked for; an error always is.                                       *)
Notify(c, event) ==
  armed' = armed \cup
    {x \in {c} : EdgeTriggered /\ interest[c] # {}
                   /\ (event = "ERROR" \/ event \in interest[c])}

-----------------------------------------------------------------------------
(***************************************************************************)
(* How a handler leaves its connection: untouched, waiting for an event,   *)
(* or closed.  cl is the client_t and d the directory as the handler has   *)
(* changed them so far.                                                    *)
(***************************************************************************)
Keep(c, cl, d) ==
  /\ client' = [client EXCEPT ![c] = cl]
  /\ dir' = d
  /\ UNCHANGED <<sock, interest, armed>>

(* EPOLL_CTL_ADD and EPOLL_CTL_MOD look at the socket as it is now.        *)
Rearm(c) ==
  armed' = armed \cup {x \in {c} : EdgeTriggered /\ Poll(c)' # {}}

(* A slip: the new events are asked for on top of the old ones.            *)
AddsInterest(c, events) ==
  /\ interest' = [interest EXCEPT ![c] = @ \cup events]
  /\ Rearm(c)

(* A slip: the call is left out, and the old events stay asked for.        *)
NotModified(c, events) == UNCHANGED <<interest, armed>>

modify_event_loop(c, events) ==
  /\ interest' = [interest EXCEPT ![c] = events]
  /\ Rearm(c)

Watch(c, cl, d, event) ==
  /\ client' = [client EXCEPT ![c] = cl]
  /\ dir' = d
  /\ UNCHANGED sock
  /\ modify_event_loop(c, {event})

(* A slip: every upload's file goes, whatever came of the upload.          *)
RemovesAnyUpload(cl) == cl.request_verb = "PUT"

RemovesUpload(cl) == cl.request_verb = "PUT" /\ cl.state # "DONE"

close_and_cleanup(c, cl, d) ==
  /\ sock' = [sock EXCEPT ![c] = "closed"]
  /\ client' = [client EXCEPT ![c] = client_create]
  /\ dir' = IF RemovesUpload(cl) THEN unlink(d, cl.filename) ELSE d
  /\ interest' = [interest EXCEPT ![c] = {}]
  /\ armed' = armed \ {c}

(***************************************************************************)
(* write() on the socket of c: the socket accepts some of the units, none  *)
(* (EAGAIN), or fails.  A socket that had room accepts something unless    *)
(* the kernel is out of memory ("eagain"); after less than all its buffer  *)
(* is full.  A reset may arrive just before the call.                      *)
(***************************************************************************)
Accepts(left) ==
  IF left = 0 THEN {0}
  ELSE (IF "eagain" \in Faults THEN 0 ELSE 1)..left

Written(c, units, short) ==
  /\ c \notin rst
  /\ resp' = [resp EXCEPT ![c] = @ \o units]
  /\ full' = IF short THEN full \cup {c} ELSE full
  /\ UNCHANGED rst

(* units is what earlier calls of the same handler have sent.              *)
WriteError(c, units) ==
  /\ IF c \in rst THEN units = <<>> ELSE PeersReset
  /\ resp' = [resp EXCEPT ![c] = @ \o units]
  /\ rst' = rst \cup {c}
  /\ UNCHANGED full

NoWrite == UNCHANGED writeVars

(***************************************************************************)
(* The simple response: a status line, and the error message.              *)
(***************************************************************************)
start_send_list(c, cl, d) ==
  Watch(c, [cl EXCEPT !.list_buf = build_list_buffer(server_files),
                      !.list_sent = 0, !.state = "SEND_LIST_DATA"],
        d, "WRITE")

(* A slip: the status line stays in the buffer the size is sent from.      *)
StatusLeftInBuffer(cl) == [cl EXCEPT !.state = "SEND_GET_SIZE"]

ToGetSize(cl) ==
  [cl EXCEPT !.simple_response_buf = <<>>, !.simple_response_sent = 0,
             !.state = "SEND_GET_SIZE"]

execute_simple_response_write(c, cl, d) ==
  LET left == Len(cl.simple_response_buf) - cl.simple_response_sent IN
  \/ WriteError(c, <<>>) /\ close_and_cleanup(c, cl, d)
  \/ \E n \in Accepts(left) :
       LET sent == cl.simple_response_sent + n
           cl1  == [cl EXCEPT !.simple_response_sent = sent] IN
       /\ Written(c, SubSeq(cl.simple_response_buf,
                            cl.simple_response_sent + 1, sent), n < left)
       /\ \/ n = 0 /\ left > 0 /\ Keep(c, cl, d)                 \* EAGAIN
          \/ 0 < n /\ n < left /\ Watch(c, cl1, d, "WRITE")
          \/ /\ n = left /\ cl.state = "SEND_OK"
             /\ cl.request_verb = "LIST"
             /\ start_send_list(c, cl1, d)
          \/ /\ n = left /\ cl.state = "SEND_OK"
             /\ cl.request_verb = "GET"
             /\ Watch(c, ToGetSize(cl1), d, "WRITE")
          \/ /\ n = left
             /\ cl.state = "SEND_ERROR" \/ cl.request_verb \in {"PUT", "DELETE"}
             /\ close_and_cleanup(c, [cl1 EXCEPT !.state = "DONE"], d)

send_ok(c, cl, d) ==       \* prepare_and_send_response(.., "OK", NULL)
  execute_simple_response_write(c,
    [cl EXCEPT !.state = "SEND_OK", !.simple_response_buf = OkLine,
               !.simple_response_sent = 0], d)

send_error(c, cl, msg, d) ==   \* prepare_and_send_response(.., "ERROR", msg)
  execute_simple_response_write(c,
    [cl EXCEPT !.state = "SEND_ERROR", !.simple_response_sent = 0,
               !.simple_response_buf = ErrorLines(msg)], d)

-----------------------------------------------------------------------------
(***************************************************************************)
(* PUT.                                                                    *)
(***************************************************************************)
(* A slip: the descriptor is closed and still remembered.                  *)
StaysOpen(cl) == cl

FileClosed(cl) == [cl EXCEPT !.file_fd = NoInode]

(* A slip: the offset in the stream is used as the offset in the file.     *)
OffsetNotReset(cl) == cl

OffsetReset(cl) == [cl EXCEPT !.bytes_transferred = 0]

(* A slip: whatever has arrived after the data is not looked at.           *)
NothingExtra(c, t) == FALSE

ExtraByte(c, t) == arrived[c] > t

(* A slip: the last unit is not waited for.                                *)
AllButOne(cl) == cl.bytes_transferred + 1 >= cl.expected_size

UploadComplete(cl) == cl.bytes_transferred = cl.expected_size

(* The loop of recv_put_data, with t units of the stream read so far and   *)
(* directory d, contents dt: it reads what has arrived, at most what the   *)
(* size field promised, and writes each chunk at its offset.               *)
recv_put_data(c, cl, d, dt, t) ==
  LET need  == cl.expected_size - cl.bytes_transferred
      k     == Least(arrived[c] - t, need)
      first == t + 1 - HeaderLen - SizeLen
      off   == cl.bytes_transferred
      cl1   == [cl EXCEPT !.bytes_transferred = @ + k]
      Stored(n) == data' = [dt EXCEPT ![cl.file_fd] =
                              pwrite(@, BodyUnits(c, first, n), off)]
  IN
  \/ \E j \in 0..(k - 1) :              \* pwrite stores less than was read
       /\ "pwrite" \in Faults
       /\ taken' = [taken EXCEPT ![c] = t + j + 1]
       /\ Stored(j)
       /\ UNCHANGED server_files
       /\ send_error(c, FileClosed(cl), "Bad file size", d)
  \/ /\ UploadComplete(cl1) /\ ExtraByte(c, t + k)
     /\ taken' = [taken EXCEPT ![c] = t + k + 1]
     /\ Stored(k)
     /\ UNCHANGED server_files
     /\ send_error(c, FileClosed(cl1), "Bad file size", d)
  \/ /\ UploadComplete(cl1) /\ ~ExtraByte(c, t + k)
     /\ taken' = [taken EXCEPT ![c] = t + k]
     /\ Stored(k)
     /\ server_files' = add_file_to_list(server_files, cl.filename)
     /\ send_ok(c, FileClosed(cl1), d)
  \/ /\ ~UploadComplete(cl1)
     /\ taken' = [taken EXCEPT ![c] = t + k]
     /\ Stored(k)
     /\ UNCHANGED server_files
     /\ IF Eof(c)
          THEN send_error(c, FileClosed(cl1), "Bad file size", d)
          ELSE NoWrite /\ Keep(c, cl1, d)

recv_put_size(c) ==
  LET cl   == client[c]
      need == SizeLen - cl.bytes_transferred
      k    == Least(arrived[c] - taken[c], need)
      t    == taken[c] + k
      cl1  == [cl EXCEPT !.bytes_transferred = @ + k]
      cl2  == OffsetReset([cl1 EXCEPT !.expected_size = req[c].size])
  IN
  \/ /\ k < need
     /\ taken' = [taken EXCEPT ![c] = t]
     /\ UNCHANGED <<data, server_files>>
     /\ IF Eof(c) THEN send_error(c, cl1, "Bad file size", dir)
                  ELSE NoWrite /\ Keep(c, cl1, dir)
  \/ /\ k = need
     /\ LET i == OpenInode(c, dir, cl.filename) IN
        recv_put_data(c, [cl2 EXCEPT !.file_fd = i, !.state = "RECV_PUT_DATA"],
                      [dir EXCEPT ![cl.filename] = i],
                      Truncated(data, i), t)
  \/ /\ k = need /\ "open" \in Faults
     /\ taken' = [taken EXCEPT ![c] = t]
     /\ UNCHANGED <<data, server_files>>
     /\ send_error(c, cl2, "Bad file size", dir)

-----------------------------------------------------------------------------
(***************************************************************************)
(* GET, DELETE and LIST.                                                   *)
(***************************************************************************)
start_send_get(c, cl) ==
  \/ /\ dir[cl.filename] # NoInode
     /\ send_ok(c, [cl EXCEPT !.file_fd = dir[cl.filename],
                              !.file_size = Len(data[dir[cl.filename]]),
                              !.bytes_transferred = 0], dir)
  \/ /\ dir[cl.filename] = NoInode \/ "open" \in Faults
     /\ send_error(c, cl, "No such file", dir)

send_get_size(c) ==
  LET cl   == IF client[c].simple_response_buf = <<>>
                THEN [client[c] EXCEPT
                        !.simple_response_buf = SizeField(client[c].file_size),
                        !.simple_response_sent = 0]
                ELSE client[c]
      left == Len(cl.simple_response_buf) - cl.simple_response_sent IN
  \/ WriteError(c, <<>>) /\ close_and_cleanup(c, cl, dir)
  \/ \E n \in Accepts(left) :
       LET sent == cl.simple_response_sent + n IN
       /\ Written(c, SubSeq(cl.simple_response_buf,
                            cl.simple_response_sent + 1, sent), n < left)
       /\ IF n < left
            THEN Keep(c, [cl EXCEPT !.simple_response_sent = sent], dir)
            ELSE Watch(c, [cl EXCEPT !.simple_response_buf = <<>>,
                                     !.simple_response_sent = 0,
                                     !.state = "SEND_GET_DATA"], dir, "WRITE")

(* A slip: a short write is counted as if it had sent all that was read.   *)
CountsRead(cl, sent, read) == cl.bytes_transferred + read

CountsWritten(cl, sent, read) == cl.bytes_transferred + sent

(* The loop of send_get_data.  There are L units between the offset and    *)
(* the end of the file, or of the size it had when it was opened: unless   *)
(* the socket takes only n < L of them or breaks, the loop comes to its    *)
(* end, or to the pread that finds the file has become shorter.            *)
send_get_data(c) ==
  LET cl   == client[c]
      off  == cl.bytes_transferred
      file == data[cl.file_fd]
      L    == IF off >= Len(file) THEN 0
              ELSE Least(Len(file), cl.file_size) - off
      Sent(n) == Payload(SubSeq(file, off + 1, off + n)) IN
  \/ \E n \in 0..(L - 1) :
       WriteError(c, Sent(n)) /\ close_and_cleanup(c, cl, dir)
  \/ \E n \in 0..(L - 1) :
       /\ n \in Accepts(L)
       /\ Written(c, Sent(n), TRUE)
       /\ Keep(c, [cl EXCEPT !.bytes_transferred = CountsWritten(cl, n, L)], dir)
  \/ /\ IF L = 0 THEN NoWrite ELSE Written(c, Sent(L), FALSE)
     /\ close_and_cleanup(c,
          IF off + L = cl.file_size THEN [cl EXCEPT !.state = "DONE"] ELSE cl,
          dir)

delete_request(c, cl) ==
  \/ /\ cl.filename \in Listed(server_files)
     /\ dir[cl.filename] # NoInode
     /\ server_files' = remove_file_from_list(server_files, cl.filename)
     /\ send_ok(c, cl, unlink(dir, cl.filename))
  \/ /\ \/ cl.filename \notin Listed(server_files)
        \/ dir[cl.filename] = NoInode
     /\ UNCHANGED server_files
     /\ send_error(c, cl, "No such file", dir)

send_list_data(c) ==
  LET cl   == client[c]
      left == Len(cl.list_buf) - cl.list_sent IN
  \/ WriteError(c, <<>>) /\ close_and_cleanup(c, cl, dir)
  \/ \E n \in Accepts(left) :
       LET cl1 == [cl EXCEPT !.list_sent = @ + n] IN
       /\ Written(c, SubSeq(cl.list_buf, cl.list_sent + 1, cl.list_sent + n),
                  n < left)
       /\ IF n < left THEN Keep(c, cl1, dir)
          ELSE close_and_cleanup(c, [cl1 EXCEPT !.state = "DONE"], dir)

-----------------------------------------------------------------------------
(***************************************************************************)
(* The command line.                                                       *)
(***************************************************************************)
parse_header_and_transition(c, cl) ==
  LET r      == req[c]
      named  == [cl EXCEPT !.request_verb = r.verb, !.filename = r.name]
      Reject == /\ UNCHANGED server_files
                /\ send_error(c, IF r.verb \in Verb
                                   THEN [cl EXCEPT !.request_verb = r.verb]
                                   ELSE cl, "Bad request", dir) IN
  /\ UNCHANGED data
  /\ \/ r.verb = "NUL" /\ UNCHANGED server_files /\ NoWrite /\ Keep(c, cl, dir)
     \/ r.verb = "UNKNOWN" /\ Reject
     \/ r.verb = "LIST" /\ r.name # NoName /\ Reject
     \/ r.verb \in {"GET", "PUT", "DELETE"} /\ r.name = NoName /\ Reject
     \/ /\ r.verb = "LIST" /\ r.name = NoName
        /\ UNCHANGED server_files
        /\ send_ok(c, [cl EXCEPT !.request_verb = "LIST"], dir)
     \/ /\ r.verb = "DELETE" /\ r.name # NoName
        /\ delete_request(c, named)
     \/ /\ r.verb = "GET" /\ r.name # NoName
        /\ UNCHANGED server_files
        /\ start_send_get(c, named)
     \/ /\ r.verb = "PUT" /\ r.name # NoName
        /\ UNCHANGED server_files
        /\ NoWrite
        /\ Watch(c, [named EXCEPT !.bytes_transferred = 0,
                                  !.state = "RECV_PUT_SIZE"], dir, "READ")

(* A slip: the loop reads on after the newline.                            *)
ReadsPastNewline(c) == arrived[c] - taken[c]

HeaderUnits(c) == Least(arrived[c] - taken[c], HeaderLen - client[c].header_len)

(* handle_read_event in STATE_RECV_HEADER: a byte at a time up to the      *)
(* newline, the end of header_buf, or the end of what has arrived.         *)
read_header(c) ==
  LET k    == HeaderUnits(c)
      cl   == [client[c] EXCEPT !.header_len = @ + k]
      line == k > 0 /\ cl.header_len = HeaderLen IN
  /\ taken' = [taken EXCEPT ![c] = @ + k]
  /\ \/ /\ line /\ req[c].verb # "LONG"
        /\ parse_header_and_transition(c, cl)
     \/ /\ line /\ req[c].verb = "LONG"
        /\ UNCHANGED <<data, server_files>>
        /\ send_error(c, cl, "Bad request", dir)
     \/ /\ ~line
        /\ UNCHANGED <<data, server_files>>
        /\ NoWrite
        /\ IF Eof(c) THEN close_and_cleanup(c, cl, dir) ELSE Keep(c, cl, dir)

NothingToDo(c) ==
  /\ UNCHANGED <<taken, data, server_files>>
  /\ NoWrite
  /\ Keep(c, client[c], dir)

handle_read_event(c) ==
  LET state == client[c].state IN
  \/ state = "RECV_HEADER" /\ read_header(c)
  \/ state = "RECV_PUT_SIZE" /\ recv_put_size(c)
  \/ state = "RECV_PUT_DATA" /\ recv_put_data(c, client[c], dir, data, taken[c])
  \/ state \in Sending /\ NothingToDo(c)

handle_write_event(c) ==
  LET state == client[c].state IN
  /\ UNCHANGED <<taken, data, server_files>>
  /\ \/ /\ state \in {"SEND_OK", "SEND_ERROR"}
        /\ execute_simple_response_write(c, client[c], dir)
     \/ state = "SEND_LIST_DATA" /\ send_list_data(c)
     \/ state = "SEND_GET_SIZE" /\ send_get_size(c)
     \/ state = "SEND_GET_DATA" /\ send_get_data(c)

-----------------------------------------------------------------------------
(***************************************************************************)
(* The event loop of main.  An event is handled in up to two steps, its    *)
(* readable part first: the events of one socket never hold both, so       *)
(* nothing is lost by letting other events come between them.              *)
(***************************************************************************)
HandleError(c) ==
  /\ "ERROR" \in batch[c]
  /\ batch' = [batch EXCEPT ![c] = {}]
  /\ UNCHANGED <<peerVars, taken, data, server_files>>
  /\ NoWrite
  /\ close_and_cleanup(c, client[c], dir)

HandleRead(c) ==
  /\ "READ" \in batch[c] /\ "ERROR" \notin batch[c]
  /\ batch' = [batch EXCEPT ![c] = @ \ {"READ"}]
  /\ UNCHANGED peerVars
  /\ handle_read_event(c)

HandleWrite(c) ==
  /\ batch[c] = {"WRITE"}
  /\ batch' = [batch EXCEPT ![c] = {}]
  /\ UNCHANGED peerVars
  /\ handle_write_event(c)

Candidates ==
  {c \in Conn : Poll(c) # {} /\ (EdgeTriggered => c \in armed)}

event_loop_wait ==
  /\ \A c \in Conn : batch[c] = {}
  /\ Candidates # {}
  /\ \E S \in SUBSET Candidates :
       /\ Cardinality(S) = Least(MaxEvents, Cardinality(Candidates))
       /\ batch' = [c \in Conn |-> IF c \in S THEN Poll(c) ELSE {}]
       /\ armed' = armed \ S
  /\ UNCHANGED <<peerVars, sock, taken, writeVars, interest, client,
                 server_files, diskVars>>

(* The loop of accept_connections empties the backlog, client by client.   *)
accept_connections ==
  LET S == {c \in Conn : sock[c] = "backlog"} IN
  /\ S # {}
  /\ sock' = [c \in Conn |-> IF c \in S THEN "open" ELSE sock[c]]
  /\ interest' = [c \in Conn |-> IF c \in S THEN {"READ"} ELSE interest[c]]
  /\ client' = [c \in Conn |-> IF c \in S THEN client_create ELSE client[c]]
  /\ UNCHANGED <<peerVars, taken, writeVars, batch, server_files, diskVars>>
  /\ armed' = armed \cup {c \in S : EdgeTriggered /\ Poll(c)' # {}}

-----------------------------------------------------------------------------
(***************************************************************************)
(* The peers and the network.                                              *)
(***************************************************************************)
Connect(c) ==
  /\ sock[c] = "none" /\ \A p \in After[c] : sock[p] = "closed"
  /\ sock' = [sock EXCEPT ![c] = "backlog"]
  /\ \E r \in Requests[c] : req' = [req EXCEPT ![c] = r]
  /\ UNCHANGED <<arrived, fin, taken, writeVars, interest, armed, batch,
                 client, server_files, diskVars>>

Connected(c) == sock[c] \in {"backlog", "open"} /\ c \notin rst

Arrive(c) ==
  /\ Connected(c)
  /\ \E n \in 1..(req[c].len - arrived[c]) :
       arrived' = [arrived EXCEPT ![c] = @ + n]
  /\ Notify(c, "READ")
  /\ UNCHANGED <<req, sock, fin, taken, writeVars, interest, batch, client,
                 server_files, diskVars>>

Close(c) ==
  /\ Connected(c) /\ c \notin fin
  /\ arrived[c] = req[c].len
  /\ fin' = fin \cup {c}
  /\ Notify(c, "READ")
  /\ UNCHANGED <<req, sock, arrived, taken, writeVars, interest, batch,
                 client, server_files, diskVars>>

Reset(c) ==
  /\ PeersReset
  /\ Connected(c)
  /\ rst' = rst \cup {c}
  /\ Notify(c, "ERROR")
  /\ UNCHANGED <<peerVars, sock, taken, resp, full, interest, batch, client,
                 server_files, diskVars>>

Drain(c) ==
  /\ Connected(c) /\ c \in full
  /\ full' = full \ {c}
  /\ Notify(c, "WRITE")
  /\ UNCHANGED <<peerVars, sock, taken, resp, rst, interest, batch, client,
                 server_files, diskVars>>

-----------------------------------------------------------------------------
NoRequest == [verb |-> "UNKNOWN", name |-> NoName, size |-> 0, len |-> 0]

Init ==
  /\ req = [c \in Conn |-> NoRequest]
  /\ sock = [c \in Conn |-> "none"]
  /\ arrived = [c \in Conn |-> 0]
  /\ taken = [c \in Conn |-> 0]
  /\ fin = {} /\ rst = {} /\ full = {}
  /\ resp = [c \in Conn |-> <<>>]
  /\ interest = [c \in Conn |-> {}]
  /\ armed = {}
  /\ batch = [c \in Conn |-> {}]
  /\ client = [c \in Conn |-> client_create]
  /\ server_files = <<>>
  /\ dir = [n \in Name |-> NoInode]
  /\ data = [c \in Conn |-> <<>>]

Dispatch(c) == HandleError(c) \/ HandleRead(c) \/ HandleWrite(c)

Peer(c) == Connect(c) \/ Arrive(c) \/ Close(c) \/ Reset(c) \/ Drain(c)

(* Every peer has been served; the server waits for ever.                  *)
Idle == (\A c \in Conn : sock[c] = "closed") /\ UNCHANGED vars

Next ==
  \/ event_loop_wait
  \/ accept_connections
  \/ \E c \in Conn : Dispatch(c) \/ Peer(c)
  \/ Idle

Spec == Init /\ [][Next]_vars

(* The loop keeps running and handles what it was given; a peer sends what *)
(* it set out to send, closes, and reads what it is sent.  Resets are not  *)
(* fair, nor is any one outcome of a write.                                *)
FairSpec ==
  /\ Spec
  /\ WF_vars(event_loop_wait) /\ WF_vars(accept_connections)
  /\ \A c \in Conn :
       /\ WF_vars(Dispatch(c))
       /\ WF_vars(Connect(c)) /\ WF_vars(Arrive(c)) /\ WF_vars(Close(c))
       /\ WF_vars(Drain(c))

=============================================================================
