------------------------ MODULE FileServerInvariant ------------------------
(***************************************************************************)
(* The inductive invariant from which FileServerProofs derives the safety  *)
(* properties: what a state of a client_t says about its fields, about the *)
(* position in its stream, and about the files it and the directory name.  *)
(***************************************************************************)
EXTENDS FileServerProperties

Inodes == Conn \cup {NoInode}
Made(c) == sock[c] # "none"          \* req[c] is chosen for good

(* A directory entry leads to a file created under its name.               *)
DirOK(d) ==
  /\ d \in [Name -> Inodes]
  /\ \A n \in Name : d[n] # NoInode => Made(d[n]) /\ req[d[n]].name = n

UnitOK(unit, i, k) ==
  unit = Hole \/ \E w \in Conn : /\ unit = <<w, k>> /\ Made(w)
                                 /\ req[w].name = req[i].name

DataOK(dt) ==
  /\ dt \in [Conn -> Seq(Unit)]
  /\ \A i \in Conn : \A k \in 1..Len(dt[i]) : Made(i) /\ UnitOK(dt[i][k], i, k)

HoldsFile(cl) ==
  \/ cl.state = "RECV_PUT_DATA"
  \/ /\ cl.request_verb = "GET"
     /\ cl.state \in {"SEND_OK", "SEND_GET_SIZE", "SEND_GET_DATA"}

(* The buffers, whatever the state.                                        *)
Base(cl) ==
  /\ cl \in ClientType
  /\ cl.simple_response_sent <= Len(cl.simple_response_buf)
  /\ cl.list_sent <= Len(cl.list_buf)

FileOK(c, cl) ==
  /\ cl.file_fd # NoInode <=> HoldsFile(cl)
  /\ cl.file_fd # NoInode =>
       Made(cl.file_fd) /\ req[cl.file_fd].name = req[c].name

Upload(c, cl) ==
  /\ cl.request_verb = "PUT" /\ req[c].verb = "PUT"
  /\ cl.filename \in Name /\ cl.filename = req[c].name

(* The state of the client fixes how much of the stream has been read.     *)
PositionOK(c, cl, t) ==
  /\ cl.state = "RECV_HEADER" => t = cl.header_len
  /\ cl.state = "RECV_PUT_SIZE" =>
       /\ Upload(c, cl)
       /\ cl.bytes_transferred <= SizeLen
       /\ t = HeaderLen + cl.bytes_transferred
  /\ cl.state = "RECV_PUT_DATA" =>
       /\ Upload(c, cl)
       /\ cl.expected_size = req[c].size
       /\ cl.bytes_transferred <= cl.expected_size
       /\ t = HeaderLen + SizeLen + cl.bytes_transferred
  /\ cl.state = "SEND_OK" =>
       /\ cl.request_verb = req[c].verb
       /\ req[c].verb = "PUT" => t = HeaderLen + SizeLen + req[c].size
  /\ cl.state \in {"SEND_GET_SIZE", "SEND_GET_DATA"} => cl.request_verb = "GET"

Good(c, cl, t) == Base(cl) /\ FileOK(c, cl) /\ PositionOK(c, cl, t)

SocketInv ==
  /\ interest \in [Conn -> {{}, {"READ"}, {"WRITE"}}]
  /\ \A c \in Conn : interest[c] # {} <=> sock[c] = "open"
  /\ NoUseAfterFree

ClientOK(c) ==
  /\ taken[c] <= arrived[c]
  /\ sock[c] = "open" => Good(c, client[c], taken[c])
  /\ sock[c] # "open" => client[c] = client_create
  /\ sock[c] \in {"none", "backlog"} => taken[c] = 0

ClientInv == \A c \in Conn : ClientOK(c)

(* Every step of every handler preserves this: types, the registration of  *)
(* the sockets, the clients' fields (server.c:47-68) and the stored units. *)
IInv == TypeOK /\ SocketInv /\ ClientInv /\ DirOK(dir) /\ DataOK(data)

(***************************************************************************)
(* What the peer of an upload has been told, in each state of its client.  *)
(***************************************************************************)
WholeLen(c) == HeaderLen + SizeLen + req[c].size

ErrorSent(c) ==
  /\ \E m \in Message : client[c].simple_response_buf = ErrorLines(m)
  /\ resp[c] = SubSeq(client[c].simple_response_buf, 1,
                      client[c].simple_response_sent)

(* A write that can be refused only by a full buffer takes something of a  *)
(* response when it is first written.                                      *)
Begun(s) == "eagain" \notin Faults => s # <<>>

(* Before its response an upload has been told nothing and has units to    *)
(* come; an upload that has failed is told of its error and nothing else.  *)
UploadTold(c) ==
  \/ /\ client[c].state \in Receiving
     /\ resp[c] = <<>> /\ taken[c] < WholeLen(c)
  \/ client[c].state = "SEND_OK" /\ Begun(resp[c])
  \/ client[c].state = "SEND_ERROR" /\ ErrorSent(c)

ReplyOK(c) ==
  /\ sock[c] \in {"none", "backlog"} => resp[c] = <<>>
  /\ req[c].verb = "PUT" =>
       /\ sock[c] = "open" => UploadTold(c)
       /\ SaidOk(c) => ReadWhole(c)

ReplyInv == \A c \in Conn : ReplyOK(c)

(***************************************************************************)
(* What every peer has been told, in each state of its client cl: s is the *)
(* response so far.                                                        *)
(***************************************************************************)

(* Unit k of the body of a response: of a download it is a unit of a file  *)
(* of the name asked for, where its sender had it; of a list, a name.      *)
BodyUnitOK(c, unit, k) ==
  \/ req[c].verb = "LIST" /\ unit[1] = "FILE"
  \/ /\ req[c].verb = "GET" /\ unit[1] = "DATA"
     /\ UnitOK(unit[2], c, k)

(* The beginning of OK, the size n, and n units.                           *)
Answers(c, n, s) ==
  /\ Len(s) \in 2..(4 + n)
  /\ s[1] = <<"OK", 1>> /\ s[2] = <<"OK", 2>>
  /\ \A p \in 3..Len(s) :
       IF p <= 4 THEN s[p] = <<"SIZE", n>> ELSE BodyUnitOK(c, s[p], p - 4)

(* A list buffer, whichever files were listed when it was built.           *)
ListBuffer(buf) ==
  /\ Len(buf) >= 2
  /\ \A p \in 1..Len(buf) :
       IF p <= 2 THEN buf[p] = <<"SIZE", Len(buf) - 2>> ELSE buf[p][1] = "FILE"

SentOf(cl, buf, s) ==
  /\ cl.simple_response_buf = buf
  /\ s = SubSeq(buf, 1, cl.simple_response_sent)

Telling(c, cl, s) ==
  /\ cl.state \in Receiving => s = <<>>
  /\ cl.state = "SEND_OK" =>
       /\ SentOf(cl, OkLine, s)
       /\ req[c].verb = "GET" => cl.bytes_transferred = 0
  /\ cl.state = "SEND_ERROR" => \E m \in Message : SentOf(cl, ErrorLines(m), s)
  /\ cl.state = "SEND_GET_SIZE" =>
       /\ req[c].verb = "GET" /\ cl.bytes_transferred = 0
       /\ Answers(c, cl.file_size, s)
       /\ cl.simple_response_buf \in {<<>>, SizeField(cl.file_size)}
       /\ Len(s) = 2 + cl.simple_response_sent
  /\ cl.state = "SEND_GET_DATA" =>
       /\ req[c].verb = "GET" /\ cl.bytes_transferred <= cl.file_size
       /\ Answers(c, cl.file_size, s)
       /\ Len(s) = 4 + cl.bytes_transferred
  /\ cl.state = "SEND_LIST_DATA" =>
       /\ req[c].verb = "LIST" /\ ListBuffer(cl.list_buf)
       /\ Answers(c, Len(cl.list_buf) - 2, s)
       /\ Len(s) = 2 + cl.list_sent
       /\ \A p \in 1..cl.list_sent : s[2 + p] = cl.list_buf[p]

(* What is left of it when the client is gone.                             *)
Told(c, s) ==
  \/ IsPrefix(s, OkLine)
  \/ \E m \in Message : IsPrefix(s, ErrorLines(m))
  \/ /\ Len(s) > 2 /\ req[c].verb \in {"GET", "LIST"}
     /\ Answers(c, s[3][2], s)

AnswerOK(c) ==
  /\ sock[c] \in {"none", "backlog"} => resp[c] = <<>>
  /\ sock[c] = "open" => Telling(c, client[c], resp[c])
  /\ sock[c] = "closed" => Told(c, resp[c])
  /\ "ERROR" \in batch[c] => c \in rst

AnswerInv == \A c \in Conn : AnswerOK(c)

(***************************************************************************)
(* When the loop will come back to a client.                               *)
(***************************************************************************)

(* A client is registered for the event its state waits for, and with edge *)
(* triggering has not read its command line to the end without leaving it. *)
Asking(c) ==
  /\ client[c].state \in Receiving => interest[c] = {"READ"}
  /\ client[c].state \in Sending => interest[c] = {"WRITE"}
  /\ EdgeTriggered /\ client[c].state = "RECV_HEADER"
       => client[c].header_len < HeaderLen

AwakeOK(c) ==
  /\ batch[c] \ {"ERROR"} \subseteq interest[c]
  /\ sock[c] = "open" =>
       /\ Asking(c)
       /\ EdgeTriggered /\ CanGoOn(c) => batch[c] # {} \/ c \in armed

WakeInv == \A c \in Conn : AwakeOK(c)

(* Where no event is lost: a write to a socket with room takes something,  *)
(* and with edge triggering no command line hides its end behind a zero    *)
(* byte.                                                                   *)
WakesAssured ==
  /\ "eagain" \notin Faults
  /\ EdgeTriggered => \A c \in Conn : \A r \in Requests[c] : r.verb # "NUL"

(***************************************************************************)
(* What becomes of an upload's file.                                       *)
(***************************************************************************)

(* The client that would remove a file when it is closed is one of an      *)
(* upload, and the file is of the name it uploads; a client that sends OK  *)
(* has units of it to send.                                                *)
Intends(c, cl) ==
  /\ cl.state = "RECV_HEADER" =>
       cl.request_verb # "PUT" /\ cl.filename = NoName
  /\ cl.request_verb = "PUT" =>
       req[c].verb = "PUT" /\ cl.filename \in {NoName, req[c].name}
  /\ cl.state = "SEND_OK" => cl.simple_response_sent < Len(OkLine)

IntentInv == \A c \in Conn : Intends(c, client[c])

(* The upload of c has its file open, and the file is the one of its name  *)
(* and holds what the server has read.                                     *)
FillsFile(c) == sock[c] = "open" /\ client[c].state = "RECV_PUT_DATA"

Storing(c) ==
  /\ FillsFile(c) /\ dir[req[c].name] = client[c].file_fd
  /\ data[client[c].file_fd] =
       BodyUnits(c, 1, client[c].bytes_transferred)

(* OK is said, or is about to be.                                          *)
Confirming(c) ==
  (sock[c] = "open" /\ client[c].state = "SEND_OK") \/ resp[c] = OkLine

AloneOK(c) ==
  req[c].verb = "PUT" /\ Alone(c) =>
    /\ FillsFile(c) => Storing(c)
    /\ Confirming(c) => Kept(c)

(* A connection that is not made has no request.                           *)
RequestMade == \A c \in Conn : Made(c) \/ req[c] = NoRequest

(* Whatever the others do to files of other names, an upload that no other *)
(* request of its name stores or removes is stored as it is read, and the  *)
(* server keeps it once OK is said (server.c:205-226, 279-377).            *)
AloneInv == IntentInv /\ RequestMade /\ \A c \in Conn : AloneOK(c)

(* What a peer has sent; whom it has waited for.                           *)
PeerOK(c) ==
  /\ IF Made(c) THEN req[c] \in Requests[c] /\ arrived[c] <= req[c].len
                ELSE arrived[c] = 0 /\ c \notin fin
  /\ c \in fin => arrived[c] = req[c].len
  /\ Made(c) => \A p \in After[c] : sock[p] = "closed"

(* Unless its peer breaks it or hides the end of its line, a connection is *)
(* open for its command line until that is read, and then for its answer;  *)
(* it is closed without one only if the line never came to its end.        *)
HeardOut(c) ==
  c \in rst \/ req[c].verb = "NUL" \/
    /\ sock[c] = "open" =>
         (client[c].state = "RECV_HEADER" <=> taken[c] < HeaderLen)
    /\ sock[c] = "closed" =>
         req[c].len < HeaderLen \/ (taken[c] >= HeaderLen /\ Len(resp[c]) >= 2)

EndInv == \A c \in Conn : PeerOK(c) /\ HeardOut(c)

(* Where the uploads of a name follow one another, are sent whole or end   *)
(* before their data, and nobody breaks a connection.                      *)
SentWhole(r) ==
  r.len < HeaderLen + SizeLen \/ r.len = HeaderLen + SizeLen + r.size

Orderly ==
  /\ ~PeersReset /\ "pwrite" \notin Faults
  /\ \A c \in Conn : \A r \in Requests[c] : r.verb = "PUT" =>
       /\ SentWhole(r)
       /\ \A d \in Conn \ {c} : \A q \in Requests[d] :
            q.verb \in {"PUT", "DELETE"} /\ q.name = r.name =>
              d \in After[c] \/ c \in After[d]

(* Then list and directory agree about a name, and about an upload that    *)
(* was read whole, unless a connection is writing its file; and the file   *)
(* it writes is its own.                                                   *)
Settled(n) ==
  /\ n \in Listed(server_files) <=> dir[n] # NoInode
  /\ dir[n] # NoInode =>
       \E c \in Conn : /\ req[c].name = n /\ ReadWhole(c)
                       /\ data[dir[n]] = BodyUnits(c, 1, req[c].size)

StoreOK(n) == Settled(n) \/ \E c \in Conn : req[c].name = n /\ FillsFile(c)

(* The peers that follow one another find every name settled, or being     *)
(* written by the one upload that has its file (server.c:279-377, 470-494).*)
StoreInv ==
  /\ rst = {} /\ \A c \in Conn : PeerOK(c)
  /\ \A c \in Conn : FillsFile(c) => Storing(c)
  /\ \A n \in Name : StoreOK(n)

(***************************************************************************)
(* What a handler leaves behind, once t units of the stream are read: the  *)
(* connection still open with a good client, or closed and forgotten.      *)
(***************************************************************************)
StaysOpenWith(c, t) ==
  /\ sock' = sock
  /\ \/ interest' = interest
     \/ \E e \in {"READ", "WRITE"} : interest' = [interest EXCEPT ![c] = {e}]
  /\ \E cl \in ClientType :
       Good(c, cl, t) /\ client' = [client EXCEPT ![c] = cl]

IsClosed(c) ==
  /\ sock' = [sock EXCEPT ![c] = "closed"]
  /\ interest' = [interest EXCEPT ![c] = {}]
  /\ client' = [client EXCEPT ![c] = client_create]

Leaves(c, t) ==
  (StaysOpenWith(c, t) \/ IsClosed(c)) /\ armed' \subseteq Conn /\ DirOK(dir')

WritesOK ==
  /\ resp \in [Conn -> Seq(RespUnit)]
  /\ full \subseteq Conn /\ rst \subseteq Conn

(* What has been sent is not taken back.                                   *)
Extends(s, t) == Len(s) <= Len(t) /\ \A k \in 1..Len(s) : t[k] = s[k]

WritesOn == WritesOK' /\ \A c \in Conn : Extends(resp[c], resp'[c])

=============================================================================
