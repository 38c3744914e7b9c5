------------------------ MODULE FileServerProperties ------------------------
(***************************************************************************)
(* What the file server promises.  The first group holds whatever the      *)
(* peers do; the second holds when uploads of one name do not overlap and  *)
(* are sent whole; the third states what the documentation says.           *)
(***************************************************************************)
EXTENDS FileServer

-----------------------------------------------------------------------------
(***************************************************************************)
(* Types.                                                                  *)
(***************************************************************************)
RespUnit ==
  ({"OK"} \X {1, 2}) \cup ({"ERROR"} \X {1}) \cup ({"MESSAGE"} \X Message)
    \cup ({"SIZE"} \X Nat) \cup ({"DATA"} \X Unit) \cup ({"FILE"} \X Name)

ClientType ==
  [state : Receiving \cup Sending, request_verb : Verb,
   filename : Name \cup {NoName}, header_len : 0..HeaderLen,
   file_fd : Conn \cup {NoInode}, expected_size : Nat, file_size : Nat,
   bytes_transferred : Nat,
   simple_response_buf : Seq(RespUnit), simple_response_sent : Nat,
   list_buf : Seq(RespUnit), list_sent : Nat]

(* Every variable has its type: a client that is still registered is never *)
(* in state "DONE" (server.c:462-465, 511-514, 541-548), and header_buf    *)
(* never holds more than it has room for (server.c:639-657).               *)
TypeOK ==
  /\ req \in [Conn -> Request]
  /\ sock \in [Conn -> {"none", "backlog", "open", "closed"}]
  /\ arrived \in [Conn -> Nat] /\ taken \in [Conn -> Nat]
  /\ fin \subseteq Conn /\ rst \subseteq Conn /\ full \subseteq Conn
  /\ resp \in [Conn -> Seq(RespUnit)]
  /\ interest \in [Conn -> SUBSET {"READ", "WRITE"}]
  /\ armed \subseteq Conn
  /\ batch \in [Conn -> SUBSET Event]
  /\ client \in [Conn -> ClientType]
  /\ server_files \in Seq(Name)
  /\ dir \in [Name -> Conn \cup {NoInode}]
  /\ data \in [Conn -> Seq(Unit)]

-----------------------------------------------------------------------------
(***************************************************************************)
(* Whatever the peers do.                                                  *)
(***************************************************************************)

(* The loop of main uses a client after a handler has returned only if the *)
(* handler has not freed it (server.c:773-778 reads client->state after    *)
(* handle_read_event): an event never holds READ with WRITE, and every     *)
(* event still to be handled belongs to a connection that is still open.   *)
NoUseAfterFree ==
  \A c \in Conn :
    /\ ~({"READ", "WRITE"} \subseteq batch[c])
    /\ batch[c] # {} => sock[c] = "open" /\ interest[c] # {}

(* A client holds a file descriptor exactly while a handler may still use  *)
(* it: from open to the last byte of an upload, and from open to the end   *)
(* of a download (server.c:308, 339-366, 383-391, 444-464).  Otherwise     *)
(* client_destroy would close a descriptor that is another's by then.      *)
FdDiscipline ==
  \A c \in Conn :
    client[c].file_fd # NoInode <=>
      \/ client[c].state = "RECV_PUT_DATA"
      \/ /\ client[c].request_verb = "GET"
         /\ client[c].state \in {"SEND_OK", "SEND_GET_SIZE", "SEND_GET_DATA"}

(* With edge triggering a socket that is ready and neither reported nor on *)
(* the ready list is never looked at again: no handler may leave one       *)
(* behind (the modify_event_loop calls of server.c:540, 550, 581, 630, and *)
(* the loops of 281, 324, 436 and 639 that read or write to EAGAIN).       *)
CanGoOn(c) ==
  \/ client[c].state \in Receiving /\ Readable(c)
  \/ client[c].state \in Sending /\ Writable(c)

Scheduled(c) ==
  batch[c] # {} \/ (Poll(c) # {} /\ (EdgeTriggered => c \in armed))

NoLostWakeup ==
  \A c \in Conn : sock[c] = "open" /\ CanGoOn(c) => Scheduled(c)

(* What the peer has been sent is always the beginning of one well-formed  *)
(* response to its request, whatever was written short and resumed: an     *)
(* error with its message; or OK; or OK, a size, and no more items than    *)
(* the size says (server.c:402-466, 498-571).                              *)
IsPrefix(s, t) == Len(s) <= Len(t) /\ s = SubSeq(t, 1, Len(s))

AfterSize(s) == SubSeq(s, Len(OkLine) + 3, Len(s))

Sized(s, kind) ==
  /\ Len(s) > 2 /\ IsPrefix(OkLine, s)
  /\ \A k \in 3..Least(4, Len(s)) : s[k] = <<"SIZE", s[3][2]>>
  /\ Len(AfterSize(s)) <= s[3][2]
  /\ \A k \in 1..Len(AfterSize(s)) : AfterSize(s)[k][1] = kind

ResponseFraming ==
  \A c \in Conn :
    \/ IsPrefix(resp[c], OkLine)
    \/ \E m \in Message : IsPrefix(resp[c], ErrorLines(m))
    \/ req[c].verb = "GET" /\ Sized(resp[c], "DATA")
    \/ req[c].verb = "LIST" /\ Sized(resp[c], "FILE")

(* The list names no file twice: remove_file_from_list stops at the first  *)
(* match (server.c:260-275), so a name listed twice would outlive a DELETE *)
(* of it.  Uploads of one name and deletes of it come in any order.        *)
NoDuplicateNames ==
  \A i, j \in 1..Len(server_files) :
    server_files[i] = server_files[j] => i = j

(* An upload that has been read to the end its size field set, no less and *)
(* no more.                                                                *)
ReadWhole(c) ==
  /\ req[c].verb = "PUT"
  /\ taken[c] = HeaderLen + SizeLen + req[c].size

(* A name is listed only if some upload of it was read whole, however the  *)
(* connection that sent it has fared since (server.c:364-375).             *)
ListedWasReceived ==
  \A n \in Listed(server_files) :
    \E c \in Conn : req[c].name = n /\ ReadWhole(c)

(* An upload is answered OK, or is about to be, only if it was read whole: *)
(* nothing that arrives early, late, short or long makes a part of the     *)
(* stream count for another (server.c:279-377).                            *)
SaidOk(c) == resp[c] # <<>> /\ resp[c][1][1] = "OK"

OkMeansWhole ==
  \A c \in Conn :
    req[c].verb = "PUT" /\ (SaidOk(c) \/ client[c].state = "SEND_OK")
      => ReadWhole(c)

(* An upload is confirmed only if, at that moment, nothing has arrived     *)
(* beyond its last unit: the read of one extra byte comes after the data   *)
(* and before the OK, in the same handler (server.c:364-375).              *)
ConfirmedExactly ==
  [][\A c \in Conn :
       req[c].verb = "PUT" /\ ~SaidOk(c) /\ SaidOk(c)'
         => arrived[c] = HeaderLen + SizeLen + req[c].size]_vars

(* Each stored unit stands where its sender had it, in a file of the name  *)
(* its sender gave, whichever uploads of the name overlap, and however the *)
(* file was removed and created again between two of their writes          *)
(* (pwrite at bytes_transferred, server.c:352-361).                        *)
InPlace(unit, name, k) ==
  unit = Hole \/ (req[unit[1]].name = name /\ unit[2] = k)

StoredInPlace ==
  \A i \in Conn : \A k \in 1..Len(data[i]) : InPlace(data[i][k], req[i].name, k)

(* Each unit a download sends stands where it stands in the file, however  *)
(* short the socket's writes were (server.c:441-459).                      *)
SentInPlace ==
  \A c \in Conn :
    req[c].verb = "GET" =>
      \A k \in 1..Len(AfterSize(resp[c])) :
        InPlace(AfterSize(resp[c])[k][2], req[c].name, k)

(* The server ends a connection it has begun to answer only with the last  *)
(* unit of the response, unless the peer broke it, or a download finds its *)
(* file cut shorter than the size it announced (server.c:441-465,          *)
(* 511-514, 532-548).                                                      *)
Complete(c) ==
  \/ \E m \in Message : resp[c] = ErrorLines(m)
  \/ req[c].verb \in {"PUT", "DELETE"} /\ resp[c] = OkLine
  \/ /\ req[c].verb \in {"GET", "LIST"} /\ Len(resp[c]) >= 4
     /\ Len(AfterSize(resp[c])) = resp[c][3][2]

FileWasCut(c) ==
  /\ client[c].state = "SEND_GET_DATA"
  /\ Len(data[client[c].file_fd]) < client[c].file_size

ClosedComplete ==
  [][\A c \in Conn :
       /\ sock[c] = "open" /\ sock'[c] = "closed"
       /\ c \notin rst' /\ resp'[c] # <<>>
       => Complete(c)' \/ FileWasCut(c)]_vars

(* A peer that has sent its whole command line, and stays, has been told   *)
(* OK or its error before the server closes: whatever is wrong with the    *)
(* request, and however late the rest of it or its end comes, no handler   *)
(* gives up on it in silence (server.c:205-226, 528-551, 636-704).         *)
ClosedOnlyAnswered ==
  \A c \in Conn :
    /\ sock[c] = "closed" /\ c \notin rst
    /\ req[c].len >= HeaderLen /\ req[c].verb # "NUL"
    => Len(resp[c]) >= Len(OkLine)

(* Every connection that is made is closed by the server, and every peer   *)
(* whose command line is whole, and which stays, gets a whole response:    *)
(* no request is forgotten between two events, whichever way the loop      *)
(* interleaves the others (FairSpec).                                      *)
Served == \A c \in Conn : sock[c] = "backlog" ~> sock[c] = "closed"

Answered ==
  \A c \in Conn :
    sock[c] = "backlog" /\ req[c].len >= HeaderLen
      ~> c \in rst \/ Complete(c)

-----------------------------------------------------------------------------
(***************************************************************************)
(* When the uploads of a name follow one another, are whole, and nobody    *)
(* breaks a connection.                                                    *)
(***************************************************************************)
Uploading(n) ==
  \E c \in Conn :
    sock[c] = "open" /\ req[c].verb = "PUT" /\ req[c].name = n

(* Between uploads of a name, the name is listed exactly if its file is on *)
(* disk, whatever was deleted and uploaded again (the two are changed      *)
(* apart: server.c:308 and 373, 487 and 492).                              *)
DiskMatchesList ==
  \A n \in Name :
    ~Uploading(n) => (n \in Listed(server_files) <=> dir[n] # NoInode)

(* The upload of c is what the server keeps under its name.                *)
Kept(c) ==
  /\ req[c].name \in Listed(server_files) /\ dir[req[c].name] # NoInode
  /\ data[dir[req[c].name]] = BodyUnits(c, 1, req[c].size)

(* No other request stores or removes a file of its name.                  *)
Alone(c) ==
  \A d \in Conn \ {c} :
    req[d].verb \in {"PUT", "DELETE"} => req[d].name # req[c].name

(* Between uploads of a name, a listed name leads to a file that holds one *)
(* upload of it, from its first unit to its last and nothing of an older   *)
(* one (server.c:308-310, 352, docs/design.md:193).                        *)
StoredIsOneUpload ==
  \A n \in Listed(server_files) :
    ~Uploading(n) /\ dir[n] # NoInode =>
      \E c \in Conn :
        /\ req[c].name = n /\ ReadWhole(c)
        /\ data[dir[n]] = BodyUnits(c, 1, req[c].size)

-----------------------------------------------------------------------------
(***************************************************************************)
(* What the documentation says and the code does not do.                   *)
(***************************************************************************)

(* "Failed uploads are removed so incomplete files are not kept"           *)
(* (docs/design.md:249): a file that no list shows is being uploaded.      *)
FailedUploadsRemoved ==
  \A n \in Name :
    dir[n] # NoInode /\ n \notin Listed(server_files) => Uploading(n)

(* LIST shows "all files currently stored on the server" (README.md:27):   *)
(* a listed file is stored.                                                *)
ListedOnDisk == \A n \in Listed(server_files) : dir[n] # NoInode

(* "Unknown or malformed commands return a bad request error"              *)
(* (docs/design.md:246): once such a command line is read, its peer has    *)
(* been sent the beginning of a response.                                  *)
Malformed(r) == r.verb \notin Verb \/ (r.verb = "LIST") # (r.name = NoName)

MalformedIsRejected ==
  \A c \in Conn :
    Malformed(req[c]) /\ taken[c] >= HeaderLen /\ c \notin rst
      => resp[c] # <<>>

=============================================================================
