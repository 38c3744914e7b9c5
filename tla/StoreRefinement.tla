-------------------------- MODULE StoreRefinement --------------------------
(***************************************************************************)
(* FileServer as an implementation of FileStore.                           *)
(***************************************************************************)
EXTENDS FileServerInvariant

(* The upload whose descriptor is open on the file of this name.           *)
Writing(n) == \E c \in Conn : FillsFile(c) /\ client[c].file_fd = dir[n]

None          == <<"none">>
Changing      == <<"changing">>
Stored(units) == <<"stored", units>>

Content(n) ==
  IF dir[n] = NoInode THEN None
  ELSE IF Writing(n) THEN Changing
  ELSE Stored(data[dir[n]])

(* An upload is sound if its peer sends as much as it promises.            *)
Sound(r) ==
  ~Malformed(r) /\ (r.verb = "PUT" => r.len = HeaderLen + SizeLen + r.size)

Nothing == [verb |-> "none"]

Asked(c, r) ==
  [verb |-> r.verb, name |-> r.name, sound |-> Sound(r),
   content |-> IF r.verb = "PUT" THEN Stored(BodyUnits(c, 1, r.size)) ELSE None]

(* An answer is given when its status line is chosen, whether or not the   *)
(* socket takes it at once.                                                *)
Says(c, word, state) ==
  client[c].state = state \/ (resp[c] # <<>> /\ resp[c][1][1] = word)

Answer(c) ==
  IF Says(c, "OK", "SEND_OK") THEN "OK"
  ELSE IF Says(c, "ERROR", "SEND_ERROR") THEN "ERROR"
  ELSE "none"

(* A list is fixed when its buffer is built; what is left of that when the *)
(* client is gone is what was sent.                                        *)
NamesIn(units) == {units[k][2] : k \in {i \in 1..Len(units) : units[i][1] = "FILE"}}

ShownNames(c) ==
  IF sock[c] = "open" /\ client[c].state = "SEND_LIST_DATA"
    THEN {NamesIn(client[c].list_buf)}
  ELSE IF sock[c] = "closed" /\ req[c].verb = "LIST" /\ Len(resp[c]) > Len(OkLine)
    THEN {NamesIn(resp[c])}
  ELSE {}

AskedAll  == [c \in Conn |-> IF Made(c) THEN Asked(c, req[c]) ELSE Nothing]
StoreAll  == [n \in Name |-> Content(n)]
AnswerAll == [c \in Conn |-> Answer(c)]
ShownAll  == [c \in Conn |-> ShownNames(c)]

Store ==
  INSTANCE FileStore WITH
    Requests <- [c \in Conn |-> {Asked(c, r) : r \in Requests[c]}],
    OpenFails <- "open" \in Faults,
    asked <- AskedAll,
    store <- StoreAll,
    listed <- Listed(server_files),
    answer <- AnswerAll,
    shown <- ShownAll

(* When the uploads and removals of a name follow one another and are      *)
(* whole, the server is the store: a name's file and its place in the list *)
(* change together, in the step that decides on the answer, downloads of   *)
(* it fail only if it is not there, and a list shows the names of one      *)
(* moment, whatever other connections do between two of its writes         *)
(* (server.c:279-377, 379-417, 468-496, 498-571).                          *)
ImplementsStore == Store!Spec

=============================================================================
