---------------------------- MODULE MCFileServer ----------------------------
(***************************************************************************)
(* Instances of the file server for TLC: the connections, and what the     *)
(* peer of each may choose to send.                                        *)
(***************************************************************************)
EXTENDS StoreRefinement

CONSTANTS c1, c2, c3, c4, a, b

Whole == HeaderLen + SizeLen

Put(name, size, sent) ==
  [verb |-> "PUT", name |-> name, size |-> size, len |-> Whole + sent]
Cmd(verb, name) ==
  [verb |-> verb, name |-> name, size |-> 0, len |-> HeaderLen]
Cut(request, len) == [request EXCEPT !.len = len]

NoWaiting == [c \in Conn |-> {}]

(* Two uploads of one name at once: whole, short, long, empty, cut in the  *)
(* command line or the size field.                                         *)
TwoUploads ==
  [c \in Conn |->
     IF c = c1 THEN {Put(a, 2, 2), Put(a, 2, 1)}
     ELSE {Put(a, 1, 1), Put(a, 1, 2), Put(a, 0, 0),
           Cut(Put(a, 1, 1), HeaderLen), Cut(Put(a, 1, 1), HeaderLen - 1)}]

(* An upload, a download and a removal of one name, or a list; or a line   *)
(* with a zero byte.                                                       *)
UploadAndUse ==
  [c \in Conn |->
     CASE c = c1 -> {Put(a, 2, 2)}
       [] c = c2 -> {Cmd("GET", a), Cmd("LIST", NoName)}
       [] c = c3 -> {Cmd("DELETE", a), Put(a, 1, 1), Cmd("NUL", NoName)}]

(* One user's uploads and removals of a name follow one another, while     *)
(* another user lists and downloads.                                       *)
InTurn ==
  [c \in Conn |->
     CASE c = c1 -> {Put(a, 2, 2)}
       [] c = c2 -> {Put(a, 1, 1), Cmd("DELETE", a)}
       [] c = c3 -> {Put(a, 0, 0), Cut(Put(a, 1, 1), HeaderLen),
                     Put(b, 1, 1), Cmd("LIST", a)}
       [] c = c4 -> {Cmd("LIST", NoName), Cmd("GET", a)}]

OneAfterAnother ==
  [c \in Conn |-> CASE c = c2 -> {c1} [] c = c3 -> {c1, c2} [] OTHER -> {}]

(* Every kind of command line, well formed or not.                         *)
AllCommands ==
  [c \in Conn |->
     IF c = c1 THEN {Put(a, 1, 1), Put(a, 1, 2)}
     ELSE {Cmd("GET", a), Cmd("GET", b), Cmd("DELETE", a), Cmd("LIST", NoName),
           Cmd("LIST", a), Cmd("GET", NoName), Cmd("PUT", NoName),
           Cmd("UNKNOWN", NoName), Cmd("LONG", NoName),
           Cut(Cmd("GET", a), HeaderLen - 1)}]

(* Counterexamples.                                                        *)
OneShortUpload == [c \in Conn |-> {Put(a, 2, 1)}]
OneUpload      == [c \in Conn |-> {Put(a, 1, 1)}]
OneNulLine     == [c \in Conn |-> {Cmd("NUL", NoName)}]

=============================================================================
