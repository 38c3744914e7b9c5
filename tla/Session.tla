------------------------------ MODULE Session ------------------------------
(***************************************************************************)
(* Clients and server together: FileServer with each of its peers replaced *)
(* by the client of src/client.c.                                          *)
(***************************************************************************)
EXTENDS Client

sessionVars == <<vars, clientVars>>

SessionInit == Init /\ ClientInit

(* A connection is broken by its client only (Departs).                     *)
ServerStep(A) == UNCHANGED <<rst, clientVars>> /\ A

Serves(c) == ServerStep(Dispatch(c))

SessionNext ==
  \/ ServerStep(event_loop_wait)
  \/ ServerStep(accept_connections)
  \/ \E c \in Conn : Serves(c) \/ ClientStep(c)

SessionSpec == SessionInit /\ [][SessionNext]_sessionVars

(* The server's loop runs, and every client and its kernel do what they    *)
(* can.  Nobody is made to start.                                          *)
FairSession ==
  /\ SessionSpec
  /\ WF_sessionVars(ServerStep(event_loop_wait))
  /\ WF_sessionVars(ServerStep(accept_connections))
  /\ \A c \in Conn :
       /\ WF_sessionVars(Serves(c))
       /\ WF_sessionVars(Runs(c))
       /\ WF_sessionVars(Kernel(c))

-----------------------------------------------------------------------------
(***************************************************************************)
(* What the two programs promise together.                                 *)
(***************************************************************************)

ClientTypeOK ==
  /\ phase \in [Conn -> Phase] /\ outcome \in [Conn -> Ending]
  /\ got \in [Conn -> Nat] /\ late \in [Conn -> Nat]
  /\ \A c \in Conn :
       /\ got[c] <= Len(resp[c])
       /\ outcome[c] # "none" <=> phase[c] = "ended"

(* A client says that an upload succeeded only if the server has read all  *)
(* of it, whatever else uses the name and however the connection ends      *)
(* (client.c:205-212, server.c:364-375).                                   *)
SuccessIsRead ==
  \A c \in Conn :
    outcome[c] = "success" /\ req[c].verb = "PUT" => ReadWhole(c)

(* And then it is stored: the name is listed and its file holds exactly    *)
(* the units its size field promised, as long as no other request stores   *)
(* or removes a file of that name (server.c:352-375, 216-220).             *)
SuccessIsStored ==
  \A c \in Conn :
    outcome[c] = "success" /\ req[c].verb = "PUT" /\ Alone(c) => Kept(c)

(* "If the server promises a certain amount of data but sends less or      *)
(* more, the client reports that mismatch" (docs/design.md:253-254): a     *)
(* client takes a download or a list without a word exactly when it is all *)
(* of what was promised (client.c:125-168, 289-317).                       *)
Promised(c) == Len(OkLine) + 2 + resp[c][4][2]

MismatchReported ==
  \A c \in Conn :
    /\ outcome[c] \in {"saved", "listed"} =>
         Len(resp[c]) >= 4 /\ got[c] = Promised(c) /\ Len(resp[c]) = got[c]
    /\ outcome[c] = "too_much" => got[c] > Promised(c)
    /\ outcome[c] = "too_little" /\ got[c] >= 4 => got[c] < Promised(c)

(* No response is lost on its way: a client ends without a whole response  *)
(* only if its upload was refused, or its file was longer than it said     *)
(* when the server had already confirmed it.  (The server closes with      *)
(* bytes unread, and the kernel may then drop what it was sending:         *)
(* server.c:205-226.)                                                      *)
NoAnswerLost ==
  \A c \in Conn :
    outcome[c] \in {"connection_closed", "invalid_response", "killed"} =>
      /\ req[c].verb = "PUT"
      /\ ~SaidOk(c) \/ req[c].len > HeaderLen + SizeLen + req[c].size

(* Every client that connects comes to its end: neither side waits for the *)
(* other for ever, whatever the file's size turns out to be                *)
(* (client.c:104, 194, 233, 266).                                          *)
EveryClientEnds == \A c \in Conn : phase[c] = "sending" ~> phase[c] = "ended"

=============================================================================
