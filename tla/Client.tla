------------------------------- MODULE Client -------------------------------
(***************************************************************************)
(* The client of src/client.c, one process per connection: it connects,    *)
(* writes its request, closes its sending side, reads the response unit by *)
(* unit and says what came of it.  Its socket blocks, so it does one thing *)
(* at a time: it reads nothing before its whole request is written.        *)
(*                                                                         *)
(* What it sends and reads are the units of FileServer's streams.  A step  *)
(* that the server can notice is a step of FileServer's peer, Connect,     *)
(* Arrive, Close or Reset, and the rest leave the server as it is.         *)
(***************************************************************************)
EXTENDS FileServerProperties

CONSTANTS
  SendRoom,      \* units a connection holds that the server has not read
  ReadRoom,      \* units it holds that the client has not read
  LocalFaults    \* what may fail for each: "usage", "connect", "open", "malloc"

(* A connection holds at least a whole error response, so that a server    *)
(* that gives up early need not wait for a client that is still writing.   *)
ASSUME RoomAssumption ==
  /\ SendRoom \in Nat \ {0} /\ ReadRoom \in Nat /\ ReadRoom >= 2
  /\ LocalFaults \in [Conn -> SUBSET {"usage", "connect", "open", "malloc"}]

(* A client writes its whole command line; only an upload may end early.   *)
ASSUME CommandsAssumption ==
  \A c \in Conn : \A r \in Requests[c] : r.verb # "PUT" => r.len = HeaderLen

VARIABLES
  phase,         \* where handle_get, _put, _delete or _list is
  got,           \* response units read
  outcome,       \* what was printed, or how the process ended
  late           \* units written after the server had closed

clientVars == <<phase, got, outcome, late>>

Phase == {"start", "sending", "status", "message", "size", "body", "extra",
          "ended"}

(* "saved" and "listed": the response was taken and nothing was reported.  *)
Ending == {"none", "usage", "cannot_connect", "cannot_open", "success",
           "error", "connection_closed", "invalid_response", "too_little",
           "too_much", "saved", "listed", "killed"}

(* A slip: no return after the message is printed.                         *)
ForgetsToReturn(c, what) ==
  outcome' = [outcome EXCEPT ![c] = what] /\ UNCHANGED phase

Ends(c, what) ==
  /\ phase' = [phase EXCEPT ![c] = "ended"]
  /\ outcome' = [outcome EXCEPT ![c] = what]

Goes(c, p) ==
  phase' = [phase EXCEPT ![c] = p] /\ UNCHANGED outcome

-----------------------------------------------------------------------------
(***************************************************************************)
(* The command line: parse_args and check_args.                            *)
(***************************************************************************)
Args == [argc : 1..5, port : BOOLEAN, method : Verb \cup {"UNKNOWN"}]

(* Whether check_args lets main go on: argv[3] is the remote name, argv[4] *)
(* the local one.                                                          *)
check_args(args) ==
  /\ args.argc >= 3 /\ args.port
  /\ \/ args.method = "LIST"
     \/ args.method = "DELETE" /\ args.argc > 3
     \/ args.method \in {"GET", "PUT"} /\ args.argc > 4

(* A command line that asks for nothing ends in the usage text.            *)
Usage(c) ==
  /\ phase[c] = "start" /\ "usage" \in LocalFaults[c]
  /\ \E args \in Args : ~check_args(args)
  /\ Ends(c, "usage")
  /\ UNCHANGED <<vars, got, late>>

connect_fails(c) ==
  /\ phase[c] = "start" /\ "connect" \in LocalFaults[c]
  /\ Ends(c, "cannot_connect")
  /\ UNCHANGED <<vars, got, late>>

(* A request of no units is that of an upload whose local file cannot be   *)
(* opened: the client returns and closes.  A command that is given after   *)
(* others is given when they have returned.                                *)
connect_to_server(c) ==
  /\ phase[c] = "start" /\ \A p \in After[c] : phase[p] = "ended"
  /\ Connect(c)
  /\ \E args \in Args : check_args(args) /\ args.method = req'[c].verb
  /\ IF req'[c].len = 0 THEN Ends(c, "cannot_open") ELSE Goes(c, "sending")
  /\ UNCHANGED <<got, late>>

-----------------------------------------------------------------------------
(***************************************************************************)
(* Writing the request: write_all_to_socket, whose result is not looked    *)
(* at.  A write after the server has closed is taken once; when the reset  *)
(* it causes has come back, a write fails or ends the process (SIGPIPE).   *)
(***************************************************************************)
Broken(c) == sock[c] = "closed" /\ (arrived[c] > taken[c] \/ late[c] > 0)

Unwritten(c) == req[c].len - arrived[c] - late[c]

write_request(c) ==
  /\ phase[c] = "sending"
  /\ Arrive(c)
  /\ arrived'[c] - taken[c] <= SendRoom
  /\ UNCHANGED clientVars

write_after_close(c) ==
  /\ phase[c] = "sending" /\ sock[c] = "closed" /\ ~Broken(c)
  /\ \E n \in 1..Unwritten(c) : late' = [late EXCEPT ![c] = @ + n]
  /\ UNCHANGED <<vars, phase, got, outcome>>

write_fails(c) ==
  /\ phase[c] = "sending" /\ Broken(c) /\ Unwritten(c) > 0
  /\ Ends(c, "killed") \/ Goes(c, "status")
  /\ UNCHANGED <<vars, got, late>>

(* A slip: the sending side is left open.                                  *)
NoShutdown(c) == UNCHANGED vars

shutdown_write(c) == IF sock[c] = "closed" THEN UNCHANGED vars ELSE Close(c)

end_request(c) ==
  /\ phase[c] = "sending" /\ Unwritten(c) = 0
  /\ shutdown_write(c)
  /\ Goes(c, "status")
  /\ UNCHANGED <<got, late>>

-----------------------------------------------------------------------------
(***************************************************************************)
(* Reading the response: read_line_from_socket for the status and the      *)
(* message, read_all_from_socket for the size and the data.                *)
(***************************************************************************)
NextUnit(c) == resp[c][got[c] + 1]       \* the unit that is read

(* A slip: whatever the status line, the request has succeeded.            *)
AlwaysOk(unit) == TRUE

IsOk(unit) == unit[1] = "OK"

read_status(c) ==
  /\ phase[c] = "status"
  /\ \/ ~IsOk(NextUnit(c)) /\ Goes(c, "message")
     \/ IsOk(NextUnit(c)) /\ got[c] = 0 /\ Goes(c, "status")
     \/ /\ IsOk(NextUnit(c)) /\ got[c] = 1
        /\ IF req[c].verb \in {"PUT", "DELETE"} THEN Ends(c, "success")
                                                ELSE Goes(c, "size")

read_message(c) == phase[c] = "message" /\ Ends(c, "error")

(* The size field is complete, and size units of data follow.              *)
StartBody(c, size) ==
  \/ req[c].verb = "GET" /\ Goes(c, IF size > 0 THEN "body" ELSE "extra")
  \/ req[c].verb = "GET" /\ "open" \in LocalFaults[c] /\ Ends(c, "cannot_open")
  \/ req[c].verb = "LIST" /\ size = 0 /\ Ends(c, "listed")
  \/ req[c].verb = "LIST" /\ size > 0 /\ Goes(c, "body")
  \/ /\ req[c].verb = "LIST" /\ size > 0 /\ "malloc" \in LocalFaults[c]
     /\ Ends(c, "cannot_open")

read_size(c) ==
  /\ phase[c] = "size"
  /\ IF got[c] < 3 THEN Goes(c, "size") ELSE StartBody(c, NextUnit(c)[2])

(* A slip: the loop ends one unit early.                                   *)
OneShort(c) == got[c] + 2 >= 4 + resp[c][4][2]

BodyRead(c) == got[c] + 1 = 4 + resp[c][4][2]

read_body(c) ==
  /\ phase[c] = "body"
  /\ Goes(c, IF BodyRead(c) THEN "extra" ELSE "body")

read_extra(c) == phase[c] = "extra" /\ Ends(c, "too_much")

ReadUnit(c) ==
  /\ got[c] < Len(resp[c])
  /\ got' = [got EXCEPT ![c] = @ + 1]
  /\ \/ read_status(c) \/ read_message(c) \/ read_size(c)
     \/ read_body(c) \/ read_extra(c)
  /\ UNCHANGED <<vars, late>>

(* read returns 0 after the last unit, or -1: a reset may take with it     *)
(* what the client had not read.                                           *)
NoMore(c) ==
  \/ phase[c] = "status" /\ Ends(c, "connection_closed")
  \/ phase[c] = "status" /\ got[c] > 0 /\ ~Broken(c) /\ Ends(c, "invalid_response")
  \/ phase[c] = "message" /\ Ends(c, "invalid_response")
  \/ phase[c] \in {"size", "body"} /\ Ends(c, "too_little")
  \/ phase[c] = "extra" /\ Ends(c, IF req[c].verb = "GET" THEN "saved" ELSE "listed")

ReadEnds(c) ==
  /\ sock[c] = "closed" /\ (got[c] = Len(resp[c]) \/ Broken(c))
  /\ NoMore(c)
  /\ UNCHANGED <<vars, got, late>>

-----------------------------------------------------------------------------
(***************************************************************************)
(* The kernel of the client.                                               *)
(***************************************************************************)
(* It takes what the server sends as long as it has room for it.           *)
Takes(c) ==
  /\ phase[c] # "ended" /\ Len(resp[c]) - got[c] < ReadRoom
  /\ Drain(c)
  /\ UNCHANGED clientVars

(* The process has ended and its socket is closed: an upload that sent     *)
(* nothing ends its stream, and data that nobody will read is answered     *)
(* with a reset.                                                           *)
Departs(c) ==
  /\ phase[c] = "ended"
  /\ \/ Close(c)
     \/ Reset(c) /\ c \notin rst /\ got[c] < Len(resp[c])
  /\ UNCHANGED clientVars

ClientInit ==
  /\ phase = [c \in Conn |-> "start"]
  /\ got = [c \in Conn |-> 0]
  /\ outcome = [c \in Conn |-> "none"]
  /\ late = [c \in Conn |-> 0]

Start(c)   == Usage(c) \/ connect_fails(c) \/ connect_to_server(c)
Writes(c)  == write_request(c) \/ write_after_close(c) \/ write_fails(c)
                \/ end_request(c)
Reads(c)   == ReadUnit(c) \/ ReadEnds(c)

Runs(c)    == Writes(c) \/ Reads(c)
Kernel(c)  == Takes(c) \/ Departs(c)

ClientStep(c) == Start(c) \/ Runs(c) \/ Kernel(c)

=============================================================================
