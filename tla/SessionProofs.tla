--------------------------- MODULE SessionProofs ---------------------------
(***************************************************************************)
(* Proofs about clients and server together: the clients are peers as      *)
(* FileServer has them, so whatever is proved of the server holds with     *)
(* them; a client reports success only for an upload that was read whole,  *)
(* and that is stored if it alone uses the name; it reports a response     *)
(* that is shorter or longer than its size field says; and it ends without *)
(* an answer only where its upload may have been refused.                  *)
(***************************************************************************)
EXTENDS Session, FileServerStore

-----------------------------------------------------------------------------
(***************************************************************************)
(* Each step of the session is a step of the server or of one of its       *)
(* peers, or leaves the server as it is.                                   *)
(***************************************************************************)
LEMMA ClientRefines ==
  ASSUME NEW c \in Conn, ClientStep(c)
  PROVE  \/ UNCHANGED vars
         \/ Arrive(c) \/ Close(c) \/ Reset(c) \/ Drain(c)
         \/ Connect(c) /\ connect_to_server(c)
<1>1. CASE Start(c)
  BY <1>1 DEF Start, Usage, connect_fails, connect_to_server
<1>2. CASE Writes(c)
  BY <1>2 DEF Writes, write_request, write_after_close, write_fails, end_request,
              shutdown_write
<1>3. CASE Reads(c)
  BY <1>3 DEF Reads, ReadUnit, ReadEnds
<1>4. CASE Kernel(c)
  BY <1>4 DEF Kernel, Takes, Departs
<1> QED
  BY <1>1, <1>2, <1>3, <1>4 DEF ClientStep, Runs

LEMMA StepRefines ==
  ASSUME [SessionNext]_sessionVars
  PROVE  [Next]_vars
<1>1. CASE ServerStep(event_loop_wait) \/ ServerStep(accept_connections)
  BY <1>1 DEF ServerStep, Next
<1>2. ASSUME NEW c \in Conn, Serves(c) PROVE [Next]_vars
  BY <1>2 DEF Serves, ServerStep, Next
<1>3. ASSUME NEW c \in Conn, ClientStep(c) PROVE [Next]_vars
  BY <1>3, ClientRefines DEF Next, Peer
<1>4. CASE UNCHANGED sessionVars
  BY <1>4 DEF sessionVars
<1> QED
  BY <1>1, <1>2, <1>3, <1>4 DEF SessionNext

(* The clients are peers of the server: server and clients together do     *)
(* nothing that FileServer does not allow (client.c:78-317, server.c).     *)
THEOREM ClientsArePeers == SessionSpec => Spec
<1>1. SessionInit => Init
  BY DEF SessionInit
<1>2. [SessionNext]_sessionVars => [Next]_vars
  BY StepRefines
<1> QED
  BY <1>1, <1>2, PTL DEF SessionSpec, Spec

-----------------------------------------------------------------------------
(***************************************************************************)
(* What a client has seen of the answer to its upload.                     *)
(***************************************************************************)
ClientTypes ==
  /\ phase \in [Conn -> Phase] /\ outcome \in [Conn -> Ending]
  /\ got \in [Conn -> Nat]

Saw(c) ==
  /\ phase[c] \in {"start", "sending"} => got[c] = 0
  /\ phase[c] = "start" => outcome[c] = "none"
  /\ req[c].verb = "PUT" =>
       /\ phase[c] = "status" /\ got[c] > 0 => ReadWhole(c)
       /\ outcome[c] = "success" => ReadWhole(c)

ClientsSaw == ClientTypes /\ \A c \in Conn : Saw(c)

ServerKnown == IInv /\ ReplyInv

(* A connection whose client does nothing.                                 *)
LEMMA OthersSaw ==
  ASSUME ServerKnown, ClientsSaw, [Next]_vars, NEW c \in Conn,
         phase'[c] = phase[c], got'[c] = got[c], outcome'[c] = outcome[c],
         req'[c] = req[c]
  PROVE  Saw(c)'
<1>1. ReadWhole(c) => ReadWhole(c)'
  <2>1. Typed
    BY DEF ServerKnown, IInv, TypeOK, Typed
  <2> QED
    BY <2>1, WholeStays DEF ServerKnown
<1> QED
  BY <1>1 DEF ClientsSaw, Saw

LEMMA IdleClients ==
  ASSUME ServerKnown, ClientsSaw, [Next]_vars, UNCHANGED clientVars, req' = req
  PROVE  ClientsSaw'
<1>1. phase' = phase /\ got' = got /\ outcome' = outcome
  BY DEF clientVars
<1>2. \A c \in Conn : Saw(c)'
  BY <1>1, OthersSaw
<1> QED
  BY <1>1, <1>2 DEF ClientsSaw, ClientTypes

(* A client that moves on to p, having read n units and said what.         *)
LEMMA Moves ==
  ASSUME ServerKnown, ClientsSaw, [Next]_vars, NEW c \in Conn,
         \A d \in Conn : d # c => req'[d] = req[d],
         NEW p \in Phase, NEW n \in Nat, NEW what \in Ending,
         phase' = [phase EXCEPT ![c] = p], got' = [got EXCEPT ![c] = n],
         outcome' = [outcome EXCEPT ![c] = what],
         p # "start", p = "sending" => n = 0,
         req'[c].verb = "PUT" /\ ((p = "status" /\ n > 0) \/ what = "success")
           => ReadWhole(c)'
  PROVE  ClientsSaw'
<1>1. ClientTypes'
  BY DEF ClientsSaw, ClientTypes
<1>2. phase'[c] = p /\ got'[c] = n /\ outcome'[c] = what
  BY DEF ClientsSaw, ClientTypes
<1>3. Saw(c)'
  BY <1>2 DEF Saw
<1>4. ASSUME NEW d \in Conn, d # c PROVE Saw(d)'
  <2>1. phase'[d] = phase[d] /\ got'[d] = got[d] /\ outcome'[d] = outcome[d]
    BY <1>4 DEF ClientsSaw, ClientTypes
  <2> QED
    BY <1>4, <2>1, OthersSaw
<1> QED
  BY <1>1, <1>3, <1>4 DEF ClientsSaw

LEMMA StartSaw ==
  ASSUME ServerKnown, ClientsSaw, [Next]_vars, NEW c \in Conn, Start(c)
  PROVE  ClientsSaw'
<1>1. /\ phase \in [Conn -> Phase] /\ got \in [Conn -> Nat]
      /\ outcome \in [Conn -> Ending]
  BY DEF ClientsSaw, ClientTypes
<1>2. phase[c] = "start" /\ got' = got /\ got[c] = 0 /\ outcome[c] = "none"
  BY DEF Start, Usage, connect_fails, connect_to_server, ClientsSaw, Saw
<1>3. got' = [got EXCEPT ![c] = 0]
  BY <1>1, <1>2
<1>4. ASSUME NEW what \in {"usage", "cannot_connect"}, Ends(c, what), req' = req
      PROVE  ClientsSaw'
  BY <1>1, <1>3, <1>4, Moves DEF Ends, Phase, Ending
<1>5. CASE Usage(c) \/ connect_fails(c)
  BY <1>4, <1>5 DEF Usage, connect_fails, vars, peerVars
<1>6. CASE connect_to_server(c)
  <2>1. \A d \in Conn : d # c => req'[d] = req[d]
    BY <1>6 DEF connect_to_server, Connect, ServerKnown, IInv, TypeOK
  <2>2. CASE Ends(c, "cannot_open")
    BY <1>1, <1>3, <2>1, <2>2, Moves DEF Ends, Phase, Ending
  <2>3. CASE Goes(c, "sending")
    <3>1. outcome' = [outcome EXCEPT ![c] = "none"]
      BY <1>1, <1>2, <2>3 DEF Goes
    <3> QED
      BY <1>1, <1>3, <2>1, <2>3, <3>1, Moves DEF Goes, Phase, Ending
  <2> QED
    BY <1>6, <2>2, <2>3 DEF connect_to_server
<1> QED
  BY <1>5, <1>6 DEF Start

LEMMA WritesSaw ==
  ASSUME ServerKnown, ClientsSaw, [Next]_vars, NEW c \in Conn, Writes(c)
  PROVE  ClientsSaw'
<1>1. /\ phase \in [Conn -> Phase] /\ got \in [Conn -> Nat]
      /\ outcome \in [Conn -> Ending]
  BY DEF ClientsSaw, ClientTypes
<1>2. /\ phase[c] = "sending" /\ got' = got /\ got[c] = 0 /\ req' = req
      /\ req[c].verb = "PUT" /\ outcome[c] = "success" => ReadWhole(c)
  BY DEF Writes, write_request, write_after_close, write_fails, end_request,
         shutdown_write, Arrive, Close, vars, peerVars, clientVars, ClientsSaw, Saw
<1>3. got' = [got EXCEPT ![c] = 0]
  BY <1>1, <1>2
<1>4. CASE write_request(c) \/ write_after_close(c)
  <2>1. phase' = phase /\ outcome' = outcome
    BY <1>4 DEF write_request, write_after_close, clientVars
  <2>2. \A d \in Conn : Saw(d)'
    BY <1>2, <2>1, OthersSaw
  <2> QED
    BY <1>2, <2>1, <2>2 DEF ClientsSaw, ClientTypes
<1>5. CASE Ends(c, "killed")
  BY <1>1, <1>2, <1>3, <1>5, Moves DEF Ends, Phase, Ending
<1>6. CASE Goes(c, "status")
  <2>1. outcome' = [outcome EXCEPT ![c] = outcome[c]] /\ outcome[c] \in Ending
    BY <1>1, <1>6 DEF Goes
  <2>2. ReadWhole(c) => ReadWhole(c)'
    <3>1. Typed
      BY DEF ServerKnown, IInv, TypeOK, Typed
    <3> QED
      BY <3>1, WholeStays DEF ServerKnown
  <2>3. phase' = [phase EXCEPT ![c] = "status"] /\ "status" \in Phase
    BY <1>6 DEF Goes, Phase
  <2>4. /\ "status" # "start" /\ "status" # "sending" /\ 0 \in Nat /\ ~(0 > 0)
        /\ req'[c].verb = "PUT" /\ outcome[c] = "success" => ReadWhole(c)'
    BY <1>2, <2>2
  <2> QED
    BY <1>2, <1>3, <2>1, <2>3, <2>4, Moves
<1> QED
  BY <1>4, <1>5, <1>6 DEF Writes, write_fails, end_request

(* An answer that begins with OK is one to an upload that was read whole.  *)
LEMMA OkSeen ==
  ASSUME ServerKnown, ClientsSaw, NEW c \in Conn, got[c] < Len(resp[c]),
         phase[c] = "status", IsOk(NextUnit(c)), req[c].verb = "PUT"
  PROVE  ReadWhole(c)
<1>1. CASE got[c] > 0
  BY <1>1 DEF ClientsSaw, Saw
<1>2. CASE got[c] = 0
  <2>1. resp[c] \in Seq(RespUnit) /\ resp[c] # <<>>
    BY <1>2 DEF ServerKnown, IInv, TypeOK
  <2>2. SaidOk(c)
    BY <1>2, <2>1 DEF SaidOk, IsOk, NextUnit
  <2> QED
    BY <2>2 DEF ServerKnown, ReplyInv, ReplyOK
<1>3. got[c] \in Nat
  BY DEF ClientsSaw, ClientTypes
<1> QED
  BY <1>1, <1>2, <1>3

LEMMA ReadsSaw ==
  ASSUME ServerKnown, ClientsSaw, [Next]_vars, NEW c \in Conn, Reads(c)
  PROVE  ClientsSaw'
<1>1. /\ phase \in [Conn -> Phase] /\ got \in [Conn -> Nat]
      /\ outcome \in [Conn -> Ending] /\ got[c] + 1 \in Nat
  BY DEF ClientsSaw, ClientTypes
<1>2. UNCHANGED vars /\ req' = req
  BY DEF Reads, ReadUnit, ReadEnds, vars, peerVars
<1>3. ReadWhole(c)' <=> ReadWhole(c)
  BY <1>2 DEF vars, peerVars, ReadWhole
<1>4. req[c].verb = "PUT" /\ outcome[c] = "success" => ReadWhole(c)
  BY DEF ClientsSaw, Saw
<1>5. ASSUME NEW n \in Nat, got' = [got EXCEPT ![c] = n],
             NEW what \in Ending \ {"success"}, Ends(c, what)
      PROVE  ClientsSaw'
  BY <1>1, <1>2, <1>5, Moves DEF Ends, Phase
<1>6. ASSUME NEW n \in Nat, got' = [got EXCEPT ![c] = n],
             NEW p \in {"status", "message", "size", "body", "extra"}, Goes(c, p),
             req[c].verb = "PUT" /\ p = "status" => ReadWhole(c)
      PROVE  ClientsSaw'
  <2>1. outcome' = [outcome EXCEPT ![c] = outcome[c]] /\ outcome[c] \in Ending
    BY <1>1, <1>6 DEF Goes
  <2>2. p \in Phase /\ p # "start" /\ p # "sending"
    BY DEF Phase
  <2> QED
    BY <1>1, <1>2, <1>3, <1>4, <1>6, <2>1, <2>2, Moves DEF Goes
<1>7. CASE ReadUnit(c)
  <2>1. got[c] < Len(resp[c]) /\ got' = [got EXCEPT ![c] = got[c] + 1]
    BY <1>1, <1>7 DEF ReadUnit
  <2>2. CASE read_status(c)
    <3>1. CASE Goes(c, "message")
      BY <1>1, <1>6, <2>1, <3>1
    <3>2. CASE IsOk(NextUnit(c)) /\ Goes(c, "status")
      BY <1>1, <1>6, <2>1, <2>2, <3>2, OkSeen DEF read_status
    <3>3. CASE /\ IsOk(NextUnit(c)) /\ req[c].verb \in {"PUT", "DELETE"}
               /\ Ends(c, "success")
      <4>1. req[c].verb = "PUT" => ReadWhole(c)
        BY <2>1, <2>2, <3>3, OkSeen DEF read_status
      <4> QED
        BY <1>1, <1>2, <1>3, <2>1, <3>3, <4>1, Moves DEF Ends, Phase, Ending
    <3>4. CASE Goes(c, "size")
      BY <1>1, <1>6, <2>1, <3>4
    <3> QED
      BY <2>2, <3>1, <3>2, <3>3, <3>4 DEF read_status
  <2>3. CASE read_message(c) \/ read_extra(c)
    BY <1>1, <1>5, <2>1, <2>3 DEF read_message, read_extra, Ending
  <2>4. CASE read_size(c)
    <3>1. CASE Goes(c, "size") \/ Goes(c, "body") \/ Goes(c, "extra")
      BY <1>1, <1>6, <2>1, <3>1
    <3>2. CASE Ends(c, "cannot_open") \/ Ends(c, "listed")
      BY <1>1, <1>5, <2>1, <3>2 DEF Ending
    <3> QED
      BY <2>4, <3>1, <3>2 DEF read_size, StartBody
  <2>5. CASE read_body(c)
    <3>1. Goes(c, "extra") \/ Goes(c, "body")
      BY <2>5 DEF read_body
    <3> QED
      BY <1>1, <1>6, <2>1, <3>1
  <2> QED
    BY <1>7, <2>2, <2>3, <2>4, <2>5 DEF ReadUnit
<1>8. CASE ReadEnds(c)
  <2>1. got' = [got EXCEPT ![c] = got[c]] /\ got[c] \in Nat
    BY <1>1, <1>8 DEF ReadEnds
  <2>2. \E what \in {"connection_closed", "invalid_response", "too_little", "saved",
                     "listed"} : Ends(c, what)
    BY <1>8 DEF ReadEnds, NoMore
  <2> QED
    BY <1>5, <2>1, <2>2 DEF Ending
<1> QED
  BY <1>7, <1>8 DEF Reads

LEMMA KernelSaw ==
  ASSUME ServerKnown, ClientsSaw, [Next]_vars, NEW c \in Conn, Kernel(c)
  PROVE  ClientsSaw'
<1>1. UNCHANGED clientVars /\ req' = req
  BY DEF Kernel, Takes, Departs, Drain, Close, Reset, peerVars
<1> QED
  BY <1>1, IdleClients

(* A step of the server.                                                   *)
LEMMA ServerKeepsRequests ==
  ASSUME IInv,
         \/ ServerStep(event_loop_wait) \/ ServerStep(accept_connections)
         \/ \E c \in Conn : Serves(c)
         \/ UNCHANGED sessionVars
  PROVE  UNCHANGED clientVars /\ req' = req
<1>1. UNCHANGED clientVars
  BY DEF ServerStep, Serves, sessionVars
<1>2. ASSUME NEW c \in Conn, Serves(c) PROVE req' = req
  BY <1>2, DispatchHandled DEF Serves, ServerStep, peerVars
<1>3. CASE UNCHANGED sessionVars
  BY <1>3 DEF sessionVars, vars, peerVars
<1> QED
  BY <1>1, <1>2, <1>3 DEF ServerStep, event_loop_wait, accept_connections, peerVars

LEMMA SessionSaw == ServerKnown /\ ClientsSaw /\ [SessionNext]_sessionVars => ClientsSaw'
<1> SUFFICES ASSUME ServerKnown, ClientsSaw, [SessionNext]_sessionVars
             PROVE  ClientsSaw'
  OBVIOUS
<1>1. [Next]_vars
  BY StepRefines
<1>2. ASSUME NEW c \in Conn, ClientStep(c) PROVE ClientsSaw'
  BY <1>1, <1>2, StartSaw, WritesSaw, ReadsSaw, KernelSaw DEF ClientStep, Runs
<1> QED
  BY <1>1, <1>2, ServerKeepsRequests, IdleClients DEF SessionNext, ServerKnown

(* A client says that an upload succeeded only if the server has read all  *)
(* of it, whichever uploads of the name overlap and however the connection *)
(* ends (client.c:205-212, server.c:364-375).                              *)
THEOREM SuccessOnlyForRead == SessionSpec => []SuccessIsRead
<1>1. SessionInit => ClientsSaw
  BY DEF SessionInit, ClientInit, Init, ClientsSaw, ClientTypes, Saw, Phase, Ending,
         NoRequest
<1>2. ClientsSaw => SuccessIsRead
  BY DEF ClientsSaw, Saw, SuccessIsRead
<1>3. SessionSpec => []ServerKnown
  BY ClientsArePeers, ServerInvariant, UploadsToldInOrder, PTL DEF ServerKnown
<1> QED
  BY <1>1, <1>2, <1>3, SessionSaw, PTL DEF SessionSpec

-----------------------------------------------------------------------------
(***************************************************************************)
(* What has been sent stays sent: no step of the session takes a unit of a *)
(* response back, and only the server's steps add any.                     *)
(***************************************************************************)
LEMMA SaysMore ==
  ASSUME IInv, [Next]_vars, NEW x \in Conn
  PROVE  Extends(resp[x], resp'[x])
<1>1. TypeOK /\ resp[x] \in Seq(RespUnit)
  BY DEF IInv, TypeOK
<1>2. ASSUME NEW c \in Conn, Dispatch(c) PROVE Extends(resp[x], resp'[x])
  BY <1>2, DispatchHandled DEF Handled, Outcome, WritesOn
<1>3. CASE Quiet
  BY <1>1, <1>3, SameSaid DEF Quiet
<1> QED
  BY <1>1, <1>2, <1>3, QuietSteps

(* The size in a response bounds it.                                       *)
LEMMA SizeBounds ==
  ASSUME IInv, AnswerInv, NEW c \in Conn, Len(resp[c]) >= 4
  PROVE  resp[c][4][2] \in Nat /\ Len(resp[c]) <= Promised(c)
<1> DEFINE s == resp[c]
<1>1. Told(c, s) /\ s \in Seq(RespUnit) /\ Len(s) \in Nat
  BY AllTold
<1>2. Len(OkLine) = 2 /\ \A m \in Message : Len(ErrorLines(m)) = 2
  BY TwoLines
<1>3. Answers(c, s[3][2], s)
  BY <1>1, <1>2 DEF Told, IsPrefix
<1>4. 4 \in 3..Len(s) /\ 3 \in 3..Len(s)
  BY <1>1
<1>5. s[4] = <<"SIZE", s[3][2]>> /\ s[3][1] = "SIZE"
  BY <1>3, <1>4 DEF Answers
<1>6. s[3][2] \in Nat
  <2>1. s[3] \in RespUnit
    BY <1>1, <1>4
  <2> QED
    BY <1>5, <2>1 DEF RespUnit
<1>7. Len(s) <= 4 + s[3][2] /\ s[4][2] = s[3][2]
  BY <1>3, <1>5, <1>6, <1>1 DEF Answers
<1> QED
  BY <1>2, <1>6, <1>7 DEF Promised

-----------------------------------------------------------------------------
(***************************************************************************)
(* How far each client has come through its response.                      *)
(***************************************************************************)
(* In phase p, having read n of the len units sent, of which the size in   *)
(* the response makes the whole.                                           *)
Progress(p, n, what, len, whole) ==
  /\ n <= len
  /\ p \in {"start", "sending"} => n = 0
  /\ p = "status" => n <= 1
  /\ p = "size" => n \in 2..3
  /\ what # "none" <=> p = "ended"
  /\ p = "body" => n >= 4 /\ n < whole
  /\ p = "extra" => n >= 4 /\ n = whole
  /\ what \in {"saved", "listed"} => n >= 4 /\ n = whole
  /\ what = "too_much" => n >= 4 /\ n > whole
  /\ what = "too_little" /\ n >= 4 => n < whole

WholeSize(c) == IF Len(resp[c]) >= 4 THEN Promised(c) ELSE 0

Halfway(c) ==
  Progress(phase[c], got[c], outcome[c], Len(resp[c]), WholeSize(c))

ClientsHalfway ==
  /\ phase \in [Conn -> Phase] /\ outcome \in [Conn -> Ending]
  /\ got \in [Conn -> Nat] /\ late \in [Conn -> Nat]
  /\ \A c \in Conn : Halfway(c)

ServerAnswers == IInv /\ AnswerInv

SizesAreNat == \A c \in Conn : WholeSize(c) \in Nat /\ Len(resp[c]) \in Nat

LEMMA SizeIsNat == ServerAnswers => SizesAreNat
<1> SUFFICES ASSUME ServerAnswers, NEW c \in Conn
             PROVE  WholeSize(c) \in Nat /\ Len(resp[c]) \in Nat
  BY DEF SizesAreNat
<1>1. Len(OkLine) = 2
  BY TwoLines
<1>2. Len(resp[c]) >= 4 => Promised(c) \in Nat
  BY <1>1, SizeBounds DEF ServerAnswers, Promised
<1>3. TypeOK
  BY DEF ServerAnswers, IInv
<1> QED
  BY <1>2, <1>3 DEF WholeSize, TypeOK

LEMMA SameSize ==
  ASSUME ServerAnswers, [Next]_vars, NEW c \in Conn
  PROVE  /\ WholeSize(c) \in Nat /\ WholeSize(c)' \in Nat
         /\ Len(resp[c]) \in Nat /\ Len(resp'[c]) \in Nat
         /\ Len(resp[c]) <= Len(resp'[c])
         /\ Len(resp[c]) >= 4 => WholeSize(c)' = WholeSize(c)
<1>1. ServerAnswers'
  BY InvNext, AnswersNext DEF ServerAnswers
<1>2. SizesAreNat'
  BY <1>1, SizeIsNat, PTL
<1>3. Extends(resp[c], resp'[c])
  BY SaysMore DEF ServerAnswers
<1>4. WholeSize(c) \in Nat /\ Len(resp[c]) \in Nat
  BY SizeIsNat DEF SizesAreNat
<1>5. Len(resp[c]) >= 4 => resp'[c][4] = resp[c][4]
  BY <1>3, <1>4 DEF Extends
<1> QED
  BY <1>2, <1>3, <1>4, <1>5 DEF SizesAreNat, Extends, WholeSize, Promised

LEMMA StillProgress ==
  ASSUME NEW p, NEW n \in Nat, NEW what, NEW len \in Nat, NEW whole \in Nat,
         NEW len2 \in Nat, NEW whole2 \in Nat, len <= len2,
         len >= 4 => whole2 = whole, Progress(p, n, what, len, whole)
  PROVE  Progress(p, n, what, len2, whole2)
<1>1. n >= 4 => whole2 = whole
  BY DEF Progress
<1>2. n <= len2
  BY DEF Progress
<1> QED
  BY <1>1, <1>2 DEF Progress

(* Nothing is said of a client that has neither read a size nor ended at   *)
(* the end of a response.                                                  *)
LEMMA EarlyProgress ==
  ASSUME NEW p, NEW n \in Nat, NEW what, NEW len \in Nat, NEW whole \in Nat,
         n <= len, what # "none" <=> p = "ended",
         p \in {"start", "sending"} => n = 0, p = "status" => n <= 1,
         p \notin {"size", "body", "extra"},
         what \notin {"saved", "listed", "too_much", "too_little"}
  PROVE  Progress(p, n, what, len, whole)
BY DEF Progress

(* A connection whose client does nothing.                                 *)
LEMMA OthersHalfway ==
  ASSUME ServerAnswers, ClientsHalfway, [Next]_vars, NEW c \in Conn,
         phase'[c] = phase[c], got'[c] = got[c], outcome'[c] = outcome[c]
  PROVE  Halfway(c)'
<1>1. Halfway(c) /\ got[c] \in Nat
  BY DEF ClientsHalfway
<1>2. Progress(phase[c], got[c], outcome[c], Len(resp'[c]), WholeSize(c)')
  BY <1>1, SameSize, StillProgress DEF Halfway
<1> QED
  BY <1>2 DEF Halfway

LEMMA IdleHalfway ==
  ASSUME ServerAnswers, ClientsHalfway, [Next]_vars, UNCHANGED clientVars
  PROVE  ClientsHalfway'
<1>1. phase' = phase /\ got' = got /\ outcome' = outcome /\ late' = late
  BY DEF clientVars
<1>2. \A c \in Conn : Halfway(c)'
  BY <1>1, OthersHalfway
<1> QED
  BY <1>1, <1>2 DEF ClientsHalfway

(* A client that moves, while the server does nothing.                     *)
LEMMA MovesHalfway ==
  ASSUME ServerAnswers, ClientsHalfway, [Next]_vars, NEW c \in Conn,
         NEW p \in Phase, NEW n \in Nat, NEW what \in Ending, NEW l \in Nat,
         phase' = [phase EXCEPT ![c] = p], got' = [got EXCEPT ![c] = n],
         outcome' = [outcome EXCEPT ![c] = what],
         late' = [late EXCEPT ![c] = l], Halfway(c)'
  PROVE  ClientsHalfway'
<1>1. ASSUME NEW d \in Conn, d # c PROVE Halfway(d)'
  <2>1. phase'[d] = phase[d] /\ got'[d] = got[d] /\ outcome'[d] = outcome[d]
    BY <1>1 DEF ClientsHalfway
  <2> QED
    BY <2>1, OthersHalfway
<1> QED
  BY <1>1 DEF ClientsHalfway

LEMMA StartHalfway ==
  ASSUME ServerAnswers, ClientsHalfway, [Next]_vars, NEW c \in Conn, Start(c)
  PROVE  ClientsHalfway'
<1>1. /\ phase \in [Conn -> Phase] /\ got \in [Conn -> Nat]
      /\ outcome \in [Conn -> Ending] /\ late \in [Conn -> Nat]
      /\ Halfway(c)
  BY DEF ClientsHalfway
<1>2. /\ phase[c] = "start" /\ got' = got /\ late' = late /\ got[c] = 0
      /\ outcome[c] = "none"
  BY <1>1 DEF Start, Usage, connect_fails, connect_to_server, Halfway, Progress
<1>3. /\ got' = [got EXCEPT ![c] = 0] /\ late' = [late EXCEPT ![c] = late[c]]
      /\ late[c] \in Nat /\ got'[c] = 0
  BY <1>1, <1>2
<1>4. Len(resp'[c]) \in Nat /\ WholeSize(c)' \in Nat
  BY SameSize
<1>5. ASSUME NEW what \in {"usage", "cannot_connect", "cannot_open"}, Ends(c, what)
      PROVE  ClientsHalfway'
  <2>1. phase'[c] = "ended" /\ outcome'[c] = what
    BY <1>1, <1>5 DEF Ends
  <2>2. Halfway(c)'
    BY <1>3, <1>4, <2>1, EarlyProgress DEF Halfway
  <2> QED
    BY <1>3, <1>5, <2>2, MovesHalfway DEF Ends, Phase, Ending
<1>6. CASE Goes(c, "sending")
  <2>1. phase'[c] = "sending" /\ outcome'[c] = "none"
    BY <1>1, <1>2, <1>6 DEF Goes
  <2>2. Halfway(c)'
    BY <1>3, <1>4, <2>1, EarlyProgress DEF Halfway
  <2>3. outcome' = [outcome EXCEPT ![c] = "none"]
    BY <1>1, <1>2, <1>6 DEF Goes
  <2> QED
    BY <1>3, <1>6, <2>2, <2>3, MovesHalfway DEF Goes, Phase, Ending
<1> QED
  BY <1>5, <1>6 DEF Start, Usage, connect_fails, connect_to_server

LEMMA WritesHalfway ==
  ASSUME ServerAnswers, ClientsHalfway, [Next]_vars, NEW c \in Conn, Writes(c)
  PROVE  ClientsHalfway'
<1>1. /\ phase \in [Conn -> Phase] /\ got \in [Conn -> Nat]
      /\ outcome \in [Conn -> Ending] /\ late \in [Conn -> Nat]
      /\ Halfway(c)
  BY DEF ClientsHalfway
<1>2. phase[c] = "sending" /\ got' = got /\ got[c] = 0 /\ outcome[c] = "none"
  BY <1>1 DEF Writes, write_request, write_after_close, write_fails, end_request,
              clientVars, Halfway, Progress
<1>3. got' = [got EXCEPT ![c] = 0] /\ got'[c] = 0
  BY <1>1, <1>2
<1>4. Len(resp'[c]) \in Nat /\ WholeSize(c)' \in Nat
  BY SameSize
<1>5. CASE write_request(c)
  BY <1>5, IdleHalfway DEF write_request
<1>6. CASE write_after_close(c)
  <2>1. PICK n \in 1..Unwritten(c) : late' = [late EXCEPT ![c] = @ + n]
    BY <1>6 DEF write_after_close
  <2>2. phase' = phase /\ outcome' = outcome
    BY <1>6 DEF write_after_close
  <2>3. late[c] + n \in Nat
    BY <1>1
  <2>4. \A d \in Conn : Halfway(d)'
    BY <1>2, <2>2, OthersHalfway
  <2> QED
    BY <1>1, <1>2, <2>1, <2>2, <2>3, <2>4 DEF ClientsHalfway
<1>7. CASE /\ Ends(c, "killed") \/ Goes(c, "status")
           /\ late' = late
  <2>1. PICK p \in {"ended", "status"}, what \in {"killed", "none"} :
          /\ phase' = [phase EXCEPT ![c] = p]
          /\ outcome' = [outcome EXCEPT ![c] = what]
          /\ p = "ended" <=> what = "killed"
    <3>1. CASE Ends(c, "killed")
      BY <3>1 DEF Ends
    <3>2. CASE Goes(c, "status")
      BY <1>1, <1>2, <3>2 DEF Goes
    <3> QED
      BY <1>7, <3>1, <3>2
  <2>2. phase'[c] = p /\ outcome'[c] = what
    BY <1>1, <2>1
  <2>3. Halfway(c)'
    BY <1>3, <1>4, <2>1, <2>2, EarlyProgress DEF Halfway
  <2>4. late' = [late EXCEPT ![c] = late[c]] /\ late[c] \in Nat
    BY <1>1, <1>7
  <2>5. p \in Phase /\ what \in Ending
    BY DEF Phase, Ending
  <2> QED
    BY <1>3, <2>1, <2>3, <2>4, <2>5, MovesHalfway
<1> QED
  BY <1>5, <1>6, <1>7 DEF Writes, write_fails, end_request

LEMMA ReadsHalfway ==
  ASSUME ServerAnswers, ClientsHalfway, [Next]_vars, NEW c \in Conn, Reads(c)
  PROVE  ClientsHalfway'
<1> DEFINE len == Len(resp[c])
           whole == WholeSize(c)
<1>1. /\ phase \in [Conn -> Phase] /\ got \in [Conn -> Nat]
      /\ outcome \in [Conn -> Ending] /\ late \in [Conn -> Nat]
      /\ got[c] \in Nat /\ got[c] + 1 \in Nat
      /\ Progress(phase[c], got[c], outcome[c], len, whole)
  BY DEF ClientsHalfway, Halfway
<1>2. len \in Nat /\ whole \in Nat
  BY SameSize
<1>3. UNCHANGED vars /\ late' = late /\ phase[c] # "ended"
  BY DEF Reads, ReadUnit, ReadEnds, NoMore, read_status, read_message, read_size,
         read_body, read_extra
<1>4. late' = [late EXCEPT ![c] = late[c]] /\ late[c] \in Nat
  BY <1>1, <1>3
<1>5. Len(resp[c])' = len /\ WholeSize(c)' = whole
  BY <1>3 DEF vars, writeVars, WholeSize, Promised
<1>6. outcome[c] = "none"
  BY <1>1, <1>3 DEF Progress
<1>7. len >= 4 => /\ resp[c][4][2] \in Nat /\ whole = 4 + resp[c][4][2]
                  /\ len <= whole
  BY SizeBounds, TwoLines DEF ServerAnswers, WholeSize, Promised
<1> HIDE DEF len, whole
<1>8. ASSUME NEW p \in Phase, NEW n \in Nat, NEW what \in Ending,
             phase' = [phase EXCEPT ![c] = p], got' = [got EXCEPT ![c] = n],
             outcome' = [outcome EXCEPT ![c] = what],
             Progress(p, n, what, len, whole)
      PROVE  ClientsHalfway'
  <2>1. phase'[c] = p /\ got'[c] = n /\ outcome'[c] = what
    BY <1>1, <1>8
  <2>2. Halfway(c)'
    BY <1>5, <1>8, <2>1 DEF Halfway
  <2> QED
    BY <1>4, <1>8, <2>2, MovesHalfway
<1>9. ASSUME NEW n \in Nat, got' = [got EXCEPT ![c] = n],
             NEW what \in Ending \ {"none"}, Ends(c, what),
             Progress("ended", n, what, len, whole)
      PROVE  ClientsHalfway'
  <2>1. "ended" \in Phase /\ what \in Ending
    BY DEF Phase
  <2> QED
    BY <1>8, <1>9, <2>1 DEF Ends
<1>10. ASSUME NEW n \in Nat, got' = [got EXCEPT ![c] = n],
              NEW p \in {"status", "message", "size", "body", "extra"}, Goes(c, p),
              Progress(p, n, "none", len, whole)
       PROVE  ClientsHalfway'
  <2>1. outcome' = [outcome EXCEPT ![c] = "none"] /\ "none" \in Ending
    BY <1>1, <1>6, <1>10 DEF Goes, Ending
  <2>2. p \in Phase
    BY DEF Phase
  <2> QED
    BY <1>8, <1>10, <2>1, <2>2 DEF Goes
<1>11. CASE ReadUnit(c)
  <2> DEFINE n == got[c] + 1
  <2>1. /\ n \in Nat /\ got[c] < len /\ n <= len
        /\ got' = [got EXCEPT ![c] = n]
    BY <1>1, <1>2, <1>11 DEF ReadUnit, len
  <2>2. CASE read_status(c)
    <3>1. CASE Goes(c, "message")
      <4>1. Progress("message", n, "none", len, whole)
        BY <1>2, <2>1 DEF Progress
      <4> QED
        BY <1>10, <2>1, <3>1, <4>1
    <3>2. CASE got[c] = 0 /\ Goes(c, "status")
      <4>1. Progress("status", n, "none", len, whole)
        BY <1>2, <2>1, <3>2 DEF Progress
      <4> QED
        BY <1>10, <2>1, <3>2, <4>1
    <3>3. CASE Ends(c, "success")
      <4>1. Progress("ended", n, "success", len, whole)
        BY <1>2, <2>1 DEF Progress
      <4> QED
        BY <1>9, <2>1, <3>3, <4>1 DEF Ending
    <3>4. CASE got[c] = 1 /\ Goes(c, "size")
      <4>1. Progress("size", n, "none", len, whole)
        BY <1>2, <2>1, <3>4 DEF Progress
      <4> QED
        BY <1>10, <2>1, <3>4, <4>1
    <3> QED
      BY <2>2, <3>1, <3>2, <3>3, <3>4 DEF read_status
  <2>3. CASE read_message(c)
    <3>1. Progress("ended", n, "error", len, whole)
      BY <1>2, <2>1 DEF Progress
    <3> QED
      BY <1>9, <2>1, <2>3, <3>1 DEF read_message, Ending
  <2>4. CASE read_size(c)
    <3>1. got[c] \in 2..3
      BY <1>1, <2>4 DEF read_size, Progress
    <3>2. CASE got[c] < 3 /\ Goes(c, "size")
      <4>1. Progress("size", n, "none", len, whole)
        BY <1>2, <2>1, <3>1, <3>2 DEF Progress
      <4> QED
        BY <1>10, <2>1, <3>2, <4>1
    <3>3. CASE ~(got[c] < 3) /\ StartBody(c, NextUnit(c)[2])
      <4> DEFINE size == resp[c][4][2]
      <4>1. n = 4 /\ len >= 4 /\ size \in Nat /\ whole = 4 + size
        BY <1>2, <1>7, <2>1, <3>1, <3>3
      <4>2. got[c] + 1 = 4 /\ StartBody(c, size)
        BY <3>1, <3>3, <4>1 DEF NextUnit
      <4> HIDE DEF size, n
      <4>3. CASE size > 0 /\ Goes(c, "body")
        <5>1. Progress("body", n, "none", len, whole)
          BY <1>2, <4>1, <4>3 DEF Progress
        <5> QED
          BY <1>10, <2>1, <4>3, <5>1
      <4>4. CASE ~(size > 0) /\ Goes(c, "extra")
        <5>1. Progress("extra", n, "none", len, whole)
          BY <1>2, <4>1, <4>4 DEF Progress
        <5> QED
          BY <1>10, <2>1, <4>4, <5>1
      <4>5. CASE Ends(c, "cannot_open")
        <5>1. Progress("ended", n, "cannot_open", len, whole)
          BY <1>2, <4>1 DEF Progress
        <5> QED
          BY <1>9, <2>1, <4>5, <5>1 DEF Ending
      <4>6. CASE size = 0 /\ Ends(c, "listed")
        <5>1. Progress("ended", n, "listed", len, whole)
          BY <1>2, <4>1, <4>6 DEF Progress
        <5> QED
          BY <1>9, <2>1, <4>6, <5>1 DEF Ending
      <4> QED
        BY <4>2, <4>3, <4>4, <4>5, <4>6 DEF StartBody
    <3> QED
      BY <2>4, <3>2, <3>3 DEF read_size
  <2>5. CASE read_body(c)
    <3>1. got[c] >= 4 /\ got[c] < whole
      BY <1>1, <2>5 DEF read_body, Progress
    <3>2. BodyRead(c) <=> n = whole
      <4>1. len >= 4
        BY <1>1, <1>2, <2>1, <3>1
      <4>2. whole = 4 + resp[c][4][2]
        BY <1>7, <4>1
      <4> QED
        BY <4>2 DEF BodyRead
    <3>3. CASE n = whole /\ Goes(c, "extra")
      <4>1. Progress("extra", n, "none", len, whole)
        BY <1>1, <1>2, <2>1, <3>1, <3>3 DEF Progress
      <4> QED
        BY <1>10, <2>1, <3>3, <4>1
    <3>4. CASE n # whole /\ Goes(c, "body")
      <4>1. Progress("body", n, "none", len, whole)
        BY <1>1, <1>2, <2>1, <3>1, <3>4 DEF Progress
      <4> QED
        BY <1>10, <2>1, <3>4, <4>1
    <3> QED
      BY <2>5, <3>2, <3>3, <3>4 DEF read_body
  <2>6. CASE read_extra(c)
    <3>1. got[c] >= 4 /\ got[c] = whole
      BY <1>1, <2>6 DEF read_extra, Progress
    <3>2. Progress("ended", n, "too_much", len, whole)
      BY <1>1, <1>2, <2>1, <3>1 DEF Progress
    <3> QED
      BY <1>9, <2>1, <2>6, <3>2 DEF read_extra, Ending
  <2> QED
    BY <1>11, <2>2, <2>3, <2>4, <2>5, <2>6 DEF ReadUnit
<1>12. CASE ReadEnds(c)
  <2> DEFINE n == got[c]
  <2>1. n \in Nat /\ n <= len /\ got' = [got EXCEPT ![c] = n]
    BY <1>1, <1>12 DEF ReadEnds, Progress
  <2>2. CASE \E what \in {"connection_closed", "invalid_response"} : Ends(c, what)
    <3>1. PICK what \in {"connection_closed", "invalid_response"} : Ends(c, what)
      BY <2>2
    <3>2. Progress("ended", n, what, len, whole)
      BY <1>2, <2>1 DEF Progress
    <3>3. what \in Ending \ {"none"}
      BY DEF Ending
    <3> QED
      BY <1>9, <2>1, <3>1, <3>2, <3>3
  <2>3. CASE phase[c] \in {"size", "body"} /\ Ends(c, "too_little")
    <3>1. n >= 4 => n < whole
      BY <1>1, <2>1, <2>3 DEF Progress
    <3>2. Progress("ended", n, "too_little", len, whole)
      BY <1>2, <2>1, <3>1 DEF Progress
    <3> QED
      BY <1>9, <2>1, <2>3, <3>2 DEF Ending
  <2>4. CASE phase[c] = "extra" /\ \E what \in {"saved", "listed"} : Ends(c, what)
    <3>1. PICK what \in {"saved", "listed"} : Ends(c, what)
      BY <2>4
    <3>2. n >= 4 /\ n = whole
      BY <1>1, <2>4 DEF Progress
    <3>3. Progress("ended", n, what, len, whole)
      BY <1>2, <2>1, <3>2 DEF Progress
    <3>4. what \in Ending \ {"none"}
      BY DEF Ending
    <3> QED
      BY <1>9, <2>1, <3>1, <3>3, <3>4
  <2> QED
    BY <1>12, <2>2, <2>3, <2>4 DEF ReadEnds, NoMore
<1> QED
  BY <1>11, <1>12 DEF Reads

LEMMA SessionHalfway ==
  ServerAnswers /\ ClientsHalfway /\ [SessionNext]_sessionVars => ClientsHalfway'
<1> SUFFICES ASSUME ServerAnswers, ClientsHalfway, [SessionNext]_sessionVars
             PROVE  ClientsHalfway'
  OBVIOUS
<1>1. [Next]_vars
  BY StepRefines
<1>2. ASSUME NEW c \in Conn, ClientStep(c) PROVE ClientsHalfway'
  <2>1. CASE Kernel(c)
    BY <1>1, <2>1, IdleHalfway DEF Kernel, Takes, Departs
  <2> QED
    BY <1>1, <1>2, <2>1, StartHalfway, WritesHalfway, ReadsHalfway
    DEF ClientStep, Runs
<1>3. CASE UNCHANGED clientVars
  BY <1>1, <1>3, IdleHalfway
<1> QED
  BY <1>2, <1>3 DEF SessionNext, ServerStep, Serves, sessionVars

LEMMA HalfwayAlways == SessionSpec => [](ServerAnswers /\ ClientsHalfway)
<1>1. SessionInit => ClientsHalfway
  <2>1. Init => \A c \in Conn : Len(resp[c]) = 0 /\ WholeSize(c) = 0
    BY DEF Init, WholeSize
  <2>2. Progress("start", 0, "none", 0, 0)
    BY DEF Progress
  <2> QED
    BY <2>1, <2>2
    DEF SessionInit, ClientInit, ClientsHalfway, Halfway, Phase, Ending
<1>2. SessionSpec => []ServerAnswers
  BY ClientsArePeers, ServerInvariant, AnswersKept, PTL DEF ServerAnswers
<1> QED
  BY <1>1, <1>2, SessionHalfway, PTL DEF SessionSpec

(* A client never reads past what it was sent, and has said how it ended   *)
(* exactly when it has ended (client.c:31-68).                             *)
THEOREM ClientsTyped == SessionSpec => []ClientTypeOK
<1>1. ServerAnswers /\ ClientsHalfway => ClientTypeOK
  <2> SUFFICES ASSUME ServerAnswers, ClientsHalfway, NEW c \in Conn
               PROVE  got[c] <= Len(resp[c]) /\ (outcome[c] # "none" <=> phase[c] = "ended")
    BY DEF ClientsHalfway, ClientTypeOK
  <2>1. Progress(phase[c], got[c], outcome[c], Len(resp[c]), WholeSize(c))
    BY DEF ClientsHalfway, Halfway
  <2> QED
    BY <2>1 DEF Progress
<1> QED
  BY <1>1, HalfwayAlways, PTL

(* A client takes a download or a list without a word exactly when it has  *)
(* read all that was promised and no more was sent, and what it reports    *)
(* missing or too much is (client.c:125-168, 289-317).                     *)
THEOREM MismatchesReported == SessionSpec => []MismatchReported
<1>1. ServerAnswers /\ ClientsHalfway => MismatchReported
  <2> SUFFICES ASSUME ServerAnswers, ClientsHalfway, NEW c \in Conn
               PROVE  /\ outcome[c] \in {"saved", "listed"} =>
                           /\ Len(resp[c]) >= 4 /\ got[c] = Promised(c)
                           /\ Len(resp[c]) = got[c]
                      /\ outcome[c] = "too_much" => got[c] > Promised(c)
                      /\ outcome[c] = "too_little" /\ got[c] >= 4
                           => got[c] < Promised(c)
    BY DEF MismatchReported
  <2> DEFINE len == Len(resp[c])
             whole == WholeSize(c)
             n == got[c]
             what == outcome[c]
  <2>1. /\ Progress(phase[c], n, what, len, whole)
        /\ n \in Nat /\ len \in Nat /\ whole \in Nat
    BY SizeIsNat DEF ClientsHalfway, Halfway, SizesAreNat
  <2>2. len >= 4 => len <= whole /\ Promised(c) = whole
    BY SizeBounds DEF ServerAnswers, WholeSize
  <2> HIDE DEF len, whole, n, what
  <2>3. n <= len
    BY <2>1 DEF Progress
  <2>4. /\ what \in {"saved", "listed"} => n >= 4 /\ n = whole
        /\ what = "too_much" => n >= 4 /\ n > whole
        /\ what = "too_little" /\ n >= 4 => n < whole
    BY <2>1 DEF Progress
  <2>5. n >= 4 => len >= 4 /\ len <= whole /\ Promised(c) = whole
    BY <2>1, <2>2, <2>3
  <2> QED
    BY <2>1, <2>3, <2>4, <2>5 DEF len, n, what
<1> QED
  BY <1>1, HalfwayAlways, PTL

-----------------------------------------------------------------------------
(***************************************************************************)
(* What a client knows that has reported the success of an upload.         *)
(***************************************************************************)

(* The server has confirmed it, and the client is done.                    *)
Heard(c) ==
  req[c].verb = "PUT" /\ outcome[c] = "success" =>
    resp[c] = OkLine /\ phase[c] = "ended"

ClientsHeard == \A c \in Conn : Heard(c)

SessionKnown == ServerAnswers /\ ClientsHalfway

(* The second unit tells an OK from an error, and an upload is sent        *)
(* nothing after it.                                                       *)
OkIsAll ==
  \A c \in Conn :
    req[c].verb = "PUT" /\ Len(resp[c]) >= 2 /\ resp[c][2][1] = "OK"
      => resp[c] = OkLine

(* A prefix as long as the line is the line.                               *)
LEMMA WholePrefix ==
  ASSUME NEW s \in Seq(RespUnit), NEW t \in Seq(RespUnit), Len(t) = 2,
         Len(s) >= 2, IsPrefix(s, t)
  PROVE  s = t
<1>1. Len(s) = 2 /\ s = SubSeq(t, 1, 2)
  BY DEF IsPrefix
<1>2. SubSeq(t, 1, 2) = t
  OBVIOUS
<1> QED
  BY <1>1, <1>2

LEMMA SecondOk == ServerAnswers => OkIsAll
<1> SUFFICES ASSUME ServerAnswers, NEW c \in Conn, req[c].verb = "PUT",
                    Len(resp[c]) >= 2, resp[c][2][1] = "OK"
             PROVE  resp[c] = OkLine
  BY DEF OkIsAll
<1> DEFINE s == resp[c]
<1>1. Told(c, s) /\ s \in Seq(RespUnit) /\ Len(s) \in Nat
  BY AllTold DEF ServerAnswers
<1>2. ASSUME NEW m \in Message, IsPrefix(s, ErrorLines(m)) PROVE FALSE
  <2>1. ErrorLines(m) \in Seq(RespUnit) /\ Len(ErrorLines(m)) = 2
    BY TwoLines
  <2>2. s[2] = ErrorLines(m)[2]
    BY <1>1, <1>2, <2>1, WholePrefix
  <2> QED
    BY <2>2 DEF ErrorLines
<1>3. IsPrefix(s, OkLine)
  BY <1>1, <1>2 DEF Told
<1>4. OkLine \in Seq(RespUnit) /\ Len(OkLine) = 2
  BY TwoLines
<1> QED
  BY <1>1, <1>3, <1>4, WholePrefix

(* An upload that is confirmed stays so.                                   *)
LEMMA OkStays ==
  ASSUME ServerAnswers, [Next]_vars, NEW c \in Conn, req'[c] = req[c],
         req[c].verb = "PUT", resp[c] = OkLine
  PROVE  resp'[c] = OkLine
<1>1. ServerAnswers'
  BY InvNext, AnswersNext DEF ServerAnswers
<1>2. OkIsAll'
  BY <1>1, SecondOk, PTL
<1>3. Extends(resp[c], resp'[c])
  BY SaysMore DEF ServerAnswers
<1>4. Len(resp'[c]) \in Nat
  BY <1>1 DEF ServerAnswers, IInv, TypeOK
<1>5. Len(resp'[c]) >= 2 /\ resp'[c][2] = OkLine[2]
  BY <1>3, <1>4, TwoLines DEF Extends
<1> QED
  BY <1>2, <1>5, TwoLines DEF OkIsAll

(* A client does nothing to the others.                                    *)
LEMMA ClientOthers ==
  ASSUME ServerAnswers, ClientsHalfway, NEW c \in Conn, ClientStep(c),
         NEW x \in Conn, x # c
  PROVE  phase'[x] = phase[x] /\ outcome'[x] = outcome[x] /\ req'[x] = req[x]
<1>1. phase \in [Conn -> Phase] /\ outcome \in [Conn -> Ending]
  BY DEF ClientsHalfway
<1>2. req \in [Conn -> Request]
  BY DEF ServerAnswers, IInv, TypeOK
<1>3. CASE Start(c)
  BY <1>1, <1>2, <1>3
  DEF Start, Usage, connect_fails, connect_to_server, Connect, Ends, Goes, vars, peerVars
<1>4. CASE Writes(c)
  BY <1>1, <1>4
  DEF Writes, write_request, write_after_close, write_fails, end_request, Ends, Goes,
      shutdown_write, Arrive, Close, clientVars, vars, peerVars
<1>5. CASE ReadUnit(c)
  BY <1>1, <1>5
  DEF ReadUnit, read_status, read_message, read_size, StartBody, read_body, read_extra,
      Ends, Goes, vars, peerVars
<1>6. CASE ReadEnds(c)
  BY <1>1, <1>6 DEF ReadEnds, NoMore, Ends, vars, peerVars
<1>7. CASE Kernel(c)
  BY <1>7 DEF Kernel, Takes, Departs, Drain, Close, Reset, clientVars, peerVars
<1> QED
  BY <1>3, <1>4, <1>5, <1>6, <1>7 DEF ClientStep, Runs, Reads

(* A connection whose client does nothing.                                 *)
LEMMA OthersHeard ==
  ASSUME ServerAnswers, [Next]_vars, NEW c \in Conn, Heard(c),
         phase'[c] = phase[c], outcome'[c] = outcome[c], req'[c] = req[c]
  PROVE  Heard(c)'
BY OkStays DEF Heard

(* What a client reports as success it has read as OK.                     *)
LEMMA ReportHeard ==
  ASSUME SessionKnown, ClientsHeard, [Next]_vars, NEW c \in Conn, ClientStep(c)
  PROVE  Heard(c)'
<1> SUFFICES ASSUME req'[c].verb = "PUT", outcome'[c] = "success"
             PROVE  resp'[c] = OkLine /\ phase'[c] = "ended"
  BY DEF Heard
<1>1. /\ phase \in [Conn -> Phase] /\ outcome \in [Conn -> Ending]
      /\ got[c] \in Nat /\ Heard(c) /\ ServerAnswers
      /\ phase[c] = "ended" <=> outcome[c] # "none"
  BY DEF SessionKnown, ClientsHalfway, ClientsHeard, Halfway, Progress
<1>2. CASE Start(c)
  <2>1. phase[c] = "start" /\ outcome[c] = "none"
    BY <1>1, <1>2 DEF Start, Usage, connect_fails, connect_to_server
  <2>2. outcome'[c] # "success"
    BY <1>1, <1>2, <2>1
    DEF Start, Usage, connect_fails, connect_to_server, Ends, Goes
  <2> QED
    BY <2>2
<1>3. CASE Writes(c)
  <2>1. phase[c] = "sending" /\ outcome[c] = "none"
    BY <1>1, <1>3
    DEF Writes, write_request, write_after_close, write_fails, end_request
  <2>2. outcome'[c] # "success"
    BY <1>1, <1>3, <2>1
    DEF Writes, write_request, write_after_close, write_fails, end_request, Ends, Goes,
        clientVars
  <2> QED
    BY <2>2
<1>4. CASE ReadEnds(c)
  <2>1. phase[c] # "ended" /\ outcome[c] = "none"
    BY <1>1, <1>4 DEF ReadEnds, NoMore
  <2>2. outcome'[c] # "success"
    BY <1>1, <1>4, <2>1 DEF ReadEnds, NoMore, Ends
  <2> QED
    BY <2>2
<1>5. CASE ReadUnit(c)
  <2>1. UNCHANGED vars /\ req' = req /\ resp' = resp /\ got[c] < Len(resp[c])
    BY <1>5 DEF ReadUnit, vars, peerVars, writeVars
  <2>2. phase[c] # "ended" /\ outcome[c] = "none"
    BY <1>1, <1>5
    DEF ReadUnit, read_status, read_message, read_size, read_body, read_extra
  <2>3. /\ phase[c] = "status" /\ IsOk(NextUnit(c)) /\ got[c] = 1
        /\ Ends(c, "success")
    BY <1>1, <1>5, <2>2
    DEF ReadUnit, read_status, read_message, read_size, read_body, read_extra,
        StartBody, Ends, Goes
  <2>4. Len(resp[c]) >= 2 /\ resp[c][2][1] = "OK"
    <3>1. Len(resp[c]) \in Nat
      BY <1>1 DEF ServerAnswers, IInv, TypeOK
    <3> QED
      BY <2>1, <2>3, <3>1 DEF IsOk, NextUnit
  <2>5. resp[c] = OkLine
    BY <1>1, <2>1, <2>4, SecondOk DEF OkIsAll
  <2> QED
    BY <1>1, <2>1, <2>3, <2>5 DEF Ends
<1>6. CASE Kernel(c)
  <2>1. UNCHANGED clientVars /\ req' = req
    BY <1>6 DEF Kernel, Takes, Departs, Drain, Close, Reset, peerVars
  <2> QED
    BY <1>1, <2>1, OthersHeard DEF clientVars, Heard
<1> QED
  BY <1>2, <1>3, <1>4, <1>5, <1>6 DEF ClientStep, Runs, Reads

LEMMA SessionHeard ==
  SessionKnown /\ ClientsHeard /\ [SessionNext]_sessionVars => ClientsHeard'
<1> SUFFICES ASSUME SessionKnown, ClientsHeard, [SessionNext]_sessionVars,
                    NEW x \in Conn
             PROVE  Heard(x)'
  BY DEF ClientsHeard
<1>1. [Next]_vars /\ ServerAnswers /\ Heard(x)
  BY StepRefines DEF SessionKnown, ClientsHeard
<1>2. ASSUME NEW c \in Conn, ClientStep(c), c # x PROVE Heard(x)'
  <2>1. phase'[x] = phase[x] /\ outcome'[x] = outcome[x] /\ req'[x] = req[x]
    BY <1>2, ClientOthers DEF SessionKnown
  <2> QED
    BY <1>1, <2>1, OthersHeard
<1>3. CASE UNCHANGED clientVars /\ req' = req
  BY <1>1, <1>3, OthersHeard DEF clientVars
<1>4. CASE \/ ServerStep(event_loop_wait) \/ ServerStep(accept_connections)
           \/ \E c \in Conn : Serves(c)
           \/ UNCHANGED sessionVars
  BY <1>3, <1>4, ServerKeepsRequests DEF SessionKnown, ServerAnswers
<1> QED
  BY <1>1, <1>2, <1>4, ReportHeard DEF SessionNext

LEMMA HeardAlways == SessionSpec => []ClientsHeard
<1>1. SessionInit => ClientsHeard
  BY DEF SessionInit, ClientInit, ClientsHeard, Heard
<1> QED
  BY <1>1, HalfwayAlways, SessionHeard, PTL DEF SessionSpec, SessionKnown

(* A client that reports the success of an upload reports that of a stored *)
(* file: the name is listed and its file holds exactly the units the size  *)
(* field promised, as long as no other request stores or removes a file of *)
(* that name (client.c:205-212, server.c:352-375).                         *)
THEOREM ReportedIsStored == SessionSpec => []SuccessIsStored
<1>1. ClientsHeard /\ AloneInv => SuccessIsStored
  BY DEF ClientsHeard, Heard, AloneInv, AloneOK, Confirming, SuccessIsStored
<1> QED
  BY <1>1, HeardAlways, ClientsArePeers, AloneIsStored, PTL

-----------------------------------------------------------------------------
(***************************************************************************)
(* What a client may not have heard.                                       *)
(***************************************************************************)
Lost == {"connection_closed", "invalid_response", "killed"}

(* Why a client may end without an answer.                                 *)
Excused(c) ==
  req[c].verb = "PUT" /\ (~SaidOk(c) \/ req[c].len > WholeLen(c))

(* A client breaks its connection only when it has ended, and writes to a  *)
(* closed one only what it had left to write.  It looks for a message only *)
(* where the first unit was not OK.                                        *)
Unlost(c) ==
  /\ c \in rst => phase[c] = "ended"
  /\ Made(c) => req[c].verb \in Verb /\ arrived[c] + late[c] <= req[c].len
  /\ late[c] > 0 => sock[c] = "closed"
  /\ phase[c] = "status" /\ got[c] = 1 => resp[c][1][1] = "OK"
  /\ phase[c] = "message" => got[c] = 1
  /\ outcome[c] \in Lost => sock[c] = "closed" /\ Excused(c)

NobodyLost == \A c \in Conn : Unlost(c)

AllKnown == SessionKnown /\ ReplyInv /\ EndInv

(* Nothing is said to a connection that is closed.                         *)
LEMMA ClosedStays ==
  ASSUME IInv, [Next]_vars, NEW x \in Conn, sock[x] = "closed"
  PROVE  sock'[x] = "closed" /\ resp'[x] = resp[x]
<1>1. TypeOK /\ Typed
  BY DEF IInv, TypeOK, Typed
<1>2. ASSUME NEW c \in Conn, Dispatch(c)
      PROVE  sock'[x] = "closed" /\ resp'[x] = resp[x]
  <2>1. c # x
    BY <1>2, DispatchHandled
  <2> QED
    BY <1>1, <1>2, <2>1, OthersFrame
<1>3. CASE Quiet
  BY <1>3 DEF Quiet
<1> QED
  BY <1>1, <1>2, <1>3, QuietSteps

(* When the server has closed the connection of a client that has not      *)
(* ended, either the client may be excused, or nothing of its request was  *)
(* left unread and both units of its status line have been sent.           *)
HeardWell(c) == ~Broken(c) /\ Len(resp[c]) >= 2

LEMMA ClosedWell ==
  ASSUME AllKnown, NEW c \in Conn, Unlost(c), sock[c] = "closed",
         phase[c] # "ended"
  PROVE  Excused(c) \/ HeardWell(c)
<1> DEFINE len == req[c].len
           arr == arrived[c]
           tk == taken[c]
           lt == late[c]
           sz == req[c].size
<1>1. /\ len \in Nat /\ arr \in Nat /\ tk \in Nat /\ lt \in Nat /\ sz \in Nat
      /\ HeaderLen \in Nat /\ SizeLen \in Nat
  BY ConstantsAssumption
  DEF AllKnown, SessionKnown, ServerAnswers, ClientsHalfway, IInv, TypeOK, Request
<1>2. tk <= arr /\ arr + lt <= len /\ req[c].verb \in Verb
  BY DEF AllKnown, SessionKnown, ServerAnswers, IInv, ClientInv, ClientOK, Unlost,
         Made
<1>3. len < HeaderLen \/ (tk >= HeaderLen /\ Len(resp[c]) >= 2)
  BY <1>2 DEF AllKnown, EndInv, HeardOut, Unlost, Verb
<1>4. ASSUME len <= tk, len >= HeaderLen PROVE HeardWell(c)
  <2> HIDE DEF len, arr, tk, lt
  <2>1. tk = arr /\ lt = 0 /\ ~(len < HeaderLen)
    BY <1>1, <1>2, <1>4
  <2>2. ~(arr > tk) /\ ~(lt > 0) /\ Len(resp[c]) >= 2
    BY <1>1, <1>3, <2>1
  <2> QED
    BY <2>2 DEF HeardWell, Broken, arr, tk, lt
<1>5. CASE req[c].verb # "PUT"
  <2>1. req[c] \in Requests[c]
    BY DEF AllKnown, EndInv, PeerOK, Made
  <2>2. len = HeaderLen
    BY <1>5, <2>1, CommandsAssumption
  <2>3. len <= tk /\ len >= HeaderLen
    BY <1>1, <1>3, <2>2
  <2> QED
    BY <1>4, <2>3
<1>6. CASE req[c].verb = "PUT" /\ SaidOk(c) /\ ~(len > WholeLen(c))
  <2>1. tk = HeaderLen + SizeLen + sz
    BY <1>6 DEF AllKnown, ReplyInv, ReplyOK, ReadWhole
  <2>2. ~(len > HeaderLen + SizeLen + sz)
    BY <1>6 DEF WholeLen
  <2> HIDE DEF len, arr, tk, lt, sz
  <2>3. len <= tk /\ len >= HeaderLen
    BY <1>1, <1>2, <2>1, <2>2
  <2> QED
    BY <1>4, <2>3
<1> QED
  BY <1>5, <1>6 DEF Excused

(* A connection whose client does nothing that matters.                    *)
LEMMA OthersUnlost ==
  ASSUME AllKnown, [Next]_vars, NEW x \in Conn, Unlost(x),
         phase'[x] = phase[x], got'[x] = got[x], outcome'[x] = outcome[x],
         late'[x] = late[x], req'[x] = req[x], arrived'[x] = arrived[x],
         x \in rst' => x \in rst, Made(x)' => Made(x)
  PROVE  Unlost(x)'
<1>1. sock[x] = "closed" => sock'[x] = "closed" /\ resp'[x] = resp[x]
  BY ClosedStays DEF AllKnown, SessionKnown, ServerAnswers
<1>2. got[x] = 1 => resp'[x][1] = resp[x][1]
  <2>1. got[x] <= Len(resp[x]) /\ Len(resp[x]) \in Nat
    BY DEF AllKnown, SessionKnown, ServerAnswers, ClientsHalfway, Halfway, Progress,
           IInv, TypeOK
  <2>2. Extends(resp[x], resp'[x])
    BY SaysMore DEF AllKnown, SessionKnown, ServerAnswers
  <2> QED
    BY <2>1, <2>2 DEF Extends
<1>3. outcome[x] \in Lost => sock'[x] = "closed" /\ Excused(x)'
  BY <1>1 DEF Unlost, Excused, SaidOk, WholeLen
<1> QED
  BY <1>1, <1>2, <1>3 DEF Unlost

(* What a client does leaves the clients of other connections, and those   *)
(* connections, as they are.                                               *)
LEMMA ClientElsewhere ==
  ASSUME SessionKnown, NEW c \in Conn, ClientStep(c), NEW x \in Conn, x # c
  PROVE  /\ got'[x] = got[x] /\ late'[x] = late[x]
         /\ arrived'[x] = arrived[x]
         /\ (x \in rst' => x \in rst) /\ (Made(x)' => Made(x))
<1>1. got \in [Conn -> Nat] /\ late \in [Conn -> Nat]
  BY DEF SessionKnown, ClientsHalfway
<1>2. arrived \in [Conn -> Nat] /\ sock \in [Conn -> {"none", "backlog", "open", "closed"}]
  BY DEF SessionKnown, ServerAnswers, IInv, TypeOK
<1>3. got'[x] = got[x] /\ late'[x] = late[x]
  BY <1>1
  DEF ClientStep, Start, Usage, connect_fails, connect_to_server, Runs, Writes,
      write_request, write_after_close, write_fails, end_request, Reads, ReadUnit,
      ReadEnds, Kernel, Takes, Departs, clientVars
<1>4. /\ arrived'[x] = arrived[x]
      /\ (x \in rst' => x \in rst) /\ (Made(x)' => Made(x))
  <2>1. CASE UNCHANGED vars
    BY <2>1 DEF vars, peerVars, writeVars, Made
  <2>2. CASE Arrive(c) \/ Close(c) \/ Reset(c) \/ Drain(c) \/ Connect(c)
    BY <1>2, <2>2
    DEF Arrive, Close, Reset, Drain, Connect, peerVars, writeVars, Made
  <2> QED
    BY <2>1, <2>2, ClientRefines
<1> QED
  BY <1>3, <1>4

(* A client that moves, while the server does nothing.                     *)
LEMMA MovesUnlost ==
  ASSUME NEW c \in Conn, Unlost(c), UNCHANGED vars, late'[c] = late[c],
         NEW p, NEW n, NEW what,
         phase'[c] = p, got'[c] = n, outcome'[c] = what,
         c \notin rst \/ p = "ended",
         p = "status" /\ n = 1 => resp[c][1][1] = "OK",
         p = "message" => n = 1,
         what \in Lost => sock[c] = "closed" /\ Excused(c)
  PROVE  Unlost(c)'
<1>1. /\ UNCHANGED <<sock, req, arrived, resp, rst>>
      /\ (Made(c)' <=> Made(c)) /\ (Excused(c)' <=> Excused(c))
  BY DEF vars, peerVars, writeVars, Made, Excused, SaidOk, WholeLen
<1> QED
  BY <1>1 DEF Unlost

LEMMA StartUnlost ==
  ASSUME AllKnown, NEW c \in Conn, Unlost(c), Start(c)
  PROVE  Unlost(c)'
<1>1. /\ phase \in [Conn -> Phase] /\ outcome \in [Conn -> Ending]
      /\ phase[c] = "start" /\ late' = late /\ got' = got /\ got[c] = 0
      /\ outcome[c] = "none" /\ late[c] \in Nat
  BY DEF AllKnown, SessionKnown, ClientsHalfway, Halfway, Progress, Start, Usage,
         connect_fails, connect_to_server
<1>2. c \notin rst
  BY <1>1 DEF Unlost
<1>3. CASE Usage(c) \/ connect_fails(c)
  <2>1. /\ UNCHANGED vars /\ phase'[c] = "ended"
        /\ outcome'[c] \in {"usage", "cannot_connect"}
    BY <1>1, <1>3 DEF Usage, connect_fails, Ends
  <2>2. outcome'[c] \notin Lost
    BY <2>1 DEF Lost
  <2> QED
    BY <1>1, <2>1, <2>2, MovesUnlost
<1>4. CASE connect_to_server(c)
  <2>1. /\ Connect(c) /\ req'[c].verb \in Verb
        /\ phase'[c] \in {"ended", "sending"}
        /\ outcome'[c] \in {"none", "cannot_open"}
    <3>1. req'[c].verb \in Verb
      BY <1>4 DEF connect_to_server, check_args, Verb
    <3> QED
      BY <1>1, <1>4, <3>1 DEF connect_to_server, Ends, Goes
  <2>2. sock[c] = "none" /\ arrived' = arrived /\ rst' = rst
    BY <2>1 DEF Connect, writeVars
  <2>3. late[c] = 0 /\ arrived[c] = 0
    BY <1>1, <2>2 DEF Unlost, AllKnown, EndInv, PeerOK, Made
  <2>4. req'[c].len \in Nat
    <3>1. PICK r \in Requests[c] : req' = [req EXCEPT ![c] = r]
      BY <2>1 DEF Connect
    <3>2. r \in Request
      BY <3>1, ConstantsAssumption
    <3> QED
      BY <3>1, <3>2 DEF AllKnown, SessionKnown, ServerAnswers, IInv, TypeOK, Request
  <2>5. outcome'[c] \notin Lost
    BY <2>1 DEF Lost
  <2> QED
    BY <1>1, <1>2, <2>1, <2>2, <2>3, <2>4, <2>5 DEF Unlost
<1> QED
  BY <1>3, <1>4 DEF Start

LEMMA WritesUnlost ==
  ASSUME AllKnown, NEW c \in Conn, Unlost(c), Writes(c)
  PROVE  Unlost(c)'
<1>1. /\ phase \in [Conn -> Phase] /\ outcome \in [Conn -> Ending]
      /\ late \in [Conn -> Nat] /\ Halfway(c)
  BY DEF AllKnown, SessionKnown, ClientsHalfway
<1>2. /\ phase[c] = "sending" /\ got' = got /\ got[c] = 0
      /\ outcome[c] = "none"
  BY <1>1 DEF Halfway, Progress, Writes, write_request, write_after_close,
         write_fails, end_request, clientVars
<1>3. /\ c \notin rst /\ late[c] \in Nat /\ arrived[c] \in Nat
      /\ arrived \in [Conn -> Nat]
      /\ req[c].len \in Nat
  BY <1>1, <1>2
  DEF Unlost, AllKnown, SessionKnown, ServerAnswers, IInv, TypeOK, Request
<1>4. "none" \notin Lost /\ "sending" \notin {"ended", "status", "message"}
  BY DEF Lost
<1>5. CASE write_request(c)
  <2>1. /\ UNCHANGED <<phase, outcome, late, sock, req, resp, rst>>
        /\ sock[c] # "closed" /\ Made(c)
    BY <1>5 DEF write_request, clientVars, Arrive, Connected, writeVars, Made
  <2>2. PICK n \in 1..(req[c].len - arrived[c]) : arrived'[c] = arrived[c] + n
    BY <1>3, <1>5 DEF write_request, Arrive
  <2>3. late[c] = 0 /\ req[c].verb \in Verb
    BY <1>3, <2>1 DEF Unlost
  <2>4. arrived'[c] + late[c] <= req[c].len
    BY <1>3, <2>2, <2>3
  <2> QED
    BY <1>2, <1>3, <1>4, <2>1, <2>3, <2>4 DEF Unlost
<1>6. CASE write_after_close(c)
  <2>1. /\ UNCHANGED vars /\ sock[c] = "closed" /\ UNCHANGED <<phase, outcome>>
        /\ UNCHANGED <<sock, req, arrived, rst>> /\ Made(c)
    BY <1>6 DEF write_after_close, vars, peerVars, writeVars, Made
  <2>2. PICK n \in 1..Unwritten(c) : late'[c] = late[c] + n
    BY <1>1, <1>6 DEF write_after_close
  <2>3. req[c].verb \in Verb /\ arrived[c] + late'[c] <= req[c].len
    BY <1>3, <2>1, <2>2 DEF Unwritten, Unlost
  <2> QED
    BY <1>2, <1>3, <1>4, <2>1, <2>3 DEF Unlost
<1>7. CASE write_fails(c)
  <2>1. UNCHANGED vars /\ late' = late /\ Broken(c)
    BY <1>7 DEF write_fails
  <2>2. CASE Ends(c, "killed")
    <3>1. phase'[c] = "ended" /\ outcome'[c] = "killed"
      BY <1>1, <2>2 DEF Ends
    <3>2. sock[c] = "closed" /\ Excused(c)
      BY <1>2, <2>1, ClosedWell DEF Broken, HeardWell
    <3> QED
      BY <1>2, <2>1, <3>1, <3>2, MovesUnlost
  <2>3. CASE Goes(c, "status")
    <3>1. phase'[c] = "status" /\ outcome'[c] = "none" /\ got'[c] = 0
      BY <1>1, <1>2, <2>3 DEF Goes
    <3> QED
      BY <1>3, <1>4, <2>1, <3>1, MovesUnlost
  <2> QED
    BY <1>7, <2>2, <2>3 DEF write_fails
<1>8. CASE end_request(c)
  <2>1. /\ phase'[c] = "status" /\ outcome'[c] = "none" /\ got'[c] = 0
        /\ late' = late
    BY <1>1, <1>2, <1>8 DEF end_request, Goes
  <2>2. UNCHANGED <<sock, req, arrived, rst>>
    BY <1>8 DEF end_request, shutdown_write, Close, vars, peerVars, writeVars
  <2> QED
    BY <1>3, <1>4, <2>1, <2>2 DEF Unlost, Made
<1> QED
  BY <1>5, <1>6, <1>7, <1>8 DEF Writes

(* The units of a status line that begins with OK are both OK.             *)
LEMMA OkGoesOn ==
  ASSUME ServerAnswers, NEW c \in Conn, Len(resp[c]) >= 2, resp[c][1][1] = "OK"
  PROVE  resp[c][2][1] = "OK"
<1> DEFINE s == resp[c]
<1>1. Told(c, s) /\ s \in Seq(RespUnit) /\ Len(s) \in Nat
  BY AllTold DEF ServerAnswers
<1>2. ASSUME NEW m \in Message, IsPrefix(s, ErrorLines(m)) PROVE FALSE
  <2>1. ErrorLines(m) \in Seq(RespUnit) /\ Len(ErrorLines(m)) = 2
    BY TwoLines
  <2>2. s[1] = ErrorLines(m)[1]
    BY <1>1, <1>2, <2>1, WholePrefix
  <2> QED
    BY <2>2, TwoLines
<1>3. CASE IsPrefix(s, OkLine)
  BY <1>1, <1>3, TwoLines, WholePrefix
<1>4. CASE Answers(c, s[3][2], s)
  BY <1>4 DEF Answers
<1> QED
  BY <1>1, <1>2, <1>3, <1>4 DEF Told

LEMMA ReadsUnlost ==
  ASSUME AllKnown, NEW c \in Conn, Unlost(c), Reads(c)
  PROVE  Unlost(c)'
<1>1. /\ phase \in [Conn -> Phase] /\ outcome \in [Conn -> Ending]
      /\ got \in [Conn -> Nat] /\ Halfway(c) /\ ServerAnswers
      /\ Len(resp[c]) \in Nat
  BY DEF AllKnown, SessionKnown, ServerAnswers, ClientsHalfway, IInv, TypeOK
<1>2. UNCHANGED vars /\ late' = late /\ phase[c] # "ended"
  BY DEF Reads, ReadUnit, ReadEnds, NoMore, read_status, read_message, read_size,
         read_body, read_extra
<1>3. c \notin rst /\ outcome[c] = "none"
  BY <1>1, <1>2 DEF Unlost, Halfway, Progress
<1>4. phase[c] = "status" => got[c] \in {0, 1}
  BY <1>1 DEF Halfway, Progress
<1>5. ASSUME NEW what, what \notin Lost, Ends(c, what) PROVE Unlost(c)'
  <2>1. phase'[c] = "ended" /\ outcome'[c] = what
    BY <1>1, <1>5 DEF Ends
  <2> QED
    BY <1>2, <1>5, <2>1, MovesUnlost
<1>6. ASSUME NEW p, Goes(c, p),
             p = "status" /\ got'[c] = 1 => resp[c][1][1] = "OK",
             p = "message" => got'[c] = 1
      PROVE  Unlost(c)'
  <2>1. phase'[c] = p /\ outcome'[c] = "none" /\ "none" \notin Lost
    BY <1>1, <1>3, <1>6 DEF Goes, Lost
  <2> QED
    BY <1>2, <1>3, <1>6, <2>1, MovesUnlost
<1>7. CASE ReadUnit(c)
  <2>1. got[c] < Len(resp[c]) /\ got'[c] = got[c] + 1
    BY <1>1, <1>7 DEF ReadUnit
  <2>2. CASE read_status(c)
    <3>1. CASE ~IsOk(NextUnit(c)) /\ Goes(c, "message")
      <4>1. got[c] # 1
        <5> SUFFICES ASSUME got[c] = 1 PROVE FALSE
          OBVIOUS
        <5>1. resp[c][1][1] = "OK" /\ Len(resp[c]) >= 2
          BY <1>1, <2>1, <2>2 DEF read_status, Unlost
        <5> QED
          BY <1>1, <3>1, <5>1, OkGoesOn DEF NextUnit, IsOk
      <4>2. got'[c] = 1
        BY <1>4, <2>1, <2>2, <4>1 DEF read_status
      <4> QED
        BY <1>6, <3>1, <4>2
    <3>2. CASE IsOk(NextUnit(c)) /\ got[c] = 0 /\ Goes(c, "status")
      BY <1>6, <3>2 DEF IsOk, NextUnit
    <3>3. CASE Ends(c, "success")
      BY <1>5, <3>3 DEF Lost
    <3>4. CASE Goes(c, "size")
      BY <1>6, <3>4
    <3> QED
      BY <2>2, <3>1, <3>2, <3>3, <3>4 DEF read_status
  <2>3. CASE read_message(c) \/ read_extra(c)
    BY <1>5, <2>3 DEF read_message, read_extra, Lost
  <2>4. CASE read_size(c) \/ read_body(c)
    <3>1. \/ \E p \in {"size", "body", "extra"} : Goes(c, p)
          \/ \E what \in {"cannot_open", "listed"} : Ends(c, what)
      BY <2>4 DEF read_size, StartBody, read_body
    <3> QED
      BY <1>5, <1>6, <3>1 DEF Lost
  <2> QED
    BY <1>7, <2>2, <2>3, <2>4 DEF ReadUnit
<1>8. CASE ReadEnds(c)
  <2>1. sock[c] = "closed" /\ (got[c] = Len(resp[c]) \/ Broken(c)) /\ NoMore(c)
    BY <1>8 DEF ReadEnds
  <2>2. CASE phase[c] \in {"status", "message"}
    <3>1. got[c] \in {0, 1}
      BY <1>4, <2>2 DEF Unlost
    <3>2. Excused(c)
      BY <1>1, <1>2, <2>1, <3>1, ClosedWell DEF HeardWell
    <3>3. PICK what : Ends(c, what)
      BY <2>1 DEF NoMore
    <3>4. phase'[c] = "ended" /\ outcome'[c] = what
      BY <1>1, <3>3 DEF Ends
    <3> QED
      BY <1>2, <2>1, <3>2, <3>4, MovesUnlost
  <2>3. CASE phase[c] \notin {"status", "message"}
    <3>1. \E what \in {"too_little", "saved", "listed"} : Ends(c, what)
      BY <2>1, <2>3 DEF NoMore
    <3> QED
      BY <1>5, <3>1 DEF Lost
  <2> QED
    BY <2>2, <2>3
<1> QED
  BY <1>7, <1>8 DEF Reads

LEMMA KernelUnlost ==
  ASSUME AllKnown, NEW c \in Conn, Unlost(c), Kernel(c)
  PROVE  Unlost(c)'
<1>1. /\ UNCHANGED <<req, sock, arrived, resp>> /\ UNCHANGED clientVars
      /\ rst' = rst \/ phase[c] = "ended"
  BY DEF Kernel, Takes, Departs, Drain, Close, Reset, peerVars, writeVars
<1>2. (Made(c)' <=> Made(c)) /\ (Excused(c)' <=> Excused(c))
  BY <1>1 DEF Made, Excused, SaidOk, WholeLen
<1> QED
  BY <1>1, <1>2 DEF Unlost, clientVars

(* A step of the server breaks nobody and sends nothing for a peer.        *)
LEMMA ServerUnlost ==
  ASSUME AllKnown, [Next]_vars, NEW x \in Conn, Unlost(x),
         \/ ServerStep(event_loop_wait) \/ ServerStep(accept_connections)
         \/ \E c \in Conn : Serves(c)
         \/ UNCHANGED sessionVars
  PROVE  Unlost(x)'
<1>1. UNCHANGED clientVars /\ req' = req
  BY ServerKeepsRequests DEF AllKnown, SessionKnown, ServerAnswers
<1>2. rst' = rst
  BY DEF ServerStep, Serves, sessionVars, vars, writeVars
<1>3. arrived' = arrived /\ (Made(x)' => Made(x))
  <2>1. CASE ServerStep(event_loop_wait) \/ UNCHANGED sessionVars
    BY <2>1 DEF ServerStep, event_loop_wait, sessionVars, vars, peerVars, Made
  <2>2. CASE ServerStep(accept_connections)
    BY <2>2 DEF ServerStep, accept_connections, peerVars, Made
  <2>3. ASSUME NEW c \in Conn, Serves(c)
        PROVE  arrived' = arrived /\ (Made(x)' => Made(x))
    <3>1. /\ Dispatch(c) /\ IInv /\ Typed
      BY <2>3
      DEF Serves, ServerStep, AllKnown, SessionKnown, ServerAnswers, IInv, TypeOK, Typed
    <3>2. Made(c) /\ arrived' = arrived
      BY <3>1, DispatchHandled DEF peerVars
    <3>3. x # c => sock'[x] = sock[x]
      BY <3>1, OthersFrame
    <3> QED
      BY <3>2, <3>3 DEF Made
  <2> QED
    BY <2>1, <2>2, <2>3
<1>4. phase' = phase /\ got' = got /\ outcome' = outcome /\ late' = late
  BY <1>1 DEF clientVars
<1> QED
  BY <1>1, <1>2, <1>3, <1>4, OthersUnlost

LEMMA SessionUnlost ==
  AllKnown /\ NobodyLost /\ [SessionNext]_sessionVars => NobodyLost'
<1> SUFFICES ASSUME AllKnown, NobodyLost, [SessionNext]_sessionVars,
                    NEW x \in Conn
             PROVE  Unlost(x)'
  BY DEF NobodyLost
<1>1. [Next]_vars /\ Unlost(x) /\ SessionKnown
  BY StepRefines DEF NobodyLost, AllKnown
<1>2. ASSUME NEW c \in Conn, ClientStep(c) PROVE Unlost(x)'
  <2>1. CASE c # x
    <3>1. phase'[x] = phase[x] /\ outcome'[x] = outcome[x] /\ req'[x] = req[x]
      BY <1>1, <1>2, <2>1, ClientOthers DEF SessionKnown
    <3>2. /\ got'[x] = got[x] /\ late'[x] = late[x]
          /\ arrived'[x] = arrived[x]
          /\ (x \in rst' => x \in rst) /\ (Made(x)' => Made(x))
      BY <1>1, <1>2, <2>1, ClientElsewhere
    <3> QED
      BY <1>1, <3>1, <3>2, OthersUnlost
  <2>2. CASE c = x
    BY <1>1, <1>2, <2>2, StartUnlost, WritesUnlost, ReadsUnlost, KernelUnlost
    DEF ClientStep, Runs
  <2> QED
    BY <2>1, <2>2
<1> QED
  BY <1>1, <1>2, ServerUnlost DEF SessionNext

(* A client ends without a whole response only if its upload was refused,  *)
(* or its file was longer than it said: no answer is dropped because the   *)
(* server closed with bytes of the request unread (server.c:205-226,       *)
(* client.c:31-68, 78-123).                                                *)
THEOREM AnswersAreNotLost == SessionSpec => []NoAnswerLost
<1>1. SessionInit => NobodyLost
  BY DEF SessionInit, ClientInit, Init, NobodyLost, Unlost, Made, Lost
<1>2. NobodyLost => NoAnswerLost
  BY DEF NobodyLost, Unlost, NoAnswerLost, Lost, Excused, WholeLen
<1>3. SessionSpec => []AllKnown
  BY ClientsArePeers, HalfwayAlways, UploadsToldInOrder, EndsKept, PTL
  DEF AllKnown, SessionKnown
<1> QED
  BY <1>1, <1>2, <1>3, SessionUnlost, PTL DEF SessionSpec

=============================================================================
