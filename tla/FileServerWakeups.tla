------------------------- MODULE FileServerWakeups -------------------------
(***************************************************************************)
(* Proofs, for every value of the constants, that no handler leaves a      *)
(* client behind that could go on: with edge triggering an event that is   *)
(* not on the ready list again is never looked at (EventLoop).             *)
(*                                                                         *)
(* The argument: a client is always registered for the event its state     *)
(* waits for (Asking), and a handler ends in one of three ways.  It has    *)
(* read or written until nothing was left to read or no room to write; or  *)
(* it has called modify_event_loop, which looks at the socket again; or it *)
(* has closed the connection.                                              *)
(***************************************************************************)
EXTENDS FileServerReplies

-----------------------------------------------------------------------------
(***************************************************************************)
(* The three ways to end.                                                  *)
(***************************************************************************)
Registered ==
  /\ Typed
  /\ interest \in [Conn -> SUBSET {"READ", "WRITE"}]

(* What a handler of c leaves behind, of c and of the others.              *)
WakeResult(c) ==
  /\ \A x \in Conn :
       x # c => /\ interest'[x] = interest[x]
                /\ x \in armed' <=> x \in armed
  /\ sock'[c] # "closed" =>
       Asking(c)' /\ (EdgeTriggered /\ CanGoOn(c)' => c \in armed')

LEMMA ClosedWakes ==
  ASSUME Registered, NEW c \in Conn, NEW cl, NEW d, close_and_cleanup(c, cl, d)
  PROVE  WakeResult(c)
BY DEF close_and_cleanup, WakeResult, Registered, Typed

(* modify_event_loop looks at the socket as it is then.                    *)
LEMMA WatchWakes ==
  ASSUME Registered, NEW c \in Conn, NEW cl, NEW d, NEW e,
         Watch(c, cl, d, e),
         \/ e = "READ" /\ cl.state \in Receiving \ {"RECV_HEADER"}
         \/ e = "WRITE" /\ cl.state \in Sending
  PROVE  WakeResult(c)
<1>1. /\ client'[c] = cl /\ interest'[c] = {e}
      /\ \A x \in Conn : x # c => interest'[x] = interest[x]
      /\ armed' = armed \cup {x \in {c} : EdgeTriggered /\ Poll(c)' # {}}
  BY DEF Watch, modify_event_loop, Rearm, Registered, Typed
<1>2. /\ cl.state \in Receiving => ~(cl.state \in Sending)
      /\ cl.state # "RECV_HEADER"
  BY DEF Receiving, Sending
<1>3. CanGoOn(c)' => Poll(c)' # {}
  BY <1>1, <1>2 DEF CanGoOn, Poll, Reported, Readable, Writable, Eof
<1>4. Asking(c)'
  BY <1>1, <1>2 DEF Asking
<1> QED
  BY <1>1, <1>3, <1>4 DEF WakeResult

(* Nothing is left to read, or no room is left to write.                   *)
LEMMA KeepWakes ==
  ASSUME Registered, NEW c \in Conn, NEW cl, NEW d, Keep(c, cl, d),
         \/ /\ cl.state \in Receiving /\ interest[c] = {"READ"}
            /\ EdgeTriggered /\ cl.state = "RECV_HEADER"
                 => cl.header_len < HeaderLen
            /\ EdgeTriggered => ~Readable(c)'
         \/ /\ cl.state \in Sending /\ interest[c] = {"WRITE"}
            /\ c \in full' /\ c \notin rst'
  PROVE  WakeResult(c)
<1>1. client'[c] = cl /\ interest' = interest /\ armed' = armed
  BY DEF Keep, Registered, Typed
<1>2. cl.state \in Receiving => ~(cl.state \in Sending)
  BY DEF Receiving, Sending
<1>3. Asking(c)'
  BY <1>1, <1>2 DEF Asking, Sending
<1>4. ~(EdgeTriggered /\ CanGoOn(c)')
  BY <1>1, <1>2 DEF CanGoOn, Writable
<1> QED
  BY <1>1, <1>3, <1>4 DEF WakeResult

-----------------------------------------------------------------------------
(***************************************************************************)
(* Responses.                                                              *)
(***************************************************************************)
LEMMA TakesSome ==
  ASSUME "eagain" \notin Faults, NEW left, left > 0, NEW n \in Accepts(left)
  PROVE  n # 0
BY DEF Accepts

LEMMA ResponseWakes ==
  ASSUME "eagain" \notin Faults, Registered, NEW c \in Conn,
         NEW cl \in ClientType, cl.state \in {"SEND_OK", "SEND_ERROR"},
         NEW d, execute_simple_response_write(c, cl, d)
  PROVE  WakeResult(c)
<1> DEFINE left == Len(cl.simple_response_buf) - cl.simple_response_sent
           cl1(n) == [cl EXCEPT !.simple_response_sent = @ + n]
<1>1. ASSUME NEW x, close_and_cleanup(c, x, d) PROVE WakeResult(c)
  BY <1>1, ClosedWakes
<1>2. ASSUME NEW n, Watch(c, cl1(n), d, "WRITE") PROVE WakeResult(c)
  <2>1. cl1(n).state \in Sending
    BY DEF ClientType, Sending
  <2> HIDE DEF cl1
  <2> QED
    BY <1>2, <2>1, WatchWakes
<1>3. ASSUME NEW n, start_send_list(c, cl1(n), d) PROVE WakeResult(c)
  <2> DEFINE cl2 == [cl1(n) EXCEPT
                       !.list_buf = build_list_buffer(server_files),
                       !.list_sent = 0, !.state = "SEND_LIST_DATA"]
  <2>1. cl2.state \in Sending /\ Watch(c, cl2, d, "WRITE")
    BY <1>3 DEF start_send_list, ClientType, Sending
  <2> HIDE DEF cl2
  <2> QED
    BY <2>1, WatchWakes
<1>4. ASSUME NEW n, Watch(c, ToGetSize(cl1(n)), d, "WRITE")
      PROVE  WakeResult(c)
  <2> DEFINE cl2 == ToGetSize(cl1(n))
  <2>1. cl2.state \in Sending
    BY DEF ToGetSize, ClientType, Sending
  <2> HIDE DEF cl2
  <2> QED
    BY <1>4, <2>1, WatchWakes DEF cl2
<1>5. ASSUME NEW n \in Accepts(left), n = 0, left > 0 PROVE FALSE
  <2> HIDE DEF left
  <2> QED
    BY <1>5, TakesSome
<1> QED
  BY <1>1, <1>2, <1>3, <1>4, <1>5 DEF execute_simple_response_write

LEMMA SendWakes ==
  ASSUME "eagain" \notin Faults, Registered, NEW c \in Conn,
         NEW cl \in ClientType, NEW d, NEW m \in Message,
         send_ok(c, cl, d) \/ send_error(c, cl, m, d)
  PROVE  WakeResult(c)
<1> DEFINE ok == [cl EXCEPT !.state = "SEND_OK", !.simple_response_buf = OkLine,
                            !.simple_response_sent = 0]
           bad == [cl EXCEPT !.state = "SEND_ERROR", !.simple_response_sent = 0,
                             !.simple_response_buf = ErrorLines(m)]
<1>1. /\ ok \in ClientType /\ ok.state = "SEND_OK"
      /\ bad \in ClientType /\ bad.state = "SEND_ERROR"
  BY FixedResponses DEF ClientType, Sending
<1>2. \/ execute_simple_response_write(c, ok, d)
      \/ execute_simple_response_write(c, bad, d)
  BY DEF send_ok, send_error
<1> HIDE DEF ok, bad
<1> QED
  BY <1>1, <1>2, ResponseWakes

-----------------------------------------------------------------------------
(***************************************************************************)
(* Reading.                                                                *)
(***************************************************************************)

(* A client that has read all that has come, of a peer that is there.      *)
LEMMA DrainedWakes ==
  ASSUME Registered, UNCHANGED peerVars, NoWrite, NEW c \in Conn,
         interest[c] = {"READ"}, ~Eof(c), arrived[c] \in Nat,
         taken' = [taken EXCEPT ![c] = arrived[c]],
         NEW cl, cl.state \in Receiving,
         EdgeTriggered /\ cl.state = "RECV_HEADER"
           => cl.header_len < HeaderLen,
         NEW d, Keep(c, cl, d)
  PROVE  WakeResult(c)
<1>1. /\ arrived' = arrived /\ fin' = fin /\ rst' = rst
      /\ taken'[c] = arrived[c]
  BY DEF peerVars, NoWrite, writeVars, Registered, Typed
<1>2. ~Readable(c)'
  BY <1>1 DEF Readable, Eof
<1> QED
  BY <1>2, KeepWakes

LEMMA PutDataWakes ==
  ASSUME "eagain" \notin Faults, Registered, Context, UNCHANGED peerVars,
         NEW c \in Conn, interest[c] = {"READ"},
         NEW t \in Nat, t <= arrived[c],
         NEW cl \in ClientType, cl.state = "RECV_PUT_DATA",
         cl.bytes_transferred <= cl.expected_size,
         NEW d, NEW dt, recv_put_data(c, cl, d, dt, t)
  PROVE  WakeResult(c)
<1> DEFINE e == cl.expected_size
           b == cl.bytes_transferred
           need == e - b
           more == arrived[c] - t
           k == Least(more, need)
           cl1 == [cl EXCEPT !.bytes_transferred = @ + k]
<1>1. /\ b \in Nat /\ e \in Nat /\ b <= e /\ arrived[c] \in Nat
  BY DEF ClientType, Context
<1> HIDE DEF e, b
<1>2. need \in Nat /\ more \in Nat
  BY <1>1
<1> HIDE DEF need, more
<1>3. k \in Nat /\ (k = more \/ k = need)
  BY <1>2, LeastRange DEF Least
<1> HIDE DEF k
<1>4. b + k \in Nat
  BY <1>1, <1>3
<1>5. /\ cl1 \in ClientType /\ cl1.state = "RECV_PUT_DATA"
      /\ cl1.bytes_transferred = b + k /\ cl1.expected_size = e
  BY <1>4 DEF ClientType, b, e
<1> HIDE DEF cl1
<1>6. ASSUME ~UploadComplete(cl1) PROVE t + k = arrived[c]
  <2>1. b + k # e
    BY <1>5, <1>6 DEF UploadComplete
  <2>2. k = more
    BY <1>1, <1>3, <2>1 DEF need
  <2> QED
    BY <1>1, <2>2 DEF more
<1>7. ASSUME NEW x \in ClientType,
             \/ send_error(c, FileClosed(x), "Bad file size", d)
             \/ send_ok(c, FileClosed(x), d)
      PROVE  WakeResult(c)
  <2>1. FileClosed(x) \in ClientType /\ "Bad file size" \in Message
    BY DEF FileClosed, ClientType, Message
  <2> QED
    BY <1>7, <2>1, SendWakes
<1>8. CASE /\ ~UploadComplete(cl1) /\ taken' = [taken EXCEPT ![c] = t + k]
           /\ ~Eof(c) /\ NoWrite /\ Keep(c, cl1, d)
  <2>1. taken' = [taken EXCEPT ![c] = arrived[c]]
    BY <1>6, <1>8
  <2>2. cl1.state \in Receiving /\ cl1.state # "RECV_HEADER"
    BY <1>5 DEF Receiving
  <2> QED
    BY <1>1, <1>8, <2>1, <2>2, DrainedWakes
<1> QED
  BY <1>5, <1>7, <1>8 DEF recv_put_data, cl1, k, need, more, e, b

LEMMA PutSizeWakes ==
  ASSUME "eagain" \notin Faults, Registered, Context, UNCHANGED peerVars,
         NEW c \in Conn, interest[c] = {"READ"}, Made(c),
         taken[c] <= arrived[c],
         Good(c, client[c], taken[c]), client[c].state = "RECV_PUT_SIZE",
         recv_put_size(c), DirOK(dir)
  PROVE  WakeResult(c)
<1> DEFINE cl == client[c]
           b == cl.bytes_transferred
           need == SizeLen - b
           more == arrived[c] - taken[c]
           k == Least(more, need)
           t == taken[c] + k
           cl1 == [cl EXCEPT !.bytes_transferred = @ + k]
           cl2 == OffsetReset([cl1 EXCEPT !.expected_size = req[c].size])
           i == OpenInode(c, dir, cl.filename)
           cl3 == [cl2 EXCEPT !.file_fd = i, !.state = "RECV_PUT_DATA"]
<1>1. /\ cl \in ClientType /\ b \in Nat /\ b <= SizeLen
      /\ SizeLen \in Nat /\ arrived[c] \in Nat /\ taken[c] \in Nat
      /\ Upload(c, cl) /\ req[c].size \in Nat
  BY ConstantsAssumption
     DEF Good, Base, PositionOK, ClientType, Context, Registered, Typed, Request
<1>2. cl.state = "RECV_PUT_SIZE" /\ b = cl.bytes_transferred
  OBVIOUS
<1>3. i \in Conn
  BY <1>1, OpenedOK DEF Upload
<1> HIDE DEF i, cl, b
<1>4. need \in Nat /\ more \in Nat
  BY <1>1
<1> HIDE DEF need, more
<1>5. k \in Nat /\ k <= more /\ (k = more \/ k = need)
  BY <1>4, LeastRange DEF Least
<1> HIDE DEF k
<1>6. /\ t \in Nat /\ t <= arrived[c] /\ b + k \in Nat
      /\ k = more => t = arrived[c]
  BY <1>1, <1>5 DEF more
<1> HIDE DEF t
<1>7. cl1 \in ClientType /\ cl1.state = "RECV_PUT_SIZE"
  BY <1>1, <1>2, <1>6 DEF ClientType
<1> HIDE DEF cl1
<1>8. /\ cl2 \in ClientType
      /\ cl2.expected_size = req[c].size /\ cl2.bytes_transferred = 0
  BY <1>1, <1>7 DEF ClientType, OffsetReset
<1> HIDE DEF cl2
<1>9. /\ cl3 \in ClientType /\ cl3.state = "RECV_PUT_DATA"
      /\ cl3.expected_size = req[c].size /\ cl3.bytes_transferred = 0
  BY <1>3, <1>8 DEF ClientType, Receiving
<1> HIDE DEF cl3
<1>10. ASSUME NEW x \in ClientType, send_error(c, x, "Bad file size", dir)
       PROVE  WakeResult(c)
  BY <1>10, SendWakes DEF Message
<1>11. CASE /\ k < need /\ taken' = [taken EXCEPT ![c] = t] /\ ~Eof(c)
            /\ NoWrite /\ Keep(c, cl1, dir)
  <2>1. t = arrived[c]
    <3>1. k # need
      BY <1>4, <1>5, <1>11
    <3> QED
      BY <1>5, <1>6, <3>1
  <2>2. cl1.state \in Receiving /\ cl1.state # "RECV_HEADER"
    BY <1>7 DEF Receiving
  <2> QED
    BY <1>1, <1>11, <2>1, <2>2, DrainedWakes
<1>12. ASSUME NEW d, NEW dt, recv_put_data(c, cl3, d, dt, t)
       PROVE  WakeResult(c)
  <2>1. cl3.bytes_transferred <= cl3.expected_size
    BY <1>1, <1>9
  <2> QED
    BY <1>6, <1>9, <1>12, <2>1, PutDataWakes
<1> QED
  BY <1>7, <1>8, <1>10, <1>11, <1>12
  DEF recv_put_size, cl, b, need, more, k, t, cl1, cl2, cl3, i

LEMMA HeaderWakes ==
  ASSUME "eagain" \notin Faults, Registered, Context, UNCHANGED peerVars,
         NEW c \in Conn, EdgeTriggered => req[c].verb # "NUL",
         interest[c] = {"READ"},
         taken[c] <= arrived[c], Good(c, client[c], taken[c]),
         client[c].state = "RECV_HEADER",
         EdgeTriggered => client[c].header_len < HeaderLen,
         DirOK(dir), DataOK(data), read_header(c)
  PROVE  WakeResult(c)
<1> DEFINE old == client[c]
           more == arrived[c] - taken[c]
           room == HeaderLen - old.header_len
           k == HeaderUnits(c)
           cl == [old EXCEPT !.header_len = @ + k]
           r == req[c]
           named == [cl EXCEPT !.request_verb = r.verb, !.filename = r.name]
           next == [named EXCEPT !.bytes_transferred = 0,
                                 !.state = "RECV_PUT_SIZE"]
           known == [cl EXCEPT !.request_verb = r.verb]
           list == [cl EXCEPT !.request_verb = "LIST"]
           opened == [named EXCEPT !.file_fd = dir[r.name],
                                   !.file_size = Len(data[dir[r.name]]),
                                   !.bytes_transferred = 0]
<1>1. /\ old \in ClientType /\ old.header_len \in 0..HeaderLen
      /\ old.state = "RECV_HEADER"
      /\ EdgeTriggered => old.header_len < HeaderLen
      /\ taken[c] \in Nat /\ HeaderLen \in Nat /\ arrived[c] \in Nat
      /\ r \in Request
  BY ConstantsAssumption DEF Good, Base, ClientType, Context, Registered, Typed
<1>2. k = Least(more, room)
  BY DEF HeaderUnits
<1> HIDE DEF old
<1>3. more \in Nat /\ room \in Nat
  BY <1>1
<1> HIDE DEF k, more, room
<1>4. k \in Nat /\ k <= room /\ (k = more \/ k = room)
  BY <1>2, <1>3, LeastRange DEF Least
<1>5. /\ old.header_len + k \in 0..HeaderLen
      /\ k = more => taken[c] + k = arrived[c]
      /\ k = room => old.header_len + k = HeaderLen
  BY <1>1, <1>3, <1>4 DEF more, room
<1>6. /\ cl \in ClientType /\ cl.state = "RECV_HEADER"
      /\ cl.header_len = old.header_len + k
  BY <1>1, <1>5 DEF ClientType
<1> HIDE DEF cl
<1>7. ASSUME ~(k > 0 /\ cl.header_len = HeaderLen), EdgeTriggered
      PROVE  cl.header_len < HeaderLen /\ taken[c] + k = arrived[c]
  <2>1. CASE k > 0
    <3>1. old.header_len + k # HeaderLen
      BY <1>6, <1>7, <2>1
    <3> QED
      BY <1>1, <1>4, <1>5, <1>6, <3>1
  <2>2. CASE k = 0
    <3>1. k # room
      BY <1>1, <1>5, <1>7, <2>2
    <3> QED
      BY <1>1, <1>4, <1>5, <1>6, <1>7, <2>2, <3>1
  <2> QED
    BY <1>4, <2>1, <2>2
<1> HIDE DEF r
<1>8. r.verb \in Verb => known \in ClientType
  BY <1>6 DEF ClientType
<1>9. ASSUME r.verb \in Verb, r.name # NoName
      PROVE  /\ named \in ClientType /\ r.name \in Name
             /\ named.filename = r.name
             /\ next.state \in Receiving \ {"RECV_HEADER"}
  <2>1. r.name \in Name
    BY <1>1, <1>9 DEF Request
  <2> QED
    BY <1>6, <1>9, <2>1 DEF ClientType, Receiving
<1>10. list \in ClientType
  BY <1>6 DEF ClientType, Verb
<1>11. ASSUME NEW i \in Conn, r.verb = "GET", r.name # NoName, dir[r.name] = i
       PROVE  opened \in ClientType
  <2>1. Len(data[i]) \in Nat
    BY DEF DataOK
  <2>2. named \in ClientType
    BY <1>9, <1>11 DEF Verb
  <2> HIDE DEF named
  <2> QED
    BY <1>11, <2>1, <2>2 DEF ClientType
<1> HIDE DEF named, next, known, list, opened
<1>12. ASSUME NEW x \in ClientType, NEW d,
              \/ send_ok(c, x, d)
              \/ \E m \in Message : send_error(c, x, m, d)
       PROVE  WakeResult(c)
  <2>1. "Bad request" \in Message
    BY DEF Message
  <2> QED
    BY <1>12, <2>1, SendWakes
<1>13. "Bad request" \in Message /\ "No such file" \in Message
  BY DEF Message
<1>14. CASE send_error(c, IF r.verb \in Verb THEN known ELSE cl,
                       "Bad request", dir)
  BY <1>6, <1>8, <1>12, <1>13, <1>14
<1>15. CASE send_ok(c, list, dir)
  BY <1>10, <1>12, <1>15
<1>16. CASE r.verb = "DELETE" /\ r.name # NoName /\ delete_request(c, named)
  BY <1>9, <1>12, <1>13, <1>16 DEF delete_request, Verb
<1>17. CASE r.verb = "GET" /\ r.name # NoName /\ start_send_get(c, named)
  <2>1. named \in ClientType /\ r.name \in Name /\ named.filename = r.name
    BY <1>9, <1>17 DEF Verb
  <2>2. CASE dir[r.name] # NoInode /\ send_ok(c, opened, dir)
    <3>1. dir[r.name] \in Conn
      BY <2>1, <2>2 DEF DirOK, Inodes
    <3> QED
      BY <1>11, <1>12, <1>17, <2>2, <3>1
  <2>3. CASE send_error(c, named, "No such file", dir)
    BY <1>12, <1>13, <2>1, <2>3
  <2> QED
    BY <1>17, <2>1, <2>2, <2>3 DEF start_send_get, opened
<1>18. CASE r.verb = "PUT" /\ r.name # NoName /\ Watch(c, next, dir, "READ")
  BY <1>9, <1>18, WatchWakes DEF Verb
<1>19. CASE /\ taken' = [taken EXCEPT ![c] = @ + k] /\ NoWrite
            /\ Keep(c, cl, dir)
            /\ \/ r.verb = "NUL"
               \/ ~(k > 0 /\ cl.header_len = HeaderLen) /\ ~Eof(c)
  <2>1. cl.state \in Receiving
    BY <1>6 DEF Receiving
  <2>2. CASE ~EdgeTriggered
    BY <1>19, <2>1, <2>2, KeepWakes
  <2>3. CASE EdgeTriggered
    <3>1. ~(k > 0 /\ cl.header_len = HeaderLen) /\ ~Eof(c)
      BY <1>19, <2>3 DEF r
    <3>2. cl.header_len < HeaderLen /\ taken[c] + k = arrived[c]
      BY <1>7, <2>3, <3>1
    <3>3. taken' = [taken EXCEPT ![c] = arrived[c]]
      BY <1>19, <3>2
    <3> QED
      BY <1>1, <1>19, <2>1, <3>1, <3>2, <3>3, DrainedWakes
  <2> QED
    BY <2>2, <2>3
<1>20. taken' = [taken EXCEPT ![c] = @ + k]
  BY DEF read_header, k
<1>21. CASE parse_header_and_transition(c, cl)
  BY <1>14, <1>15, <1>16, <1>17, <1>18, <1>19, <1>20, <1>21
  DEF parse_header_and_transition, named, next, known, list, r
<1>22. CASE send_error(c, cl, "Bad request", dir)
  BY <1>6, <1>12, <1>13, <1>22
<1>23. CASE close_and_cleanup(c, cl, dir)
  BY <1>23, ClosedWakes
<1> QED
  BY <1>19, <1>20, <1>21, <1>22, <1>23 DEF read_header, cl, k, old

LEMMA ReadWakes ==
  ASSUME "eagain" \notin Faults, Registered, Context, UNCHANGED peerVars,
         NEW c \in Conn, EdgeTriggered => req[c].verb # "NUL", Made(c),
         Asking(c), "READ" \in interest[c],
         taken[c] <= arrived[c], Good(c, client[c], taken[c]),
         DirOK(dir), DataOK(data), handle_read_event(c)
  PROVE  WakeResult(c)
<1> DEFINE cl == client[c]
<1>1. cl.state \notin Sending
  BY DEF Asking
<1>2. cl.state \in Receiving => interest[c] = {"READ"}
  BY DEF Asking
<1>3. CASE cl.state = "RECV_HEADER" /\ read_header(c)
  BY <1>2, <1>3, HeaderWakes DEF Asking, Receiving
<1>4. CASE cl.state = "RECV_PUT_SIZE" /\ recv_put_size(c)
  BY <1>2, <1>4, PutSizeWakes DEF Receiving
<1>5. CASE /\ cl.state = "RECV_PUT_DATA"
           /\ recv_put_data(c, cl, dir, data, taken[c])
  <2>1. /\ cl \in ClientType /\ cl.bytes_transferred <= cl.expected_size
        /\ taken[c] \in Nat
    BY <1>5 DEF Good, Base, PositionOK, Registered, Typed
  <2>2. interest[c] = {"READ"}
    BY <1>2, <1>5 DEF Receiving
  <2> HIDE DEF cl
  <2> QED
    BY <1>5, <2>1, <2>2, PutDataWakes
<1> QED
  BY <1>1, <1>3, <1>4, <1>5 DEF handle_read_event

-----------------------------------------------------------------------------
(***************************************************************************)
(* Writing.                                                                *)
(***************************************************************************)

(* A client whose last write filled the socket's buffer.                   *)
LEMMA FilledWakes ==
  ASSUME Registered, NEW c \in Conn, interest[c] = {"WRITE"},
         NEW units, Written(c, units, TRUE),
         NEW cl, cl.state \in Sending, NEW d, Keep(c, cl, d)
  PROVE  WakeResult(c)
<1>1. c \in full' /\ c \notin rst'
  BY DEF Written
<1> QED
  BY <1>1, KeepWakes

LEMMA ListDataWakes ==
  ASSUME Registered, NEW c \in Conn, interest[c] = {"WRITE"},
         client[c].state = "SEND_LIST_DATA", send_list_data(c)
  PROVE  WakeResult(c)
<1> DEFINE cl == client[c]
           left == Len(cl.list_buf) - cl.list_sent
           cl1(n) == [cl EXCEPT !.list_sent = @ + n]
           units(n) == SubSeq(cl.list_buf, cl.list_sent + 1, cl.list_sent + n)
<1>1. ASSUME NEW x, close_and_cleanup(c, x, dir) PROVE WakeResult(c)
  BY <1>1, ClosedWakes
<1>2. ASSUME NEW n, n < left, Written(c, units(n), n < left),
             Keep(c, cl1(n), dir)
      PROVE  WakeResult(c)
  <2>1. cl1(n).state \in Sending
    BY DEF Registered, Typed, ClientType, Sending
  <2>2. Written(c, units(n), TRUE)
    BY <1>2 DEF Written
  <2> HIDE DEF cl1, units
  <2> QED
    BY <1>2, <2>1, <2>2, FilledWakes
<1> QED
  BY <1>1, <1>2 DEF send_list_data

LEMMA GetSizeWakes ==
  ASSUME Registered, NEW c \in Conn, interest[c] = {"WRITE"},
         client[c].state = "SEND_GET_SIZE", send_get_size(c)
  PROVE  WakeResult(c)
<1> DEFINE cl == IF client[c].simple_response_buf = <<>>
                   THEN [client[c] EXCEPT
                           !.simple_response_buf = SizeField(client[c].file_size),
                           !.simple_response_sent = 0]
                   ELSE client[c]
           buf == cl.simple_response_buf
           done == cl.simple_response_sent
           left == Len(buf) - done
           units(n) == SubSeq(buf, done + 1, done + n)
           cl1(n) == [cl EXCEPT !.simple_response_sent = done + n]
           cl2 == [cl EXCEPT !.simple_response_buf = <<>>,
                             !.simple_response_sent = 0,
                             !.state = "SEND_GET_DATA"]
<1>1. ASSUME NEW x, close_and_cleanup(c, x, dir) PROVE WakeResult(c)
  BY <1>1, ClosedWakes
<1>2. cl \in ClientType /\ cl.state = "SEND_GET_SIZE"
  <2>1. client[c] \in ClientType
    BY DEF Registered, Typed
  <2>2. SizeField(client[c].file_size) \in Seq(RespUnit)
    BY <2>1, FixedResponses DEF ClientType
  <2> QED
    BY <2>1, <2>2 DEF ClientType
<1>3. ASSUME NEW n, n < left, Written(c, units(n), n < left),
             Keep(c, cl1(n), dir)
      PROVE  WakeResult(c)
  <2> HIDE DEF cl
  <2>1. cl1(n).state \in Sending
    BY <1>2 DEF ClientType, Sending
  <2>2. Written(c, units(n), TRUE)
    BY <1>3 DEF Written
  <2> HIDE DEF cl1, units
  <2> QED
    BY <1>3, <2>1, <2>2, FilledWakes
<1>4. CASE Watch(c, cl2, dir, "WRITE")
  <2> HIDE DEF cl
  <2>1. cl2.state \in Sending
    BY <1>2 DEF ClientType, Sending
  <2> HIDE DEF cl2
  <2> QED
    BY <1>4, <2>1, WatchWakes
<1> QED
  BY <1>1, <1>3, <1>4 DEF send_get_size

LEMMA GetDataWakes ==
  ASSUME Registered, NEW c \in Conn, interest[c] = {"WRITE"},
         client[c].state = "SEND_GET_DATA", send_get_data(c)
  PROVE  WakeResult(c)
<1> DEFINE cl1(n) == [client[c] EXCEPT !.bytes_transferred = n]
<1>1. ASSUME NEW x, close_and_cleanup(c, x, dir) PROVE WakeResult(c)
  BY <1>1, ClosedWakes
<1>2. ASSUME NEW n, NEW units, Written(c, units, TRUE), Keep(c, cl1(n), dir)
      PROVE  WakeResult(c)
  <2>1. cl1(n).state \in Sending
    BY DEF Registered, Typed, ClientType, Sending
  <2> HIDE DEF cl1
  <2> QED
    BY <1>2, <2>1, FilledWakes
<1> QED
  BY <1>1, <1>2 DEF send_get_data

LEMMA WriteWakes ==
  ASSUME "eagain" \notin Faults, Registered, NEW c \in Conn, Asking(c),
         handle_write_event(c)
  PROVE  WakeResult(c)
<1> DEFINE cl == client[c]
<1>1. cl \in ClientType
  BY DEF Registered, Typed
<1>2. cl.state \in Sending => interest[c] = {"WRITE"}
  BY DEF Asking
<1>3. CASE /\ cl.state \in {"SEND_OK", "SEND_ERROR"}
           /\ execute_simple_response_write(c, cl, dir)
  <2> HIDE DEF cl
  <2> QED
    BY <1>1, <1>3, ResponseWakes
<1> QED
  BY <1>2, <1>3, ListDataWakes, GetSizeWakes, GetDataWakes
  DEF handle_write_event, Sending

-----------------------------------------------------------------------------
(***************************************************************************)
(* The steps.                                                              *)
(***************************************************************************)
Chosen == \A c \in Conn : Made(c) => req[c] \in Requests[c]

LEMMA ChosenNext == IInv /\ Chosen /\ [Next]_vars => Chosen'
<1> SUFFICES ASSUME IInv, Chosen, [Next]_vars PROVE Chosen'
  OBVIOUS
<1>1. ASSUME NEW c \in Conn, Dispatch(c) PROVE Chosen'
  <2>1. /\ sock[c] = "open" /\ req' = req
        /\ \A x \in Conn : x # c => sock'[x] = sock[x]
    <3>1. Typed
      BY DEF IInv, TypeOK, Typed
    <3> QED
      BY <1>1, <3>1, DispatchHandled, OthersFrame DEF peerVars
  <2> QED
    BY <2>1 DEF Chosen, Made
<1>2. ASSUME NEW c \in Conn, Connect(c) PROVE Chosen'
  <2>1. PICK r \in Requests[c] : req' = [req EXCEPT ![c] = r]
    BY <1>2 DEF Connect
  <2>2. sock' = [sock EXCEPT ![c] = "backlog"]
    BY <1>2 DEF Connect
  <2> QED
    BY <2>1, <2>2 DEF Chosen, Made, IInv, TypeOK
<1>3. CASE UNCHANGED <<req, sock>>
  BY <1>3 DEF Chosen, Made
<1>4. CASE accept_connections
  BY <1>4 DEF accept_connections, peerVars, Chosen, Made
<1> QED
  BY <1>1, <1>2, <1>3, <1>4
  DEF Next, Idle, Peer, event_loop_wait, Arrive, Close, Reset, Drain, vars,
      peerVars

LEMMA HandlerWakes ==
  ASSUME WakesAssured, IInv, Chosen, WakeInv, NEW c \in Conn, Dispatch(c)
  PROVE  WakeResult(c)
<1>1. /\ sock[c] = "open" /\ Made(c) /\ Good(c, client[c], taken[c])
      /\ taken[c] <= arrived[c] /\ Context /\ DirOK(dir) /\ DataOK(data)
      /\ UNCHANGED peerVars
  BY DispatchHandled
<1>2. Registered
  BY DEF Registered, Typed, IInv, TypeOK
<1>3. "eagain" \notin Faults /\ EdgeTriggered => req[c].verb # "NUL"
  BY <1>1 DEF WakesAssured, Chosen
<1>4. Asking(c) /\ batch[c] \ {"ERROR"} \subseteq interest[c]
  BY <1>1 DEF WakeInv, AwakeOK
<1>5. CASE HandleError(c)
  BY <1>2, <1>5, ClosedWakes DEF HandleError
<1>6. CASE HandleRead(c)
  BY <1>1, <1>2, <1>3, <1>4, <1>6, ReadWakes DEF HandleRead, WakesAssured
<1>7. CASE HandleWrite(c)
  BY <1>2, <1>4, <1>7, WriteWakes DEF HandleWrite, WakesAssured
<1> QED
  BY <1>5, <1>6, <1>7 DEF Dispatch

LEMMA DispatchAwake ==
  ASSUME WakesAssured, IInv, Chosen, WakeInv, NEW c \in Conn, Dispatch(c)
  PROVE  WakeInv'
<1> SUFFICES ASSUME NEW x \in Conn PROVE AwakeOK(x)'
  BY DEF WakeInv
<1>1. WakeResult(c)
  BY HandlerWakes
<1>2. /\ batch' = [batch EXCEPT ![c] = {}] /\ batch \in [Conn -> SUBSET Event]
      /\ arrived' = arrived /\ fin' = fin
  BY DispatchHandled DEF peerVars, IInv, TypeOK
<1>3. CASE x = c
  <2>1. batch'[c] = {}
    BY <1>2
  <2> QED
    BY <1>1, <1>3, <2>1 DEF WakeResult, AwakeOK
<1>4. CASE x # c
  <2>1. Typed
    BY DEF IInv, TypeOK, Typed
  <2>2. /\ sock'[x] = sock[x] /\ client'[x] = client[x] /\ taken'[x] = taken[x]
        /\ x \in full' <=> x \in full
        /\ x \in rst' <=> x \in rst
    BY <1>4, <2>1, OthersFrame
  <2>3. /\ interest'[x] = interest[x] /\ batch'[x] = batch[x]
        /\ x \in armed' <=> x \in armed
    BY <1>1, <1>2, <1>4 DEF WakeResult
  <2>4. CanGoOn(x)' <=> CanGoOn(x)
    BY <1>2, <2>2 DEF CanGoOn, Readable, Writable, Eof
  <2>5. AwakeOK(x)
    BY DEF WakeInv
  <2> QED
    BY <2>2, <2>3, <2>4, <2>5 DEF AwakeOK, Asking
<1> QED
  BY <1>3, <1>4

(* A client that a wait does not report stays on the ready list.           *)
LEMMA WaitAwake ==
  ASSUME IInv, WakeInv, event_loop_wait
  PROVE  WakeInv'
<1> SUFFICES ASSUME NEW x \in Conn PROVE AwakeOK(x)'
  BY DEF WakeInv
<1>1. PICK S \in SUBSET Candidates :
        /\ batch' = [c \in Conn |-> IF c \in S THEN Poll(c) ELSE {}]
        /\ armed' = armed \ S
  BY DEF event_loop_wait
<1>2. /\ UNCHANGED <<req, arrived, fin, sock, taken, resp, full, rst, interest,
                     client>>
      /\ batch[x] = {}
  BY DEF event_loop_wait, peerVars, writeVars
<1>3. Asking(x)' <=> Asking(x)
  BY <1>2 DEF Asking
<1>4. CanGoOn(x)' <=> CanGoOn(x)
  BY <1>2 DEF CanGoOn, Readable, Writable, Eof
<1>5. AwakeOK(x)
  BY DEF WakeInv
<1>6. batch'[x] \ {"ERROR"} \subseteq interest'[x]
  <2>1. Poll(x) \ {"ERROR"} \subseteq interest[x]
    BY DEF Poll, Reported
  <2> QED
    BY <1>1, <1>2, <2>1
<1>7. CASE x \in S
  <2>1. batch'[x] # {}
    BY <1>1, <1>7 DEF Candidates
  <2> QED
    BY <1>2, <1>3, <1>5, <1>6, <2>1 DEF AwakeOK
<1>8. CASE x \notin S
  BY <1>1, <1>2, <1>3, <1>4, <1>5, <1>6, <1>8 DEF AwakeOK
<1> QED
  BY <1>7, <1>8

LEMMA AcceptAwake ==
  ASSUME IInv, WakeInv, accept_connections
  PROVE  WakeInv'
<1> SUFFICES ASSUME NEW x \in Conn PROVE AwakeOK(x)'
  BY DEF WakeInv
<1> DEFINE S == {c \in Conn : sock[c] = "backlog"}
<1>1. /\ sock' = [c \in Conn |-> IF c \in S THEN "open" ELSE sock[c]]
      /\ interest' = [c \in Conn |-> IF c \in S THEN {"READ"} ELSE interest[c]]
      /\ client' = [c \in Conn |-> IF c \in S THEN client_create ELSE client[c]]
      /\ armed' = armed \cup {c \in S : EdgeTriggered /\ Poll(c)' # {}}
      /\ UNCHANGED <<arrived, fin, taken, full, rst, batch>>
  BY DEF accept_connections, peerVars, writeVars
<1>2. AwakeOK(x)
  BY DEF WakeInv
<1>3. CASE x \in S
  <2>1. client'[x] = client_create /\ interest'[x] = {"READ"}
    BY <1>1, <1>3
  <2>2. batch'[x] = {}
    BY <1>1, <1>3 DEF IInv, SocketInv, NoUseAfterFree
  <2>3. /\ client'[x].state = "RECV_HEADER" /\ client'[x].header_len = 0
        /\ "RECV_HEADER" \notin Sending /\ "RECV_HEADER" \in Receiving
    BY <2>1 DEF client_create, Sending, Receiving
  <2>4. Asking(x)'
    <3>1. HeaderLen \in Nat /\ 0 < HeaderLen
      BY ConstantsAssumption
    <3> QED
      BY <2>1, <2>3, <3>1 DEF Asking
  <2>5. CanGoOn(x)' => Poll(x)' # {}
    BY <2>1, <2>3 DEF CanGoOn, Poll, Reported
  <2> QED
    BY <1>1, <1>3, <2>2, <2>4, <2>5 DEF AwakeOK
<1>4. CASE x \notin S
  <2>1. /\ sock'[x] = sock[x] /\ interest'[x] = interest[x]
        /\ client'[x] = client[x] /\ armed \subseteq armed'
    BY <1>1, <1>4
  <2>2. CanGoOn(x)' <=> CanGoOn(x)
    BY <1>1, <2>1 DEF CanGoOn, Readable, Writable, Eof
  <2> QED
    BY <1>1, <1>2, <2>1, <2>2 DEF AwakeOK, Asking
<1> QED
  BY <1>3, <1>4

(* A change of a socket wakes the client that waits for it.                *)
LEMMA PeerAwake ==
  ASSUME IInv, WakeInv, NEW c \in Conn,
         Arrive(c) \/ Close(c) \/ Reset(c) \/ Drain(c)
  PROVE  WakeInv'
<1> SUFFICES ASSUME NEW x \in Conn PROVE AwakeOK(x)'
  BY DEF WakeInv
<1>1. UNCHANGED <<sock, taken, interest, batch, client>>
  BY DEF Arrive, Close, Reset, Drain
<1>2. AwakeOK(x) /\ armed \subseteq armed'
  BY DEF WakeInv, Arrive, Close, Reset, Drain, Notify
<1>3. CASE CanGoOn(x)' => CanGoOn(x)
  BY <1>1, <1>2, <1>3 DEF AwakeOK, Asking
<1>4. ASSUME EdgeTriggered, sock[x] = "open", CanGoOn(x)', ~CanGoOn(x)
      PROVE  x \in armed'
  <2>1. Asking(x) /\ interest[x] # {}
    BY <1>2, <1>4 DEF AwakeOK, IInv, SocketInv
  <2>2. CASE Arrive(c)
    <3>1. /\ arrived \in [Conn -> Nat] /\ UNCHANGED <<fin, full, rst>>
          /\ \A y \in Conn : y # c => arrived'[y] = arrived[y]
          /\ armed' = armed \cup {y \in {c} : EdgeTriggered /\ interest[c] # {}
                                                /\ "READ" \in interest[c]}
      BY <2>2 DEF Arrive, Notify, writeVars, IInv, TypeOK
    <3>2. x = c /\ client[x].state \in Receiving
      BY <1>1, <1>4, <3>1 DEF CanGoOn, Readable, Writable, Eof
    <3> QED
      BY <1>4, <2>1, <3>1, <3>2 DEF Asking
  <2>3. CASE Close(c)
    <3>1. /\ UNCHANGED <<arrived, full, rst>> /\ fin' = fin \cup {c}
          /\ armed' = armed \cup {y \in {c} : EdgeTriggered /\ interest[c] # {}
                                                /\ "READ" \in interest[c]}
      BY <2>3 DEF Close, Notify, writeVars
    <3>2. x = c /\ client[x].state \in Receiving
      BY <1>1, <1>4, <3>1 DEF CanGoOn, Readable, Writable, Eof
    <3> QED
      BY <1>4, <2>1, <3>1, <3>2 DEF Asking
  <2>4. CASE Reset(c)
    <3>1. /\ UNCHANGED <<arrived, fin, full>> /\ rst' = rst \cup {c}
          /\ armed' = armed \cup {y \in {c} : EdgeTriggered /\ interest[c] # {}}
      BY <2>4 DEF Reset, Notify, peerVars
    <3>2. x = c
      BY <1>1, <1>4, <3>1 DEF CanGoOn, Readable, Writable, Eof
    <3> QED
      BY <1>4, <2>1, <3>1, <3>2
  <2>5. CASE Drain(c)
    <3>1. /\ UNCHANGED <<arrived, fin, rst>> /\ full' = full \ {c}
          /\ armed' = armed \cup {y \in {c} : EdgeTriggered /\ interest[c] # {}
                                                /\ "WRITE" \in interest[c]}
      BY <2>5 DEF Drain, Notify, peerVars
    <3>2. x = c /\ client[x].state \in Sending
      BY <1>1, <1>4, <3>1 DEF CanGoOn, Readable, Writable, Eof
    <3> QED
      BY <1>4, <2>1, <3>1, <3>2 DEF Asking
  <2> QED
    BY <2>2, <2>3, <2>4, <2>5
<1> QED
  BY <1>1, <1>2, <1>3, <1>4 DEF AwakeOK, Asking

LEMMA WakesNext ==
  ASSUME WakesAssured
  PROVE  IInv /\ Chosen /\ WakeInv /\ [Next]_vars => WakeInv'
<1> SUFFICES ASSUME IInv, Chosen, WakeInv, [Next]_vars PROVE WakeInv'
  OBVIOUS
<1>1. ASSUME NEW c \in Conn, Connect(c) PROVE WakeInv'
  <2> SUFFICES ASSUME NEW x \in Conn PROVE AwakeOK(x)'
    BY DEF WakeInv
  <2>1. /\ sock' = [sock EXCEPT ![c] = "backlog"]
        /\ UNCHANGED <<arrived, fin, taken, full, rst, interest, armed, batch,
                       client>>
    BY <1>1 DEF Connect, writeVars
  <2>2. sock'[x] = "open" => sock[x] = "open"
    BY <2>1 DEF IInv, TypeOK
  <2>3. CanGoOn(x)' <=> CanGoOn(x)
    BY <2>1 DEF CanGoOn, Readable, Writable, Eof
  <2>4. AwakeOK(x)
    BY DEF WakeInv
  <2> QED
    BY <2>1, <2>2, <2>3, <2>4 DEF AwakeOK, Asking
<1>2. CASE UNCHANGED vars
  <2>1. UNCHANGED <<arrived, fin, taken, full, rst, interest, armed, batch,
                    client, sock>>
    BY <1>2 DEF vars, peerVars, writeVars
  <2>2. \A x \in Conn : CanGoOn(x)' <=> CanGoOn(x)
    BY <2>1 DEF CanGoOn, Readable, Writable, Eof
  <2> QED
    BY <2>1, <2>2 DEF WakeInv, AwakeOK, Asking
<1> QED
  BY <1>1, <1>2, DispatchAwake, WaitAwake, AcceptAwake, PeerAwake
  DEF Next, Idle, Peer

-----------------------------------------------------------------------------
(***************************************************************************)
(* The theorems.                                                           *)
(***************************************************************************)

(* Every client is registered for the event its state waits for, and one   *)
(* that can go on is in the batch or on the ready list (server.c:281, 324, *)
(* 436, 540, 550, 581, 630, 639).                                          *)
THEOREM ClientsAwake == WakesAssured => (Spec => []WakeInv)
<1> SUFFICES ASSUME WakesAssured PROVE Spec => []WakeInv
  OBVIOUS
<1>1. Init => Chosen /\ WakeInv
  BY DEF Init, Chosen, Made, WakeInv, AwakeOK
<1>2. IInv /\ Chosen /\ WakeInv /\ [Next]_vars => Chosen' /\ WakeInv'
  BY ChosenNext, WakesNext
<1> QED
  BY <1>1, <1>2, ServerInvariant, PTL DEF Spec

(* With either back end, no client that has something to read or room to   *)
(* write is left without an event to come, whatever the handlers of the    *)
(* others do meanwhile.                                                    *)
THEOREM NoWakeupIsLost == WakesAssured => (Spec => []NoLostWakeup)
<1> SUFFICES ASSUME WakesAssured PROVE Spec => []NoLostWakeup
  OBVIOUS
<1>1. WakeInv => NoLostWakeup
  <2> SUFFICES ASSUME WakeInv, NEW c \in Conn, sock[c] = "open", CanGoOn(c)
               PROVE  Scheduled(c)
    BY DEF NoLostWakeup
  <2>1. Asking(c) /\ (EdgeTriggered => batch[c] # {} \/ c \in armed)
    BY DEF WakeInv, AwakeOK
  <2>2. Poll(c) # {}
    BY <2>1 DEF CanGoOn, Asking, Poll, Reported
  <2> QED
    BY <2>1, <2>2 DEF Scheduled
<1> QED
  BY <1>1, ClientsAwake, PTL

=============================================================================
