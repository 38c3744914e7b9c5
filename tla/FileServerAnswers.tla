------------------------- MODULE FileServerAnswers -------------------------
(***************************************************************************)
(* Proofs, for every value of the constants, that what a peer is sent is   *)
(* always the beginning of one well-formed response to its request, that a *)
(* download sends each unit where it stands in the file, that the server   *)
(* ends a connection only with a whole response, and that it ends none in  *)
(* silence whose peer has sent its command line and stays.                 *)
(*                                                                         *)
(* The argument: the state of a client and its counters say how much of    *)
(* which response has been sent (Telling).  Each handler keeps that, or    *)
(* closes the connection for a reason ClosedComplete allows (AnswerResult).*)
(* A client has been sent its status line when it is gone (HeardOut).      *)
(***************************************************************************)
EXTENDS FileServerReplies

-----------------------------------------------------------------------------
(***************************************************************************)
(* Responses as sequences.                                                 *)
(***************************************************************************)
LEMMA TwoLines ==
  /\ OkLine \in Seq(RespUnit) /\ Len(OkLine) = 2
  /\ OkLine[1] = <<"OK", 1>> /\ OkLine[2] = <<"OK", 2>>
  /\ \A m \in Message :
       /\ ErrorLines(m) \in Seq(RespUnit) /\ Len(ErrorLines(m)) = 2
       /\ ErrorLines(m)[1] = <<"ERROR", 1>>
  /\ \A n \in Nat :
       /\ SizeField(n) \in Seq(RespUnit) /\ Len(SizeField(n)) = 2
       /\ SizeField(n)[1] = <<"SIZE", n>> /\ SizeField(n)[2] = <<"SIZE", n>>
BY FixedResponses DEF OkLine, ErrorLines, SizeField

(* The next units of a response, each in its place.                        *)
InTurn(c, n, s, units) ==
  /\ Len(s) + Len(units) <= 4 + n
  /\ \A k \in 1..Len(units) :
       IF Len(s) + k <= 4 THEN units[k] = <<"SIZE", n>>
       ELSE BodyUnitOK(c, units[k], Len(s) + k - 4)

LEMMA AnswersMore ==
  ASSUME NEW c \in Conn, NEW n \in Nat, NEW s \in Seq(RespUnit),
         NEW units \in Seq(RespUnit), Answers(c, n, s), InTurn(c, n, s, units)
  PROVE  /\ Answers(c, n, s \o units)
         /\ Len(s \o units) = Len(s) + Len(units)
<1> DEFINE t == s \o units
<1>1. /\ t \in Seq(RespUnit) /\ Len(t) = Len(s) + Len(units)
      /\ \A p \in 1..Len(s) + Len(units) :
           t[p] = IF p <= Len(s) THEN s[p] ELSE units[p - Len(s)]
  BY ConcatProperties
<1>2. Len(s) \in Nat /\ Len(units) \in Nat /\ Len(s) \in 2..(4 + n)
  BY DEF Answers
<1> HIDE DEF t
<1>3. Len(t) \in 2..(4 + n)
  BY <1>1, <1>2 DEF InTurn
<1>4. t[1] = <<"OK", 1>> /\ t[2] = <<"OK", 2>>
  BY <1>1, <1>2 DEF Answers
<1>5. ASSUME NEW p \in 3..Len(t)
      PROVE  IF p <= 4 THEN t[p] = <<"SIZE", n>>
             ELSE BodyUnitOK(c, t[p], p - 4)
  <2>1. CASE p <= Len(s)
    <3>1. t[p] = s[p] /\ p \in 3..Len(s)
      BY <1>1, <1>2, <2>1
    <3> QED
      BY <3>1 DEF Answers
  <2>2. CASE p > Len(s)
    <3> DEFINE k == p - Len(s)
    <3>1. t[p] = units[k] /\ k \in 1..Len(units) /\ Len(s) + k = p
      BY <1>1, <1>2, <2>2
    <3> HIDE DEF k
    <3> QED
      BY <3>1 DEF InTurn
  <2> QED
    BY <1>2, <2>1, <2>2
<1> QED
  BY <1>1, <1>3, <1>4, <1>5 DEF Answers, t

LEMMA OkAnswers ==
  ASSUME NEW c \in Conn, NEW n \in Nat
  PROVE  Answers(c, n, OkLine)
BY TwoLines DEF Answers

(* Whatever a client has been telling is told when it is closed.           *)
LEMMA PrefixTold ==
  ASSUME NEW c \in Conn, NEW n \in Nat, n <= 2, NEW s,
         \/ s = SubSeq(OkLine, 1, n)
         \/ \E m \in Message : s = SubSeq(ErrorLines(m), 1, n)
  PROVE  Told(c, s)
<1>1. ASSUME NEW t \in Seq(RespUnit), Len(t) = 2, s = SubSeq(t, 1, n)
      PROVE  IsPrefix(s, t)
  <2>1. CASE n = 0
    <3>1. s = <<>>
      BY <1>1, <2>1, SubSeqEmpty
    <3>2. Len(s) = 0 /\ SubSeq(t, 1, 0) = <<>>
      BY <1>1, <3>1, SubSeqEmpty
    <3> QED
      BY <1>1, <3>1, <3>2 DEF IsPrefix
  <2>2. CASE n > 0
    <3>1. Len(s) = n
      BY <1>1, <2>2, SubSeqProperties
    <3> QED
      BY <1>1, <3>1 DEF IsPrefix
  <2> QED
    BY <2>1, <2>2
<1> QED
  BY <1>1, TwoLines DEF Told

LEMMA AnswersTold ==
  ASSUME NEW c \in Conn, NEW n \in Nat, NEW s \in Seq(RespUnit),
         req[c].verb \in {"GET", "LIST"}, Answers(c, n, s)
  PROVE  Told(c, s)
<1>1. Len(s) \in Nat /\ Len(s) >= 2 /\ s[1] = OkLine[1] /\ s[2] = OkLine[2]
  BY TwoLines DEF Answers
<1>2. CASE Len(s) = 2
  <2>1. s = OkLine
    <3>1. \A p \in 1..Len(s) : s[p] = OkLine[p]
      BY <1>1, <1>2
    <3>2. OkLine \in Seq(RespUnit) /\ Len(OkLine) = 2
      BY TwoLines
    <3> QED
      BY <1>2, <3>1, <3>2, SeqEqual
  <2>2. OkLine = SubSeq(OkLine, 1, 2)
    BY TwoLines, SubSeqFull
  <2>3. 2 \in Nat /\ 2 <= 2
    OBVIOUS
  <2> QED
    BY <2>1, <2>2, <2>3, PrefixTold
<1>3. CASE Len(s) > 2
  <2>1. s[3] = <<"SIZE", n>>
    BY <1>1, <1>3 DEF Answers
  <2>2. s[3][2] = n
    BY <2>1
  <2>3. Answers(c, s[3][2], s)
    BY <2>2
  <2> QED
    BY <1>3, <2>3 DEF Told
<1>4. Len(s) = 2 \/ Len(s) > 2
  <2> DEFINE l == Len(s)
  <2>1. l \in Nat /\ l >= 2
    BY <1>1
  <2> HIDE DEF l
  <2>2. l = 2 \/ l > 2
    BY <2>1
  <2> QED
    BY <2>2 DEF l
<1> QED
  BY <1>2, <1>3, <1>4

LEMMA TellingTold ==
  ASSUME NEW c \in Conn, NEW cl, Base(cl), NEW s \in Seq(RespUnit),
         Telling(c, cl, s)
  PROVE  Told(c, s)
<1>1. /\ cl.state \in Receiving \cup Sending /\ cl.simple_response_sent \in Nat
      /\ cl.simple_response_sent <= Len(cl.simple_response_buf)
      /\ cl.file_size \in Nat /\ cl.list_buf \in Seq(RespUnit)
  BY DEF Base, ClientType
<1>2. CASE cl.state \in Receiving
  <2>1. s = SubSeq(OkLine, 1, 0)
    BY <1>2, SubSeqEmpty DEF Telling
  <2>2. 0 \in Nat /\ 0 <= 2
    OBVIOUS
  <2> QED
    BY <2>1, <2>2, PrefixTold
<1>3. CASE cl.state = "SEND_OK"
  BY <1>1, <1>3, TwoLines, PrefixTold DEF Telling, SentOf
<1>4. CASE cl.state = "SEND_ERROR"
  BY <1>1, <1>4, TwoLines, PrefixTold DEF Telling, SentOf
<1>5. CASE cl.state \in {"SEND_GET_SIZE", "SEND_GET_DATA"}
  BY <1>1, <1>5, AnswersTold DEF Telling
<1>6. CASE cl.state = "SEND_LIST_DATA"
  <2>1. Len(cl.list_buf) - 2 \in Nat
    BY <1>1, <1>6 DEF Telling, ListBuffer
  <2> QED
    BY <1>6, <2>1, AnswersTold DEF Telling
<1> QED
  BY <1>1, <1>2, <1>3, <1>4, <1>5, <1>6 DEF Sending

-----------------------------------------------------------------------------
(***************************************************************************)
(* The simple response.                                                    *)
(***************************************************************************)

(* How a handler may leave a connection: still telling, or closed for one  *)
(* of the reasons ClosedComplete names.                                    *)
MayEnd(c) ==
  c \in rst' \/ resp'[c] = <<>> \/ Complete(c)' \/ FileWasCut(c)

AnswerResult(c) ==
  \/ sock'[c] = sock[c] /\ Telling(c, client'[c], resp'[c])
  \/ sock'[c] = "closed" /\ Told(c, resp'[c]) /\ MayEnd(c)

LEMMA BrokenResult ==
  ASSUME Typed, NEW c \in Conn, NEW cl, NEW d, Told(c, resp[c]),
         WriteError(c, <<>>), close_and_cleanup(c, cl, d)
  PROVE  AnswerResult(c)
<1>1. resp'[c] = resp[c]
  <2>1. resp[c] \o <<>> = resp[c]
    BY ConcatEmptySeq DEF Typed
  <2> QED
    BY <2>1 DEF WriteError, Typed
<1>2. c \in rst' /\ sock'[c] = "closed"
  BY DEF WriteError, close_and_cleanup, Typed
<1> QED
  BY <1>1, <1>2 DEF AnswerResult, MayEnd

LEMMA ListBufferOK ==
  ASSUME NEW files \in Seq(Name)
  PROVE  LET buf == build_list_buffer(files) IN
         buf \in Seq(RespUnit) /\ ListBuffer(buf) /\ Len(buf) >= 2
<1> DEFINE names == [i \in 1..Len(files) |-> <<"FILE", files[i]>>]
           buf == build_list_buffer(files)
           size == SizeField(Len(files))
<1>1. names \in Seq(RespUnit) /\ Len(names) = Len(files)
  BY DEF RespUnit
<1>2. Len(files) \in Nat
  OBVIOUS
<1>3. /\ size \in Seq(RespUnit) /\ Len(size) = 2
      /\ size[1] = <<"SIZE", Len(files)>> /\ size[2] = <<"SIZE", Len(files)>>
  BY <1>2, TwoLines
<1>4. \A i \in 1..Len(files) : names[i][1] = "FILE"
  OBVIOUS
<1>5. buf = size \o names
  BY DEF build_list_buffer
<1> HIDE DEF names, buf, size
<1>6. /\ buf \in Seq(RespUnit) /\ Len(buf) = 2 + Len(files)
      /\ \A p \in 1..(2 + Len(files)) :
           buf[p] = IF p <= 2 THEN size[p] ELSE names[p - 2]
  <2>1. /\ buf \in Seq(RespUnit) /\ Len(buf) = Len(size) + Len(names)
        /\ \A p \in 1..(Len(size) + Len(names)) :
             buf[p] = IF p <= Len(size) THEN size[p] ELSE names[p - Len(size)]
    <3>1. size \in Seq(RespUnit) /\ names \in Seq(RespUnit)
      BY <1>1, <1>3
    <3> QED
      BY <3>1, <1>5, ConcatProperties
  <2>2. Len(size) = 2 /\ Len(names) = Len(files)
    BY <1>1, <1>3
  <2> QED
    BY <2>1, <2>2
<1>7. ASSUME NEW p \in 1..Len(buf)
      PROVE  IF p <= 2 THEN buf[p] = <<"SIZE", Len(buf) - 2>>
             ELSE buf[p][1] = "FILE"
  <2>1. CASE p <= 2
    <3>1. p = 1 \/ p = 2
      BY <1>2, <1>6, <2>1
    <3>2. Len(buf) - 2 = Len(files)
      BY <1>2, <1>6
    <3> QED
      BY <1>3, <1>6, <2>1, <3>1, <3>2
  <2>2. CASE p > 2
    <3>1. p - 2 \in 1..Len(files) /\ buf[p] = names[p - 2]
      BY <1>2, <1>6, <2>2
    <3> QED
      BY <1>4, <2>2, <3>1
  <2> QED
    BY <1>2, <1>6, <2>1, <2>2
<1>8. Len(buf) >= 2
  BY <1>2, <1>6
<1>9. ListBuffer(buf)
  BY <1>7, <1>8 DEF ListBuffer
<1> QED
  BY <1>6, <1>8, <1>9 DEF buf

(* The status line is followed by a size field and a body, or by the end.  *)
LEMMA ResponseTold ==
  ASSUME Typed, req' = req, server_files \in Seq(Name), NEW c \in Conn,
         NEW cl, Base(cl), cl.state \in {"SEND_OK", "SEND_ERROR"},
         cl.state = "SEND_OK" => cl.request_verb = req[c].verb,
         Telling(c, cl, resp[c]),
         NEW d, execute_simple_response_write(c, cl, d)
  PROVE  AnswerResult(c)
<1> DEFINE buf == cl.simple_response_buf
           done == cl.simple_response_sent
           left == Len(buf) - done
           cl1(n) == [cl EXCEPT !.simple_response_sent = done + n]
           units(n) == SubSeq(buf, done + 1, done + n)
<1>1. /\ cl \in ClientType /\ done \in Nat /\ done <= Len(buf)
      /\ cl.file_size \in Nat
  BY DEF Base, ClientType
<1>2. /\ buf \in Seq(RespUnit) /\ Len(buf) = 2
      /\ resp[c] = SubSeq(buf, 1, done)
      /\ cl.state = "SEND_OK" => buf = OkLine
      /\ cl.state = "SEND_ERROR" => \E m \in Message : buf = ErrorLines(m)
  BY TwoLines DEF Telling, SentOf
<1>3. Told(c, resp[c])
  BY TellingTold DEF Typed
<1>4. CASE WriteError(c, <<>>) /\ close_and_cleanup(c, cl, d)
  BY <1>3, <1>4, BrokenResult
<1>5. ASSUME NEW n \in Accepts(left), Written(c, units(n), n < left),
             \/ n = 0 /\ left > 0 /\ Keep(c, cl, d)
             \/ 0 < n /\ n < left /\ Watch(c, cl1(n), d, "WRITE")
             \/ /\ n = left /\ cl.state = "SEND_OK"
                /\ cl.request_verb = "LIST"
                /\ start_send_list(c, cl1(n), d)
             \/ /\ n = left /\ cl.state = "SEND_OK"
                /\ cl.request_verb = "GET"
                /\ Watch(c, ToGetSize(cl1(n)), d, "WRITE")
             \/ /\ n = left
                /\ cl.state = "SEND_ERROR" \/ cl.request_verb \in {"PUT", "DELETE"}
                /\ close_and_cleanup(c, [cl1(n) EXCEPT !.state = "DONE"], d)
      PROVE  AnswerResult(c)
  <2>1. left \in Nat /\ done + left = 2
    BY <1>1, <1>2
  <2>2. n \in Nat /\ n <= left
    BY <1>5, <2>1, AcceptsRange
  <2>3. resp'[c] = SubSeq(buf, 1, done + n)
    <3>1. resp'[c] = SubSeq(buf, 1, done) \o SubSeq(buf, done + 1, done + n)
      BY <1>2, <1>5 DEF Written, Typed
    <3> HIDE DEF buf, done
    <3>2. /\ 1 \in 1..(Len(buf) + 1) /\ done \in (1 - 1)..Len(buf)
          /\ done + n \in done..Len(buf)
      BY <1>1, <1>2, <2>1, <2>2
    <3> QED
      BY <1>1, <1>2, <3>1, <3>2, ConcatAdjacentSubSeq
  <2>4. n = left => resp'[c] = buf
    BY <1>2, <2>1, <2>3, SubSeqFull
  <2>5. /\ cl1(n).state = cl.state /\ cl1(n).simple_response_buf = buf
        /\ cl1(n).simple_response_sent = done + n
        /\ cl1(n).request_verb = cl.request_verb
        /\ cl1(n).bytes_transferred = cl.bytes_transferred
        /\ cl1(n).file_size = cl.file_size
    BY <1>1 DEF ClientType
  <2>6. cl1(n) \in ClientType
    <3>1. done + n \in Nat
      BY <1>1, <2>2
    <3> HIDE DEF done, left
    <3> QED
      BY <1>1, <3>1 DEF ClientType
  <2> HIDE DEF cl1
  <2>7. Telling(c, cl1(n), resp'[c])
    BY <1>2, <2>3, <2>5 DEF Telling, SentOf, Receiving
  <2>8. ASSUME NEW x, Telling(c, x, resp'[c]), client'[c] = x, sock' = sock
        PROVE  AnswerResult(c)
    BY <2>8 DEF AnswerResult
  <2>9. CASE n = 0 /\ left > 0 /\ Keep(c, cl, d)
    <3>1. client'[c] = cl /\ sock' = sock
      BY <2>9 DEF Keep, Typed
    <3>2. resp'[c] = resp[c]
      BY <1>1, <1>2, <2>3, <2>9
    <3> QED
      BY <2>8, <3>1, <3>2
  <2>10. CASE 0 < n /\ n < left /\ Watch(c, cl1(n), d, "WRITE")
    <3>1. client'[c] = cl1(n) /\ sock' = sock
      BY <2>10 DEF Watch, Typed
    <3> QED
      BY <2>7, <2>8, <3>1
  <2>11. CASE /\ n = left /\ cl.state = "SEND_OK" /\ cl.request_verb = "LIST"
              /\ start_send_list(c, cl1(n), d)
    <3> DEFINE cl2 == [cl1(n) EXCEPT
                         !.list_buf = build_list_buffer(server_files),
                         !.list_sent = 0, !.state = "SEND_LIST_DATA"]
    <3>1. /\ cl2.state = "SEND_LIST_DATA" /\ cl2.list_sent = 0
          /\ cl2.list_buf = build_list_buffer(server_files)
      BY <2>6 DEF ClientType
    <3>2. client'[c] = cl2 /\ sock' = sock
      BY <2>11 DEF start_send_list, Watch, Typed
    <3> HIDE DEF cl2
    <3>3. ListBuffer(cl2.list_buf) /\ Len(cl2.list_buf) - 2 \in Nat
      <4>1. ListBuffer(cl2.list_buf) /\ cl2.list_buf \in Seq(RespUnit)
        BY <3>1, ListBufferOK
      <4>2. Len(cl2.list_buf) >= 2 /\ Len(cl2.list_buf) \in Nat
        BY <4>1 DEF ListBuffer
      <4> QED
        BY <4>1, <4>2
    <3>4. resp'[c] = OkLine /\ req[c].verb = "LIST"
      BY <1>2, <2>4, <2>11
    <3>5. Answers(c, Len(cl2.list_buf) - 2, resp'[c]) /\ Len(resp'[c]) = 2 + 0
      BY <3>3, <3>4, OkAnswers, TwoLines
    <3>6. Telling(c, cl2, resp'[c])
      BY <3>1, <3>3, <3>4, <3>5 DEF Telling, Receiving
    <3> QED
      BY <2>8, <3>2, <3>6
  <2>12. CASE /\ n = left /\ cl.state = "SEND_OK" /\ cl.request_verb = "GET"
              /\ Watch(c, ToGetSize(cl1(n)), d, "WRITE")
    <3> DEFINE cl2 == ToGetSize(cl1(n))
    <3>1. /\ cl2.state = "SEND_GET_SIZE" /\ cl2.simple_response_sent = 0
          /\ cl2.simple_response_buf = <<>> /\ cl2.file_size = cl.file_size
          /\ cl2.bytes_transferred = cl.bytes_transferred
      BY <2>5, <2>6 DEF ClientType, ToGetSize
    <3>2. client'[c] = cl2 /\ sock' = sock
      BY <2>12 DEF Watch, Typed
    <3> HIDE DEF cl2
    <3>3. resp'[c] = OkLine /\ req[c].verb = "GET"
      BY <1>2, <2>4, <2>12
    <3>4. cl.bytes_transferred = 0
      BY <2>12, <3>3 DEF Telling
    <3>5. Answers(c, cl2.file_size, resp'[c]) /\ Len(resp'[c]) = 2 + 0
      BY <1>1, <3>1, <3>3, OkAnswers, TwoLines
    <3>6. Telling(c, cl2, resp'[c])
      BY <3>1, <3>3, <3>4, <3>5 DEF Telling, Receiving
    <3> QED
      BY <2>8, <3>2, <3>6
  <2>13. CASE /\ n = left
              /\ cl.state = "SEND_ERROR" \/ cl.request_verb \in {"PUT", "DELETE"}
              /\ close_and_cleanup(c, [cl1(n) EXCEPT !.state = "DONE"], d)
    <3>1. sock'[c] = "closed"
      BY <2>13 DEF close_and_cleanup, Typed
    <3>2. Told(c, resp'[c])
      <4>1. done + n \in Nat /\ done + n <= 2
        BY <1>1, <2>1, <2>2
      <4> QED
        BY <1>2, <2>3, <4>1, PrefixTold
    <3>3. Complete(c)'
      BY <1>2, <2>4, <2>13 DEF Complete
    <3> QED
      BY <3>1, <3>2, <3>3 DEF AnswerResult, MayEnd
  <2> QED
    BY <1>5, <2>9, <2>10, <2>11, <2>12, <2>13
<1> QED
  BY <1>4, <1>5 DEF execute_simple_response_write

LEMMA OkTold ==
  ASSUME Typed, req' = req, server_files \in Seq(Name), NEW c \in Conn,
         NEW cl, Base(cl), cl.request_verb = req[c].verb,
         req[c].verb = "GET" => cl.bytes_transferred = 0,
         resp[c] = <<>>, NEW d, send_ok(c, cl, d)
  PROVE  AnswerResult(c)
<1> DEFINE cl1 == [cl EXCEPT !.state = "SEND_OK", !.simple_response_buf = OkLine,
                             !.simple_response_sent = 0]
<1>1. /\ cl1 \in ClientType /\ cl1.state = "SEND_OK"
      /\ cl1.simple_response_buf = OkLine /\ cl1.simple_response_sent = 0
      /\ cl1.request_verb = cl.request_verb
      /\ cl1.bytes_transferred = cl.bytes_transferred
      /\ cl1.list_sent = cl.list_sent /\ cl1.list_buf = cl.list_buf
  BY TwoLines DEF Base, ClientType, Sending
<1>2. execute_simple_response_write(c, cl1, d)
  BY DEF send_ok
<1> HIDE DEF cl1
<1>3. Base(cl1)
  BY <1>1, TwoLines DEF Base
<1>4. resp[c] = SubSeq(OkLine, 1, 0)
  BY SubSeqEmpty
<1>5. Telling(c, cl1, resp[c])
  BY <1>1, <1>4 DEF Telling, SentOf, Receiving
<1> QED
  BY <1>1, <1>2, <1>3, <1>5, ResponseTold

LEMMA ErrorTold ==
  ASSUME Typed, req' = req, server_files \in Seq(Name), NEW c \in Conn,
         NEW cl, Base(cl), NEW m \in Message,
         resp[c] = <<>>, NEW d, send_error(c, cl, m, d)
  PROVE  AnswerResult(c)
<1> DEFINE cl1 == [cl EXCEPT !.state = "SEND_ERROR", !.simple_response_sent = 0,
                             !.simple_response_buf = ErrorLines(m)]
<1>1. /\ cl1 \in ClientType /\ cl1.state = "SEND_ERROR"
      /\ cl1.simple_response_buf = ErrorLines(m)
      /\ cl1.simple_response_sent = 0
      /\ cl1.list_sent = cl.list_sent /\ cl1.list_buf = cl.list_buf
  BY TwoLines DEF Base, ClientType, Sending
<1>2. execute_simple_response_write(c, cl1, d)
  BY DEF send_error
<1> HIDE DEF cl1
<1>3. Base(cl1)
  BY <1>1, TwoLines DEF Base
<1>4. resp[c] = SubSeq(ErrorLines(m), 1, 0)
  BY SubSeqEmpty
<1>5. Telling(c, cl1, resp[c])
  BY <1>1, <1>4 DEF Telling, SentOf, Receiving
<1> QED
  BY <1>1, <1>2, <1>3, <1>5, ResponseTold

-----------------------------------------------------------------------------
(***************************************************************************)
(* Reading: an upload, and the command line.                               *)
(***************************************************************************)
LEMMA KeptBase ==
  ASSUME NEW cl, Base(cl), NEW x \in ClientType,
         x.simple_response_sent = cl.simple_response_sent,
         x.simple_response_buf = cl.simple_response_buf,
         x.list_sent = cl.list_sent, x.list_buf = cl.list_buf
  PROVE  Base(x)
BY DEF Base

(* A client that has nothing to say yet.                                   *)
LEMMA StillReading ==
  ASSUME Typed, NEW c \in Conn, resp[c] = <<>>, NoWrite,
         NEW x, x.state \in Receiving, NEW d,
         Keep(c, x, d) \/ Watch(c, x, d, "READ")
  PROVE  AnswerResult(c)
<1>1. client'[c] = x /\ sock' = sock
  BY DEF Keep, Watch, Typed
<1>2. resp'[c] = <<>>
  BY DEF NoWrite, writeVars
<1> QED
  BY <1>1, <1>2 DEF AnswerResult, Telling, Receiving

LEMMA ClosedSilent ==
  ASSUME Typed, NEW c \in Conn, resp[c] = <<>>, NoWrite, NEW x, NEW d,
         close_and_cleanup(c, x, d)
  PROVE  AnswerResult(c)
<1>1. resp'[c] = <<>> /\ sock'[c] = "closed"
  BY DEF NoWrite, writeVars, close_and_cleanup, Typed
<1>2. <<>> = SubSeq(OkLine, 1, 0) /\ 0 \in Nat /\ 0 <= 2
  BY SubSeqEmpty
<1>3. Told(c, <<>>)
  BY <1>2, PrefixTold
<1> QED
  BY <1>1, <1>3 DEF AnswerResult, MayEnd

LEMMA PutDataAnswered ==
  ASSUME Typed, Context, req' = req, NEW c \in Conn,
         NEW t \in Nat, t <= arrived[c],
         NEW cl, Base(cl), cl.state = "RECV_PUT_DATA", Upload(c, cl),
         cl.bytes_transferred <= cl.expected_size, resp[c] = <<>>,
         NEW d, NEW dt, recv_put_data(c, cl, d, dt, t)
  PROVE  AnswerResult(c)
<1> DEFINE need == cl.expected_size - cl.bytes_transferred
           k == Least(arrived[c] - t, need)
           cl1 == [cl EXCEPT !.bytes_transferred = @ + k]
<1>1. /\ cl \in ClientType /\ cl.bytes_transferred \in Nat
      /\ cl.expected_size \in Nat /\ arrived[c] \in Nat
      /\ server_files \in Seq(Name) /\ cl.request_verb = req[c].verb
      /\ req[c].verb = "PUT"
  BY DEF Base, ClientType, Context, Upload
<1>2. need \in Nat /\ arrived[c] - t \in Nat
  BY <1>1
<1> HIDE DEF need
<1>3. k \in Nat
  BY <1>2, LeastRange
<1> HIDE DEF k
<1>4. /\ cl1 \in ClientType /\ cl1.state = "RECV_PUT_DATA"
      /\ cl1.request_verb = cl.request_verb
      /\ cl1.simple_response_sent = cl.simple_response_sent
      /\ cl1.simple_response_buf = cl.simple_response_buf
      /\ cl1.list_sent = cl.list_sent /\ cl1.list_buf = cl.list_buf
  <2>1. cl.bytes_transferred + k \in Nat
    BY <1>1, <1>3
  <2> QED
    BY <1>1, <2>1 DEF ClientType
<1> HIDE DEF cl1
<1>5. Base(cl1)
  BY <1>4, KeptBase
<1>6. ASSUME NEW x, Base(x)
      PROVE  Base(FileClosed(x)) /\ FileClosed(x).request_verb = x.request_verb
  <2> DEFINE y == FileClosed(x)
  <2>1. x \in ClientType
    BY <1>6 DEF Base
  <2>2. /\ y \in ClientType /\ y.request_verb = x.request_verb
        /\ y.simple_response_sent = x.simple_response_sent
        /\ y.simple_response_buf = x.simple_response_buf
        /\ y.list_sent = x.list_sent /\ y.list_buf = x.list_buf
    BY <2>1 DEF FileClosed, ClientType
  <2> HIDE DEF y
  <2>3. Base(y)
    BY <1>6, <2>2, KeptBase
  <2> QED
    BY <2>2, <2>3 DEF y
<1>7. CASE \/ send_error(c, FileClosed(cl), "Bad file size", d)
           \/ send_error(c, FileClosed(cl1), "Bad file size", d)
  <2>1. "Bad file size" \in Message
    BY DEF Message
  <2> QED
    BY <1>1, <1>5, <1>6, <1>7, <2>1, ErrorTold
<1>8. CASE send_ok(c, FileClosed(cl1), d)
  BY <1>1, <1>4, <1>5, <1>6, <1>8, OkTold
<1>9. CASE NoWrite /\ Keep(c, cl1, d)
  BY <1>4, <1>9, StillReading DEF Receiving
<1> QED
  BY <1>7, <1>8, <1>9 DEF recv_put_data, cl1, k, need

LEMMA PutSizeAnswered ==
  ASSUME Typed, Context, req' = req, NEW c \in Conn, Made(c),
         taken[c] <= arrived[c],
         Good(c, client[c], taken[c]), client[c].state = "RECV_PUT_SIZE",
         resp[c] = <<>>, recv_put_size(c), DirOK(dir)
  PROVE  AnswerResult(c)
<1> DEFINE cl == client[c]
           b == cl.bytes_transferred
           need == SizeLen - b
           k == Least(arrived[c] - taken[c], need)
           t == taken[c] + k
           cl1 == [cl EXCEPT !.bytes_transferred = @ + k]
           cl2 == OffsetReset([cl1 EXCEPT !.expected_size = req[c].size])
           i == OpenInode(c, dir, cl.filename)
           cl3 == [cl2 EXCEPT !.file_fd = i, !.state = "RECV_PUT_DATA"]
<1>1. /\ Base(cl) /\ cl \in ClientType /\ b \in Nat /\ b <= SizeLen
      /\ SizeLen \in Nat /\ arrived[c] \in Nat /\ taken[c] \in Nat
      /\ Upload(c, cl) /\ req[c].size \in Nat
      /\ server_files \in Seq(Name)
  BY ConstantsAssumption
     DEF Good, Base, PositionOK, ClientType, Context, Typed, Request
<1>2. cl.state = "RECV_PUT_SIZE" /\ b = cl.bytes_transferred
  OBVIOUS
<1>3. i \in Conn
  BY <1>1, OpenedOK DEF Upload
<1> HIDE DEF i, cl, b
<1>4. need \in Nat /\ arrived[c] - taken[c] \in Nat
  BY <1>1
<1> HIDE DEF need
<1>5. k \in Nat /\ k <= arrived[c] - taken[c]
  BY <1>4, LeastRange
<1> HIDE DEF k
<1>6. t \in Nat /\ t <= arrived[c] /\ b + k \in Nat
  BY <1>1, <1>5
<1> HIDE DEF t
<1>7. /\ cl1 \in ClientType /\ cl1.state = "RECV_PUT_SIZE"
      /\ Upload(c, cl1)
      /\ cl1.simple_response_sent = cl.simple_response_sent
      /\ cl1.simple_response_buf = cl.simple_response_buf
      /\ cl1.list_sent = cl.list_sent /\ cl1.list_buf = cl.list_buf
  BY <1>1, <1>2, <1>6 DEF ClientType, Upload
<1> HIDE DEF cl1
<1>8. Base(cl1)
  BY <1>1, <1>7, KeptBase
<1>9. /\ cl2 \in ClientType /\ Upload(c, cl2)
      /\ cl2.expected_size = req[c].size /\ cl2.bytes_transferred = 0
      /\ cl2.simple_response_sent = cl1.simple_response_sent
      /\ cl2.simple_response_buf = cl1.simple_response_buf
      /\ cl2.list_sent = cl1.list_sent /\ cl2.list_buf = cl1.list_buf
  BY <1>1, <1>7 DEF ClientType, OffsetReset, Upload
<1> HIDE DEF cl2
<1>10. Base(cl2)
  BY <1>8, <1>9, KeptBase
<1>11. /\ cl3 \in ClientType /\ cl3.state = "RECV_PUT_DATA" /\ Upload(c, cl3)
       /\ cl3.expected_size = req[c].size /\ cl3.bytes_transferred = 0
       /\ cl3.simple_response_sent = cl2.simple_response_sent
       /\ cl3.simple_response_buf = cl2.simple_response_buf
       /\ cl3.list_sent = cl2.list_sent /\ cl3.list_buf = cl2.list_buf
  BY <1>3, <1>9 DEF ClientType, Receiving, Upload
<1> HIDE DEF cl3
<1>12. Base(cl3) /\ cl3.bytes_transferred <= cl3.expected_size
  BY <1>1, <1>10, <1>11, KeptBase
<1>13. ASSUME NEW x, Base(x), send_error(c, x, "Bad file size", dir)
       PROVE  AnswerResult(c)
  BY <1>1, <1>13, ErrorTold DEF Message
<1>14. CASE NoWrite /\ Keep(c, cl1, dir)
  BY <1>7, <1>14, StillReading DEF Receiving
<1>15. ASSUME NEW d, NEW dt, recv_put_data(c, cl3, d, dt, t)
       PROVE  AnswerResult(c)
  BY <1>6, <1>11, <1>12, <1>15, PutDataAnswered
<1> QED
  BY <1>8, <1>10, <1>13, <1>14, <1>15
  DEF recv_put_size, cl, b, need, k, t, cl1, cl2, cl3, i

(* A download begins at the first unit of the file.                        *)
LEMMA GetAnswered ==
  ASSUME Typed, Context, req' = req, DirOK(dir), DataOK(data), NEW c \in Conn,
         NEW cl, Base(cl), cl.request_verb = req[c].verb,
         cl.filename \in Name, resp[c] = <<>>, start_send_get(c, cl)
  PROVE  AnswerResult(c)
<1> DEFINE i == dir[cl.filename]
           opened == [cl EXCEPT !.file_fd = i, !.file_size = Len(data[i]),
                                !.bytes_transferred = 0]
<1>1. server_files \in Seq(Name) /\ "No such file" \in Message
  BY DEF Context, Message
<1>2. CASE send_error(c, cl, "No such file", dir)
  BY <1>1, <1>2, ErrorTold
<1>3. CASE i # NoInode /\ send_ok(c, opened, dir)
  <2>1. i \in Conn /\ Len(data[i]) \in Nat
    <3>1. i \in Conn
      BY <1>3 DEF DirOK, Inodes
    <3>2. data[i] \in Seq(Unit)
      BY <3>1 DEF DataOK
    <3> QED
      BY <3>1, <3>2
  <2>2. cl \in ClientType
    BY DEF Base
  <2>3. /\ opened \in ClientType /\ opened.request_verb = cl.request_verb
        /\ opened.bytes_transferred = 0
        /\ opened.simple_response_sent = cl.simple_response_sent
        /\ opened.simple_response_buf = cl.simple_response_buf
        /\ opened.list_sent = cl.list_sent /\ opened.list_buf = cl.list_buf
    BY <2>1, <2>2 DEF ClientType
  <2> HIDE DEF opened
  <2>4. Base(opened)
    BY <2>3, KeptBase
  <2> QED
    BY <1>1, <1>3, <2>3, <2>4, OkTold
<1> QED
  BY <1>2, <1>3 DEF start_send_get

LEMMA HeaderAnswered ==
  ASSUME Typed, Context, req' = req, DirOK(dir), DataOK(data), NEW c \in Conn,
         taken[c] <= arrived[c], Good(c, client[c], taken[c]),
         client[c].state = "RECV_HEADER", resp[c] = <<>>, read_header(c)
  PROVE  AnswerResult(c)
<1> DEFINE k == HeaderUnits(c)
           cl == [client[c] EXCEPT !.header_len = @ + k]
           r == req[c]
           named == [cl EXCEPT !.request_verb = r.verb, !.filename = r.name]
           next == [named EXCEPT !.bytes_transferred = 0,
                                 !.state = "RECV_PUT_SIZE"]
           known == [cl EXCEPT !.request_verb = r.verb]
           list == [cl EXCEPT !.request_verb = "LIST"]
<1>1. /\ client[c] \in ClientType /\ client[c].header_len \in 0..HeaderLen
      /\ Base(client[c]) /\ taken[c] \in Nat
      /\ HeaderLen \in Nat /\ arrived[c] \in Nat
      /\ r \in Request /\ server_files \in Seq(Name)
  BY ConstantsAssumption DEF Good, Base, ClientType, Context, Typed
<1>2. k \in Nat /\ client[c].header_len + k \in 0..HeaderLen
  <2>1. /\ HeaderLen - client[c].header_len \in Nat
        /\ arrived[c] - taken[c] \in Nat
    BY <1>1
  <2>2. k \in Nat /\ k <= HeaderLen - client[c].header_len
    BY <2>1 DEF HeaderUnits, Least
  <2> HIDE DEF k
  <2> QED
    BY <1>1, <2>2
<1> HIDE DEF k
<1>3. /\ cl \in ClientType /\ cl.state = "RECV_HEADER"
      /\ cl.simple_response_sent = client[c].simple_response_sent
      /\ cl.simple_response_buf = client[c].simple_response_buf
      /\ cl.list_sent = client[c].list_sent /\ cl.list_buf = client[c].list_buf
  BY <1>1, <1>2 DEF ClientType
<1> HIDE DEF cl, r
<1>4. Base(cl)
  BY <1>1, <1>3, KeptBase
<1>5. ASSUME r.verb \in Verb
      PROVE  Base(known)
  <2>1. /\ known \in ClientType
        /\ known.simple_response_sent = cl.simple_response_sent
        /\ known.simple_response_buf = cl.simple_response_buf
        /\ known.list_sent = cl.list_sent /\ known.list_buf = cl.list_buf
    BY <1>3, <1>5 DEF ClientType
  <2> HIDE DEF known
  <2> QED
    BY <1>4, <2>1, KeptBase
<1>6. ASSUME r.verb \in Verb, r.name # NoName
      PROVE  /\ Base(named) /\ named.request_verb = r.verb
             /\ named.filename = r.name /\ r.name \in Name
             /\ next.state = "RECV_PUT_SIZE"
  <2>1. r.name \in Name
    BY <1>1, <1>6 DEF Request
  <2>2. /\ named \in ClientType
        /\ named.simple_response_sent = cl.simple_response_sent
        /\ named.simple_response_buf = cl.simple_response_buf
        /\ named.list_sent = cl.list_sent /\ named.list_buf = cl.list_buf
        /\ named.request_verb = r.verb /\ named.filename = r.name
    BY <1>3, <1>6, <2>1 DEF ClientType
  <2>3. next.state = "RECV_PUT_SIZE"
    BY <1>3 DEF ClientType
  <2> HIDE DEF named
  <2> QED
    BY <1>4, <2>1, <2>2, <2>3, KeptBase
<1>7. Base(list) /\ list.request_verb = "LIST"
  <2>1. /\ list \in ClientType /\ list.request_verb = "LIST"
        /\ list.simple_response_sent = cl.simple_response_sent
        /\ list.simple_response_buf = cl.simple_response_buf
        /\ list.list_sent = cl.list_sent /\ list.list_buf = cl.list_buf
    BY <1>3 DEF ClientType, Verb
  <2> HIDE DEF list
  <2> QED
    BY <1>4, <2>1, KeptBase
<1>8. r = req[c]
  BY DEF r
<1> HIDE DEF named, next, known, list
<1>9. ASSUME NEW x, Base(x), NEW m \in Message, send_error(c, x, m, dir)
      PROVE  AnswerResult(c)
  BY <1>1, <1>9, ErrorTold
<1>10. ASSUME NoWrite, Keep(c, cl, dir) \/ close_and_cleanup(c, cl, dir)
       PROVE  AnswerResult(c)
  BY <1>3, <1>10, StillReading, ClosedSilent DEF Receiving
<1>11. CASE send_error(c, IF r.verb \in Verb THEN known ELSE cl,
                       "Bad request", dir)
  BY <1>4, <1>5, <1>9, <1>11 DEF Message
<1>12. CASE r.verb = "LIST" /\ send_ok(c, list, dir)
  BY <1>1, <1>7, <1>8, <1>12, OkTold
<1>13. CASE r.verb = "DELETE" /\ r.name # NoName /\ delete_request(c, named)
  <2>1. Base(named) /\ named.request_verb = req[c].verb
    BY <1>6, <1>8, <1>13 DEF Verb
  <2>2. ASSUME NEW d, send_ok(c, named, d) PROVE AnswerResult(c)
    BY <1>1, <1>8, <1>13, <2>1, <2>2, OkTold
  <2>3. CASE send_error(c, named, "No such file", dir)
    BY <1>9, <2>1, <2>3 DEF Message
  <2> QED
    BY <1>13, <2>2, <2>3 DEF delete_request
<1>14. CASE r.verb = "GET" /\ r.name # NoName /\ start_send_get(c, named)
  <2>1. Base(named) /\ named.request_verb = req[c].verb /\ named.filename \in Name
    BY <1>6, <1>8, <1>14 DEF Verb
  <2> QED
    BY <1>14, <2>1, GetAnswered
<1>15. CASE /\ r.verb = "PUT" /\ r.name # NoName /\ NoWrite
            /\ Watch(c, next, dir, "READ")
  <2>1. next.state \in Receiving
    BY <1>6, <1>15 DEF Verb, Receiving
  <2> QED
    BY <1>15, <2>1, StillReading
<1>16. CASE parse_header_and_transition(c, cl)
  BY <1>10, <1>11, <1>12, <1>13, <1>14, <1>15, <1>16
  DEF parse_header_and_transition, named, next, known, list, r
<1>17. CASE send_error(c, cl, "Bad request", dir)
  BY <1>4, <1>9, <1>17 DEF Message
<1> QED
  BY <1>10, <1>16, <1>17 DEF read_header, cl, k

-----------------------------------------------------------------------------
(***************************************************************************)
(* Sending: the size field, the data of a file, a list.                    *)
(***************************************************************************)

LEMMA AfterSizeUnits ==
  ASSUME NEW s \in Seq(RespUnit)
  PROVE  /\ Len(AfterSize(s)) = IF 5 <= Len(s) THEN Len(s) - 4 ELSE 0
         /\ \A k \in 1..Len(AfterSize(s)) :
              k + 4 \in 5..Len(s) /\ AfterSize(s)[k] = s[k + 4]
<1> DEFINE n == Len(s)
           t == SubSeq(s, 5, n)
<1>1. AfterSize(s) = t
  BY TwoLines DEF AfterSize
<1>2. n \in Int /\ \A p \in 5..n : s[p] \in RespUnit
  <2>1. n \in Nat /\ \A p \in 1..n : s[p] \in RespUnit
    OBVIOUS
  <2> HIDE DEF n
  <2> QED
    BY <2>1
<1> HIDE DEF n
<1>3. /\ Len(t) = IF 5 <= n THEN n - 5 + 1 ELSE 0
      /\ \A k \in 1..(n - 5 + 1) : t[k] = s[5 + k - 1]
  BY <1>2, SubSeqProperties
<1> HIDE DEF t
<1>4. /\ Len(t) = IF 5 <= n THEN n - 4 ELSE 0
      /\ \A k \in 1..Len(t) :
           /\ k \in 1..(n - 5 + 1) /\ 5 + k - 1 = k + 4
           /\ k + 4 \in 5..n
  BY <1>2, <1>3
<1> QED
  BY <1>1, <1>3, <1>4 DEF n

(* A response with all of its units is one a connection may end with.      *)
LEMMA WholeAnswer ==
  ASSUME NEW c \in Conn, req' = req, NEW n \in Nat,
         req[c].verb \in {"GET", "LIST"}, resp'[c] \in Seq(RespUnit),
         Answers(c, n, resp'[c]), Len(resp'[c]) = 4 + n
  PROVE  Complete(c)'
<1> DEFINE s == resp'[c]
<1>1. s[3] = <<"SIZE", n>> /\ Len(s) >= 4
  BY DEF Answers
<1>2. Len(AfterSize(s)) = n
  BY AfterSizeUnits
<1> QED
  BY <1>1, <1>2 DEF Complete

LEMMA SizeAnswered ==
  ASSUME Typed, req' = req, NEW c \in Conn, Base(client[c]),
         client[c].state = "SEND_GET_SIZE",
         Telling(c, client[c], resp[c]), send_get_size(c)
  PROVE  AnswerResult(c)
<1> DEFINE n0 == client[c].file_size
           cl == IF client[c].simple_response_buf = <<>>
                   THEN [client[c] EXCEPT
                           !.simple_response_buf = SizeField(client[c].file_size),
                           !.simple_response_sent = 0]
                   ELSE client[c]
           buf == cl.simple_response_buf
           done == cl.simple_response_sent
           left == Len(buf) - done
           units(n) == SubSeq(buf, done + 1, done + n)
           cl1(n) == [cl EXCEPT !.simple_response_sent = done + n]
           cl2 == [cl EXCEPT !.simple_response_buf = <<>>,
                             !.simple_response_sent = 0,
                             !.state = "SEND_GET_DATA"]
<1>1. /\ client[c] \in ClientType /\ n0 \in Nat
      /\ client[c].simple_response_sent \in Nat
      /\ client[c].simple_response_sent <= Len(client[c].simple_response_buf)
      /\ resp[c] \in Seq(RespUnit)
  BY DEF Base, ClientType, Typed
<1>2. /\ req[c].verb = "GET" /\ client[c].bytes_transferred = 0
      /\ Answers(c, n0, resp[c])
      /\ Len(resp[c]) = 2 + client[c].simple_response_sent
      /\ client[c].simple_response_buf \in {<<>>, SizeField(n0)}
  BY DEF Telling
<1>3. /\ cl \in ClientType /\ buf = SizeField(n0) /\ done \in Nat
      /\ done <= 2 /\ Len(resp[c]) = 2 + done /\ cl.file_size = n0
      /\ cl.bytes_transferred = 0 /\ cl.state = "SEND_GET_SIZE"
  <2>1. SizeField(n0) \in Seq(RespUnit) /\ Len(SizeField(n0)) = 2
    BY <1>1, TwoLines
  <2>2. CASE client[c].simple_response_buf = <<>>
    <3>1. client[c].simple_response_sent = 0
      <4>1. Len(<<>>) = 0
        OBVIOUS
      <4> QED
        BY <1>1, <2>2, <4>1
    <3>2. cl = [client[c] EXCEPT !.simple_response_buf = SizeField(n0),
                                 !.simple_response_sent = 0]
      BY <2>2
    <3> HIDE DEF cl
    <3>3. /\ cl \in ClientType /\ buf = SizeField(n0) /\ done = 0
          /\ cl.file_size = n0
          /\ cl.bytes_transferred = client[c].bytes_transferred
          /\ cl.state = client[c].state
      BY <1>1, <2>1, <3>2 DEF ClientType
    <3> QED
      BY <1>2, <3>1, <3>3
  <2>3. CASE client[c].simple_response_buf # <<>>
    BY <1>1, <1>2, <2>1, <2>3
  <2> QED
    BY <2>2, <2>3
<1>4. /\ buf \in Seq(RespUnit) /\ Len(buf) = 2
      /\ buf[1] = <<"SIZE", n0>> /\ buf[2] = <<"SIZE", n0>>
  BY <1>1, <1>3, TwoLines
<1>5. \/ WriteError(c, <<>>) /\ close_and_cleanup(c, cl, dir)
      \/ \E n \in Accepts(left) :
           /\ Written(c, units(n), n < left)
           /\ IF n < left THEN Keep(c, cl1(n), dir)
              ELSE Watch(c, cl2, dir, "WRITE")
  BY DEF send_get_size
<1> HIDE DEF cl, buf, done
<1>6. left \in Nat /\ done + left = 2
  BY <1>3, <1>4
<1>7. CASE WriteError(c, <<>>) /\ close_and_cleanup(c, cl, dir)
  BY <1>7, BrokenResult, TellingTold DEF Typed
<1>8. ASSUME NEW n \in Accepts(left), Written(c, units(n), n < left),
             IF n < left THEN Keep(c, cl1(n), dir)
             ELSE Watch(c, cl2, dir, "WRITE")
      PROVE  AnswerResult(c)
  <2>1. n \in Nat /\ n <= left
    BY <1>6, <1>8, AcceptsRange
  <2>2. /\ units(n) \in Seq(RespUnit) /\ Len(units(n)) = n
        /\ \A k \in 1..n : units(n)[k] = buf[done + k]
    <3>1. done + n <= Len(buf)
      BY <1>3, <1>4, <1>6, <2>1
    <3> QED
      BY <1>3, <1>4, <2>1, <3>1, Slice
  <2>3. resp'[c] = resp[c] \o units(n)
    BY <1>8 DEF Written, Typed
  <2> HIDE DEF units
  <2>4. InTurn(c, n0, resp[c], units(n))
    <3>1. ASSUME NEW k \in 1..n
          PROVE  Len(resp[c]) + k <= 4 /\ units(n)[k] = <<"SIZE", n0>>
      <4>1. done + k = 1 \/ done + k = 2
        <5> HIDE DEF left
        <5>1. k \in 1..n /\ done + k <= 2 /\ done + k >= 1
          BY <1>3, <1>6, <2>1
        <5> QED
          BY <1>3, <5>1
      <4> QED
        BY <1>3, <1>4, <1>6, <2>1, <2>2, <4>1
    <3>2. Len(resp[c]) + Len(units(n)) <= 4 + n0
      BY <1>1, <1>3, <1>6, <2>1, <2>2
    <3> QED
      BY <2>2, <3>1, <3>2 DEF InTurn
  <2>5. Answers(c, n0, resp'[c]) /\ Len(resp'[c]) = 2 + (done + n)
    <3>1. /\ Answers(c, n0, resp[c] \o units(n))
          /\ Len(resp[c] \o units(n)) = Len(resp[c]) + Len(units(n))
      <4>1. /\ resp[c] \in Seq(RespUnit) /\ n0 \in Nat
            /\ Answers(c, n0, resp[c])
        BY <1>1, <1>2
      <4> HIDE DEF n0
      <4> QED
        BY <2>2, <2>4, <4>1, AnswersMore
    <3>2. Answers(c, n0, resp'[c]) /\ Len(resp'[c]) = Len(resp[c]) + n
      BY <2>2, <2>3, <3>1
    <3> QED
      BY <1>3, <2>1, <3>2
  <2>6. CASE n < left /\ Keep(c, cl1(n), dir)
    <3>1. /\ cl1(n).state = "SEND_GET_SIZE" /\ cl1(n).file_size = n0
          /\ cl1(n).simple_response_sent = done + n
          /\ cl1(n).simple_response_buf = SizeField(n0)
          /\ cl1(n).bytes_transferred = 0
      BY <1>3 DEF ClientType, buf
    <3>2. client'[c] = cl1(n) /\ sock' = sock
      BY <2>6 DEF Keep, Typed
    <3> HIDE DEF cl1
    <3>3. Telling(c, cl1(n), resp'[c])
      BY <1>2, <2>5, <3>1 DEF Telling, Receiving
    <3> QED
      BY <3>2, <3>3 DEF AnswerResult
  <2>7. CASE ~(n < left) /\ Watch(c, cl2, dir, "WRITE")
    <3>1. /\ cl2.state = "SEND_GET_DATA" /\ cl2.file_size = n0
          /\ cl2.bytes_transferred = 0
      BY <1>3 DEF ClientType
    <3>2. client'[c] = cl2 /\ sock' = sock
      BY <2>7 DEF Watch, Typed
    <3> HIDE DEF cl2
    <3>3. Len(resp'[c]) = 4 + 0 /\ 0 <= n0
      <4> HIDE DEF left
      <4>1. n = left
        BY <1>6, <2>1, <2>7
      <4> QED
        BY <1>1, <1>6, <2>5, <4>1
    <3>4. Telling(c, cl2, resp'[c])
      BY <1>2, <2>5, <3>1, <3>3 DEF Telling, Receiving
    <3> QED
      BY <3>2, <3>4 DEF AnswerResult
  <2> QED
    BY <1>8, <2>6, <2>7
<1> QED
  BY <1>5, <1>7, <1>8

(* A file of the name holds what was sent under it, each unit in its place. *)
LEMMA FileUnits ==
  ASSUME DataOK(data), NEW c \in Conn, NEW i \in Conn,
         req[i].name = req[c].name, NEW k \in 1..Len(data[i])
  PROVE  UnitOK(data[i][k], c, k)
BY DEF DataOK, UnitOK

LEMMA PayloadUnits ==
  ASSUME NEW s \in Seq(Unit)
  PROVE  /\ Payload(s) \in Seq(RespUnit) /\ Len(Payload(s)) = Len(s)
         /\ \A k \in 1..Len(s) : Payload(s)[k] = <<"DATA", s[k]>>
<1>1. Payload(s) \in Seq(RespUnit)
  BY PayloadType
<1> QED
  BY <1>1 DEF Payload

LEMMA DataAnswered ==
  ASSUME Typed, req' = req, DataOK(data), NEW c \in Conn,
         resp' \in [Conn -> Seq(RespUnit)],
         Good(c, client[c], taken[c]), client[c].state = "SEND_GET_DATA",
         Telling(c, client[c], resp[c]), send_get_data(c)
  PROVE  AnswerResult(c)
<1> DEFINE cl == client[c]
           off == cl.bytes_transferred
           size == cl.file_size
           file == data[cl.file_fd]
           L == IF off >= Len(file) THEN 0 ELSE Least(Len(file), size) - off
           Sent(n) == Payload(SubSeq(file, off + 1, off + n))
           cl1(n) == [cl EXCEPT !.bytes_transferred = off + n]
           cl2 == IF off + L = size THEN [cl EXCEPT !.state = "DONE"] ELSE cl
<1>1. /\ cl \in ClientType /\ off \in Nat /\ size \in Nat
      /\ off <= size /\ cl.state = "SEND_GET_DATA"
      /\ req[c].verb = "GET" /\ resp[c] \in Seq(RespUnit)
      /\ Answers(c, size, resp[c]) /\ Len(resp[c]) = 4 + off
  BY DEF Good, Base, ClientType, Telling, Typed
<1>2. cl.file_fd \in Conn /\ req[cl.file_fd].name = req[c].name
  BY <1>1 DEF Good, PositionOK, FileOK, HoldsFile, ClientType
<1>3. /\ file \in Seq(Unit) /\ Len(file) \in Nat
      /\ \A k \in 1..Len(file) : UnitOK(file[k], c, k)
  <2>1. file \in Seq(Unit)
    BY <1>2 DEF DataOK
  <2> QED
    BY <1>2, <2>1, FileUnits
<1>4. FileWasCut(c) <=> Len(file) < size
  BY <1>1 DEF FileWasCut
<1>5. \/ \E n \in 0..(L - 1) :
           WriteError(c, Sent(n)) /\ close_and_cleanup(c, cl, dir)
      \/ \E n \in 0..(L - 1) :
           Written(c, Sent(n), TRUE) /\ Keep(c, cl1(n), dir)
      \/ /\ IF L = 0 THEN NoWrite ELSE Written(c, Sent(L), FALSE)
         /\ close_and_cleanup(c, cl2, dir)
  BY DEF send_get_data, CountsWritten
<1> HIDE DEF file, off, size, cl, cl2, Sent
<1>6. L = IF off >= Len(file) THEN 0 ELSE Least(Len(file), size) - off
  OBVIOUS
<1> HIDE DEF L
<1>7. /\ L \in Nat /\ off + L <= size /\ off + L \in Nat
      /\ L > 0 => off + L <= Len(file)
      /\ off + L # size => Len(file) < size
  <2> DEFINE len == Len(file)
  <2>1. len \in Nat
    BY <1>3
  <2>2. L = IF off >= len THEN 0 ELSE Least(len, size) - off
    BY <1>6
  <2> HIDE DEF len
  <2>3. /\ L \in Nat /\ off + L <= size /\ off + L \in Nat
        /\ L > 0 => off + L <= len
        /\ off + L # size => len < size
    BY <1>1, <2>1, <2>2 DEF Least
  <2> QED
    BY <2>3 DEF len
<1>8. ASSUME NEW n \in Nat, n <= L, L > 0, resp'[c] = resp[c] \o Sent(n)
      PROVE  Answers(c, size, resp'[c]) /\ Len(resp'[c]) = 4 + (off + n)
  <2>1. off + n <= Len(file)
    BY <1>1, <1>3, <1>7, <1>8
  <2>2. /\ SubSeq(file, off + 1, off + n) \in Seq(Unit)
        /\ Len(SubSeq(file, off + 1, off + n)) = n
        /\ \A k \in 1..n : SubSeq(file, off + 1, off + n)[k] = file[off + k]
    BY <1>1, <1>3, <2>1, Slice
  <2>3. /\ Sent(n) \in Seq(RespUnit) /\ Len(Sent(n)) = n
        /\ \A k \in 1..n : Sent(n)[k] = <<"DATA", file[off + k]>>
    BY <2>2, PayloadUnits DEF Sent
  <2>4. InTurn(c, size, resp[c], Sent(n))
    <3>1. ASSUME NEW k \in 1..n
          PROVE  /\ ~(Len(resp[c]) + k <= 4)
                 /\ BodyUnitOK(c, Sent(n)[k], Len(resp[c]) + k - 4)
      <4>1. Len(resp[c]) + k - 4 = off + k /\ off + k \in 1..Len(file)
        BY <1>1, <1>3, <2>1
      <4>2. UnitOK(file[off + k], c, off + k)
        BY <1>3, <4>1
      <4>3. Sent(n)[k][1] = "DATA" /\ Sent(n)[k][2] = file[off + k]
        BY <2>3
      <4>4. BodyUnitOK(c, Sent(n)[k], off + k)
        BY <1>1, <4>2, <4>3 DEF BodyUnitOK
      <4>5. ~(Len(resp[c]) + k <= 4)
        BY <1>1
      <4> QED
        BY <4>1, <4>4, <4>5
    <3>2. Len(resp[c]) + Len(Sent(n)) <= 4 + size
      BY <1>1, <1>7, <1>8, <2>3
    <3> QED
      BY <2>3, <3>1, <3>2 DEF InTurn
  <2>5. Answers(c, size, resp'[c]) /\ Len(resp'[c]) = Len(resp[c]) + n
    <3>1. /\ resp[c] \in Seq(RespUnit) /\ size \in Nat
          /\ Answers(c, size, resp[c])
      BY <1>1
    <3>2. /\ Answers(c, size, resp[c] \o Sent(n))
          /\ Len(resp[c] \o Sent(n)) = Len(resp[c]) + Len(Sent(n))
      BY <2>3, <2>4, <3>1, AnswersMore
    <3> QED
      BY <1>8, <2>3, <3>2
  <2> QED
    BY <1>1, <1>8, <2>5
<1>9. ASSUME Answers(c, size, resp'[c])
      PROVE  Told(c, resp'[c])
  BY <1>1, <1>9, AnswersTold
<1>10. ASSUME NEW n \in 0..(L - 1), WriteError(c, Sent(n)),
             close_and_cleanup(c, cl, dir)
      PROVE  AnswerResult(c)
  <2>1. n \in Nat /\ n <= L /\ L > 0
    BY <1>7, <1>10
  <2>2. resp'[c] = resp[c] \o Sent(n) /\ c \in rst'
    BY <1>10 DEF WriteError, Typed
  <2>3. sock'[c] = "closed"
    BY <1>10 DEF close_and_cleanup, Typed
  <2> QED
    BY <1>8, <1>9, <1>10, <2>1, <2>2, <2>3 DEF AnswerResult, MayEnd
<1>11. ASSUME NEW n \in 0..(L - 1), Written(c, Sent(n), TRUE),
              Keep(c, cl1(n), dir)
       PROVE  AnswerResult(c)
  <2>1. n \in Nat /\ n <= L /\ L > 0 /\ off + n \in Nat /\ off + n <= size
    BY <1>1, <1>7, <1>11
  <2>2. resp'[c] = resp[c] \o Sent(n)
    BY <1>11 DEF Written, Typed
  <2>3. /\ cl1(n).state = "SEND_GET_DATA" /\ cl1(n).file_size = size
        /\ cl1(n).bytes_transferred = off + n
    BY <1>1 DEF ClientType, size
  <2>4. client'[c] = cl1(n) /\ sock' = sock
    BY <1>11 DEF Keep, Typed
  <2> HIDE DEF cl1
  <2>5. Telling(c, cl1(n), resp'[c])
    BY <1>1, <1>8, <2>1, <2>2, <2>3 DEF Telling, Receiving
  <2> QED
    BY <2>4, <2>5 DEF AnswerResult
<1>12. CASE /\ IF L = 0 THEN NoWrite ELSE Written(c, Sent(L), FALSE)
            /\ close_and_cleanup(c, cl2, dir)
  <2>1. Answers(c, size, resp'[c]) /\ Len(resp'[c]) = 4 + (off + L)
    <3>1. CASE L = 0
      <4>1. resp' = resp
        BY <1>12, <3>1 DEF NoWrite, writeVars
      <4> QED
        BY <1>1, <3>1, <4>1
    <3>2. CASE L # 0
      <4>1. resp'[c] = resp[c] \o Sent(L)
        BY <1>12, <3>2 DEF Written, Typed
      <4> QED
        BY <1>7, <1>8, <3>2, <4>1
    <3> QED
      BY <3>1, <3>2
  <2>2. sock'[c] = "closed"
    BY <1>12 DEF close_and_cleanup, Typed
  <2>3. CASE off + L = size
    <3>1. Complete(c)'
      BY <1>1, <1>12, <2>1, <2>3, WholeAnswer
    <3> QED
      BY <1>9, <1>12, <2>1, <2>2, <3>1 DEF AnswerResult, MayEnd
  <2>4. CASE off + L # size
    BY <1>4, <1>7, <1>9, <1>12, <2>1, <2>2, <2>4 DEF AnswerResult, MayEnd
  <2> QED
    BY <2>3, <2>4
<1> QED
  BY <1>5, <1>10, <1>11, <1>12

(* After the OK line, what was sent are the first units of a list buffer.  *)
SoFar(s, buf, done) ==
  Len(s) = 2 + done /\ \A p \in 1..done : s[2 + p] = buf[p]

NextOf(units, buf, done) == \A k \in 1..Len(units) : units[k] = buf[done + k]

LEMMA ListMore ==
  ASSUME NEW s \in Seq(RespUnit), NEW buf \in Seq(RespUnit), NEW done \in Nat,
         NEW units \in Seq(RespUnit), SoFar(s, buf, done),
         NextOf(units, buf, done)
  PROVE  SoFar(s \o units, buf, done + Len(units))
<1> DEFINE t == s \o units
           n == Len(units)
<1>1. /\ \A p \in 1..(Len(s) + n) :
            t[p] = IF p <= Len(s) THEN s[p] ELSE units[p - Len(s)]
      /\ Len(t) = Len(s) + n /\ n \in Nat
  BY ConcatProperties
<1>2. /\ Len(s) = 2 + done /\ \A p \in 1..done : s[2 + p] = buf[p]
      /\ \A k \in 1..n : units[k] = buf[done + k]
  BY DEF SoFar, NextOf
<1> HIDE DEF t, n
<1>3. ASSUME NEW p \in 1..(done + n) PROVE t[2 + p] = buf[p]
  <2>1. CASE p <= done
    <3>1. p \in 1..done /\ 2 + p \in 1..(Len(s) + n) /\ 2 + p <= Len(s)
      BY <1>1, <1>2, <2>1
    <3> QED
      BY <1>1, <1>2, <3>1
  <2>2. CASE ~(p <= done)
    <3> DEFINE k == p - done
    <3>1. /\ k \in 1..n /\ 2 + p \in 1..(Len(s) + n) /\ ~(2 + p <= Len(s))
          /\ (2 + p) - Len(s) = k /\ done + k = p
      BY <1>1, <1>2, <2>2
    <3> HIDE DEF k
    <3> QED
      BY <1>1, <1>2, <3>1
  <2> QED
    BY <2>1, <2>2
<1>4. Len(t) = 2 + (done + n)
  BY <1>1, <1>2
<1> QED
  BY <1>3, <1>4 DEF t, n, SoFar

LEMMA ListDataAnswered ==
  ASSUME Typed, req' = req, NEW c \in Conn, Base(client[c]),
         resp' \in [Conn -> Seq(RespUnit)],
         client[c].state = "SEND_LIST_DATA",
         Telling(c, client[c], resp[c]), send_list_data(c)
  PROVE  AnswerResult(c)
<1> DEFINE cl == client[c]
           buf == cl.list_buf
           done == cl.list_sent
           left == Len(buf) - done
           n0 == Len(buf) - 2
           units(n) == SubSeq(buf, done + 1, done + n)
           cl1(n) == [cl EXCEPT !.list_sent = @ + n]
<1>1. /\ cl \in ClientType /\ buf \in Seq(RespUnit) /\ done \in Nat
      /\ Len(buf) \in Nat /\ done <= Len(buf)
      /\ req[c].verb = "LIST" /\ ListBuffer(buf) /\ Len(buf) >= 2
      /\ resp[c] \in Seq(RespUnit) /\ Answers(c, n0, resp[c])
      /\ Len(resp[c]) = 2 + done /\ cl.state = "SEND_LIST_DATA"
      /\ \A p \in 1..done : resp[c][2 + p] = buf[p]
  <2>1. /\ cl \in ClientType /\ buf \in Seq(RespUnit) /\ done \in Nat
        /\ done <= Len(buf) /\ Len(buf) \in Nat
    BY DEF Base, ClientType
  <2>2. resp[c] \in Seq(RespUnit)
    BY DEF Typed
  <2>3. /\ req[c].verb = "LIST" /\ ListBuffer(buf)
        /\ Answers(c, n0, resp[c]) /\ Len(resp[c]) = 2 + done
        /\ \A p \in 1..done : resp[c][2 + p] = buf[p]
    BY DEF Telling
  <2> QED
    BY <2>1, <2>2, <2>3 DEF ListBuffer
<1>2. \/ WriteError(c, <<>>) /\ close_and_cleanup(c, cl, dir)
      \/ \E n \in Accepts(left) :
           /\ Written(c, units(n), n < left)
           /\ IF n < left THEN Keep(c, cl1(n), dir)
              ELSE close_and_cleanup(c, [cl1(n) EXCEPT !.state = "DONE"], dir)
  BY DEF send_list_data
<1> HIDE DEF cl, buf, done
<1>3. left \in Nat /\ n0 \in Nat /\ done + left = Len(buf)
  BY <1>1
<1>4. CASE WriteError(c, <<>>) /\ close_and_cleanup(c, cl, dir)
  BY <1>4, BrokenResult, TellingTold DEF Typed, cl
<1>5. ASSUME NEW n \in Accepts(left), Written(c, units(n), n < left),
             IF n < left THEN Keep(c, cl1(n), dir)
             ELSE close_and_cleanup(c, [cl1(n) EXCEPT !.state = "DONE"], dir)
      PROVE  AnswerResult(c)
  <2>1. n \in Nat /\ n <= left
    BY <1>3, <1>5, AcceptsRange
  <2>2. /\ units(n) \in Seq(RespUnit) /\ Len(units(n)) = n
        /\ \A k \in 1..n : units(n)[k] = buf[done + k]
    <3>1. done + n <= Len(buf)
      BY <1>1, <1>3, <2>1
    <3> QED
      BY <1>1, <2>1, <3>1, Slice
  <2>3. resp'[c] = resp[c] \o units(n)
    BY <1>5 DEF Written, Typed
  <2> HIDE DEF units
  <2>8. \A p \in 1..(done + n) : resp'[c][2 + p] = buf[p]
    <3>1. /\ buf \in Seq(RespUnit) /\ done \in Nat /\ resp[c] \in Seq(RespUnit)
          /\ Len(resp[c]) = 2 + done
          /\ \A p \in 1..done : resp[c][2 + p] = buf[p]
      BY <1>1
    <3>2. SoFar(resp[c], buf, done) /\ NextOf(units(n), buf, done)
      BY <2>2, <3>1 DEF SoFar, NextOf
    <3>3. SoFar(resp[c] \o units(n), buf, done + Len(units(n)))
      BY <2>2, <3>1, <3>2, ListMore
    <3>4. SoFar(resp'[c], buf, done + n)
      BY <2>2, <2>3, <3>3
    <3> QED
      BY <3>4 DEF SoFar
  <2>4. InTurn(c, n0, resp[c], units(n))
    <3>1. ASSUME NEW k \in 1..n
          PROVE  IF Len(resp[c]) + k <= 4 THEN units(n)[k] = <<"SIZE", n0>>
                 ELSE BodyUnitOK(c, units(n)[k], Len(resp[c]) + k - 4)
      <4>1. /\ done + k \in 1..Len(buf)
            /\ Len(resp[c]) + k <= 4 <=> done + k <= 2
        BY <1>1, <1>3, <2>1
      <4>2. IF done + k <= 2 THEN buf[done + k] = <<"SIZE", n0>>
            ELSE buf[done + k][1] = "FILE"
        BY <1>1, <4>1 DEF ListBuffer
      <4>3. units(n)[k] = buf[done + k]
        BY <2>2
      <4> QED
        BY <1>1, <4>1, <4>2, <4>3 DEF BodyUnitOK
    <3>2. Len(resp[c]) + Len(units(n)) <= 4 + n0
      BY <1>1, <1>3, <2>1, <2>2
    <3> QED
      BY <2>2, <3>1, <3>2 DEF InTurn
  <2>5. Answers(c, n0, resp'[c]) /\ Len(resp'[c]) = 2 + (done + n)
    <3> HIDE DEF n0
    <3>1. Answers(c, n0, resp'[c]) /\ Len(resp'[c]) = Len(resp[c]) + n
      <4>1. /\ n0 \in Nat /\ resp[c] \in Seq(RespUnit)
            /\ Answers(c, n0, resp[c])
        BY <1>1, <1>3
      <4>2. units(n) \in Seq(RespUnit) /\ Len(units(n)) = n
        BY <2>2
      <4> QED
        BY <2>3, <2>4, <4>1, <4>2, AnswersMore
    <3> QED
      BY <1>1, <2>1, <3>1
  <2>6. CASE n < left /\ Keep(c, cl1(n), dir)
    <3>1. /\ cl1(n).state = "SEND_LIST_DATA" /\ cl1(n).list_buf = buf
          /\ cl1(n).list_sent = done + n
      BY <1>1 DEF ClientType, buf, done
    <3>2. client'[c] = cl1(n) /\ sock' = sock
      BY <2>6 DEF Keep, Typed
    <3> HIDE DEF cl1
    <3>3. Telling(c, cl1(n), resp'[c])
      BY <1>1, <2>5, <2>8, <3>1 DEF Telling, Receiving
    <3> QED
      BY <3>2, <3>3 DEF AnswerResult
  <2>7. CASE /\ ~(n < left)
             /\ close_and_cleanup(c, [cl1(n) EXCEPT !.state = "DONE"], dir)
    <3>1. sock'[c] = "closed"
      BY <2>7 DEF close_and_cleanup, Typed
    <3>2. Len(resp'[c]) = 4 + n0
      <4> HIDE DEF left, n0
      <4>1. n = left
        BY <1>3, <2>1, <2>7
      <4>2. Len(resp'[c]) = 2 + Len(buf) /\ Len(buf) \in Nat
        BY <1>1, <1>3, <2>5, <4>1
      <4> QED
        BY <4>2 DEF n0
    <3>3. Complete(c)'
      BY <1>1, <1>3, <2>5, <3>2, WholeAnswer
    <3>4. Told(c, resp'[c])
      BY <1>1, <1>3, <2>5, AnswersTold
    <3> QED
      BY <3>1, <3>3, <3>4 DEF AnswerResult, MayEnd
  <2> QED
    BY <1>5, <2>6, <2>7
<1> QED
  BY <1>2, <1>4, <1>5

-----------------------------------------------------------------------------
(***************************************************************************)
(* The steps.                                                              *)
(***************************************************************************)
LEMMA HandlerAnswers ==
  ASSUME IInv, Typed, NEW c \in Conn, AnswerOK(c), Dispatch(c)
  PROVE  AnswerResult(c)
<1> DEFINE cl == client[c]
<1>1. /\ sock[c] = "open" /\ Made(c) /\ Good(c, cl, taken[c])
      /\ taken[c] <= arrived[c] /\ Context /\ DirOK(dir) /\ DataOK(data)
      /\ req' = req
  BY DispatchHandled DEF peerVars
<1>2. resp' \in [Conn -> Seq(RespUnit)]
  BY DispatchHandled DEF Handled, Outcome, WritesOn, WritesOK
<1>3. Telling(c, cl, resp[c]) /\ Base(cl) /\ server_files \in Seq(Name)
  BY <1>1 DEF AnswerOK, Good, Context
<1>4. CASE HandleError(c)
  <2>1. c \in rst' /\ resp' = resp /\ sock'[c] = "closed"
    BY <1>4 DEF AnswerOK, HandleError, NoWrite, writeVars, close_and_cleanup,
                Typed
  <2>2. Told(c, resp[c])
    BY <1>3, TellingTold DEF Typed
  <2> QED
    BY <2>1, <2>2 DEF AnswerResult, MayEnd
<1>5. CASE HandleRead(c)
  <2>1. handle_read_event(c)
    BY <1>5 DEF HandleRead
  <2>2. CASE cl.state \in Receiving
    <3>1. resp[c] = <<>>
      BY <1>3, <2>2 DEF Telling
    <3>2. CASE cl.state = "RECV_HEADER" /\ read_header(c)
      BY <1>1, <3>1, <3>2, HeaderAnswered
    <3>3. CASE cl.state = "RECV_PUT_SIZE" /\ recv_put_size(c)
      BY <1>1, <3>1, <3>3, PutSizeAnswered
    <3>4. CASE /\ cl.state = "RECV_PUT_DATA"
               /\ recv_put_data(c, cl, dir, data, taken[c])
      <4>1. /\ Upload(c, cl) /\ cl.bytes_transferred <= cl.expected_size
            /\ taken[c] \in Nat
        BY <1>1, <3>4 DEF Good, PositionOK, Typed
      <4> HIDE DEF cl
      <4> QED
        BY <1>1, <1>3, <3>1, <3>4, <4>1, PutDataAnswered
    <3> QED
      BY <2>1, <2>2, <3>2, <3>3, <3>4
      DEF handle_read_event, Receiving, Sending
  <2>3. CASE NothingToDo(c)
    <3>1. client'[c] = cl /\ resp' = resp /\ sock' = sock
      BY <2>3 DEF NothingToDo, NoWrite, writeVars, Keep, Typed
    <3> QED
      BY <1>3, <3>1 DEF AnswerResult
  <2> QED
    BY <2>1, <2>2, <2>3 DEF handle_read_event, Receiving
<1>6. CASE HandleWrite(c)
  <2>1. handle_write_event(c)
    BY <1>6 DEF HandleWrite
  <2>2. CASE /\ cl.state \in {"SEND_OK", "SEND_ERROR"}
             /\ execute_simple_response_write(c, cl, dir)
    <3>1. cl.state = "SEND_OK" => cl.request_verb = req[c].verb
      BY <1>1 DEF Good, PositionOK
    <3> HIDE DEF cl
    <3> QED
      BY <1>1, <1>3, <2>2, <3>1, ResponseTold
  <2>3. CASE cl.state = "SEND_LIST_DATA" /\ send_list_data(c)
    BY <1>1, <1>2, <1>3, <2>3, ListDataAnswered
  <2>4. CASE cl.state = "SEND_GET_SIZE" /\ send_get_size(c)
    BY <1>1, <1>3, <2>4, SizeAnswered
  <2>5. CASE cl.state = "SEND_GET_DATA" /\ send_get_data(c)
    BY <1>1, <1>2, <1>3, <2>5, DataAnswered
  <2> QED
    BY <2>1, <2>2, <2>3, <2>4, <2>5 DEF handle_write_event
<1> QED
  BY <1>4, <1>5, <1>6 DEF Dispatch

(* What has been told stays well told while requests are made, not changed. *)
SameRequests == \A x \in Conn : Made(x) => Made(x)' /\ req'[x] = req[x]

LEMMA AnswersFrame ==
  ASSUME SameRequests, NEW c \in Conn, Made(c), NEW n, NEW s, Answers(c, n, s)
  PROVE  Answers(c, n, s)'
<1>1. ASSUME NEW unit, NEW k, BodyUnitOK(c, unit, k)
      PROVE  BodyUnitOK(c, unit, k)'
  BY <1>1 DEF SameRequests, BodyUnitOK, UnitOK
<1> QED
  BY <1>1 DEF Answers

LEMMA ToldFrame ==
  ASSUME SameRequests, NEW c \in Conn, Made(c), NEW s, Told(c, s)
  PROVE  Told(c, s)'
<1>1. req'[c] = req[c]
  BY DEF SameRequests
<1> QED
  BY <1>1, AnswersFrame DEF Told

LEMMA TellingFrame ==
  ASSUME SameRequests, NEW c \in Conn, Made(c), NEW cl, NEW s,
         Telling(c, cl, s)
  PROVE  Telling(c, cl, s)'
<1>1. req'[c] = req[c]
  BY DEF SameRequests
<1> QED
  BY <1>1, AnswersFrame DEF Telling, SentOf

(* A connection that was open or closed before a step.                     *)
LEMMA StillAnswers ==
  ASSUME SameRequests, NEW c \in Conn, Made(c),
         \/ sock'[c] = "open" /\ Telling(c, client'[c], resp'[c])
         \/ sock'[c] = "closed" /\ Told(c, resp'[c]),
         "ERROR" \in batch'[c] => c \in rst'
  PROVE  AnswerOK(c)'
<1>1. PICK cl, s : cl = client'[c] /\ s = resp'[c]
  OBVIOUS
<1>2. \/ sock'[c] = "open" /\ Telling(c, cl, s)'
      \/ sock'[c] = "closed" /\ Told(c, s)'
  BY <1>1, TellingFrame, ToldFrame
<1>3. \/ sock'[c] = "open" /\ Telling(c, client[c], resp[c])'
      \/ sock'[c] = "closed" /\ Told(c, resp[c])'
  BY <1>1, <1>2
<1> QED
  BY <1>3 DEF AnswerOK

LEMMA DispatchAnswers ==
  ASSUME IInv, AnswerInv, Typed, NEW c \in Conn, Dispatch(c)
  PROVE  AnswerInv'
<1>1. /\ sock[c] = "open" /\ Made(c) /\ req' = req
      /\ batch' = [batch EXCEPT ![c] = {}] /\ batch \in [Conn -> SUBSET Event]
  BY DispatchHandled DEF peerVars, IInv, TypeOK
<1>2. AnswerResult(c)
  BY HandlerAnswers DEF AnswerInv
<1>3. ASSUME NEW x \in Conn, x # c
      PROVE  /\ resp'[x] = resp[x] /\ sock'[x] = sock[x]
             /\ client'[x] = client[x] /\ rst \subseteq rst'
  BY <1>3, OthersFrame
<1>4. SameRequests
  <2>1. \A x \in Conn : Made(x) => Made(x)'
    BY <1>1, <1>2, <1>3 DEF Made, AnswerResult
  <2> QED
    BY <1>1, <2>1 DEF SameRequests
<1> SUFFICES ASSUME NEW x \in Conn PROVE AnswerOK(x)'
  BY DEF AnswerInv
<1>5. CASE x = c
  <2>1. batch'[c] = {}
    BY <1>1
  <2> QED
    BY <1>1, <1>2, <1>4, <1>5, <2>1, StillAnswers DEF AnswerResult
<1>6. CASE x # c
  <2>1. AnswerOK(x) /\ batch'[x] = batch[x]
    BY <1>1, <1>6 DEF AnswerInv
  <2>2. "ERROR" \in batch'[x] => x \in rst'
    BY <1>3, <1>6, <2>1 DEF AnswerOK
  <2>3. CASE sock[x] \in {"none", "backlog"}
    BY <1>3, <1>6, <2>1, <2>2, <2>3 DEF AnswerOK
  <2>4. CASE sock[x] \in {"open", "closed"}
    BY <1>3, <1>4, <1>6, <2>1, <2>2, <2>4, StillAnswers DEF AnswerOK, Made
  <2> QED
    BY <2>3, <2>4 DEF Typed
<1> QED
  BY <1>5, <1>6

(* An event says "ERROR" only of a connection its peer has broken.         *)
LEMMA ErrorEvents ==
  ASSUME TypeOK, AnswerInv, [Next]_vars, ~(\E c \in Conn : Dispatch(c)),
         NEW x \in Conn, "ERROR" \in batch'[x]
  PROVE  x \in rst'
<1>1. "ERROR" \in batch[x] => x \in rst
  BY DEF AnswerInv, AnswerOK
<1>2. CASE event_loop_wait
  <2>1. \A c \in Conn : "ERROR" \in Poll(c) => c \in rst
    BY DEF Poll, Reported
  <2> QED
    BY <1>2, <2>1 DEF event_loop_wait, writeVars
<1>3. CASE UNCHANGED <<batch, rst>>
  BY <1>1, <1>3
<1>4. ASSUME NEW c \in Conn, Reset(c) PROVE x \in rst'
  BY <1>1, <1>4 DEF Reset
<1> QED
  BY <1>2, <1>3, <1>4
  DEF Next, Idle, Peer, accept_connections, Connect, Arrive, Close, Drain,
      vars, writeVars

LEMMA QuietAnswers ==
  ASSUME IInv, AnswerInv, Quiet,
         \A x \in Conn : "ERROR" \in batch'[x] => x \in rst'
  PROVE  AnswerInv'
<1> SUFFICES ASSUME NEW x \in Conn PROVE AnswerOK(x)'
  BY DEF AnswerInv
<1>1. /\ AnswerOK(x) /\ resp' = resp
      /\ "ERROR" \in batch'[x] => x \in rst'
  BY DEF AnswerInv, Quiet
<1>2. SameRequests
  BY DEF Quiet, SameRequests, Made
<1>3. sock[x] \in {"none", "backlog", "open", "closed"}
  BY DEF IInv, TypeOK
<1>4. CASE sock[x] \in {"none", "backlog"} /\ sock'[x] # "open"
  <2>1. resp'[x] = <<>> /\ sock'[x] \in {"none", "backlog"}
    BY <1>1, <1>4 DEF AnswerOK, Quiet
  <2> QED
    BY <1>1, <2>1 DEF AnswerOK
<1>5. CASE /\ sock[x] = "backlog" /\ sock'[x] = "open"
           /\ client'[x] = client_create
  <2>1. resp'[x] = <<>> /\ client'[x].state = "RECV_HEADER"
    BY <1>1, <1>5 DEF AnswerOK, client_create
  <2>2. Telling(x, client'[x], resp'[x])
    BY <2>1 DEF Telling, Receiving
  <2> QED
    BY <1>1, <1>2, <1>5, <2>2, StillAnswers DEF Made
<1>6. CASE sock[x] \in {"open", "closed"}
  <2>1. sock'[x] = sock[x] /\ client'[x] = client[x] /\ Made(x)
    BY <1>6 DEF Quiet, Made
  <2> QED
    BY <1>1, <1>2, <1>6, <2>1, StillAnswers DEF AnswerOK
<1> QED
  BY <1>3, <1>4, <1>5, <1>6 DEF Quiet

LEMMA AnswersNext == IInv /\ AnswerInv /\ [Next]_vars => AnswerInv'
<1> SUFFICES ASSUME IInv, AnswerInv, [Next]_vars PROVE AnswerInv'
  OBVIOUS
<1>1. Typed /\ TypeOK
  BY DEF IInv, TypeOK, Typed
<1>2. CASE \E c \in Conn : Dispatch(c)
  BY <1>1, <1>2, DispatchAnswers
<1>3. CASE ~(\E c \in Conn : Dispatch(c))
  <2>1. \A x \in Conn : "ERROR" \in batch'[x] => x \in rst'
    BY <1>1, <1>3, ErrorEvents
  <2>2. Quiet
    BY <1>1, <1>3, QuietSteps
  <2> QED
    BY <2>1, <2>2, QuietAnswers
<1> QED
  BY <1>2, <1>3

-----------------------------------------------------------------------------
(***************************************************************************)
(* The peers: none sends more than its request says, or before those it    *)
(* waits for are closed.                                                   *)
(***************************************************************************)
AllPeers == \A c \in Conn : PeerOK(c)

(* What leaves a peer as it was.                                           *)
LEMMA SamePeer ==
  ASSUME NEW c \in Conn, PeerOK(c), req'[c] = req[c],
         arrived'[c] = arrived[c], c \in fin' <=> c \in fin,
         Made(c)' <=> Made(c),
         \A x \in Conn : sock[x] = "closed" => sock'[x] = "closed"
  PROVE  PeerOK(c)'
BY ConstantsAssumption DEF PeerOK

(* A handler does nothing to the peers.                                    *)
LEMMA DispatchPeers ==
  ASSUME IInv, Typed, AllPeers, NEW c \in Conn, Dispatch(c)
  PROVE  AllPeers'
<1>1. UNCHANGED peerVars /\ sock[c] = "open"
  BY DispatchHandled
<1>2. \A x \in Conn : x # c => sock'[x] = sock[x]
  BY OthersFrame
<1>3. PICK u : Leaves(c, u)
  BY DispatchHandled DEF Handled, Outcome
<1>4. sock'[c] \in {"open", "closed"}
  BY <1>1, <1>3 DEF Leaves, StaysOpenWith, IsClosed, Typed
<1>5. ASSUME NEW x \in Conn PROVE PeerOK(x)'
  BY <1>1, <1>2, <1>4, SamePeer DEF AllPeers, peerVars, Made
<1> QED
  BY <1>5 DEF AllPeers

(* A peer connects when those it waits for are closed.                     *)
LEMMA ConnectPeers ==
  ASSUME IInv, AllPeers, NEW c \in Conn, Connect(c)
  PROVE  AllPeers'
<1>1. /\ sock[c] = "none" /\ sock' = [sock EXCEPT ![c] = "backlog"]
      /\ \A p \in After[c] : sock[p] = "closed"
      /\ UNCHANGED <<arrived, fin>>
      /\ sock \in [Conn -> {"none", "backlog", "open", "closed"}]
      /\ req \in [Conn -> Request]
  BY DEF Connect, IInv, TypeOK
<1>2. PICK r \in Requests[c] : req' = [req EXCEPT ![c] = r]
  BY DEF Connect
<1>3. r.len \in Nat
  BY <1>2, ConstantsAssumption DEF Request
<1>4. PeerOK(c)'
  <2>1. arrived[c] = 0 /\ c \notin fin
    BY <1>1 DEF AllPeers, PeerOK, Made
  <2>2. req'[c] = r /\ sock'[c] = "backlog"
    BY <1>1, <1>2
  <2>3. \A p \in After[c] : sock'[p] = "closed"
    BY <1>1, ConstantsAssumption
  <2> QED
    BY <1>1, <1>2, <1>3, <2>1, <2>2, <2>3 DEF PeerOK, Made
<1>5. ASSUME NEW x \in Conn, x # c PROVE PeerOK(x)'
  BY <1>1, <1>2, <1>5, SamePeer DEF AllPeers, Made
<1> QED
  BY <1>4, <1>5 DEF AllPeers

(* It sends what its request says, and then may end its stream.            *)
LEMMA ArrivePeers ==
  ASSUME IInv, AllPeers, NEW c \in Conn, Arrive(c) \/ Close(c)
  PROVE  AllPeers'
<1>1. /\ UNCHANGED <<req, sock>> /\ Made(c)
      /\ arrived \in [Conn -> Nat] /\ req[c].len \in Nat /\ PeerOK(c)
  BY DEF Arrive, Close, Connected, Made, IInv, TypeOK, Request, AllPeers
<1>2. ASSUME NEW x \in Conn, x # c PROVE PeerOK(x)'
  BY <1>1, <1>2, SamePeer DEF AllPeers, Made, Arrive, Close
<1>3. CASE Arrive(c)
  <2>1. PICK n \in 1..(req[c].len - arrived[c]) :
          arrived' = [arrived EXCEPT ![c] = @ + n]
    BY <1>3 DEF Arrive
  <2>2. /\ arrived'[c] = arrived[c] + n /\ arrived[c] + n <= req[c].len
        /\ fin' = fin /\ arrived[c] # req[c].len
    BY <1>1, <1>3, <2>1 DEF Arrive
  <2>3. PeerOK(c)'
    BY <1>1, <2>2 DEF PeerOK, Made
  <2> QED
    BY <1>2, <2>3 DEF AllPeers
<1>4. CASE Close(c)
  <2>1. arrived' = arrived /\ arrived[c] = req[c].len
    BY <1>4 DEF Close
  <2>2. PeerOK(c)'
    BY <1>1, <2>1 DEF PeerOK, Made
  <2> QED
    BY <1>2, <2>2 DEF AllPeers
<1> QED
  BY <1>3, <1>4

LEMMA PeersNext ==
  ASSUME IInv, AllPeers, [Next]_vars
  PROVE  AllPeers'
<1>1. Typed
  BY DEF IInv, TypeOK, Typed
<1>2. CASE UNCHANGED <<peerVars, sock>>
  BY <1>2, SamePeer DEF AllPeers, peerVars, Made
<1>3. CASE accept_connections
  <2>1. /\ UNCHANGED peerVars
        /\ \A x \in Conn : \/ sock'[x] = sock[x]
                           \/ sock[x] = "backlog" /\ sock'[x] = "open"
    BY <1>3 DEF accept_connections
  <2> QED
    BY <2>1, SamePeer DEF AllPeers, peerVars, Made
<1> QED
  BY <1>1, <1>2, <1>3, DispatchPeers, ConnectPeers, ArrivePeers
  DEF Next, event_loop_wait, Peer, Reset, Drain, Idle, vars, peerVars

-----------------------------------------------------------------------------
(***************************************************************************)
(* Nobody is closed unanswered: a handler that has a response to give      *)
(* begins it, or leaves the client in the state that will.                 *)
(***************************************************************************)
Speaks(c) ==
  IF sock'[c] = "closed" THEN c \in rst' \/ resp'[c] # <<>>
                         ELSE client'[c].state # "RECV_HEADER"

LEMMA ResponseSpeaks ==
  ASSUME Typed, NEW c \in Conn, sock[c] = "open", NEW cl, Base(cl),
         cl.state \in {"SEND_OK", "SEND_ERROR"}, Telling(c, cl, resp[c]),
         NEW d, execute_simple_response_write(c, cl, d)
  PROVE  Speaks(c)
<1> DEFINE buf == cl.simple_response_buf
           done == cl.simple_response_sent
           left == Len(buf) - done
           cl1(n) == [cl EXCEPT !.simple_response_sent = done + n]
<1>1. /\ cl \in ClientType /\ done \in Nat /\ done <= Len(buf)
      /\ buf \in Seq(RespUnit) /\ Len(buf) = 2
      /\ resp[c] = SubSeq(buf, 1, done) /\ resp[c] \in Seq(RespUnit)
  <2>1. /\ cl \in ClientType /\ done <= Len(buf) /\ resp[c] \in Seq(RespUnit)
    BY DEF Base, Typed
  <2>2. done \in Nat
    BY <2>1 DEF ClientType
  <2>3. PICK line \in {OkLine} \cup {ErrorLines(m) : m \in Message} :
          SentOf(cl, line, resp[c])
    BY DEF Telling
  <2>4. line \in Seq(RespUnit) /\ Len(line) = 2
    BY <2>3, TwoLines
  <2>5. buf = line /\ resp[c] = SubSeq(line, 1, done)
    BY <2>3 DEF SentOf
  <2> QED
    BY <2>1, <2>2, <2>4, <2>5
<1>2. CASE WriteError(c, <<>>) /\ close_and_cleanup(c, cl, d)
  BY <1>2 DEF WriteError, close_and_cleanup, Typed, Speaks
<1>3. ASSUME NEW x, x.state # "RECV_HEADER",
             Keep(c, x, d) \/ Watch(c, x, d, "WRITE")
      PROVE  Speaks(c)
  BY <1>3 DEF Keep, Watch, Typed, Speaks
<1>4. ASSUME NEW n \in Accepts(left),
             Written(c, SubSeq(buf, done + 1, done + n), n < left),
             \/ n = 0 /\ left > 0 /\ Keep(c, cl, d)
             \/ 0 < n /\ n < left /\ Watch(c, cl1(n), d, "WRITE")
             \/ start_send_list(c, cl1(n), d)
             \/ Watch(c, ToGetSize(cl1(n)), d, "WRITE")
             \/ /\ n = left
                /\ close_and_cleanup(c, [cl1(n) EXCEPT !.state = "DONE"], d)
      PROVE  Speaks(c)
  <2>1. cl1(n).state = cl.state /\ cl.state # "RECV_HEADER"
    BY <1>1 DEF ClientType
  <2>2. ToGetSize(cl1(n)).state = "SEND_GET_SIZE"
    BY <1>1 DEF ClientType, ToGetSize
  <2>3. [cl1(n) EXCEPT !.list_buf = build_list_buffer(server_files),
                       !.list_sent = 0, !.state = "SEND_LIST_DATA"].state
          = "SEND_LIST_DATA"
    BY <1>1 DEF ClientType
  <2>4. CASE n = left
    <3> HIDE DEF buf, done, cl1
    <3>1. resp'[c] = SubSeq(buf, 1, done) \o SubSeq(buf, done + 1, done + n)
      BY <1>1, <1>4 DEF Written, Typed
    <3>2. /\ 1 \in 1..(Len(buf) + 1) /\ done \in (1 - 1)..Len(buf)
          /\ done + n \in done..Len(buf) /\ done + n = Len(buf)
      BY <1>1, <2>4
    <3>3. resp'[c] = SubSeq(buf, 1, Len(buf))
      BY <1>1, <3>1, <3>2, ConcatAdjacentSubSeq
    <3>4. resp'[c] # <<>>
      BY <1>1, <3>3, SubSeqFull
    <3>5. ASSUME NEW x, close_and_cleanup(c, x, d) PROVE Speaks(c)
      BY <3>4, <3>5 DEF close_and_cleanup, Typed, Speaks
    <3> QED
      BY <1>3, <1>4, <2>1, <2>2, <2>3, <3>5 DEF start_send_list
  <2>5. CASE n # left
    BY <1>3, <1>4, <2>1, <2>2, <2>3, <2>5 DEF start_send_list
  <2> QED
    BY <2>4, <2>5
<1> QED
  BY <1>2, <1>4 DEF execute_simple_response_write

LEMMA SentSpeaks ==
  ASSUME Typed, NEW c \in Conn, sock[c] = "open", NEW cl, Base(cl),
         resp[c] = <<>>, NEW m \in Message, NEW d,
         \/ /\ send_ok(c, cl, d)
            /\ req[c].verb = "GET" => cl.bytes_transferred = 0
         \/ send_error(c, cl, m, d)
  PROVE  Speaks(c)
<1>1. cl \in ClientType
  BY DEF Base
<1>2. ASSUME NEW x \in ClientType, NEW buf, x.simple_response_buf = buf,
             \/ /\ x.state = "SEND_OK" /\ buf = OkLine
                /\ req[c].verb = "GET" => x.bytes_transferred = 0
             \/ x.state = "SEND_ERROR" /\ buf = ErrorLines(m),
             x.simple_response_sent = 0,
             x.list_sent = cl.list_sent, x.list_buf = cl.list_buf,
             execute_simple_response_write(c, x, d)
      PROVE  Speaks(c)
  <2>1. buf \in Seq(RespUnit) /\ Len(buf) = 2
    BY <1>2, TwoLines
  <2>2. Base(x)
    BY <1>2, <2>1 DEF Base
  <2>3. resp[c] = SubSeq(buf, 1, 0)
    BY SubSeqEmpty
  <2>4. Telling(c, x, resp[c])
    BY <1>2, <2>3 DEF Telling, SentOf, Receiving
  <2> QED
    BY <1>2, <2>2, <2>4, ResponseSpeaks
<1>3. CASE /\ send_ok(c, cl, d)
           /\ req[c].verb = "GET" => cl.bytes_transferred = 0
  <2> DEFINE x == [cl EXCEPT !.state = "SEND_OK", !.simple_response_buf = OkLine,
                             !.simple_response_sent = 0]
  <2>1. /\ x \in ClientType /\ x.state = "SEND_OK"
        /\ x.simple_response_buf = OkLine /\ x.simple_response_sent = 0
        /\ x.bytes_transferred = cl.bytes_transferred
        /\ x.list_sent = cl.list_sent /\ x.list_buf = cl.list_buf
    BY <1>1, TwoLines DEF ClientType, Sending
  <2>2. execute_simple_response_write(c, x, d)
    BY <1>3 DEF send_ok
  <2> HIDE DEF x
  <2> QED
    BY <1>2, <1>3, <2>1, <2>2
<1>4. CASE send_error(c, cl, m, d)
  <2> DEFINE x == [cl EXCEPT !.state = "SEND_ERROR", !.simple_response_sent = 0,
                             !.simple_response_buf = ErrorLines(m)]
  <2>1. /\ x \in ClientType /\ x.state = "SEND_ERROR"
        /\ x.simple_response_buf = ErrorLines(m)
        /\ x.simple_response_sent = 0
        /\ x.bytes_transferred = cl.bytes_transferred
        /\ x.list_sent = cl.list_sent /\ x.list_buf = cl.list_buf
    BY <1>1, TwoLines DEF ClientType, Sending
  <2>2. execute_simple_response_write(c, x, d)
    BY <1>4 DEF send_error
  <2> HIDE DEF x
  <2> QED
    BY <1>2, <2>1, <2>2
<1> QED
  BY <1>3, <1>4

(* A client that waits for more of its upload.                             *)
LEMMA WaitSpeaks ==
  ASSUME Typed, NEW c \in Conn, sock[c] = "open", NEW x,
         x.state # "RECV_HEADER", NEW d,
         Keep(c, x, d) \/ Watch(c, x, d, "READ")
  PROVE  Speaks(c)
BY DEF Keep, Watch, Typed, Speaks

LEMMA PutDataSpeaks ==
  ASSUME Typed, NEW c \in Conn, sock[c] = "open", req[c].verb = "PUT",
         NEW t \in Nat, t <= arrived[c], arrived[c] \in Nat,
         NEW cl, Base(cl), cl.state = "RECV_PUT_DATA",
         cl.bytes_transferred <= cl.expected_size, resp[c] = <<>>,
         NEW d, NEW dt, recv_put_data(c, cl, d, dt, t)
  PROVE  Speaks(c)
<1> DEFINE b == cl.bytes_transferred
           e == cl.expected_size
           k == Least(arrived[c] - t, e - b)
           cl1 == [cl EXCEPT !.bytes_transferred = b + k]
<1>1. /\ cl \in ClientType /\ b \in Nat /\ e \in Nat /\ b <= e
      /\ cl.state = "RECV_PUT_DATA"
  BY DEF Base, ClientType
<1>2. "Bad file size" \in Message
  BY DEF Message
<1>3. /\ cl1 = [cl EXCEPT !.bytes_transferred = @ + k]
      /\ k = Least(arrived[c] - t, cl.expected_size - cl.bytes_transferred)
  OBVIOUS
<1> HIDE DEF b, e
<1>4. k \in Nat
  <2>1. arrived[c] - t \in Nat /\ e - b \in Nat
    BY <1>1
  <2> QED
    BY <2>1, LeastRange
<1> HIDE DEF k
<1>5. b + k \in Nat
  BY <1>1, <1>4
<1>6. /\ cl1 \in ClientType /\ cl1.state = "RECV_PUT_DATA"
      /\ cl1.simple_response_sent = cl.simple_response_sent
      /\ cl1.simple_response_buf = cl.simple_response_buf
      /\ cl1.list_sent = cl.list_sent /\ cl1.list_buf = cl.list_buf
  BY <1>1, <1>5 DEF ClientType
<1> HIDE DEF cl1
<1>7. Base(cl1)
  BY <1>6, KeptBase
<1>8. ASSUME NEW x, Base(x),
             \/ send_ok(c, FileClosed(x), d)
             \/ send_error(c, FileClosed(x), "Bad file size", d)
      PROVE  Speaks(c)
  <2>1. Base(FileClosed(x))
    BY <1>8, ClosedBase
  <2> QED
    BY <1>2, <1>8, <2>1, SentSpeaks
<1>9. CASE Keep(c, cl1, d)
  BY <1>6, <1>9, WaitSpeaks
<1> QED
  BY <1>3, <1>7, <1>8, <1>9 DEF recv_put_data

LEMMA PutSizeSpeaks ==
  ASSUME Typed, Context, NEW c \in Conn, sock[c] = "open",
         taken[c] <= arrived[c],
         Good(c, client[c], taken[c]), client[c].state = "RECV_PUT_SIZE",
         resp[c] = <<>>, recv_put_size(c), DirOK(dir)
  PROVE  Speaks(c)
<1> DEFINE cl == client[c]
           b == cl.bytes_transferred
           need == SizeLen - b
           k == Least(arrived[c] - taken[c], need)
           t == taken[c] + k
           cl1 == [cl EXCEPT !.bytes_transferred = @ + k]
           cl2 == OffsetReset([cl1 EXCEPT !.expected_size = req[c].size])
           i == OpenInode(c, dir, cl.filename)
           cl3 == [cl2 EXCEPT !.file_fd = i, !.state = "RECV_PUT_DATA"]
<1>1. /\ Base(cl) /\ cl \in ClientType /\ b \in Nat /\ b <= SizeLen
      /\ SizeLen \in Nat /\ arrived[c] \in Nat /\ taken[c] \in Nat
      /\ Upload(c, cl) /\ req[c].size \in Nat
      /\ taken[c] <= arrived[c]
  BY ConstantsAssumption
     DEF Good, Base, PositionOK, ClientType, Context, Typed, Request
<1>2. /\ cl.state = "RECV_PUT_SIZE" /\ b = cl.bytes_transferred
      /\ "Bad file size" \in Message
  BY DEF Message
<1>3. i \in Conn
  <2>1. Made(c)
    BY DEF Made
  <2> QED
    BY <1>1, <2>1, OpenedOK DEF Upload
<1> HIDE DEF i, cl, b
<1>4. need \in Nat /\ arrived[c] - taken[c] \in Nat
  BY <1>1
<1> HIDE DEF need
<1>5. k \in Nat /\ k <= arrived[c] - taken[c]
  BY <1>4, LeastRange
<1> HIDE DEF k
<1>6. t \in Nat /\ t <= arrived[c] /\ b + k \in Nat
  BY <1>1, <1>5
<1> HIDE DEF t
<1>7. /\ cl1 \in ClientType /\ cl1.state = "RECV_PUT_SIZE"
      /\ cl1.simple_response_sent = cl.simple_response_sent
      /\ cl1.simple_response_buf = cl.simple_response_buf
      /\ cl1.list_sent = cl.list_sent /\ cl1.list_buf = cl.list_buf
  BY <1>1, <1>2, <1>6 DEF ClientType
<1> HIDE DEF cl1
<1>8. Base(cl1)
  BY <1>1, <1>7, KeptBase
<1>9. /\ cl2 \in ClientType
      /\ cl2.expected_size = req[c].size /\ cl2.bytes_transferred = 0
      /\ cl2.simple_response_sent = cl1.simple_response_sent
      /\ cl2.simple_response_buf = cl1.simple_response_buf
      /\ cl2.list_sent = cl1.list_sent /\ cl2.list_buf = cl1.list_buf
  BY <1>1, <1>7 DEF ClientType, OffsetReset
<1> HIDE DEF cl2
<1>10. Base(cl2)
  BY <1>8, <1>9, KeptBase
<1>11. /\ cl3 \in ClientType /\ cl3.state = "RECV_PUT_DATA"
       /\ cl3.expected_size = req[c].size /\ cl3.bytes_transferred = 0
       /\ cl3.simple_response_sent = cl2.simple_response_sent
       /\ cl3.simple_response_buf = cl2.simple_response_buf
       /\ cl3.list_sent = cl2.list_sent /\ cl3.list_buf = cl2.list_buf
  BY <1>3, <1>9 DEF ClientType, Receiving
<1> HIDE DEF cl3
<1>12. Base(cl3) /\ cl3.bytes_transferred <= cl3.expected_size
  BY <1>1, <1>10, <1>11, KeptBase
<1>13. ASSUME NEW x, Base(x), send_error(c, x, "Bad file size", dir)
       PROVE  Speaks(c)
  BY <1>2, <1>13, SentSpeaks
<1>14. CASE Keep(c, cl1, dir)
  BY <1>7, <1>14, WaitSpeaks
<1>15. ASSUME NEW d, NEW dt, recv_put_data(c, cl3, d, dt, t)
       PROVE  Speaks(c)
  BY <1>1, <1>6, <1>11, <1>12, <1>15, PutDataSpeaks DEF Upload
<1> QED
  BY <1>8, <1>10, <1>13, <1>14, <1>15
  DEF recv_put_size, cl, b, need, k, t, cl1, cl2, cl3, i

LEMMA GetSpeaks ==
  ASSUME Typed, DirOK(dir), DataOK(data), NEW c \in Conn, sock[c] = "open",
         NEW cl, Base(cl), cl.filename \in Name, resp[c] = <<>>,
         start_send_get(c, cl)
  PROVE  Speaks(c)
<1> DEFINE i == dir[cl.filename]
           opened == [cl EXCEPT !.file_fd = i, !.file_size = Len(data[i]),
                                !.bytes_transferred = 0]
<1>1. "No such file" \in Message
  BY DEF Message
<1>2. CASE send_error(c, cl, "No such file", dir)
  BY <1>1, <1>2, SentSpeaks
<1>3. CASE i # NoInode /\ send_ok(c, opened, dir)
  <2>1. i \in Conn /\ Len(data[i]) \in Nat
    <3>1. i \in Conn
      BY <1>3 DEF DirOK, Inodes
    <3>2. data[i] \in Seq(Unit)
      BY <3>1 DEF DataOK
    <3> QED
      BY <3>1, <3>2
  <2>2. cl \in ClientType
    BY DEF Base
  <2>3. /\ opened \in ClientType /\ opened.bytes_transferred = 0
        /\ opened.simple_response_sent = cl.simple_response_sent
        /\ opened.simple_response_buf = cl.simple_response_buf
        /\ opened.list_sent = cl.list_sent /\ opened.list_buf = cl.list_buf
    BY <2>1, <2>2 DEF ClientType
  <2> HIDE DEF opened
  <2>4. Base(opened)
    BY <2>3, KeptBase
  <2> QED
    BY <1>1, <1>3, <2>3, <2>4, SentSpeaks
<1> QED
  BY <1>2, <1>3 DEF start_send_get

(* A command line that is not complete closes the connection only if       *)
(* nothing more of it is to come.                                          *)
LEMMA HeaderSpeaks ==
  ASSUME Typed, Context, DirOK(dir), DataOK(data), NEW c \in Conn,
         sock[c] = "open", taken[c] <= arrived[c],
         Good(c, client[c], taken[c]), client[c].state = "RECV_HEADER",
         resp[c] = <<>>, taken[c] < HeaderLen, req[c].verb # "NUL",
         read_header(c)
  PROVE  \/ taken'[c] >= HeaderLen /\ Speaks(c)
         \/ /\ taken'[c] < HeaderLen
            /\ \/ sock'[c] = "open" /\ client'[c].state = "RECV_HEADER"
               \/ sock'[c] = "closed" /\ Eof(c) /\ arrived[c] < HeaderLen
<1> DEFINE h == client[c].header_len
           k == HeaderUnits(c)
           cl == [client[c] EXCEPT !.header_len = h + k]
           r == req[c]
           named == [cl EXCEPT !.request_verb = r.verb, !.filename = r.name]
           next == [named EXCEPT !.bytes_transferred = 0,
                                 !.state = "RECV_PUT_SIZE"]
           known == [cl EXCEPT !.request_verb = r.verb]
           list == [cl EXCEPT !.request_verb = "LIST"]
           line == k > 0 /\ h + k = HeaderLen
<1>1. /\ client[c] \in ClientType /\ h \in Nat /\ h = taken[c]
      /\ h < HeaderLen /\ HeaderLen \in Nat /\ arrived[c] \in Nat
      /\ k = Least(arrived[c] - h, HeaderLen - h)
      /\ taken' = [taken EXCEPT ![c] = h + k] /\ h <= arrived[c]
  BY ConstantsAssumption
  DEF Good, Base, ClientType, PositionOK, Context, Typed, read_header,
      HeaderUnits
<1>2. /\ r \in Request /\ Base(client[c]) /\ taken'[c] = h + k
      /\ cl = [client[c] EXCEPT !.header_len = @ + k]
      /\ client[c].state = "RECV_HEADER"
  BY <1>1 DEF Good, Context, Typed
<1>3. \/ line /\ r.verb # "LONG" /\ parse_header_and_transition(c, cl)
      \/ line /\ send_error(c, cl, "Bad request", dir)
      \/ ~line /\ Eof(c) /\ close_and_cleanup(c, cl, dir)
      \/ ~line /\ Keep(c, cl, dir)
  <2>1. cl.header_len = h + k
    BY <1>1 DEF ClientType
  <2> QED
    BY <1>2, <2>1 DEF read_header
<1> HIDE DEF k, h, line
<1>4. /\ k \in Nat /\ h + k \in 0..HeaderLen
      /\ line => h + k = HeaderLen
      /\ ~line => h + k < HeaderLen /\ arrived[c] < HeaderLen
  <2>1. arrived[c] - h \in Nat /\ HeaderLen - h \in Nat
    BY <1>1
  <2>2. /\ k \in Nat /\ k <= HeaderLen - h
        /\ k = arrived[c] - h \/ k = HeaderLen - h
    <3>1. k \in Nat /\ k <= HeaderLen - h
      BY <1>1, <2>1, LeastRange
    <3>2. k = arrived[c] - h \/ k = HeaderLen - h
      BY <1>1, Zenon DEF Least
    <3> QED
      BY <3>1, <3>2
  <2> QED
    BY <1>1, <2>2 DEF line
<1>5. /\ cl \in ClientType /\ cl.state = "RECV_HEADER"
      /\ cl.simple_response_sent = client[c].simple_response_sent
      /\ cl.simple_response_buf = client[c].simple_response_buf
      /\ cl.list_sent = client[c].list_sent /\ cl.list_buf = client[c].list_buf
  BY <1>1, <1>2, <1>4 DEF ClientType
<1> HIDE DEF cl, r
<1>6. Base(cl)
  BY <1>2, <1>5, KeptBase
<1>7. ASSUME r.verb \in Verb
      PROVE  Base(known)
  <2>1. /\ known \in ClientType
        /\ known.simple_response_sent = cl.simple_response_sent
        /\ known.simple_response_buf = cl.simple_response_buf
        /\ known.list_sent = cl.list_sent /\ known.list_buf = cl.list_buf
    BY <1>5, <1>7 DEF ClientType
  <2> HIDE DEF known
  <2> QED
    BY <1>6, <2>1, KeptBase
<1>8. ASSUME r.verb \in Verb, r.name # NoName
      PROVE  /\ Base(named) /\ named.filename \in Name
             /\ next.state = "RECV_PUT_SIZE"
  <2>1. r.name \in Name
    BY <1>2, <1>8 DEF Request
  <2>2. /\ named \in ClientType /\ named.filename = r.name
        /\ named.simple_response_sent = cl.simple_response_sent
        /\ named.simple_response_buf = cl.simple_response_buf
        /\ named.list_sent = cl.list_sent /\ named.list_buf = cl.list_buf
    BY <1>5, <1>8, <2>1 DEF ClientType
  <2>3. next.state = "RECV_PUT_SIZE"
    BY <1>5 DEF ClientType
  <2> HIDE DEF named
  <2> QED
    BY <1>6, <2>1, <2>2, <2>3, KeptBase
<1>9. Base(list)
  <2>1. /\ list \in ClientType
        /\ list.simple_response_sent = cl.simple_response_sent
        /\ list.simple_response_buf = cl.simple_response_buf
        /\ list.list_sent = cl.list_sent /\ list.list_buf = cl.list_buf
    BY <1>5 DEF ClientType, Verb
  <2> HIDE DEF list
  <2> QED
    BY <1>6, <2>1, KeptBase
<1>10. r = req[c]
  BY DEF r
<1>11. {"Bad request", "No such file"} \subseteq Message
  BY DEF Message
<1> HIDE DEF named, next, known, list
<1>12. ASSUME NEW x, Base(x), NEW m \in Message, send_error(c, x, m, dir)
       PROVE  Speaks(c)
  BY <1>12, SentSpeaks
<1>13. ASSUME NEW x, Base(x), NEW d, send_ok(c, x, d), r.verb # "GET"
       PROVE  Speaks(c)
  BY <1>10, <1>11, <1>13, SentSpeaks
<1>14. ASSUME parse_header_and_transition(c, cl)
       PROVE  Speaks(c)
  <2>1. CASE send_error(c, IF r.verb \in Verb THEN known ELSE cl,
                        "Bad request", dir)
    BY <1>6, <1>7, <1>11, <1>12, <2>1
  <2>2. CASE r.verb = "LIST" /\ send_ok(c, list, dir)
    BY <1>9, <1>13, <2>2
  <2>3. CASE r.verb = "DELETE" /\ r.name # NoName /\ delete_request(c, named)
    BY <1>8, <1>11, <1>12, <1>13, <2>3 DEF delete_request, Verb
  <2>4. CASE r.verb = "GET" /\ r.name # NoName /\ start_send_get(c, named)
    <3>1. Base(named) /\ named.filename \in Name
      BY <1>8, <2>4 DEF Verb
    <3> QED
      BY <1>11, <2>4, <3>1, GetSpeaks
  <2>5. CASE r.verb = "PUT" /\ r.name # NoName /\ Watch(c, next, dir, "READ")
    BY <1>8, <2>5, WaitSpeaks DEF Verb
  <2> QED
    BY <1>10, <1>14, <2>1, <2>2, <2>3, <2>4, <2>5
    DEF parse_header_and_transition, named, next, known, list
<1>15. CASE line /\ (parse_header_and_transition(c, cl)
                       \/ send_error(c, cl, "Bad request", dir))
  <2>1. Speaks(c)
    BY <1>6, <1>11, <1>12, <1>14, <1>15
  <2>2. taken'[c] >= HeaderLen
    <3>1. h + k = HeaderLen
      BY <1>4, <1>15
    <3>2. taken'[c] = HeaderLen /\ HeaderLen \in Nat
      BY <1>1, <1>2, <3>1
    <3> QED
      BY <3>2
  <2> QED
    BY <2>1, <2>2
<1>16. CASE ~line /\ Eof(c) /\ close_and_cleanup(c, cl, dir)
  BY <1>2, <1>4, <1>16 DEF close_and_cleanup, Typed
<1>17. CASE ~line /\ Keep(c, cl, dir)
  BY <1>2, <1>4, <1>5, <1>17 DEF Keep, Typed
<1> QED
  BY <1>3, <1>15, <1>16, <1>17

(* The handlers of an upload go on from where they were in its stream.     *)
LEMMA ReadsOn ==
  ASSUME Typed, NEW c \in Conn, NEW t \in Nat, t <= arrived[c],
         arrived[c] \in Nat, NEW cl, Base(cl),
         cl.bytes_transferred <= cl.expected_size,
         NEW d, NEW dt, recv_put_data(c, cl, d, dt, t)
  PROVE  taken'[c] >= t
<1> DEFINE b == cl.bytes_transferred
           e == cl.expected_size
           k == Least(arrived[c] - t, e - b)
<1>1. b \in Nat /\ e \in Nat /\ b <= e
  BY DEF Base, ClientType
<1>2. \/ \E j \in 0..(k - 1) : taken' = [taken EXCEPT ![c] = t + j + 1]
      \/ taken' = [taken EXCEPT ![c] = t + k + 1]
      \/ taken' = [taken EXCEPT ![c] = t + k]
  BY DEF recv_put_data
<1> HIDE DEF b, e
<1>3. k \in Nat
  <2>1. arrived[c] - t \in Nat /\ e - b \in Nat
    BY <1>1
  <2> QED
    BY <2>1, LeastRange
<1> HIDE DEF k
<1>4. \E j \in Nat : taken'[c] = t + j
  <2>1. ASSUME NEW j \in Nat, taken' = [taken EXCEPT ![c] = t + j + 1]
        PROVE  taken'[c] = t + (j + 1) /\ j + 1 \in Nat
    BY <2>1 DEF Typed
  <2>2. ASSUME taken' = [taken EXCEPT ![c] = t + k]
        PROVE  taken'[c] = t + k
    BY <2>2 DEF Typed
  <2>3. \A j \in 0..(k - 1) : j \in Nat
    BY <1>3
  <2> QED
    BY <1>2, <1>3, <2>1, <2>2, <2>3
<1> QED
  BY <1>4

LEMMA SizeReadsOn ==
  ASSUME Typed, Context, NEW c \in Conn, Good(c, client[c], taken[c]),
         taken[c] <= arrived[c], client[c].state = "RECV_PUT_SIZE",
         taken'[c] \in Nat, Made(c), DirOK(dir), recv_put_size(c)
  PROVE  taken'[c] >= taken[c]
<1> DEFINE cl == client[c]
           b == cl.bytes_transferred
           need == SizeLen - b
           k == Least(arrived[c] - taken[c], need)
           t == taken[c] + k
           cl1 == [cl EXCEPT !.bytes_transferred = b + k]
           cl2 == OffsetReset([cl1 EXCEPT !.expected_size = req[c].size])
           i == OpenInode(c, dir, cl.filename)
           cl3 == [cl2 EXCEPT !.file_fd = i, !.state = "RECV_PUT_DATA"]
<1>1. /\ Base(cl) /\ cl \in ClientType /\ b \in Nat /\ b <= SizeLen
      /\ SizeLen \in Nat /\ arrived[c] \in Nat /\ taken[c] \in Nat
      /\ Upload(c, cl) /\ req[c].size \in Nat /\ taken[c] <= arrived[c]
  BY ConstantsAssumption
     DEF Good, Base, PositionOK, ClientType, Context, Typed, Request
<1>2. i \in Conn
  BY <1>1, OpenedOK DEF Upload
<1>3. \/ taken' = [taken EXCEPT ![c] = t]
      \/ recv_put_data(c, cl3, [dir EXCEPT ![cl.filename] = i],
                       Truncated(data, i), t)
  BY DEF recv_put_size
<1> HIDE DEF i, cl, b
<1>4. need \in Nat /\ arrived[c] - taken[c] \in Nat
  BY <1>1
<1> HIDE DEF need
<1>5. k \in Nat /\ k <= arrived[c] - taken[c]
  BY <1>4, LeastRange
<1> HIDE DEF k
<1>6. t \in Nat /\ t <= arrived[c] /\ b + k \in Nat /\ t >= taken[c]
  BY <1>1, <1>5
<1> HIDE DEF t
<1>7. /\ cl1 \in ClientType
      /\ cl1.simple_response_sent = cl.simple_response_sent
      /\ cl1.simple_response_buf = cl.simple_response_buf
      /\ cl1.list_sent = cl.list_sent /\ cl1.list_buf = cl.list_buf
  BY <1>1, <1>6 DEF ClientType
<1> HIDE DEF cl1
<1>8. /\ cl2 \in ClientType
      /\ cl2.expected_size = req[c].size /\ cl2.bytes_transferred = 0
      /\ cl2.simple_response_sent = cl.simple_response_sent
      /\ cl2.simple_response_buf = cl.simple_response_buf
      /\ cl2.list_sent = cl.list_sent /\ cl2.list_buf = cl.list_buf
  BY <1>1, <1>7 DEF ClientType, OffsetReset
<1> HIDE DEF cl2
<1>9. /\ cl3 \in ClientType
      /\ cl3.expected_size = req[c].size /\ cl3.bytes_transferred = 0
      /\ cl3.simple_response_sent = cl.simple_response_sent
      /\ cl3.simple_response_buf = cl.simple_response_buf
      /\ cl3.list_sent = cl.list_sent /\ cl3.list_buf = cl.list_buf
  BY <1>2, <1>8 DEF ClientType, Receiving
<1> HIDE DEF cl3
<1>10. Base(cl3)
  BY <1>1, <1>9, KeptBase
<1>11. cl3.bytes_transferred <= cl3.expected_size
  BY <1>1, <1>9
<1>12. CASE taken' = [taken EXCEPT ![c] = t]
  <2>1. taken'[c] = t
    BY <1>12 DEF Typed
  <2> QED
    BY <1>6, <2>1
<1>13. ASSUME NEW d, NEW dt, recv_put_data(c, cl3, d, dt, t)
       PROVE  taken'[c] >= taken[c]
  <2>1. taken'[c] >= t
    BY <1>1, <1>6, <1>10, <1>11, <1>13, ReadsOn
  <2> QED
    BY <1>1, <1>6, <2>1
<1> QED
  BY <1>3, <1>12, <1>13

(* With its line read, a connection is closed only when it was answered.   *)
LEMMA EndsSpoken ==
  ASSUME Typed, NEW c \in Conn, sock[c] = "open", AnswerResult(c),
         resp'[c] \in Seq(RespUnit), req' = req, taken'[c] \in Nat,
         taken'[c] >= HeaderLen, Speaks(c), client[c].state # "SEND_GET_DATA"
  PROVE  HeardOut(c)'
<1>1. CASE sock'[c] = "closed" /\ c \notin rst'
  <2>1. Complete(c)'
    BY <1>1 DEF Speaks, AnswerResult, MayEnd, FileWasCut
  <2>2. Len(resp'[c]) >= 2
    BY <2>1, TwoLines DEF Complete
  <2> QED
    BY <1>1, <2>2 DEF HeardOut
<1>2. CASE sock'[c] = "closed" /\ c \in rst'
  BY <1>2 DEF HeardOut
<1>3. CASE sock'[c] # "closed"
  <2>1. sock'[c] = "open" /\ client'[c].state # "RECV_HEADER"
    BY <1>3 DEF Speaks, AnswerResult
  <2>2. ~(taken'[c] < HeaderLen)
    BY ConstantsAssumption
  <2> QED
    BY <2>1, <2>2 DEF HeardOut
<1> QED
  BY <1>1, <1>2, <1>3

(* Whoever has been told two units is told more, or nothing.               *)
LEMMA EndsToldMore ==
  ASSUME Typed, NEW c \in Conn, sock[c] = "open", AnswerResult(c),
         resp'[c] \in Seq(RespUnit), Extends(resp[c], resp'[c]),
         Len(resp[c]) >= 2, taken'[c] \in Nat, taken'[c] >= HeaderLen
  PROVE  HeardOut(c)'
<1>1. Len(resp'[c]) >= 2
  <2>1. Len(resp[c]) \in Nat /\ Len(resp'[c]) \in Nat
    BY DEF Typed
  <2> QED
    BY <2>1 DEF Extends
<1>2. ~(taken'[c] < HeaderLen)
  BY ConstantsAssumption
<1>3. sock'[c] # "closed" => client'[c].state # "RECV_HEADER"
  BY <1>1 DEF AnswerResult, Telling, Receiving
<1> QED
  BY <1>1, <1>2, <1>3 DEF HeardOut, AnswerResult

LEMMA DispatchEnds ==
  ASSUME IInv, Typed, AnswerInv, NEW c \in Conn, Dispatch(c), PeerOK(c),
         HeardOut(c)
  PROVE  HeardOut(c)'
<1> DEFINE cl == client[c]
<1>1. /\ sock[c] = "open" /\ Made(c) /\ Good(c, cl, taken[c])
      /\ taken[c] <= arrived[c] /\ Context /\ DirOK(dir) /\ DataOK(data)
      /\ req' = req /\ UNCHANGED peerVars /\ Base(cl)
  BY DispatchHandled DEF peerVars, Good
<1>2. /\ resp' \in [Conn -> Seq(RespUnit)] /\ Extends(resp[c], resp'[c])
      /\ taken'[c] \in Nat
  BY DispatchHandled DEF Handled, Outcome, WritesOn, WritesOK
<1>3. Telling(c, cl, resp[c]) /\ AnswerResult(c)
  BY <1>1, HandlerAnswers DEF AnswerInv, AnswerOK
<1>4. HeaderLen \in Nat /\ taken[c] \in Nat /\ arrived[c] \in Nat
  BY <1>1, ConstantsAssumption DEF Typed, Context
<1>5. rst \subseteq rst'
  BY ReadOwn, WriteOwn, WritesOwn
  DEF Dispatch, HandleError, HandleRead, HandleWrite, Own
<1>6. CASE c \in rst' \/ req[c].verb = "NUL"
  BY <1>1, <1>6 DEF HeardOut
<1>7. CASE c \notin rst' /\ req[c].verb # "NUL"
  <2>1. cl.state = "RECV_HEADER" <=> taken[c] < HeaderLen
    BY <1>1, <1>5, <1>7 DEF HeardOut
  <2>2. CASE cl.state = "RECV_HEADER" /\ read_header(c)
    <3>1. resp[c] = <<>>
      BY <1>3, <2>2 DEF Telling, Receiving
    <3>2. \/ taken'[c] >= HeaderLen /\ Speaks(c)
          \/ /\ taken'[c] < HeaderLen
             /\ \/ sock'[c] = "open" /\ client'[c].state = "RECV_HEADER"
                \/ sock'[c] = "closed" /\ Eof(c) /\ arrived[c] < HeaderLen
      BY <1>1, <1>7, <2>1, <2>2, <3>1, HeaderSpeaks
    <3>3. CASE taken'[c] >= HeaderLen /\ Speaks(c)
      BY <1>1, <1>2, <1>3, <2>2, <3>3, EndsSpoken
    <3>4. CASE /\ taken'[c] < HeaderLen
               /\ sock'[c] = "open" /\ client'[c].state = "RECV_HEADER"
      BY <3>4 DEF HeardOut
    <3>5. CASE sock'[c] = "closed" /\ Eof(c) /\ arrived[c] < HeaderLen
      <4>1. req'[c].len < HeaderLen
        BY <1>1, <1>5, <1>7, <3>5 DEF Eof, PeerOK
      <4> QED
        BY <3>5, <4>1 DEF HeardOut
    <3> QED
      BY <3>2, <3>3, <3>4, <3>5
  <2>3. CASE cl.state = "RECV_PUT_SIZE" /\ recv_put_size(c)
    <3>1. resp[c] = <<>>
      BY <1>3, <2>3 DEF Telling, Receiving
    <3>2. Speaks(c) /\ taken'[c] >= taken[c]
      BY <1>1, <1>2, <2>3, <3>1, PutSizeSpeaks, SizeReadsOn
    <3>3. taken'[c] >= HeaderLen
      BY <1>2, <1>4, <2>1, <2>3, <3>2
    <3> QED
      BY <1>1, <1>2, <1>3, <2>3, <3>2, <3>3, EndsSpoken
  <2>4. CASE /\ cl.state = "RECV_PUT_DATA"
             /\ recv_put_data(c, cl, dir, data, taken[c])
    <3>1. /\ resp[c] = <<>> /\ req[c].verb = "PUT"
          /\ cl.bytes_transferred <= cl.expected_size
      BY <1>1, <1>3, <2>4 DEF Telling, Receiving, Good, PositionOK, Upload
    <3>2. Speaks(c) /\ taken'[c] >= taken[c]
      BY <1>1, <1>4, <2>4, <3>1, PutDataSpeaks, ReadsOn
    <3>3. taken'[c] >= HeaderLen
      BY <1>2, <1>4, <2>1, <2>4, <3>2
    <3> QED
      BY <1>1, <1>2, <1>3, <2>4, <3>2, <3>3, EndsSpoken
  <2>5. CASE NothingToDo(c)
    <3>1. client'[c] = cl /\ sock' = sock /\ taken' = taken
      BY <2>5 DEF NothingToDo, Keep, Typed
    <3> QED
      BY <1>1, <2>1, <3>1 DEF HeardOut
  <2>6. CASE HandleError(c)
    BY <1>5, <1>7, <2>6 DEF HandleError, AnswerInv, AnswerOK
  <2>7. CASE /\ taken' = taken /\ cl.state \in {"SEND_OK", "SEND_ERROR"}
             /\ execute_simple_response_write(c, cl, dir)
    <3>1. Speaks(c)
      BY <1>1, <1>3, <2>7, ResponseSpeaks
    <3>2. taken'[c] >= HeaderLen
      BY <1>4, <2>1, <2>7
    <3> QED
      BY <1>1, <1>2, <1>3, <2>7, <3>1, <3>2, EndsSpoken
  <2>8. CASE /\ taken' = taken
             /\ cl.state \in {"SEND_LIST_DATA", "SEND_GET_SIZE",
                              "SEND_GET_DATA"}
    <3>1. Len(resp[c]) >= 2
      BY <1>3, <2>8 DEF Telling, Answers
    <3>2. taken'[c] >= HeaderLen
      BY <1>4, <2>1, <2>8
    <3> QED
      BY <1>1, <1>2, <1>3, <3>1, <3>2, EndsToldMore
  <2> QED
    BY <2>2, <2>3, <2>4, <2>5, <2>6, <2>7, <2>8
    DEF Dispatch, HandleRead, HandleWrite, handle_read_event,
        handle_write_event
<1> QED
  BY <1>6, <1>7

(* Between two handlers a connection is only made, or accepted.            *)
LEMMA QuietEnds ==
  ASSUME IInv, EndInv, Quiet, rst \subseteq rst', NEW x \in Conn
  PROVE  HeardOut(x)'
<1>1. /\ HeardOut(x) /\ taken' = taken /\ resp' = resp
      /\ sock[x] \in {"none", "backlog", "open", "closed"}
      /\ taken[x] \in Nat
  BY DEF EndInv, Quiet, IInv, TypeOK
<1>2. CASE /\ sock'[x] = sock[x] /\ client'[x] = client[x]
           /\ sock[x] \in {"open", "closed"}
  <2>1. req'[x] = req[x]
    BY <1>2 DEF Quiet, Made
  <2> QED
    BY <1>1, <1>2, <2>1 DEF HeardOut
<1>3. CASE sock'[x] \in {"none", "backlog"}
  BY <1>3 DEF HeardOut
<1>4. CASE /\ sock[x] = "backlog" /\ sock'[x] = "open"
           /\ client'[x] = client_create
  <2>1. taken'[x] = 0 /\ 0 < HeaderLen
    BY <1>1, <1>4, ConstantsAssumption DEF IInv, ClientInv, ClientOK
  <2>2. client'[x].state = "RECV_HEADER"
    BY <1>4 DEF client_create
  <2> QED
    BY <1>4, <2>1, <2>2 DEF HeardOut
<1> QED
  BY <1>1, <1>2, <1>3, <1>4 DEF Quiet

LEMMA EndNext == IInv /\ AnswerInv /\ EndInv /\ [Next]_vars => EndInv'
<1> SUFFICES ASSUME IInv, AnswerInv, EndInv, [Next]_vars PROVE EndInv'
  OBVIOUS
<1>1. Typed /\ TypeOK /\ AllPeers
  BY DEF IInv, TypeOK, Typed, EndInv, AllPeers
<1>2. AllPeers'
  BY <1>1, PeersNext
<1>3. ASSUME NEW c \in Conn, Dispatch(c), NEW x \in Conn
      PROVE  HeardOut(x)'
  <2>1. CASE x = c
    BY <1>1, <1>3, <2>1, DispatchEnds DEF EndInv
  <2>2. CASE x # c
    <3>1. /\ resp'[x] = resp[x] /\ sock'[x] = sock[x]
          /\ client'[x] = client[x] /\ taken'[x] = taken[x]
          /\ x \in rst => x \in rst'
      BY <1>1, <1>3, <2>2, OthersFrame
    <3>2. req' = req
      BY <1>3, DispatchHandled DEF peerVars
    <3> QED
      BY <3>1, <3>2 DEF EndInv, HeardOut
  <2> QED
    BY <2>1, <2>2
<1>4. ASSUME ~(\E c \in Conn : Dispatch(c)), NEW x \in Conn
      PROVE  HeardOut(x)'
  <2>1. Quiet
    BY <1>1, <1>4, QuietSteps
  <2>2. rst \subseteq rst'
    BY <1>4
    DEF Next, Idle, Peer, event_loop_wait, accept_connections, Connect, Arrive,
        Close, Reset, Drain, vars, writeVars
  <2> QED
    BY <2>1, <2>2, QuietEnds
<1> QED
  BY <1>2, <1>3, <1>4 DEF EndInv, AllPeers

-----------------------------------------------------------------------------
(***************************************************************************)
(* The theorems.                                                           *)
(***************************************************************************)

(* In every state of its client, what a peer has been sent is as much of   *)
(* the response to its request as the client's counters say, whatever the  *)
(* socket refused, cut short or interleaved (server.c:402-571).            *)
THEOREM AnswersKept == Spec => []AnswerInv
<1>1. Init => AnswerInv
  BY DEF Init, AnswerInv, AnswerOK
<1> QED
  BY <1>1, AnswersNext, ServerInvariant, PTL DEF Spec

(* Unless its peer breaks it or hides the end of its line, a connection    *)
(* waits for its command line until that is read, and is closed after it   *)
(* only when a response has begun (server.c:498-551, 633-704).             *)
THEOREM EndsKept == Spec => []EndInv
<1>1. Init => EndInv
  <2> SUFFICES ASSUME Init, NEW c \in Conn PROVE PeerOK(c) /\ HeardOut(c)
    BY DEF EndInv
  <2>1. arrived[c] = 0 /\ fin = {} /\ sock[c] = "none"
    BY DEF Init
  <2> QED
    BY <2>1 DEF PeerOK, HeardOut, Made
<1> QED
  BY <1>1, EndNext, ServerInvariant, AnswersKept, PTL DEF Spec

(* A peer that has sent its whole command line, and stays, has been told   *)
(* OK or its error before the server closes (server.c:205-226, 636-704).   *)
THEOREM NobodyClosedUnanswered == Spec => []ClosedOnlyAnswered
<1>1. IInv /\ EndInv => ClosedOnlyAnswered
  <2> SUFFICES ASSUME IInv, EndInv, NEW c \in Conn, sock[c] = "closed",
                      c \notin rst, req[c].len >= HeaderLen,
                      req[c].verb # "NUL"
               PROVE  Len(resp[c]) >= 2
    BY TwoLines DEF ClosedOnlyAnswered
  <2>1. req[c].len \in Nat /\ HeaderLen \in Nat
    BY ConstantsAssumption DEF IInv, TypeOK, Request
  <2>2. req[c].len < HeaderLen \/ Len(resp[c]) >= 2
    BY DEF EndInv, HeardOut
  <2> QED
    BY <2>1, <2>2
<1> QED
  BY <1>1, EndsKept, ServerInvariant, PTL

LEMMA AllTold ==
  ASSUME IInv, AnswerInv, NEW c \in Conn
  PROVE  Told(c, resp[c]) /\ resp[c] \in Seq(RespUnit)
<1>1. resp[c] \in Seq(RespUnit) /\ AnswerOK(c)
  BY DEF IInv, TypeOK, AnswerInv
<1>2. CASE sock[c] = "open"
  <2>1. Telling(c, client[c], resp[c]) /\ Base(client[c])
    BY <1>1, <1>2 DEF AnswerOK, IInv, ClientInv, ClientOK, Good
  <2> QED
    BY <1>1, <2>1, TellingTold
<1>3. CASE sock[c] \in {"none", "backlog"}
  <2>1. resp[c] = SubSeq(OkLine, 1, 0) /\ 0 \in Nat /\ 0 <= 2
    BY <1>1, <1>3, SubSeqEmpty DEF AnswerOK
  <2>2. Told(c, resp[c])
    BY <2>1, PrefixTold
  <2> QED
    BY <1>1, <2>2
<1>4. CASE sock[c] = "closed"
  BY <1>1, <1>4 DEF AnswerOK
<1>5. sock[c] \in {"none", "backlog", "open", "closed"}
  BY DEF IInv, TypeOK
<1> QED
  BY <1>2, <1>3, <1>4, <1>5

(* Whatever is sent begins as some whole response would, and a sized one   *)
(* has no more items than its size (server.c:402-466, 498-571).            *)
THEOREM ResponsesFramed == Spec => []ResponseFraming
<1>1. ASSUME IInv, AnswerInv PROVE ResponseFraming
  <2> SUFFICES ASSUME NEW c \in Conn
               PROVE  \/ IsPrefix(resp[c], OkLine)
                      \/ \E m \in Message : IsPrefix(resp[c], ErrorLines(m))
                      \/ req[c].verb = "GET" /\ Sized(resp[c], "DATA")
                      \/ req[c].verb = "LIST" /\ Sized(resp[c], "FILE")
    BY DEF ResponseFraming
  <2> DEFINE s == resp[c]
             n == s[3][2]
             kind == IF req[c].verb = "GET" THEN "DATA" ELSE "FILE"
  <2>1. Told(c, s) /\ s \in Seq(RespUnit)
    BY <1>1, AllTold
  <2>2. CASE /\ Len(s) > 2 /\ req[c].verb \in {"GET", "LIST"}
             /\ Answers(c, n, s)
    <3> HIDE DEF s
    <3>1. s[3] = <<"SIZE", n>> /\ Len(s) \in Nat /\ Len(s) <= 4 + n
      BY <2>1, <2>2 DEF Answers
    <3>2. n \in Nat
      <4>1. s[3] \in RespUnit
        BY <2>1, <2>2
      <4> QED
        BY <3>1, <4>1 DEF RespUnit
    <3> HIDE DEF n
    <3>3. IsPrefix(OkLine, s)
      <4>1. SubSeq(s, 1, 2) = OkLine
        <5>1. SubSeq(s, 0 + 1, 0 + 2) \in Seq(RespUnit)
              /\ Len(SubSeq(s, 0 + 1, 0 + 2)) = 2
              /\ \A k \in 1..2 : SubSeq(s, 0 + 1, 0 + 2)[k] = s[0 + k]
          BY <2>1, <2>2, <3>1, Slice
        <5>2. 0 + 1 = 1 /\ 0 + 2 = 2
          OBVIOUS
        <5>3. s[1] = OkLine[1] /\ s[2] = OkLine[2]
          BY <2>2, TwoLines DEF Answers
        <5>4. /\ SubSeq(s, 1, 2) \in Seq(RespUnit)
              /\ Len(SubSeq(s, 1, 2)) = 2
              /\ \A k \in 1..2 : SubSeq(s, 1, 2)[k] = OkLine[k]
          BY <5>1, <5>2, <5>3
        <5> QED
          BY <5>4, TwoLines, SeqEqual
      <4> QED
        BY <2>2, <3>1, <4>1, TwoLines DEF IsPrefix
    <3>4. \A k \in 3..Least(4, Len(s)) : s[k] = <<"SIZE", n>>
      BY <2>2, <3>1 DEF Answers, Least
    <3>5. /\ Len(AfterSize(s)) <= n
          /\ \A k \in 1..Len(AfterSize(s)) : AfterSize(s)[k] = s[k + 4]
          /\ \A k \in 1..Len(AfterSize(s)) : k + 4 \in 5..Len(s)
      BY <2>1, <3>1, <3>2, AfterSizeUnits
    <3>6. \A k \in 1..Len(AfterSize(s)) : AfterSize(s)[k][1] = kind
      <4> SUFFICES ASSUME NEW k \in 1..Len(AfterSize(s))
                   PROVE  s[k + 4][1] = kind
        BY <3>5
      <4>1. BodyUnitOK(c, s[k + 4], k + 4 - 4)
        BY <2>2, <3>5 DEF Answers
      <4> QED
        BY <4>1 DEF BodyUnitOK
    <3>7. Sized(s, kind)
      BY <2>2, <3>3, <3>4, <3>5, <3>6 DEF Sized, n
    <3> QED
      BY <2>2, <3>7 DEF s
  <2> QED
    BY <2>1, <2>2 DEF Told
<1> QED
  BY <1>1, AnswersKept, ServerInvariant, PTL

(* A unit of a download stands where its sender had it, in a file of the   *)
(* name asked for, whatever was stored, cut or replaced since the download *)
(* began and however short its writes were (server.c:441-459).             *)
THEOREM DownloadsInPlace == Spec => []SentInPlace
<1>1. ASSUME IInv, AnswerInv PROVE SentInPlace
  <2> SUFFICES ASSUME NEW c \in Conn, req[c].verb = "GET",
                      NEW k \in 1..Len(AfterSize(resp[c]))
               PROVE  InPlace(AfterSize(resp[c])[k][2], req[c].name, k)
    BY DEF SentInPlace
  <2> DEFINE s == resp[c]
             unit == AfterSize(s)[k]
  <2>1. Told(c, s) /\ s \in Seq(RespUnit)
    BY <1>1, AllTold
  <2>2. unit = s[k + 4] /\ k + 4 \in 5..Len(s) /\ k \in Nat
    BY <2>1, AfterSizeUnits
  <2>3. Len(s) > 4
    BY <2>1, <2>2
  <2> HIDE DEF s
  <2>4. Answers(c, s[3][2], s)
    <3>1. ~IsPrefix(s, OkLine)
      BY <2>1, <2>3, TwoLines DEF IsPrefix
    <3>2. ASSUME NEW m \in Message PROVE ~IsPrefix(s, ErrorLines(m))
      <4>1. Len(ErrorLines(m)) = 2
        BY TwoLines
      <4> QED
        BY <2>1, <2>3, <4>1 DEF IsPrefix
    <3> QED
      BY <2>1, <3>1, <3>2 DEF Told
  <2>5. BodyUnitOK(c, unit, k)
    <3>1. BodyUnitOK(c, s[k + 4], k + 4 - 4) /\ k + 4 - 4 = k
      BY <2>2, <2>4 DEF Answers
    <3> QED
      BY <2>2, <3>1
  <2>6. UnitOK(unit[2], c, k)
    BY <2>5 DEF BodyUnitOK
  <2>7. ASSUME NEW w \in Conn, unit[2] = <<w, k>>, req[w].name = req[c].name
        PROVE  InPlace(unit[2], req[c].name, k)
    <3>1. unit[2][1] = w /\ unit[2][2] = k
      BY <2>7
    <3> QED
      BY <2>7, <3>1 DEF InPlace
  <2> QED
    BY <2>6, <2>7 DEF UnitOK, InPlace, s
<1> QED
  BY <1>1, AnswersKept, ServerInvariant, PTL

(* No handler closes a connection it has begun to answer before the last   *)
(* unit of the response, but for a broken connection and a file that was   *)
(* cut (server.c:441-465, 511-514, 532-548).                               *)
THEOREM ClosedOnlyComplete == Spec => ClosedComplete
<1>1. ASSUME IInv, AnswerInv, [Next]_vars, NEW c \in Conn,
             sock[c] = "open", sock'[c] = "closed", c \notin rst',
             resp'[c] # <<>>
      PROVE  Complete(c)' \/ FileWasCut(c)
  <2>1. Typed /\ TypeOK
    BY <1>1 DEF IInv, TypeOK, Typed
  <2>2. CASE Dispatch(c)
    <3>1. AnswerResult(c)
      BY <1>1, <2>1, <2>2, HandlerAnswers DEF AnswerInv
    <3> QED
      BY <1>1, <3>1 DEF AnswerResult, MayEnd
  <2>3. ASSUME NEW x \in Conn, x # c, Dispatch(x) PROVE FALSE
    BY <1>1, <2>1, <2>3, OthersFrame
  <2>4. CASE ~(\E x \in Conn : Dispatch(x))
    BY <1>1, <2>1, <2>4, QuietSteps DEF Quiet
  <2> QED
    BY <2>2, <2>3, <2>4
<1>2. IInv /\ AnswerInv /\ [Next]_vars
        => [\A c \in Conn :
              /\ sock[c] = "open" /\ sock'[c] = "closed"
              /\ c \notin rst' /\ resp'[c] # <<>>
              => Complete(c)' \/ FileWasCut(c)]_vars
  BY <1>1
<1> QED
  BY <1>2, AnswersKept, ServerInvariant, PTL DEF Spec, ClosedComplete

(* An upload's OK is first written by the handler that finds nothing more  *)
(* has arrived.                                                            *)
LEMMA OwnConfirm ==
  ASSUME "eagain" \notin Faults, IInv, ReplyInv, AnswerInv, Typed,
         NEW c \in Conn, Dispatch(c), req[c].verb = "PUT",
         ~SaidOk(c), SaidOk(c)'
  PROVE  arrived[c] = HeaderLen + SizeLen + req[c].size
<1>1. /\ sock[c] = "open" /\ Made(c) /\ Good(c, client[c], taken[c])
      /\ taken[c] <= arrived[c] /\ Context /\ DirOK(dir)
  BY DispatchHandled
<1>2. UploadTold(c)
  BY <1>1 DEF ReplyInv, ReplyOK
<1>3. UploadResult(c)
  <2>1. resp' # resp
    BY DEF SaidOk
  <2>2. CASE HandleRead(c)
    <3>1. ~NothingToDo(c)
      BY <2>1 DEF NothingToDo, NoWrite, writeVars
    <3> QED
      BY <1>1, <1>2, <2>2, <3>1, ReadTold DEF HandleRead
  <2>3. CASE HandleWrite(c)
    BY <1>1, <1>2, <2>3, WriteTold DEF HandleWrite
  <2> QED
    BY <2>1, <2>2, <2>3 DEF Dispatch, HandleError, NoWrite, writeVars
<1>4. client[c].state # "SEND_OK"
  <2> SUFFICES ASSUME client[c].state = "SEND_OK" PROVE FALSE
    OBVIOUS
  <2> DEFINE n == client[c].simple_response_sent
  <2>1. resp[c] # <<>>
    BY <1>2 DEF UploadTold, Begun, Receiving
  <2>2. resp[c] = SubSeq(OkLine, 1, n)
    BY <1>1 DEF AnswerInv, AnswerOK, Telling, SentOf
  <2>3. n \in Nat /\ n <= 2
    BY <1>1, TwoLines DEF AnswerInv, AnswerOK, Telling, SentOf, Good, Base,
                          ClientType
  <2> HIDE DEF n
  <2>4. n # 0
    BY <2>1, <2>2, SubSeqEmpty
  <2>5. resp[c][1] = OkLine[1]
    <3>1. OkLine \in Seq(RespUnit) /\ 0 + n <= Len(OkLine) /\ 0 + 1 = 1
          /\ 0 + n = n /\ 1 \in 1..n
      BY <2>3, <2>4, TwoLines
    <3>2. \A k \in 1..n : SubSeq(OkLine, 0 + 1, 0 + n)[k] = OkLine[0 + k]
      BY <2>3, <3>1, Slice
    <3> QED
      BY <2>2, <3>1, <3>2
  <2> QED
    BY <2>1, <2>5, TwoLines DEF SaidOk
<1> QED
  BY <1>3, <1>4 DEF UploadResult, Failed, Waits, SaidOk, WholeLen

(* When a write to a socket with room takes something, an upload is        *)
(* confirmed only if nothing more has arrived than it promised             *)
(* (server.c:364-375).                                                     *)
THEOREM ConfirmedOnlyExact ==
  "eagain" \notin Faults => (Spec => ConfirmedExactly)
<1> SUFFICES ASSUME "eagain" \notin Faults PROVE Spec => ConfirmedExactly
  OBVIOUS
<1>1. ASSUME IInv, ReplyInv, AnswerInv, [Next]_vars, NEW c \in Conn,
             req[c].verb = "PUT", ~SaidOk(c), SaidOk(c)'
      PROVE  arrived[c] = HeaderLen + SizeLen + req[c].size
  <2>1. Typed /\ TypeOK
    BY <1>1 DEF IInv, TypeOK, Typed
  <2>2. CASE Dispatch(c)
    BY <1>1, <2>1, <2>2, OwnConfirm
  <2>3. ASSUME NEW x \in Conn, x # c, Dispatch(x) PROVE FALSE
    BY <1>1, <2>1, <2>3, OthersFrame DEF SaidOk
  <2>4. CASE ~(\E x \in Conn : Dispatch(x))
    BY <1>1, <2>1, <2>4, QuietSteps DEF Quiet, SaidOk
  <2> QED
    BY <2>2, <2>3, <2>4
<1>2. IInv /\ ReplyInv /\ AnswerInv /\ [Next]_vars
        => [\A c \in Conn :
              req[c].verb = "PUT" /\ ~SaidOk(c) /\ SaidOk(c)'
                => arrived[c] = HeaderLen + SizeLen + req[c].size]_vars
  BY <1>1
<1> QED
  BY <1>2, AnswersKept, UploadsToldInOrder, ServerInvariant, PTL
  DEF Spec, ConfirmedExactly

=============================================================================
