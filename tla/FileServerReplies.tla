------------------------- MODULE FileServerReplies -------------------------
(***************************************************************************)
(* Proofs, for every value of the constants, that an upload is answered OK *)
(* and its name listed only if it was read whole.                          *)
(*                                                                         *)
(* The argument: until the first write of its response an upload has been  *)
(* told nothing and has units to come (UploadTold).  The handler that      *)
(* reads the last of them either fails, and from then on writes an error   *)
(* and nothing else (Failed), or prepares OK with the stream at its end,   *)
(* where no later handler reads.                                           *)
(***************************************************************************)
EXTENDS FileServerProofs

-----------------------------------------------------------------------------
(***************************************************************************)
(* The simple response of an upload.                                       *)
(***************************************************************************)
Typed ==
  /\ sock \in [Conn -> {"none", "backlog", "open", "closed"}]
  /\ client \in [Conn -> ClientType]
  /\ resp \in [Conn -> Seq(RespUnit)]
  /\ taken \in [Conn -> Nat]

Failed(c) ==
  /\ ~SaidOk(c)'
  /\ \/ sock'[c] = "closed"
     \/ /\ sock'[c] = sock[c]
        /\ client'[c].state = "SEND_ERROR" /\ ErrorSent(c)'

LEMMA Slice ==
  ASSUME NEW S, NEW s \in Seq(S), NEW m \in Nat, NEW n \in Nat,
         m + n <= Len(s)
  PROVE  /\ SubSeq(s, m + 1, m + n) \in Seq(S)
         /\ Len(SubSeq(s, m + 1, m + n)) = n
         /\ \A k \in 1..n : SubSeq(s, m + 1, m + n)[k] = s[m + k]
<1> DEFINE a == m + 1
           b == m + n
           t == SubSeq(s, a, b)
<1>1. /\ a \in Int /\ b \in Int /\ b - a + 1 = n
      /\ (IF a <= b THEN b - a + 1 ELSE 0) = n
      /\ \A k \in 1..n : a + k - 1 = m + k
  OBVIOUS
<1>2. \A p \in a..b : s[p] \in S
  OBVIOUS
<1> HIDE DEF a, b
<1>3. /\ t \in Seq(S) /\ Len(t) = IF a <= b THEN b - a + 1 ELSE 0
      /\ \A k \in 1..(b - a + 1) : t[k] = s[a + k - 1]
  BY <1>1, <1>2, SubSeqProperties
<1> HIDE DEF t
<1>4. t \in Seq(S) /\ Len(t) = n /\ \A k \in 1..n : t[k] = s[m + k]
  BY <1>1, <1>3
<1> QED
  BY <1>4 DEF t, a, b

LEMMA ErrorNotOk ==
  ASSUME NEW m \in Message, NEW n \in Nat, n <= Len(ErrorLines(m)),
         NEW s, s = SubSeq(ErrorLines(m), 1, n), s # <<>>
  PROVE  s[1][1] # "OK"
<1>1. ErrorLines(m) \in Seq(RespUnit) /\ ErrorLines(m)[1] = <<"ERROR", 1>>
  BY FixedResponses DEF ErrorLines
<1>2. n # 0
  BY <1>1, SubSeqEmpty
<1>3. s[1] = ErrorLines(m)[1]
  BY <1>1, <1>2, SubSeqProperties
<1> QED
  BY <1>1, <1>3

LEMMA ErrorWriteFails ==
  ASSUME Typed, NEW c \in Conn, NEW cl \in ClientType, NEW d,
         cl.state = "SEND_ERROR", NEW m \in Message,
         cl.simple_response_buf = ErrorLines(m),
         cl.simple_response_sent <= Len(ErrorLines(m)),
         resp[c] = SubSeq(ErrorLines(m), 1, cl.simple_response_sent),
         execute_simple_response_write(c, cl, d)
  PROVE  Failed(c)
<1> DEFINE buf == ErrorLines(m)
           done == cl.simple_response_sent
           left == Len(buf) - done
           cl1(n) == [cl EXCEPT !.simple_response_sent = done + n]
           units(n) == SubSeq(buf, done + 1, done + n)
<1>1. /\ buf \in Seq(RespUnit) /\ Len(buf) \in Nat /\ done \in Nat
      /\ left \in Nat /\ done <= Len(buf)
  <2>1. buf \in Seq(RespUnit)
    BY FixedResponses
  <2>2. done \in Nat /\ done <= Len(buf)
    BY DEF ClientType
  <2> HIDE DEF buf, done
  <2> QED
    BY <2>1, <2>2
<1> HIDE DEF buf, done
<1>2. ASSUME NEW n \in Nat, n <= Len(buf), resp'[c] = SubSeq(buf, 1, n)
      PROVE  ~SaidOk(c)'
  BY <1>2, ErrorNotOk DEF SaidOk, buf
<1>3. CASE WriteError(c, <<>>) /\ close_and_cleanup(c, cl, d)
  <2>1. resp'[c] = resp[c]
    <3>1. resp[c] \o <<>> = resp[c]
      BY ConcatEmptySeq DEF Typed
    <3> QED
      BY <1>3, <3>1 DEF WriteError, Typed
  <2>2. ~SaidOk(c)'
    BY <1>1, <1>2, <2>1 DEF buf, done
  <2> QED
    BY <1>3, <2>2 DEF close_and_cleanup, Failed, Typed
<1>4. ASSUME NEW n \in Accepts(left), Written(c, units(n), n < left),
             \/ Keep(c, cl, d) /\ n = 0
             \/ Watch(c, cl1(n), d, "WRITE")
             \/ close_and_cleanup(c, [cl1(n) EXCEPT !.state = "DONE"], d)
      PROVE  Failed(c)
  <2>1. n \in Nat /\ n <= left
    BY <1>1, <1>4, AcceptsRange
  <2>2. resp'[c] = SubSeq(buf, 1, done + n)
    <3>1. resp'[c] = SubSeq(buf, 1, done) \o SubSeq(buf, done + 1, done + n)
      BY <1>4 DEF Written, Typed, buf, done
    <3>2. /\ 1 \in 1..(Len(buf) + 1) /\ done \in (1 - 1)..Len(buf)
          /\ done + n \in done..Len(buf)
      BY <1>1, <2>1
    <3> QED
      BY <1>1, <3>1, <3>2, ConcatAdjacentSubSeq
  <2>3. ~SaidOk(c)'
    BY <1>1, <1>2, <2>1, <2>2
  <2>4. CASE close_and_cleanup(c, [cl1(n) EXCEPT !.state = "DONE"], d)
    BY <2>3, <2>4 DEF close_and_cleanup, Failed, Typed
  <2>5. ASSUME sock' = sock, client'[c] = cl1(n) PROVE Failed(c)
    <3>1. /\ client'[c].state = "SEND_ERROR"
          /\ client'[c].simple_response_buf = buf
          /\ client'[c].simple_response_sent = done + n
      BY <2>5 DEF ClientType, buf
    <3> QED
      BY <2>2, <2>3, <2>5, <3>1 DEF Failed, ErrorSent, buf
  <2>6. CASE Watch(c, cl1(n), d, "WRITE")
    BY <2>5, <2>6 DEF Watch, Typed
  <2>7. CASE Keep(c, cl, d) /\ n = 0
    <3>1. cl1(n) = cl
      BY <1>1, <2>7 DEF ClientType, done
    <3> QED
      BY <2>5, <2>7, <3>1 DEF Keep, Typed
  <2> QED
    BY <1>4, <2>4, <2>6, <2>7
<1> QED
  BY <1>3, <1>4 DEF execute_simple_response_write, buf, done

LEMMA ErrorSendFails ==
  ASSUME Typed, NEW c \in Conn, NEW cl \in ClientType, NEW d,
         NEW m \in Message, resp[c] = <<>>, send_error(c, cl, m, d)
  PROVE  Failed(c)
<1> DEFINE cl1 == [cl EXCEPT !.state = "SEND_ERROR", !.simple_response_sent = 0,
                             !.simple_response_buf = ErrorLines(m)]
<1>1. ErrorLines(m) \in Seq(RespUnit) /\ 0 <= Len(ErrorLines(m))
  BY FixedResponses
<1>2. /\ cl1 \in ClientType /\ cl1.state = "SEND_ERROR"
      /\ cl1.simple_response_buf = ErrorLines(m)
      /\ cl1.simple_response_sent = 0
  BY <1>1 DEF ClientType, Sending
<1>3. resp[c] = SubSeq(ErrorLines(m), 1, 0)
  BY <1>1, SubSeqEmpty
<1>4. execute_simple_response_write(c, cl1, d)
  BY DEF send_error
<1> HIDE DEF cl1
<1> QED
  BY <1>1, <1>2, <1>3, <1>4, ErrorWriteFails

(* The OK of an upload ends the connection or goes on as OK.               *)
Confirms(c) ==
  \/ sock'[c] = "closed"
  \/ /\ sock'[c] = sock[c] /\ client'[c].state = "SEND_OK"
     /\ Begun(resp'[c])

LEMMA OkWriteConfirms ==
  ASSUME Typed, NEW c \in Conn, NEW cl \in ClientType, NEW d,
         cl.state = "SEND_OK", cl.request_verb \notin {"GET", "LIST"},
         execute_simple_response_write(c, cl, d)
  PROVE  Confirms(c)
<1> DEFINE buf == cl.simple_response_buf
           done == cl.simple_response_sent
           left == Len(buf) - done
           cl1(n) == [cl EXCEPT !.simple_response_sent = done + n]
           units(n) == SubSeq(buf, done + 1, done + n)
<1>1. \A n : cl1(n).state = "SEND_OK"
  BY DEF ClientType
<1>2. ASSUME NEW x, close_and_cleanup(c, x, d) PROVE Confirms(c)
  BY <1>2 DEF close_and_cleanup, Confirms, Typed
<1>3. ASSUME NEW n \in Accepts(left), Written(c, units(n), n < left),
             \/ n = 0 /\ left > 0 /\ Keep(c, cl, d)
             \/ 0 < n /\ n < left /\ Watch(c, cl1(n), d, "WRITE")
      PROVE  Confirms(c)
  <2>1. buf \in Seq(RespUnit) /\ Len(buf) \in Nat /\ done \in Nat
    BY DEF ClientType
  <2>2. CASE n = 0 /\ left > 0 /\ Keep(c, cl, d)
    <3>1. "eagain" \in Faults
      <4> HIDE DEF left
      <4>1. left # 0
        BY <2>2
      <4> QED
        BY <1>3, <2>2, <4>1 DEF Accepts
    <3> QED
      BY <2>2, <3>1 DEF Keep, Confirms, Begun, Typed
  <2>3. CASE 0 < n /\ n < left /\ Watch(c, cl1(n), d, "WRITE")
    <3> HIDE DEF buf, done
    <3>1. left \in Int
      BY <2>1
    <3> HIDE DEF left
    <3>2. left \in Nat
      <4>1. n \in Int
        BY <1>3, <3>1 DEF Accepts
      <4> QED
        BY <2>3, <3>1, <4>1
    <3>3. n \in Nat /\ n <= left
      BY <1>3, <3>2, AcceptsRange
    <3>4. done + n <= Len(buf)
      BY <2>1, <3>3 DEF left
    <3>5. Len(units(n)) = n /\ units(n) \in Seq(RespUnit)
      BY <2>1, <3>3, <3>4, Slice
    <3>6. resp'[c] = resp[c] \o units(n) /\ resp[c] \in Seq(RespUnit)
      BY <1>3 DEF Written, Typed
    <3> HIDE DEF units
    <3>7. Len(resp'[c]) = Len(resp[c]) + n /\ Len(resp[c]) \in Nat
      <4>1. Len(resp[c] \o units(n)) = Len(resp[c]) + Len(units(n))
        BY <3>5, <3>6, ConcatProperties
      <4> QED
        BY <3>5, <3>6, <4>1
    <3>8. resp'[c] # <<>>
      <4>1. Len(resp'[c]) > 0 /\ Len(<<>>) = 0
        BY <2>3, <3>3, <3>7
      <4> QED
        BY <4>1
    <3>9. client'[c] = cl1(n) /\ sock' = sock
      BY <2>3 DEF Watch, Typed
    <3> QED
      BY <1>1, <3>8, <3>9 DEF Confirms, Begun
  <2> QED
    BY <1>3, <2>2, <2>3
<1> QED
  BY <1>2, <1>3 DEF execute_simple_response_write

LEMMA OkSendConfirms ==
  ASSUME Typed, NEW c \in Conn, NEW cl \in ClientType, NEW d,
         cl.request_verb \notin {"GET", "LIST"}, send_ok(c, cl, d)
  PROVE  Confirms(c)
<1> DEFINE cl1 == [cl EXCEPT !.state = "SEND_OK", !.simple_response_buf = OkLine,
                             !.simple_response_sent = 0]
<1>1. /\ cl1 \in ClientType /\ cl1.state = "SEND_OK"
      /\ cl1.request_verb = cl.request_verb
  BY FixedResponses DEF ClientType, Sending
<1>2. execute_simple_response_write(c, cl1, d)
  BY DEF send_ok
<1> HIDE DEF cl1
<1> QED
  BY <1>1, <1>2, OkWriteConfirms

-----------------------------------------------------------------------------
(***************************************************************************)
(* The handlers of an upload.                                              *)
(***************************************************************************)
Waits(c) ==
  /\ sock'[c] = sock[c] /\ client'[c].state \in Receiving
  /\ resp'[c] = <<>> /\ taken'[c] < WholeLen(c)

UploadResult(c) ==
  \/ Failed(c)
  \/ /\ Confirms(c) /\ taken'[c] = WholeLen(c)
     /\ client[c].state = "SEND_OK" \/ arrived[c] = WholeLen(c)
  \/ Waits(c)

Listing(c) ==
  \/ server_files' = server_files
  \/ /\ server_files' = add_file_to_list(server_files, req[c].name)
     /\ taken'[c] = WholeLen(c)

(* Where the stream is after k more units of the b that had come of e.     *)
LEMMA DataPosition ==
  ASSUME NEW h \in Nat, NEW s \in Nat, NEW e \in Nat, NEW b \in Nat, b <= e,
         NEW t, t = h + s + b, NEW k \in Nat, k <= e - b
  PROVE  /\ b + k \in Nat /\ t + k \in Nat
         /\ b + k = e => t + k = h + s + e
         /\ b + k # e => t + k < h + s + e
  OBVIOUS

(* Where it is after k more units of the size field's s, b of which had    *)
(* come.                                                                   *)
LEMMA SizePosition ==
  ASSUME NEW h \in Nat, NEW s \in Nat, NEW b \in Nat, b <= s,
         NEW t, t = h + b, NEW k \in Nat, k <= s - b
  PROVE  /\ b + k \in Nat /\ t + k \in Nat
         /\ k = s - b => t + k = h + s + 0
         /\ k < s - b => t + k < h + s
  OBVIOUS

LEMMA LeastRange ==
  ASSUME NEW m \in Nat, NEW n \in Nat
  PROVE  Least(m, n) \in Nat /\ Least(m, n) <= n /\ Least(m, n) <= m
  BY DEF Least

LEMMA PutDataTold ==
  ASSUME Typed, Context, NEW c \in Conn, NEW t \in Nat, t <= arrived[c],
         NEW cl \in ClientType, cl.state = "RECV_PUT_DATA", Upload(c, cl),
         cl.expected_size = req[c].size,
         cl.bytes_transferred <= cl.expected_size,
         t = HeaderLen + SizeLen + cl.bytes_transferred, resp[c] = <<>>,
         NEW d, NEW dt, recv_put_data(c, cl, d, dt, t)
  PROVE  UploadResult(c) /\ Listing(c)
<1> DEFINE e == cl.expected_size
           b == cl.bytes_transferred
           need == e - b
           k == Least(arrived[c] - t, need)
           cl1 == [cl EXCEPT !.bytes_transferred = @ + k]
<1>1. /\ b \in Nat /\ e \in Nat /\ b <= e
      /\ HeaderLen \in Nat /\ SizeLen \in Nat /\ arrived[c] \in Nat
      /\ cl.filename = req[c].name /\ cl.request_verb = "PUT"
  BY ConstantsAssumption DEF ClientType, Context, Upload
<1>2. WholeLen(c) = HeaderLen + SizeLen + e /\ t = HeaderLen + SizeLen + b
  BY DEF WholeLen
<1> HIDE DEF e, b
<1>3. need \in Nat /\ arrived[c] - t \in Nat
  BY <1>1
<1> HIDE DEF need
<1>4. k \in Nat /\ k <= need /\ k <= arrived[c] - t
  BY <1>3, LeastRange
<1> HIDE DEF k
<1>5. /\ b + k \in Nat /\ t + k \in Nat
      /\ b + k = e => t + k = HeaderLen + SizeLen + e
      /\ b + k # e => t + k < HeaderLen + SizeLen + e
  BY <1>1, <1>2, <1>4, DataPosition DEF need
<1>6. /\ cl1 \in ClientType /\ cl1.state = "RECV_PUT_DATA"
      /\ cl1.request_verb = "PUT"
      /\ cl1.bytes_transferred = b + k /\ cl1.expected_size = e
  BY <1>1, <1>5 DEF ClientType, b, e
<1> HIDE DEF cl1
<1>7. /\ UploadComplete(cl1) => t + k = WholeLen(c)
      /\ ~UploadComplete(cl1) => t + k < WholeLen(c)
  BY <1>2, <1>5, <1>6 DEF UploadComplete
<1>8. ASSUME NEW x \in ClientType
      PROVE  /\ FileClosed(x) \in ClientType
             /\ FileClosed(x).request_verb = x.request_verb
  BY DEF FileClosed, ClientType
<1>9. ASSUME NEW x \in ClientType,
             send_error(c, FileClosed(x), "Bad file size", d)
      PROVE  Failed(c)
  <2>1. FileClosed(x) \in ClientType /\ "Bad file size" \in Message
    BY <1>8 DEF Message
  <2> QED
    BY <1>9, <2>1, ErrorSendFails
<1>10. CASE /\ UNCHANGED server_files
            /\ \/ send_error(c, FileClosed(cl), "Bad file size", d)
               \/ send_error(c, FileClosed(cl1), "Bad file size", d)
  BY <1>6, <1>9, <1>10 DEF UploadResult, Listing
<1>11. CASE /\ UploadComplete(cl1) /\ taken' = [taken EXCEPT ![c] = t + k]
            /\ server_files' = add_file_to_list(server_files, cl.filename)
            /\ send_ok(c, FileClosed(cl1), d) /\ ~ExtraByte(c, t + k)
  <2>1. taken'[c] = t + k
    BY <1>11 DEF Typed
  <2>2. taken'[c] = WholeLen(c)
    BY <1>7, <1>11, <2>1
  <2>3. /\ FileClosed(cl1) \in ClientType
        /\ FileClosed(cl1).request_verb \notin {"GET", "LIST"}
    BY <1>6, <1>8
  <2>4. Confirms(c)
    BY <1>11, <2>3, OkSendConfirms
  <2>5. arrived[c] = WholeLen(c)
    <3>1. arrived[c] = t + k
      BY <1>1, <1>4, <1>5, <1>11 DEF ExtraByte
    <3> QED
      BY <1>7, <1>11, <3>1
  <2> QED
    BY <1>1, <1>11, <2>2, <2>4, <2>5 DEF UploadResult, Listing
<1>12. CASE /\ ~UploadComplete(cl1) /\ taken' = [taken EXCEPT ![c] = t + k]
            /\ UNCHANGED server_files
            /\ NoWrite /\ Keep(c, cl1, d)
  <2>1. taken'[c] = t + k /\ resp'[c] = <<>>
    BY <1>12 DEF Typed, NoWrite, writeVars
  <2>2. taken'[c] < WholeLen(c)
    BY <1>7, <1>12, <2>1
  <2>3. client'[c] = cl1 /\ sock'[c] = sock[c]
    BY <1>12 DEF Keep, Typed
  <2> QED
    BY <1>6, <1>12, <2>1, <2>2, <2>3 DEF UploadResult, Listing, Waits, Receiving
<1> QED
  BY <1>10, <1>11, <1>12 DEF recv_put_data, cl1, k, need, e, b

LEMMA PutSizeTold ==
  ASSUME Typed, Context, NEW c \in Conn, Made(c), taken[c] <= arrived[c],
         Good(c, client[c], taken[c]), client[c].state = "RECV_PUT_SIZE",
         resp[c] = <<>>, recv_put_size(c), taken[c] < WholeLen(c),
         DirOK(dir)
  PROVE  UploadResult(c) /\ Listing(c)
<1> DEFINE cl == client[c]
           b == cl.bytes_transferred
           need == SizeLen - b
           k == Least(arrived[c] - taken[c], need)
           t == taken[c] + k
           cl1 == [cl EXCEPT !.bytes_transferred = @ + k]
           cl2 == OffsetReset([cl1 EXCEPT !.expected_size = req[c].size])
           i == OpenInode(c, dir, cl.filename)
           cl3 == [cl2 EXCEPT !.file_fd = i, !.state = "RECV_PUT_DATA"]
<1>1. /\ cl \in ClientType /\ b \in Nat /\ b <= SizeLen /\ SizeLen \in Nat
      /\ HeaderLen \in Nat /\ arrived[c] \in Nat /\ taken[c] \in Nat
      /\ taken[c] = HeaderLen + b
      /\ Upload(c, cl) /\ req[c].size \in Nat
  BY ConstantsAssumption
     DEF Good, Base, PositionOK, ClientType, Context, Typed, Request
<1>2. cl.state = "RECV_PUT_SIZE" /\ b = cl.bytes_transferred
  OBVIOUS
<1>3. i \in Conn
  BY <1>1, OpenedOK DEF Upload
<1> HIDE DEF i, cl, b
<1>4. need \in Nat /\ arrived[c] - taken[c] \in Nat
  BY <1>1
<1> HIDE DEF need
<1>5. k \in Nat /\ k <= need /\ k <= arrived[c] - taken[c]
  BY <1>4, LeastRange
<1> HIDE DEF k
<1>6. /\ b + k \in Nat /\ t \in Nat
      /\ k = need => t = HeaderLen + SizeLen + 0
      /\ k < need => t < HeaderLen + SizeLen
  BY <1>1, <1>5, SizePosition DEF need
<1>7. t <= arrived[c]
  BY <1>1, <1>5
<1> HIDE DEF t
<1>8. /\ cl1 \in ClientType /\ cl1.state = "RECV_PUT_SIZE"
      /\ Upload(c, cl1)
  BY <1>1, <1>2, <1>6 DEF ClientType, Upload
<1> HIDE DEF cl1
<1>9. /\ cl2 \in ClientType /\ Upload(c, cl2)
      /\ cl2.expected_size = req[c].size /\ cl2.bytes_transferred = 0
  BY <1>1, <1>8 DEF ClientType, OffsetReset, Upload
<1> HIDE DEF cl2
<1>10. /\ cl3 \in ClientType /\ cl3.state = "RECV_PUT_DATA" /\ Upload(c, cl3)
       /\ cl3.expected_size = req[c].size /\ cl3.bytes_transferred = 0
  BY <1>3, <1>9 DEF ClientType, Receiving, Upload
<1> HIDE DEF cl3
<1>11. ASSUME NEW x \in ClientType, UNCHANGED server_files,
              send_error(c, x, "Bad file size", dir)
       PROVE  UploadResult(c) /\ Listing(c)
  <2>1. Failed(c)
    BY <1>11, ErrorSendFails DEF Message
  <2> QED
    BY <1>11, <2>1 DEF UploadResult, Listing
<1>12. CASE /\ k < need /\ taken' = [taken EXCEPT ![c] = t]
            /\ UNCHANGED server_files
            /\ NoWrite /\ Keep(c, cl1, dir)
  <2>1. taken'[c] = t /\ resp'[c] = <<>>
    BY <1>12 DEF Typed, NoWrite, writeVars
  <2>2. WholeLen(c) = HeaderLen + SizeLen + req[c].size
    BY DEF WholeLen
  <2>3. t < HeaderLen + SizeLen
    BY <1>6, <1>12
  <2>4. t < WholeLen(c)
    BY <1>1, <1>6, <2>2, <2>3
  <2>5. client'[c] = cl1 /\ sock'[c] = sock[c]
    BY <1>12 DEF Keep, Typed
  <2> QED
    BY <1>8, <1>12, <2>1, <2>4, <2>5
    DEF UploadResult, Listing, Waits, Receiving
<1>13. ASSUME NEW d, NEW dt, k = need, recv_put_data(c, cl3, d, dt, t)
       PROVE  UploadResult(c) /\ Listing(c)
  <2>1. t = HeaderLen + SizeLen + cl3.bytes_transferred
    BY <1>6, <1>10, <1>13
  <2>2. cl3.bytes_transferred <= cl3.expected_size
    BY <1>1, <1>10
  <2> QED
    BY <1>6, <1>7, <1>10, <1>13, <2>1, <2>2, PutDataTold
<1> QED
  BY <1>8, <1>9, <1>11, <1>12, <1>13
  DEF recv_put_size, cl, b, need, k, t, cl1, cl2, cl3, i

LEMMA ClosedUnanswered ==
  ASSUME Typed, NEW c \in Conn, NEW cl, NEW d, resp[c] = <<>>, NoWrite,
         close_and_cleanup(c, cl, d)
  PROVE  Failed(c)
<1>1. resp'[c] = <<>>
  BY DEF NoWrite, writeVars
<1> QED
  BY <1>1 DEF close_and_cleanup, Failed, SaidOk, Typed

LEMMA HeaderTold ==
  ASSUME Typed, Context, NEW c \in Conn, taken[c] <= arrived[c],
         Good(c, client[c], taken[c]), client[c].state = "RECV_HEADER",
         req[c].verb = "PUT", resp[c] = <<>>, read_header(c)
  PROVE  UploadResult(c) /\ Listing(c)
<1> DEFINE k == HeaderUnits(c)
           cl == [client[c] EXCEPT !.header_len = @ + k]
           named == [cl EXCEPT !.request_verb = req[c].verb,
                               !.filename = req[c].name]
           next == [named EXCEPT !.bytes_transferred = 0,
                                 !.state = "RECV_PUT_SIZE"]
           bad == [cl EXCEPT !.request_verb = req[c].verb]
<1>1. /\ client[c] \in ClientType /\ client[c].header_len \in 0..HeaderLen
      /\ HeaderLen \in Nat /\ SizeLen \in Nat \ {0} /\ arrived[c] \in Nat
      /\ taken[c] = client[c].header_len /\ req[c].size \in Nat
  BY ConstantsAssumption
     DEF Good, PositionOK, ClientType, Context, Typed, Request
<1>2. k \in Nat /\ client[c].header_len + k \in 0..HeaderLen
  <2>1. /\ HeaderLen - client[c].header_len \in Nat
        /\ arrived[c] - taken[c] \in Nat
    BY <1>1
  <2>2. k \in Nat /\ k <= HeaderLen - client[c].header_len
    BY <2>1 DEF HeaderUnits, Least
  <2> HIDE DEF k
  <2> QED
    BY <1>1, <2>2
<1>3. taken' = [taken EXCEPT ![c] = @ + k]
  BY DEF read_header
<1> HIDE DEF k
<1>4. taken'[c] < WholeLen(c)
  <2>1. taken'[c] = client[c].header_len + k
    BY <1>1, <1>3 DEF Typed
  <2> QED
    BY <1>1, <1>2, <2>1 DEF WholeLen
<1>5. cl \in ClientType /\ cl.state = "RECV_HEADER"
  BY <1>1, <1>2 DEF ClientType
<1> HIDE DEF cl
<1>6. bad \in ClientType
  BY <1>5 DEF ClientType, Verb
<1>7. next.state = "RECV_PUT_SIZE"
  BY <1>5 DEF ClientType
<1> HIDE DEF bad, next
<1>8. ASSUME NEW x, x.state \in Receiving, UNCHANGED server_files, NoWrite,
             Keep(c, x, dir) \/ Watch(c, x, dir, "READ")
      PROVE  UploadResult(c) /\ Listing(c)
  <2>1. client'[c] = x /\ sock'[c] = sock[c]
    BY <1>8 DEF Keep, Watch, Typed
  <2>2. resp'[c] = <<>>
    BY <1>8 DEF NoWrite, writeVars
  <2> QED
    BY <1>4, <1>8, <2>1, <2>2 DEF UploadResult, Waits, Listing
<1>9. CASE parse_header_and_transition(c, cl)
  <2>1. CASE UNCHANGED server_files /\ send_error(c, bad, "Bad request", dir)
    BY <1>6, <2>1, ErrorSendFails DEF Message, UploadResult, Listing
  <2>2. CASE UNCHANGED server_files /\ NoWrite /\ Watch(c, next, dir, "READ")
    BY <1>7, <1>8, <2>2 DEF Receiving
  <2> QED
    BY <1>9, <2>1, <2>2 DEF parse_header_and_transition, bad, next, Verb
<1>10. CASE /\ UNCHANGED server_files /\ NoWrite
            /\ close_and_cleanup(c, cl, dir) \/ Keep(c, cl, dir)
  BY <1>5, <1>8, <1>10, ClosedUnanswered
  DEF UploadResult, Listing, Receiving
<1> QED
  BY <1>9, <1>10 DEF read_header, cl, k

(* A read event of an upload, or one that finds it sending.                *)
LEMMA ReadTold ==
  ASSUME Typed, Context, NEW c \in Conn, Made(c), taken[c] <= arrived[c],
         Good(c, client[c], taken[c]), req[c].verb = "PUT", UploadTold(c),
         DirOK(dir), handle_read_event(c)
  PROVE  (UploadResult(c) /\ Listing(c)) \/ NothingToDo(c)
<1> DEFINE cl == client[c]
<1>1. CASE cl.state \in Receiving
  <2>1. resp[c] = <<>> /\ taken[c] < WholeLen(c)
    BY <1>1 DEF UploadTold, Receiving
  <2>2. CASE cl.state = "RECV_HEADER" /\ read_header(c)
    BY <2>1, <2>2, HeaderTold
  <2>3. CASE cl.state = "RECV_PUT_SIZE" /\ recv_put_size(c)
    BY <2>1, <2>3, PutSizeTold
  <2>4. CASE cl.state = "RECV_PUT_DATA" /\ recv_put_data(c, cl, dir, data, taken[c])
    <3>1. /\ cl \in ClientType /\ Upload(c, cl)
          /\ cl.expected_size = req[c].size
          /\ cl.bytes_transferred <= cl.expected_size
          /\ taken[c] = HeaderLen + SizeLen + cl.bytes_transferred
      BY <2>4 DEF Good, Base, PositionOK
    <3>2. taken[c] \in Nat
      BY DEF Typed
    <3> HIDE DEF cl
    <3> QED
      BY <2>1, <2>4, <3>1, <3>2, PutDataTold
  <2> QED
    BY <1>1, <2>2, <2>3, <2>4 DEF handle_read_event, Receiving, Sending
<1>2. CASE cl.state \in Sending
  BY <1>2 DEF handle_read_event, Sending
<1>3. cl.state \in Receiving \cup Sending
  BY DEF Good, Base, ClientType
<1> QED
  BY <1>1, <1>2, <1>3

LEMMA WriteTold ==
  ASSUME Typed, NEW c \in Conn, Good(c, client[c], taken[c]),
         req[c].verb = "PUT", UploadTold(c), handle_write_event(c)
  PROVE  UploadResult(c)
<1> DEFINE cl == client[c]
<1>1. taken' = taken
  BY DEF handle_write_event
<1>2. cl \in ClientType /\ cl.simple_response_sent <= Len(cl.simple_response_buf)
  BY DEF Good, Base
<1>3. CASE cl.state = "SEND_OK"
  <2>1. cl.request_verb = "PUT" /\ taken[c] = WholeLen(c)
    BY <1>3 DEF Good, PositionOK, WholeLen
  <2>2. execute_simple_response_write(c, cl, dir)
    BY <1>3 DEF handle_write_event
  <2> HIDE DEF cl
  <2>3. Confirms(c)
    BY <1>2, <1>3, <2>1, <2>2, OkWriteConfirms
  <2> QED
    BY <1>1, <1>3, <2>1, <2>3 DEF UploadResult, cl
<1>4. CASE cl.state = "SEND_ERROR" /\ ErrorSent(c)
  <2>1. PICK m \in Message : cl.simple_response_buf = ErrorLines(m)
    BY <1>4 DEF ErrorSent
  <2>2. resp[c] = SubSeq(ErrorLines(m), 1, cl.simple_response_sent)
    BY <1>4, <2>1 DEF ErrorSent
  <2>3. execute_simple_response_write(c, cl, dir)
    BY <1>4 DEF handle_write_event
  <2> HIDE DEF cl
  <2>4. Failed(c)
    BY <1>2, <1>4, <2>1, <2>2, <2>3, ErrorWriteFails
  <2> QED
    BY <2>4 DEF UploadResult
<1>5. CASE cl.state \in Receiving
  BY <1>5 DEF handle_write_event, Receiving
<1> QED
  BY <1>3, <1>4, <1>5 DEF UploadTold

-----------------------------------------------------------------------------
(***************************************************************************)
(* A handler leaves the other connections alone, and no peer that has      *)
(* broken its connection comes back.                                       *)
(***************************************************************************)
Own(c) ==
  /\ \A x \in Conn :
       x # c => /\ resp'[x] = resp[x]
                /\ x \in full' <=> x \in full
                /\ x \in rst' <=> x \in rst
  /\ rst \subseteq rst'
  /\ ~PeersReset => rst' \subseteq rst

LEMMA WritesOwn ==
  ASSUME Typed, NEW c \in Conn, NEW units, NEW short,
         Written(c, units, short) \/ WriteError(c, units) \/ NoWrite
  PROVE  Own(c)
BY DEF Written, WriteError, NoWrite, writeVars, Own, Typed

LEMMA ResponseOwn ==
  ASSUME Typed, NEW c \in Conn, NEW cl, NEW d,
         execute_simple_response_write(c, cl, d)
  PROVE  Own(c)
BY WritesOwn DEF execute_simple_response_write

LEMMA SendOwn ==
  ASSUME Typed, NEW c \in Conn, NEW cl, NEW d, NEW m,
         send_ok(c, cl, d) \/ send_error(c, cl, m, d)
  PROVE  Own(c)
BY ResponseOwn DEF send_ok, send_error

LEMMA PutDataOwn ==
  ASSUME Typed, NEW c \in Conn, NEW cl, NEW d, NEW dt, NEW t,
         recv_put_data(c, cl, d, dt, t)
  PROVE  Own(c)
BY SendOwn, WritesOwn DEF recv_put_data

LEMMA HeaderOwn ==
  ASSUME Typed, NEW c \in Conn, NEW cl, parse_header_and_transition(c, cl)
  PROVE  Own(c)
BY SendOwn, WritesOwn
DEF parse_header_and_transition, delete_request, start_send_get

LEMMA ReadOwn ==
  ASSUME Typed, NEW c \in Conn, handle_read_event(c)
  PROVE  Own(c)
<1>1. CASE read_header(c)
  BY <1>1, HeaderOwn, SendOwn, WritesOwn DEF read_header
<1>2. CASE recv_put_size(c)
  BY <1>2, PutDataOwn, SendOwn, WritesOwn DEF recv_put_size
<1>3. CASE recv_put_data(c, client[c], dir, data, taken[c])
  BY <1>3, PutDataOwn
<1>4. CASE NothingToDo(c)
  BY <1>4, WritesOwn DEF NothingToDo
<1> QED
  BY <1>1, <1>2, <1>3, <1>4 DEF handle_read_event

LEMMA WriteOwn ==
  ASSUME Typed, NEW c \in Conn, handle_write_event(c)
  PROVE  Own(c)
<1>1. CASE execute_simple_response_write(c, client[c], dir)
  BY <1>1, ResponseOwn
<1>2. CASE send_list_data(c)
  BY <1>2, WritesOwn DEF send_list_data
<1>3. CASE send_get_size(c)
  BY <1>3, WritesOwn DEF send_get_size
<1>4. CASE send_get_data(c)
  BY <1>4, WritesOwn DEF send_get_data
<1> QED
  BY <1>1, <1>2, <1>3, <1>4 DEF handle_write_event

LEMMA OthersFrame ==
  ASSUME IInv, Typed, NEW c \in Conn, Dispatch(c), NEW x \in Conn, x # c
  PROVE  /\ resp'[x] = resp[x] /\ sock'[x] = sock[x]
         /\ client'[x] = client[x] /\ taken'[x] = taken[x]
         /\ x \in full' <=> x \in full
         /\ x \in rst' <=> x \in rst
         /\ rst \subseteq rst'
<1>1. /\ resp'[x] = resp[x] /\ rst \subseteq rst'
      /\ x \in full' <=> x \in full
      /\ x \in rst' <=> x \in rst
  BY ReadOwn, WriteOwn, WritesOwn
  DEF Dispatch, HandleError, HandleRead, HandleWrite, Own
<1>2. PICK t : taken' = [taken EXCEPT ![c] = t] /\ Leaves(c, t)
  BY DispatchHandled DEF Handled, Outcome
<1> QED
  BY <1>1, <1>2 DEF Leaves, StaysOpenWith, IsClosed, Typed

-----------------------------------------------------------------------------
(***************************************************************************)
(* The steps.                                                              *)
(***************************************************************************)

(* What is left of ReplyOK once a handler has run: its connection was open *)
(* and is open or closed, and its request is what it was.                  *)
LEMMA UploadReplied ==
  ASSUME NEW c \in Conn, sock[c] = "open", req'[c] = req[c],
         taken \in [Conn -> Nat], UploadResult(c)
  PROVE  ReplyOK(c)'
<1>1. WholeLen(c)' = WholeLen(c)
  BY DEF WholeLen
<1>2. CASE Failed(c)
  BY <1>2 DEF Failed, ReplyOK, UploadTold
<1>3. CASE Confirms(c) /\ taken'[c] = WholeLen(c)
  BY <1>1, <1>3 DEF Confirms, ReplyOK, UploadTold, ReadWhole, WholeLen
<1>4. CASE Waits(c)
  BY <1>1, <1>4 DEF Waits, ReplyOK, UploadTold, SaidOk
<1> QED
  BY <1>2, <1>3, <1>4 DEF UploadResult

LEMMA OwnReply ==
  ASSUME IInv, ReplyInv, Typed, NEW c \in Conn, Dispatch(c)
  PROVE  ReplyOK(c)'
<1>1. /\ sock[c] = "open" /\ Made(c) /\ Good(c, client[c], taken[c])
      /\ taken[c] <= arrived[c] /\ Context /\ taken \in [Conn -> Nat]
      /\ DirOK(dir) /\ req' = req
  BY DispatchHandled DEF peerVars
<1>2. ReplyOK(c)
  BY DEF ReplyInv
<1>3. CASE req[c].verb # "PUT"
  <2>1. sock'[c] \in {"open", "closed"}
    <3>1. PICK t : Leaves(c, t)
      BY DispatchHandled DEF Handled, Outcome
    <3> QED
      BY <1>1, <3>1 DEF Leaves, StaysOpenWith, IsClosed, Typed
  <2> QED
    BY <1>1, <1>3, <2>1 DEF ReplyOK
<1>4. CASE req[c].verb = "PUT"
  <2>1. UploadTold(c)
    BY <1>1, <1>2, <1>4 DEF ReplyOK
  <2>2. CASE HandleError(c)
    <3>1. /\ sock'[c] = "closed" /\ resp' = resp /\ taken' = taken
      BY <2>2 DEF HandleError, close_and_cleanup, NoWrite, writeVars, Typed
    <3> QED
      BY <1>1, <1>2, <1>4, <3>1 DEF ReplyOK, SaidOk, ReadWhole
  <2>3. CASE NothingToDo(c)
    <3>1. /\ client'[c] = client[c] /\ sock' = sock /\ resp' = resp
          /\ taken' = taken
      BY <2>3 DEF NothingToDo, NoWrite, writeVars, Keep, Typed
    <3> QED
      BY <1>1, <1>2, <1>4, <3>1
      DEF ReplyOK, SaidOk, ReadWhole, UploadTold, ErrorSent, WholeLen
  <2>4. CASE HandleRead(c)
    <3>1. UploadResult(c) \/ NothingToDo(c)
      BY <1>1, <1>4, <2>1, <2>4, ReadTold DEF HandleRead
    <3> QED
      BY <1>1, <2>3, <3>1, UploadReplied
  <2>5. CASE HandleWrite(c)
    <3>1. UploadResult(c)
      BY <1>1, <1>4, <2>1, <2>5, WriteTold DEF HandleWrite
    <3> QED
      BY <1>1, <3>1, UploadReplied
  <2> QED
    BY <2>2, <2>4, <2>5 DEF Dispatch
<1> QED
  BY <1>3, <1>4

LEMMA DispatchReplies ==
  ASSUME IInv, ReplyInv, Typed, NEW c \in Conn, Dispatch(c)
  PROVE  ReplyInv'
<1> SUFFICES ASSUME NEW x \in Conn PROVE ReplyOK(x)'
  BY DEF ReplyInv
<1>1. CASE x = c
  BY <1>1, OwnReply
<1>2. CASE x # c
  <2>1. /\ resp'[x] = resp[x] /\ sock'[x] = sock[x]
        /\ client'[x] = client[x] /\ taken'[x] = taken[x]
    BY <1>2, OthersFrame
  <2>2. req' = req
    BY DispatchHandled DEF peerVars
  <2>3. ReplyOK(x)
    BY DEF ReplyInv
  <2> QED
    BY <2>1, <2>2, <2>3
    DEF ReplyOK, SaidOk, ReadWhole, UploadTold, ErrorSent, WholeLen
<1> QED
  BY <1>1, <1>2

(* A step that runs no handler reads and writes nothing.                   *)
Quiet ==
  /\ UNCHANGED <<resp, taken, server_files>>
  /\ \A x \in Conn : Made(x) => req'[x] = req[x]
  /\ \A x \in Conn :
       \/ sock'[x] = sock[x] /\ client'[x] = client[x]
       \/ sock[x] = "none" /\ sock'[x] = "backlog"
       \/ /\ sock[x] = "backlog" /\ sock'[x] = "open"
          /\ client'[x] = client_create

LEMMA QuietSteps ==
  ASSUME TypeOK, [Next]_vars, ~(\E c \in Conn : Dispatch(c))
  PROVE  Quiet
<1>1. CASE event_loop_wait
  BY <1>1 DEF event_loop_wait, peerVars, writeVars, Quiet
<1>2. CASE accept_connections
  BY <1>2 DEF accept_connections, peerVars, writeVars, Quiet
<1>3. ASSUME NEW c \in Conn, Connect(c) PROVE Quiet
  <2>1. /\ UNCHANGED <<resp, taken, server_files, client>>
        /\ sock[c] = "none" /\ sock' = [sock EXCEPT ![c] = "backlog"]
    BY <1>3 DEF Connect, writeVars
  <2>2. PICK r : req' = [req EXCEPT ![c] = r]
    BY <1>3 DEF Connect
  <2> QED
    BY <2>1, <2>2 DEF Quiet, Made, TypeOK
<1>4. ASSUME NEW c \in Conn, Arrive(c) \/ Close(c) \/ Reset(c) \/ Drain(c)
      PROVE  Quiet
  BY <1>4 DEF Arrive, Close, Reset, Drain, peerVars, writeVars, Quiet
<1>5. CASE UNCHANGED vars
  BY <1>5 DEF vars, peerVars, writeVars, Quiet
<1> QED
  BY <1>1, <1>2, <1>3, <1>4, <1>5 DEF Next, Idle, Peer

LEMMA QuietReplies ==
  ASSUME IInv, ReplyInv, Quiet
  PROVE  ReplyInv'
<1> SUFFICES ASSUME NEW x \in Conn PROVE ReplyOK(x)'
  BY DEF ReplyInv
<1>1. ReplyOK(x) /\ resp' = resp /\ taken' = taken
  BY DEF ReplyInv, Quiet
<1>2. CASE sock[x] \in {"none", "backlog"} /\ sock'[x] # "open"
  BY <1>1, <1>2 DEF ReplyOK, SaidOk
<1>3. CASE /\ sock[x] = "backlog" /\ sock'[x] = "open"
           /\ client'[x] = client_create
  <2>1. taken'[x] = 0 /\ resp'[x] = <<>>
    BY <1>1, <1>3 DEF IInv, ClientInv, ClientOK, ReplyOK
  <2>2. client'[x].state \in Receiving
    BY <1>3 DEF client_create, Receiving
  <2>3. 0 < WholeLen(x)'
    <3>1. req'[x].size \in Nat
      BY <1>3 DEF Quiet, Made, IInv, TypeOK, Request
    <3> QED
      BY <3>1, ConstantsAssumption DEF WholeLen
  <2> QED
    BY <1>3, <2>1, <2>2, <2>3 DEF ReplyOK, SaidOk, UploadTold
<1>4. CASE /\ sock[x] \notin {"none", "backlog"}
           /\ sock'[x] = sock[x] /\ client'[x] = client[x]
  <2>1. req'[x] = req[x]
    BY <1>4 DEF Quiet, Made
  <2> QED
    BY <1>1, <1>4, <2>1
    DEF ReplyOK, SaidOk, ReadWhole, UploadTold, ErrorSent, WholeLen
<1> QED
  BY <1>2, <1>3, <1>4 DEF Quiet

LEMMA RepliesNext == IInv /\ ReplyInv /\ [Next]_vars => ReplyInv'
<1> SUFFICES ASSUME IInv, ReplyInv, [Next]_vars PROVE ReplyInv'
  OBVIOUS
<1>1. Typed /\ TypeOK
  BY DEF IInv, TypeOK, Typed
<1> QED
  BY <1>1, DispatchReplies, QuietSteps, QuietReplies

-----------------------------------------------------------------------------
(***************************************************************************)
(* The theorems.                                                           *)
(***************************************************************************)

(* Whatever the order of the events, an upload is told nothing while units *)
(* of it are to come, and after a failure it is told of the error and      *)
(* nothing else (server.c:279-377, 498-556).                               *)
THEOREM UploadsToldInOrder == Spec => []ReplyInv
<1>1. Init => ReplyInv
  BY DEF Init, ReplyInv, ReplyOK, SaidOk
<1> QED
  BY <1>1, RepliesNext, ServerInvariant, PTL DEF Spec

(* An upload is answered OK, or about to be, only if it was read to the    *)
(* end its size field set and no further, in however many reads and        *)
(* however its response was cut (server.c:279-377, 498-556).               *)
THEOREM OkOnlyForWhole == Spec => []OkMeansWhole
<1>1. IInv /\ ReplyInv => OkMeansWhole
  <2> SUFFICES ASSUME IInv, ReplyInv, NEW c \in Conn, req[c].verb = "PUT",
                      SaidOk(c) \/ client[c].state = "SEND_OK"
               PROVE  ReadWhole(c)
    BY DEF OkMeansWhole
  <2>1. CASE SaidOk(c)
    BY <2>1 DEF ReplyInv, ReplyOK
  <2>2. CASE client[c].state = "SEND_OK"
    <3>1. sock[c] = "open"
      BY <2>2 DEF IInv, ClientInv, ClientOK, client_create
    <3>2. Good(c, client[c], taken[c])
      BY <3>1 DEF IInv, ClientInv, ClientOK
    <3> QED
      BY <2>2, <3>2 DEF Good, PositionOK, ReadWhole
  <2> QED
    BY <2>1, <2>2
<1> QED
  BY <1>1, ServerInvariant, UploadsToldInOrder, PTL

-----------------------------------------------------------------------------
(***************************************************************************)
(* The list: a name comes in with an upload read whole, and an upload that *)
(* was read whole stays so.                                                *)
(***************************************************************************)
LEMMA AddedNames ==
  ASSUME NEW files \in Seq(Name), NEW n,
         NEW m \in Listed(add_file_to_list(files, n))
  PROVE  m \in Listed(files) \/ m = n
<1>1. CASE n \in Listed(files)
  BY <1>1 DEF add_file_to_list
<1>2. CASE n \notin Listed(files)
  <2> DEFINE new == Append(files, n)
  <2>1. /\ Len(new) = Len(files) + 1 /\ new[Len(files) + 1] = n
        /\ \A i \in 1..Len(files) : new[i] = files[i]
    OBVIOUS
  <2>2. Len(files) \in Nat
    OBVIOUS
  <2> HIDE DEF new
  <2>3. \A i \in 1..Len(new) : new[i] = n \/ \E j \in 1..Len(files) : new[i] = files[j]
    BY <2>1, <2>2
  <2>4. m \in Listed(new)
    BY <1>2 DEF add_file_to_list, vector_push_back, new
  <2> QED
    BY <2>3, <2>4 DEF Listed
<1> QED
  BY <1>1, <1>2

LEMMA KeptNames ==
  ASSUME NEW files \in Seq(Name), NEW n,
         NEW m \in Listed(remove_file_from_list(files, n))
  PROVE  m \in Listed(files)
<1> DEFINE new == remove_file_from_list(files, n)
<1>1. CASE n \notin Listed(files)
  BY <1>1 DEF remove_file_from_list
<1>2. CASE n \in Listed(files)
  <2>1. PICK p \in 1..Len(files) :
          /\ Len(new) = Len(files) - 1
          /\ \A i \in 1..(Len(files) - 1) :
               new[i] = files[IF i < p THEN i ELSE i + 1]
    BY <1>2, RemovedElements
  <2>2. Len(files) \in Nat /\ m \in Listed(new)
    OBVIOUS
  <2> HIDE DEF new
  <2>3. PICK i \in 1..Len(new) : m = new[i]
    BY <2>2 DEF Listed
  <2>4. /\ (IF i < p THEN i ELSE i + 1) \in 1..Len(files)
        /\ m = files[IF i < p THEN i ELSE i + 1]
    BY <2>1, <2>2, <2>3
  <2> QED
    BY <2>4 DEF Listed
<1> QED
  BY <1>1, <1>2

(* Names come in and go out of the list in one handler each.               *)
ListChange(c) ==
  \/ server_files' = server_files
  \/ \E n : server_files' = remove_file_from_list(server_files, n)
  \/ /\ server_files' = add_file_to_list(server_files, req[c].name)
     /\ req[c].verb = "PUT" /\ taken'[c] = WholeLen(c)

LEMMA OtherVerbs ==
  ASSUME NEW c \in Conn, Good(c, client[c], taken[c]), req[c].verb # "PUT",
         handle_read_event(c)
  PROVE  ListChange(c)
<1>1. CASE read_header(c)
  <2>1. ASSUME NEW cl, parse_header_and_transition(c, cl) PROVE ListChange(c)
    BY <2>1 DEF parse_header_and_transition, delete_request, ListChange
  <2> QED
    BY <1>1, <2>1 DEF read_header, ListChange
<1>2. CASE NothingToDo(c)
  BY <1>2 DEF NothingToDo, ListChange
<1>3. client[c].state \notin {"RECV_PUT_SIZE", "RECV_PUT_DATA"}
  BY DEF Good, PositionOK, Upload
<1> QED
  BY <1>1, <1>2, <1>3 DEF handle_read_event

LEMMA DispatchLists ==
  ASSUME IInv, ReplyInv, Typed, NEW c \in Conn, Dispatch(c)
  PROVE  ListChange(c)
<1>1. /\ sock[c] = "open" /\ Made(c) /\ Good(c, client[c], taken[c])
      /\ taken[c] <= arrived[c] /\ Context /\ DirOK(dir)
  BY DispatchHandled
<1>2. CASE HandleRead(c) /\ req[c].verb = "PUT"
  <2>1. UploadTold(c)
    BY <1>1, <1>2 DEF ReplyInv, ReplyOK
  <2>2. Listing(c) \/ NothingToDo(c)
    BY <1>1, <1>2, <2>1, ReadTold DEF HandleRead
  <2> QED
    BY <1>2, <2>2 DEF Listing, NothingToDo, ListChange
<1>3. CASE HandleRead(c) /\ req[c].verb # "PUT"
  BY <1>1, <1>3, OtherVerbs DEF HandleRead
<1>4. CASE HandleError(c) \/ HandleWrite(c)
  BY <1>4 DEF HandleError, HandleWrite, handle_write_event, ListChange
<1> QED
  BY <1>2, <1>3, <1>4 DEF Dispatch

LEMMA WholeStays ==
  ASSUME IInv, ReplyInv, Typed, [Next]_vars, NEW x \in Conn, ReadWhole(x)
  PROVE  ReadWhole(x)' /\ req'[x] = req[x]
<1>1. taken[x] = WholeLen(x) /\ req[x].verb = "PUT"
  BY DEF ReadWhole, WholeLen
<1>2. Made(x)
  <2>1. 0 < WholeLen(x)
    <3>1. req[x].size \in Nat
      BY DEF IInv, TypeOK, Request
    <3> QED
      BY <3>1, ConstantsAssumption DEF WholeLen
  <2>2. sock[x] = "none" => taken[x] = 0
    BY DEF IInv, ClientInv, ClientOK
  <2> QED
    BY <1>1, <2>1, <2>2 DEF Made
<1>3. ASSUME taken'[x] = taken[x], req'[x] = req[x]
      PROVE  ReadWhole(x)' /\ req'[x] = req[x]
  BY <1>3 DEF ReadWhole
<1>4. CASE Quiet
  BY <1>2, <1>3, <1>4 DEF Quiet
<1>5. ASSUME NEW c \in Conn, Dispatch(c) PROVE taken'[x] = taken[x] /\ req' = req
  <2>1. req' = req
    BY <1>5, DispatchHandled DEF peerVars
  <2>2. CASE x # c
    BY <1>5, <2>1, <2>2, OthersFrame
  <2>3. CASE x = c
    <3>1. sock[x] = "open"
      BY <1>5, <2>3, DispatchHandled
    <3>2. client[x].state \in {"SEND_OK", "SEND_ERROR"}
      <4>1. WholeLen(x) \in Nat
        BY <1>1 DEF Typed
      <4> QED
        BY <1>1, <3>1, <4>1 DEF ReplyInv, ReplyOK, UploadTold
    <3>3. taken' = taken
      BY <1>5, <2>3, <3>2
      DEF Dispatch, HandleError, HandleRead, HandleWrite, handle_read_event,
          handle_write_event, NothingToDo
    <3> QED
      BY <2>1, <3>3
  <2> QED
    BY <2>2, <2>3
<1> QED
  BY <1>3, <1>4, <1>5, QuietSteps DEF IInv

(* A name is in the list only after some upload of it was read whole,      *)
(* whatever was removed and uploaded in between (server.c:260-275, 373).   *)
THEOREM ListedOnlyReceived == Spec => []ListedWasReceived
<1>1. Init => ListedWasReceived
  BY DEF Init, ListedWasReceived, Listed
<1>2. IInv /\ ReplyInv /\ ListedWasReceived /\ [Next]_vars => ListedWasReceived'
  <2> SUFFICES ASSUME IInv, ReplyInv, ListedWasReceived, [Next]_vars,
                      NEW n \in Listed(server_files)'
               PROVE  \E x \in Conn : (req[x].name = n /\ ReadWhole(x))'
    BY DEF ListedWasReceived
  <2>1. Typed /\ TypeOK /\ server_files \in Seq(Name)
    BY DEF IInv, TypeOK, Typed
  <2>2. CASE n \in Listed(server_files)
    <3>1. PICK x \in Conn : req[x].name = n /\ ReadWhole(x)
      BY <2>2 DEF ListedWasReceived
    <3> QED
      BY <2>1, <3>1, WholeStays
  <2>3. CASE Quiet
    BY <2>2, <2>3 DEF Quiet
  <2>4. ASSUME NEW c \in Conn, Dispatch(c)
        PROVE  \E x \in Conn : (req[x].name = n /\ ReadWhole(x))'
    <3>1. ListChange(c)
      BY <2>1, <2>4, DispatchLists
    <3>2. CASE server_files' = server_files
      BY <2>2, <3>2
    <3>3. ASSUME NEW m, server_files' = remove_file_from_list(server_files, m)
          PROVE  n \in Listed(server_files)
      BY <2>1, <3>3, KeptNames
    <3>4. CASE /\ server_files' = add_file_to_list(server_files, req[c].name)
               /\ req[c].verb = "PUT" /\ taken'[c] = WholeLen(c)
      <4>1. n \in Listed(server_files) \/ n = req[c].name
        BY <2>1, <3>4, AddedNames
      <4>2. req' = req
        BY <2>4, DispatchHandled DEF peerVars
      <4>3. ReadWhole(c)'
        BY <3>4, <4>2 DEF ReadWhole, WholeLen
      <4> QED
        BY <2>2, <4>1, <4>2, <4>3
    <3> QED
      BY <2>2, <3>1, <3>2, <3>3, <3>4 DEF ListChange
  <2> QED
    BY <2>1, <2>3, <2>4, QuietSteps
<1> QED
  BY <1>1, <1>2, ServerInvariant, UploadsToldInOrder, PTL DEF Spec

=============================================================================
