-------------------------- MODULE FileServerStore --------------------------
(***************************************************************************)
(* Proofs about what the server keeps: that an upload which is confirmed   *)
(* is stored if no other request stores or removes a file of its name, and *)
(* that the list and the directory agree, and a listed name leads to one   *)
(* whole upload, where uploads and removals of a name follow one another.  *)
(*                                                                         *)
(* The argument: while the state of an upload is STATE_RECV_PUT_DATA its   *)
(* descriptor leads to the file of its name, which holds what has been     *)
(* read (Storing); the handler that reads the last unit leaves the file    *)
(* whole and listed (Kept), or an upload that is not confirmed (Result).   *)
(* A handler does nothing to the files of other names (Elsewhere), and     *)
(* close_and_cleanup removes no file but an upload's own (Intends).        *)
(*                                                                         *)
(* From both follows that the server is the store of FileStore under the   *)
(* same condition: what a handler shows of its connection is one step of   *)
(* the store or none (Shows), the other connections show what they did     *)
(* (Framed), and a step without a handler shows at most a request.         *)
(***************************************************************************)
EXTENDS FileServerAnswers, StoreRefinement

-----------------------------------------------------------------------------
(***************************************************************************)
(* Contents.                                                               *)
(***************************************************************************)

(* A chunk written at the end of what an upload has stored is the next     *)
(* part of it.                                                             *)
LEMMA NextChunk ==
  ASSUME NEW c \in Conn, NEW b \in Nat, NEW n \in Nat
  PROVE  pwrite(BodyUnits(c, 1, b), BodyUnits(c, b + 1, n), b)
           = BodyUnits(c, 1, b + n)
<1> DEFINE s == BodyUnits(c, 1, b)
           u == BodyUnits(c, b + 1, n)
           w == BodyUnits(c, 1, b + n)
<1>1. s \in Seq(Conn \X Nat) /\ Len(s) = b /\ \A k \in 1..b : s[k] = <<c, k>>
  BY DEF BodyUnits
<1>2. /\ u \in Seq(Conn \X Nat) /\ Len(u) = n
      /\ \A k \in 1..n : u[k] = <<c, b + k>>
  BY DEF BodyUnits
<1>3. w = [k \in 1..(b + n) |-> <<c, k>>]
  BY DEF BodyUnits
<1> HIDE DEF s, u, w
<1>4. CASE n = 0
  <2>1. u = <<>> /\ b + n = b
    BY <1>2, <1>4
  <2>2. s = [k \in 1..b |-> <<c, k>>]
    BY <1>1
  <2> QED
    BY <1>3, <2>1, <2>2 DEF pwrite, s, u, w
<1>5. CASE n # 0
  <2>1. u # <<>> /\ b + n > b
    BY <1>2, <1>5
  <2>2. (IF Len(s) >= b + Len(u) THEN Len(s) ELSE b + Len(u)) = b + n
    BY <1>1, <1>2, <1>5
  <2>3. ASSUME NEW k \in 1..(b + n)
        PROVE  (IF k > b /\ k <= b + Len(u) THEN u[k - b]
                ELSE IF k <= Len(s) THEN s[k] ELSE Hole) = <<c, k>>
    <3>1. CASE k > b
      <4>1. k - b \in 1..n /\ b + (k - b) = k
        BY <3>1
      <4> QED
        BY <1>2, <3>1, <4>1
    <3>2. CASE ~(k > b)
      BY <1>1, <3>2
    <3> QED
      BY <3>1, <3>2
  <2>4. pwrite(s, u, b) = [k \in 1..(b + n) |-> <<c, k>>]
    BY <2>1, <2>2, <2>3 DEF pwrite
  <2> QED
    BY <1>3, <2>4 DEF s, u, w
<1> QED
  BY <1>4, <1>5

(* A list that names nothing twice loses a name with its removal, and      *)
(* nothing else.                                                           *)
LEMMA RemovedName ==
  ASSUME NEW files \in Seq(Name), Distinct(files), NEW n \in Listed(files)
  PROVE  Listed(remove_file_from_list(files, n)) = Listed(files) \ {n}
<1> DEFINE new == remove_file_from_list(files, n)
           L == Len(files)
<1>1. PICK p \in 1..L :
        /\ files[p] = n /\ Len(new) = L - 1
        /\ \A i \in 1..(L - 1) : new[i] = files[IF i < p THEN i ELSE i + 1]
  BY RemovedElements
<1>2. L \in Nat
  OBVIOUS
<1> HIDE DEF new
<1>3. ASSUME NEW m \in Listed(new) PROVE m \in Listed(files) \ {n}
  <2>1. PICK i \in 1..(L - 1) : m = files[IF i < p THEN i ELSE i + 1]
    BY <1>1, <1>3 DEF Listed
  <2>2. /\ (IF i < p THEN i ELSE i + 1) \in 1..L
        /\ (IF i < p THEN i ELSE i + 1) # p
    BY <1>2
  <2> QED
    BY <1>1, <2>1, <2>2 DEF Listed, Distinct
<1>4. ASSUME NEW m \in Listed(files) \ {n} PROVE m \in Listed(new)
  <2>1. PICK i \in 1..L : m = files[i]
    BY <1>4 DEF Listed
  <2>2. i # p
    BY <1>1, <1>4, <2>1
  <2>3. CASE i < p
    <3>1. i \in 1..(L - 1) /\ new[i] = files[i]
      BY <1>1, <1>2, <2>2, <2>3
    <3> QED
      BY <1>1, <2>1, <3>1 DEF Listed
  <2>4. CASE i > p
    <3>1. i - 1 \in 1..(L - 1) /\ ~(i - 1 < p) /\ (i - 1) + 1 = i
      BY <1>2, <2>4
    <3>2. new[i - 1] = files[i]
      BY <1>1, <3>1
    <3> QED
      BY <1>1, <2>1, <3>1, <3>2 DEF Listed
  <2> QED
    BY <1>2, <2>2, <2>3, <2>4
<1> QED
  BY <1>3, <1>4 DEF new

(* Adding a name lists it, and unlists nothing.                            *)
LEMMA AddedName ==
  ASSUME NEW files \in Seq(Name), NEW n
  PROVE  Listed(add_file_to_list(files, n)) = Listed(files) \cup {n}
<1>1. CASE n \in Listed(files)
  BY <1>1 DEF add_file_to_list
<1>2. CASE n \notin Listed(files)
  <2> DEFINE new == Append(files, n)
  <2>1. /\ Len(new) = Len(files) + 1 /\ new[Len(files) + 1] = n
        /\ \A i \in 1..Len(files) : new[i] = files[i]
    OBVIOUS
  <2>2. Len(files) \in Nat
    OBVIOUS
  <2> HIDE DEF new
  <2>3. ASSUME NEW m \in Listed(new) PROVE m \in Listed(files) \cup {n}
    BY <2>1, <2>2, <2>3 DEF Listed
  <2>4. ASSUME NEW m \in Listed(files) \cup {n} PROVE m \in Listed(new)
    BY <2>1, <2>2, <2>4 DEF Listed
  <2> QED
    BY <1>2, <2>3, <2>4 DEF add_file_to_list, vector_push_back, new
<1> QED
  BY <1>1, <1>2

-----------------------------------------------------------------------------
(***************************************************************************)
(* The simple response and the directory: only a close that a failed write *)
(* causes removes a file.                                                  *)
(***************************************************************************)
Removes(c, cl, d) ==
  /\ c \in rst' /\ cl.request_verb = "PUT"
  /\ dir' = unlink(d, cl.filename)

DirLeft(c, cl, d) == dir' = d \/ Removes(c, cl, d)

(* A response that is written, or is not, leaves the directory as it was   *)
(* unless a failed write of an upload's response closes the connection.    *)
LEMMA ResponseFiles ==
  ASSUME NEW c \in Conn, NEW cl \in ClientType, NEW d,
         execute_simple_response_write(c, cl, d)
  PROVE  DirLeft(c, cl, d)
<1> DEFINE done(n) == [[cl EXCEPT !.simple_response_sent =
                                    cl.simple_response_sent + n]
                        EXCEPT !.state = "DONE"]
<1>1. CASE WriteError(c, <<>>) /\ close_and_cleanup(c, cl, d)
  BY <1>1 DEF WriteError, close_and_cleanup, RemovesUpload, DirLeft, Removes
<1>2. ASSUME NEW n, close_and_cleanup(c, done(n), d) PROVE dir' = d
  <2>1. done(n).state = "DONE"
    BY DEF ClientType
  <2> HIDE DEF done
  <2> QED
    BY <1>2, <2>1 DEF close_and_cleanup, RemovesUpload
<1>3. CASE \E n : \/ Keep(c, cl, d)
                  \/ \E x, e : Watch(c, x, d, e)
                  \/ close_and_cleanup(c, done(n), d)
  BY <1>2, <1>3 DEF Keep, Watch, DirLeft
<1> QED
  BY <1>1, <1>3 DEF execute_simple_response_write, start_send_list, done

(* So does one that is prepared and sent.                                  *)
LEMMA SentFiles ==
  ASSUME NEW c \in Conn, NEW cl \in ClientType, NEW d, NEW m \in Message,
         send_ok(c, cl, d) \/ send_error(c, cl, m, d)
  PROVE  DirLeft(c, cl, d)
<1> DEFINE ok == [cl EXCEPT !.state = "SEND_OK", !.simple_response_buf = OkLine,
                            !.simple_response_sent = 0]
           error == [cl EXCEPT !.state = "SEND_ERROR", !.simple_response_sent = 0,
                               !.simple_response_buf = ErrorLines(m)]
<1>1. /\ ok \in ClientType /\ ok.request_verb = cl.request_verb
      /\ ok.filename = cl.filename
  BY FixedResponses DEF ClientType, Sending
<1>2. /\ error \in ClientType /\ error.request_verb = cl.request_verb
      /\ error.filename = cl.filename
  BY FixedResponses DEF ClientType, Sending
<1>3. \/ execute_simple_response_write(c, ok, d)
      \/ execute_simple_response_write(c, error, d)
  BY DEF send_ok, send_error
<1> HIDE DEF ok, error
<1> QED
  BY <1>1, <1>2, <1>3, ResponseFiles DEF DirLeft, Removes

(* What of a client's intent does not depend on its state.                 *)
Named(c, cl) ==
  cl.request_verb = "PUT" =>
    req[c].verb = "PUT" /\ cl.filename \in {NoName, req[c].name}

(* And it leaves a client that removes no file but its own upload's.       *)
LEMMA ResponseIntent ==
  ASSUME Typed, NEW c \in Conn, NEW cl \in ClientType, Named(c, cl),
         cl.state \in {"SEND_OK", "SEND_ERROR"},
         cl.state = "SEND_OK" =>
           /\ cl.request_verb = req[c].verb /\ cl.simple_response_buf = OkLine
           /\ cl.simple_response_sent < Len(OkLine),
         NEW d, execute_simple_response_write(c, cl, d)
  PROVE  Intends(c, client'[c])
<1> DEFINE left == Len(cl.simple_response_buf) - cl.simple_response_sent
           cl1(n) == [cl EXCEPT !.simple_response_sent =
                                  cl.simple_response_sent + n]
<1>1. Intends(c, client_create)
  BY DEF Intends, client_create
<1>2. ASSUME NEW x, close_and_cleanup(c, x, d) PROVE Intends(c, client'[c])
  BY <1>1, <1>2 DEF close_and_cleanup, Typed
<1>3. ASSUME NEW x, x.request_verb = cl.request_verb, x.filename = cl.filename,
             x.state # "RECV_HEADER",
             x.state = "SEND_OK" => x.simple_response_sent < Len(OkLine),
             client' = [client EXCEPT ![c] = x]
      PROVE  Intends(c, client'[c])
  BY <1>3 DEF Intends, Named, Typed
<1>4. CASE Keep(c, cl, d)
  BY <1>3, <1>4 DEF Keep
<1>5. ASSUME NEW n \in Accepts(left), 0 < n, n < left,
             Watch(c, cl1(n), d, "WRITE")
      PROVE  Intends(c, client'[c])
  <2>1. /\ cl1(n).request_verb = cl.request_verb
        /\ cl1(n).filename = cl.filename /\ cl1(n).state = cl.state
        /\ cl1(n).simple_response_sent = cl.simple_response_sent + n
    BY DEF ClientType
  <2>2. cl.state = "SEND_OK" => cl.simple_response_sent + n < Len(OkLine)
    <3>1. /\ cl.simple_response_sent \in Nat
          /\ Len(cl.simple_response_buf) \in Nat /\ n \in Int
      BY <1>5 DEF ClientType, Accepts
    <3> QED
      BY <1>5, <3>1
  <2> HIDE DEF cl1
  <2> QED
    BY <1>3, <1>5, <2>1, <2>2 DEF Watch
<1>6. ASSUME NEW n, start_send_list(c, cl1(n), d)
      PROVE  Intends(c, client'[c])
  <2> DEFINE x == [cl1(n) EXCEPT !.list_buf = build_list_buffer(server_files),
                                 !.list_sent = 0, !.state = "SEND_LIST_DATA"]
  <2>1. /\ x.request_verb = cl.request_verb /\ x.filename = cl.filename
        /\ x.state = "SEND_LIST_DATA"
    BY DEF ClientType
  <2>2. client' = [client EXCEPT ![c] = x]
    BY <1>6 DEF start_send_list, Watch
  <2> HIDE DEF x
  <2> QED
    BY <1>3, <2>1, <2>2
<1>7. ASSUME NEW n, Watch(c, ToGetSize(cl1(n)), d, "WRITE")
      PROVE  Intends(c, client'[c])
  <2> DEFINE x == ToGetSize(cl1(n))
  <2>1. /\ x.request_verb = cl.request_verb /\ x.filename = cl.filename
        /\ x.state = "SEND_GET_SIZE"
    BY DEF ClientType, ToGetSize
  <2>2. client' = [client EXCEPT ![c] = x]
    BY <1>7 DEF Watch
  <2> HIDE DEF x
  <2> QED
    BY <1>3, <2>1, <2>2
<1> HIDE DEF cl1, left
<1> QED
  BY <1>2, <1>4, <1>5, <1>6, <1>7 DEF execute_simple_response_write, cl1, left

(* So does one that is prepared and sent.                                  *)
LEMMA SentIntent ==
  ASSUME Typed, NEW c \in Conn, NEW cl \in ClientType, Named(c, cl), NEW d,
         NEW m \in Message,
         \/ send_ok(c, cl, d) /\ cl.request_verb = req[c].verb
         \/ send_error(c, cl, m, d)
  PROVE  Intends(c, client'[c])
<1> DEFINE ok == [cl EXCEPT !.state = "SEND_OK", !.simple_response_buf = OkLine,
                            !.simple_response_sent = 0]
           error == [cl EXCEPT !.state = "SEND_ERROR", !.simple_response_sent = 0,
                               !.simple_response_buf = ErrorLines(m)]
<1>1. /\ ok \in ClientType /\ Named(c, ok)
      /\ ok.request_verb = cl.request_verb /\ ok.state = "SEND_OK"
      /\ ok.simple_response_buf = OkLine /\ ok.simple_response_sent = 0
  BY FixedResponses DEF ClientType, Sending, Named
<1>2. error \in ClientType /\ Named(c, error) /\ error.state = "SEND_ERROR"
  BY FixedResponses DEF ClientType, Sending, Named
<1>3. 0 < Len(OkLine)
  BY TwoLines
<1>4. \/ /\ execute_simple_response_write(c, ok, d)
         /\ cl.request_verb = req[c].verb
      \/ execute_simple_response_write(c, error, d)
  BY DEF send_ok, send_error
<1> HIDE DEF ok, error
<1> QED
  BY <1>1, <1>2, <1>3, <1>4, ResponseIntent

(* What a response that can be written does: it is written in part, or it  *)
(* is whole and the client ends or goes on to its size or its list.        *)
Given(c, cl) ==
  \/ sock'[c] = "open" /\ client'[c].state = cl.state
  \/ /\ resp'[c] = cl.simple_response_buf
     /\ \/ sock'[c] = "closed" /\ client'[c] = client_create
        \/ /\ sock'[c] = "open" /\ client'[c].state = "SEND_GET_SIZE"
           /\ cl.state = "SEND_OK"
        \/ /\ sock'[c] = "open" /\ client'[c].state = "SEND_LIST_DATA"
           /\ client'[c].list_buf = build_list_buffer(server_files)
           /\ cl.state = "SEND_OK" /\ cl.request_verb = "LIST"

LEMMA ResponseGiven ==
  ASSUME Typed, NEW c \in Conn, sock[c] = "open", NEW cl \in ClientType,
         cl.simple_response_sent <= Len(cl.simple_response_buf),
         resp[c] = SubSeq(cl.simple_response_buf, 1, cl.simple_response_sent),
         NEW d, execute_simple_response_write(c, cl, d)
  PROVE  \/ WriteError(c, <<>>) /\ close_and_cleanup(c, cl, d)
         \/ dir' = d /\ Given(c, cl)
<1> DEFINE buf == cl.simple_response_buf
           sent == cl.simple_response_sent
           left == Len(buf) - sent
           cl1(n) == [cl EXCEPT !.simple_response_sent = sent + n]
           list(n) == [cl1(n) EXCEPT !.list_buf = build_list_buffer(server_files),
                                     !.list_sent = 0,
                                     !.state = "SEND_LIST_DATA"]
           done(n) == [cl1(n) EXCEPT !.state = "DONE"]
<1>1. /\ buf \in Seq(RespUnit) /\ Len(buf) \in Nat /\ sent \in Nat
      /\ sent <= Len(buf) /\ sent + left = Len(buf)
  BY DEF ClientType
<1>2. ASSUME NEW x, x.state = cl.state, Keep(c, x, d) \/ Watch(c, x, d, "WRITE")
      PROVE  dir' = d /\ Given(c, cl)
  BY <1>2 DEF Keep, Watch, Typed, Given
<1>3. ASSUME NEW n,
             Written(c, SubSeq(buf, sent + 1, sent + n), n < left), n = left
      PROVE  resp'[c] = buf
  <2>1. resp'[c] = SubSeq(buf, 1, sent) \o SubSeq(buf, sent + 1, Len(buf))
    BY <1>1, <1>3 DEF Written, Typed
  <2> HIDE DEF buf, sent
  <2>2. /\ 1 \in 1..(Len(buf) + 1) /\ sent \in (1 - 1)..Len(buf)
        /\ Len(buf) \in sent..Len(buf)
    BY <1>1
  <2>3. resp'[c] = SubSeq(buf, 1, Len(buf))
    BY <1>1, <2>1, <2>2, ConcatAdjacentSubSeq
  <2> QED
    BY <1>1, <2>3, SubSeqFull
<1>4. ASSUME NEW n, start_send_list(c, cl1(n), d), cl.state = "SEND_OK",
             cl.request_verb = "LIST", resp'[c] = buf
      PROVE  dir' = d /\ Given(c, cl)
  <2>1. /\ list(n).state = "SEND_LIST_DATA"
        /\ list(n).list_buf = build_list_buffer(server_files)
    BY DEF ClientType
  <2>2. Watch(c, list(n), d, "WRITE")
    BY <1>4 DEF start_send_list
  <2> HIDE DEF list
  <2> QED
    BY <1>4, <2>1, <2>2 DEF Watch, Typed, Given
<1>5. ASSUME NEW n, Watch(c, ToGetSize(cl1(n)), d, "WRITE"),
             cl.state = "SEND_OK", resp'[c] = buf
      PROVE  dir' = d /\ Given(c, cl)
  <2> DEFINE x == ToGetSize(cl1(n))
  <2>1. x.state = "SEND_GET_SIZE"
    BY DEF ClientType, ToGetSize
  <2> HIDE DEF x
  <2> QED
    BY <1>5, <2>1 DEF Watch, Typed, Given, x
<1>6. ASSUME NEW n, close_and_cleanup(c, done(n), d), resp'[c] = buf
      PROVE  dir' = d /\ Given(c, cl)
  <2>1. done(n).state = "DONE"
    BY DEF ClientType
  <2> HIDE DEF done
  <2> QED
    BY <1>6, <2>1 DEF close_and_cleanup, RemovesUpload, Typed, Given
<1>7. ASSUME NEW n PROVE cl1(n).state = cl.state
  BY DEF ClientType
<1>8. \/ WriteError(c, <<>>) /\ close_and_cleanup(c, cl, d)
      \/ \E n \in Accepts(left) :
           /\ Written(c, SubSeq(buf, sent + 1, sent + n), n < left)
           /\ \/ Keep(c, cl, d)
              \/ Watch(c, cl1(n), d, "WRITE")
              \/ /\ n = left /\ cl.state = "SEND_OK"
                 /\ cl.request_verb = "LIST"
                 /\ start_send_list(c, cl1(n), d)
              \/ /\ n = left /\ cl.state = "SEND_OK"
                 /\ Watch(c, ToGetSize(cl1(n)), d, "WRITE")
              \/ n = left /\ close_and_cleanup(c, done(n), d)
  BY DEF execute_simple_response_write
<1> HIDE DEF buf, sent, left, cl1, done
<1> QED
  BY <1>2, <1>3, <1>4, <1>5, <1>6, <1>7, <1>8

(* The OK of an upload: its file stays, or the write failed and nobody was *)
(* told the whole of it.                                                   *)
OkResult(c, d) ==
  /\ ~FillsFile(c)'
  /\ (dir' = d /\ Confirming(c)') \/ (c \in rst' /\ ~Confirming(c)')

(* One that is written.                                                    *)
LEMMA OkWrittenFiles ==
  ASSUME Typed, NEW c \in Conn, sock[c] = "open", NEW cl \in ClientType,
         cl.state = "SEND_OK",
         cl.request_verb = "PUT", cl.simple_response_buf = OkLine,
         cl.simple_response_sent < Len(OkLine),
         resp[c] = SubSeq(OkLine, 1, cl.simple_response_sent),
         NEW d, execute_simple_response_write(c, cl, d)
  PROVE  OkResult(c, d)
<1>1. ~FillsFile(c)'
  <2>1. Confirms(c)
    BY OkWriteConfirms
  <2> QED
    BY <2>1 DEF Confirms, FillsFile
<1>2. cl.simple_response_sent \in Nat /\ Len(OkLine) = 2
  BY TwoLines DEF ClientType
<1>3. CASE dir' = d /\ Given(c, cl)
  BY <1>1, <1>3 DEF Given, OkResult, Confirming
<1>4. CASE WriteError(c, <<>>) /\ close_and_cleanup(c, cl, d)
  <2>1. resp'[c] = resp[c] /\ c \in rst'
    <3>1. resp[c] \o <<>> = resp[c]
      BY ConcatEmptySeq DEF Typed
    <3> QED
      BY <1>4, <3>1 DEF WriteError, Typed
  <2>2. resp[c] # OkLine
    <3>1. Len(resp[c]) = cl.simple_response_sent
      BY <1>2, TwoLines, SubSeqProperties
    <3>2. Len(resp[c]) # 2
      BY <1>2, <3>1
    <3> QED
      BY <1>2, <3>2
  <2>3. sock'[c] = "closed"
    BY <1>4 DEF close_and_cleanup, Typed
  <2> QED
    BY <1>1, <2>1, <2>2, <2>3 DEF OkResult, Confirming
<1>5. cl.simple_response_sent <= Len(cl.simple_response_buf)
  BY <1>2
<1> QED
  BY <1>3, <1>4, <1>5, ResponseGiven

(* One that is prepared and sent.                                          *)
LEMMA OkSentFiles ==
  ASSUME Typed, NEW c \in Conn, NEW cl \in ClientType,
         sock[c] = "open", cl.request_verb = "PUT", resp[c] = <<>>,
         NEW d, send_ok(c, cl, d)
  PROVE  OkResult(c, d)
<1> DEFINE ok == [cl EXCEPT !.state = "SEND_OK", !.simple_response_buf = OkLine,
                            !.simple_response_sent = 0]
<1>1. /\ ok \in ClientType /\ ok.request_verb = "PUT"
      /\ ok.state = "SEND_OK"
      /\ ok.simple_response_buf = OkLine /\ ok.simple_response_sent = 0
  BY FixedResponses DEF ClientType, Sending
<1>2. 0 < Len(OkLine) /\ resp[c] = SubSeq(OkLine, 1, 0)
  BY TwoLines, SubSeqEmpty
<1>3. execute_simple_response_write(c, ok, d)
  BY DEF send_ok
<1> HIDE DEF ok
<1> QED
  BY <1>1, <1>2, <1>3, OkWrittenFiles

-----------------------------------------------------------------------------
(***************************************************************************)
(* What a handler of an upload makes of the file of its name.              *)
(***************************************************************************)
Spares(n) ==
  /\ dir'[n] = dir[n]
  /\ n \in Listed(server_files') <=> n \in Listed(server_files)
  /\ dir[n] # NoInode => data'[dir[n]] = data[dir[n]]

(* Why an upload that has its file open may fail.                          *)
Trouble(c) ==
  \/ c \in rst' \/ "pwrite" \in Faults \/ arrived[c] > WholeLen(c)
  \/ /\ c \in fin
     /\ HeaderLen + SizeLen <= arrived[c] /\ arrived[c] < WholeLen(c)

Quits(c) == ~FillsFile(c)' /\ ~Confirming(c)'

(* Why one that has not may be told of an error.                           *)
Refusal(c) ==
  \/ req[c].name = NoName \/ "open" \in Faults
  \/ Eof(c) /\ arrived[c] < HeaderLen + SizeLen

Silent(c) == resp[c] = <<>> /\ client[c].state \in Receiving

Result(c) ==
  \/ /\ ~FillsFile(c) /\ ~FillsFile(c)'
     /\ req[c].name \in Name => Spares(req[c].name)
     /\ Confirming(c)' => Confirming(c)
     /\ client[c].state \in Sending \/ Silent(c)' \/ Refusal(c)
  \/ Storing(c)' /\ ~Confirming(c)' /\ server_files' = server_files
  \/ Kept(c)' /\ ~FillsFile(c)' /\ taken'[c] = WholeLen(c) /\ Confirming(c)'
  \/ Trouble(c) /\ Quits(c)

(* Files of other names, and their places in the list.                     *)
Elsewhere(c) ==
  /\ \A n \in Name : n # req[c].name =>
       /\ dir'[n] = dir[n]
       /\ n \in Listed(server_files') <=> n \in Listed(server_files)
  /\ \A i \in Conn : Made(i) /\ req[i].name # req[c].name => data'[i] = data[i]

Proper(c) == Result(c) /\ Intends(c, client'[c]) /\ Elsewhere(c)

(* A close removes a file of the client's own name only.                   *)
LEMMA DirElsewhere ==
  ASSUME NEW c \in Conn, NEW cl, Named(c, cl), NEW d, DirLeft(c, cl, d),
         NEW n \in Name, n # req[c].name
  PROVE  dir'[n] = d[n]
<1>1. CASE dir' = d
  BY <1>1
<1>2. CASE Removes(c, cl, d)
  <2>1. cl.filename # n
    BY <1>2, ConstantsAssumption DEF Removes, Named
  <2> QED
    BY <1>2, <2>1 DEF Removes, unlink
<1> QED
  BY <1>1, <1>2 DEF DirLeft

(* An upload that has failed neither fills a file nor is confirmed.        *)
LEMMA FailedQuits ==
  ASSUME NEW c \in Conn, Failed(c)
  PROVE  Quits(c)
<1>1. resp'[c] # OkLine
  <2>1. OkLine # <<>> /\ OkLine[1][1] = "OK"
    BY DEF OkLine
  <2> QED
    BY <2>1 DEF Failed, SaidOk
<1> QED
  BY <1>1 DEF Failed, Quits, FillsFile, Confirming

(* What an error does when the upload has not opened its file.             *)
LEMMA ErrorSpares ==
  ASSUME Typed, NEW c \in Conn, NEW cl \in ClientType, NEW m \in Message,
         Named(c, cl), Refusal(c),
         resp[c] = <<>>, ~FillsFile(c), UNCHANGED <<data, server_files>>,
         send_error(c, cl, m, dir)
  PROVE  Proper(c)
<1>1. Quits(c)
  BY ErrorSendFails, FailedQuits
<1>2. DirLeft(c, cl, dir)
  BY SentFiles
<1>3. Result(c)
  BY <1>1, <1>2 DEF DirLeft, Removes, Result, Quits, Spares, Trouble
<1>4. Intends(c, client'[c])
  BY SentIntent
<1>5. Elsewhere(c)
  BY <1>2, DirElsewhere DEF Elsewhere
<1> QED
  BY <1>3, <1>4, <1>5 DEF Proper

(* A handler that only goes on reading.                                    *)
LEMMA WaitSpares ==
  ASSUME Typed, NEW c \in Conn, resp[c] = <<>>, ~FillsFile(c), NEW x,
         x.state \in {"RECV_HEADER", "RECV_PUT_SIZE"}, NoWrite,
         Intends(c, x), UNCHANGED <<data, server_files>>,
         Keep(c, x, dir) \/ Watch(c, x, dir, "READ")
  PROVE  Proper(c)
<1>1. client'[c] = x /\ dir' = dir /\ resp'[c] = <<>>
  BY DEF Keep, Watch, Typed, NoWrite, writeVars
<1>2. <<>> # OkLine
  BY DEF OkLine
<1>3. Silent(c)'
  BY <1>1 DEF Silent, Receiving
<1> QED
  BY <1>1, <1>2, <1>3
  DEF Proper, Result, Elsewhere, FillsFile, Spares, Confirming

(* Where the stream is after the k units of a chunk, when a have arrived.  *)
LEMMA ChunkPosition ==
  ASSUME NEW h \in Nat, NEW s \in Nat, NEW e \in Nat, NEW b \in Nat, b <= e,
         NEW t, t = h + s + b, NEW a \in Nat, t <= a,
         NEW k \in Nat, k <= e - b, k <= a - t, k = e - b \/ k = a - t
  PROVE  /\ b + k \in Nat /\ t + k \in Nat /\ t + k <= a
         /\ b + k = e => t + k = h + s + e
         /\ b + k # e => t + k < h + s + e /\ t + k = a
         /\ h + s <= t + k
  OBVIOUS

(* The loop of recv_put_data, with directory d and contents dt: client cl  *)
(* has a file open that was made under its name, and when nobody has come  *)
(* between, it is the file of that name and holds what has been read.      *)
FileOpen(c, cl, d, dt) ==
  /\ d \in [Name -> Inodes] /\ dt \in [Conn -> Seq(Unit)]
  /\ cl.file_fd \in Conn /\ req[cl.file_fd].name = req[c].name
  /\ \A n \in Name : n # req[c].name => d[n] = dir[n]
  /\ \A i \in Conn : i # cl.file_fd => dt[i] = data[i]

Filled(c, cl, d, dt) ==
  /\ d[req[c].name] = cl.file_fd
  /\ dt[cl.file_fd] = BodyUnits(c, 1, cl.bytes_transferred)

(* recv_put_data, begun with the file open.                                *)
LEMMA PutDataResult ==
  ASSUME Typed, Context, NEW c \in Conn, NEW t \in Nat, t <= arrived[c],
         NEW cl \in ClientType, cl.state = "RECV_PUT_DATA", Upload(c, cl),
         cl.expected_size = req[c].size,
         cl.bytes_transferred <= cl.expected_size,
         t = HeaderLen + SizeLen + cl.bytes_transferred,
         resp[c] = <<>>, sock[c] = "open", rst \subseteq rst',
         UNCHANGED peerVars, NEW d, NEW dt, FileOpen(c, cl, d, dt),
         recv_put_data(c, cl, d, dt, t)
  PROVE  /\ Intends(c, client'[c]) /\ Elsewhere(c)
         /\ Filled(c, cl, d, dt) => Result(c)
<1> DEFINE e == cl.expected_size
           b == cl.bytes_transferred
           need == e - b
           k == Least(arrived[c] - t, need)
           cl1 == [cl EXCEPT !.bytes_transferred = @ + k]
           Wrote(n) == data' = [dt EXCEPT ![cl.file_fd] =
                          pwrite(@, BodyUnits(c, t + 1 - HeaderLen - SizeLen, n), b)]
<1>1. /\ b \in Nat /\ e \in Nat /\ b <= e
      /\ HeaderLen \in Nat /\ SizeLen \in Nat /\ arrived[c] \in Nat
      /\ cl.filename = req[c].name /\ cl.request_verb = "PUT"
      /\ req[c].name \in Name /\ taken \in [Conn -> Nat]
  BY ConstantsAssumption DEF ClientType, Context, Upload, Typed
<1>2. /\ d \in [Name -> Inodes] /\ dt \in [Conn -> Seq(Unit)]
      /\ cl.file_fd \in Conn /\ req[cl.file_fd].name = req[c].name
      /\ \A n \in Name : n # req[c].name => d[n] = dir[n]
      /\ \A i \in Conn : i # cl.file_fd => dt[i] = data[i]
  BY DEF FileOpen
<1>3. WholeLen(c) = HeaderLen + SizeLen + e /\ t = HeaderLen + SizeLen + b
  BY DEF WholeLen
<1>4. ASSUME Filled(c, cl, d, dt), NEW n \in Nat, Wrote(n)
      PROVE  data'[cl.file_fd] = BodyUnits(c, 1, b + n)
  <2>1. t + 1 - HeaderLen - SizeLen = b + 1
    BY <1>1, <1>3
  <2>2. data'[cl.file_fd] = pwrite(BodyUnits(c, 1, b), BodyUnits(c, b + 1, n), b)
    BY <1>2, <1>4, <2>1 DEF Filled
  <2> QED
    BY <1>1, <2>2, NextChunk
<1>5. ASSUME NEW n, Wrote(n), NEW i \in Conn, req[i].name # req[c].name
      PROVE  data'[i] = data[i]
  BY <1>2, <1>5
<1> HIDE DEF e, b, Wrote
<1>6. need \in Nat /\ arrived[c] - t \in Nat
  BY <1>1
<1> HIDE DEF need
<1>7. /\ k \in Nat /\ k <= need /\ k <= arrived[c] - t
      /\ k = need \/ k = arrived[c] - t
  BY <1>6, LeastRange DEF Least
<1> HIDE DEF k
<1>8. /\ b + k \in Nat /\ t + k \in Nat /\ t + k <= arrived[c]
      /\ b + k = e => t + k = HeaderLen + SizeLen + e
      /\ b + k # e => t + k < HeaderLen + SizeLen + e /\ t + k = arrived[c]
      /\ HeaderLen + SizeLen <= t + k
  <2>1. k <= e - b /\ (k = e - b \/ k = arrived[c] - t)
    BY <1>7 DEF need
  <2> QED
    BY <1>1, <1>3, <1>7, <2>1, ChunkPosition
<1>9. /\ cl1 \in ClientType /\ cl1.state = "RECV_PUT_DATA"
      /\ cl1.request_verb = "PUT" /\ cl1.file_fd = cl.file_fd
      /\ cl1.bytes_transferred = b + k /\ cl1.expected_size = e
      /\ cl1.filename = req[c].name /\ Intends(c, cl1)
  <2>1. cl1 \in ClientType
    BY <1>1, <1>8 DEF ClientType, b
  <2>2. /\ cl1.state = "RECV_PUT_DATA" /\ cl1.filename = cl.filename
        /\ cl1.request_verb = cl.request_verb /\ cl1.file_fd = cl.file_fd
        /\ cl1.bytes_transferred = b + k /\ cl1.expected_size = e
    BY DEF ClientType, b, e
  <2> HIDE DEF cl1
  <2> QED
    BY <1>1, <2>1, <2>2 DEF Intends, Upload
<1> HIDE DEF cl1
<1>10. ASSUME NEW x \in ClientType
       PROVE  /\ FileClosed(x) \in ClientType
              /\ FileClosed(x).request_verb = x.request_verb
              /\ FileClosed(x).filename = x.filename
  BY DEF FileClosed, ClientType
<1>11. /\ Named(c, FileClosed(cl)) /\ Named(c, FileClosed(cl1))
       /\ FileClosed(cl1).request_verb = req[c].verb
  BY <1>1, <1>9, <1>10 DEF Named, Upload
<1>12. ASSUME NEW x \in ClientType, Named(c, x), DirLeft(c, x, d),
              NEW n, Wrote(n),
              \/ server_files' = server_files
              \/ server_files' = add_file_to_list(server_files, cl.filename)
       PROVE  Elsewhere(c)
  <2>1. \A m \in Name : m # req[c].name => dir'[m] = dir[m]
    BY <1>2, <1>12, DirElsewhere
  <2>2. \A m \in Name : m # req[c].name =>
          (m \in Listed(server_files') <=> m \in Listed(server_files))
    BY <1>1, <1>12, AddedName DEF Context
  <2> QED
    BY <1>5, <1>12, <2>1, <2>2 DEF Elsewhere
<1>13. ASSUME NEW x \in {cl, cl1}, NEW n, Wrote(n), UNCHANGED server_files,
              send_error(c, FileClosed(x), "Bad file size", d)
       PROVE  Quits(c) /\ Intends(c, client'[c]) /\ Elsewhere(c)
  <2>1. /\ FileClosed(x) \in ClientType /\ "Bad file size" \in Message
        /\ Named(c, FileClosed(x))
    BY <1>9, <1>10, <1>11 DEF Message
  <2>2. Quits(c)
    BY <1>13, <2>1, ErrorSendFails, FailedQuits
  <2>3. Intends(c, client'[c])
    BY <1>13, <2>1, SentIntent
  <2>4. DirLeft(c, FileClosed(x), d)
    BY <1>13, <2>1, SentFiles
  <2> QED
    BY <1>13, <1>12, <2>1, <2>2, <2>3, <2>4
<1>14. CASE /\ "pwrite" \in Faults /\ UNCHANGED server_files
            /\ \E j \in 0..(k - 1) : Wrote(j)
            /\ send_error(c, FileClosed(cl), "Bad file size", d)
  BY <1>13, <1>14 DEF Result, Trouble
<1>15. CASE /\ UploadComplete(cl1) /\ ExtraByte(c, t + k)
            /\ Wrote(k) /\ UNCHANGED server_files
            /\ send_error(c, FileClosed(cl1), "Bad file size", d)
  <2>1. arrived[c] > WholeLen(c)
    BY <1>1, <1>3, <1>8, <1>9, <1>15 DEF UploadComplete, ExtraByte
  <2> QED
    BY <1>13, <1>15, <2>1 DEF Result, Trouble
<1>16. CASE /\ UploadComplete(cl1) /\ taken' = [taken EXCEPT ![c] = t + k]
            /\ Wrote(k)
            /\ server_files' = add_file_to_list(server_files, cl.filename)
            /\ send_ok(c, FileClosed(cl1), d)
  <2>1. b + k = e
    BY <1>9, <1>16 DEF UploadComplete
  <2>2. taken'[c] = WholeLen(c)
    BY <1>1, <1>3, <1>8, <1>16, <2>1
  <2>3. OkResult(c, d)
    BY <1>9, <1>10, <1>16, OkSentFiles
  <2>4. Intends(c, client'[c])
    BY <1>9, <1>10, <1>16, <1>11, SentIntent DEF Message
  <2>5. DirLeft(c, FileClosed(cl1), d)
    BY <1>9, <1>10, <1>16, SentFiles DEF Message
  <2>6. Elsewhere(c)
    BY <1>9, <1>10, <1>16, <1>11, <1>12, <2>5
  <2>7. ASSUME c \in rst', ~Confirming(c)' PROVE Result(c)
    BY <2>3, <2>7 DEF OkResult, Result, Trouble, Quits
  <2>8. ASSUME dir' = d, Confirming(c)', Filled(c, cl, d, dt) PROVE Result(c)
    <3>1. req' = req
      BY DEF peerVars
    <3>2. req[c].name \in Listed(server_files')
      BY <1>1, <1>16, AddedName DEF Context
    <3>3. dir'[req[c].name] = cl.file_fd /\ cl.file_fd # NoInode
      BY <1>2, <2>8, ConstantsAssumption DEF Filled
    <3>4. data'[cl.file_fd] = BodyUnits(c, 1, req[c].size)
      BY <1>4, <1>7, <1>16, <2>1, <2>8 DEF e
    <3>5. Kept(c)'
      BY <3>1, <3>2, <3>3, <3>4 DEF Kept
    <3> QED
      BY <2>2, <2>3, <2>8, <3>5 DEF Result, OkResult
  <2> QED
    BY <2>3, <2>7, <2>8, <2>4, <2>6 DEF OkResult
<1>17. CASE /\ ~UploadComplete(cl1) /\ Wrote(k) /\ Eof(c)
            /\ UNCHANGED server_files
            /\ send_error(c, FileClosed(cl1), "Bad file size", d)
  <2>1. Quits(c) /\ Intends(c, client'[c]) /\ Elsewhere(c)
    BY <1>13, <1>17
  <2>2. b + k # e
    BY <1>9, <1>17 DEF UploadComplete
  <2>3. HeaderLen + SizeLen <= arrived[c] /\ arrived[c] < WholeLen(c)
    BY <1>3, <1>8, <2>2
  <2> QED
    BY <1>17, <2>1, <2>3 DEF Result, Trouble, Eof
<1>18. CASE /\ Wrote(k) /\ UNCHANGED server_files
            /\ NoWrite /\ Keep(c, cl1, d)
  <2>1. /\ client'[c] = cl1 /\ sock'[c] = "open" /\ dir' = d
        /\ resp'[c] = <<>> /\ req' = req
    BY <1>18 DEF Keep, NoWrite, writeVars, Typed, peerVars
  <2>2. ASSUME Filled(c, cl, d, dt) PROVE Storing(c)'
    BY <1>2, <1>4, <1>7, <1>9, <1>18, <2>1, <2>2
    DEF Storing, FillsFile, Filled
  <2>3. <<>> # OkLine
    BY DEF OkLine
  <2>4. Elsewhere(c)
    <3>1. DirLeft(c, FileClosed(cl1), d)
      BY <2>1 DEF DirLeft
    <3> QED
      BY <1>9, <1>10, <1>18, <1>11, <1>12, <3>1
  <2> QED
    BY <1>9, <1>18, <2>1, <2>2, <2>3, <2>4 DEF Result, Confirming
<1> QED
  BY <1>14, <1>15, <1>16, <1>17, <1>18
  DEF recv_put_data, cl1, k, need, e, b, Wrote

(* recv_put_size: the file is created or emptied, then filled with what has*)
(* arrived.                                                                *)
LEMMA PutSizeResult ==
  ASSUME Typed, Context, NEW c \in Conn, Made(c), taken[c] <= arrived[c],
         Good(c, client[c], taken[c]), client[c].state = "RECV_PUT_SIZE",
         resp[c] = <<>>, sock[c] = "open", rst \subseteq rst',
         UNCHANGED peerVars, DirOK(dir), DataOK(data), recv_put_size(c)
  PROVE  Proper(c)
<1> DEFINE cl == client[c]
           b == cl.bytes_transferred
           need == SizeLen - b
           k == Least(arrived[c] - taken[c], need)
           t == taken[c] + k
           cl1 == [cl EXCEPT !.bytes_transferred = @ + k]
           cl2 == OffsetReset([cl1 EXCEPT !.expected_size = req[c].size])
           i == OpenInode(c, dir, cl.filename)
           cl3 == [cl2 EXCEPT !.file_fd = i, !.state = "RECV_PUT_DATA"]
           d == [dir EXCEPT ![cl.filename] = i]
           dt == Truncated(data, i)
<1>1. /\ cl \in ClientType /\ b \in Nat /\ b <= SizeLen /\ SizeLen \in Nat
      /\ HeaderLen \in Nat /\ arrived[c] \in Nat /\ taken[c] \in Nat
      /\ taken[c] = HeaderLen + b
      /\ Upload(c, cl) /\ req[c].size \in Nat
  BY ConstantsAssumption
     DEF Good, Base, PositionOK, ClientType, Context, Typed, Request
<1>2. /\ cl.state = "RECV_PUT_SIZE" /\ b = cl.bytes_transferred
      /\ cl.filename = req[c].name /\ req[c].name \in Name
  BY <1>1 DEF Upload
<1>3. i \in Conn /\ req[i].name = req[c].name /\ DirOK(d)
  BY <1>2, OpenedOK
<1>4. /\ d \in [Name -> Inodes] /\ d[req[c].name] = i
      /\ \A n \in Name : n # req[c].name => d[n] = dir[n]
  BY <1>2, <1>3 DEF DirOK
<1>5. /\ dt \in [Conn -> Seq(Unit)] /\ dt[i] = <<>>
      /\ \A j \in Conn : j # i => dt[j] = data[j]
  BY <1>3 DEF DataOK, Truncated
<1> HIDE DEF d, dt, i, cl, b
<1>6. ~FillsFile(c)
  BY <1>2 DEF FillsFile, cl
<1>7. need \in Nat /\ arrived[c] - taken[c] \in Nat
  BY <1>1
<1> HIDE DEF need
<1>8. /\ k \in Nat /\ k <= need /\ k <= arrived[c] - taken[c]
      /\ k = need \/ k = arrived[c] - taken[c]
  BY <1>7, LeastRange DEF Least
<1> HIDE DEF k
<1>9. /\ b + k \in Nat /\ t \in Nat
      /\ k = need => t = HeaderLen + SizeLen + 0
      /\ k < need => t < HeaderLen + SizeLen
  BY <1>1, <1>8, SizePosition DEF need
<1>10. t <= arrived[c] /\ (k # need => t = arrived[c])
  BY <1>1, <1>8
<1> HIDE DEF t
<1>11. /\ cl1 \in ClientType /\ cl1.state = "RECV_PUT_SIZE"
       /\ Upload(c, cl1)
  BY <1>1, <1>2, <1>9 DEF ClientType, Upload
<1> HIDE DEF cl1
<1>12. /\ cl2 \in ClientType /\ Upload(c, cl2)
       /\ cl2.expected_size = req[c].size /\ cl2.bytes_transferred = 0
  BY <1>1, <1>11 DEF ClientType, OffsetReset, Upload
<1> HIDE DEF cl2
<1>13. /\ cl3 \in ClientType /\ cl3.state = "RECV_PUT_DATA" /\ Upload(c, cl3)
       /\ cl3.expected_size = req[c].size /\ cl3.bytes_transferred = 0
       /\ cl3.file_fd = i
  BY <1>3, <1>12 DEF ClientType, Receiving, Upload
<1> HIDE DEF cl3
<1>14. ASSUME NEW x \in {cl1, cl2}, UNCHANGED <<data, server_files>>,
              (k < need /\ Eof(c)) \/ "open" \in Faults,
              send_error(c, x, "Bad file size", dir)
       PROVE  Proper(c)
  <2>1. x \in ClientType /\ Named(c, x)
    BY <1>11, <1>12, <1>14 DEF Upload, Named
  <2>2. k < need => arrived[c] < HeaderLen + SizeLen
    <3>1. k < need => k # need
      BY <1>7, <1>8
    <3> QED
      BY <1>9, <1>10, <3>1
  <2>3. Refusal(c)
    BY <1>14, <2>2 DEF Refusal
  <2> QED
    BY <1>6, <1>14, <2>1, <2>3, ErrorSpares DEF Message
<1>15. CASE /\ UNCHANGED <<data, server_files>>
            /\ NoWrite /\ Keep(c, cl1, dir)
  <2>1. Intends(c, cl1)
    BY <1>11 DEF Intends, Upload
  <2> QED
    BY <1>6, <1>11, <1>15, <2>1, WaitSpares
<1>16. CASE k = need /\ recv_put_data(c, cl3, d, dt, t)
  <2>1. t = HeaderLen + SizeLen + cl3.bytes_transferred
    BY <1>9, <1>13, <1>16
  <2>2. cl3.bytes_transferred <= cl3.expected_size
    BY <1>1, <1>13
  <2>3. FileOpen(c, cl3, d, dt) /\ Filled(c, cl3, d, dt)
    BY <1>3, <1>4, <1>5, <1>13 DEF BodyUnits, FileOpen, Filled
  <2> QED
    BY <1>9, <1>10, <1>13, <1>16, <2>1, <2>2, <2>3, PutDataResult DEF Proper
<1> QED
  BY <1>14, <1>15, <1>16
  DEF recv_put_size, cl, b, need, k, t, cl1, cl2, cl3, i, d, dt

(* The command line of an upload, and what it goes on with.                *)
LEMMA UploadHeaderResult ==
  ASSUME Typed, Context, NEW c \in Conn, taken[c] <= arrived[c],
         Good(c, client[c], taken[c]), client[c].state = "RECV_HEADER",
         IntentInv, req[c].verb = "PUT", resp[c] = <<>>, sock[c] = "open",
         UNCHANGED peerVars, read_header(c)
  PROVE  Proper(c)
<1> DEFINE k == HeaderUnits(c)
           cl == [client[c] EXCEPT !.header_len = @ + k]
           named == [cl EXCEPT !.request_verb = req[c].verb,
                               !.filename = req[c].name]
           next == [named EXCEPT !.bytes_transferred = 0,
                                 !.state = "RECV_PUT_SIZE"]
           bad == [cl EXCEPT !.request_verb = req[c].verb]
<1>1. /\ client[c] \in ClientType /\ client[c].header_len \in 0..HeaderLen
      /\ HeaderLen \in Nat /\ arrived[c] \in Nat
      /\ taken[c] = client[c].header_len
      /\ client[c].request_verb # "PUT" /\ client[c].filename = NoName
      /\ req[c].name \in Name \cup {NoName}
  BY ConstantsAssumption
     DEF Good, PositionOK, ClientType, Context, Typed, Request, IntentInv,
         Intends
<1>2. k \in Nat /\ client[c].header_len + k \in 0..HeaderLen
  <2>1. /\ HeaderLen - client[c].header_len \in Nat
        /\ arrived[c] - taken[c] \in Nat
    BY <1>1
  <2>2. k \in Nat /\ k <= HeaderLen - client[c].header_len
    BY <2>1 DEF HeaderUnits, Least
  <2> HIDE DEF k
  <2> QED
    BY <1>1, <2>2
<1> HIDE DEF k
<1>3. /\ cl \in ClientType /\ cl.state = "RECV_HEADER"
      /\ cl.request_verb # "PUT" /\ cl.filename = NoName
  BY <1>1, <1>2 DEF ClientType
<1> HIDE DEF cl
<1>4. /\ bad \in ClientType /\ bad.request_verb = "PUT"
      /\ bad.filename = NoName
  BY <1>3 DEF ClientType, Verb
<1>5. /\ next.state = "RECV_PUT_SIZE" /\ next.request_verb = "PUT"
      /\ next.filename = req[c].name
  BY <1>1, <1>3 DEF ClientType, Verb
<1>6. Intends(c, cl) /\ Named(c, cl) /\ Named(c, bad) /\ Intends(c, next)
  <2> HIDE DEF bad, next
  <2> QED
    BY <1>3, <1>4, <1>5 DEF Intends, Named
<1> HIDE DEF bad, next
<1>7. ~FillsFile(c)
  BY DEF FillsFile
<1>8. CASE parse_header_and_transition(c, cl)
  <2>1. data' = data
    BY <1>8 DEF parse_header_and_transition
  <2>2. CASE /\ UNCHANGED server_files /\ req[c].name = NoName
             /\ send_error(c, bad, "Bad request", dir)
    BY <1>4, <1>6, <1>7, <2>1, <2>2, ErrorSpares DEF Message, Refusal
  <2>3. CASE UNCHANGED server_files /\ NoWrite /\ Watch(c, next, dir, "READ")
    BY <1>5, <1>6, <1>7, <2>1, <2>3, WaitSpares
  <2> QED
    BY <1>8, <2>2, <2>3 DEF parse_header_and_transition, bad, next, Verb
<1>10. CASE UNCHANGED <<data, server_files>> /\ NoWrite /\ Keep(c, cl, dir)
  BY <1>3, <1>6, <1>7, <1>10, WaitSpares
<1>11. CASE /\ UNCHANGED <<data, server_files>> /\ NoWrite
            /\ close_and_cleanup(c, cl, dir)
  <2>1. /\ dir' = dir /\ resp'[c] = <<>> /\ client'[c] = client_create
        /\ sock'[c] = "closed"
    BY <1>3, <1>11
    DEF close_and_cleanup, RemovesUpload, NoWrite, writeVars, Typed
  <2>2. Intends(c, client_create) /\ <<>> # OkLine
    BY DEF Intends, client_create, OkLine
  <2>3. Silent(c)'
    BY <2>1 DEF Silent, client_create, Receiving
  <2> QED
    BY <1>7, <1>11, <2>1, <2>2, <2>3
    DEF Proper, Result, Elsewhere, FillsFile, Spares, Confirming
<1> QED
  BY <1>8, <1>10, <1>11 DEF read_header, cl, k

(* An upload's connection ends with the last unit of its OK.               *)
LEMMA OpenUnconfirmed ==
  ASSUME NEW c \in Conn, client[c] \in ClientType, Base(client[c]),
         Telling(c, client[c], resp[c]),
         Intends(c, client[c]), req[c].verb = "PUT"
  PROVE  resp[c] # OkLine
<1> DEFINE cl == client[c]
<1>1. /\ OkLine # <<>> /\ OkLine \in Seq(RespUnit) /\ Len(OkLine) = 2
      /\ OkLine[1] = <<"OK", 1>>
  BY TwoLines DEF OkLine
<1>2. cl.simple_response_sent \in Nat /\ cl.state \in Receiving \cup Sending
      /\ cl.simple_response_sent <= Len(cl.simple_response_buf)
  BY DEF ClientType, Base
<1>3. CASE cl.state \in Receiving
  BY <1>1, <1>3 DEF Telling
<1>4. CASE cl.state = "SEND_OK"
  <2>1. /\ cl.simple_response_sent < 2
        /\ resp[c] = SubSeq(OkLine, 1, cl.simple_response_sent)
    BY <1>1, <1>4 DEF Telling, SentOf, Intends
  <2> HIDE DEF cl
  <2>2. Len(resp[c]) = cl.simple_response_sent
    BY <1>1, <1>2, <2>1, SubSeqProperties
  <2>3. cl.simple_response_sent # 2
    BY <1>2, <2>1
  <2> QED
    BY <1>1, <2>2, <2>3
<1>5. CASE cl.state = "SEND_ERROR"
  <2>1. PICK m \in Message : SentOf(cl, ErrorLines(m), resp[c])
    BY <1>5 DEF Telling
  <2>2. /\ resp[c] = SubSeq(ErrorLines(m), 1, cl.simple_response_sent)
        /\ cl.simple_response_sent <= Len(ErrorLines(m))
    BY <1>2, <2>1 DEF SentOf
  <2> HIDE DEF cl
  <2>3. resp[c] # <<>> => resp[c][1][1] # "OK"
    BY <1>2, <2>2, ErrorNotOk
  <2> QED
    BY <1>1, <2>3
<1> QED
  BY <1>2, <1>3, <1>4, <1>5 DEF Telling, Sending

(* A writable event of an upload, whose response is resumed.               *)
LEMMA UploadWriteResult ==
  ASSUME Typed, NEW c \in Conn, Good(c, client[c], taken[c]),
         Telling(c, client[c], resp[c]), Intends(c, client[c]),
         req[c].verb = "PUT", sock[c] = "open", handle_write_event(c)
  PROVE  Proper(c)
<1> DEFINE cl == client[c]
<1>1. UNCHANGED <<data, server_files>>
  BY DEF handle_write_event
<1>2. /\ cl \in ClientType
      /\ cl.simple_response_sent <= Len(cl.simple_response_buf)
      /\ Named(c, cl)
  BY DEF Good, Base, Intends, Named
<1>3. /\ cl.state \in {"SEND_OK", "SEND_ERROR"}
      /\ execute_simple_response_write(c, cl, dir)
  BY DEF handle_write_event, Telling
<1>4. ~FillsFile(c) /\ client[c].state \in Sending
  BY <1>3 DEF FillsFile, Sending
<1>5. DirLeft(c, cl, dir)
  BY <1>2, <1>3, ResponseFiles
<1>6. Elsewhere(c)
  BY <1>1, <1>2, <1>5, DirElsewhere DEF Elsewhere
<1>7. CASE cl.state = "SEND_OK"
  <2>1. /\ cl.request_verb = "PUT" /\ cl.simple_response_buf = OkLine
        /\ resp[c] = SubSeq(OkLine, 1, cl.simple_response_sent)
        /\ cl.simple_response_sent < Len(OkLine)
    BY <1>7 DEF Good, PositionOK, Telling, SentOf, Intends
  <2>2. Confirming(c)
    BY <1>7 DEF Confirming
  <2> HIDE DEF cl
  <2>3. OkResult(c, dir)
    BY <1>2, <1>3, <1>7, <2>1, OkWrittenFiles
  <2>4. Intends(c, client'[c])
    BY <1>2, <1>3, <1>7, <2>1, ResponseIntent
  <2>5. CASE dir' = dir
    BY <1>1, <1>4, <1>6, <2>2, <2>3, <2>4, <2>5
    DEF Proper, Result, Spares, OkResult
  <2>6. CASE c \in rst' /\ ~Confirming(c)'
    BY <1>6, <2>3, <2>4, <2>6 DEF Proper, Result, Trouble, Quits, OkResult
  <2> QED
    BY <2>3, <2>5, <2>6 DEF OkResult
<1>8. CASE cl.state = "SEND_ERROR"
  <2>1. PICK m \in Message : SentOf(cl, ErrorLines(m), resp[c])
    BY <1>8 DEF Telling
  <2> HIDE DEF cl
  <2>2. Quits(c)
    BY <1>2, <1>3, <1>8, <2>1, ErrorWriteFails, FailedQuits DEF SentOf
  <2>3. Intends(c, client'[c])
    BY <1>2, <1>3, <1>8, ResponseIntent
  <2> QED
    BY <1>1, <1>4, <1>5, <1>6, <2>2, <2>3
    DEF Proper, Result, Spares, Trouble, Quits, DirLeft, Removes
<1> QED
  BY <1>3, <1>7, <1>8

(* Every handler of an upload.                                             *)
LEMMA OwnUpload ==
  ASSUME IInv, Typed, AnswerInv, IntentInv, NEW c \in Conn, Dispatch(c),
         req[c].verb = "PUT"
  PROVE  /\ Intends(c, client'[c]) /\ Elsewhere(c)
         /\ (FillsFile(c) => Storing(c)) => Result(c)
<1> DEFINE cl == client[c]
<1>1. /\ sock[c] = "open" /\ Made(c) /\ Good(c, cl, taken[c])
      /\ taken[c] <= arrived[c] /\ Context /\ DirOK(dir) /\ DataOK(data)
      /\ UNCHANGED peerVars
  BY DispatchHandled
<1>2. /\ cl \in ClientType /\ Base(cl) /\ Telling(c, cl, resp[c])
      /\ Intends(c, cl)
      /\ "ERROR" \in batch[c] => c \in rst
  BY <1>1 DEF AnswerInv, AnswerOK, Good, Base, IntentInv
<1>3. rst \subseteq rst'
  BY ReadOwn, WriteOwn, WritesOwn
  DEF Dispatch, HandleError, HandleRead, HandleWrite, Own
<1>4. CASE HandleError(c)
  <2>1. /\ resp' = resp /\ sock'[c] = "closed" /\ c \in rst'
        /\ client'[c] = client_create /\ UNCHANGED <<data, server_files>>
        /\ DirLeft(c, cl, dir)
    BY <1>2, <1>4
    DEF HandleError, NoWrite, writeVars, close_and_cleanup, RemovesUpload,
        Typed, DirLeft, Removes
  <2>2. resp'[c] # OkLine
    BY <1>2, <2>1, OpenUnconfirmed
  <2>3. Intends(c, client_create)
    BY DEF Intends, client_create
  <2>4. Named(c, cl)
    BY <1>2 DEF Intends, Named
  <2>5. Elsewhere(c)
    BY <2>1, <2>4, DirElsewhere DEF Elsewhere
  <2> QED
    BY <2>1, <2>2, <2>3, <2>5
    DEF Result, Trouble, Quits, FillsFile, Confirming
<1>5. CASE HandleWrite(c)
  BY <1>1, <1>2, <1>5, UploadWriteResult DEF HandleWrite, Proper
<1>6. CASE HandleRead(c) /\ NothingToDo(c) /\ cl.state \in Sending
  <2>1. /\ client'[c] = cl /\ resp' = resp /\ sock' = sock /\ dir' = dir
        /\ UNCHANGED <<data, server_files>>
    BY <1>6 DEF NothingToDo, NoWrite, writeVars, Keep, Typed
  <2> QED
    BY <1>2, <1>6, <2>1
    DEF Result, Elsewhere, Spares, FillsFile, Confirming, Sending
<1>7. CASE HandleRead(c) /\ cl.state \in Receiving
  <2>1. resp[c] = <<>> /\ handle_read_event(c)
    BY <1>2, <1>7 DEF Telling, HandleRead
  <2>2. CASE cl.state = "RECV_HEADER" /\ read_header(c)
    BY <1>1, <2>1, <2>2, UploadHeaderResult DEF Proper
  <2>3. CASE cl.state = "RECV_PUT_SIZE" /\ recv_put_size(c)
    BY <1>1, <1>3, <2>1, <2>3, PutSizeResult DEF Proper
  <2>4. CASE /\ cl.state = "RECV_PUT_DATA"
             /\ recv_put_data(c, cl, dir, data, taken[c])
    <3>1. /\ Upload(c, cl) /\ cl.expected_size = req[c].size
          /\ cl.bytes_transferred <= cl.expected_size
          /\ taken[c] = HeaderLen + SizeLen + cl.bytes_transferred
          /\ taken[c] \in Nat
      BY <1>1, <2>4 DEF Good, PositionOK, Typed
    <3>2. FileOpen(c, cl, dir, data)
      <4>1. /\ cl.file_fd \in Conn /\ req[cl.file_fd].name = req[c].name
            /\ dir \in [Name -> Inodes] /\ data \in [Conn -> Seq(Unit)]
        BY <1>1, <1>2, <2>4
        DEF Good, FileOK, HoldsFile, ClientType, DirOK, DataOK
      <4> QED
        BY <4>1 DEF FileOpen
    <3>3. (FillsFile(c) => Storing(c)) => Filled(c, cl, dir, data)
      BY <1>1, <2>4 DEF FillsFile, Storing, Filled
    <3> HIDE DEF cl
    <3> QED
      BY <1>1, <1>2, <1>3, <2>1, <2>4, <3>1, <3>2, <3>3, PutDataResult
  <2> QED
    BY <1>7, <2>1, <2>2, <2>3, <2>4 DEF handle_read_event, Receiving, Sending
<1>8. cl.state \in Receiving \cup Sending
  BY <1>2 DEF ClientType
<1> QED
  BY <1>4, <1>5, <1>6, <1>7, <1>8
  DEF Dispatch, HandleRead, handle_read_event, Receiving, Sending

-----------------------------------------------------------------------------
(***************************************************************************)
(* What a handler of another request makes of the files.                   *)
(***************************************************************************)
Removal(c) ==
  /\ req[c].verb = "DELETE" /\ req[c].name \in Listed(server_files)
  /\ server_files' = remove_file_from_list(server_files, req[c].name)
  /\ dir' = unlink(dir, req[c].name)

Stores(c) ==
  /\ data' = data /\ Intends(c, client'[c])
  /\ (dir' = dir /\ server_files' = server_files) \/ Removal(c)

(* A response to another request removes nothing.                          *)
LEMMA OtherSent ==
  ASSUME Typed, NEW c \in Conn, NEW cl \in ClientType,
         cl.request_verb # "PUT", NEW d, NEW m \in Message,
         \/ send_ok(c, cl, d) /\ cl.request_verb = req[c].verb
         \/ send_error(c, cl, m, d)
  PROVE  dir' = d /\ Intends(c, client'[c])
<1>1. Named(c, cl)
  BY DEF Named
<1> QED
  BY <1>1, SentFiles, SentIntent DEF DirLeft, Removes

(* The end of another request's connection removes nothing.                *)
LEMMA OtherEnd ==
  ASSUME Typed, NEW c \in Conn, NEW cl, cl.request_verb # "PUT",
         \/ close_and_cleanup(c, cl, dir)
         \/ /\ cl.state \notin {"RECV_HEADER", "SEND_OK"}
            /\ Keep(c, cl, dir) \/ Watch(c, cl, dir, "WRITE")
  PROVE  dir' = dir /\ Intends(c, client'[c])
<1>1. CASE close_and_cleanup(c, cl, dir)
  BY <1>1 DEF close_and_cleanup, RemovesUpload, Typed, Intends, client_create
<1>2. CASE /\ cl.state \notin {"RECV_HEADER", "SEND_OK"}
           /\ Keep(c, cl, dir) \/ Watch(c, cl, dir, "WRITE")
  BY <1>2 DEF Keep, Watch, Typed, Intends
<1> QED
  BY <1>1, <1>2

(* A command line: only DELETE removes a file, and its name with it.       *)
LEMMA ParseStores ==
  ASSUME Typed, NEW c \in Conn, req[c] \in Request, DirOK(dir), DataOK(data),
         req[c].verb # "PUT", NEW cl \in ClientType,
         cl.state = "RECV_HEADER", cl.request_verb # "PUT", Intends(c, cl),
         parse_header_and_transition(c, cl)
  PROVE  Stores(c)
<1> DEFINE r == req[c]
           bad == [cl EXCEPT !.request_verb = r.verb]
           named == [cl EXCEPT !.request_verb = r.verb, !.filename = r.name]
           list == [cl EXCEPT !.request_verb = "LIST"]
           get == [named EXCEPT !.file_fd = dir[named.filename],
                                !.file_size = Len(data[dir[named.filename]]),
                                !.bytes_transferred = 0]
<1>1. data' = data
  BY DEF parse_header_and_transition
<1>2. {"Bad request", "No such file"} \subseteq Message
  BY DEF Message
<1>3. r.name \in Name \cup {NoName} /\ r.verb # "PUT"
  BY DEF Request
<1>4. r.verb \in Verb => bad \in ClientType /\ bad.request_verb = r.verb
  BY DEF ClientType
<1>5. list \in ClientType /\ list.request_verb = "LIST"
  BY DEF ClientType, Verb
<1>6. r.verb \in Verb =>
        /\ named \in ClientType /\ named.request_verb = r.verb
        /\ named.filename = r.name
  BY <1>3 DEF ClientType
<1>7. r.verb \in Verb /\ r.name # NoName /\ dir[r.name] # NoInode =>
        get \in ClientType /\ get.request_verb = r.verb
  <2> SUFFICES ASSUME r.verb \in Verb, r.name # NoName, dir[r.name] # NoInode
               PROVE  get \in ClientType /\ get.request_verb = r.verb
    OBVIOUS
  <2>1. r.name \in Name /\ dir[r.name] \in Conn
    BY <1>3 DEF DirOK, Inodes
  <2>2. Len(data[dir[r.name]]) \in Nat
    BY <2>1 DEF DataOK
  <2>3. named \in ClientType /\ named.filename = r.name
        /\ named.request_verb = r.verb
    BY <1>6
  <2> HIDE DEF named
  <2> QED
    BY <2>1, <2>2, <2>3 DEF ClientType
<1> HIDE DEF bad, named, list, get
<1>8. CASE Keep(c, cl, dir) /\ UNCHANGED server_files
  BY <1>1, <1>8 DEF Keep, Typed, Stores
<1>9. CASE /\ UNCHANGED server_files
           /\ \/ r.verb \in Verb /\ send_error(c, bad, "Bad request", dir)
              \/ r.verb \notin Verb /\ send_error(c, cl, "Bad request", dir)
  BY <1>1, <1>2, <1>3, <1>4, <1>9, OtherSent DEF Stores
<1>10. CASE UNCHANGED server_files /\ send_ok(c, list, dir) /\ r.verb = "LIST"
  BY <1>1, <1>2, <1>5, <1>10, OtherSent DEF Stores
<1>11. CASE /\ r.verb \in Verb /\ UNCHANGED server_files
            /\ send_error(c, named, "No such file", dir)
  BY <1>1, <1>2, <1>3, <1>6, <1>11, OtherSent DEF Stores
<1>12. CASE /\ r.verb \in Verb /\ UNCHANGED server_files /\ r.name # NoName
            /\ dir[r.name] # NoInode /\ send_ok(c, get, dir)
  BY <1>1, <1>2, <1>3, <1>7, <1>12, OtherSent DEF Stores
<1>13. CASE /\ r.verb = "DELETE" /\ r.name \in Listed(server_files)
            /\ server_files' = remove_file_from_list(server_files, r.name)
            /\ send_ok(c, named, unlink(dir, r.name))
  BY <1>1, <1>2, <1>3, <1>6, <1>13, OtherSent DEF Stores, Removal, Verb
<1>14. r.verb \in Verb => named.filename = r.name
  BY <1>6
<1>15. CASE r.verb = "DELETE" /\ delete_request(c, named)
  BY <1>11, <1>13, <1>14, <1>15 DEF delete_request, Verb
<1>16. CASE /\ r.verb = "GET" /\ r.name # NoName /\ UNCHANGED server_files
            /\ start_send_get(c, named)
  BY <1>11, <1>12, <1>14, <1>16 DEF start_send_get, Verb, get
<1> QED
  BY <1>8, <1>9, <1>10, <1>15, <1>16
  DEF parse_header_and_transition, Verb, bad, named, list

(* A readable event that ends in one, or does not yet.                     *)
LEMMA HeaderStores ==
  ASSUME Typed, Context, NEW c \in Conn, taken[c] <= arrived[c],
         Good(c, client[c], taken[c]), client[c].state = "RECV_HEADER",
         IntentInv, DirOK(dir), DataOK(data), req[c].verb # "PUT",
         read_header(c)
  PROVE  Stores(c)
<1> DEFINE k == HeaderUnits(c)
           cl == [client[c] EXCEPT !.header_len = @ + k]
<1>1. /\ client[c] \in ClientType /\ client[c].header_len \in 0..HeaderLen
      /\ HeaderLen \in Nat /\ arrived[c] \in Nat
      /\ taken[c] = client[c].header_len
      /\ client[c].request_verb # "PUT" /\ client[c].filename = NoName
      /\ req[c] \in Request
  BY ConstantsAssumption
     DEF Typed, Good, PositionOK, ClientType, Context, IntentInv, Intends
<1>2. k \in Nat /\ client[c].header_len + k \in 0..HeaderLen
  <2>1. /\ HeaderLen - client[c].header_len \in Nat
        /\ arrived[c] - taken[c] \in Nat
    BY <1>1
  <2>2. k \in Nat /\ k <= HeaderLen - client[c].header_len
    BY <2>1 DEF HeaderUnits, Least
  <2> HIDE DEF k
  <2> QED
    BY <1>1, <2>2
<1> HIDE DEF k
<1>3. /\ cl \in ClientType /\ cl.state = "RECV_HEADER"
      /\ cl.request_verb # "PUT" /\ cl.filename = NoName
  BY <1>1, <1>2 DEF ClientType
<1> HIDE DEF cl
<1>4. Intends(c, cl)
  BY <1>3 DEF Intends
<1>5. CASE parse_header_and_transition(c, cl)
  BY <1>1, <1>3, <1>4, <1>5, ParseStores
<1>6. CASE /\ UNCHANGED <<data, server_files>>
           /\ send_error(c, cl, "Bad request", dir)
  BY <1>3, <1>6, OtherSent DEF Message, Stores
<1>7. CASE UNCHANGED <<data, server_files>> /\ close_and_cleanup(c, cl, dir)
  BY <1>3, <1>7, OtherEnd DEF Stores
<1>8. CASE UNCHANGED <<data, server_files>> /\ Keep(c, cl, dir)
  BY <1>4, <1>8 DEF Keep, Typed, Stores
<1> QED
  BY <1>5, <1>6, <1>7, <1>8 DEF read_header, cl, k

(* A writable event of another request.                                    *)
LEMMA WriteStores ==
  ASSUME Typed, NEW c \in Conn, Good(c, client[c], taken[c]),
         Telling(c, client[c], resp[c]), Intends(c, client[c]),
         req[c].verb # "PUT", handle_write_event(c)
  PROVE  Stores(c)
<1> DEFINE cl == client[c]
<1>1. UNCHANGED <<data, server_files>>
  BY DEF handle_write_event
<1>2. cl \in ClientType /\ cl.request_verb # "PUT" /\ Named(c, cl)
  BY DEF Good, Base, Intends, Named
<1>3. ASSUME NEW x, x.request_verb # "PUT",
             \/ close_and_cleanup(c, x, dir)
             \/ /\ x.state \notin {"RECV_HEADER", "SEND_OK"}
                /\ Keep(c, x, dir) \/ Watch(c, x, dir, "WRITE")
      PROVE  Stores(c)
  BY <1>1, <1>3, OtherEnd DEF Stores
<1>4. CASE /\ cl.state \in {"SEND_OK", "SEND_ERROR"}
           /\ execute_simple_response_write(c, cl, dir)
  <2>1. cl.state = "SEND_OK" =>
          /\ cl.request_verb = req[c].verb /\ cl.simple_response_buf = OkLine
          /\ cl.simple_response_sent < Len(OkLine)
    BY DEF Good, PositionOK, Telling, SentOf, Intends
  <2> HIDE DEF cl
  <2>2. Intends(c, client'[c])
    BY <1>2, <1>4, <2>1, ResponseIntent
  <2>3. dir' = dir
    BY <1>2, <1>4, ResponseFiles DEF DirLeft, Removes
  <2> QED
    BY <1>1, <2>2, <2>3 DEF Stores
<1>5. CASE cl.state = "SEND_LIST_DATA" /\ send_list_data(c)
  <2> DEFINE cl1(n) == [cl EXCEPT !.list_sent = @ + n]
             done(n) == [cl1(n) EXCEPT !.state = "DONE"]
  <2>1. ASSUME NEW n
        PROVE  /\ cl1(n).request_verb # "PUT"
               /\ cl1(n).state = "SEND_LIST_DATA"
               /\ done(n).request_verb # "PUT"
    BY <1>2, <1>5 DEF ClientType
  <2>2. \/ close_and_cleanup(c, cl, dir)
        \/ \E n : Keep(c, cl1(n), dir) \/ close_and_cleanup(c, done(n), dir)
    BY <1>5 DEF send_list_data
  <2> HIDE DEF cl, cl1, done
  <2> QED
    BY <1>2, <1>3, <2>1, <2>2
<1>6. CASE cl.state = "SEND_GET_SIZE" /\ send_get_size(c)
  <2> DEFINE cl0 == IF cl.simple_response_buf = <<>>
                      THEN [cl EXCEPT
                              !.simple_response_buf = SizeField(cl.file_size),
                              !.simple_response_sent = 0]
                      ELSE cl
             some(n) == [cl0 EXCEPT !.simple_response_sent =
                                      cl0.simple_response_sent + n]
             all == [cl0 EXCEPT !.simple_response_buf = <<>>,
                                !.simple_response_sent = 0,
                                !.state = "SEND_GET_DATA"]
  <2>1. /\ cl0.request_verb # "PUT" /\ all.request_verb # "PUT"
        /\ all.state = "SEND_GET_DATA"
        /\ \A n : /\ some(n).request_verb # "PUT"
                  /\ some(n).state = "SEND_GET_SIZE"
    BY <1>2, <1>6 DEF ClientType
  <2>2. \/ close_and_cleanup(c, cl0, dir)
        \/ \E n : Keep(c, some(n), dir) \/ Watch(c, all, dir, "WRITE")
    BY <1>6 DEF send_get_size
  <2> HIDE DEF cl, cl0, some, all
  <2> QED
    BY <1>3, <2>1, <2>2
<1>7. CASE cl.state = "SEND_GET_DATA" /\ send_get_data(c)
  <2> DEFINE some(x) == [cl EXCEPT !.bytes_transferred = x]
             done == [cl EXCEPT !.state = "DONE"]
  <2>1. /\ done.request_verb # "PUT"
        /\ \A x : /\ some(x).request_verb # "PUT"
                  /\ some(x).state = "SEND_GET_DATA"
    BY <1>2, <1>7 DEF ClientType
  <2>2. \/ close_and_cleanup(c, cl, dir) \/ close_and_cleanup(c, done, dir)
        \/ \E x : Keep(c, some(x), dir)
    BY <1>7 DEF send_get_data
  <2> HIDE DEF cl, some, done
  <2> QED
    BY <1>2, <1>3, <2>1, <2>2
<1> QED
  BY <1>4, <1>5, <1>6, <1>7 DEF handle_write_event

(* Every handler of another request.                                       *)
LEMMA OwnOther ==
  ASSUME IInv, Typed, AnswerInv, IntentInv, NEW c \in Conn, Dispatch(c),
         req[c].verb # "PUT"
  PROVE  Stores(c)
<1> DEFINE cl == client[c]
<1>1. /\ sock[c] = "open" /\ Made(c) /\ Good(c, cl, taken[c])
      /\ taken[c] <= arrived[c] /\ Context /\ DirOK(dir) /\ DataOK(data)
  BY DispatchHandled
<1>2. /\ Telling(c, cl, resp[c]) /\ Intends(c, cl) /\ cl.request_verb # "PUT"
      /\ cl.state \notin {"RECV_PUT_SIZE", "RECV_PUT_DATA"}
  BY <1>1 DEF AnswerInv, AnswerOK, IntentInv, Intends, Good, PositionOK, Upload
<1>3. CASE HandleError(c)
  BY <1>2, <1>3, OtherEnd DEF HandleError, Stores
<1>4. CASE HandleWrite(c)
  BY <1>1, <1>2, <1>4, WriteStores DEF HandleWrite
<1>5. CASE HandleRead(c) /\ read_header(c) /\ cl.state = "RECV_HEADER"
  BY <1>1, <1>5, HeaderStores
<1>6. CASE HandleRead(c) /\ NothingToDo(c)
  BY <1>2, <1>6 DEF NothingToDo, Keep, Typed, Stores
<1> QED
  BY <1>2, <1>3, <1>4, <1>5, <1>6 DEF Dispatch, HandleRead, handle_read_event

-----------------------------------------------------------------------------
(***************************************************************************)
(* An upload whose name no other request stores or removes.                *)
(***************************************************************************)
(* A handler does nothing to the files of other names.                     *)
LEMMA HandlerElsewhere ==
  ASSUME IInv, Typed, AnswerInv, IntentInv, NoDuplicateNames,
         NEW c \in Conn, Dispatch(c)
  PROVE  Elsewhere(c)
<1>1. server_files \in Seq(Name) /\ Distinct(server_files)
  BY DEF IInv, TypeOK, NoDuplicateNames, Distinct
<1>2. CASE req[c].verb = "PUT"
  BY <1>2, OwnUpload
<1>3. CASE req[c].verb # "PUT"
  <2>1. Stores(c)
    BY <1>3, OwnOther
  <2>2. CASE dir' = dir /\ server_files' = server_files
    BY <2>1, <2>2 DEF Stores, Elsewhere
  <2>3. CASE Removal(c)
    <3>1. Listed(server_files') = Listed(server_files) \ {req[c].name}
      BY <1>1, <2>3, RemovedName DEF Removal
    <3>2. \A n \in Name : n # req[c].name => dir'[n] = dir[n]
      BY <2>3 DEF Removal, unlink
    <3> QED
      BY <2>1, <3>1, <3>2 DEF Stores, Elsewhere
  <2> QED
    BY <2>1, <2>2, <2>3 DEF Stores
<1> QED
  BY <1>2, <1>3

(* The file of a name, and the file an upload of it has open, were made by *)
(* requests of that name.                                                  *)
LEMMA FilesOfName ==
  ASSUME IInv, NEW x \in Conn
  PROVE  /\ req[x].name \in Name /\ dir[req[x].name] # NoInode =>
              /\ dir[req[x].name] \in Conn /\ Made(dir[req[x].name])
              /\ req[dir[req[x].name]].name = req[x].name
         /\ FillsFile(x) =>
              /\ client[x].file_fd \in Conn /\ Made(client[x].file_fd)
              /\ req[client[x].file_fd].name = req[x].name
              /\ req[x].name \in Name /\ Made(x) /\ req[x].verb = "PUT"
<1>1. DirOK(dir) /\ client[x] \in ClientType
  BY DEF IInv, TypeOK
<1>2. CASE FillsFile(x)
  <2>1. Good(x, client[x], taken[x]) /\ Made(x)
    BY <1>2 DEF FillsFile, IInv, ClientInv, ClientOK, Made
  <2> QED
    BY <1>1, <1>2, <2>1
    DEF FillsFile, Good, FileOK, HoldsFile, PositionOK, Upload, ClientType,
        DirOK, Inodes
<1> QED
  BY <1>1, <1>2 DEF DirOK, Inodes

UploadsNamed ==
  \A x \in Conn : FillsFile(x) => req[x].name \in Name /\ req[x].verb = "PUT"

LEMMA FilesNamed == IInv => UploadsNamed
BY FilesOfName DEF UploadsNamed

(* What another handler does not touch.                                    *)
LEMMA OthersKeep ==
  ASSUME IInv, req' = req, NEW x \in Conn,
         client'[x] = client[x], sock'[x] = sock[x], resp'[x] = resp[x],
         req[x].name \in Name =>
           /\ dir'[req[x].name] = dir[req[x].name]
           /\ req[x].name \in Listed(server_files)
                => req[x].name \in Listed(server_files'),
         \A i \in Conn : Made(i) /\ req[i].name = req[x].name
           => data'[i] = data[i]
  PROVE  /\ FillsFile(x)' <=> FillsFile(x)
         /\ Confirming(x)' <=> Confirming(x)
         /\ Storing(x) => Storing(x)'
         /\ Kept(x) => Kept(x)'
<1>1. FillsFile(x)' <=> FillsFile(x)
  BY DEF FillsFile
<1>2. Confirming(x)' <=> Confirming(x)
  BY DEF Confirming
<1>3. ASSUME Storing(x) PROVE Storing(x)'
  <2>1. FillsFile(x)
    BY <1>3 DEF Storing
  <2>2. /\ data'[client[x].file_fd] = data[client[x].file_fd]
        /\ dir'[req[x].name] = dir[req[x].name]
    BY <2>1, FilesOfName
  <2> QED
    BY <1>1, <1>3, <2>1, <2>2 DEF Storing
<1>4. ASSUME Kept(x) PROVE Kept(x)'
  <2>1. req[x].name \in Name
    BY <1>4 DEF Kept, Listed, IInv, TypeOK
  <2>2. /\ data'[dir[req[x].name]] = data[dir[req[x].name]]
        /\ dir'[req[x].name] = dir[req[x].name]
    BY <1>4, <2>1, FilesOfName DEF Kept
  <2> QED
    BY <1>4, <2>1, <2>2 DEF Kept
<1> QED
  BY <1>1, <1>2, <1>3, <1>4

(* The invariant, after a handler of any connection.                       *)
LEMMA DispatchAlone ==
  ASSUME IInv, Typed, AnswerInv, AloneInv, NoDuplicateNames,
         NEW c \in Conn, Dispatch(c)
  PROVE  AloneInv'
<1>1. req' = req /\ sock[c] = "open"
  BY DispatchHandled DEF peerVars
<1>2. IntentInv /\ RequestMade /\ \A x \in Conn : AloneOK(x)
  BY DEF AloneInv
<1>3. Elsewhere(c)
  BY <1>2, HandlerElsewhere
<1>4. ASSUME NEW x \in Conn, x # c
      PROVE  /\ client'[x] = client[x] /\ sock'[x] = sock[x]
             /\ resp'[x] = resp[x]
  BY <1>4, OthersFrame
<1>5. IntentInv'
  <2>1. Intends(c, client'[c])
    BY <1>2, OwnUpload, OwnOther DEF Stores
  <2>2. \A x \in Conn : Intends(x, client'[x])
    BY <1>2, <1>4, <2>1 DEF IntentInv
  <2> QED
    BY <1>1, <2>2 DEF IntentInv, Intends
<1>6. RequestMade'
  <2>1. PICK u : Leaves(c, u)
    BY DispatchHandled DEF Handled, Outcome
  <2>2. Made(c)'
    BY <1>1, <2>1 DEF Leaves, StaysOpenWith, IsClosed, Typed, Made
  <2> QED
    BY <1>1, <1>2, <1>4, <2>2 DEF RequestMade, Made
<1>7. ASSUME NEW x \in Conn, req[x].verb = "PUT", Alone(x), x = c
      PROVE  AloneOK(x)'
  <2>1. FillsFile(c) => Storing(c)
    BY <1>2, <1>7 DEF AloneOK
  <2>2. Result(c)
    BY <1>2, <1>7, <2>1, OwnUpload
  <2>3. CASE /\ ~FillsFile(c) /\ ~FillsFile(c)'
             /\ req[c].name \in Name => Spares(req[c].name)
             /\ Confirming(c)' => Confirming(c)
    <3>1. ASSUME Kept(c) PROVE Kept(c)'
      <4>1. req[c].name \in Name
        BY <3>1 DEF Kept, Listed, IInv, TypeOK
      <4> QED
        BY <1>1, <2>3, <3>1, <4>1 DEF Spares, Kept
    <3> QED
      BY <1>2, <1>7, <2>3, <3>1 DEF AloneOK
  <2>4. CASE Storing(c)' /\ ~Confirming(c)'
    BY <1>7, <2>4 DEF AloneOK
  <2>5. CASE Kept(c)' /\ ~FillsFile(c)'
    BY <1>7, <2>5 DEF AloneOK
  <2>6. CASE Quits(c)
    BY <1>7, <2>6 DEF AloneOK, Quits
  <2> QED
    BY <2>2, <2>3, <2>4, <2>5, <2>6 DEF Result
<1>8. ASSUME NEW x \in Conn, req[x].verb = "PUT", Alone(x), x # c
      PROVE  AloneOK(x)'
  <2>1. /\ req[x].name \in Name =>
             /\ dir'[req[x].name] = dir[req[x].name]
             /\ req[x].name \in Listed(server_files)
                  => req[x].name \in Listed(server_files')
        /\ \A i \in Conn : Made(i) /\ req[i].name = req[x].name
             => data'[i] = data[i]
    <3>1. CASE req[c].name # req[x].name
      BY <1>3, <3>1 DEF Elsewhere
    <3>2. CASE req[c].name = req[x].name
      <4>1. req[c].verb \notin {"PUT", "DELETE"}
        BY <1>8, <3>2 DEF Alone
      <4>2. dir' = dir /\ server_files' = server_files /\ data' = data
        BY <1>2, <4>1, OwnOther DEF Stores, Removal
      <4> QED
        BY <4>2
    <3> QED
      BY <3>1, <3>2
  <2>2. /\ FillsFile(x)' <=> FillsFile(x)
        /\ Confirming(x)' <=> Confirming(x)
        /\ Storing(x) => Storing(x)'
        /\ Kept(x) => Kept(x)'
    BY <1>1, <1>4, <1>8, <2>1, OthersKeep
  <2> QED
    BY <1>2, <1>8, <2>2 DEF AloneOK
<1>9. \A x \in Conn : AloneOK(x)'
  <2>1. \A x \in Conn : Alone(x)' <=> Alone(x)
    BY <1>1 DEF Alone
  <2> QED
    BY <1>1, <1>7, <1>8, <2>1 DEF AloneOK
<1> QED
  BY <1>5, <1>6, <1>9 DEF AloneInv

(* A step that runs no handler leaves the files alone.                     *)
LEMMA QuietFiles ==
  ASSUME TypeOK, [Next]_vars, ~(\E c \in Conn : Dispatch(c))
  PROVE  dir' = dir /\ data' = data
BY DEF Next, event_loop_wait, accept_connections, Peer, Connect, Arrive, Close,
       Reset, Drain, Idle, vars, diskVars

(* A request is chosen when its connection is made.                        *)
LEMMA QuietRequests ==
  ASSUME TypeOK, RequestMade, [Next]_vars, ~(\E c \in Conn : Dispatch(c))
  PROVE  RequestMade'
<1>1. CASE UNCHANGED <<req, sock>>
  BY <1>1 DEF RequestMade, Made
<1>2. CASE accept_connections
  BY <1>2 DEF accept_connections, peerVars, RequestMade, Made
<1>3. ASSUME NEW c \in Conn, Connect(c) PROVE RequestMade'
  <2>1. /\ sock' = [sock EXCEPT ![c] = "backlog"]
        /\ \A x \in Conn : x # c => req'[x] = req[x]
    BY <1>3 DEF Connect, TypeOK
  <2> QED
    BY <2>1 DEF RequestMade, Made, TypeOK
<1> QED
  BY <1>1, <1>2, <1>3
  DEF Next, event_loop_wait, Peer, Arrive, Close, Reset, Drain, Idle, vars,
      peerVars

(* The invariant, after a step that runs no handler.                       *)
LEMMA QuietAlone ==
  ASSUME IInv, IInv', AnswerInv, AloneInv, Quiet, RequestMade', dir' = dir,
         data' = data
  PROVE  AloneInv'
<1>1. IntentInv /\ RequestMade /\ \A x \in Conn : AloneOK(x)
  BY DEF AloneInv
<1>2. /\ resp' = resp /\ server_files' = server_files
      /\ \A x \in Conn : Made(x) => req'[x] = req[x]
  BY DEF Quiet
<1>3. ASSUME NEW x \in Conn PROVE Intends(x, client[x])'
  <2>1. CASE client'[x] = client_create
    BY <2>1 DEF Intends, client_create
  <2>2. CASE ~Made(x) /\ client'[x] = client[x]
    BY <2>1, <2>2 DEF Made, IInv, ClientInv, ClientOK
  <2>3. CASE Made(x) /\ client'[x] = client[x]
    BY <1>1, <1>2, <2>3 DEF IntentInv, Intends
  <2>4. CASE sock'[x] = "backlog"
    BY <2>1, <2>4 DEF IInv, ClientInv, ClientOK
  <2> QED
    BY <2>1, <2>2, <2>3, <2>4 DEF Quiet
<1>4. ASSUME NEW x \in Conn, (req[x].verb = "PUT")', Alone(x)'
      PROVE  AloneOK(x)'
  <2>1. CASE sock[x] \in {"none", "backlog"}
    <3>1. resp'[x] # OkLine
      BY <1>2, <2>1 DEF AnswerInv, AnswerOK, OkLine
    <3>2. ~FillsFile(x)' /\ ~Confirming(x)'
      <4>1. sock'[x] = "open" => client'[x].state = "RECV_HEADER"
        BY <2>1 DEF Quiet, client_create
      <4> QED
        BY <3>1, <4>1 DEF FillsFile, Confirming
    <3> QED
      BY <3>2 DEF AloneOK
  <2>2. CASE sock[x] \notin {"none", "backlog"}
    <3>1. /\ sock'[x] = sock[x] /\ client'[x] = client[x]
          /\ Made(x) /\ req'[x] = req[x]
      BY <1>2, <2>2 DEF Quiet, Made
    <3>2. Alone(x)
      <4> SUFFICES ASSUME NEW d \in Conn \ {x}, req[d].verb \in {"PUT", "DELETE"}
                   PROVE  req[d].name # req[x].name
        BY DEF Alone
      <4>1. Made(d)
        BY <1>1 DEF RequestMade, NoRequest
      <4> QED
        BY <1>2, <1>4, <3>1, <4>1 DEF Alone
    <3> QED
      BY <1>1, <1>2, <1>4, <3>1, <3>2
      DEF AloneOK, FillsFile, Confirming, Storing, Kept
  <2> QED
    BY <2>1, <2>2
<1>5. IntentInv'
  BY <1>3 DEF IntentInv
<1>6. \A x \in Conn : AloneOK(x)'
  BY <1>4 DEF AloneOK
<1> QED
  BY <1>5, <1>6 DEF AloneInv

LEMMA AloneNext ==
  IInv /\ AnswerInv /\ NoDuplicateNames /\ AloneInv /\ [Next]_vars => AloneInv'
<1> SUFFICES ASSUME IInv, AnswerInv, NoDuplicateNames, AloneInv, [Next]_vars
             PROVE  AloneInv'
  OBVIOUS
<1>1. Typed /\ TypeOK
  BY DEF IInv, TypeOK, Typed
<1>2. CASE \E c \in Conn : Dispatch(c)
  BY <1>1, <1>2, DispatchAlone
<1>3. CASE ~(\E c \in Conn : Dispatch(c))
  <2>1. RequestMade' /\ dir' = dir /\ data' = data
    BY <1>1, <1>3, QuietRequests, QuietFiles DEF AloneInv
  <2>2. Quiet
    BY <1>1, <1>3, QuietSteps
  <2>3. IInv'
    BY InvNext
  <2> QED
    BY <2>1, <2>2, <2>3, QuietAlone
<1> QED
  BY <1>2, <1>3

(* An upload whose name no other request stores or removes is stored as it *)
(* is read, and once it is confirmed the server keeps it, whatever becomes *)
(* of the files of other names (server.c:279-377, 498-556).                *)
THEOREM AloneIsStored == Spec => []AloneInv
<1>1. Init => AloneInv
  BY DEF Init, AloneInv, IntentInv, Intends, RequestMade, AloneOK, NoRequest,
         client_create
<1> QED
  BY <1>1, AloneNext, ServerInvariant, AnswersKept, NamesListedOnce, PTL DEF Spec

-----------------------------------------------------------------------------
(***************************************************************************)
(* The peers, where none breaks a connection.                              *)
(***************************************************************************)
PeersInv == rst = {} /\ AllPeers

LEMMA StayingPeers ==
  ASSUME IInv, ~PeersReset, PeersInv, [Next]_vars
  PROVE  PeersInv'
<1>1. AllPeers'
  BY PeersNext DEF PeersInv
<1>2. ASSUME NEW c \in Conn, Dispatch(c) PROVE rst' = {}
  <2>1. Typed
    BY DEF IInv, TypeOK, Typed
  <2> QED
    BY <1>2, <2>1, ReadOwn, WriteOwn, WritesOwn
    DEF Dispatch, HandleError, HandleRead, HandleWrite, Own, PeersInv
<1>3. rst' = {}
  BY <1>2
  DEF PeersInv, Next, event_loop_wait, accept_connections, Peer, Connect,
      Arrive, Close, Reset, Drain, Idle, vars, writeVars
<1> QED
  BY <1>1, <1>3 DEF PeersInv

-----------------------------------------------------------------------------
(***************************************************************************)
(* Where the uploads of a name follow one another.                         *)
(***************************************************************************)

(* A connection that writes a file is alone with its name.                 *)
LEMMA Exclusive ==
  ASSUME IInv, Orderly, PeersInv, NEW x \in Conn, FillsFile(x),
         NEW c \in Conn, c # x, sock[c] = "open",
         req[c].verb \in {"PUT", "DELETE"}
  PROVE  req[c].name # req[x].name
<1>1. /\ Made(x) /\ Made(c) /\ sock[x] = "open" /\ req[x].verb = "PUT"
  BY FilesOfName DEF FillsFile, Made
<1>2. req[x] \in Requests[x] /\ req[c] \in Requests[c]
  BY <1>1 DEF PeersInv, AllPeers, PeerOK
<1>3. c \notin After[x] /\ x \notin After[c]
  BY <1>1 DEF PeersInv, AllPeers, PeerOK
<1> QED
  BY <1>1, <1>2, <1>3 DEF Orderly

(* An upload that has its file open meets no trouble.                      *)
LEMMA NoTrouble ==
  ASSUME IInv, Orderly, PeersInv, PeersInv', NEW c \in Conn, Made(c),
         req[c].verb = "PUT"
  PROVE  ~Trouble(c)
<1>1. /\ req[c] \in Requests[c] /\ arrived[c] <= req[c].len
      /\ c \in fin => arrived[c] = req[c].len
  BY DEF PeersInv, AllPeers, PeerOK
<1>2. SentWhole(req[c]) /\ "pwrite" \notin Faults
  BY <1>1 DEF Orderly
<1>3. /\ arrived[c] \in Nat /\ req[c].len \in Nat /\ req[c].size \in Nat
      /\ HeaderLen \in Nat /\ SizeLen \in Nat
  BY ConstantsAssumption DEF IInv, TypeOK, Request
<1>4. arrived[c] <= WholeLen(c)
  BY <1>1, <1>2, <1>3 DEF SentWhole, WholeLen
<1>5. ~(/\ c \in fin
        /\ HeaderLen + SizeLen <= arrived[c] /\ arrived[c] < WholeLen(c))
  BY <1>1, <1>2, <1>3 DEF SentWhole, WholeLen
<1>6. ~(arrived[c] > WholeLen(c))
  <2>1. WholeLen(c) \in Nat
    BY <1>3 DEF WholeLen
  <2> QED
    BY <1>3, <1>4, <2>1
<1>7. c \notin rst'
  BY DEF PeersInv
<1> QED
  BY <1>2, <1>5, <1>6, <1>7 DEF Trouble

(* A name stays settled where its file and its place in the list do.       *)
LEMMA SettledFrame ==
  ASSUME IInv, ReplyInv, Typed, [Next]_vars, NEW n \in Name, Settled(n),
         dir'[n] = dir[n],
         n \in Listed(server_files') <=> n \in Listed(server_files),
         dir[n] # NoInode => data'[dir[n]] = data[dir[n]]
  PROVE  Settled(n)'
<1>1. CASE dir[n] = NoInode
  BY <1>1 DEF Settled
<1>2. CASE dir[n] # NoInode
  <2>1. PICK c \in Conn : /\ req[c].name = n /\ ReadWhole(c)
                          /\ data[dir[n]] = BodyUnits(c, 1, req[c].size)
    BY <1>2 DEF Settled
  <2>2. ReadWhole(c)' /\ req'[c] = req[c]
    BY <2>1, WholeStays
  <2> QED
    BY <1>2, <2>1, <2>2 DEF Settled
<1> QED
  BY <1>1, <1>2

(* A handler that has not failed leaves its own file open, or its name     *)
(* settled.                                                                *)
LEMMA OwnName ==
  ASSUME IInv, IInv', ReplyInv, Typed, AnswerInv, IntentInv, Orderly,
         NoDuplicateNames, PeersInv, PeersInv', NEW c \in Conn, Dispatch(c),
         [Next]_vars,
         FillsFile(c) => Storing(c), NEW n \in Name, n = req[c].name
  PROVE  /\ FillsFile(c)' => Storing(c)'
         /\ Settled(n) => StoreOK(n)'
         /\ FillsFile(c) => StoreOK(n)'
<1>1. req' = req /\ Made(c)
  BY DispatchHandled DEF peerVars
<1>2. CASE req[c].verb # "PUT"
  <2>1. Stores(c)
    BY <1>2, OwnOther
  <2>2. ~FillsFile(c) /\ ~FillsFile(c)'
    <3>1. UploadsNamed /\ UploadsNamed'
      BY FilesNamed, PTL
    <3> QED
      BY <1>1, <1>2, <3>1 DEF UploadsNamed
  <2>3. CASE dir' = dir /\ server_files' = server_files
    BY <2>1, <2>2, <2>3, SettledFrame DEF Stores, StoreOK
  <2>4. CASE Removal(c)
    <3>1. server_files \in Seq(Name) /\ Distinct(server_files)
      BY DEF IInv, TypeOK, NoDuplicateNames, Distinct
    <3>2. n \notin Listed(server_files')
      BY <2>4, <3>1, RemovedName DEF Removal
    <3>3. dir'[n] = NoInode
      BY <2>4 DEF Removal, unlink
    <3> QED
      BY <2>2, <3>2, <3>3 DEF StoreOK, Settled
  <2> QED
    BY <2>1, <2>3, <2>4 DEF Stores
<1>3. CASE req[c].verb = "PUT"
  <2>1. Result(c)
    BY <1>3, OwnUpload
  <2>2. ~Trouble(c)
    BY <1>1, <1>3, NoTrouble
  <2>3. CASE ~FillsFile(c) /\ ~FillsFile(c)' /\ Spares(n)
    BY <2>3, SettledFrame DEF Spares, StoreOK
  <2>4. CASE Storing(c)'
    BY <1>1, <2>4 DEF StoreOK, Storing
  <2>5. CASE Kept(c)' /\ ~FillsFile(c)' /\ taken'[c] = WholeLen(c)
    <3>1. ReadWhole(c)'
      BY <1>1, <1>3, <2>5 DEF ReadWhole, WholeLen
    <3> QED
      BY <1>1, <2>5, <3>1 DEF Kept, Settled, StoreOK
  <2> QED
    BY <2>1, <2>2, <2>3, <2>4, <2>5 DEF Result
<1> QED
  BY <1>2, <1>3

(* The invariant, after a handler of any connection.                       *)
LEMMA DispatchStoreInv ==
  ASSUME IInv, IInv', ReplyInv, Typed, AnswerInv, IntentInv, Orderly,
         NoDuplicateNames, StoreInv, PeersInv', [Next]_vars,
         NEW c \in Conn, Dispatch(c)
  PROVE  StoreInv'
<1>1. req' = req /\ sock[c] = "open" /\ Made(c)
  BY DispatchHandled DEF peerVars
<1>2. PeersInv /\ Elsewhere(c)
  BY HandlerElsewhere DEF PeersInv, AllPeers, StoreInv
<1>3. /\ \A x \in Conn : FillsFile(x) => Storing(x)
      /\ \A n \in Name : StoreOK(n)
  BY DEF StoreInv
<1>4. ASSUME NEW x \in Conn, x # c, FillsFile(x)
      PROVE  FillsFile(x)' /\ Storing(x)'
  <2>1. /\ client'[x] = client[x] /\ sock'[x] = sock[x]
        /\ resp'[x] = resp[x]
    BY <1>4, OthersFrame
  <2>2. /\ req[x].name \in Name =>
             /\ dir'[req[x].name] = dir[req[x].name]
             /\ req[x].name \in Listed(server_files)
                  => req[x].name \in Listed(server_files')
        /\ \A i \in Conn : Made(i) /\ req[i].name = req[x].name
             => data'[i] = data[i]
    <3>1. CASE req[c].name # req[x].name
      BY <1>2, <3>1 DEF Elsewhere
    <3>2. CASE req[c].verb \notin {"PUT", "DELETE"}
      <4>1. dir' = dir /\ server_files' = server_files /\ data' = data
        BY <3>2, OwnOther DEF Stores, Removal
      <4> QED
        BY <4>1
    <3> QED
      BY <1>1, <1>2, <1>4, <3>1, <3>2, Exclusive
  <2> QED
    BY <1>1, <1>3, <1>4, <2>1, <2>2, OthersKeep
<1>5. ASSUME NEW x \in Conn, x # c
      PROVE  FillsFile(x)' => FillsFile(x)
  BY <1>5, OthersFrame DEF FillsFile
<1>6. \A x \in Conn : FillsFile(x)' => Storing(x)'
  <2>1. FillsFile(c)' => Storing(c)'
    <3>1. UploadsNamed'
      BY FilesNamed, PTL
    <3> QED
      BY <1>1, <1>2, <1>3, <3>1, OwnName DEF UploadsNamed
  <2> QED
    BY <1>4, <1>5, <2>1
<1>7. ASSUME NEW n \in Name PROVE StoreOK(n)'
  <2>1. ASSUME NEW x \in Conn, x # c, req[x].name = n, FillsFile(x)
        PROVE  StoreOK(n)'
    BY <1>1, <1>4, <2>1 DEF StoreOK
  <2>2. CASE req[c].name = n
    BY <1>2, <1>3, <2>1, <2>2, OwnName DEF StoreOK
  <2>3. CASE req[c].name # n
    <3>1. dir[n] # NoInode => data'[dir[n]] = data[dir[n]]
      BY <1>2, <2>3 DEF Elsewhere, IInv, DirOK, Inodes
    <3>2. Settled(n) => Settled(n)'
      BY <1>2, <2>3, <3>1, SettledFrame DEF Elsewhere
    <3> QED
      BY <1>3, <2>1, <2>3, <3>2 DEF StoreOK
  <2> QED
    BY <2>2, <2>3
<1> QED
  BY <1>6, <1>7 DEF StoreInv, PeersInv, AllPeers

(* The invariant, after a step that runs no handler.                       *)
LEMMA QuietStoreInv ==
  ASSUME IInv, ReplyInv, Typed, StoreInv, PeersInv', [Next]_vars, Quiet,
         dir' = dir, data' = data
  PROVE  StoreInv'
<1>1. ASSUME NEW x \in Conn
      PROVE  /\ FillsFile(x)' => FillsFile(x)
             /\ FillsFile(x) => FillsFile(x)' /\ Storing(x)'
                                /\ req'[x] = req[x]
  <2>1. FillsFile(x)' => FillsFile(x)
    BY DEF Quiet, FillsFile, client_create
  <2>2. ASSUME FillsFile(x)
        PROVE  FillsFile(x)' /\ Storing(x)' /\ req'[x] = req[x]
    <3>1. /\ sock'[x] = sock[x] /\ client'[x] = client[x]
          /\ req'[x] = req[x] /\ Storing(x)
      BY <2>2 DEF Quiet, FillsFile, Made, StoreInv
    <3> QED
      BY <2>2, <3>1 DEF FillsFile, Storing
  <2> QED
    BY <2>1, <2>2
<1>2. ASSUME NEW n \in Name PROVE StoreOK(n)'
  <2>1. Settled(n) => Settled(n)'
    BY SettledFrame DEF Quiet
  <2> QED
    BY <1>1, <2>1 DEF StoreInv, StoreOK
<1> QED
  BY <1>1, <1>2 DEF StoreInv, PeersInv, AllPeers

LEMMA StoreNext ==
  ASSUME Orderly, IInv, ReplyInv, AnswerInv, AloneInv, NoDuplicateNames,
         StoreInv, [Next]_vars
  PROVE  StoreInv'
<1>1. Typed /\ TypeOK /\ IntentInv
  BY DEF IInv, TypeOK, Typed, AloneInv
<1>2. IInv' /\ PeersInv'
  BY InvNext, StayingPeers DEF Orderly, StoreInv, PeersInv, AllPeers
<1>3. CASE \E c \in Conn : Dispatch(c)
  BY <1>1, <1>2, <1>3, DispatchStoreInv
<1>4. CASE ~(\E c \in Conn : Dispatch(c))
  BY <1>1, <1>2, <1>4, QuietSteps, QuietFiles, QuietStoreInv
<1> QED
  BY <1>3, <1>4

(* Where the uploads of a name follow one another, are whole, and nobody   *)
(* breaks a connection, an upload's file is its own from open to OK, and   *)
(* list and directory agree about every name that is not being uploaded    *)
(* (server.c:308 and 373, 487 and 492).                                    *)
THEOREM StoreIsOrderly == Orderly => (Spec => []StoreInv)
<1> SUFFICES ASSUME Orderly PROVE Spec => []StoreInv
  OBVIOUS
<1>1. Init => StoreInv
  <2> SUFFICES ASSUME Init PROVE StoreInv
    OBVIOUS
  <2>1. Listed(server_files) = {}
    BY DEF Init, Listed
  <2> QED
    BY <2>1 DEF Init, StoreInv, PeerOK, Made, FillsFile, StoreOK, Settled
<1>2. IInv /\ ReplyInv /\ AnswerInv /\ AloneInv /\ NoDuplicateNames
        /\ StoreInv /\ [Next]_vars => StoreInv'
  BY StoreNext
<1> QED
  BY <1>1, <1>2, ServerInvariant, UploadsToldInOrder, AnswersKept,
     AloneIsStored, NamesListedOnce, PTL DEF Spec

(* Nobody writes a name that is not being uploaded.                        *)
LEMMA SettledBetween ==
  ASSUME IInv, StoreInv, NEW n \in Name, ~Uploading(n)
  PROVE  Settled(n)
<1>1. ASSUME NEW c \in Conn, req[c].name = n, FillsFile(c) PROVE FALSE
  BY <1>1, FilesOfName DEF FillsFile, Uploading
<1> QED
  BY <1>1 DEF StoreInv, StoreOK

(* So between uploads of a name, the name is listed exactly if its file is *)
(* on disk (the two are changed apart: server.c:308 and 373, 487 and 492). *)
THEOREM DiskAgreesWithList == Orderly => (Spec => []DiskMatchesList)
<1> SUFFICES ASSUME Orderly PROVE Spec => []DiskMatchesList
  OBVIOUS
<1>1. IInv /\ StoreInv => DiskMatchesList
  BY SettledBetween DEF DiskMatchesList, Settled
<1>2. Spec => []StoreInv
  BY StoreIsOrderly
<1> QED
  BY <1>1, <1>2, ServerInvariant, PTL

(* And a listed name leads to a file that holds one upload of it, from its *)
(* first unit to its last and nothing of an older one (server.c:308-310,   *)
(* 352).                                                                   *)
THEOREM OneUploadStored == Orderly => (Spec => []StoredIsOneUpload)
<1> SUFFICES ASSUME Orderly PROVE Spec => []StoredIsOneUpload
  OBVIOUS
<1>1. IInv /\ StoreInv => StoredIsOneUpload
  <2>1. IInv => Listed(server_files) \subseteq Name
    BY DEF IInv, TypeOK, Listed
  <2> QED
    BY <2>1, SettledBetween DEF StoredIsOneUpload, Settled
<1>2. Spec => []StoreInv
  BY StoreIsOrderly
<1> QED
  BY <1>1, <1>2, ServerInvariant, PTL

-----------------------------------------------------------------------------
(***************************************************************************)
(* What FileStore shows of a connection.                                   *)
(***************************************************************************)
AllInv ==
  /\ IInv /\ ReplyInv /\ AnswerInv /\ AloneInv /\ EndInv /\ StoreInv
  /\ NoDuplicateNames

(* The answer is what the client was given to send, or what is left of it. *)
WordsOK ==
  \A c \in Conn :
    /\ sock[c] = "open" /\ client[c].state \in Receiving
         => resp[c] = <<>> /\ Answer(c) = "none"
    /\ sock[c] = "open" /\ client[c].state = "SEND_ERROR"
         => Answer(c) = "ERROR"
    /\ sock[c] = "open" /\ client[c].state \in Sending \ {"SEND_ERROR"}
         => Answer(c) = "OK"
    /\ sock[c] # "open" /\ resp[c] = <<>> => Answer(c) = "none"
    /\ sock[c] = "closed" /\ resp[c] # <<>> =>
         /\ resp[c][1] = <<"OK", 1>> => Answer(c) = "OK"
         /\ resp[c][1] = <<"ERROR", 1>> => Answer(c) = "ERROR"
    /\ sock[c] \in {"none", "backlog"} => resp[c] = <<>>

ShownOK ==
  \A c \in Conn :
    /\ ShownNames(c) # {} => req[c].verb = "LIST"
    /\ sock[c] = "open" /\ client[c].state # "SEND_LIST_DATA"
         => ShownNames(c) = {}
    /\ sock[c] = "closed" /\ Len(resp[c]) <= 2 => ShownNames(c) = {}
    /\ sock[c] \in {"none", "backlog"} => ShownNames(c) = {}

LEMMA WordsRight == IInv /\ AnswerInv => WordsOK
<1> SUFFICES ASSUME IInv, AnswerInv, NEW c \in Conn
             PROVE  WordsOK!(c)
  BY DEF WordsOK
<1>1. /\ AnswerOK(c) /\ resp[c] \in Seq(RespUnit) /\ client[c] \in ClientType
      /\ sock[c] # "open" => client[c].state = "RECV_HEADER"
  BY DEF AnswerInv, IInv, TypeOK, ClientInv, ClientOK, client_create
<1>2. CASE sock[c] = "open" /\ client[c].state = "SEND_ERROR"
  <2>1. PICK m \in Message : SentOf(client[c], ErrorLines(m), resp[c])
    BY <1>1, <1>2 DEF AnswerOK, Telling
  <2>2. /\ client[c].simple_response_sent \in Nat
        /\ client[c].simple_response_sent <= Len(ErrorLines(m))
    BY <1>1, <1>2, <2>1
    DEF SentOf, ClientType, IInv, ClientInv, ClientOK, Good, Base
  <2>3. resp[c] = <<>> \/ resp[c][1][1] # "OK"
    BY <2>1, <2>2, ErrorNotOk DEF SentOf
  <2> QED
    BY <1>2, <2>3 DEF Answer, Says, Receiving, Sending
<1>3. CASE sock[c] = "open" /\ client[c].state \in Sending \ {"SEND_ERROR"}
  <2>1. \/ client[c].state = "SEND_OK"
        \/ resp[c] # <<>> /\ resp[c][1] = <<"OK", 1>>
    BY <1>1, <1>3 DEF AnswerOK, Telling, Answers, Sending
  <2> QED
    BY <1>3, <2>1 DEF Answer, Says, Receiving, Sending
<1>4. CASE sock[c] = "open" /\ client[c].state \in Receiving
  BY <1>1, <1>4 DEF AnswerOK, Telling, Answer, Says, Receiving, Sending
<1>5. CASE sock[c] # "open"
  BY <1>1, <1>5 DEF AnswerOK, Answer, Says
<1> QED
  BY <1>1, <1>2, <1>3, <1>4, <1>5 DEF ClientType

LEMMA ShownRight == IInv /\ AnswerInv => ShownOK
<1> SUFFICES ASSUME IInv, AnswerInv, NEW c \in Conn
             PROVE  ShownOK!(c)
  BY DEF ShownOK
<1>1. /\ AnswerOK(c) /\ resp[c] \in Seq(RespUnit)
      /\ sock[c] \in {"none", "backlog", "open", "closed"}
  BY DEF AnswerInv, IInv, TypeOK
<1>2. ShownNames(c) # {} => req[c].verb = "LIST"
  BY <1>1 DEF AnswerOK, Telling, ShownNames
<1>3. /\ sock[c] = "open" /\ client[c].state # "SEND_LIST_DATA"
           => ShownNames(c) = {}
      /\ sock[c] \in {"none", "backlog"} => ShownNames(c) = {}
  BY DEF ShownNames
<1>4. ASSUME sock[c] = "closed", Len(resp[c]) <= 2 PROVE ShownNames(c) = {}
  <2>1. ~(Len(resp[c]) > Len(OkLine))
    BY <1>1, <1>4, TwoLines
  <2> QED
    BY <1>4, <2>1 DEF ShownNames
<1> QED
  BY <1>2, <1>3, <1>4

(* A list's names are those of the files it was built from.                *)
LEMMA NamesOfList ==
  ASSUME NEW files \in Seq(Name)
  PROVE  NamesIn(build_list_buffer(files)) = Listed(files)
<1> DEFINE names == [i \in 1..Len(files) |-> <<"FILE", files[i]>>]
           buf == build_list_buffer(files)
           size == SizeField(Len(files))
<1>1. names \in Seq(RespUnit) /\ Len(names) = Len(files) /\ Len(files) \in Nat
  BY DEF RespUnit
<1>2. /\ size \in Seq(RespUnit) /\ Len(size) = 2
      /\ size[1][1] = "SIZE" /\ size[2][1] = "SIZE"
  BY <1>1, TwoLines
<1>3. \A i \in 1..Len(files) : names[i][1] = "FILE" /\ names[i][2] = files[i]
  OBVIOUS
<1>4. /\ Len(buf) = Len(size) + Len(names)
      /\ \A p \in 1..(Len(size) + Len(names)) :
           buf[p] = IF p <= Len(size) THEN size[p] ELSE names[p - Len(size)]
  <2>1. buf = size \o names
    BY DEF build_list_buffer
  <2>2. names \in Seq(RespUnit) /\ size \in Seq(RespUnit)
    BY <1>1, <1>2
  <2> HIDE DEF buf, size, names
  <2> QED
    BY <2>1, <2>2, ConcatProperties
<1> HIDE DEF buf, size, names
<1>5. /\ Len(buf) = 2 + Len(files)
      /\ \A p \in 1..(2 + Len(files)) :
           buf[p] = IF p <= 2 THEN size[p] ELSE names[p - 2]
  BY <1>1, <1>2, <1>4
<1>6. ASSUME NEW k \in 1..Len(buf), buf[k][1] = "FILE"
      PROVE  buf[k][2] \in Listed(files)
  <2>1. ~(k <= 2)
    <3>1. k <= 2 => k = 1 \/ k = 2
      BY <1>1, <1>5
    <3>2. k <= 2 => buf[k] = size[k]
      BY <1>1, <1>5
    <3> QED
      BY <1>2, <1>6, <3>1, <3>2
  <2>2. k - 2 \in 1..Len(files) /\ buf[k] = names[k - 2]
    BY <1>1, <1>5, <2>1
  <2> QED
    BY <1>3, <2>2 DEF Listed
<1>7. ASSUME NEW i \in 1..Len(files)
      PROVE  /\ i + 2 \in 1..Len(buf)
             /\ buf[i + 2][1] = "FILE" /\ buf[i + 2][2] = files[i]
  <2>1. /\ i + 2 \in 1..(2 + Len(files)) /\ ~(i + 2 <= 2) /\ (i + 2) - 2 = i
    BY <1>1
  <2>2. buf[i + 2] = names[i]
    BY <1>5, <2>1
  <2> QED
    BY <1>3, <1>5, <2>1, <2>2
<1> QED
  BY <1>6, <1>7 DEF NamesIn, Listed, buf

(* The disk and the list of names as FileStore sees them stay.             *)
DiskStays ==
  /\ \A n \in Name : Content(n)' = Content(n)
  /\ Listed(server_files') = Listed(server_files)

Tells(c, word, names) == Answer(c)' = word /\ ShownNames(c)' = names

(* A response is given in the step that begins to send it, and with the OK *)
(* to a LIST, or later, the names.                                         *)
Responds(c, word) ==
  /\ ~FillsFile(c)' /\ Answer(c)' = word
  /\ \/ ShownNames(c)' = {}
     \/ /\ word = "OK" /\ req[c].verb = "LIST"
        /\ ShownNames(c)' = {Listed(server_files)}

LEMMA Responded ==
  ASSUME AllInv, AllInv', NEW c \in Conn, sock[c] = "open", req' = req,
         NEW cl \in ClientType,
         NEW word, NEW buf, cl.simple_response_buf = buf,
         cl.simple_response_sent <= Len(buf),
         resp[c] = SubSeq(buf, 1, cl.simple_response_sent),
         \/ word = "OK" /\ cl.state = "SEND_OK" /\ buf = OkLine
         \/ /\ word = "ERROR" /\ cl.state = "SEND_ERROR"
            /\ \E m \in Message : buf = ErrorLines(m),
         NEW d, execute_simple_response_write(c, cl, d)
  PROVE  dir' = d /\ Responds(c, word)
<1>1. Typed /\ server_files \in Seq(Name)
  BY DEF AllInv, IInv, TypeOK, Typed
<1>2. dir' = d /\ Given(c, cl)
  <2>1. c \notin rst'
    BY DEF AllInv, StoreInv
  <2> QED
    BY <1>1, <2>1, ResponseGiven DEF WriteError
<1>3. WordsOK' /\ ShownOK'
  BY WordsRight, ShownRight, PTL DEF AllInv
<1>4. /\ buf \in Seq(RespUnit) /\ buf # <<>> /\ Len(buf) = 2
      /\ word = "OK" => buf[1] = <<"OK", 1>>
      /\ word = "ERROR" => buf[1] = <<"ERROR", 1>>
  BY TwoLines
<1>5. CASE sock'[c] = "open" /\ client'[c].state = cl.state
  BY <1>2, <1>3, <1>5 DEF WordsOK, ShownOK, Responds, FillsFile, Sending
<1>6. CASE /\ resp'[c] = buf
           /\ sock'[c] = "closed" /\ client'[c] = client_create
  <2>1. ~FillsFile(c)'
    BY <1>6 DEF FillsFile
  <2>2. Answer(c)' = word
    BY <1>3, <1>4, <1>6 DEF WordsOK
  <2>3. ShownNames(c)' = {}
    <3>1. Len(resp'[c]) = 2
      BY <1>4, <1>6
    <3>2. Len(resp'[c]) <= 2
      BY <3>1
    <3> QED
      BY <1>3, <1>6, <3>2 DEF ShownOK
  <2> QED
    BY <1>2, <2>1, <2>2, <2>3 DEF Responds
<1>7. CASE /\ sock'[c] = "open" /\ client'[c].state = "SEND_GET_SIZE"
           /\ cl.state = "SEND_OK"
  BY <1>2, <1>3, <1>7 DEF WordsOK, ShownOK, Responds, FillsFile, Sending
<1>8. CASE /\ sock'[c] = "open" /\ client'[c].state = "SEND_LIST_DATA"
           /\ client'[c].list_buf = build_list_buffer(server_files)
           /\ cl.state = "SEND_OK"
  <2>1. ShownNames(c)' = {Listed(server_files)}
    BY <1>1, <1>8, NamesOfList DEF ShownNames
  <2>2. req[c].verb = "LIST"
    BY <1>3, <2>1 DEF ShownOK
  <2>3. Answer(c)' = "OK"
    BY <1>3, <1>8 DEF WordsOK, Sending
  <2>4. word = "OK"
    BY <1>8
  <2> QED
    BY <1>2, <1>8, <2>1, <2>2, <2>3, <2>4 DEF Responds, FillsFile
<1> QED
  BY <1>2, <1>5, <1>6, <1>7, <1>8 DEF Given

(* A response that is begun.                                               *)
LEMMA OkGiven ==
  ASSUME AllInv, AllInv', NEW c \in Conn, sock[c] = "open", req' = req,
         resp[c] = <<>>, NEW cl \in ClientType, NEW d, send_ok(c, cl, d)
  PROVE  dir' = d /\ Responds(c, "OK")
<1> DEFINE cl1 == [cl EXCEPT !.state = "SEND_OK", !.simple_response_buf = OkLine,
                             !.simple_response_sent = 0]
<1>1. OkLine \in Seq(RespUnit) /\ 0 <= Len(OkLine)
  BY TwoLines
<1>2. /\ cl1 \in ClientType /\ cl1.state = "SEND_OK"
      /\ cl1.simple_response_buf = OkLine /\ cl1.simple_response_sent = 0
  BY <1>1 DEF ClientType, Sending
<1>3. resp[c] = SubSeq(OkLine, 1, 0)
  BY <1>1, SubSeqEmpty
<1>4. execute_simple_response_write(c, cl1, d)
  BY DEF send_ok
<1> HIDE DEF cl1
<1> QED
  BY <1>1, <1>2, <1>3, <1>4, Responded

LEMMA ErrorGiven ==
  ASSUME AllInv, AllInv', NEW c \in Conn, sock[c] = "open", req' = req,
         resp[c] = <<>>, NEW cl \in ClientType, NEW d, NEW m \in Message,
         send_error(c, cl, m, d)
  PROVE  dir' = d /\ Responds(c, "ERROR")
<1> DEFINE cl1 == [cl EXCEPT !.state = "SEND_ERROR", !.simple_response_sent = 0,
                             !.simple_response_buf = ErrorLines(m)]
<1>1. ErrorLines(m) \in Seq(RespUnit) /\ 0 <= Len(ErrorLines(m))
  BY TwoLines
<1>2. /\ cl1 \in ClientType /\ cl1.state = "SEND_ERROR"
      /\ cl1.simple_response_buf = ErrorLines(m)
      /\ cl1.simple_response_sent = 0
  BY <1>1 DEF ClientType, Sending
<1>3. resp[c] = SubSeq(ErrorLines(m), 1, 0)
  BY <1>1, SubSeqEmpty
<1>4. execute_simple_response_write(c, cl1, d)
  BY DEF send_error
<1> HIDE DEF cl1
<1> QED
  BY <1>1, <1>2, <1>3, <1>4, Responded

(* Files that no handler touches, and are not begun to be written.         *)
LEMMA DiskSame ==
  ASSUME IInv, Typed, NEW c \in Conn, Dispatch(c), ~FillsFile(c), ~FillsFile(c)',
         UNCHANGED <<dir, data, server_files>>
  PROVE  DiskStays
<1>1. ASSUME NEW x \in Conn
      PROVE  /\ FillsFile(x)' <=> FillsFile(x)
             /\ x # c => client'[x] = client[x]
  BY OthersFrame DEF FillsFile
<1>2. ASSUME NEW n \in Name PROVE Writing(n)' <=> Writing(n)
  BY <1>1 DEF Writing
<1> QED
  BY <1>2 DEF DiskStays, Content

(* Files of other names.                                                   *)
LEMMA ContentElsewhere ==
  ASSUME AllInv, IInv', NEW c \in Conn, Dispatch(c)
  PROVE  /\ \A n \in Name : n # req[c].name =>
              /\ Content(n)' = Content(n)
              /\ n \in Listed(server_files') <=> n \in Listed(server_files)
         /\ Listed(server_files) \subseteq Name
         /\ Listed(server_files') \subseteq Name
<1>1. Typed /\ Elsewhere(c) /\ IntentInv
  BY HandlerElsewhere DEF AllInv, AloneInv, IInv, TypeOK, Typed
<1>2. req' = req /\ sock[c] = "open"
  BY DispatchHandled DEF AllInv, peerVars
<1>3. /\ server_files \in Seq(Name) /\ server_files' \in Seq(Name)
      /\ DirOK(dir)
  BY DEF AllInv, IInv, TypeOK
<1>4. ASSUME NEW n \in Name, n # req[c].name, dir[n] # NoInode
      PROVE  Writing(n)' <=> Writing(n)
  <2>1. dir'[n] = dir[n] /\ req[dir[n]].name = n
    BY <1>1, <1>3, <1>4 DEF Elsewhere, DirOK
  <2>2. ASSUME NEW x \in Conn, x # c
        PROVE  /\ FillsFile(x)' <=> FillsFile(x)
               /\ client'[x] = client[x]
    BY <1>1, <2>2, OthersFrame DEF FillsFile, AllInv
  <2>3. FillsFile(c) => client[c].file_fd # dir[n]
    BY <1>4, <2>1, FilesOfName DEF AllInv
  <2>4. FillsFile(c)' => client'[c].file_fd # dir[n]
    <3>1. ASSUME FillsFile(c)' PROVE req'[client'[c].file_fd].name = req'[c].name
      <4>1. Good(c, client[c], taken[c])'
        BY <3>1 DEF FillsFile, IInv, ClientInv, ClientOK
      <4>2. client'[c].state = "RECV_PUT_DATA"
        BY <3>1 DEF FillsFile
      <4> QED
        BY <4>1, <4>2 DEF Good, FileOK, HoldsFile
    <3> QED
      BY <1>2, <1>4, <2>1, <3>1
  <2> QED
    BY <2>1, <2>2, <2>3, <2>4 DEF Writing
<1>5. ASSUME NEW n \in Name, n # req[c].name PROVE Content(n)' = Content(n)
  <2>1. dir'[n] = dir[n]
    BY <1>1, <1>5 DEF Elsewhere
  <2>2. dir[n] # NoInode => data'[dir[n]] = data[dir[n]]
    BY <1>1, <1>3, <1>5 DEF Elsewhere, DirOK, Inodes
  <2> QED
    BY <1>4, <1>5, <2>1, <2>2 DEF Content
<1> QED
  BY <1>1, <1>3, <1>5 DEF Elsewhere, Listed

(* The end of a list.                                                      *)
LEMMA ListSent ==
  ASSUME Typed, NEW c \in Conn, Base(client[c]), sock[c] = "open",
         client[c].state = "SEND_LIST_DATA", Telling(c, client[c], resp[c]),
         send_list_data(c), c \notin rst'
  PROVE  \/ /\ sock'[c] = "open" /\ client'[c].state = "SEND_LIST_DATA"
            /\ client'[c].list_buf = client[c].list_buf
         \/ /\ sock'[c] = "closed"
            /\ SoFar(resp'[c], client[c].list_buf, Len(client[c].list_buf))
<1> DEFINE cl == client[c]
           buf == cl.list_buf
           done == cl.list_sent
           left == Len(buf) - done
           units(n) == SubSeq(buf, done + 1, done + n)
           cl1(n) == [cl EXCEPT !.list_sent = @ + n]
<1>1. /\ cl \in ClientType /\ buf \in Seq(RespUnit) /\ done \in Nat
      /\ Len(buf) \in Nat /\ done <= Len(buf) /\ resp[c] \in Seq(RespUnit)
      /\ cl.state = "SEND_LIST_DATA"
  BY DEF Base, ClientType, Typed
<1>2. SoFar(resp[c], buf, done)
  BY DEF Telling, SoFar
<1>3. PICK n \in Accepts(left) :
        /\ Written(c, units(n), n < left)
        /\ IF n < left THEN Keep(c, cl1(n), dir)
           ELSE close_and_cleanup(c, [cl1(n) EXCEPT !.state = "DONE"], dir)
  BY DEF send_list_data, WriteError
<1>4. cl1(n).state = "SEND_LIST_DATA" /\ cl1(n).list_buf = buf
  BY <1>1 DEF ClientType
<1> HIDE DEF cl, buf, done, cl1
<1>5. left \in Nat /\ done + left = Len(buf)
  BY <1>1
<1>6. n \in Nat /\ n <= left
  BY <1>5, AcceptsRange
<1>7. CASE n < left /\ Keep(c, cl1(n), dir)
  <2>1. sock'[c] = "open" /\ client'[c] = cl1(n)
    BY <1>7 DEF Keep, Typed
  <2> QED
    BY <1>4, <2>1 DEF buf, cl
<1>8. CASE /\ ~(n < left)
           /\ close_and_cleanup(c, [cl1(n) EXCEPT !.state = "DONE"], dir)
  <2>1. n = left
    BY <1>5, <1>6, <1>8
  <2>2. /\ units(n) \in Seq(RespUnit) /\ Len(units(n)) = n
        /\ \A k \in 1..n : units(n)[k] = buf[done + k]
    <3>1. done + n <= Len(buf)
      BY <1>1, <1>5, <1>6
    <3>2. buf \in Seq(RespUnit) /\ done \in Nat /\ n \in Nat
      BY <1>1, <1>6
    <3>3. \A m, p \in Nat : m + p <= Len(buf) =>
            /\ SubSeq(buf, m + 1, m + p) \in Seq(RespUnit)
            /\ Len(SubSeq(buf, m + 1, m + p)) = p
            /\ \A k \in 1..p : SubSeq(buf, m + 1, m + p)[k] = buf[m + k]
      BY <3>2, Slice
    <3> QED
      BY <3>1, <3>2, <3>3
  <2>3. resp'[c] = resp[c] \o units(n) /\ sock'[c] = "closed"
    BY <1>3, <1>8 DEF Written, close_and_cleanup, Typed
  <2> HIDE DEF units
  <2>4. NextOf(units(n), buf, done)
    BY <2>2 DEF NextOf
  <2>5. SoFar(resp[c] \o units(n), buf, done + Len(units(n)))
    BY <1>1, <1>2, <2>2, <2>4, ListMore
  <2>6. done + Len(units(n)) = Len(buf)
    BY <1>5, <2>1, <2>2
  <2>7. SoFar(resp'[c], buf, Len(buf))
    BY <2>3, <2>5, <2>6
  <2> QED
    BY <2>3, <2>7 DEF buf, cl
<1> QED
  BY <1>3, <1>7, <1>8

(* What follows the status line names what the buffer names.               *)
LEMMA SameNames ==
  ASSUME NEW s, NEW buf \in Seq(RespUnit), SoFar(s, buf, Len(buf)),
         s[1] = <<"OK", 1>>, s[2] = <<"OK", 2>>
  PROVE  NamesIn(s) = NamesIn(buf)
<1>1. /\ Len(buf) \in Nat /\ Len(s) = 2 + Len(buf)
      /\ \A p \in 1..Len(buf) : s[2 + p] = buf[p]
  BY DEF SoFar
<1>2. ASSUME NEW k \in 1..Len(s), s[k][1] = "FILE"
      PROVE  k - 2 \in 1..Len(buf) /\ s[k] = buf[k - 2]
  <2>1. k # 1 /\ k # 2
    BY <1>2
  <2>2. k - 2 \in 1..Len(buf) /\ 2 + (k - 2) = k
    BY <1>1, <2>1
  <2> QED
    BY <1>1, <2>2
<1>3. ASSUME NEW k \in 1..Len(buf)
      PROVE  2 + k \in 1..Len(s) /\ s[2 + k] = buf[k]
  BY <1>1
<1>4. ASSUME NEW x \in NamesIn(s) PROVE x \in NamesIn(buf)
  <2>1. PICK k \in 1..Len(s) : s[k][1] = "FILE" /\ x = s[k][2]
    BY <1>4 DEF NamesIn
  <2> QED
    BY <1>2, <2>1 DEF NamesIn
<1>5. ASSUME NEW x \in NamesIn(buf) PROVE x \in NamesIn(s)
  <2>1. PICK k \in 1..Len(buf) : buf[k][1] = "FILE" /\ x = buf[k][2]
    BY <1>5 DEF NamesIn
  <2> QED
    BY <1>3, <2>1 DEF NamesIn
<1> QED
  BY <1>4, <1>5

(* While a response is sent the disk and the answer stay, and a list is    *)
(* shown once.                                                             *)
Shows(c) ==
  /\ req[c].verb = "LIST" /\ Answer(c) = "OK" /\ ShownNames(c) = {}
  /\ ShownNames(c)' = {Listed(server_files)}

LEMMA SendingStays ==
  ASSUME AllInv, AllInv', NEW c \in Conn, Dispatch(c),
         client[c].state \in Sending
  PROVE  /\ DiskStays /\ Answer(c)' = Answer(c)
         /\ ShownNames(c)' = ShownNames(c) \/ Shows(c)
<1> DEFINE cl == client[c]
<1>1. /\ Typed /\ IInv /\ AnswerInv /\ IntentInv
      /\ rst = {} /\ rst' = {}
  BY DEF AllInv, AloneInv, StoreInv, IInv, TypeOK, Typed
<1>2. /\ sock[c] = "open" /\ Good(c, cl, taken[c]) /\ req' = req
      /\ Extends(resp[c], resp'[c]) /\ resp'[c] \in Seq(RespUnit)
  BY <1>1, DispatchHandled
  DEF peerVars, Handled, Outcome, WritesOn, WritesOK
<1>3. /\ cl \in ClientType /\ Telling(c, cl, resp[c])
      /\ ~HandleError(c)
  BY <1>1, <1>2 DEF AnswerInv, AnswerOK, Good, Base, HandleError
<1>4. WordsOK /\ WordsOK' /\ ShownOK /\ ShownOK'
  BY WordsRight, ShownRight, PTL DEF AllInv
<1>5. ~FillsFile(c)
  BY DEF FillsFile, Sending
<1>6. CASE NothingToDo(c)
  <2>1. /\ client'[c] = client[c] /\ resp' = resp /\ sock' = sock
        /\ UNCHANGED <<dir, data, server_files>>
    BY <1>1, <1>6 DEF NothingToDo, NoWrite, writeVars, Keep, Typed
  <2>2. ~FillsFile(c)'
    BY <1>5, <2>1 DEF FillsFile
  <2>3. DiskStays
    BY <1>1, <1>5, <2>1, <2>2, DiskSame
  <2>4. Answer(c)' = Answer(c) /\ ShownNames(c)' = ShownNames(c)
    BY <1>2, <2>1 DEF Answer, Says, ShownNames
  <2> QED
    BY <2>3, <2>4
<1>7. CASE HandleWrite(c) /\ cl.state \in {"SEND_OK", "SEND_ERROR"}
  <2>1. /\ execute_simple_response_write(c, cl, dir)
        /\ UNCHANGED <<data, server_files>>
    BY <1>7 DEF HandleWrite, handle_write_event
  <2>2. CASE cl.state = "SEND_OK"
    <3>1. /\ cl.simple_response_buf = OkLine
          /\ cl.simple_response_sent <= Len(OkLine)
          /\ resp[c] = SubSeq(OkLine, 1, cl.simple_response_sent)
      BY <1>2, <1>3, <2>2 DEF Telling, SentOf, Good, Base
    <3> HIDE DEF cl
    <3>2. dir' = dir /\ Responds(c, "OK")
      BY <1>2, <1>3, <2>1, <2>2, <3>1, Responded
    <3>3. DiskStays
      BY <1>1, <1>5, <2>1, <3>2, DiskSame DEF Responds
    <3>4. Answer(c) = "OK" /\ ShownNames(c) = {}
      BY <1>2, <1>4, <2>2 DEF WordsOK, ShownOK, Sending, cl
    <3> QED
      BY <3>2, <3>3, <3>4 DEF Responds, Shows
  <2>3. CASE cl.state = "SEND_ERROR"
    <3>1. PICK m \in Message :
            /\ cl.simple_response_buf = ErrorLines(m)
            /\ cl.simple_response_sent <= Len(ErrorLines(m))
            /\ resp[c] = SubSeq(ErrorLines(m), 1, cl.simple_response_sent)
      BY <1>2, <1>3, <2>3 DEF Telling, SentOf, Good, Base
    <3> HIDE DEF cl
    <3>2. dir' = dir /\ Responds(c, "ERROR")
      BY <1>2, <1>3, <2>1, <2>3, <3>1, Responded
    <3>3. DiskStays
      BY <1>1, <1>5, <2>1, <3>2, DiskSame DEF Responds
    <3>4. Answer(c) = "ERROR" /\ ShownNames(c) = {}
      BY <1>2, <1>4, <2>3 DEF WordsOK, ShownOK, Sending, cl
    <3> QED
      BY <3>2, <3>3, <3>4 DEF Responds
  <2> QED
    BY <1>7, <2>2, <2>3
<1>8. CASE HandleWrite(c) /\ cl.state \notin {"SEND_OK", "SEND_ERROR"}
  <2>1. /\ cl.state \in {"SEND_LIST_DATA", "SEND_GET_SIZE", "SEND_GET_DATA"}
        /\ req[c].verb \in {"LIST", "GET"}
        /\ Len(resp[c]) >= 2
        /\ resp[c][1] = <<"OK", 1>> /\ resp[c][2] = <<"OK", 2>>
    BY <1>3, <1>8 DEF Telling, Answers, Sending
  <2>2. /\ Len(resp'[c]) >= 2
        /\ resp'[c][1] = <<"OK", 1>> /\ resp'[c][2] = <<"OK", 2>>
    <3>1. Len(resp[c]) \in Nat /\ Len(resp'[c]) \in Nat
      BY <1>1, <1>2 DEF Typed
    <3>2. 1 \in 1..Len(resp[c]) /\ 2 \in 1..Len(resp[c])
      BY <2>1, <3>1
    <3>3. Len(resp'[c]) >= 2
      BY <1>2, <2>1, <3>1 DEF Extends
    <3> QED
      BY <1>2, <2>1, <3>2, <3>3 DEF Extends
  <2>3. Answer(c) = "OK" /\ Answer(c)' = "OK"
    <3>1. resp[c] # <<>> /\ resp'[c] # <<>>
      BY <1>2, <2>1, <2>2
    <3> QED
      BY <2>1, <2>2, <3>1 DEF Answer, Says
  <2>4. DiskStays
    <3>1. UNCHANGED <<dir, data, server_files>>
      BY <1>1, <2>1, OwnOther DEF Stores, Removal
    <3>2. ~FillsFile(c)'
      <4>1. UploadsNamed'
        BY FilesNamed, PTL DEF AllInv
      <4> QED
        BY <1>2, <2>1, <4>1 DEF UploadsNamed
    <3> QED
      BY <1>1, <1>5, <3>1, <3>2, DiskSame
  <2>5. CASE cl.state # "SEND_LIST_DATA"
    <3>1. req[c].verb = "GET"
      BY <1>3, <2>1, <2>5 DEF Telling
    <3>2. ShownNames(c) = {} /\ ShownNames(c)' = {}
      BY <1>2, <1>4, <3>1 DEF ShownOK
    <3> QED
      BY <2>3, <2>4, <3>2
  <2>6. CASE cl.state = "SEND_LIST_DATA"
    <3>1. send_list_data(c)
      BY <1>8, <2>6 DEF HandleWrite, handle_write_event
    <3>2. ShownNames(c) = {NamesIn(cl.list_buf)}
      BY <1>2, <2>6 DEF ShownNames
    <3>3. Base(cl) /\ c \notin rst' /\ req[c].verb = "LIST"
      BY <1>1, <1>2, <1>3, <2>6 DEF Good, Telling
    <3>4. \/ /\ sock'[c] = "open" /\ client'[c].state = "SEND_LIST_DATA"
             /\ client'[c].list_buf = cl.list_buf
          \/ /\ sock'[c] = "closed"
             /\ SoFar(resp'[c], cl.list_buf, Len(cl.list_buf))
      BY <1>1, <1>2, <1>3, <2>6, <3>1, <3>3, ListSent
    <3>5. CASE /\ sock'[c] = "open" /\ client'[c].state = "SEND_LIST_DATA"
               /\ client'[c].list_buf = cl.list_buf
      BY <2>3, <2>4, <3>2, <3>5 DEF ShownNames
    <3>6. CASE /\ sock'[c] = "closed"
               /\ SoFar(resp'[c], cl.list_buf, Len(cl.list_buf))
      <4>1. cl.list_buf \in Seq(RespUnit) /\ Len(cl.list_buf) >= 2
        BY <1>3, <2>6 DEF ClientType, Telling, ListBuffer
      <4>2. NamesIn(resp'[c]) = NamesIn(cl.list_buf)
        BY <2>2, <3>6, <4>1, SameNames
      <4>3. Len(resp'[c]) > Len(OkLine)
        BY <3>6, <4>1, TwoLines DEF SoFar
      <4>4. ShownNames(c)' = {NamesIn(cl.list_buf)}
        BY <1>2, <3>3, <3>6, <4>2, <4>3 DEF ShownNames
      <4> QED
        BY <2>3, <2>4, <3>2, <4>4
    <3> QED
      BY <3>4, <3>5, <3>6
  <2> QED
    BY <2>5, <2>6
<1> QED
  BY <1>3, <1>6, <1>7, <1>8
  DEF Dispatch, HandleRead, handle_read_event, Sending

(* What becomes of the store in a step of c, as FileStore has it.          *)
Sets(c, v) ==
  /\ req[c].name \in Name
  /\ \A n \in Name :
       Content(n)' = IF n = req[c].name THEN v ELSE Content(n)

Idles(c) == DiskStays /\ Tells(c, Answer(c), ShownNames(c))

Asks(c, verb) == req[c].verb = verb /\ Sound(req[c]) /\ Answer(c) = "none"

Refuses(c) ==
  /\ Answer(c) = "none"
  /\ Sound(req[c]) => "open" \in Faults /\ req[c].verb \in {"GET", "PUT"}
  /\ req[c].verb = "PUT" /\ req[c].name \in Name
       => Content(req[c].name) # Changing
  /\ DiskStays /\ Tells(c, "ERROR", ShownNames(c))

Begins(c) ==
  /\ Asks(c, "PUT") /\ Sets(c, Changing)
  /\ Listed(server_files') = Listed(server_files)
  /\ Tells(c, "none", ShownNames(c))

Puts(c) ==
  /\ Asks(c, "PUT") /\ Sets(c, Stored(BodyUnits(c, 1, req[c].size)))
  /\ Listed(server_files') = Listed(server_files) \cup {req[c].name}
  /\ Tells(c, "OK", ShownNames(c))

LEMMA SoundUpload ==
  ASSUME Orderly, NEW c \in Conn, NEW r \in Requests[c], r.verb = "PUT",
         r.name \in Name, r.len >= HeaderLen + SizeLen
  PROVE  Sound(r)
<1>1. /\ r.len \in Nat /\ HeaderLen \in Nat /\ SizeLen \in Nat
      /\ r.name # NoName
  BY ConstantsAssumption DEF Request
<1>2. SentWhole(r)
  BY DEF Orderly
<1> QED
  BY <1>1, <1>2 DEF Sound, SentWhole, Malformed, Verb

(* An upload has been told nothing, or OK, or of its error.                *)
UploadWordsOK ==
  \A c \in Conn : req[c].verb = "PUT" /\ sock[c] \in {"open", "closed"} =>
    \/ Silent(c) /\ Answer(c) = "none"
    \/ Confirming(c) /\ Answer(c) = "OK"
    \/ Answer(c) = "ERROR"

LEMMA UploadWords == AllInv => UploadWordsOK
<1> SUFFICES ASSUME AllInv, NEW c \in Conn, req[c].verb = "PUT",
                    sock[c] \in {"open", "closed"}
             PROVE  \/ Silent(c) /\ Answer(c) = "none"
                    \/ Confirming(c) /\ Answer(c) = "OK"
                    \/ Answer(c) = "ERROR"
  BY DEF UploadWordsOK
<1>1. /\ ReplyOK(c) /\ AnswerOK(c) /\ HeardOut(c) /\ PeerOK(c) /\ c \notin rst
      /\ ClientOK(c) /\ resp[c] \in Seq(RespUnit) /\ Made(c)
  BY DEF AllInv, ReplyInv, AnswerInv, EndInv, StoreInv, IInv, ClientInv,
         TypeOK, Made
<1>2. WordsOK
  BY WordsRight DEF AllInv
<1>3. CASE sock[c] = "open"
  <2>1. UploadTold(c)
    BY <1>1, <1>3 DEF ReplyOK
  <2> QED
    BY <1>2, <1>3, <2>1
    DEF UploadTold, WordsOK, Silent, Confirming, Sending
<1>4. CASE sock[c] = "closed" /\ resp[c] = <<>>
  <2>1. client[c].state \in Receiving
    BY <1>1, <1>4 DEF ClientOK, client_create, Receiving
  <2> QED
    BY <1>2, <1>4, <2>1 DEF WordsOK, Silent
<1>5. CASE sock[c] = "closed" /\ resp[c] # <<>>
  <2>1. \/ IsPrefix(resp[c], OkLine)
        \/ \E m \in Message : IsPrefix(resp[c], ErrorLines(m))
    BY <1>1, <1>5 DEF AnswerOK, Told
  <2>2. Len(resp[c]) \in Nat /\ Len(resp[c]) >= 1
    BY <1>1, <1>5
  <2>3. ASSUME NEW s \in Seq(RespUnit), IsPrefix(resp[c], s)
        PROVE  resp[c][1] = s[1] /\ (Len(resp[c]) = Len(s) => resp[c] = s)
    <3>1. /\ Len(resp[c]) <= Len(s) /\ Len(s) \in Nat
          /\ resp[c] = SubSeq(s, 1, Len(resp[c]))
      BY <2>3 DEF IsPrefix
    <3>2. resp[c][1] = s[1]
      BY <2>2, <2>3, <3>1, SubSeqProperties
    <3> QED
      BY <2>3, <3>1, <3>2, SubSeqFull
  <2>4. CASE IsPrefix(resp[c], OkLine)
    <3>1. resp[c][1] = <<"OK", 1>>
      BY <2>3, <2>4, TwoLines
    <3>2. ReadWhole(c)
      BY <1>1, <1>5, <3>1 DEF ReplyOK, SaidOk
    <3>3. ~(req[c].len < HeaderLen)
      <4>1. /\ req[c].len \in Nat /\ req[c].size \in Nat
            /\ arrived[c] \in Nat
            /\ HeaderLen \in Nat /\ SizeLen \in Nat
        BY ConstantsAssumption DEF AllInv, IInv, TypeOK, Request
      <4>2. taken[c] = HeaderLen + SizeLen + req[c].size
            /\ taken[c] <= arrived[c] /\ arrived[c] <= req[c].len
        BY <1>1, <3>2 DEF ReadWhole, ClientOK, PeerOK
      <4> QED
        BY <4>1, <4>2
    <3>4. Len(resp[c]) >= 2
      BY <1>1, <1>5, <3>3 DEF HeardOut
    <3>5. Len(resp[c]) = 2
      <4>1. Len(resp[c]) <= Len(OkLine)
        BY <2>4 DEF IsPrefix
      <4>2. Len(resp[c]) <= 2
        BY <4>1, TwoLines
      <4>3. \A k \in Nat : k >= 2 /\ k <= 2 => k = 2
        OBVIOUS
      <4> QED
        BY <2>2, <3>4, <4>2, <4>3, Zenon
    <3>6. resp[c] = OkLine
      BY <2>3, <2>4, <3>5, TwoLines
    <3> QED
      BY <1>2, <1>5, <3>1, <3>6 DEF WordsOK, Confirming
  <2>5. CASE \E m \in Message : IsPrefix(resp[c], ErrorLines(m))
    <3>1. resp[c][1] = <<"ERROR", 1>>
      BY <2>3, <2>5, TwoLines
    <3> QED
      BY <1>2, <1>5, <3>1 DEF WordsOK
  <2> QED
    BY <2>1, <2>4, <2>5
<1> QED
  BY <1>3, <1>4, <1>5

(* A step of an upload that is not yet answered.                           *)
LEMMA UploadStep ==
  ASSUME Orderly, AllInv, AllInv', NEW c \in Conn, Dispatch(c),
         req[c].verb = "PUT", client[c].state \in Receiving
  PROVE  Idles(c) \/ Refuses(c) \/ Begins(c) \/ Puts(c)
<1> SUFFICES ASSUME NEW n, n = req[c].name
             PROVE  Idles(c) \/ Refuses(c) \/ Begins(c) \/ Puts(c)
  OBVIOUS
<1> DEFINE Alike == Listed(server_files') = Listed(server_files)
<1>1. /\ Typed /\ IInv /\ IInv' /\ AnswerInv /\ IntentInv /\ PeersInv /\ PeersInv'
      /\ rst = {} /\ (FillsFile(c) => Storing(c))
  BY DEF AllInv, AloneInv, StoreInv, IInv, TypeOK, Typed, PeersInv, AllPeers
<1>2. /\ sock[c] = "open" /\ Made(c) /\ req' = req /\ arrived' = arrived
      /\ sock'[c] \in {"open", "closed"} /\ Made(c)'
  <2>1. /\ sock[c] = "open" /\ Made(c) /\ UNCHANGED peerVars /\ Handled(c)
    BY <1>1, DispatchHandled
  <2> QED
    BY <1>1, <2>1
    DEF peerVars, Handled, Outcome, Leaves, StaysOpenWith, IsClosed, Typed, Made
<1>3. Answer(c) = "none" /\ ShownNames(c) = {} /\ ShownNames(c)' = {}
  <2>1. WordsOK /\ ShownOK /\ ShownOK'
    BY WordsRight, ShownRight, PTL DEF AllInv
  <2> QED
    BY <1>2, <2>1 DEF WordsOK, ShownOK
<1>4. Result(c) /\ ~Trouble(c)
  BY <1>1, <1>2, OwnUpload, NoTrouble
<1>5. \/ Silent(c)' /\ Answer(c)' = "none"
      \/ Confirming(c)' /\ Answer(c)' = "OK"
      \/ Answer(c)' = "ERROR"
  <2>1. UploadWordsOK'
    BY UploadWords, PTL
  <2> QED
    BY <1>2, <2>1 DEF UploadWordsOK
<1>6. /\ \A m \in Name : m # n =>
           /\ Content(m)' = Content(m)
           /\ m \in Listed(server_files') <=> m \in Listed(server_files)
      /\ Listed(server_files) \subseteq Name
      /\ Listed(server_files') \subseteq Name
  BY <1>1, ContentElsewhere
<1>7. ASSUME NEW x \in Conn, x # c, n \in Name
      PROVE  /\ FillsFile(x)' <=> FillsFile(x)
             /\ client'[x] = client[x]
             /\ FillsFile(x) => client[x].file_fd \in Conn
                                /\ req[client[x].file_fd].name # n
  <2>1. /\ FillsFile(x)' <=> FillsFile(x)
        /\ client'[x] = client[x]
    BY <1>1, <1>7, OthersFrame DEF FillsFile
  <2>2. ASSUME FillsFile(x)
        PROVE  client[x].file_fd \in Conn /\ req[client[x].file_fd].name # n
    BY <1>1, <1>2, <1>7, <2>2, Exclusive, FilesOfName
  <2> QED
    BY <2>1, <2>2
<1>8. ASSUME n \in Name, ~FillsFile(c), dir[n] # NoInode PROVE ~Writing(n)
  <2>1. req[dir[n]].name = n
    BY <1>1, <1>8, FilesOfName
  <2> QED
    BY <1>7, <1>8, <2>1 DEF Writing
<1>9. ASSUME n \in Name, ~FillsFile(c)', dir'[n] # NoInode PROVE ~Writing(n)'
  <2>1. req[dir'[n]].name = n
    BY <1>1, <1>2, <1>9 DEF IInv, DirOK
  <2> QED
    BY <1>7, <1>9, <2>1 DEF Writing
<1>10. ASSUME FillsFile(c)' \/ Kept(c)', taken'[c] >= HeaderLen + SizeLen
       PROVE  n \in Name /\ Sound(req[c])
  <2>1. n \in Name
    <3>1. UploadsNamed'
      BY <1>1, FilesNamed, PTL
    <3>2. Kept(c)' => n \in Name
      BY <1>2, <1>6 DEF Kept
    <3> QED
      BY <1>2, <1>10, <3>1, <3>2 DEF UploadsNamed
  <2>2. /\ taken'[c] <= arrived[c] /\ arrived[c] <= req[c].len
        /\ req[c] \in Requests[c]
    BY <1>1, <1>2
    DEF IInv, ClientInv, ClientOK, PeersInv, AllPeers, PeerOK
  <2>3. req[c].len >= HeaderLen + SizeLen
    <3>1. /\ taken'[c] \in Nat /\ arrived[c] \in Nat /\ req[c].len \in Nat
          /\ HeaderLen + SizeLen \in Nat
      BY <1>1, ConstantsAssumption DEF IInv, TypeOK, Request
    <3> QED
      BY <1>10, <2>2, <3>1
  <2> QED
    BY <2>1, <2>2, <2>3, SoundUpload
<1>11. CASE /\ ~FillsFile(c) /\ ~FillsFile(c)'
            /\ n \in Name => Spares(n)
            /\ Confirming(c)' => Confirming(c)
            /\ Silent(c)' \/ Refusal(c)
  <2>1. DiskStays
    <3>1. n \in Name => Content(n)' = Content(n)
      BY <1>8, <1>9, <1>11 DEF Spares, Content
    <3>2. Alike
      BY <1>6, <1>11 DEF Spares
    <3> QED
      BY <1>6, <3>1, <3>2 DEF DiskStays
  <2>2. ~Confirming(c)
    <3>1. resp[c] = <<>>
      BY <1>1, <1>2 DEF AnswerInv, AnswerOK, Telling
    <3> QED
      BY <3>1 DEF Confirming, OkLine, Receiving
  <2>3. CASE Answer(c)' = "none"
    BY <1>3, <2>1, <2>3 DEF Idles, Tells
  <2>4. CASE Answer(c)' = "ERROR"
    <3>1. Refusal(c)
      BY <1>11, <2>4 DEF Silent, Answer, Says, Receiving
    <3>2. Sound(req[c]) => "open" \in Faults
      <4>1. CASE n = NoName
        BY <4>1 DEF Sound, Malformed
      <4>2. CASE Eof(c) /\ arrived[c] < HeaderLen + SizeLen
        <5>1. arrived[c] = req[c].len
          BY <1>1, <4>2 DEF Eof, PeersInv, AllPeers, PeerOK
        <5>2. /\ arrived[c] \in Nat /\ req[c].size \in Nat
              /\ HeaderLen + SizeLen \in Nat
          BY <1>1, ConstantsAssumption DEF IInv, TypeOK, Request
        <5>3. req[c].len # HeaderLen + SizeLen + req[c].size
          BY <4>2, <5>1, <5>2
        <5> QED
          BY <5>3 DEF Sound
      <4> QED
        BY <3>1, <4>1, <4>2 DEF Refusal
    <3>3. n \in Name => Content(n) # Changing
      BY <1>8, <1>11 DEF Content, None, Changing, Stored
    <3> QED
      BY <1>3, <2>1, <2>4, <3>2, <3>3 DEF Refuses, Tells
  <2> QED
    BY <1>5, <1>11, <2>2, <2>3, <2>4
<1>12. CASE /\ Storing(c)' /\ ~Confirming(c)' /\ server_files' = server_files
  <2>1. FillsFile(c)' /\ dir'[n] = client'[c].file_fd
    BY <1>2, <1>12 DEF Storing
  <2>2. Good(c, client[c], taken[c])' /\ client'[c].state = "RECV_PUT_DATA"
        /\ sock'[c] = "open"
    BY <1>1, <2>1 DEF FillsFile, IInv, ClientInv, ClientOK
  <2>3. taken'[c] >= HeaderLen + SizeLen /\ dir'[n] # NoInode
    <3>1. /\ taken'[c] = HeaderLen + SizeLen + client'[c].bytes_transferred
          /\ client'[c].bytes_transferred \in Nat
          /\ client'[c].file_fd # NoInode
      BY <2>2 DEF Good, Base, PositionOK, FileOK, HoldsFile, ClientType
    <3> QED
      BY <2>1, <3>1, ConstantsAssumption
  <2>4. n \in Name /\ Sound(req[c])
    BY <1>10, <2>1, <2>3
  <2>5. Content(n)' = Changing
    BY <2>1, <2>3 DEF Content, Writing
  <2>6. Answer(c)' = "none"
    <3>1. resp'[c] = <<>>
      BY <1>1, <2>2 DEF AllInv, AnswerInv, AnswerOK, Telling, Receiving
    <3> QED
      BY <2>2, <3>1 DEF Answer, Says
  <2> QED
    BY <1>3, <1>6, <1>12, <2>4, <2>5, <2>6 DEF Begins, Asks, Sets, Tells
<1>13. CASE /\ Kept(c)' /\ ~FillsFile(c)' /\ taken'[c] = WholeLen(c)
            /\ Confirming(c)'
  <2>1. n \in Name /\ Sound(req[c])
    <3>1. taken'[c] >= HeaderLen + SizeLen
      <4>1. req[c].size \in Nat /\ HeaderLen + SizeLen \in Nat
        BY <1>1, ConstantsAssumption DEF IInv, TypeOK, Request
      <4> QED
        BY <1>13, <4>1 DEF WholeLen
    <3> QED
      BY <1>10, <1>13, <3>1
  <2>2. Content(n)' = Stored(BodyUnits(c, 1, req[c].size))
    BY <1>2, <1>9, <1>13, <2>1 DEF Kept, Content
  <2>3. Listed(server_files') = Listed(server_files) \cup {n}
    <3>1. n \in Listed(server_files')
      BY <1>2, <1>13 DEF Kept
    <3> QED
      BY <1>6, <2>1, <3>1
  <2>4. Answer(c)' = "OK"
    BY <1>13 DEF Confirming, Answer, Says, OkLine
  <2> QED
    BY <1>3, <1>6, <2>1, <2>2, <2>3, <2>4 DEF Puts, Asks, Sets, Tells
<1> QED
  BY <1>4, <1>11, <1>12, <1>13 DEF Result, Receiving, Sending

Gets(c) ==
  /\ Asks(c, "GET") /\ req[c].name \in Name /\ Content(req[c].name) # None
  /\ DiskStays /\ Tells(c, "OK", ShownNames(c))

GetsMissing(c) ==
  /\ Asks(c, "GET") /\ req[c].name \in Name /\ Content(req[c].name) = None
  /\ DiskStays /\ Tells(c, "ERROR", ShownNames(c))

Deletes(c) ==
  /\ Asks(c, "DELETE") /\ req[c].name \in Listed(server_files)
  /\ Sets(c, None)
  /\ Listed(server_files') = Listed(server_files) \ {req[c].name}
  /\ Tells(c, "OK", ShownNames(c))

DeletesMissing(c) ==
  /\ Asks(c, "DELETE") /\ req[c].name \notin Listed(server_files)
  /\ DiskStays /\ Tells(c, "ERROR", ShownNames(c))

Lists(c) ==
  /\ Asks(c, "LIST") /\ ShownNames(c) = {}
  /\ DiskStays /\ Answer(c)' = "OK"
  /\ ShownNames(c)' \in {{}, {Listed(server_files)}}

OneAnswer(c) ==
  \/ Idles(c) \/ Refuses(c) \/ Gets(c) \/ GetsMissing(c)
  \/ Deletes(c) \/ DeletesMissing(c) \/ Lists(c)

(* A connection whose command line is being read, with no upload on it.    *)
Listening(c) ==
  /\ Dispatch(c) /\ sock[c] = "open" /\ req' = req /\ req[c].verb # "PUT"
  /\ resp[c] = <<>> /\ Answer(c) = "none" /\ ShownNames(c) = {}
  /\ ~FillsFile(c)

LEMMA ErrorServed ==
  ASSUME AllInv, AllInv', NEW c \in Conn, Listening(c),
         NEW cl \in ClientType, NEW m \in Message,
         UNCHANGED <<data, server_files>>, send_error(c, cl, m, dir)
  PROVE  DiskStays /\ Tells(c, "ERROR", ShownNames(c))
<1>1. dir' = dir /\ Responds(c, "ERROR")
  BY ErrorGiven DEF Listening
<1>2. Typed
  BY DEF AllInv, IInv, TypeOK, Typed
<1>3. DiskStays
  BY <1>1, <1>2, DiskSame DEF AllInv, Listening, Responds
<1> QED
  BY <1>1, <1>3 DEF Listening, Responds, Tells

LEMMA OkServed ==
  ASSUME AllInv, AllInv', NEW c \in Conn, Listening(c),
         NEW cl \in ClientType,
         UNCHANGED <<data, server_files>>, send_ok(c, cl, dir)
  PROVE  DiskStays /\ Responds(c, "OK")
<1>1. dir' = dir /\ Responds(c, "OK")
  BY OkGiven DEF Listening
<1>2. Typed
  BY DEF AllInv, IInv, TypeOK, Typed
<1> QED
  BY <1>1, <1>2, DiskSame DEF AllInv, Listening, Responds

LEMMA NothingServed ==
  ASSUME AllInv, AllInv', NEW c \in Conn, Listening(c), NEW cl,
         cl.state = "RECV_HEADER", UNCHANGED <<data, server_files>>, NoWrite,
         \/ Keep(c, cl, dir)
         \/ close_and_cleanup(c, cl, dir) /\ cl.request_verb # "PUT"
  PROVE  Idles(c)
<1>1. Typed /\ WordsOK' /\ ShownOK'
  BY WordsRight, ShownRight, PTL DEF AllInv, IInv, TypeOK, Typed
<1>2. resp'[c] = <<>> /\ dir' = dir
  BY DEF NoWrite, writeVars, Listening, Keep, close_and_cleanup, RemovesUpload
<1>3. \/ sock'[c] = "open" /\ client'[c].state = "RECV_HEADER"
      \/ sock'[c] = "closed"
  BY <1>1 DEF Keep, close_and_cleanup, Typed, Listening
<1>4. ~FillsFile(c)'
  BY <1>3 DEF FillsFile
<1>5. DiskStays
  BY <1>1, <1>2, <1>4, DiskSame DEF AllInv, Listening
<1>6. Answer(c)' = "none" /\ ShownNames(c)' = {}
  BY <1>1, <1>2, <1>3 DEF WordsOK, ShownOK, Receiving
<1> QED
  BY <1>5, <1>6 DEF Idles, Tells, Listening

LEMMA GetServed ==
  ASSUME AllInv, AllInv', NEW c \in Conn, Listening(c),
         NEW cl \in ClientType, cl.filename = req[c].name,
         req[c].verb = "GET", req[c].name \in Name,
         UNCHANGED <<data, server_files>>, start_send_get(c, cl)
  PROVE  OneAnswer(c)
<1> DEFINE n == req[c].name
           cl1 == [cl EXCEPT !.file_fd = dir[cl.filename],
                             !.file_size = Len(data[dir[cl.filename]]),
                             !.bytes_transferred = 0]
<1>1. Asks(c, "GET")
  BY ConstantsAssumption DEF Asks, Sound, Malformed, Verb, Listening
<1>2. Content(n) = None <=> dir[n] = NoInode
  BY DEF Content, None, Changing, Stored
<1>3. CASE dir[n] # NoInode /\ send_ok(c, cl1, dir)
  <2>1. dir[cl.filename] \in Conn /\ Len(data[dir[cl.filename]]) \in Nat
    <3>1. dir[n] \in Conn /\ data[dir[n]] \in Seq(Unit)
      BY <1>3 DEF AllInv, IInv, TypeOK
    <3> QED
      BY <3>1
  <2>2. cl1 \in ClientType
    BY <2>1 DEF ClientType
  <2> HIDE DEF cl1
  <2>3. DiskStays /\ Responds(c, "OK")
    BY <1>3, <2>2, OkServed
  <2> QED
    BY <1>1, <1>2, <1>3, <2>3
    DEF OneAnswer, Gets, Responds, Tells, Listening
<1>4. CASE /\ dir[n] = NoInode \/ "open" \in Faults
           /\ send_error(c, cl, "No such file", dir)
  <2>1. DiskStays /\ Tells(c, "ERROR", ShownNames(c))
    BY <1>4, ErrorServed DEF Message
  <2> QED
    BY <1>1, <1>2, <1>4, <2>1 DEF OneAnswer, GetsMissing, Refuses, Listening
<1> QED
  BY <1>3, <1>4 DEF start_send_get

LEMMA DeleteServed ==
  ASSUME Orderly, AllInv, AllInv', NEW c \in Conn, Listening(c),
         NEW cl \in ClientType, cl.filename = req[c].name,
         req[c].verb = "DELETE", req[c].name \in Name,
         data' = data, delete_request(c, cl)
  PROVE  OneAnswer(c)
<1> SUFFICES ASSUME NEW n, n = req[c].name PROVE OneAnswer(c)
  OBVIOUS
<1>1. Asks(c, "DELETE")
  BY ConstantsAssumption DEF Asks, Sound, Malformed, Verb, Listening
<1>2. CASE /\ n \in Listed(server_files)
           /\ server_files' = remove_file_from_list(server_files, n)
           /\ send_ok(c, cl, unlink(dir, n))
  <2>1. dir' = unlink(dir, n) /\ Responds(c, "OK")
    BY <1>2, OkGiven DEF Listening
  <2>2. Content(n)' = None
    BY <2>1 DEF Content, unlink
  <2>3. Listed(server_files') = Listed(server_files) \ {n}
    <3>1. server_files \in Seq(Name) /\ Distinct(server_files)
      BY DEF AllInv, IInv, TypeOK, NoDuplicateNames, Distinct
    <3> QED
      BY <1>2, <3>1, RemovedName
  <2>4. Sets(c, None)
    BY <2>2, ContentElsewhere DEF Sets, AllInv, Listening
  <2> QED
    BY <1>1, <1>2, <2>1, <2>3, <2>4
    DEF OneAnswer, Deletes, Responds, Tells, Listening
<1>3. CASE /\ n \notin Listed(server_files) \/ dir[n] = NoInode
           /\ UNCHANGED server_files
           /\ send_error(c, cl, "No such file", dir)
  <2>1. DiskStays /\ Tells(c, "ERROR", ShownNames(c))
    BY <1>3, ErrorServed DEF Message
  <2>2. Settled(n)
    <3>1. ASSUME NEW x \in Conn, req[x].name = n, FillsFile(x) PROVE FALSE
      <4>1. x # c
        BY <3>1 DEF Listening
      <4>2. PeersInv
        BY DEF AllInv, StoreInv, PeersInv, AllPeers
      <4> QED
        BY <3>1, <4>1, <4>2, Exclusive DEF AllInv, Listening
    <3> QED
      BY <3>1 DEF AllInv, StoreInv, StoreOK
  <2>3. n \notin Listed(server_files)
    BY <1>3, <2>2 DEF Settled
  <2> QED
    BY <1>1, <2>1, <2>3 DEF OneAnswer, DeletesMissing
<1> QED
  BY <1>2, <1>3 DEF delete_request

(* A command line that is read to its end.                                 *)
LEMMA LineServed ==
  ASSUME Orderly, AllInv, AllInv', NEW c \in Conn, Listening(c),
         NEW cl \in ClientType, cl.state = "RECV_HEADER",
         cl.request_verb # "PUT", parse_header_and_transition(c, cl)
  PROVE  OneAnswer(c)
<1> DEFINE r == req[c]
           named == [cl EXCEPT !.request_verb = r.verb, !.filename = r.name]
<1>1. /\ r \in Request /\ r.verb # "PUT" /\ data' = data
      /\ NoName \notin Name
  BY ConstantsAssumption
  DEF AllInv, IInv, TypeOK, Listening, parse_header_and_transition
<1>2. ASSUME Malformed(r), UNCHANGED server_files, NEW x \in ClientType,
             send_error(c, x, "Bad request", dir)
      PROVE  OneAnswer(c)
  <2>1. DiskStays /\ Tells(c, "ERROR", ShownNames(c))
    BY <1>1, <1>2, ErrorServed DEF Message
  <2> QED
    BY <1>1, <1>2, <2>1 DEF OneAnswer, Refuses, Sound, Listening
<1>3. CASE /\ UNCHANGED server_files /\ Malformed(r)
           /\ send_error(c, IF r.verb \in Verb
                              THEN [cl EXCEPT !.request_verb = r.verb]
                              ELSE cl, "Bad request", dir)
  <2>1. (IF r.verb \in Verb THEN [cl EXCEPT !.request_verb = r.verb] ELSE cl)
          \in ClientType
    BY DEF ClientType
  <2> QED
    BY <1>2, <1>3, <2>1
<1>4. CASE r.verb = "NUL" /\ UNCHANGED server_files /\ NoWrite /\ Keep(c, cl, dir)
  BY <1>1, <1>4, NothingServed DEF OneAnswer
<1>5. CASE /\ r.verb = "LIST" /\ r.name = NoName /\ UNCHANGED server_files
           /\ send_ok(c, [cl EXCEPT !.request_verb = "LIST"], dir)
  <2>1. [cl EXCEPT !.request_verb = "LIST"] \in ClientType
    BY DEF ClientType, Verb
  <2>2. DiskStays /\ Responds(c, "OK")
    BY <1>1, <1>5, <2>1, OkServed
  <2>3. Asks(c, "LIST")
    BY <1>5 DEF Asks, Sound, Malformed, Verb, Listening
  <2> QED
    BY <2>2, <2>3 DEF OneAnswer, Lists, Responds, Listening
<1>6. ASSUME r.verb \in Verb, r.name # NoName
      PROVE  /\ named \in ClientType /\ named.filename = r.name
             /\ r.name \in Name
  BY <1>1, <1>6 DEF ClientType, Request
<1>7. CASE r.verb = "DELETE" /\ r.name # NoName /\ delete_request(c, named)
  <2>1. /\ named \in ClientType /\ named.filename = r.name
        /\ r.name \in Name
    BY <1>6, <1>7 DEF Verb
  <2> HIDE DEF named
  <2> QED
    BY <1>1, <1>7, <2>1, DeleteServed
<1>8. CASE /\ r.verb = "GET" /\ r.name # NoName
           /\ UNCHANGED server_files /\ start_send_get(c, named)
  <2>1. /\ named \in ClientType /\ named.filename = r.name
        /\ r.name \in Name
    BY <1>6, <1>8 DEF Verb
  <2> HIDE DEF named
  <2> QED
    BY <1>1, <1>8, <2>1, GetServed
<1>9. \/ r.verb \in {"UNKNOWN", "NUL", "LONG"} /\ Malformed(r)
      \/ r.verb = "LIST" /\ (r.name = NoName \/ Malformed(r))
      \/ r.verb \in {"GET", "DELETE"} /\ (r.name # NoName \/ Malformed(r))
  BY <1>1 DEF Request, Malformed, Verb
<1> QED
  BY <1>1, <1>3, <1>4, <1>5, <1>7, <1>8, <1>9
  DEF parse_header_and_transition

(* A step of another request that is not yet answered.                     *)
LEMMA OtherStep ==
  ASSUME Orderly, AllInv, AllInv', NEW c \in Conn, Dispatch(c),
         req[c].verb # "PUT", client[c].state \in Receiving
  PROVE  OneAnswer(c)
<1>1. /\ Typed /\ IInv /\ AnswerInv /\ IntentInv /\ rst = {}
      /\ WordsOK /\ ShownOK /\ UploadsNamed
  BY WordsRight, ShownRight, FilesNamed
  DEF AllInv, AloneInv, StoreInv, IInv, TypeOK, Typed
<1>2. /\ sock[c] = "open" /\ Good(c, client[c], taken[c]) /\ req' = req
      /\ Intends(c, client[c]) /\ client[c] \in ClientType
      /\ taken[c] <= arrived[c] /\ arrived \in [Conn -> Nat]
      /\ "ERROR" \notin batch[c]
  BY <1>1, DispatchHandled
  DEF peerVars, AnswerInv, AnswerOK, IntentInv, Typed, Context
<1>3. client[c].state = "RECV_HEADER" /\ client[c].request_verb # "PUT"
  BY <1>2 DEF Good, PositionOK, Upload, Intends, Receiving
<1>4. Listening(c)
  BY <1>1, <1>2, <1>3 DEF Listening, WordsOK, ShownOK, UploadsNamed
<1>5. read_header(c)
  BY <1>2, <1>3
  DEF Dispatch, HandleError, HandleRead, HandleWrite, handle_read_event,
      handle_write_event, Sending
<1> DEFINE k == HeaderUnits(c)
           cl == [client[c] EXCEPT !.header_len = @ + k]
           line == k > 0 /\ cl.header_len = HeaderLen
<1>6. cl \in ClientType /\ cl.state = "RECV_HEADER" /\ cl.request_verb # "PUT"
  <2>1. client[c].header_len + k \in 0..HeaderLen
    <3>1. client[c].header_len \in 0..HeaderLen /\ HeaderLen \in Nat
      BY <1>2, ConstantsAssumption DEF ClientType
    <3>2. arrived[c] - taken[c] \in Nat
      BY <1>1, <1>2 DEF Typed
    <3>3. HeaderLen - client[c].header_len \in Nat
      BY <3>1
    <3>4. k \in Nat /\ k <= HeaderLen - client[c].header_len
      BY <3>2, <3>3, LeastRange DEF HeaderUnits
    <3> QED
      BY <3>1, <3>4
  <2> HIDE DEF k
  <2> QED
    BY <1>2, <1>3, <2>1 DEF ClientType
<1>7. \/ line /\ parse_header_and_transition(c, cl)
      \/ /\ line /\ req[c].verb = "LONG"
         /\ UNCHANGED <<data, server_files>>
         /\ send_error(c, cl, "Bad request", dir)
      \/ /\ UNCHANGED <<data, server_files>> /\ NoWrite
         /\ close_and_cleanup(c, cl, dir) \/ Keep(c, cl, dir)
  BY <1>5 DEF read_header
<1> HIDE DEF cl, line
<1>8. CASE parse_header_and_transition(c, cl)
  BY <1>4, <1>6, <1>8, LineServed
<1>9. CASE /\ req[c].verb = "LONG" /\ UNCHANGED <<data, server_files>>
           /\ send_error(c, cl, "Bad request", dir)
  <2>1. DiskStays /\ Tells(c, "ERROR", ShownNames(c))
    BY <1>4, <1>6, <1>9, ErrorServed DEF Message
  <2> QED
    BY <1>4, <1>9, <2>1
    DEF OneAnswer, Refuses, Sound, Malformed, Verb, Listening
<1>10. CASE /\ UNCHANGED <<data, server_files>> /\ NoWrite
            /\ close_and_cleanup(c, cl, dir) \/ Keep(c, cl, dir)
  BY <1>4, <1>6, <1>10, NothingServed DEF OneAnswer
<1> QED
  BY <1>7, <1>8, <1>9, <1>10

-----------------------------------------------------------------------------
(***************************************************************************)
(* Each step of FileServer is a step of FileStore.                         *)
(***************************************************************************)

(* What c has asked, and the answer and the list it has been given, are    *)
(* all that its handler changes beside the disk.                           *)
Framed(c) ==
  /\ AskedAll' = AskedAll
  /\ AnswerAll' = [AnswerAll EXCEPT ![c] = Answer(c)']
  /\ ShownAll' = [ShownAll EXCEPT ![c] = ShownNames(c)']

LEMMA HandlerFrame ==
  ASSUME AllInv, NEW c \in Conn, Dispatch(c)
  PROVE  Framed(c)
<1>1. Typed /\ IInv
  BY DEF AllInv, IInv, TypeOK, Typed
<1>2. /\ req' = req /\ sock[c] = "open" /\ Made(c)
      /\ sock'[c] \in {"open", "closed"}
  <2>1. /\ sock[c] = "open" /\ Made(c) /\ UNCHANGED peerVars /\ Handled(c)
    BY <1>1, DispatchHandled
  <2> QED
    BY <1>1, <2>1
    DEF peerVars, Handled, Outcome, Leaves, StaysOpenWith, IsClosed, Typed
<1>3. ASSUME NEW x \in Conn, x # c
      PROVE  /\ Answer(x)' = Answer(x) /\ ShownNames(x)' = ShownNames(x)
             /\ Made(x)' <=> Made(x)
  <2>1. resp'[x] = resp[x] /\ sock'[x] = sock[x] /\ client'[x] = client[x]
    BY <1>1, <1>3, OthersFrame
  <2> QED
    BY <1>2, <2>1 DEF Answer, Says, ShownNames, Made
<1>4. AskedAll' = AskedAll
  <2>1. \A x \in Conn : Made(x)' <=> Made(x)
    BY <1>2, <1>3 DEF Made
  <2> QED
    BY <1>2, <2>1 DEF AskedAll
<1>5. AnswerAll' = [AnswerAll EXCEPT ![c] = Answer(c)']
  BY <1>3 DEF AnswerAll
<1>6. ShownAll' = [ShownAll EXCEPT ![c] = ShownNames(c)']
  BY <1>3 DEF ShownAll
<1> QED
  BY <1>4, <1>5, <1>6 DEF Framed

LEMMA AskedOf ==
  ASSUME IInv, NEW c \in Conn, Made(c)
  PROVE  /\ AskedAll[c].verb = req[c].verb /\ AskedAll[c].name = req[c].name
         /\ AskedAll[c].sound <=> Sound(req[c])
         /\ req[c].verb = "PUT"
              => AskedAll[c].content = Stored(BodyUnits(c, 1, req[c].size))
         /\ AskedAll[c] # Nothing
         /\ AnswerAll[c] = Answer(c) /\ ShownAll[c] = ShownNames(c)
<1>1. AskedAll[c] = Asked(c, req[c])
  BY DEF AskedAll
<1>2. req[c].verb # "none"
  BY DEF IInv, TypeOK, Request, Verb
<1>3. AskedAll[c] # Nothing
  <2>1. AskedAll[c].verb # Nothing.verb
    BY <1>1, <1>2 DEF Asked, Nothing
  <2> QED
    BY <2>1
<1> QED
  BY <1>1, <1>3 DEF Asked, AnswerAll, ShownAll

LEMMA StoreStays ==
  ASSUME DiskStays
  PROVE  StoreAll' = StoreAll /\ Listed(server_files)' = Listed(server_files)
BY DEF DiskStays, StoreAll

LEMMA StoreSets ==
  ASSUME NEW c \in Conn, NEW v, Sets(c, v)
  PROVE  StoreAll' = [StoreAll EXCEPT ![req[c].name] = v]
BY DEF Sets, StoreAll

LEMMA StoreAt ==
  ASSUME NEW n \in Name
  PROVE  StoreAll[n] = Content(n)
BY DEF StoreAll

LEMMA SameTold ==
  ASSUME NEW c \in Conn, Framed(c)
  PROVE  /\ ShownNames(c)' = ShownNames(c) => ShownAll' = ShownAll
         /\ Answer(c)' = Answer(c) => AnswerAll' = AnswerAll
BY DEF Framed, ShownAll, AnswerAll

LEMMA FrameTells ==
  ASSUME NEW c \in Conn, Framed(c), NEW word, Tells(c, word, ShownNames(c))
  PROVE  /\ AnswerAll' = [AnswerAll EXCEPT ![c] = word]
         /\ ShownAll' = ShownAll /\ AskedAll' = AskedAll
BY SameTold DEF Framed, Tells

LEMMA UploadMoves ==
  ASSUME IInv, NEW c \in Conn, Made(c), Framed(c),
         Refuses(c) \/ Begins(c) \/ Puts(c)
  PROVE  Store!Next
<1>1. CASE Refuses(c)
  <2>1. /\ AnswerAll' = [AnswerAll EXCEPT ![c] = "ERROR"]
        /\ UNCHANGED <<AskedAll, StoreAll, Listed(server_files), ShownAll>>
    BY <1>1, FrameTells, StoreStays DEF Refuses
  <2>2. /\ AskedAll[c] # Nothing /\ AnswerAll[c] = "none"
        /\ AskedAll[c].sound
             => "open" \in Faults /\ AskedAll[c].verb \in {"GET", "PUT"}
    BY <1>1, AskedOf DEF Refuses
  <2>3. AskedAll[c].verb = "PUT" /\ AskedAll[c].name \in Name
          => StoreAll[AskedAll[c].name] # Changing
    BY <1>1, AskedOf, StoreAt DEF Refuses
  <2>4. Store!Refuse(c)
    BY <2>1, <2>2, <2>3 DEF Store!Refuse, Store!N
  <2> QED
    BY <2>4 DEF Store!Next
<1>2. CASE Begins(c)
  <2>1. UNCHANGED <<AskedAll, Listed(server_files), AnswerAll, ShownAll>>
    BY <1>2, FrameTells, SameTold DEF Begins, Asks, Tells
  <2>2. /\ AskedAll[c].verb = "PUT" /\ AskedAll[c].sound
        /\ AnswerAll[c] = "none"
    BY <1>2, AskedOf DEF Begins, Asks
  <2>3. StoreAll' = [StoreAll EXCEPT ![AskedAll[c].name] = Changing]
    BY <1>2, AskedOf, StoreSets DEF Begins
  <2>4. Store!Begin(c)
    BY <2>1, <2>2, <2>3 DEF Store!Begin, Store!N
  <2> QED
    BY <2>4 DEF Store!Next
<1>3. CASE Puts(c)
  <2>1. /\ AnswerAll' = [AnswerAll EXCEPT ![c] = "OK"]
        /\ AskedAll' = AskedAll /\ ShownAll' = ShownAll
    BY <1>3, FrameTells DEF Puts
  <2>2. /\ AskedAll[c].verb = "PUT" /\ AskedAll[c].sound
        /\ AnswerAll[c] = "none"
    BY <1>3, AskedOf DEF Puts, Asks
  <2>3. StoreAll' = [StoreAll EXCEPT ![AskedAll[c].name] = AskedAll[c].content]
    BY <1>3, AskedOf, StoreSets DEF Puts, Asks
  <2>4. Listed(server_files)' = Listed(server_files) \cup {AskedAll[c].name}
    BY <1>3, AskedOf DEF Puts
  <2>5. Store!Put(c)
    BY <2>1, <2>2, <2>3, <2>4 DEF Store!Put, Store!Answers, Store!N
  <2> QED
    BY <2>5 DEF Store!Next
<1> QED
  BY <1>1, <1>2, <1>3

LEMMA OtherMoves ==
  ASSUME IInv, NEW c \in Conn, Made(c), Framed(c), OneAnswer(c)
  PROVE  Store!Next \/ UNCHANGED Store!vars
<1> USE DEF Store!N
<1>1. ASSUME DiskStays
      PROVE  UNCHANGED <<StoreAll, Listed(server_files)>>
  BY <1>1, StoreStays
<1>2. CASE Idles(c)
  <2>1. UNCHANGED <<StoreAll, Listed(server_files)>>
    BY <1>1, <1>2 DEF Idles
  <2>2. UNCHANGED <<AskedAll, AnswerAll, ShownAll>>
    BY <1>2, SameTold DEF Idles, Tells, Framed
  <2> QED
    BY <2>1, <2>2 DEF Store!vars
<1>3. CASE Refuses(c)
  BY <1>3, UploadMoves
<1>4. ASSUME NEW verb, Asks(c, verb)
      PROVE  /\ AskedAll[c].verb = verb /\ AskedAll[c].sound
             /\ AnswerAll[c] = "none" /\ AskedAll[c].name = req[c].name
  BY <1>4, AskedOf DEF Asks
<1>5. ASSUME NEW verb, Asks(c, verb), NEW word, Tells(c, word, ShownNames(c))
      PROVE  Store!Answers(c, verb, word) /\ ShownAll' = ShownAll
  BY <1>4, <1>5, FrameTells DEF Store!Answers
<1>6. CASE Gets(c)
  <2>1. Store!Answers(c, "GET", "OK") /\ ShownAll' = ShownAll
    BY <1>5, <1>6 DEF Gets
  <2>2. UNCHANGED <<StoreAll, Listed(server_files)>>
    BY <1>1, <1>6 DEF Gets
  <2>3. StoreAll[AskedAll[c].name] # None
    BY <1>4, <1>6, StoreAt DEF Gets
  <2> QED
    BY <2>1, <2>2, <2>3 DEF Store!Get, Store!Next
<1>7. CASE GetsMissing(c)
  <2>1. Store!Answers(c, "GET", "ERROR") /\ ShownAll' = ShownAll
    BY <1>5, <1>7 DEF GetsMissing
  <2>2. UNCHANGED <<StoreAll, Listed(server_files)>>
    BY <1>1, <1>7 DEF GetsMissing
  <2>3. StoreAll[AskedAll[c].name] = None
    BY <1>4, <1>7, StoreAt DEF GetsMissing
  <2> QED
    BY <2>1, <2>2, <2>3 DEF Store!GetMissing, Store!Next
<1>8. CASE Deletes(c)
  <2>1. Store!Answers(c, "DELETE", "OK") /\ ShownAll' = ShownAll
    BY <1>5, <1>8 DEF Deletes
  <2>2. AskedAll[c].name = req[c].name
    BY <1>4, <1>8 DEF Deletes
  <2>3. StoreAll' = [StoreAll EXCEPT ![AskedAll[c].name] = None]
    BY <1>8, <2>2, StoreSets DEF Deletes
  <2>4. /\ AskedAll[c].name \in Listed(server_files)
        /\ Listed(server_files)' = Listed(server_files) \ {AskedAll[c].name}
    BY <1>8, <2>2 DEF Deletes
  <2> QED
    BY <2>1, <2>3, <2>4 DEF Store!Delete, Store!Next
<1>9. CASE DeletesMissing(c)
  <2>1. Store!Answers(c, "DELETE", "ERROR") /\ ShownAll' = ShownAll
    BY <1>5, <1>9 DEF DeletesMissing
  <2>2. UNCHANGED <<StoreAll, Listed(server_files)>>
    BY <1>1, <1>9 DEF DeletesMissing
  <2>3. AskedAll[c].name \notin Listed(server_files)
    BY <1>4, <1>9 DEF DeletesMissing
  <2> QED
    BY <2>1, <2>2, <2>3 DEF Store!DeleteMissing, Store!Next
<1>10. CASE Lists(c)
  <2>1. UNCHANGED <<StoreAll, Listed(server_files)>>
    BY <1>1, <1>10 DEF Lists
  <2>2. Store!Answers(c, "LIST", "OK")
    BY <1>4, <1>10 DEF Lists, Framed, Store!Answers
  <2>3. CASE ShownNames(c)' = {}
    <3>1. ShownAll' = ShownAll
      BY <1>10, <2>3, SameTold DEF Lists
    <3> QED
      BY <2>1, <2>2, <3>1 DEF Store!List, Store!Next
  <2>4. CASE ShownNames(c)' = {Listed(server_files)}
    <3>1. ShownAll' = [ShownAll EXCEPT ![c] = {Listed(server_files)}]
      BY <2>4 DEF Framed
    <3>2. ShownAll[c] = {} /\ AskedAll[c].verb = "LIST"
      BY <1>4, <1>10, AskedOf DEF Lists
    <3> QED
      BY <2>1, <2>2, <3>1, <3>2 DEF Store!Show, Store!Next
  <2> QED
    BY <1>10, <2>3, <2>4 DEF Lists
<1> QED
  BY <1>2, <1>3, <1>6, <1>7, <1>8, <1>9, <1>10 DEF OneAnswer

(* While a response is sent.                                               *)
LEMMA SendingMoves ==
  ASSUME IInv, NEW c \in Conn, Made(c), Framed(c), DiskStays,
         Answer(c)' = Answer(c), ShownNames(c)' = ShownNames(c) \/ Shows(c)
  PROVE  Store!Next \/ UNCHANGED Store!vars
<1>1. /\ UNCHANGED <<StoreAll, Listed(server_files)>>
      /\ UNCHANGED <<AskedAll, AnswerAll>>
  BY StoreStays, SameTold DEF Framed
<1>2. CASE ShownNames(c)' = ShownNames(c)
  BY <1>1, <1>2, SameTold DEF Store!vars
<1>3. CASE Shows(c)
  <2>1. /\ AskedAll[c].verb = "LIST" /\ ShownAll[c] = {}
        /\ AnswerAll[c] = "OK"
    BY <1>3, AskedOf DEF Shows
  <2>2. ShownAll' = [ShownAll EXCEPT ![c] = {Listed(server_files)}]
    BY <1>3 DEF Shows, Framed
  <2> QED
    BY <1>1, <2>1, <2>2 DEF Store!Show, Store!Next
<1> QED
  BY <1>2, <1>3

LEMMA HandlerMoves ==
  ASSUME Orderly, AllInv, AllInv', NEW c \in Conn, Dispatch(c)
  PROVE  Store!Next \/ UNCHANGED Store!vars
<1>1. IInv /\ Made(c) /\ Framed(c) /\ client[c] \in ClientType
  BY DispatchHandled, HandlerFrame DEF AllInv, IInv, TypeOK
<1>2. CASE client[c].state \in Sending
  BY <1>1, <1>2, SendingStays, SendingMoves
<1>3. CASE client[c].state \in Receiving /\ req[c].verb # "PUT"
  BY <1>1, <1>3, OtherStep, OtherMoves
<1>4. CASE client[c].state \in Receiving /\ req[c].verb = "PUT"
  <2>1. CASE Idles(c)
    BY <1>1, <2>1, OtherMoves DEF OneAnswer
  <2> QED
    BY <1>1, <1>4, <2>1, UploadStep, UploadMoves
<1> QED
  BY <1>1, <1>2, <1>3, <1>4 DEF ClientType

(* A step that runs no handler shows nothing, or a request.                *)
LEMMA QuietShows ==
  ASSUME AllInv, AllInv', Quiet, dir' = dir, data' = data
  PROVE  UNCHANGED <<StoreAll, Listed(server_files), AnswerAll, ShownAll>>
<1>1. WordsOK /\ WordsOK' /\ ShownOK /\ ShownOK' /\ UploadsNamed /\ UploadsNamed'
  BY WordsRight, ShownRight, FilesNamed, PTL DEF AllInv
<1>2. server_files' = server_files /\ resp' = resp
  BY DEF Quiet
<1>3. ASSUME NEW x \in Conn, sock'[x] = sock[x] /\ client'[x] = client[x]
      PROVE  /\ Answer(x)' = Answer(x) /\ ShownNames(x)' = ShownNames(x)
             /\ FillsFile(x)' <=> FillsFile(x)
  <2>1. Answer(x)' = Answer(x) /\ (FillsFile(x)' <=> FillsFile(x))
    BY <1>2, <1>3 DEF Answer, Says, FillsFile
  <2>2. CASE Made(x)
    <3>1. req'[x] = req[x]
      BY <2>2 DEF Quiet
    <3> QED
      BY <1>2, <1>3, <2>1, <3>1 DEF ShownNames
  <2>3. CASE ~Made(x)
    BY <1>1, <1>3, <2>1, <2>3 DEF ShownOK, Made
  <2> QED
    BY <2>2, <2>3
<1>4. ASSUME NEW x \in Conn, sock[x] = "none", sock'[x] = "backlog"
      PROVE  /\ Answer(x)' = Answer(x) /\ ShownNames(x)' = ShownNames(x)
             /\ ~FillsFile(x) /\ ~FillsFile(x)'
  BY <1>1, <1>4 DEF WordsOK, ShownOK, FillsFile
<1>5. ASSUME NEW x \in Conn, sock[x] = "backlog", sock'[x] = "open",
             client'[x] = client_create
      PROVE  /\ Answer(x)' = Answer(x) /\ ShownNames(x)' = ShownNames(x)
             /\ ~FillsFile(x) /\ ~FillsFile(x)'
  <2>1. client'[x].state = "RECV_HEADER"
    BY <1>5 DEF client_create
  <2>2. Answer(x) = "none" /\ ShownNames(x) = {} /\ ~FillsFile(x)
    BY <1>1, <1>5 DEF WordsOK, ShownOK, FillsFile
  <2>3. ~FillsFile(x)'
    BY <1>5, <2>1 DEF FillsFile
  <2>4. Answer(x)' = "none"
    BY <1>1, <1>5, <2>1 DEF WordsOK, Receiving
  <2>5. ShownNames(x)' = {}
    BY <1>1, <1>5, <2>1 DEF ShownOK, Receiving
  <2> QED
    BY <2>2, <2>3, <2>4, <2>5
<1>6. ASSUME NEW x \in Conn
      PROVE  /\ Answer(x)' = Answer(x) /\ ShownNames(x)' = ShownNames(x)
             /\ FillsFile(x)' <=> FillsFile(x)
             /\ FillsFile(x) => client'[x] = client[x]
  BY <1>3, <1>4, <1>5 DEF Quiet
<1>7. \A n \in Name : Content(n)' = Content(n)
  BY <1>6 DEF Content, Writing
<1> QED
  BY <1>2, <1>6, <1>7 DEF StoreAll, AnswerAll, ShownAll

LEMMA QuietMoves ==
  ASSUME AllInv, AllInv', [Next]_vars, ~(\E c \in Conn : Dispatch(c))
  PROVE  Store!Next \/ UNCHANGED Store!vars
<1>1. TypeOK /\ Quiet /\ dir' = dir /\ data' = data
  BY QuietSteps, QuietFiles DEF AllInv, IInv
<1>2. UNCHANGED <<StoreAll, Listed(server_files), AnswerAll, ShownAll>>
  BY <1>1, QuietShows
<1>3. CASE req' = req /\ \A x \in Conn : Made(x)' <=> Made(x)
  <2>1. AskedAll' = AskedAll
    BY <1>3 DEF AskedAll
  <2> QED
    BY <1>2, <2>1 DEF Store!vars
<1>4. ASSUME NEW c \in Conn, Connect(c) PROVE Store!Next
  <2>1. PICK r \in Requests[c] : req' = [req EXCEPT ![c] = r]
    BY <1>4 DEF Connect
  <2>2. sock[c] = "none" /\ sock' = [sock EXCEPT ![c] = "backlog"]
    BY <1>4 DEF Connect
  <2>3. /\ ~Made(c) /\ Made(c)' /\ req'[c] = r
        /\ \A x \in Conn : x # c => req'[x] = req[x] /\ (Made(x)' <=> Made(x))
    BY <1>1, <2>1, <2>2 DEF TypeOK, Made
  <2>4. /\ AskedAll[c] = Nothing
        /\ AskedAll' = [AskedAll EXCEPT ![c] = Asked(c, r)]
    BY <2>3 DEF AskedAll
  <2>5. Store!Ask(c)
    BY <1>2, <2>4 DEF Store!Ask
  <2> QED
    BY <2>5 DEF Store!Next
<1>5. CASE accept_connections
  <2>1. req' = req /\ \A x \in Conn : Made(x)' <=> Made(x)
    BY <1>5 DEF accept_connections, peerVars, Made
  <2> QED
    BY <1>3, <2>1
<1>6. CASE UNCHANGED <<req, sock>>
  BY <1>3, <1>6 DEF Made
<1> QED
  BY <1>4, <1>5, <1>6
  DEF Next, event_loop_wait, Peer, Arrive, Close, Reset, Drain, Idle, vars,
      peerVars

LEMMA StoreBegins == Init => Store!Init
<1> SUFFICES ASSUME Init PROVE Store!Init
  OBVIOUS
<1>1. /\ AskedAll = [c \in Conn |-> Nothing]
      /\ StoreAll = [n \in Name |-> None]
  BY DEF Init, AskedAll, Made, StoreAll, Content
<1>2. Listed(server_files) = {}
  BY DEF Init, Listed
<1>3. AnswerAll = [c \in Conn |-> "none"] /\ ShownAll = [c \in Conn |-> {}]
  BY DEF Init, AnswerAll, Answer, Says, ShownAll, ShownNames, client_create
<1> QED
  BY <1>1, <1>2, <1>3 DEF Store!Init

(* Where the uploads and removals of a name follow one another and the     *)
(* peers stay, the server is the store of FileStore for any number of      *)
(* connections, names and sizes: files and list change in the step that    *)
(* decides on the answer, a request is answered once, a LIST shows the     *)
(* names of one moment (server.c:279-417, 468-571).                        *)
THEOREM StoreImplemented == Orderly => (Spec => ImplementsStore)
<1> SUFFICES ASSUME Orderly PROVE Spec => ImplementsStore
  OBVIOUS
<1>1. AllInv /\ AllInv' /\ [Next]_vars => [Store!Next]_(Store!vars)
  BY HandlerMoves, QuietMoves
<1>2. Spec => []StoreInv
  BY StoreIsOrderly
<1>3. AllInv <=> /\ IInv /\ ReplyInv /\ AnswerInv /\ AloneInv /\ EndInv
                 /\ StoreInv /\ NoDuplicateNames
  BY DEF AllInv
<1>4. Spec => []AllInv
  BY <1>2, <1>3, ServerInvariant, UploadsToldInOrder, AnswersKept,
     AloneIsStored, EndsKept, NamesListedOnce, PTL
<1> QED
  BY <1>1, <1>4, StoreBegins, PTL DEF Spec, ImplementsStore, Store!Spec

=============================================================================
