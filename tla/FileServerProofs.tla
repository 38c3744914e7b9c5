-------------------------- MODULE FileServerProofs --------------------------
(***************************************************************************)
(* Proofs, for every value of the constants, that IInv holds in every      *)
(* reachable state, and of the properties that follow from it.             *)
(*                                                                         *)
(* The argument: an event to be handled belongs to an open connection,     *)
(* whose client is therefore Good.  Each handler, begun on a Good client,  *)
(* Leaves the connection either open with a Good client or closed and      *)
(* forgotten, and stores units only where the stream has them (Handled);   *)
(* DispatchPreserves turns that into IInv'.  Everything outside a handler  *)
(* leaves open clients and files alone (OutsidePreserves).                 *)
(***************************************************************************)
EXTENDS FileServerInvariant, SequenceTheorems, FiniteSetTheorems, TLAPS

-----------------------------------------------------------------------------
(***************************************************************************)
(* Sequences of response units.                                            *)
(***************************************************************************)
LEMMA FixedResponses ==
  /\ OkLine \in Seq(RespUnit)
  /\ \A m \in Message : ErrorLines(m) \in Seq(RespUnit)
  /\ \A n \in Nat : SizeField(n) \in Seq(RespUnit)
  /\ <<>> \in Seq(RespUnit)
BY DEF OkLine, ErrorLines, SizeField, RespUnit

LEMMA PayloadType ==
  ASSUME NEW s \in Seq(Unit)
  PROVE  Payload(s) \in Seq(RespUnit)
BY DEF Payload, RespUnit

LEMMA ListBufferType ==
  ASSUME NEW files \in Seq(Name)
  PROVE  build_list_buffer(files) \in Seq(RespUnit)
<1> DEFINE names == [i \in 1..Len(files) |-> <<"FILE", files[i]>>]
<1>1. names \in Seq(RespUnit)
  BY DEF RespUnit
<1>2. Len(files) \in Nat
  OBVIOUS
<1> QED
  BY <1>1, <1>2, FixedResponses, ConcatProperties DEF build_list_buffer

LEMMA SliceType ==
  ASSUME NEW S, NEW s \in Seq(S), NEW m \in Nat, NEW n \in Nat,
         m + n <= Len(s)
  PROVE  SubSeq(s, m + 1, m + n) \in Seq(S)
BY SubSeqProperties

LEMMA AcceptsRange ==
  ASSUME NEW left \in Nat, NEW n \in Accepts(left)
  PROVE  n \in Nat /\ n <= left
BY DEF Accepts

LEMMA AddType ==
  ASSUME NEW files \in Seq(Name), NEW n \in Name
  PROVE  add_file_to_list(files, n) \in Seq(Name)
BY AppendProperties DEF add_file_to_list, vector_push_back

(* A nonempty set of naturals has a least element.                         *)
LEMMA LeastElement ==
  ASSUME NEW T \in SUBSET Nat, T # {}
  PROVE  \E m \in T : \A k \in T : m <= k
<1> DEFINE R == {ss \in Nat \X Nat : ss[1] < ss[2]}
<1>1. IsWellFoundedOn(R, Nat)
  BY NatLessThanWellFounded DEF OpToRel
<1> HIDE DEF R
<1>2. PICK m \in T : \A k \in T : <<k, m>> \notin R
  BY <1>1, WFMin
<1>3. ASSUME NEW k \in T PROVE m <= k
  <2>1. k < m => <<k, m>> \in R
    BY DEF R
  <2>2. k \in Nat /\ m \in Nat
    OBVIOUS
  <2> QED
    BY <1>2, <2>1, <2>2
<1> QED
  BY <1>3

LEMMA FirstIndexRange ==
  ASSUME NEW files \in Seq(Name), NEW n \in Listed(files)
  PROVE  /\ FirstIndex(files, n) \in 1..Len(files)
         /\ files[FirstIndex(files, n)] = n
<1> DEFINE T == {j \in 1..Len(files) : files[j] = n}
<1>1. T # {} /\ T \in SUBSET Nat
  BY DEF Listed
<1>2. PICK m \in T : \A k \in T : m <= k
  BY <1>1, LeastElement
<1>3. \A l \in 1..(m - 1) : files[l] # n
  BY <1>2
<1> QED
  BY <1>2, <1>3 DEF FirstIndex

LEMMA RemoveType ==
  ASSUME NEW files \in Seq(Name), NEW n \in Name
  PROVE  remove_file_from_list(files, n) \in Seq(Name)
<1>1. CASE n \notin Listed(files)
  BY <1>1 DEF remove_file_from_list
<1>2. CASE n \in Listed(files)
  <2> DEFINE i == FirstIndex(files, n)
  <2>1. i \in 1..Len(files)
    BY <1>2, FirstIndexRange
  <2>2. SubSeq(files, 1, i - 1) \in Seq(Name)
    BY <2>1, SubSeqProperties
  <2>3. SubSeq(files, i + 1, Len(files)) \in Seq(Name)
    BY <2>1, SubSeqProperties
  <2> QED
    BY <1>2, <2>2, <2>3, ConcatProperties
    DEF remove_file_from_list, vector_erase
<1> QED
  BY <1>1, <1>2

-----------------------------------------------------------------------------
(***************************************************************************)
(* Files and the directory.                                                *)
(***************************************************************************)
LEMMA UnlinkOK ==
  ASSUME NEW d, DirOK(d), NEW n
  PROVE  DirOK(unlink(d, n))
BY DEF DirOK, unlink, Inodes

LEMMA PwriteUnits ==
  ASSUME NEW s \in Seq(Unit), NEW units \in Seq(Unit), NEW offset \in Nat
  PROVE  /\ pwrite(s, units, offset) \in Seq(Unit)
         /\ \A k \in 1..Len(pwrite(s, units, offset)) :
              \/ k \in 1..Len(s) /\ pwrite(s, units, offset)[k] = s[k]
              \/ pwrite(s, units, offset)[k] = Hole
              \/ /\ units # <<>> /\ k - offset \in 1..Len(units)
                 /\ pwrite(s, units, offset)[k] = units[k - offset]
<1>1. CASE units = <<>>
  BY <1>1 DEF pwrite
<1>2. CASE units # <<>>
  <2> DEFINE N == IF Len(s) >= offset + Len(units) THEN Len(s)
                  ELSE offset + Len(units)
             At(k) == IF k > offset /\ k <= offset + Len(units)
                        THEN units[k - offset]
                      ELSE IF k <= Len(s) THEN s[k] ELSE Hole
             f == [k \in 1..N |-> At(k)]
  <2>1. N \in Nat
    OBVIOUS
  <2>2. ASSUME NEW k \in 1..N
        PROVE  /\ At(k) \in Unit
               /\ \/ k \in 1..Len(s) /\ At(k) = s[k]
                  \/ At(k) = Hole
                  \/ k - offset \in 1..Len(units) /\ At(k) = units[k - offset]
    BY <2>1 DEF Unit
  <2> HIDE DEF N, At
  <2>3. f \in Seq(Unit) /\ Len(f) = N
    BY <2>1, <2>2
  <2>4. pwrite(s, units, offset) = f
    BY <1>2 DEF pwrite, N, At
  <2>5. \A k \in 1..N : f[k] = At(k)
    OBVIOUS
  <2> HIDE DEF f
  <2> QED
    BY <1>2, <2>2, <2>3, <2>4, <2>5
<1> QED
  BY <1>1, <1>2

(* Writing units of the stream of c where the stream has them keeps the    *)
(* files of its name in order.                                             *)
LEMMA StoredOK ==
  ASSUME NEW dt, DataOK(dt), NEW c \in Conn, Made(c), NEW i \in Conn, Made(i),
         req[i].name = req[c].name, NEW offset \in Nat, NEW n \in Nat
  PROVE  DataOK([dt EXCEPT ![i] = pwrite(@, BodyUnits(c, offset + 1, n), offset)])
<1> DEFINE units == BodyUnits(c, offset + 1, n)
           new == pwrite(dt[i], units, offset)
<1>1. units \in Seq(Unit) /\ \A j \in 1..Len(units) : units[j] = <<c, offset + j>>
  <2>1. \A j \in 1..n : offset + 1 + j - 1 = offset + j /\ offset + j \in Nat
    OBVIOUS
  <2> QED
    BY <2>1 DEF BodyUnits, Unit
<1>2. dt[i] \in Seq(Unit)
  BY DEF DataOK
<1> HIDE DEF units
<1>3. new \in Seq(Unit)
  BY <1>1, <1>2, PwriteUnits
<1>4. ASSUME NEW k \in 1..Len(new) PROVE UnitOK(new[k], i, k)
  <2>1. \/ k \in 1..Len(dt[i]) /\ new[k] = dt[i][k]
        \/ new[k] = Hole
        \/ k - offset \in 1..Len(units) /\ new[k] = units[k - offset]
    BY <1>1, <1>2, <1>4, PwriteUnits
  <2>2. CASE k \in 1..Len(dt[i]) /\ new[k] = dt[i][k]
    BY <2>2 DEF DataOK
  <2>3. CASE new[k] = Hole
    BY <2>3 DEF UnitOK
  <2>4. CASE k - offset \in 1..Len(units) /\ new[k] = units[k - offset]
    <3>1. new[k] = <<c, offset + (k - offset)>>
      BY <2>4, <1>1
    <3>2. Len(new) \in Nat /\ offset + (k - offset) = k
      BY <1>3
    <3> QED
      BY <3>1, <3>2 DEF UnitOK
  <2> QED
    BY <2>1, <2>2, <2>3, <2>4
<1> HIDE DEF new
<1>5. [dt EXCEPT ![i] = new] \in [Conn -> Seq(Unit)]
  BY <1>3 DEF DataOK
<1> QED
  BY <1>4, <1>5 DEF DataOK, new, units

LEMMA TruncatedOK ==
  ASSUME NEW dt, DataOK(dt), NEW i \in Conn
  PROVE  DataOK(Truncated(dt, i))
BY DEF DataOK, Truncated

LEMMA OpenedOK ==
  ASSUME NEW d, DirOK(d), NEW c \in Conn, Made(c), req[c].name \in Name
  PROVE  LET i == OpenInode(c, d, req[c].name) IN
         /\ i \in Conn /\ Made(i) /\ req[i].name = req[c].name
         /\ DirOK([d EXCEPT ![req[c].name] = i])
BY DEF DirOK, OpenInode, Inodes

-----------------------------------------------------------------------------
(***************************************************************************)
(* The ends of a handler, and its writes.                                  *)
(***************************************************************************)
LEMMA KeepLeaves ==
  ASSUME armed \subseteq Conn, NEW c \in Conn, NEW t, NEW cl, Good(c, cl, t),
         NEW d, DirOK(d), Keep(c, cl, d)
  PROVE  Leaves(c, t)
BY DEF Keep, Leaves, StaysOpenWith, Good, Base

LEMMA WatchLeaves ==
  ASSUME armed \subseteq Conn, NEW c \in Conn, NEW t, NEW cl, Good(c, cl, t),
         NEW d, DirOK(d), NEW e \in {"READ", "WRITE"}, Watch(c, cl, d, e)
  PROVE  Leaves(c, t)
BY DEF Watch, modify_event_loop, Rearm, Leaves, StaysOpenWith, Good, Base

LEMMA CloseLeaves ==
  ASSUME armed \subseteq Conn, NEW c \in Conn, NEW t, NEW cl,
         NEW d, DirOK(d), close_and_cleanup(c, cl, d)
  PROVE  Leaves(c, t)
BY UnlinkOK DEF close_and_cleanup, Leaves, IsClosed

LEMMA SameSaid ==
  ASSUME NEW S, NEW s \in Seq(S)
  PROVE  Extends(s, s)
BY DEF Extends

LEMMA MoreUnits ==
  ASSUME NEW S, NEW s \in Seq(S), NEW units \in Seq(S)
  PROVE  s \o units \in Seq(S) /\ Extends(s, s \o units)
<1> DEFINE t == s \o units
<1>1. /\ t \in Seq(S) /\ Len(t) = Len(s) + Len(units)
      /\ \A p \in 1..Len(s) + Len(units) :
           t[p] = IF p <= Len(s) THEN s[p] ELSE units[p - Len(s)]
  BY ConcatProperties
<1>2. Len(s) \in Nat /\ Len(units) \in Nat
  OBVIOUS
<1> HIDE DEF t
<1>3. Len(s) <= Len(t) /\ \A p \in 1..Len(s) : t[p] = s[p]
  BY <1>1, <1>2
<1> QED
  BY <1>1, <1>3 DEF t, Extends

LEMMA WrittenOK ==
  ASSUME WritesOK, NEW c \in Conn, NEW units \in Seq(RespUnit), NEW short,
         Written(c, units, short)
  PROVE  WritesOn
<1>1. resp[c] \o units \in Seq(RespUnit) /\ Extends(resp[c], resp[c] \o units)
  BY MoreUnits DEF WritesOK
<1>2. resp' = [resp EXCEPT ![c] = resp[c] \o units]
  BY DEF Written
<1>3. WritesOK'
  BY <1>1, <1>2 DEF WritesOK, Written
<1> QED
  BY <1>1, <1>2, <1>3, SameSaid DEF WritesOK, WritesOn

LEMMA WriteErrorOK ==
  ASSUME WritesOK, NEW c \in Conn, NEW units \in Seq(RespUnit),
         WriteError(c, units)
  PROVE  WritesOn
<1>1. resp[c] \o units \in Seq(RespUnit) /\ Extends(resp[c], resp[c] \o units)
  BY MoreUnits DEF WritesOK
<1>2. resp' = [resp EXCEPT ![c] = resp[c] \o units]
  BY DEF WriteError
<1>3. WritesOK'
  BY <1>1, <1>2 DEF WritesOK, WriteError
<1> QED
  BY <1>1, <1>2, <1>3, SameSaid DEF WritesOK, WritesOn

LEMMA NoWriteOK ==
  ASSUME WritesOK, NoWrite
  PROVE  WritesOn
BY SameSaid DEF WritesOK, WritesOn, NoWrite, writeVars

(* A client_t as calloc leaves it is good, before anything is read.        *)
LEMMA CreatedGood ==
  ASSUME NEW c \in Conn
  PROVE  Good(c, client_create, 0)
BY ConstantsAssumption, FixedResponses
   DEF Good, Base, FileOK, HoldsFile, PositionOK, client_create, ClientType,
       Receiving, Verb

-----------------------------------------------------------------------------
(***************************************************************************)
(* The simple response.                                                    *)
(***************************************************************************)
Outcome(c, t) == Leaves(c, t) /\ WritesOn

Context ==
  /\ armed \subseteq Conn /\ WritesOK /\ server_files \in Seq(Name)
  /\ req \in [Conn -> Request] /\ arrived \in [Conn -> Nat]

(* What every handler of a read event does.                                *)
Handled(c) ==
  \E t \in Nat :
    /\ t <= arrived[c] /\ taken' = [taken EXCEPT ![c] = t]
    /\ Outcome(c, t) /\ DataOK(data') /\ server_files' \in Seq(Name)

(* Only simple_response_sent moves.                                        *)
LEMMA SentGood ==
  ASSUME NEW c \in Conn, NEW t, NEW cl, Good(c, cl, t), NEW n \in Nat,
         n <= Len(cl.simple_response_buf) - cl.simple_response_sent
  PROVE  Good(c, [cl EXCEPT !.simple_response_sent =
                              cl.simple_response_sent + n], t)
<1> DEFINE m == cl.simple_response_sent + n
           cl1 == [cl EXCEPT !.simple_response_sent = m]
<1>1. cl \in ClientType
  BY DEF Good, Base
<1>2. m \in Nat /\ m <= Len(cl.simple_response_buf)
  BY <1>1 DEF ClientType
<1> HIDE DEF m
<1>3. cl1 \in ClientType
  BY <1>1, <1>2 DEF ClientType
<1>4. /\ cl1.simple_response_sent = m
      /\ cl1.simple_response_buf = cl.simple_response_buf
      /\ cl1.list_sent = cl.list_sent /\ cl1.list_buf = cl.list_buf
      /\ cl1.state = cl.state /\ cl1.request_verb = cl.request_verb
      /\ cl1.filename = cl.filename /\ cl1.header_len = cl.header_len
      /\ cl1.file_fd = cl.file_fd /\ cl1.expected_size = cl.expected_size
      /\ cl1.bytes_transferred = cl.bytes_transferred
  BY <1>1 DEF ClientType
<1> HIDE DEF cl1
<1>5. Good(c, cl1, t)
  BY <1>2, <1>3, <1>4 DEF Good, Base, FileOK, HoldsFile, PositionOK, Upload
<1> QED
  BY <1>5 DEF cl1, m

LEMMA SizeNextGood ==
  ASSUME NEW c \in Conn, NEW t, NEW cl, Good(c, cl, t),
         cl.state = "SEND_OK", cl.request_verb = "GET"
  PROVE  Good(c, ToGetSize(cl), t)
<1> DEFINE cl1 == ToGetSize(cl)
<1>1. cl \in ClientType
  BY DEF Good, Base
<1>2. cl1 \in ClientType
  BY <1>1, FixedResponses DEF ClientType, ToGetSize, Sending
<1>3. /\ cl1.simple_response_sent = 0 /\ cl1.simple_response_buf = <<>>
      /\ cl1.list_sent = cl.list_sent /\ cl1.list_buf = cl.list_buf
      /\ cl1.state = "SEND_GET_SIZE" /\ cl1.request_verb = cl.request_verb
      /\ cl1.file_fd = cl.file_fd
  BY <1>1 DEF ClientType, ToGetSize
<1> HIDE DEF cl1
<1>4. Good(c, cl1, t)
  BY <1>2, <1>3 DEF Good, Base, FileOK, HoldsFile, PositionOK
<1> QED
  BY <1>4 DEF cl1

LEMMA ResponseOutcome ==
  ASSUME Context, NEW c \in Conn, NEW t, NEW cl, Good(c, cl, t),
         cl.state \in {"SEND_OK", "SEND_ERROR"},
         NEW d, DirOK(d), execute_simple_response_write(c, cl, d)
  PROVE  Outcome(c, t)
<1> DEFINE left == Len(cl.simple_response_buf) - cl.simple_response_sent
           sent(n) == cl.simple_response_sent + n
           cl1(n) == [cl EXCEPT !.simple_response_sent = sent(n)]
           units(n) == SubSeq(cl.simple_response_buf,
                              cl.simple_response_sent + 1, sent(n))
<1>1. /\ left \in Nat /\ cl \in ClientType /\ cl.list_sent <= Len(cl.list_buf)
      /\ cl.simple_response_buf \in Seq(RespUnit)
      /\ cl.simple_response_sent \in Nat
      /\ cl.simple_response_sent <= Len(cl.simple_response_buf)
  BY DEF Good, Base, ClientType
<1>2. CASE WriteError(c, <<>>) /\ close_and_cleanup(c, cl, d)
  BY <1>2, CloseLeaves, WriteErrorOK, FixedResponses DEF Outcome, Context
<1>3. ASSUME NEW n \in Accepts(left), Written(c, units(n), n < left),
             \/ n = 0 /\ left > 0 /\ Keep(c, cl, d)
             \/ 0 < n /\ n < left /\ Watch(c, cl1(n), d, "WRITE")
             \/ /\ n = left /\ cl.state = "SEND_OK"
                /\ cl.request_verb = "LIST"
                /\ start_send_list(c, cl1(n), d)
             \/ /\ n = left /\ cl.state = "SEND_OK"
                /\ cl.request_verb = "GET"
                /\ Watch(c, ToGetSize(cl1(n)), d, "WRITE")
             \/ close_and_cleanup(c, [cl1(n) EXCEPT !.state = "DONE"], d)
      PROVE  Outcome(c, t)
  <2>1. n \in Nat /\ n <= left
    BY <1>1, AcceptsRange
  <2>2. units(n) \in Seq(RespUnit)
    BY <1>1, <2>1, SliceType
  <2>3. WritesOn
    BY <1>3, <2>2, WrittenOK DEF Context
  <2>4. Good(c, cl1(n), t)
    BY <1>1, <2>1, SentGood
  <2>5. ASSUME cl.state = "SEND_OK", cl.request_verb = "GET"
        PROVE  Good(c, ToGetSize(cl1(n)), t)
    <3>1. cl1(n).state = "SEND_OK" /\ cl1(n).request_verb = "GET"
      BY <1>1, <2>5 DEF ClientType
    <3> QED
      BY <2>4, <3>1, SizeNextGood
  <2>6. CASE n = 0 /\ left > 0 /\ Keep(c, cl, d)
    BY <2>3, <2>6, KeepLeaves DEF Outcome, Context
  <2>7. CASE 0 < n /\ n < left /\ Watch(c, cl1(n), d, "WRITE")
    BY <2>3, <2>4, <2>7, WatchLeaves DEF Outcome, Context
  <2>8. CASE /\ n = left /\ cl.state = "SEND_OK" /\ cl.request_verb = "LIST"
             /\ start_send_list(c, cl1(n), d)
    <3> DEFINE cl2 == [cl1(n) EXCEPT
                         !.list_buf = build_list_buffer(server_files),
                         !.list_sent = 0, !.state = "SEND_LIST_DATA"]
    <3>1. build_list_buffer(server_files) \in Seq(RespUnit)
      BY ListBufferType DEF Context
    <3>2. Len(build_list_buffer(server_files)) >= 0
      BY <3>1
    <3>3. Good(c, cl2, t)
      <4>1. cl1(n).state = "SEND_OK" /\ cl1(n).request_verb = "LIST"
        BY <1>1, <2>8 DEF ClientType
      <4> HIDE DEF cl1
      <4>2. cl1(n) \in ClientType
        BY <2>4 DEF Good, Base
      <4>3. /\ cl2 \in ClientType /\ cl2.state = "SEND_LIST_DATA"
            /\ cl2.request_verb = "LIST"
            /\ cl2.file_fd = cl1(n).file_fd
            /\ cl2.simple_response_buf = cl1(n).simple_response_buf
            /\ cl2.simple_response_sent = cl1(n).simple_response_sent
            /\ cl2.list_buf = build_list_buffer(server_files)
            /\ cl2.list_sent = 0
        BY <3>1, <4>1, <4>2 DEF ClientType, Sending
      <4> HIDE DEF cl2
      <4>4. Base(cl2)
        BY <2>4, <3>2, <4>3 DEF Good, Base
      <4>5. FileOK(c, cl2)
        BY <2>4, <4>1, <4>3 DEF Good, FileOK, HoldsFile
      <4>6. PositionOK(c, cl2, t)
        BY <2>4, <4>1, <4>3 DEF Good, PositionOK
      <4> QED
        BY <4>4, <4>5, <4>6 DEF Good
    <3> QED
      BY <2>3, <2>8, <3>3, WatchLeaves DEF Outcome, Context, start_send_list
  <2>9. CASE /\ n = left /\ cl.state = "SEND_OK" /\ cl.request_verb = "GET"
             /\ Watch(c, ToGetSize(cl1(n)), d, "WRITE")
    BY <2>3, <2>5, <2>9, WatchLeaves DEF Outcome, Context
  <2>10. CASE close_and_cleanup(c, [cl1(n) EXCEPT !.state = "DONE"], d)
    BY <2>3, <2>10, CloseLeaves DEF Outcome, Context
  <2> QED
    BY <1>3, <2>6, <2>7, <2>8, <2>9, <2>10
<1> QED
  BY <1>2, <1>3 DEF execute_simple_response_write

(* prepare_and_send_response: what it needs of the client it is given.     *)
LEMMA OkOutcome ==
  ASSUME Context, NEW c \in Conn, NEW t, NEW cl, Base(cl),
         cl.request_verb = req[c].verb,
         req[c].verb = "PUT" => t = HeaderLen + SizeLen + req[c].size,
         cl.file_fd # NoInode <=> cl.request_verb = "GET",
         cl.file_fd # NoInode =>
           Made(cl.file_fd) /\ req[cl.file_fd].name = req[c].name,
         NEW d, DirOK(d), send_ok(c, cl, d)
  PROVE  Outcome(c, t)
<1> DEFINE cl1 == [cl EXCEPT !.state = "SEND_OK", !.simple_response_buf = OkLine,
                             !.simple_response_sent = 0]
<1>1. cl1 \in ClientType
  BY FixedResponses DEF Base, ClientType, Sending
<1>2. /\ cl1.simple_response_sent = 0 /\ cl1.simple_response_buf = OkLine
      /\ cl1.list_sent = cl.list_sent /\ cl1.list_buf = cl.list_buf
      /\ cl1.state = "SEND_OK" /\ cl1.request_verb = cl.request_verb
      /\ cl1.file_fd = cl.file_fd
  BY DEF Base, ClientType
<1>3. 0 <= Len(OkLine)
  BY FixedResponses
<1>4. execute_simple_response_write(c, cl1, d)
  BY DEF send_ok
<1> HIDE DEF cl1
<1>5. Good(c, cl1, t)
  BY <1>1, <1>2, <1>3 DEF Good, Base, FileOK, HoldsFile, PositionOK
<1> QED
  BY <1>2, <1>4, <1>5, ResponseOutcome

LEMMA ErrorOutcome ==
  ASSUME Context, NEW c \in Conn, NEW t, NEW cl, Base(cl),
         cl.file_fd = NoInode, NEW msg \in Message,
         NEW d, DirOK(d), send_error(c, cl, msg, d)
  PROVE  Outcome(c, t)
<1> DEFINE cl1 == [cl EXCEPT !.state = "SEND_ERROR", !.simple_response_sent = 0,
                             !.simple_response_buf = ErrorLines(msg)]
<1>1. cl1 \in ClientType
  BY FixedResponses DEF Base, ClientType, Sending
<1>2. /\ cl1.simple_response_sent = 0
      /\ cl1.simple_response_buf = ErrorLines(msg)
      /\ cl1.list_sent = cl.list_sent /\ cl1.list_buf = cl.list_buf
      /\ cl1.state = "SEND_ERROR" /\ cl1.file_fd = cl.file_fd
  BY DEF Base, ClientType
<1>3. 0 <= Len(ErrorLines(msg))
  BY FixedResponses
<1>4. execute_simple_response_write(c, cl1, d)
  BY DEF send_error
<1> HIDE DEF cl1
<1>5. Good(c, cl1, t)
  BY <1>1, <1>2, <1>3 DEF Good, Base, FileOK, HoldsFile, PositionOK
<1> QED
  BY <1>2, <1>4, <1>5, ResponseOutcome

-----------------------------------------------------------------------------
(***************************************************************************)
(* PUT.                                                                    *)
(***************************************************************************)
LEMMA AdvancedGood ==
  ASSUME NEW c \in Conn, NEW t \in Nat, NEW cl, Good(c, cl, t),
         cl.state = "RECV_PUT_DATA", NEW k \in Nat,
         k <= cl.expected_size - cl.bytes_transferred
  PROVE  Good(c, [cl EXCEPT !.bytes_transferred = @ + k], t + k)
<1> DEFINE m == cl.bytes_transferred + k
           cl1 == [cl EXCEPT !.bytes_transferred = m]
<1>1. cl \in ClientType
  BY DEF Good, Base
<1>2. /\ cl.bytes_transferred \in Nat /\ cl.expected_size \in Nat
      /\ HeaderLen \in Nat /\ SizeLen \in Nat
  BY <1>1, ConstantsAssumption DEF ClientType
<1>3. m \in Nat
  BY <1>2
<1> HIDE DEF m
<1>4. cl1 \in ClientType
  BY <1>1, <1>3 DEF ClientType
<1>5. /\ cl1.simple_response_sent = cl.simple_response_sent
      /\ cl1.simple_response_buf = cl.simple_response_buf
      /\ cl1.list_sent = cl.list_sent /\ cl1.list_buf = cl.list_buf
      /\ cl1.state = cl.state /\ cl1.request_verb = cl.request_verb
      /\ cl1.filename = cl.filename
      /\ cl1.file_fd = cl.file_fd /\ cl1.expected_size = cl.expected_size
      /\ cl1.bytes_transferred = m
  BY <1>1 DEF ClientType
<1> HIDE DEF cl1
<1>6. Good(c, cl1, t + k)
  BY <1>2, <1>4, <1>5 DEF Good, Base, FileOK, HoldsFile, PositionOK, Upload, m
<1> QED
  BY <1>6 DEF cl1, m

LEMMA ClosedBase ==
  ASSUME NEW cl, Base(cl)
  PROVE  /\ Base(FileClosed(cl)) /\ FileClosed(cl).file_fd = NoInode
         /\ FileClosed(cl).request_verb = cl.request_verb
BY DEF Base, ClientType, FileClosed

LEMMA PutDataHandled ==
  ASSUME Context, NEW c \in Conn, Made(c), NEW t \in Nat, t <= arrived[c],
         NEW cl, Good(c, cl, t), cl.state = "RECV_PUT_DATA",
         NEW d, DirOK(d), NEW dt, DataOK(dt), recv_put_data(c, cl, d, dt, t)
  PROVE  Handled(c)
<1> DEFINE need == cl.expected_size - cl.bytes_transferred
           k == Least(arrived[c] - t, need)
           off == cl.bytes_transferred
           cl1 == [cl EXCEPT !.bytes_transferred = @ + k]
           Stored(n) == data' = [dt EXCEPT ![cl.file_fd] =
                          pwrite(@, BodyUnits(c, t + 1 - HeaderLen - SizeLen, n), off)]
<1>1. /\ cl \in ClientType /\ off \in Nat /\ need \in Nat
      /\ cl.expected_size \in Nat
      /\ HeaderLen \in Nat /\ SizeLen \in Nat /\ arrived[c] \in Nat
      /\ t = HeaderLen + SizeLen + off /\ Upload(c, cl)
      /\ cl.expected_size = req[c].size
  <2>1. cl \in ClientType
    BY DEF Good, Base
  <2>2. off \in Nat /\ cl.expected_size \in Nat
    BY <2>1 DEF ClientType
  <2>3. /\ off <= cl.expected_size /\ t = HeaderLen + SizeLen + off
        /\ Upload(c, cl) /\ cl.expected_size = req[c].size
    BY DEF Good, PositionOK
  <2>4. HeaderLen \in Nat /\ SizeLen \in Nat /\ arrived[c] \in Nat
    BY ConstantsAssumption DEF Context
  <2> QED
    BY <2>1, <2>2, <2>3, <2>4
<1>2. k \in Nat /\ k <= need /\ t + k <= arrived[c] /\ t + k \in Nat
  BY <1>1 DEF Least
<1>3. /\ cl.file_fd \in Conn /\ Made(cl.file_fd)
      /\ req[cl.file_fd].name = req[c].name
  BY <1>1 DEF Good, FileOK, HoldsFile, ClientType
<1>4. ASSUME NEW n \in Nat, Stored(n) PROVE DataOK(data')
  <2>1. t + 1 - HeaderLen - SizeLen = off + 1
    BY <1>1
  <2> QED
    BY <1>1, <1>3, <1>4, <2>1, StoredOK
<1>5. Good(c, cl1, t + k)
  BY <1>1, <1>2, AdvancedGood
<1>6. /\ cl1.request_verb = "PUT" /\ cl1.expected_size = cl.expected_size
      /\ cl1.bytes_transferred = off + k /\ cl1.filename = cl.filename
      /\ cl.filename \in Name
  BY <1>1 DEF ClientType, Upload
<1>7. Base(cl) /\ Base(cl1)
  BY <1>5 DEF Good
<1>8. "Bad file size" \in Message
  BY DEF Message
<1> HIDE DEF cl1, k, need, off, Stored
<1>9. CASE \E j \in 0..(k - 1) :
             /\ "pwrite" \in Faults
             /\ taken' = [taken EXCEPT ![c] = t + j + 1]
             /\ Stored(j)
             /\ UNCHANGED server_files
             /\ send_error(c, FileClosed(cl), "Bad file size", d)
  <2>1. PICK j \in 0..(k - 1) :
             /\ taken' = [taken EXCEPT ![c] = t + j + 1]
             /\ Stored(j)
             /\ UNCHANGED server_files
             /\ send_error(c, FileClosed(cl), "Bad file size", d)
    BY <1>9
  <2>2. j \in Nat /\ t + j + 1 \in Nat /\ t + j + 1 <= arrived[c]
    <3>1. arrived[c] \in Nat /\ k \in Nat /\ t + k <= arrived[c]
      BY <1>1, <1>2
    <3>2. j \in 0..(k - 1)
      BY <2>1
    <3>3. j \in Nat /\ j < k
      BY <3>1, <3>2
    <3> QED
      BY <3>1, <3>3
  <2>3. Outcome(c, t + j + 1)
    BY <1>7, <1>8, <2>1, ClosedBase, ErrorOutcome
  <2> QED
    BY <1>4, <2>1, <2>2, <2>3 DEF Handled, Context
<1>10. CASE /\ ExtraByte(c, t + k)
            /\ taken' = [taken EXCEPT ![c] = t + k + 1]
            /\ Stored(k)
            /\ UNCHANGED server_files
            /\ send_error(c, FileClosed(cl1), "Bad file size", d)
  <2>1. t + k + 1 \in Nat /\ t + k + 1 <= arrived[c]
    <3>1. arrived[c] \in Nat /\ arrived[c] > t + k /\ t + k \in Nat
      BY <1>1, <1>2, <1>10 DEF ExtraByte
    <3> QED
      BY <3>1
  <2>2. Outcome(c, t + k + 1)
    BY <1>7, <1>8, <1>10, ClosedBase, ErrorOutcome
  <2> QED
    BY <1>2, <1>4, <1>10, <2>1, <2>2 DEF Handled, Context
<1>11. CASE /\ UploadComplete(cl1)
            /\ taken' = [taken EXCEPT ![c] = t + k]
            /\ Stored(k)
            /\ server_files' = add_file_to_list(server_files, cl.filename)
            /\ send_ok(c, FileClosed(cl1), d)
  <2>1. t + k = HeaderLen + SizeLen + req[c].size
    BY <1>1, <1>2, <1>6, <1>11 DEF UploadComplete
  <2>2. req[c].verb = "PUT"
    BY <1>1 DEF Upload
  <2>3. /\ Base(FileClosed(cl1)) /\ FileClosed(cl1).file_fd = NoInode
        /\ FileClosed(cl1).request_verb = "PUT"
    BY <1>6, <1>7, ClosedBase
  <2>4. Outcome(c, t + k)
    BY <1>11, <2>1, <2>2, <2>3, OkOutcome
  <2>5. server_files' \in Seq(Name)
    BY <1>6, <1>11, AddType DEF Context
  <2> QED
    BY <1>2, <1>4, <1>11, <2>4, <2>5 DEF Handled
<1>12. CASE /\ taken' = [taken EXCEPT ![c] = t + k]
            /\ Stored(k)
            /\ UNCHANGED server_files
            /\ IF Eof(c)
                 THEN send_error(c, FileClosed(cl1), "Bad file size", d)
                 ELSE NoWrite /\ Keep(c, cl1, d)
  <2>1. CASE send_error(c, FileClosed(cl1), "Bad file size", d)
    <3>1. Outcome(c, t + k)
      BY <1>7, <1>8, <2>1, ClosedBase, ErrorOutcome
    <3> QED
      BY <1>2, <1>4, <1>12, <3>1 DEF Handled, Context
  <2>2. CASE NoWrite /\ Keep(c, cl1, d)
    <3>1. Outcome(c, t + k)
      BY <1>5, <2>2, KeepLeaves, NoWriteOK DEF Outcome, Context
    <3> QED
      BY <1>2, <1>4, <1>12, <3>1 DEF Handled, Context
  <2> QED
    BY <1>12, <2>1, <2>2
<1> QED
  BY <1>9, <1>10, <1>11, <1>12 DEF recv_put_data, cl1, k, need, off, Stored

LEMMA PutSizeHandled ==
  ASSUME Context, NEW c \in Conn, Made(c), taken[c] \in Nat,
         taken[c] <= arrived[c], Good(c, client[c], taken[c]),
         client[c].state = "RECV_PUT_SIZE",
         DirOK(dir), DataOK(data), recv_put_size(c)
  PROVE  Handled(c)
<1> DEFINE cl == client[c]
           need == SizeLen - cl.bytes_transferred
           k == Least(arrived[c] - taken[c], need)
           t == taken[c] + k
           m == cl.bytes_transferred + k
           cl1 == [cl EXCEPT !.bytes_transferred = m]
           cl2 == [[cl1 EXCEPT !.expected_size = req[c].size]
                     EXCEPT !.bytes_transferred = 0]
           i == OpenInode(c, dir, cl.filename)
           cl3 == [cl2 EXCEPT !.file_fd = i, !.state = "RECV_PUT_DATA"]
<1>1. /\ cl \in ClientType /\ Base(cl) /\ cl.bytes_transferred \in Nat
      /\ cl.bytes_transferred <= SizeLen /\ SizeLen \in Nat
      /\ HeaderLen \in Nat /\ arrived[c] \in Nat
      /\ taken[c] = HeaderLen + cl.bytes_transferred /\ Upload(c, cl)
      /\ cl.file_fd = NoInode
  BY ConstantsAssumption
     DEF Good, Base, PositionOK, FileOK, HoldsFile, ClientType, Context
<1>2. k \in Nat /\ k <= need /\ t <= arrived[c] /\ t \in Nat /\ m \in Nat
  BY <1>1 DEF Least
<1>3. req[c].size \in Nat /\ req[c].verb = "PUT" /\ cl.request_verb = "PUT"
      /\ cl.filename = req[c].name /\ req[c].name \in Name
  BY <1>1 DEF Context, Request, Upload
<1>4. t = HeaderLen + m /\ m <= SizeLen /\ (k = need => m = SizeLen)
  BY <1>1, <1>2
<1>5. i \in Conn /\ Made(i) /\ req[i].name = req[c].name
      /\ DirOK([dir EXCEPT ![cl.filename] = i])
  BY <1>3, OpenedOK
<1> HIDE DEF cl, need, k, t, m, i
<1>6. /\ cl1 \in ClientType /\ cl2 \in ClientType /\ cl3 \in ClientType
      /\ Base(cl1) /\ Base(cl2)
  <2>1. cl1 \in ClientType
    BY <1>1, <1>2 DEF ClientType
  <2>2. cl2 \in ClientType
    BY <2>1, <1>3 DEF ClientType
  <2>3. cl3 \in ClientType
    BY <2>2, <1>5 DEF ClientType, Receiving
  <2> QED
    BY <2>1, <2>2, <2>3, <1>1 DEF Base, ClientType
<1>7. Good(c, cl1, t)
  <2>1. /\ cl1.state = "RECV_PUT_SIZE" /\ cl1.bytes_transferred = m
        /\ cl1.request_verb = cl.request_verb /\ cl1.filename = cl.filename
        /\ cl1.file_fd = NoInode
    BY <1>1 DEF ClientType, cl
  <2> HIDE DEF cl1
  <2> QED
    BY <1>1, <1>4, <1>6, <2>1
       DEF Good, FileOK, HoldsFile, PositionOK, Upload
<1>8. ASSUME k = need PROVE Good(c, cl3, t)
  <2>1. /\ cl3.state = "RECV_PUT_DATA" /\ cl3.bytes_transferred = 0
        /\ cl3.expected_size = req[c].size /\ cl3.file_fd = i
        /\ cl3.request_verb = cl.request_verb /\ cl3.filename = cl.filename
        /\ cl3.simple_response_sent = cl.simple_response_sent
        /\ cl3.simple_response_buf = cl.simple_response_buf
        /\ cl3.list_sent = cl.list_sent /\ cl3.list_buf = cl.list_buf
    BY <1>1 DEF ClientType
  <2> HIDE DEF cl3
  <2>2. Base(cl3)
    BY <1>1, <1>6, <2>1 DEF Base
  <2>3. FileOK(c, cl3)
    BY <1>5, <2>1, ConstantsAssumption DEF FileOK, HoldsFile
  <2>4. t = HeaderLen + SizeLen + 0
    BY <1>1, <1>4, <1>8
  <2> QED
    BY <1>1, <1>3, <2>1, <2>2, <2>3, <2>4 DEF Good, PositionOK, Upload
<1>9. "Bad file size" \in Message
  BY DEF Message
<1>10. cl1.file_fd = NoInode /\ cl2.file_fd = NoInode
       /\ cl2 = OffsetReset([cl1 EXCEPT !.expected_size = req[c].size])
       /\ cl3.state = "RECV_PUT_DATA"
  BY <1>1 DEF ClientType, OffsetReset
<1> HIDE DEF cl1, cl2, cl3
<1>11. CASE /\ taken' = [taken EXCEPT ![c] = t]
            /\ UNCHANGED <<data, server_files>>
            /\ IF Eof(c) THEN send_error(c, cl1, "Bad file size", dir)
                         ELSE NoWrite /\ Keep(c, cl1, dir)
  <2>1. CASE send_error(c, cl1, "Bad file size", dir)
    BY <1>2, <1>6, <1>9, <1>10, <1>11, <2>1, ErrorOutcome DEF Handled, Context
  <2>2. CASE NoWrite /\ Keep(c, cl1, dir)
    BY <1>2, <1>7, <1>11, <2>2, KeepLeaves, NoWriteOK
       DEF Handled, Outcome, Context
  <2> QED
    BY <1>11, <2>1, <2>2
<1>12. CASE /\ k = need
            /\ recv_put_data(c, cl3, [dir EXCEPT ![cl.filename] = i],
                             Truncated(data, i), t)
  BY <1>2, <1>5, <1>8, <1>10, <1>12, TruncatedOK, PutDataHandled
<1>13. CASE /\ taken' = [taken EXCEPT ![c] = t]
            /\ UNCHANGED <<data, server_files>>
            /\ send_error(c, cl2, "Bad file size", dir)
  BY <1>2, <1>6, <1>9, <1>10, <1>13, ErrorOutcome DEF Handled, Context
<1> QED
  BY <1>10, <1>11, <1>12, <1>13
  DEF recv_put_size, cl, need, k, t, m, i, cl1, cl2, cl3

-----------------------------------------------------------------------------
(***************************************************************************)
(* GET, DELETE and the command line.                                       *)
(***************************************************************************)
LEMMA GetOutcome ==
  ASSUME Context, NEW c \in Conn, NEW t, NEW cl, Base(cl),
         cl.file_fd = NoInode, cl.request_verb = "GET", req[c].verb = "GET",
         cl.filename = req[c].name, req[c].name \in Name,
         DirOK(dir), DataOK(data), start_send_get(c, cl)
  PROVE  Outcome(c, t)
<1> DEFINE i == dir[cl.filename]
           cl1 == [cl EXCEPT !.file_fd = i, !.file_size = Len(data[i]),
                             !.bytes_transferred = 0]
<1>1. CASE send_error(c, cl, "No such file", dir)
  BY <1>1, ErrorOutcome DEF Message
<1>2. CASE i # NoInode /\ send_ok(c, cl1, dir)
  <2>1. i \in Conn /\ Made(i) /\ req[i].name = req[c].name
    BY <1>2 DEF DirOK, Inodes
  <2>2. Len(data[i]) \in Nat
    BY <2>1 DEF DataOK
  <2> HIDE DEF i
  <2>3. cl1 \in ClientType
    BY <2>1, <2>2 DEF Base, ClientType
  <2>4. /\ cl1.simple_response_sent = cl.simple_response_sent
        /\ cl1.simple_response_buf = cl.simple_response_buf
        /\ cl1.list_sent = cl.list_sent /\ cl1.list_buf = cl.list_buf
        /\ cl1.file_fd = i /\ cl1.request_verb = "GET"
    BY DEF Base, ClientType
  <2> HIDE DEF cl1
  <2>5. Base(cl1)
    BY <2>3, <2>4 DEF Base
  <2> QED
    BY <1>2, <2>1, <2>4, <2>5, OkOutcome
<1> QED
  BY <1>1, <1>2 DEF start_send_get

LEMMA DeleteOutcome ==
  ASSUME Context, NEW c \in Conn, NEW t, NEW cl, Base(cl),
         cl.file_fd = NoInode, cl.request_verb = "DELETE",
         req[c].verb = "DELETE", cl.filename \in Name,
         DirOK(dir), delete_request(c, cl)
  PROVE  Outcome(c, t) /\ server_files' \in Seq(Name)
<1>1. CASE UNCHANGED server_files /\ send_error(c, cl, "No such file", dir)
  BY <1>1, ErrorOutcome DEF Message, Context
<1>2. CASE /\ server_files' = remove_file_from_list(server_files, cl.filename)
           /\ send_ok(c, cl, unlink(dir, cl.filename))
  BY <1>2, UnlinkOK, RemoveType, OkOutcome DEF Context
<1> QED
  BY <1>1, <1>2 DEF delete_request

LEMMA ParseOutcome ==
  ASSUME Context, NEW c \in Conn, NEW t, NEW cl, Good(c, cl, t),
         cl.state = "RECV_HEADER", cl.header_len = HeaderLen,
         DirOK(dir), DataOK(data), parse_header_and_transition(c, cl)
  PROVE  /\ Outcome(c, t) /\ data' = data
         /\ server_files' \in Seq(Name)
<1> DEFINE r == req[c]
           named == [cl EXCEPT !.request_verb = r.verb, !.filename = r.name]
           verbed == [cl EXCEPT !.request_verb = r.verb]
           rejected == IF r.verb \in Verb THEN verbed ELSE cl
           receiving == [named EXCEPT !.bytes_transferred = 0,
                                      !.state = "RECV_PUT_SIZE"]
<1>1. cl \in ClientType /\ Base(cl) /\ cl.file_fd = NoInode /\ t = HeaderLen
  BY DEF Good, Base, FileOK, HoldsFile, PositionOK
<1>2. r.name \in Name \cup {NoName}
  BY DEF Context, Request
<1> HIDE DEF r
<1>3. ASSUME r.verb \in Verb
      PROVE  /\ Base(verbed) /\ verbed.file_fd = NoInode
             /\ verbed.request_verb = r.verb
             /\ Base(named) /\ named.file_fd = NoInode
             /\ named.request_verb = r.verb /\ named.filename = r.name
  BY <1>1, <1>2, <1>3 DEF Base, ClientType
<1>4. Base(rejected) /\ rejected.file_fd = NoInode
  BY <1>1, <1>3
<1>5. data' = data
  BY DEF parse_header_and_transition
<1>6. CASE r.verb = "NUL" /\ UNCHANGED server_files /\ NoWrite /\ Keep(c, cl, dir)
  BY <1>5, <1>6, KeepLeaves, NoWriteOK DEF Outcome, Context
<1>7. CASE UNCHANGED server_files /\ send_error(c, rejected, "Bad request", dir)
  BY <1>4, <1>5, <1>7, ErrorOutcome DEF Message, Context
<1>8. CASE /\ r.verb = "LIST" /\ UNCHANGED server_files
           /\ send_ok(c, [cl EXCEPT !.request_verb = "LIST"], dir)
  <2>1. send_ok(c, verbed, dir) /\ Base(verbed) /\ verbed.file_fd = NoInode
        /\ verbed.request_verb = req[c].verb /\ req[c].verb = "LIST"
    BY <1>3, <1>8 DEF Verb, r
  <2> HIDE DEF verbed
  <2> QED
    BY <1>5, <1>8, <2>1, OkOutcome DEF Context
<1>9. CASE r.verb = "DELETE" /\ r.name # NoName /\ delete_request(c, named)
  <2>1. /\ Base(named) /\ named.file_fd = NoInode
        /\ named.request_verb = "DELETE" /\ named.filename \in Name
    BY <1>2, <1>3, <1>9 DEF Verb
  <2> HIDE DEF named
  <2> QED
    BY <1>5, <1>9, <2>1, DeleteOutcome DEF r
<1>10. CASE /\ r.verb = "GET" /\ r.name # NoName
            /\ UNCHANGED server_files /\ start_send_get(c, named)
  <2>1. /\ Base(named) /\ named.file_fd = NoInode
        /\ named.request_verb = "GET" /\ named.filename = r.name
        /\ r.name \in Name
    BY <1>2, <1>3, <1>10 DEF Verb
  <2> HIDE DEF named
  <2> QED
    BY <1>5, <1>10, <2>1, GetOutcome DEF Context, r
<1>11. CASE /\ r.verb = "PUT" /\ r.name # NoName /\ UNCHANGED server_files
            /\ NoWrite /\ Watch(c, receiving, dir, "READ")
  <2>1. receiving \in ClientType
    BY <1>1, <1>2, <1>11 DEF ClientType, Verb, Receiving
  <2>2. /\ receiving.state = "RECV_PUT_SIZE" /\ receiving.bytes_transferred = 0
        /\ receiving.request_verb = "PUT" /\ receiving.filename = r.name
        /\ receiving.simple_response_sent = cl.simple_response_sent
        /\ receiving.simple_response_buf = cl.simple_response_buf
        /\ receiving.list_sent = cl.list_sent /\ receiving.list_buf = cl.list_buf
        /\ receiving.file_fd = NoInode
    BY <1>1, <1>11 DEF ClientType
  <2>3. r.name \in Name /\ HeaderLen = HeaderLen + 0 /\ 0 <= SizeLen
    BY <1>2, <1>11, ConstantsAssumption
  <2> HIDE DEF receiving
  <2>4. Good(c, receiving, t)
    BY <1>1, <1>11, <2>1, <2>2, <2>3
       DEF Good, Base, FileOK, HoldsFile, PositionOK, Upload, r
  <2> QED
    BY <1>5, <1>11, <2>4, WatchLeaves, NoWriteOK DEF Outcome, Context
<1> HIDE DEF named, verbed, receiving
<1> QED
  BY <1>6, <1>7, <1>8, <1>9, <1>10, <1>11
  DEF parse_header_and_transition, named, verbed, rejected, receiving, r

LEMMA ReadHeaderHandled ==
  ASSUME Context, NEW c \in Conn, taken \in [Conn -> Nat],
         taken[c] <= arrived[c], Good(c, client[c], taken[c]),
         client[c].state = "RECV_HEADER",
         DirOK(dir), DataOK(data), read_header(c)
  PROVE  Handled(c)
<1> DEFINE k == HeaderUnits(c)
           m == client[c].header_len + k
           t == taken[c] + k
           cl == [client[c] EXCEPT !.header_len = m]
<1>1. /\ client[c] \in ClientType /\ Base(client[c])
      /\ client[c].header_len \in Nat /\ client[c].header_len <= HeaderLen
      /\ HeaderLen \in Nat /\ arrived[c] \in Nat
      /\ taken[c] = client[c].header_len /\ client[c].file_fd = NoInode
  BY ConstantsAssumption
     DEF Good, Base, PositionOK, FileOK, HoldsFile, ClientType, Context
<1>2. k \in Nat /\ t \in Nat /\ t <= arrived[c] /\ t = m /\ m \in 0..HeaderLen
  BY <1>1 DEF HeaderUnits, Least
<1> HIDE DEF k, m, t
<1>3. cl \in ClientType
  BY <1>1, <1>2 DEF ClientType
<1>4. /\ cl.state = "RECV_HEADER" /\ cl.header_len = m
      /\ cl.simple_response_sent = client[c].simple_response_sent
      /\ cl.simple_response_buf = client[c].simple_response_buf
      /\ cl.list_sent = client[c].list_sent
      /\ cl.list_buf = client[c].list_buf /\ cl.file_fd = NoInode
  BY <1>1 DEF ClientType
<1> HIDE DEF cl
<1>5. Good(c, cl, t)
  BY <1>1, <1>2, <1>3, <1>4 DEF Good, Base, FileOK, HoldsFile, PositionOK
<1>6. taken' = [taken EXCEPT ![c] = t]
  BY DEF read_header, t, k
<1>7. CASE cl.header_len = HeaderLen /\ parse_header_and_transition(c, cl)
  <2>1. Outcome(c, t) /\ data' = data /\ server_files' \in Seq(Name)
    BY <1>4, <1>5, <1>7, ParseOutcome
  <2> QED
    BY <1>2, <1>6, <2>1 DEF Handled
<1>8. CASE /\ UNCHANGED <<data, server_files>>
           /\ send_error(c, cl, "Bad request", dir)
  <2>1. Base(cl) /\ "Bad request" \in Message
    BY <1>5 DEF Good, Message
  <2>2. Outcome(c, t)
    BY <1>4, <1>8, <2>1, ErrorOutcome
  <2> QED
    BY <1>2, <1>6, <1>8, <2>2 DEF Handled, Context
<1>9. CASE /\ UNCHANGED <<data, server_files>> /\ NoWrite
           /\ IF Eof(c) THEN close_and_cleanup(c, cl, dir) ELSE Keep(c, cl, dir)
  <2>1. Outcome(c, t)
    BY <1>5, <1>9, KeepLeaves, CloseLeaves, NoWriteOK DEF Outcome, Context
  <2> QED
    BY <1>2, <1>6, <1>9, <2>1 DEF Handled, Context
<1> QED
  BY <1>7, <1>8, <1>9 DEF read_header, k, m, cl

LEMMA ReadHandled ==
  ASSUME Context, NEW c \in Conn, Made(c), taken \in [Conn -> Nat],
         taken[c] <= arrived[c], Good(c, client[c], taken[c]),
         DirOK(dir), DataOK(data), handle_read_event(c)
  PROVE  Handled(c)
<1>1. taken[c] \in Nat
  OBVIOUS
<1>2. CASE client[c].state = "RECV_HEADER" /\ read_header(c)
  BY <1>2, ReadHeaderHandled
<1>3. CASE client[c].state = "RECV_PUT_SIZE" /\ recv_put_size(c)
  BY <1>1, <1>3, PutSizeHandled
<1>4. CASE /\ client[c].state = "RECV_PUT_DATA"
           /\ recv_put_data(c, client[c], dir, data, taken[c])
  BY <1>1, <1>4, PutDataHandled
<1>5. CASE NothingToDo(c)
  <2>1. Outcome(c, taken[c])
    BY <1>5, KeepLeaves, NoWriteOK DEF NothingToDo, Outcome, Context
  <2>2. taken' = [taken EXCEPT ![c] = taken[c]]
    BY <1>5 DEF NothingToDo
  <2> QED
    BY <1>1, <1>5, <2>1, <2>2 DEF NothingToDo, Handled, Context
<1> QED
  BY <1>2, <1>3, <1>4, <1>5 DEF handle_read_event

-----------------------------------------------------------------------------
(***************************************************************************)
(* The handlers of a write event.                                          *)
(***************************************************************************)
LEMMA GetSizeOutcome ==
  ASSUME Context, NEW c \in Conn, NEW t, Good(c, client[c], t),
         client[c].state = "SEND_GET_SIZE", DirOK(dir), send_get_size(c)
  PROVE  Outcome(c, t)
<1> DEFINE loaded == [client[c] EXCEPT
                        !.simple_response_buf = SizeField(client[c].file_size),
                        !.simple_response_sent = 0]
           cl == IF client[c].simple_response_buf = <<>> THEN loaded
                 ELSE client[c]
           left == Len(cl.simple_response_buf) - cl.simple_response_sent
           sent(n) == cl.simple_response_sent + n
           units(n) == SubSeq(cl.simple_response_buf,
                              cl.simple_response_sent + 1, sent(n))
           next == [cl EXCEPT !.simple_response_buf = <<>>,
                              !.simple_response_sent = 0,
                              !.state = "SEND_GET_DATA"]
<1>1. client[c] \in ClientType /\ client[c].file_size \in Nat
  BY DEF Good, Base, ClientType
<1>2. Good(c, loaded, t) /\ loaded.state = "SEND_GET_SIZE"
  <2>1. loaded \in ClientType
    BY <1>1, FixedResponses DEF ClientType
  <2>2. /\ loaded.simple_response_sent = 0
        /\ loaded.simple_response_buf = SizeField(client[c].file_size)
        /\ loaded.list_sent = client[c].list_sent
        /\ loaded.list_buf = client[c].list_buf
        /\ loaded.state = "SEND_GET_SIZE"
        /\ loaded.request_verb = client[c].request_verb
        /\ loaded.file_fd = client[c].file_fd
    BY <1>1 DEF ClientType
  <2>3. 0 <= Len(SizeField(client[c].file_size))
    BY <1>1, FixedResponses
  <2> HIDE DEF loaded
  <2> QED
    BY <2>1, <2>2, <2>3 DEF Good, Base, FileOK, HoldsFile, PositionOK
<1> HIDE DEF loaded
<1>3. Good(c, cl, t) /\ cl.state = "SEND_GET_SIZE"
  BY <1>2
<1>4. send_get_size(c) <=>
        \/ WriteError(c, <<>>) /\ close_and_cleanup(c, cl, dir)
        \/ \E n \in Accepts(left) :
             /\ Written(c, units(n), n < left)
             /\ IF n < left
                  THEN Keep(c, [cl EXCEPT !.simple_response_sent = sent(n)], dir)
                  ELSE Watch(c, next, dir, "WRITE")
  BY DEF send_get_size, loaded
<1> HIDE DEF cl
<1>5. /\ cl \in ClientType /\ cl.simple_response_buf \in Seq(RespUnit)
      /\ cl.simple_response_sent \in Nat /\ left \in Nat
  <2>1. /\ cl \in ClientType
        /\ cl.simple_response_sent <= Len(cl.simple_response_buf)
    BY <1>3 DEF Good, Base
  <2>2. /\ cl.simple_response_buf \in Seq(RespUnit)
        /\ cl.simple_response_sent \in Nat
    BY <2>1 DEF ClientType
  <2>3. left \in Nat
    BY <2>1, <2>2
  <2> QED
    BY <2>1, <2>2, <2>3
<1>6. Good(c, next, t)
  <2>1. next \in ClientType
    <3>1. <<>> \in Seq(RespUnit) /\ "SEND_GET_DATA" \in Sending
      BY DEF Sending
    <3> QED
      BY <1>5, <3>1 DEF ClientType
  <2>2. /\ next.simple_response_sent = 0 /\ next.simple_response_buf = <<>>
        /\ next.list_sent = cl.list_sent /\ next.list_buf = cl.list_buf
        /\ next.state = "SEND_GET_DATA"
        /\ next.request_verb = cl.request_verb /\ next.file_fd = cl.file_fd
    BY <1>5 DEF ClientType
  <2> HIDE DEF next
  <2> QED
    BY <1>3, <2>1, <2>2 DEF Good, Base, FileOK, HoldsFile, PositionOK
<1> HIDE DEF next
<1>7. CASE WriteError(c, <<>>) /\ close_and_cleanup(c, cl, dir)
  BY <1>7, CloseLeaves, WriteErrorOK, FixedResponses DEF Outcome, Context
<1>8. ASSUME NEW n \in Accepts(left), Written(c, units(n), n < left),
             IF n < left
               THEN Keep(c, [cl EXCEPT !.simple_response_sent = sent(n)], dir)
               ELSE Watch(c, next, dir, "WRITE")
      PROVE  Outcome(c, t)
  <2>1. n \in Nat /\ n <= left
    BY <1>5, <1>8, AcceptsRange
  <2>2. units(n) \in Seq(RespUnit)
    BY <1>5, <2>1, SliceType
  <2>3. Good(c, [cl EXCEPT !.simple_response_sent = sent(n)], t)
    BY <1>3, <2>1, SentGood
  <2>4. WritesOn
    BY <1>8, <2>2, WrittenOK DEF Context
  <2>5. Leaves(c, t)
    BY <1>6, <1>8, <2>3, KeepLeaves, WatchLeaves DEF Context
  <2> QED
    BY <2>4, <2>5 DEF Outcome
<1> QED
  BY <1>4, <1>7, <1>8

LEMMA GetDataOutcome ==
  ASSUME Context, NEW c \in Conn, NEW t, Good(c, client[c], t),
         client[c].state = "SEND_GET_DATA", DirOK(dir), DataOK(data),
         send_get_data(c)
  PROVE  Outcome(c, t)
<1> DEFINE cl == client[c]
           off == cl.bytes_transferred
           file == data[cl.file_fd]
           L == IF off >= Len(file) THEN 0
                ELSE Least(Len(file), cl.file_size) - off
           Sent(n) == Payload(SubSeq(file, off + 1, off + n))
           cl1(n) == [cl EXCEPT !.bytes_transferred = CountsWritten(cl, n, L)]
           cl2 == IF off + L = cl.file_size THEN [cl EXCEPT !.state = "DONE"]
                  ELSE cl
<1>1. cl \in ClientType /\ off \in Nat /\ cl.file_size \in Nat
  BY DEF Good, Base, ClientType
<1>2. cl.file_fd \in Conn
  BY <1>1 DEF Good, PositionOK, FileOK, HoldsFile, ClientType
<1>3. file \in Seq(Unit)
  BY <1>2 DEF DataOK
<1>4. ASSUME NEW n \in Nat, n <= L PROVE Sent(n) \in Seq(RespUnit)
  <2>1. SubSeq(file, off + 1, off + n) \in Seq(Unit)
    <3>1. CASE off >= Len(file)
      <4>1. n = 0
        BY <1>4, <3>1
      <4> QED
        BY <1>1, <1>3, <4>1, SubSeqProperties
    <3>2. CASE off < Len(file)
      <4>1. off + n <= Len(file)
        BY <1>1, <1>3, <1>4, <3>2 DEF Least
      <4> QED
        BY <1>1, <1>3, <4>1, SliceType
    <3> QED
      BY <1>1, <1>3, <3>1, <3>2
  <2> QED
    BY <2>1, PayloadType
<1>5. L \in Int
  BY <1>1, <1>3 DEF Least
<1>6. ASSUME NEW n \in Nat PROVE Good(c, cl1(n), t)
  <2>1. off + n \in Nat
    BY <1>1
  <2>2. cl1(n) = [cl EXCEPT !.bytes_transferred = off + n]
    BY DEF CountsWritten
  <2>3. cl1(n) \in ClientType
    BY <1>1, <2>1, <2>2 DEF ClientType
  <2>4. /\ cl1(n).simple_response_sent = cl.simple_response_sent
        /\ cl1(n).simple_response_buf = cl.simple_response_buf
        /\ cl1(n).list_sent = cl.list_sent /\ cl1(n).list_buf = cl.list_buf
        /\ cl1(n).state = "SEND_GET_DATA"
        /\ cl1(n).request_verb = cl.request_verb
        /\ cl1(n).file_fd = cl.file_fd
    BY <1>1, <2>2 DEF ClientType
  <2> HIDE DEF cl1
  <2> QED
    BY <2>3, <2>4 DEF Good, Base, FileOK, HoldsFile, PositionOK
<1>7. \/ \E n \in 0..(L - 1) :
           WriteError(c, Sent(n)) /\ close_and_cleanup(c, cl, dir)
      \/ \E n \in 0..(L - 1) :
           Written(c, Sent(n), TRUE) /\ Keep(c, cl1(n), dir)
      \/ /\ IF L = 0 THEN NoWrite ELSE Written(c, Sent(L), FALSE)
         /\ close_and_cleanup(c, cl2, dir)
  BY DEF send_get_data
<1> HIDE DEF cl, off, file, Sent, cl1, cl2
<1>8. ASSUME NEW n \in 0..(L - 1), WriteError(c, Sent(n)),
             close_and_cleanup(c, cl, dir)
      PROVE  Outcome(c, t)
  <2>1. n \in Nat /\ n <= L
    BY <1>5, <1>8
  <2> QED
    BY <1>4, <1>8, <2>1, CloseLeaves, WriteErrorOK DEF Outcome, Context
<1>9. ASSUME NEW n \in 0..(L - 1), Written(c, Sent(n), TRUE),
             Keep(c, cl1(n), dir)
      PROVE  Outcome(c, t)
  <2>1. n \in Nat /\ n <= L
    BY <1>5, <1>9
  <2>2. WritesOn
    BY <1>4, <1>9, <2>1, WrittenOK DEF Context
  <2> QED
    BY <1>6, <1>9, <2>1, <2>2, KeepLeaves DEF Outcome, Context
<1>10. CASE /\ IF L = 0 THEN NoWrite ELSE Written(c, Sent(L), FALSE)
            /\ close_and_cleanup(c, cl2, dir)
  <2>1. Leaves(c, t)
    BY <1>10, CloseLeaves DEF Context
  <2>2. WritesOn
    <3>1. CASE L = 0
      BY <1>10, <3>1, NoWriteOK DEF Context
    <3>2. CASE L # 0
      <4>1. Sent(L) \in Seq(RespUnit)
        <5>1. CASE L \in Nat
          BY <1>4, <1>5, <5>1
        <5>2. CASE L \notin Nat
          <6>1. SubSeq(file, off + 1, off + L) \in Seq(Unit)
            BY <1>1, <1>3, <1>5, <5>2, SubSeqProperties
          <6> QED
            BY <6>1, PayloadType DEF Sent
        <5> QED
          BY <5>1, <5>2
      <4> QED
        BY <1>10, <3>2, <4>1, WrittenOK DEF Context
    <3> QED
      BY <3>1, <3>2
  <2> QED
    BY <2>1, <2>2 DEF Outcome
<1> QED
  BY <1>7, <1>8, <1>9, <1>10

LEMMA ListDataOutcome ==
  ASSUME Context, NEW c \in Conn, NEW t, Good(c, client[c], t),
         client[c].state = "SEND_LIST_DATA", DirOK(dir), send_list_data(c)
  PROVE  Outcome(c, t)
<1> DEFINE cl == client[c]
           left == Len(cl.list_buf) - cl.list_sent
           units(n) == SubSeq(cl.list_buf, cl.list_sent + 1, cl.list_sent + n)
           cl1(n) == [cl EXCEPT !.list_sent = cl.list_sent + n]
<1>1. /\ cl \in ClientType /\ cl.list_buf \in Seq(RespUnit)
      /\ cl.list_sent \in Nat /\ left \in Nat
  BY DEF Good, Base, ClientType
<1>2. CASE WriteError(c, <<>>) /\ close_and_cleanup(c, cl, dir)
  BY <1>2, CloseLeaves, WriteErrorOK, FixedResponses DEF Outcome, Context
<1>3. ASSUME NEW n \in Accepts(left), Written(c, units(n), n < left),
             IF n < left THEN Keep(c, cl1(n), dir)
             ELSE close_and_cleanup(c, [cl1(n) EXCEPT !.state = "DONE"], dir)
      PROVE  Outcome(c, t)
  <2>1. n \in Nat /\ n <= left
    BY <1>1, <1>3, AcceptsRange
  <2>2. units(n) \in Seq(RespUnit)
    <3>1. cl.list_sent + n <= Len(cl.list_buf)
      BY <1>1, <2>1
    <3> QED
      BY <1>1, <2>1, <3>1, SliceType
  <2>3. WritesOn
    BY <1>3, <2>2, WrittenOK DEF Context
  <2>4. cl.list_sent + n \in Nat /\ cl.list_sent + n <= Len(cl.list_buf)
    BY <1>1, <2>1
  <2>5. cl1(n) \in ClientType
    BY <1>1, <2>4 DEF ClientType
  <2>6. /\ cl1(n).simple_response_sent = cl.simple_response_sent
        /\ cl1(n).simple_response_buf = cl.simple_response_buf
        /\ cl1(n).list_sent = cl.list_sent + n /\ cl1(n).list_buf = cl.list_buf
        /\ cl1(n).state = cl.state /\ cl1(n).request_verb = cl.request_verb
        /\ cl1(n).file_fd = cl.file_fd
    BY <1>1 DEF ClientType
  <2> HIDE DEF cl1
  <2>7. Good(c, cl1(n), t)
    BY <2>4, <2>5, <2>6 DEF Good, Base, FileOK, HoldsFile, PositionOK
  <2> QED
    BY <1>3, <2>3, <2>7, KeepLeaves, CloseLeaves DEF Outcome, Context
<1> QED
  BY <1>2, <1>3 DEF send_list_data

LEMMA WriteHandled ==
  ASSUME Context, NEW c \in Conn, taken \in [Conn -> Nat],
         taken[c] <= arrived[c], Good(c, client[c], taken[c]),
         DirOK(dir), DataOK(data), handle_write_event(c)
  PROVE  Handled(c)
<1>1. UNCHANGED <<taken, data, server_files>>
  BY DEF handle_write_event
<1>2. Outcome(c, taken[c])
  BY ResponseOutcome, ListDataOutcome, GetSizeOutcome, GetDataOutcome
  DEF handle_write_event
<1>3. taken[c] \in Nat /\ taken' = [taken EXCEPT ![c] = taken[c]]
  BY <1>1
<1> QED
  BY <1>1, <1>2, <1>3 DEF Handled, Context

-----------------------------------------------------------------------------
(***************************************************************************)
(* The steps.                                                              *)
(***************************************************************************)
LEMMA InvInit == Init => IInv
<1> SUFFICES ASSUME Init PROVE IInv
  OBVIOUS
<1>1. NoRequest \in Request
  BY DEF NoRequest, Request
<1>2. client_create \in ClientType
  BY ConstantsAssumption, FixedResponses
     DEF client_create, ClientType, Receiving, Verb
<1>3. <<>> \in Seq(RespUnit) /\ <<>> \in Seq(Unit) /\ <<>> \in Seq(Name)
  OBVIOUS
<1>4. TypeOK
  BY <1>1, <1>2, <1>3 DEF Init, TypeOK
<1>5. SocketInv
  BY DEF Init, SocketInv, NoUseAfterFree
<1>6. ClientInv
  BY DEF Init, ClientInv, ClientOK
<1>7. DirOK(dir) /\ DataOK(data)
  BY DEF Init, DirOK, DataOK, Inodes
<1> QED
  BY <1>4, <1>5, <1>6, <1>7 DEF IInv

(* No connection ever goes back to having no request.                      *)
LEMMA FilesFrame ==
  ASSUME DirOK(dir), DataOK(data), dir' = dir, data' = data,
         \A c \in Conn : Made(c) => Made(c)' /\ req'[c] = req[c]
  PROVE  DirOK(dir)' /\ DataOK(data)'
<1>1. DirOK(dir)'
  BY DEF DirOK, Inodes
<1>2. ASSUME NEW i \in Conn, NEW k \in 1..Len(data[i])
      PROVE  Made(i)' /\ UnitOK(data[i][k], i, k)'
  BY <1>2 DEF DataOK, UnitOK
<1>3. DataOK(data)'
  BY <1>2 DEF DataOK
<1> QED
  BY <1>1, <1>3

LEMMA GoodFrame ==
  ASSUME NEW c \in Conn, Made(c), NEW cl, NEW t, Good(c, cl, t),
         \A x \in Conn : Made(x) => Made(x)' /\ req'[x] = req[x],
         client'[c] = cl, taken'[c] = t
  PROVE  Good(c, client[c], taken[c])'
<1>1. cl.file_fd \in Conn \cup {NoInode}
  BY DEF Good, Base, ClientType
<1>2. Base(cl) /\ FileOK(c, cl)' /\ PositionOK(c, cl, t)'
  BY <1>1 DEF Good, FileOK, HoldsFile, PositionOK, Upload
<1> QED
  BY <1>2 DEF Good, Base, FileOK, HoldsFile, PositionOK, Upload

LEMMA DispatchPreserves ==
  ASSUME IInv, NEW c \in Conn, sock[c] = "open", Handled(c),
         UNCHANGED peerVars, batch' = [batch EXCEPT ![c] = {}]
  PROVE  IInv'
<1> USE DEF peerVars
<1>1. PICK t \in Nat :
        /\ t <= arrived[c] /\ taken' = [taken EXCEPT ![c] = t]
        /\ Outcome(c, t) /\ DataOK(data') /\ server_files' \in Seq(Name)
  BY DEF Handled
<1>2. /\ sock' \in [Conn -> {"none", "backlog", "open", "closed"}]
      /\ interest' \in [Conn -> {{}, {"READ"}, {"WRITE"}}]
      /\ client' \in [Conn -> ClientType]
      /\ \A x \in Conn : x # c => /\ sock'[x] = sock[x]
                                  /\ interest'[x] = interest[x]
                                  /\ client'[x] = client[x]
      /\ interest'[c] # {} <=> sock'[c] = "open"
  <2>1. CASE StaysOpenWith(c, t)
    <3>1. PICK cl \in ClientType : client' = [client EXCEPT ![c] = cl]
      BY <2>1 DEF StaysOpenWith
    <3>2. client' \in [Conn -> ClientType]
          /\ \A x \in Conn : x # c => client'[x] = client[x]
      BY <3>1 DEF IInv, TypeOK
    <3>3. /\ interest' \in [Conn -> {{}, {"READ"}, {"WRITE"}}]
          /\ \A x \in Conn : x # c => interest'[x] = interest[x]
          /\ interest'[c] # {}
      BY <2>1 DEF StaysOpenWith, IInv, SocketInv
    <3> QED
      BY <2>1, <3>2, <3>3 DEF StaysOpenWith, IInv, TypeOK
  <2>2. CASE IsClosed(c)
    <3>1. client_create \in ClientType
      BY CreatedGood DEF Good, Base
    <3> QED
      BY <2>2, <3>1 DEF IsClosed, IInv, TypeOK, SocketInv
  <2> QED
    BY <1>1, <2>1, <2>2 DEF Outcome, Leaves
<1>3. \/ sock'[c] = "open" /\ Good(c, client'[c], t)
      \/ sock'[c] = "closed" /\ client'[c] = client_create
  BY <1>1 DEF Outcome, Leaves, StaysOpenWith, IsClosed, IInv, TypeOK
<1>4. \A x \in Conn : (Made(x) <=> Made(x)') /\ req'[x] = req[x]
  BY <1>2, <1>3 DEF Made
<1>5. TypeOK'
  <2>1. /\ resp' \in [Conn -> Seq(RespUnit)] /\ full' \subseteq Conn
        /\ rst' \subseteq Conn /\ armed' \subseteq Conn
        /\ dir' \in [Name -> Conn \cup {NoInode}] /\ data' \in [Conn -> Seq(Unit)]
    BY <1>1 DEF Outcome, Leaves, WritesOn, WritesOK, DirOK, DataOK, Inodes
  <2>2. taken' \in [Conn -> Nat] /\ batch' \in [Conn -> SUBSET Event]
    BY <1>1 DEF IInv, TypeOK
  <2>3. interest' \in [Conn -> SUBSET {"READ", "WRITE"}]
    BY <1>2
  <2> QED
    BY <1>1, <1>2, <2>1, <2>2, <2>3 DEF IInv, TypeOK
<1>6. SocketInv'
  BY <1>2 DEF IInv, SocketInv, NoUseAfterFree, TypeOK
<1>7. ClientInv'
  <2> SUFFICES ASSUME NEW x \in Conn PROVE ClientOK(x)'
    BY DEF ClientInv
  <2>1. taken'[c] = t /\ Made(c)
    BY <1>1 DEF IInv, TypeOK, Made
  <2>2. CASE x = c
    <3>1. CASE sock'[c] = "open" /\ Good(c, client'[c], t)
      <4>1. PICK cl : cl = client'[c]
        OBVIOUS
      <4>2. Good(c, client[c], taken[c])'
        BY <1>4, <2>1, <3>1, <4>1, GoodFrame
      <4> QED
        BY <1>1, <2>1, <2>2, <3>1, <4>2 DEF ClientOK
    <3>2. CASE sock'[c] = "closed" /\ client'[c] = client_create
      BY <1>1, <2>1, <2>2, <3>2 DEF ClientOK
    <3> QED
      BY <1>3, <3>1, <3>2
  <2>3. CASE x # c
    <3>1. /\ taken'[x] = taken[x] /\ client'[x] = client[x]
          /\ sock'[x] = sock[x] /\ ClientOK(x)
      BY <1>1, <1>2, <2>3 DEF IInv, TypeOK, ClientInv
    <3>2. sock[x] = "open" => Good(x, client[x], taken[x])'
      BY <1>4, <3>1, GoodFrame DEF ClientOK, Made
    <3> QED
      BY <3>1, <3>2 DEF ClientOK
  <2> QED
    BY <2>2, <2>3
<1>8. DirOK(dir)'
  BY <1>1, <1>4 DEF Outcome, Leaves, DirOK, Inodes
<1>9. DataOK(data)'
  <2>1. DataOK(data')
    BY <1>1
  <2>2. ASSUME NEW i \in Conn, NEW k \in 1..Len(data'[i])
        PROVE  Made(i)' /\ UnitOK(data[i][k], i, k)'
    BY <1>4, <2>1, <2>2 DEF DataOK, UnitOK
  <2> QED
    BY <2>1, <2>2 DEF DataOK
<1> QED
  BY <1>5, <1>6, <1>7, <1>8, <1>9 DEF IInv

LEMMA DispatchHandled ==
  ASSUME IInv, NEW c \in Conn, Dispatch(c)
  PROVE  /\ sock[c] = "open" /\ Made(c) /\ Good(c, client[c], taken[c])
         /\ taken[c] <= arrived[c] /\ Context /\ taken \in [Conn -> Nat]
         /\ DirOK(dir) /\ DataOK(data)
         /\ Handled(c)
         /\ UNCHANGED peerVars /\ batch' = [batch EXCEPT ![c] = {}]
<1>1. Context /\ taken \in [Conn -> Nat] /\ DirOK(dir) /\ DataOK(data)
  BY DEF Context, WritesOK, IInv, TypeOK
<1>2. batch[c] # {}
  BY DEF Dispatch, HandleError, HandleRead, HandleWrite
<1>3. sock[c] = "open" /\ Made(c) /\ Good(c, client[c], taken[c])
      /\ taken[c] <= arrived[c]
  BY <1>2 DEF IInv, SocketInv, NoUseAfterFree, ClientInv, ClientOK, Made
<1>4. CASE HandleError(c)
  <2>1. Outcome(c, taken[c])
    BY <1>1, <1>4, CloseLeaves, NoWriteOK DEF HandleError, Outcome, Context
  <2>2. taken[c] \in Nat /\ taken' = [taken EXCEPT ![c] = taken[c]]
    BY <1>1, <1>4 DEF HandleError
  <2>3. Handled(c)
    BY <1>1, <1>3, <1>4, <2>1, <2>2 DEF HandleError, Handled, Context
  <2> QED
    BY <1>1, <1>3, <1>4, <2>3 DEF HandleError
<1>5. CASE HandleRead(c)
  <2>1. batch[c] \ {"READ"} = {}
    <3>1. batch[c] \subseteq {"READ", "WRITE", "ERROR"}
      BY DEF IInv, TypeOK, Event
    <3>2. ~({"READ", "WRITE"} \subseteq batch[c])
      BY DEF IInv, SocketInv, NoUseAfterFree
    <3>3. "READ" \in batch[c] /\ "ERROR" \notin batch[c]
      BY <1>5 DEF HandleRead
    <3> QED
      BY <3>1, <3>2, <3>3
  <2>2. batch' = [batch EXCEPT ![c] = {}]
    BY <1>5, <2>1 DEF HandleRead
  <2>3. Handled(c)
    BY <1>1, <1>3, <1>5, ReadHandled DEF HandleRead
  <2> QED
    BY <1>1, <1>3, <1>5, <2>2, <2>3 DEF HandleRead
<1>6. CASE HandleWrite(c)
  <2>1. Handled(c)
    BY <1>1, <1>3, <1>6, WriteHandled DEF HandleWrite
  <2> QED
    BY <1>1, <1>3, <1>6, <2>1 DEF HandleWrite
<1> QED
  BY <1>4, <1>5, <1>6 DEF Dispatch

LEMMA DispatchStep ==
  ASSUME IInv, NEW c \in Conn, Dispatch(c)
  PROVE  IInv'
BY DispatchHandled, DispatchPreserves

(* A step that runs no handler leaves the files and the open clients as    *)
(* they are; it may add a connection, or make a client for it.             *)
LEMMA OutsidePreserves ==
  ASSUME IInv, TypeOK', SocketInv', UNCHANGED <<taken, diskVars>>,
         \A x \in Conn : Made(x) => Made(x)' /\ req'[x] = req[x],
         \A x \in Conn : arrived[x] <= arrived'[x],
         \A x \in Conn :
           \/ sock'[x] = sock[x] /\ client'[x] = client[x]
           \/ /\ sock[x] = "none" /\ sock'[x] = "backlog"
              /\ client'[x] = client[x]
           \/ /\ sock[x] = "backlog" /\ sock'[x] = "open"
              /\ client'[x] = client_create
  PROVE  IInv'
<1>1. DirOK(dir)' /\ DataOK(data)'
  BY FilesFrame DEF IInv, diskVars
<1>2. ClientInv'
  <2> SUFFICES ASSUME NEW x \in Conn PROVE ClientOK(x)'
    BY DEF ClientInv
  <2>1. ClientOK(x) /\ taken'[x] = taken[x] /\ taken'[x] <= arrived'[x]
    <3>1. ClientOK(x) /\ taken' = taken /\ arrived[x] <= arrived'[x]
      BY DEF IInv, ClientInv
    <3>2. taken[x] \in Nat /\ arrived[x] \in Nat /\ arrived'[x] \in Nat
      BY DEF IInv, TypeOK
    <3> QED
      BY <3>1, <3>2 DEF ClientOK
  <2>2. CASE sock'[x] = sock[x] /\ client'[x] = client[x]
    <3>1. sock[x] = "open" => Good(x, client[x], taken[x])'
      BY <2>1, <2>2, GoodFrame DEF ClientOK, Made
    <3> QED
      BY <2>1, <2>2, <3>1 DEF ClientOK
  <2>3. CASE sock[x] = "none" /\ sock'[x] = "backlog" /\ client'[x] = client[x]
    BY <2>1, <2>3 DEF ClientOK
  <2>4. CASE /\ sock[x] = "backlog" /\ sock'[x] = "open"
             /\ client'[x] = client_create
    <3>1. taken'[x] = 0 /\ Made(x)
      BY <2>1, <2>4 DEF ClientOK, Made
    <3>2. PICK cl : cl = client_create
      OBVIOUS
    <3>3. Good(x, client[x], taken[x])'
      BY <2>4, <3>1, <3>2, CreatedGood, GoodFrame
    <3> QED
      BY <2>1, <2>4, <3>3 DEF ClientOK
  <2> QED
    BY <2>2, <2>3, <2>4
<1> QED
  BY <1>1, <1>2 DEF IInv

LEMMA WaitStep ==
  ASSUME IInv, event_loop_wait
  PROVE  IInv'
<1>1. PICK S \in SUBSET Candidates :
        /\ batch' = [c \in Conn |-> IF c \in S THEN Poll(c) ELSE {}]
        /\ armed' = armed \ S
  BY DEF event_loop_wait
<1>2. UNCHANGED <<req, arrived, fin, sock, taken, resp, full, rst, interest,
                  client, server_files, dir, data>>
  BY DEF event_loop_wait, peerVars, writeVars, diskVars
<1>3. \A c \in Conn : Poll(c) \in SUBSET Event /\ Poll(c) \subseteq interest[c] \cup {"ERROR"}
  BY DEF Poll, Reported, Event
<1>4. batch' \in [Conn -> SUBSET Event]
  BY <1>1, <1>3
<1>5. TypeOK'
  BY <1>1, <1>2, <1>4 DEF IInv, TypeOK
<1>6. SocketInv'
  <2>1. \A c \in Conn : /\ ~({"READ", "WRITE"} \subseteq batch'[c])
                        /\ batch'[c] # {} => interest[c] # {}
    <3> SUFFICES ASSUME NEW c \in Conn
                 PROVE  /\ ~({"READ", "WRITE"} \subseteq Poll(c))
                        /\ Poll(c) # {} => interest[c] # {}
      BY <1>1
    <3>1. interest[c] \in {{}, {"READ"}, {"WRITE"}}
      BY DEF IInv, SocketInv
    <3> QED
      BY <3>1 DEF Poll, Reported
  <2> QED
    BY <1>2, <2>1 DEF IInv, SocketInv, NoUseAfterFree
<1>7. \A x \in Conn : arrived[x] <= arrived'[x]
  BY <1>2 DEF IInv, TypeOK
<1> QED
  BY <1>2, <1>5, <1>6, <1>7, OutsidePreserves DEF Made, diskVars

LEMMA AcceptStep ==
  ASSUME IInv, accept_connections
  PROVE  IInv'
<1> DEFINE S == {c \in Conn : sock[c] = "backlog"}
<1>1. /\ sock' = [c \in Conn |-> IF c \in S THEN "open" ELSE sock[c]]
      /\ interest' = [c \in Conn |-> IF c \in S THEN {"READ"} ELSE interest[c]]
      /\ client' = [c \in Conn |-> IF c \in S THEN client_create ELSE client[c]]
      /\ armed' \subseteq Conn
      /\ UNCHANGED <<req, arrived, fin, taken, resp, full, rst, batch,
                     server_files, dir, data>>
  BY DEF accept_connections, peerVars, writeVars, diskVars, IInv, TypeOK
<1>2. client_create \in ClientType
  <2> SUFFICES ASSUME S # {} PROVE client_create \in ClientType
    BY DEF accept_connections
  <2> QED
    BY CreatedGood DEF Good, Base
<1>3. TypeOK'
  <2>1. client' \in [Conn -> ClientType]
    BY <1>1, <1>2 DEF IInv, TypeOK
  <2>2. /\ sock' \in [Conn -> {"none", "backlog", "open", "closed"}]
        /\ interest' \in [Conn -> SUBSET {"READ", "WRITE"}]
    BY <1>1 DEF IInv, TypeOK
  <2> QED
    BY <1>1, <2>1, <2>2 DEF IInv, TypeOK
<1>4. SocketInv'
  <2>1. interest' \in [Conn -> {{}, {"READ"}, {"WRITE"}}]
    BY <1>1 DEF IInv, SocketInv
  <2>2. ASSUME NEW c \in Conn
        PROVE  /\ interest'[c] # {} <=> sock'[c] = "open"
               /\ ~({"READ", "WRITE"} \subseteq batch'[c])
               /\ batch'[c] # {} => sock'[c] = "open" /\ interest'[c] # {}
    BY <1>1 DEF IInv, SocketInv, NoUseAfterFree
  <2> QED
    BY <2>1, <2>2 DEF SocketInv, NoUseAfterFree
<1>5. ASSUME NEW x \in Conn
      PROVE  \/ sock'[x] = sock[x] /\ client'[x] = client[x]
             \/ /\ sock[x] = "backlog" /\ sock'[x] = "open"
                /\ client'[x] = client_create
  BY <1>1
<1>6. \A x \in Conn : Made(x) => Made(x)' /\ req'[x] = req[x]
  BY <1>1 DEF Made
<1>7. \A x \in Conn : arrived[x] <= arrived'[x]
  BY <1>1 DEF IInv, TypeOK
<1> QED
  BY <1>1, <1>3, <1>4, <1>5, <1>6, <1>7, OutsidePreserves DEF diskVars

LEMMA ConnectStep ==
  ASSUME IInv, NEW c \in Conn, Connect(c)
  PROVE  IInv'
<1>1. /\ sock[c] = "none" /\ sock' = [sock EXCEPT ![c] = "backlog"]
      /\ UNCHANGED <<arrived, fin, taken, resp, full, rst, interest, armed,
                     batch, client, server_files, dir, data>>
  BY DEF Connect, writeVars, diskVars
<1>2. PICK r \in Requests[c] : req' = [req EXCEPT ![c] = r]
  BY DEF Connect
<1>3. r \in Request
  BY ConstantsAssumption
<1>4. TypeOK'
  BY <1>1, <1>2, <1>3 DEF IInv, TypeOK
<1>5. SocketInv'
  BY <1>1 DEF IInv, SocketInv, NoUseAfterFree, TypeOK
<1>6. ASSUME NEW x \in Conn
      PROVE  /\ \/ sock'[x] = sock[x] /\ client'[x] = client[x]
                \/ /\ sock[x] = "none" /\ sock'[x] = "backlog"
                   /\ client'[x] = client[x]
             /\ Made(x) => Made(x)' /\ req'[x] = req[x]
             /\ arrived[x] <= arrived'[x]
  BY <1>1, <1>2 DEF IInv, TypeOK, Made
<1> QED
  BY <1>1, <1>4, <1>5, <1>6, OutsidePreserves DEF diskVars

(* What the peer of a connection does once it is made.                     *)
LEMMA PeerStep ==
  ASSUME IInv, NEW c \in Conn, Arrive(c) \/ Close(c) \/ Reset(c) \/ Drain(c)
  PROVE  IInv'
<1>1. /\ armed' \subseteq Conn /\ fin' \subseteq Conn /\ rst' \subseteq Conn
      /\ full' \subseteq Conn
      /\ UNCHANGED <<req, sock, taken, resp, interest, batch, client,
                     server_files, dir, data>>
  BY DEF Arrive, Close, Reset, Drain, Notify, IInv, TypeOK, peerVars,
         writeVars, diskVars
<1>2. arrived' \in [Conn -> Nat] /\ \A x \in Conn : arrived[x] <= arrived'[x]
  <2>1. arrived \in [Conn -> Nat]
    BY DEF IInv, TypeOK
  <2>2. CASE Arrive(c)
    <3>1. PICK n \in 1..(req[c].len - arrived[c]) :
            arrived' = [arrived EXCEPT ![c] = @ + n]
      BY <2>2 DEF Arrive
    <3>2. req[c].len \in Nat
      BY DEF IInv, TypeOK, Request
    <3>3. n \in Nat
      BY <2>1, <3>2
    <3> QED
      BY <2>1, <3>1, <3>3
  <2>3. CASE arrived' = arrived
    BY <2>1, <2>3
  <2> QED
    BY <2>2, <2>3 DEF Close, Reset, Drain, peerVars
<1>3. TypeOK'
  BY <1>1, <1>2 DEF IInv, TypeOK
<1>4. SocketInv'
  BY <1>1 DEF IInv, SocketInv, NoUseAfterFree
<1> QED
  BY <1>1, <1>2, <1>3, <1>4, OutsidePreserves DEF diskVars, Made

LEMMA StutterStep ==
  ASSUME IInv, UNCHANGED vars
  PROVE  IInv'
<1>1. TypeOK' /\ SocketInv'
  BY DEF vars, peerVars, writeVars, diskVars, IInv, TypeOK, SocketInv,
         NoUseAfterFree
<1>2. \A x \in Conn : arrived[x] <= arrived'[x]
  BY DEF vars, peerVars, IInv, TypeOK
<1> QED
  BY <1>1, <1>2, OutsidePreserves DEF vars, peerVars, diskVars, Made

LEMMA InvNext == IInv /\ [Next]_vars => IInv'
<1> SUFFICES ASSUME IInv, [Next]_vars PROVE IInv'
  OBVIOUS
<1>1. CASE event_loop_wait
  BY <1>1, WaitStep
<1>2. CASE accept_connections
  BY <1>2, AcceptStep
<1>3. ASSUME NEW c \in Conn, Dispatch(c) PROVE IInv'
  BY <1>3, DispatchStep
<1>4. ASSUME NEW c \in Conn, Peer(c) PROVE IInv'
  BY <1>4, ConnectStep, PeerStep DEF Peer
<1>5. CASE UNCHANGED vars
  BY <1>5, StutterStep
<1> QED
  BY <1>1, <1>2, <1>3, <1>4, <1>5 DEF Next, Idle

-----------------------------------------------------------------------------
(***************************************************************************)
(* The theorems.                                                           *)
(***************************************************************************)

(* In every state the server can reach: each client's fields agree with    *)
(* its state, with how much of its stream has been read and with the files *)
(* (server.c:47-68), for any number of connections, any sizes and either   *)
(* event back end.                                                         *)
THEOREM ServerInvariant == Spec => []IInv
BY InvInit, InvNext, PTL DEF Spec

(* Every variable has its type; no registered client is in state "DONE".   *)
THEOREM TypeCorrect == Spec => []TypeOK
<1>1. IInv => TypeOK
  BY DEF IInv
<1> QED
  BY <1>1, ServerInvariant, PTL

(* main never touches a client that one of its handlers has freed          *)
(* (server.c:764-778).                                                     *)
THEOREM MemorySafe == Spec => []NoUseAfterFree
<1>1. IInv => NoUseAfterFree
  BY DEF IInv, SocketInv
<1> QED
  BY <1>1, ServerInvariant, PTL

(* file_fd is a descriptor exactly in the states that use it               *)
(* (server.c:308, 339-366, 383-391, 444-464).                              *)
THEOREM DescriptorsHeld == Spec => []FdDiscipline
<1>1. IInv => FdDiscipline
  <2> SUFFICES ASSUME IInv, NEW c \in Conn
               PROVE  client[c].file_fd # NoInode <=> HoldsFile(client[c])
    BY DEF FdDiscipline, HoldsFile
  <2>1. ClientOK(c)
    BY DEF IInv, ClientInv
  <2>2. CASE sock[c] = "open"
    BY <2>1, <2>2 DEF ClientOK, Good, FileOK
  <2>3. CASE sock[c] # "open"
    BY <2>1, <2>3 DEF ClientOK, HoldsFile, client_create
  <2> QED
    BY <2>2, <2>3
<1> QED
  BY <1>1, ServerInvariant, PTL

(* However uploads and removals of a name are interleaved, a file holds    *)
(* only units of uploads of its name, each at its sender's offset          *)
(* (recv_put_data, server.c:321-377).                                      *)
THEOREM UploadsStoredInPlace == Spec => []StoredInPlace
<1>1. IInv => StoredInPlace
  <2> SUFFICES ASSUME IInv, NEW i \in Conn, NEW k \in 1..Len(data[i])
               PROVE  InPlace(data[i][k], req[i].name, k)
    BY DEF StoredInPlace
  <2>1. UnitOK(data[i][k], i, k)
    BY DEF IInv, DataOK
  <2> QED
    BY <2>1 DEF UnitOK, InPlace
<1> QED
  BY <1>1, ServerInvariant, PTL

-----------------------------------------------------------------------------
(***************************************************************************)
(* The list of file names.                                                 *)
(***************************************************************************)
Distinct(s) == \A i, j \in 1..Len(s) : s[i] = s[j] => i = j

LEMMA AddKeepsDistinct ==
  ASSUME NEW S, NEW files \in Seq(S), Distinct(files), NEW n
  PROVE  Distinct(add_file_to_list(files, n))
<1>1. CASE n \in Listed(files)
  BY <1>1 DEF add_file_to_list
<1>2. CASE n \notin Listed(files)
  <2> DEFINE new == Append(files, n)
  <2>1. /\ Len(new) = Len(files) + 1 /\ new[Len(files) + 1] = n
        /\ \A i \in 1..Len(files) : new[i] = files[i] /\ files[i] # n
    BY <1>2 DEF Listed
  <2>2. Len(files) \in Nat
    OBVIOUS
  <2> HIDE DEF new
  <2>3. Distinct(new)
    BY <2>1, <2>2 DEF Distinct
  <2> QED
    BY <1>2, <2>3 DEF add_file_to_list, vector_push_back, new
<1> QED
  BY <1>1, <1>2

(* Removing a listed name closes the gap and keeps everything else.        *)
LEMMA RemovedElements ==
  ASSUME NEW files \in Seq(Name), NEW n \in Listed(files)
  PROVE  \E p \in 1..Len(files) :
           LET new == remove_file_from_list(files, n) IN
           /\ files[p] = n /\ Len(new) = Len(files) - 1
           /\ \A i \in 1..(Len(files) - 1) :
                new[i] = files[IF i < p THEN i ELSE i + 1]
<1> DEFINE p == FirstIndex(files, n)
           L == Len(files)
           left == SubSeq(files, 1, p - 1)
           right == SubSeq(files, p + 1, L)
           new == left \o right
<1>1. p \in 1..L /\ L \in Nat /\ files[p] = n
  BY FirstIndexRange
<1> HIDE DEF p
<1>2. /\ left \in Seq(Name) /\ Len(left) = p - 1
      /\ \A i \in 1..(p - 1) : left[i] = files[i]
  BY <1>1, SubSeqProperties
<1>3. /\ right \in Seq(Name) /\ Len(right) = L - p
      /\ \A i \in 1..(L - p) : right[i] = files[p + i]
  BY <1>1, SubSeqProperties
<1> HIDE DEF left, right
<1>4. /\ Len(new) = L - 1
      /\ \A i \in 1..(L - 1) : new[i] = files[IF i < p THEN i ELSE i + 1]
  <2>1. /\ Len(new) = (p - 1) + (L - p)
        /\ \A i \in 1..((p - 1) + (L - p)) :
             new[i] = IF i <= p - 1 THEN left[i] ELSE right[i - (p - 1)]
    <3>1. /\ Len(new) = Len(left) + Len(right)
          /\ \A i \in 1..(Len(left) + Len(right)) :
               new[i] = IF i <= Len(left) THEN left[i] ELSE right[i - Len(left)]
      BY <1>2, <1>3, ConcatProperties
    <3> HIDE DEF new
    <3> QED
      BY <1>1, <1>2, <1>3, <3>1
  <2>2. (p - 1) + (L - p) = L - 1
    BY <1>1
  <2> HIDE DEF new
  <2>3. ASSUME NEW i \in 1..(L - 1), i < p PROVE new[i] = files[i]
    BY <1>1, <1>2, <2>1, <2>2, <2>3
  <2>4. ASSUME NEW i \in 1..(L - 1), ~(i < p) PROVE new[i] = files[i + 1]
    <3>1. new[i] = right[i - (p - 1)]
      BY <1>1, <2>1, <2>2, <2>4
    <3>2. i - (p - 1) \in 1..(L - p) /\ p + (i - (p - 1)) = i + 1
      BY <1>1, <2>4
    <3> QED
      BY <1>3, <3>1, <3>2
  <2> QED
    BY <2>1, <2>2, <2>3, <2>4
<1> HIDE DEF new
<1>5. remove_file_from_list(files, n) = new
  BY DEF remove_file_from_list, vector_erase, new, left, right, p, L
<1> QED
  BY <1>1, <1>4, <1>5 DEF L

LEMMA RemoveKeepsDistinct ==
  ASSUME NEW files \in Seq(Name), Distinct(files), NEW n
  PROVE  Distinct(remove_file_from_list(files, n))
<1> DEFINE new == remove_file_from_list(files, n)
           L == Len(files)
<1>1. CASE n \notin Listed(files)
  BY <1>1 DEF remove_file_from_list
<1>2. CASE n \in Listed(files)
  <2>1. PICK p \in 1..L :
          /\ Len(new) = L - 1
          /\ \A i \in 1..(L - 1) : new[i] = files[IF i < p THEN i ELSE i + 1]
    BY <1>2, RemovedElements
  <2>2. L \in Nat
    OBVIOUS
  <2> HIDE DEF new
  <2>3. Distinct(new)
    BY <2>1, <2>2 DEF Distinct
  <2> QED
    BY <2>3 DEF new
<1> QED
  BY <1>1, <1>2

(* The list changes only by add_file_to_list and remove_file_from_list.    *)
ListMoves ==
  \/ server_files' = server_files
  \/ \E n : \/ server_files' = add_file_to_list(server_files, n)
            \/ server_files' = remove_file_from_list(server_files, n)

LEMMA PutMoves ==
  ASSUME NEW c, NEW cl, NEW d, NEW dt, NEW t, recv_put_data(c, cl, d, dt, t)
  PROVE  ListMoves
BY DEF recv_put_data, ListMoves

LEMMA HeaderMoves ==
  ASSUME NEW c, NEW cl, parse_header_and_transition(c, cl)
  PROVE  ListMoves
BY DEF parse_header_and_transition, delete_request, ListMoves

LEMMA ReadMoves ==
  ASSUME NEW c, handle_read_event(c)
  PROVE  ListMoves
<1>1. CASE read_header(c)
  BY <1>1, HeaderMoves DEF read_header, ListMoves
<1>2. CASE recv_put_size(c)
  BY <1>2, PutMoves DEF recv_put_size, ListMoves
<1>3. CASE recv_put_data(c, client[c], dir, data, taken[c])
  BY <1>3, PutMoves
<1>4. CASE NothingToDo(c)
  BY <1>4 DEF NothingToDo, ListMoves
<1> QED
  BY <1>1, <1>2, <1>3, <1>4 DEF handle_read_event

LEMMA NextMoves == [Next]_vars => ListMoves
<1> SUFFICES ASSUME [Next]_vars PROVE ListMoves
  OBVIOUS
<1>1. ASSUME NEW c \in Conn, Dispatch(c) PROVE ListMoves
  BY <1>1, ReadMoves
  DEF Dispatch, HandleError, HandleRead, HandleWrite, handle_write_event,
      ListMoves
<1>2. ASSUME NEW c \in Conn, Peer(c) PROVE ListMoves
  BY <1>2 DEF Peer, Connect, Arrive, Close, Reset, Drain, ListMoves
<1>3. CASE event_loop_wait \/ accept_connections \/ UNCHANGED vars
  BY <1>3 DEF event_loop_wait, accept_connections, vars, ListMoves
<1> QED
  BY <1>1, <1>2, <1>3 DEF Next, Idle

(* No order of uploads and removals of a name, by any number of clients,   *)
(* lists it twice (server.c:260-275).                                      *)
THEOREM NamesListedOnce == Spec => []NoDuplicateNames
<1>1. Init => NoDuplicateNames
  BY DEF Init, NoDuplicateNames
<1>2. IInv /\ NoDuplicateNames /\ [Next]_vars => NoDuplicateNames'
  <2> SUFFICES ASSUME IInv, NoDuplicateNames, [Next]_vars
               PROVE  NoDuplicateNames'
    OBVIOUS
  <2>1. server_files \in Seq(Name) /\ Distinct(server_files)
    BY DEF IInv, TypeOK, NoDuplicateNames, Distinct
  <2>2. Distinct(server_files')
    BY <2>1, NextMoves, AddKeepsDistinct, RemoveKeepsDistinct DEF ListMoves
  <2> QED
    BY <2>2 DEF NoDuplicateNames, Distinct
<1> QED
  BY <1>1, <1>2, ServerInvariant, PTL DEF Spec

=============================================================================
