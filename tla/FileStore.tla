----------------------------- MODULE FileStore -----------------------------
(***************************************************************************)
(* What a user who lets the uploads and removals of a name follow one      *)
(* another may take the file server for: files that change in one step, a  *)
(* list of their names, and one answer per request.  Connections, streams, *)
(* events, buffers and descriptors do not show.                            *)
(*                                                                         *)
(* FileServer implements it on those terms (StoreRefinement).              *)
(***************************************************************************)
CONSTANTS
  Conn, Name,
  None, Changing,    \* no file; a file that is being replaced
  Nothing,           \* no request yet
  Requests,          \* Requests[c]: records of verb, name, content, and
                     \* whether the request is sound: well formed, and whole
  OpenFails          \* whether a file that is there may fail to open

VARIABLES
  asked,        \* the request of each connection
  store,        \* the content of each name, None, or Changing
  listed,       \* the names a LIST shows
  answer,       \* "none", "OK" or "ERROR", per connection
  shown         \* {the names} that each LIST was given, or {}

vars == <<asked, store, listed, answer, shown>>

N(c) == asked[c].name

(* The first and only answer to a sound request of this verb.              *)
Answers(c, verb, what) ==
  /\ asked[c].verb = verb /\ asked[c].sound /\ answer[c] = "none"
  /\ answer' = [answer EXCEPT ![c] = what]
  /\ UNCHANGED asked

Ask(c) ==
  /\ asked[c] = Nothing
  /\ \E r \in Requests[c] : asked' = [asked EXCEPT ![c] = r]
  /\ UNCHANGED <<store, listed, answer, shown>>

(* From here on the name has neither its old content nor its new one.      *)
Begin(c) ==
  /\ asked[c].verb = "PUT" /\ asked[c].sound /\ answer[c] = "none"
  /\ store' = [store EXCEPT ![N(c)] = Changing]
  /\ UNCHANGED <<asked, listed, answer, shown>>

(* What is malformed, or cut, or cannot open its file, changes nothing; an *)
(* upload that has begun is not refused.                                   *)
Refuse(c) ==
  /\ asked[c] # Nothing /\ answer[c] = "none"
  /\ asked[c].sound => OpenFails /\ asked[c].verb \in {"GET", "PUT"}
  /\ asked[c].verb = "PUT" /\ N(c) \in Name => store[N(c)] # Changing
  /\ answer' = [answer EXCEPT ![c] = "ERROR"]
  /\ UNCHANGED <<asked, store, listed, shown>>

Put(c) ==
  /\ Answers(c, "PUT", "OK")
  /\ store' = [store EXCEPT ![N(c)] = asked[c].content]
  /\ listed' = listed \cup {N(c)}
  /\ UNCHANGED shown

Delete(c) ==
  /\ Answers(c, "DELETE", "OK")
  /\ N(c) \in listed
  /\ store' = [store EXCEPT ![N(c)] = None]
  /\ listed' = listed \ {N(c)}
  /\ UNCHANGED shown

DeleteMissing(c) ==
  /\ Answers(c, "DELETE", "ERROR")
  /\ N(c) \notin listed
  /\ UNCHANGED <<store, listed, shown>>

(* A name can be downloaded from its upload's first unit on.               *)
Get(c) ==
  /\ Answers(c, "GET", "OK")
  /\ store[N(c)] # None
  /\ UNCHANGED <<store, listed, shown>>

GetMissing(c) ==
  /\ Answers(c, "GET", "ERROR")
  /\ store[N(c)] = None
  /\ UNCHANGED <<store, listed, shown>>

List(c) ==
  /\ Answers(c, "LIST", "OK")
  /\ UNCHANGED <<store, listed, shown>>

(* The names are those of one moment, when or after the OK was given.      *)
Show(c) ==
  /\ asked[c].verb = "LIST" /\ shown[c] = {}
  /\ Answers(c, "LIST", "OK") \/ (answer[c] = "OK" /\ UNCHANGED <<asked, answer>>)
  /\ shown' = [shown EXCEPT ![c] = {listed}]
  /\ UNCHANGED <<store, listed>>

Init ==
  /\ asked = [c \in Conn |-> Nothing]
  /\ store = [n \in Name |-> None]
  /\ listed = {}
  /\ answer = [c \in Conn |-> "none"]
  /\ shown = [c \in Conn |-> {}]

Next ==
  \E c \in Conn :
    \/ Ask(c) \/ Refuse(c) \/ Begin(c) \/ Put(c)
    \/ Delete(c) \/ DeleteMissing(c) \/ Get(c) \/ GetMissing(c)
    \/ List(c) \/ Show(c)

Spec == Init /\ [][Next]_vars

=============================================================================
