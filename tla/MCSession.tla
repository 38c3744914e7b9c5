----------------------------- MODULE MCSession -----------------------------
(***************************************************************************)
(* Instances of the session for TLC.                                       *)
(***************************************************************************)
EXTENDS Session

CONSTANTS c1, c2, c3, a, b

Put(name, size, sent) ==
  [verb |-> "PUT", name |-> name, size |-> size,
   len |-> HeaderLen + SizeLen + sent]
Cmd(verb, name) ==
  [verb |-> verb, name |-> name, size |-> 0, len |-> HeaderLen]
Missing(name) == [Put(name, 0, 0) EXCEPT !.len = 0]

(* One upload, then a removal or an upload whose local file is empty,      *)
(* grows or shrinks after its size was taken, or is missing; all while     *)
(* another client downloads or lists.                                      *)
UploadsAndOther ==
  [c \in Conn |->
     CASE c = c1 -> {Put(a, 2, 2)}
       [] c = c2 -> {Cmd("GET", a), Cmd("LIST", NoName)}
       [] c = c3 -> {Put(a, 0, 0), Put(a, 0, 2), Put(a, 1, 0), Missing(a),
                     Cmd("DELETE", a)}]

Failing ==
  [c \in Conn |->
     CASE c = c1 -> {"usage", "connect"} [] c = c2 -> {"open", "malloc"}
       [] c = c3 -> {}]

AfterTheFirst == [c \in Conn |-> IF c = c1 THEN {} ELSE {c1}]

=============================================================================
