----------------------------- MODULE EventLoop -----------------------------
(***************************************************************************)
(* The socket event boundary, src/include/fss/event_loop.h, over its two   *)
(* implementations: event_loop_epoll.c and event_loop_kqueue.c.  A back    *)
(* end is a constant of the build (the Makefile links one of the two       *)
(* objects), so it is a CONSTANT here.                                     *)
(*                                                                         *)
(* The kernel keeps, for each registered socket, the interest (the set of  *)
(* event kinds asked for) and, for epoll, whether the socket is on the     *)
(* ready list.  These are variables of the module that uses this one; here *)
(* are the operators that say what the kernel reports for them.            *)
(***************************************************************************)
CONSTANT Backend      \* "epoll" or "kqueue"

ASSUME BackendAssumption == Backend \in {"epoll", "kqueue"}

Event == {"READ", "WRITE", "ERROR"}          \* FSS_EVENT_READ, _WRITE, _ERROR

(* to_epoll_events always asks for EPOLLET: a socket is reported once per  *)
(* change.  The kqueue filters are added without EV_CLEAR: a socket is     *)
(* reported as long as it is ready.                                        *)
EdgeTriggered == Backend = "epoll"

(* EPOLLERR and EPOLLHUP are reported whatever the interest and become     *)
(* FSS_EVENT_ERROR.  kqueue reports a broken socket through the registered *)
(* filter (EV_EOF); EV_ERROR is only set for a failed change, and          *)
(* event_loop_wait passes no change list.                                  *)
ErrorReported == Backend = "epoll"

(* event_loop_wait: the events stored for one socket.                      *)
Reported(interest, readable, writable, broken) ==
     {e \in {"READ"}  : e \in interest /\ readable}
  \cup {e \in {"WRITE"} : e \in interest /\ writable}
  \cup {e \in {"ERROR"} : ErrorReported /\ interest # {} /\ broken}

=============================================================================
