----------------------------- MODULE SocketPipe -----------------------------
(***************************************************************************)
(* sockets::pipe() of net/socketsOps.cpp: a pair of connected sockets, by *)
(* which other threads wake an event loop.  Each call may fail, and what   *)
(* has been opened by then is closed again.                                *)
(***************************************************************************)
EXTENDS Integers

VARIABLES
    step,           \* the next call, or "returned"
    tcp, tcp1, tcp2,    \* the local variables; -1 for none
    opened,         \* the sockets that are open
    pipe            \* what is returned: pipe_read and pipe_write

pipeVars == <<step, tcp, tcp1, tcp2, opened, pipe>>

PipeInit ==
    /\ step = "socket"
    /\ tcp = -1 /\ tcp1 = -1 /\ tcp2 = -1
    /\ opened = {}
    /\ pipe = [read |-> -1, write |-> -1]

(* The calls that open a socket.                                           *)
OpenListener ==
    /\ step = "socket"
    /\ tcp' = 1
    /\ opened' = opened \cup {1}
    /\ step' = "bind"
    /\ UNCHANGED <<tcp1, tcp2, pipe>>

OpenClient ==
    /\ step = "socket1"
    /\ tcp1' = 2
    /\ opened' = opened \cup {2}
    /\ step' = "connect"
    /\ UNCHANGED <<tcp, tcp2, pipe>>

AcceptClient ==
    /\ step = "accept"
    /\ tcp2' = 3
    /\ opened' = opened \cup {3}
    /\ step' = "close"
    /\ UNCHANGED <<tcp, tcp1, pipe>>

(* bind, listen, getsockname and connect.                                  *)
Proceed ==
    /\ step \in {"bind", "listen", "getsockname", "connect"}
    /\ step' = CASE step = "bind"        -> "listen"
                 [] step = "listen"      -> "getsockname"
                 [] step = "getsockname" -> "socket1"
                 [] OTHER                -> "accept"
    /\ UNCHANGED <<tcp, tcp1, tcp2, opened, pipe>>

CloseListener ==
    /\ step = "close"
    /\ opened' = opened \ {tcp}
    /\ pipe' = [read |-> tcp1, write |-> tcp2]
    /\ step' = "returned"
    /\ UNCHANGED <<tcp, tcp1, tcp2>>

(* The sockets closed behind the label clean.                              *)
Clean == {tcp, tcp1, tcp2} \ {-1}

Fail ==
    /\ step # "returned"
    /\ opened' = opened \ Clean
    /\ step' = "returned"
    /\ UNCHANGED <<tcp, tcp1, tcp2, pipe>>

PipeNext == OpenListener \/ OpenClient \/ AcceptClient \/ Proceed \/ CloseListener \/ Fail

----------------------------------------------------------------------------
(* Whichever call fails, pipe() returns two sockets and leaves open just  *)
(* these, or it returns none and leaves none open                          *)
(* (socketsOps.cpp:260-313).                                               *)
PipeWholeOrNone ==
    step = "returned" =>
        \/ pipe = [read |-> -1, write |-> -1] /\ opened = {}
        \/ {-1, tcp} \cap {pipe.read, pipe.write} = {} /\ pipe.read # pipe.write
                /\ opened = {pipe.read, pipe.write}
=============================================================================
