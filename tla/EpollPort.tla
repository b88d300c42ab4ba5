----------------------------- MODULE EpollPort -----------------------------
(***************************************************************************)
(* net/epoll.cpp for several sockets: the table of registered sockets, the *)
(* life of their data and of the AFD poll operations that refer to it, the *)
(* attention list, and what epoll_wait does with a batch of completions.   *)
(* Module Epoll is the view that one connection has of this.               *)
(*                                                                         *)
(* A socket is a handle with the number of times it has been used before,  *)
(* as handles are reused.  An operation waits in the kernel until what it  *)
(* asks for is the case, fails or is ended by the closing of the socket;   *)
(* its completion then waits to be dequeued.  There may be room for output *)
(* at any time, so that only what can be read is part of the state, and a  *)
(* completion says whether there is something to read, "IN", or only room. *)
(* Every socket is of one provider, so that one peer socket serves all.    *)
(***************************************************************************)
EXTENDS Integers, FiniteSets, SequencesExt

CONSTANTS Fd,           \* the handles
          Data,         \* addresses of epoll_sock_data_t, numbers
          MaxOps,       \* bound: the operations outstanding for one data
          MaxErrors     \* bound: what fails, operations and calls

ASSUME PortAssumption ==
    /\ Data \subseteq Nat \ {0} /\ IsFiniteSet(Data)
    /\ MaxOps \in Nat \ {0}
    /\ MaxErrors \in Nat

VARIABLES
    port,       \* "none" yet, "null" if it could not be created, "open",
                \* "closing", "closed", or "left" with its IOCP open
    peer,       \* its peer socket: "none" (0), "open" or "invalid"
    uses,       \* how often each handle has been closed
    readable,   \* the handles whose socket has something to read
    tree,       \* _sock_data_tree; 0 where there is none
    data,       \* what is at each address, or Free
    attn,       \* _attn_list
    ops,        \* the operations of each data in the kernel, oldest first
    completed,  \* completions to be dequeued, oldest first
    errors      \* how much has failed

sockets == <<uses, readable>>
portVars == <<port, peer, sockets, tree, data, attn, ops, completed, errors>>

Free == [free |-> TRUE]
Alive == {d \in Data : data[d] # Free}
Registered == {tree[f] : f \in Fd} \ {0}
IsOpen(sock) == uses[sock[1]] = sock[2]

PortInit ==
    /\ port = "none" /\ peer = "none"
    /\ uses = [f \in Fd |-> 0]
    /\ readable = {}
    /\ tree = [f \in Fd |-> 0]
    /\ data = [d \in Data |-> Free]
    /\ attn = {}
    /\ ops = [d \in Data |-> <<>>] /\ completed = <<>>
    /\ errors = 0

----------------------------------------------------------------------------
(* Any of the calls that initialize the emulation may fail.                *)
epoll__initialize(failing) ==
    IF failing \cap {"WSAStartup", "LoadLibraryW", "GetProcAddress"} = {} THEN 0 ELSE -1

epoll_create ==
    /\ port = "none"
    /\ \E failing \in {{}, {"WSAStartup"}} :
           port' = IF epoll__initialize(failing) < 0 THEN "null" ELSE "open"
    /\ UNCHANGED <<peer, sockets, tree, data, attn, ops, completed, errors>>

(* What the kernel says of a poll operation that is to begin, the code     *)
(* that becomes of it, of which submit() knows only WSA_IO_PENDING, and    *)
(* what submit() returns.                                                  *)
Status == {"STATUS_SUCCESS", "STATUS_PENDING", "STATUS_INSUFFICIENT_RESOURCES"}

epoll__ntstatus_to_winsock_error(status) ==
    CASE status = "STATUS_SUCCESS" -> "ERROR_SUCCESS"
      [] status = "STATUS_PENDING" -> "WSA_IO_PENDING"
      [] OTHER -> "another"

epoll__afd_poll(status) ==
    LET error == epoll__ntstatus_to_winsock_error(status)
    IN  [result |-> IF error = "ERROR_SUCCESS" THEN 0 ELSE -1, error |-> error]

Outcome(poll) == IF poll.result # 0 /\ poll.error # "WSA_IO_PENDING" THEN -1 ELSE 0
Outcomes == {Outcome(epoll__afd_poll(status)) : status \in Status}

(* epoll_op_t and submit(), which returns r: an operation that has begun   *)
(* has the next generation, which becomes the newest, and is counted.      *)
NewOp(d, x) == [data |-> d, sock |-> x.sock, gen |-> x.gen + 1,
                events |-> x.registered]
Submitted(x) == [x EXCEPT !.gen = @ + 1, !.opCount = @ + 1]

Submit(d, x, r) ==
    /\ r \in Outcomes
    /\ data' = [data EXCEPT ![d] = IF r = 0 THEN Submitted(x) ELSE x]
    /\ ops' = IF r = 0 THEN [ops EXCEPT ![d] = Append(@, NewOp(d, x))] ELSE ops

(* A call that returns r is a failure or not, of which there are not many. *)
Returns(r) == /\ r < 0 => errors < MaxErrors
              /\ errors' = IF r < 0 THEN errors + 1 ELSE errors

(* create_peer_socket(): a socket, or INVALID_SOCKET if it cannot be made, *)
(* made not inheritable, or bound to the completion port.                  *)
create_peer_socket(failing) ==
    IF failing \cap {"WSASocketW", "SetHandleInformation", "CreateIoCompletionPort"} = {}
    THEN "open" ELSE "invalid"

(* What get_peer_socket() may return: it tries once.                       *)
PeerSockets ==
    IF peer = "none" THEN {create_peer_socket(f) : f \in {{}, {"WSASocketW"}}} ELSE {peer}

(* EPOLL_CTL_ADD of a handle that is not in the tree: new data.            *)
epoll_add(f, ev, ptr, r) ==
    /\ tree[f] = 0
    /\ peer' \in PeerSockets
    /\ Returns(r)
    /\ \/ /\ peer' = "invalid" /\ r = -1
          /\ UNCHANGED <<tree, data, ops>>
       \/ /\ peer' = "open"
          /\ \E d \in Data \ Alive :
                LET x == [sock |-> <<f, uses[f]>>, registered |-> ev, gen |-> 0,
                          user |-> ptr, opCount |-> 0]
                IN  /\ \A e \in Data \ Alive : d <= e
                    /\ tree' = [tree EXCEPT ![f] = d]
                    /\ Submit(d, x, r)
    /\ UNCHANGED <<port, sockets, attn, completed>>

epoll_mod(f, ev, ptr, r) ==
    LET d == tree[f]
        x == [data[d] EXCEPT !.registered = ev, !.user = ptr]
    IN  /\ d # 0
        /\ x.opCount < MaxOps /\ x.gen < MaxOps
        /\ Returns(r)
        /\ Submit(d, x, r)
        /\ UNCHANGED <<port, peer, sockets, tree, attn, completed>>

(* Removes the data from the tree and the attention list; it is deleted    *)
(* when the last of its operations completes.                              *)
epoll_del(f) ==
    /\ tree[f] # 0
    /\ tree' = [tree EXCEPT ![f] = 0]
    /\ attn' = attn \ {tree[f]}
    /\ UNCHANGED <<port, peer, sockets, data, ops, completed, errors>>

----------------------------------------------------------------------------
(* The kernel.                                                             *)

Result(op) == IF "IN" \in op.events /\ op.sock[1] \in readable THEN "IN" ELSE "OUT"

Complete(d, i, result) ==
    /\ ops' = [ops EXCEPT ![d] = RemoveAt(@, i)]
    /\ completed' = Append(completed, [op |-> ops[d][i], result |-> result])
    /\ UNCHANGED <<port, peer, sockets, tree, data, attn>>

OpCompletes(d, i) ==
    /\ IsOpen(ops[d][i].sock)
    /\ Result(ops[d][i]) \in ops[d][i].events
    /\ Complete(d, i, Result(ops[d][i]))
    /\ UNCHANGED errors

OpOfClosed(d, i) ==
    /\ ~IsOpen(ops[d][i].sock)
    /\ Complete(d, i, "LOCAL_CLOSE")
    /\ UNCHANGED errors

OpFails(d, i) ==
    /\ errors < MaxErrors
    /\ errors' = errors + 1
    /\ IsOpen(ops[d][i].sock)
    /\ Complete(d, i, "ERROR")

----------------------------------------------------------------------------
(* epoll_wait: port submit(), then the completions, at most maxevents.     *)

(* Data on the list gets an operation if it has none; the list is cleared, *)
(* whether or not the operations have begun.                               *)
submit ==
    LET none == {d \in attn : data[d].opCount = 0}
    IN  \E begun \in SUBSET none :
            /\ begun # none => -1 \in Outcomes
            /\ errors' = errors + Cardinality(none \ begun) /\ errors' <= MaxErrors
            /\ data' = [d \in Data |-> IF d \in begun THEN Submitted(data[d]) ELSE data[d]]
            /\ ops' = [d \in Data |-> IF d \in begun THEN Append(ops[d], NewOp(d, data[d]))
                                                 ELSE ops[d]]
            /\ attn' = {}
            /\ UNCHANGED <<port, peer, sockets, tree, completed>>

(* delete op; the data goes with the last one, if it is not in the tree.   *)
OpDeleted(x) == [x EXCEPT !.opCount = @ - 1]

(* Faulty variant (mutation runs only): the data goes with the newest      *)
(* operation.                                                              *)
GoesAtOnce(x) == Free

GoesWithLast(x) == IF x.opCount = 0 THEN Free ELSE x

(* Faulty variant (mutation runs only): looks for the handle only.         *)
findHandle(t, d, x) == t[x.sock[1]] # 0

find(t, d, x) == t[x.sock[1]] = d

(* What becomes of the data when one of its operations is dequeued: the    *)
(* operation is superseded, or the socket was removed, or the operation    *)
(* has failed and is not deleted, or it is to be reported.  (The removal   *)
(* of a socket that an operation found closed, epoll.cpp:482-489, has no   *)
(* part here: a handle is closed when it has left the tree, so find() has  *)
(* sent every such operation away before.)                                 *)
DataAfter(c, x) ==
    CASE c.op.gen < x.gen             -> OpDeleted(x)
      [] OTHER ->
         LET newest == [x EXCEPT !.gen = 0]
         IN  IF ~find(tree, c.op.data, x) THEN GoesWithLast(OpDeleted(newest))
             ELSE IF c.result = "ERROR" THEN newest
             ELSE [OpDeleted(newest) EXCEPT !.registered = @ \ {"OUT"}]

(* Faulty variant (mutation runs only): what has been reported is polled   *)
(* again only if nothing is wanted but input.                              *)
AttnIfReading(list, d, x) == IF x.registered = {"IN"} THEN list \cup {d} ELSE list

(* add_attn(): keep attention.                                             *)
add_attn(list, d, x) == list \cup {d}

Reported(c, x) == c.op.gen >= x.gen /\ find(tree, c.op.data, x)

Look(before, c) ==
    LET d == c.op.data
        x == before.data[d]
    IN  [data |-> [before.data EXCEPT ![d] = DataAfter(c, x)],
         attn |-> IF Reported(c, x) /\ c.result # "ERROR"
                  THEN add_attn(before.attn, d, x) ELSE before.attn,
         reports |-> IF Reported(c, x)
                     THEN Append(before.reports, [user |-> x.user, result |-> c.result])
                     ELSE before.reports]

(* The oldest completions, at most maxevents of them.                      *)
BatchSize(maxevents) == IF Len(completed) < maxevents THEN Len(completed) ELSE maxevents

(* What it all has become when i of them have been looked at.              *)
Looked[i \in 0 .. Len(completed)] ==
    IF i = 0 THEN [data |-> data, attn |-> attn, reports |-> <<>>]
             ELSE Look(Looked[i - 1], completed[i])

AfterBatch(n) == Looked[n]

Dequeue(n) ==
    /\ completed' = SubSeq(completed, n + 1, Len(completed))
    /\ data' = AfterBatch(n).data
    /\ attn' = AfterBatch(n).attn
    /\ UNCHANGED <<port, peer, sockets, tree, ops, errors>>

----------------------------------------------------------------------------
(* epoll_close(): the peer socket is closed, which ends the operations in  *)
(* the kernel, and the submissions that follow are refused.  What has been *)
(* completed is dequeued until the tree is empty...                        *)
CloseBegins ==
    /\ port = "open"
    /\ port' = "closing"
    /\ peer' = "none"
    /\ UNCHANGED <<sockets, tree, data, attn, ops, completed, errors>>

OpOfPeer(d, i) ==
    /\ port = "closing"
    /\ Complete(d, i, "CLOSED")
    /\ UNCHANGED errors

(* (data that is in the tree stays there, even when it is deleted)         *)
CloseLooks(closing, c) ==
    LET d == c.op.data
        x == closing.data[d]
    IN  [tree |-> IF find(closing.tree, d, x) THEN closing.tree
                  ELSE [closing.tree EXCEPT ![x.sock[1]] = 0],
         data |-> [closing.data EXCEPT ![d] = GoesWithLast(OpDeleted(x))],
         attn |-> IF find(closing.tree, d, x) THEN closing.attn ELSE closing.attn \ {d}]

Closed[i \in 0 .. Len(completed)] ==
    IF i = 0 THEN [tree |-> tree, data |-> data, attn |-> attn]
             ELSE CloseLooks(Closed[i - 1], completed[i])

CloseDequeues ==
    /\ port = "closing" /\ Registered # {} /\ completed # <<>>
    /\ LET closing == Closed[Len(completed)]
       IN  tree' = closing.tree /\ data' = closing.data /\ attn' = closing.attn
    /\ completed' = <<>>
    /\ UNCHANGED <<port, peer, sockets, ops, errors>>

(* ... or until nothing has been completed, which leaves the IOCP open.    *)
CloseEnds ==
    /\ port = "closing" /\ (Registered = {} \/ completed = <<>>)
    /\ port' = IF Registered = {} THEN "closed" ELSE "left"
    /\ UNCHANGED <<peer, sockets, tree, data, attn, ops, completed, errors>>

----------------------------------------------------------------------------
(* The sockets.                                                            *)

Arrive(f) == /\ f \notin readable
             /\ readable' = readable \cup {f}
             /\ UNCHANGED <<port, peer, uses, tree, data, attn, ops, completed, errors>>

closesocket(f) ==
    /\ uses' = [uses EXCEPT ![f] = @ + 1]
    /\ readable' = readable \ {f}
    /\ UNCHANGED <<port, peer, tree, data, attn, ops, completed, errors>>

----------------------------------------------------------------------------
OpsOf(d) == Len(ops[d])
    + Cardinality({i \in DOMAIN completed : completed[i].op.data = d})

PortTypeOK ==
    /\ port \in {"none", "null", "open", "closing", "closed", "left"}
    /\ peer \in {"none", "open", "invalid"}
    /\ uses \in [Fd -> Nat]
    /\ readable \subseteq Fd
    /\ tree \in [Fd -> Data \cup {0}]
    /\ attn \subseteq Data

(* Nothing that is deleted is used again: every operation, in the kernel   *)
(* or completed, refers to data that is there, which counts it, and until  *)
(* the port is closed so do the tree and the attention list                *)
(* (epoll.cpp:95-99, 137-162 and 340-543).                                 *)
DataOutlivesOps ==
    /\ PortTypeOK
    /\ port = "open" =>
          /\ Registered \subseteq Alive
          /\ attn \subseteq Registered
          /\ \A f \in Fd : tree[f] # 0 => data[tree[f]].sock = <<f, uses[f]>>
    /\ \A d \in Data : ops[d] # <<>> => d \in Alive
    /\ \A i \in DOMAIN completed : completed[i].op.data \in Alive
    /\ \A d \in Alive : /\ data[d].opCount >= OpsOf(d)
                        /\ errors = 0 => data[d].opCount = OpsOf(d)
=============================================================================
