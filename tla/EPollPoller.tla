---------------------------- MODULE EPollPoller ----------------------------
(***************************************************************************)
(* net/epollPoller.cpp over EpollPort, with the loop that polls, the       *)
(* channels it handles and functors that change them.  A channel is its    *)
(* handle and a number: after a channel was removed another one may be     *)
(* made for the same socket, as TcpConnection does after Connector, or for *)
(* another socket with the same handle.                                    *)
(***************************************************************************)
EXTENDS EpollPort

CONSTANTS InitEvents,   \* kInitEventListSize
          MaxEvents,    \* bound of events_.size()
          MaxChannels,  \* bound: the channels made for one handle
          MaxChanges,   \* bound: the changes of interest
          Interests     \* the sets of events that channels enable

ASSUME PollerAssumption ==
    /\ InitEvents \in Nat \ {0}
    /\ {MaxEvents, MaxChannels, MaxChanges} \subseteq Nat
    /\ Interests \subseteq SUBSET {"IN", "OUT"}

VARIABLES
    number,     \* the number of the channel of each handle
    events,     \* its events_
    index,      \* its index_
    channels,   \* channels_: the number of the channel there, 0 if none
    size,       \* events_.size()
    phase,      \* what the loop is doing, or "create", "destroy", "destroyed",
                \* or "aborted" with the process
    active,     \* activeChannels_ to be handled
    current,    \* the channel being handled, <<>> if none
    changes,    \* how often channels have been changed
    deaf        \* history: the handles that were registered for no input at
                \* some time since they were added

pollerVars == <<number, events, index, channels>>
loopVars == <<size, phase, active, current>>
userVars == <<changes, deaf>>
vars == <<portVars, pollerVars, loopVars, userVars>>

Channel(f) == <<f, number[f]>>

Init ==
    /\ PortInit
    /\ number = [f \in Fd |-> 1]
    /\ events = [f \in Fd |-> {}]
    /\ index = [f \in Fd |-> "kNew"]
    /\ channels = [f \in Fd |-> 0]
    /\ size = InitEvents
    /\ phase = "create"
    /\ active = <<>> /\ current = <<>>
    /\ changes = 0
    /\ deaf = {}

(* The constructor finds nothing wrong with a null pointer, but the first  *)
(* epoll_ctl(), of the wake-up channel, uses it.                           *)
Create ==
    /\ phase = "create"
    /\ epoll_create
    /\ phase' = IF port' = "null" THEN "aborted" ELSE "functors"
    /\ UNCHANGED <<pollerVars, size, active, current>>

----------------------------------------------------------------------------
(* update(): an EPOLL_CTL_ADD or EPOLL_CTL_MOD that fails is fatal.        *)
Update(r) == phase' = IF r < 0 THEN "aborted" ELSE phase

(* updateChannel() after events_ was set to ev.                            *)
updateChannel(f, ev) ==
    /\ events' = [events EXCEPT ![f] = ev]
    /\ \/ /\ index[f] # "kAdded"
          /\ channels' = [channels EXCEPT ![f] = number[f]]
          /\ index' = [index EXCEPT ![f] = "kAdded"]
          /\ \E r \in {0, -1} : epoll_add(f, ev, Channel(f), r) /\ Update(r)
       \/ /\ index[f] = "kAdded" /\ ev = {}
          /\ index' = [index EXCEPT ![f] = "kDeleted"]
          /\ epoll_del(f)
          /\ UNCHANGED <<channels, phase>>
       \/ /\ index[f] = "kAdded" /\ ev # {}
          /\ \E r \in {0, -1} : epoll_mod(f, ev, Channel(f), r) /\ Update(r)
          /\ UNCHANGED <<index, channels>>
    /\ UNCHANGED <<number, size, active, current>>

(* removeChannel() of a channel that wants nothing, as it asserts; index_  *)
(* is kAdded then if the channel was updated twice with nothing, as when a *)
(* connection is closed that had stopped reading.                          *)
removeChannel(f) ==
    /\ index[f] # "kNew"
    /\ events[f] = {}
    /\ channels' = [channels EXCEPT ![f] = 0]
    /\ index' = [index EXCEPT ![f] = "kNew"]
    /\ IF index[f] = "kAdded" THEN epoll_del(f) ELSE UNCHANGED portVars
    /\ UNCHANGED <<number, events, loopVars>>

(* Another channel for the handle, with or without another socket.         *)
NewChannel(f) ==
    /\ index[f] = "kNew"
    /\ number[f] < MaxChannels
    /\ number' = [number EXCEPT ![f] = @ + 1]
    /\ closesocket(f) \/ UNCHANGED portVars
    /\ UNCHANGED <<events, index, channels, loopVars>>

----------------------------------------------------------------------------
(* poll().                                                                 *)
PollSubmits ==
    /\ phase = "functors"
    /\ phase' = "wait"
    /\ submit
    /\ UNCHANGED <<pollerVars, size, active, current>>

(* fillActiveChannels(): a channel that is reported twice is handled twice *)
(* with the events of the second report.                                   *)
LastOf(reports, user) == SelectLastInSeq(reports, LAMBDA e : e.user = user)
fillActiveChannels(reports) ==
    [i \in DOMAIN reports |-> reports[LastOf(reports, reports[i].user)]]

(* events_ grows if it was full.                                           *)
PollReturns ==
    LET n == BatchSize(size)
    IN  /\ phase = "wait" /\ n > 0
        /\ phase' = "dispatch"
        /\ Dequeue(n)
        /\ active' = fillActiveChannels(AfterBatch(n).reports)
        /\ size' = IF Len(active') = size /\ 2 * size <= MaxEvents THEN 2 * size ELSE size
        /\ UNCHANGED <<pollerVars, current>>

(* The timeout, or the wake-up, whose channel is not among those here.     *)
NothingHappened ==
    /\ phase = "wait" /\ completed = <<>>
    /\ phase' = "functors"
    /\ UNCHANGED <<portVars, pollerVars, size, active, current>>

(* handleEvent() of the next active channel: it reads what is there.       *)
HandleEvent ==
    /\ phase = "dispatch" /\ active # <<>>
    /\ current' = Head(active).user
    /\ active' = Tail(active)
    /\ readable' = IF Head(active).result = "IN"
                   THEN readable \ {Head(active).user[1]} ELSE readable
    /\ UNCHANGED <<port, peer, uses, tree, data, attn, ops, completed, errors,
                   pollerVars, size, phase>>

Dispatched ==
    /\ phase = "dispatch" /\ active = <<>>
    /\ phase' = "functors"
    /\ current' = <<>>
    /\ UNCHANGED <<portVars, pollerVars, size, active>>

(* The destructor, after the loop has ended.                               *)
Destroy ==
    /\ \/ (phase = "functors" /\ CloseBegins /\ phase' = "destroy")
       \/ (phase = "destroy" /\ CloseDequeues /\ UNCHANGED phase)
       \/ (phase = "destroy" /\ CloseEnds /\ phase' = "destroyed")
    /\ UNCHANGED <<pollerVars, size, active, current>>

----------------------------------------------------------------------------
(* Callbacks of the channel handled, and functors, change interests; a     *)
(* channel is removed by its own callback or by a functor, and only that   *)
(* happens to it after it was updated twice with nothing.                  *)
MayChange == phase = "functors" \/ current # <<>>

Change(f) == /\ phase \in {"functors", "dispatch"} /\ MayChange
             /\ ~(index[f] = "kAdded" /\ events[f] = {})
             /\ changes < MaxChanges
             /\ changes' = changes + 1
             /\ \E ev \in Interests :
                    /\ updateChannel(f, ev)
                    /\ deaf' = IF "IN" \notin ev     THEN deaf \cup {f}
                               ELSE IF tree[f] # 0   THEN deaf ELSE deaf \ {f}

Withdraw(f) == /\ phase \in {"functors", "dispatch"}
               /\ phase = "functors" \/ current = Channel(f)
               /\ removeChannel(f)
               /\ UNCHANGED userVars

Renew(f) == phase = "functors" /\ NewChannel(f) /\ UNCHANGED userVars

LoopStep == /\ \/ Create \/ PollSubmits \/ PollReturns \/ NothingHappened
               \/ HandleEvent \/ Dispatched \/ Destroy
            /\ UNCHANGED userVars

UserStep(f) == Change(f) \/ Withdraw(f) \/ Renew(f)

(* How an operation ends no longer matters when the port is being closed.  *)
KernelStep ==
    /\ \/ /\ phase \in {"functors", "wait", "dispatch"}
          /\ \/ \E f \in Fd : Arrive(f)
             \/ \E d \in Data : \E i \in DOMAIN ops[d] :
                    OpCompletes(d, i) \/ OpOfClosed(d, i) \/ OpFails(d, i)
       \/ /\ phase = "destroy"
          /\ \E d \in Data : \E i \in DOMAIN ops[d] : OpOfPeer(d, i)
    /\ UNCHANGED <<pollerVars, loopVars, userVars>>

Next == LoopStep \/ KernelStep \/ \E f \in Fd : UserStep(f)

Spec == Init /\ [][Next]_vars

(* Which handle is which makes no difference.                              *)
HandlesAlike == Permutations(Fd)

----------------------------------------------------------------------------
(* The tables agree: a channel is kAdded exactly while its handle is in    *)
(* the tree with data that points to it, so that no epoll_ctl is of a      *)
(* handle that is unknown or known already, and nothing that is deleted is *)
(* used again, when the port is closed either (epollPoller.cpp:71-146).    *)
TablesAgree ==
    /\ DataOutlivesOps
    /\ phase \in {"functors", "wait", "dispatch"} => \A f \in Fd :
        /\ index[f] = "kAdded" <=> tree[f] # 0
        /\ index[f] # "kNew" <=> channels[f] = number[f]
        /\ tree[f] # 0 => data[tree[f]].user = Channel(f)
    /\ Len(active) <= size

(* What poll() reports is a channel of channels_, as fillActiveChannels()  *)
(* asserts, whatever operations of removed channels and of earlier sockets *)
(* with the same handle are among the completions (epollPoller.cpp:58-69). *)
ReportsAreChannels ==
    [][PollReturns => \A i \in DOMAIN active' :
            LET c == active'[i].user IN channels[c[1]] = c[2]]_vars

(* Whether op asks for the input that a channel wants and always wanted.   *)
Serves(op, f) == "IN" \in events[f] /\ f \notin deaf => "IN" \in op.events

(* While the loop waits, every registered socket has an operation in the   *)
(* kernel, or a completion to be looked at, unless something has failed,   *)
(* and every channel that wants to read has one that asks for input, if it *)
(* has wanted to read ever since it was added.  After a time of output     *)
(* alone (stopRead() with output buffered), the operation of that time     *)
(* keeps submit() from asking for the input that is wanted again.  Other-  *)
(* wise superseded operations, lists that are cleared and generations that *)
(* start again leave no reader unwatched (epoll.cpp:70-84, 164-175 and     *)
(* 423-543).                                                               *)
ReadersAreWatched ==
    phase = "wait" /\ errors = 0 =>
        \A f \in Fd : tree[f] # 0 =>
            \/ \E i \in DOMAIN ops[tree[f]] : Serves(ops[tree[f]][i], f)
            \/ \E i \in DOMAIN completed : completed[i].op.data = tree[f]
=============================================================================
