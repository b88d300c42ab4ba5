------------------------------ MODULE Channel ------------------------------
(***************************************************************************)
(* net/channel.cpp and its part of net/epollPoller.cpp, for one channel.   *)
(***************************************************************************)
EXTENDS Epoll

VARIABLES
    events,         \* events_, of "IN" and "OUT"
    index,          \* index_: "kNew", "kAdded" or "kDeleted"
    addedToLoop,    \* addedToLoop_
    todo            \* what the running handleEvent has still to dispatch

channelVars == <<events, index, addedToLoop, epollVars>>

ChannelInit ==
    /\ EpollInit
    /\ events = {}
    /\ index = "kNew"
    /\ addedToLoop = FALSE
    /\ todo = {}

isWriting   == "OUT" \in events
isReading   == "IN" \in events

(* enableReading ... disableAll: set events_, then update().  A deleted    *)
(* channel is added again even when it is interested in nothing.           *)
SetEvents(ev) ==
    /\ events' = ev
    /\ addedToLoop' = TRUE
    /\ index' = IF index = "kAdded" /\ ev = {} THEN "kDeleted" ELSE "kAdded"
    /\ CASE index # "kAdded"           -> epoll_add(ev)
         [] index = "kAdded" /\ ev = {} -> epoll_del
         [] OTHER                      -> epoll_mod(ev)

remove ==
    /\ addedToLoop' = FALSE
    /\ index' = "kNew"
    /\ IF index = "kAdded" THEN epoll_del ELSE UNCHANGED epollVars
    /\ UNCHANGED events

disableAllAndRemove ==
    /\ events' = {}
    /\ addedToLoop' = FALSE
    /\ index' = "kNew"
    /\ epoll_del

(* handleEventWithGuard: close, (error,) read, write, in this order.       *)
BeginEvent == /\ todo = {}
              /\ active > 0
              /\ active' = active - 1
              /\ todo' = revents
              /\ UNCHANGED revents

CloseIsNext == "HUP" \in todo /\ "IN" \notin todo
ReadIsNext  == "IN" \in todo
WriteIsNext == todo = {"OUT"}

ChannelTypeOK ==
    /\ EpollTypeOK
    /\ events \subseteq {"IN", "OUT"}
    /\ index \in {"kNew", "kAdded", "kDeleted"}
    /\ addedToLoop \in BOOLEAN
    /\ todo \subseteq revents
=============================================================================
