---------------------------- MODULE SelectPoller ----------------------------
(***************************************************************************)
(* net/selectPoller.cpp: a vector of descriptors, each channel's place in  *)
(* it kept in the channel's index.  A channel without interest keeps its   *)
(* place under the number -fd - 1; one that is removed leaves its place to *)
(* the last.  No program of the repository uses this poller.               *)
(***************************************************************************)
EXTENDS Integers, SequencesExt, FiniteSets

CONSTANTS PollChannel,      \* channels, one for each connection
          Fd,               \* their descriptors, positive integers, reused
          PollEvents        \* bound: the sets of events that are wanted

NoChannel == "none"

ASSUME SelectAssumption ==
    /\ Fd \subseteq Nat
    /\ IsFiniteSet(PollChannel) /\ NoChannel \notin PollChannel

VARIABLES
    pollfds,        \* pollfds_: fd and events
    fdTable,        \* channels_: the channel of a descriptor, or NoChannel
    channel,        \* fd, index, events, and whether it has been removed
    active          \* what poll() has just reported: channel and revents

selectVars == <<pollfds, fdTable, channel, active>>

SelectInit ==
    /\ pollfds = <<>>
    /\ fdTable = [fd \in Fd |-> NoChannel]
    /\ channel = [c \in PollChannel |-> [fd |-> 0, index |-> -1, events |-> {}, gone |-> FALSE]]
    /\ active = <<>>

Ignored(fd) == -fd - 1
Descriptor(n) == IF n < 0 THEN Ignored(n) ELSE n
Registered == {c \in PollChannel : channel[c].index >= 0 /\ ~channel[c].gone}

(* updateChannel() of a channel that is new.                               *)
AddPollFd(c, fd, events) ==
    /\ channel[c].index < 0 /\ fdTable[fd] = NoChannel /\ events # {}
    /\ pollfds' = Append(pollfds, [fd |-> fd, events |-> events])
    /\ fdTable' = [fdTable EXCEPT ![fd] = c]
    /\ channel' = [channel EXCEPT ![c] = [fd |-> fd, index |-> Len(pollfds),
                                          events |-> events, gone |-> FALSE]]
    /\ active' = <<>>

(* ... and of one that has an index.                                       *)
ChangePollFd(c, events) ==
    /\ c \in Registered
    /\ pollfds' = [pollfds EXCEPT ![channel[c].index + 1] =
            [fd |-> IF events = {} THEN Ignored(channel[c].fd) ELSE channel[c].fd,
             events |-> events]]
    /\ channel' = [channel EXCEPT ![c].events = events]
    /\ active' = <<>>
    /\ UNCHANGED fdTable

(* Faulty variant (mutation runs only): the channel that moves keeps its   *)
(* index.                                                                  *)
KeepsIndex(c) == channel

(* The indices when the last takes the place of c.                         *)
WithLastAt(c) ==
    LET last == pollfds[Len(pollfds)].fd
        moved == fdTable[Descriptor(last)]
    IN  [channel EXCEPT ![moved].index = channel[c].index]

(* removeChannel(): the index of the one removed stays.                    *)
RemovePollFd(c) ==
    /\ c \in Registered /\ channel[c].events = {}
    /\ LET place == channel[c].index + 1
           atEnd == place = Len(pollfds)
       IN  /\ pollfds' = Front([pollfds EXCEPT ![place] = pollfds[Len(pollfds)]])
           /\ channel' = [IF atEnd THEN channel ELSE WithLastAt(c) EXCEPT ![c].gone = TRUE]
    /\ fdTable' = [fdTable EXCEPT ![channel[c].fd] = NoChannel]
    /\ active' = <<>>

(* poll(): select() fails where a number that is no socket is in a set, as *)
(* every ignored one is in efds_, and where all sets are empty.            *)
Poll ==
    LET watched == DOMAIN pollfds
    IN  IF watched = {} \/ \E i \in watched : pollfds[i].fd < 0
        THEN active' = <<>> /\ UNCHANGED <<pollfds, fdTable, channel>>
        ELSE /\ \E revents \in [watched -> SUBSET ((UNION PollEvents) \cup {"ERR"})] :
                 /\ \A i \in watched : revents[i] \subseteq pollfds[i].events \cup {"ERR"}
                 /\ LET ready == {i \in watched : revents[i] # {}}
                    IN  \E place \in [1 .. Cardinality(ready) -> ready] :
                         /\ \A k, l \in DOMAIN place : k < l => place[k] < place[l]
                         /\ active' = [k \in DOMAIN place |->
                                [channel |-> fdTable[pollfds[place[k]].fd],
                                 revents |-> revents[place[k]]]]
             /\ UNCHANGED <<pollfds, fdTable, channel>>

SelectNext ==
    \/ Poll
    \/ \E c \in PollChannel, fd \in Fd, events \in PollEvents : AddPollFd(c, fd, events)
    \/ \E c \in PollChannel, events \in PollEvents : ChangePollFd(c, events)
    \/ \E c \in PollChannel : RemovePollFd(c)

----------------------------------------------------------------------------
(* However channels are added, disabled and removed, each one that is      *)
(* registered is at its index, under its own number just if it wants       *)
(* anything, and in the map; there are no other places; and what poll()    *)
(* reported is of channels that are registered, in the order of no two     *)
(* places twice (selectPoller.cpp:63-147).                                 *)
SlotsMatch ==
    /\ Len(pollfds) = Cardinality(Registered)
    /\ \A fd \in Fd : fdTable[fd] \in {c \in Registered : channel[c].fd = fd} \cup {NoChannel}
    /\ \A c \in Registered :
        channel[c].index < Len(pollfds) /\
        LET slot == pollfds[channel[c].index + 1]
        IN  /\ fdTable[channel[c].fd] = c
            /\ slot.events = channel[c].events
            /\ slot.fd = IF slot.events = {} THEN Ignored(channel[c].fd) ELSE channel[c].fd
    /\ \A i, j \in DOMAIN active :
        /\ active[i].channel \in Registered
        /\ i # j => active[i].channel # active[j].channel
=============================================================================
