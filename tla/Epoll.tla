------------------------------- MODULE Epoll -------------------------------
(***************************************************************************)
(* net/epoll.cpp, the emulation of epoll on AFD poll operations, for one   *)
(* socket.                                                                 *)
(*                                                                         *)
(* Every EPOLL_CTL_ADD and EPOLL_CTL_MOD submits an operation, and nothing *)
(* cancels the older ones: they stay with the kernel until what they ask   *)
(* for happens.  A generation is meant to tell the newest from those it    *)
(* supersedes, but it starts again from zero after each report.            *)
(*                                                                         *)
(* An operation that asks for something that is the case completes by the  *)
(* next epoll_wait, and operations complete in the order of submission.    *)
(* Failed operations and sockets closed while registered are left out.     *)
(***************************************************************************)
EXTENDS Integers, Sequences, FiniteSets

VARIABLES
    inTree,         \* the socket's data is in _sock_data_tree
    registered,     \* _registered_events, of "IN" and "OUT"
    generation,     \* _op_generation
    ops,            \* the operations outstanding, oldest first
    attn,           \* the socket's data is in _attn_list
    active,         \* times the channel is in activeChannels_
    revents         \* revents_ of the channel: the last of its reports

epollVars == <<inTree, registered, generation, ops, attn>>
reportVars == <<active, revents>>

EpollInit ==
    /\ inTree = FALSE
    /\ registered = {}
    /\ generation = 0
    /\ ops = <<>>
    /\ attn = FALSE
    /\ active = 0
    /\ revents = {}

(* submit(): the generation the operation takes becomes the newest.        *)
Op(gen, ev) == [gen |-> gen, events |-> ev]

(* A socket added again is new data, and what completes for the data that  *)
(* EPOLL_CTL_DEL forgot is not reported.                                   *)
epoll_add(ev) ==
    /\ inTree' = TRUE
    /\ registered' = ev
    /\ generation' = 1
    /\ ops' = <<Op(1, ev)>>
    /\ UNCHANGED attn

epoll_mod(ev) ==
    /\ registered' = ev
    /\ generation' = generation + 1
    /\ ops' = Append(ops, Op(generation + 1, ev))
    /\ UNCHANGED <<inTree, attn>>

epoll_del ==
    /\ inTree' = FALSE
    /\ registered' = {}
    /\ generation' = 0
    /\ ops' = <<>>
    /\ attn' = FALSE

(* What an operation reports: hang-ups and the end of the peer's stream    *)
(* are always asked for.                                                   *)
Seen(op, socket) ==
    (IF socket.reset THEN {"HUP", "ERR"} ELSE {})
        \cup (IF socket.readable /\ "IN" \in op.events THEN {"IN"} ELSE {})
        \cup (IF socket.fin /\ ~socket.reset THEN {"IN"} ELSE {})
        \cup (IF socket.writable /\ "OUT" \in op.events THEN {"OUT"} ELSE {})

(* The operations at the indices in chosen, in their order.                *)
Those(seq, chosen) ==
    LET upTo[n \in 0 .. Len(seq)] ==
            IF n = 0 THEN <<>>
            ELSE IF n \in chosen THEN Append(upTo[n - 1], seq[n]) ELSE upTo[n - 1]
    IN  upTo[Len(seq)]

(* epoll_wait: first submit() for a socket on the attention list that has  *)
(* no operation left; then report what has completed.  The interest in     *)
(* output is dropped with the report, whatever it was.                     *)
epoll_wait(socket) ==
    LET resubmits == attn /\ ops = <<>>
        now       == IF resubmits THEN generation + 1 ELSE generation
        asked     == IF resubmits THEN <<Op(now, registered)>> ELSE ops
        complete  == {i \in DOMAIN asked : Seen(asked[i], socket) # {}}
        done      == Those(asked, complete)
        reports   == {i \in DOMAIN done : \E j \in 1 .. i : done[j].gen >= now}
    IN  /\ ops' = Those(asked, DOMAIN asked \ complete)
        /\ active' = Cardinality(reports)
        /\ UNCHANGED inTree
        /\ IF reports = {}
           THEN /\ generation' = now
                /\ attn' = FALSE
                /\ revents' = {}
                /\ UNCHANGED registered
           ELSE /\ generation' = 0
                /\ attn' = TRUE
                /\ revents' = Seen(done[Len(done)], socket)
                /\ registered' = registered \ {"OUT"}

EpollTypeOK ==
    /\ {inTree, attn} \subseteq BOOLEAN
    /\ registered \subseteq {"IN", "OUT"}
    /\ {generation, active} \subseteq Nat
    /\ ops \in Seq([gen : Nat, events : SUBSET {"IN", "OUT"}])
    /\ revents \subseteq {"IN", "OUT", "HUP", "ERR"}
=============================================================================
