--------------------------- MODULE BlockingQueues ---------------------------
(***************************************************************************)
(* base/blockingQueue.h and base/boundedBlockingQueue.h.  Producers put    *)
(* numbered items, consumers take them, and somebody may drain() a queue   *)
(* without a bound.                                                        *)
(***************************************************************************)
EXTENDS Monitor

CONSTANTS Consumer,
          MaxSize           \* maxSize_ of the bounded queue

ASSUME QueueAssumption ==
    /\ MaxSize \in Nat \ {0}
    /\ IsFiniteSet(Consumer)
    /\ Producer \cap Consumer = {}

VARIABLES
    bounded,        \* it is a BoundedBlockingQueue
    calling,        \* the threads in put() or take()
    sent,           \* the items each producer has passed to put()
    taken           \* what take() and drain() returned, in order

callVars == <<bounded, calling, sent, taken>>
queueVars == <<monitor, callVars>>

Passed(p) == <<p, sent[p]>>

QueueInit ==
    /\ bounded \in BOOLEAN
    /\ MonitorInit
    /\ calling = {}
    /\ sent = [p \in Producer |-> 0]
    /\ taken = <<>>

(* Faulty variant (mutation runs only): compares with the size as it will  *)
(* be.                                                                     *)
fullLate == bounded /\ Len(queue) = MaxSize + 1

full == bounded /\ Len(queue) = MaxSize

Awake(t) == t \in calling \ (notEmpty \cup notFull)

CallPut(p) ==
    /\ p \notin calling
    /\ sent[p] < PerProducer
    /\ sent' = [sent EXCEPT ![p] = @ + 1]
    /\ calling' = calling \cup {p}
    /\ UNCHANGED <<monitor, bounded, taken>>

PutWaits(p) ==
    /\ Awake(p) /\ full
    /\ notFull' = notFull \cup {p}
    /\ UNCHANGED <<bounded, queue, notEmpty, calling, sent, taken>>

AnnounceItem == Notify(notEmpty)

Put(p) ==
    /\ Awake(p) /\ ~full
    /\ queue' = Append(queue, Passed(p))
    /\ notEmpty' \in AnnounceItem
    /\ calling' = calling \ {p}
    /\ UNCHANGED <<bounded, notFull, sent, taken>>

CallTake(c) ==
    /\ c \notin calling
    /\ calling' = calling \cup {c}
    /\ UNCHANGED <<monitor, bounded, sent, taken>>

QueueTakeWaits(c) ==
    /\ Awake(c) /\ queue = <<>>
    /\ notEmpty' = notEmpty \cup {c}
    /\ UNCHANGED <<bounded, queue, notFull, calling, sent, taken>>

Take(c) ==
    /\ Awake(c) /\ queue # <<>>
    /\ queue' = Tail(queue)
    /\ taken' = Append(taken, Head(queue))
    /\ notFull' \in IF bounded THEN Notify(notFull) ELSE {notFull}
    /\ calling' = calling \ {c}
    /\ UNCHANGED <<bounded, notEmpty, sent>>

(* drain() of BlockingQueue takes all that is there; it wakes nobody, and  *)
(* the consumers it leaves behind test the queue again when they wake.     *)
drain ==
    /\ ~bounded /\ queue # <<>>
    /\ taken' = taken \o queue
    /\ queue' = <<>>
    /\ UNCHANGED <<bounded, notEmpty, notFull, calling, sent>>

WakesInQueue(t) == Wakes(t) /\ UNCHANGED callVars

PutStep(p)  == PutWaits(p) \/ Put(p)
TakeStep(c) == QueueTakeWaits(c) \/ Take(c)

QueueNext == \/ \E p \in Producer : CallPut(p) \/ PutStep(p)
             \/ \E c \in Consumer : CallTake(c) \/ TakeStep(c)
             \/ drain
             \/ \E t \in Producer \cup Consumer : WakesInQueue(t)

----------------------------------------------------------------------------
QueueTypeOK ==
    /\ bounded \in BOOLEAN
    /\ queue \in Seq(Item)
    /\ notEmpty \subseteq Consumer \cap calling
    /\ notFull \subseteq Producer \cap calling
    /\ calling \subseteq Producer \cup Consumer
    /\ sent \in [Producer -> 0 .. PerProducer]
    /\ taken \in Seq(Item)

(* No call sleeps while it could go on: the notifications sent are enough  *)
(* for the items and for the room there are (blockingQueue.h:14-34,        *)
(* boundedBlockingQueue.h:19-48).                                          *)
QueueNotificationsSuffice ==
    /\ QueueTypeOK
    /\ notEmpty # {} => Len(queue) <= Cardinality({c \in Consumer : Awake(c)})
    /\ notFull # {} => MaxSize - Len(queue) <= Cardinality({p \in Producer : Awake(p)})
=============================================================================
