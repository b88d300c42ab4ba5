--------------------------- MODULE TcpConnection ---------------------------
(***************************************************************************)
(* net/tcpConnection.cpp: one connection in its loop, the peer, the user's *)
(* callbacks in the loop thread, and one other thread that also holds the  *)
(* connection.                                                             *)
(*                                                                         *)
(* The loop is what EventLoop shows it to be: functors run in the order of *)
(* their queueing, in batches, after the events of an iteration.  Bytes    *)
(* are numbered in the order sendInLoop takes them.  The owner (TcpServer  *)
(* or TcpClient) is its close callback: it drops its reference and queues  *)
(* connectDestroyed.                                                       *)
(*                                                                         *)
(* assert() is compiled out, as in the Release build: what follows a       *)
(* failing assertion is modelled too.  The user stops and starts reading   *)
(* only while the connection is open, and does not drop the last reference *)
(* while a call of send() is queued, which holds none.                     *)
(***************************************************************************)
EXTENDS Channel

CONSTANTS
    MaxSends,       \* bound: calls of send
    MsgLen,         \* bytes per message
    RoomCap,        \* bytes the kernel takes before the peer reads some
    HighWaterMark,  \* highWaterMark_
    MaxReceived,    \* bound: times the peer sends something
    MaxStops,       \* bound: calls of stopRead
    MaxForces       \* bound: calls of forceClose by the other thread

ASSUME BoundsAssumption ==
    /\ {MaxSends, MaxReceived, MaxStops, MaxForces} \subseteq Nat
    /\ {MsgLen, RoomCap, HighWaterMark} \subseteq Nat \ {0}

VARIABLES
    pc,             \* the loop thread: "poll", "timers", "dispatch" (events),
                    \* "functors", or "user" (inside a callback)
    back,           \* where the callback returns to ("poll" when there is none)
    state,          \* state_
    pending,        \* the functors queued for this connection
    batch,          \* how many of them doPendingFunctors has swapped out
    outBuf,         \* outputBuffer_: the bytes in it
    delayed,        \* forceCloseWithDelay's timer is set
    otherPc,        \* the other thread: "idle", "queue" inside send(), or
                    \* "set" or "queueClose" inside forceClose()
    userRef,        \* the user holds a TcpConnectionPtr
    ownerRef,       \* the owner's map holds one
    closing,        \* close callbacks on their way to the owner
    wire,           \* bytes the kernel has taken (history)
    room,           \* bytes the kernel still takes
    inAvail,        \* bytes have arrived and are not read
    peerFin,        \* the peer has closed its side
    reset,          \* the peer has reset the connection
    finSent,        \* shutdownWrite has been called
    accepted,       \* bytes sendInLoop has taken (history)
    dropped,        \* those of them that handleWrite has thrown away (history)
    closes,         \* times handleClose ran, up to 2 (history)
    destroyed,      \* times connectDestroyed ran, up to 2 (history)
    spent           \* the bounded calls made so far

loopVars   == <<pc, back, batch, todo, reportVars>>
kernelVars == <<wire, room, inAvail, peerFin, reset, finSent>>
refVars    == <<userRef, ownerRef, closing>>
histVars   == <<accepted, dropped, closes, destroyed, spent>>
vars == <<channelVars, loopVars, state, pending, outBuf, delayed, otherPc,
          refVars, kernelVars, histVars>>

Init ==
    /\ ChannelInit
    /\ pc = "poll"
    /\ back = "poll"
    /\ batch = 0
    /\ state = "kConnecting"
    /\ pending = <<"connectEstablished">>
    /\ outBuf = <<>>
    /\ delayed = FALSE
    /\ otherPc = "idle"
    /\ userRef = FALSE
    /\ ownerRef = TRUE
    /\ closing = 0
    /\ wire = <<>>
    /\ room = RoomCap
    /\ inAvail = FALSE
    /\ peerFin = FALSE
    /\ reset = FALSE
    /\ finSent = FALSE
    /\ accepted = 0
    /\ dropped = {}
    /\ closes = 0
    /\ destroyed = 0
    /\ spent = [sends |-> 0, received |-> 0, stops |-> 0, forces |-> 0]

Open     == state \in {"kConnected", "kDisconnecting"}
Writable == room > 0 /\ ~reset /\ ~finSent

(* A callback of the user starts, or the loop thread just goes on.         *)
Callback(return) == pc' = "user" /\ back' = return
GoOn(to)         == pc' = to /\ UNCHANGED back

(* queueInLoop, in the loop thread.                                        *)
Queue(fs) == pending' = pending \o fs

(* sockets::write of seq: the kernel takes some of it, or nothing.         *)
WriteSome(seq, k) ==
    /\ wire' = wire \o SubSeq(seq, 1, k)
    /\ room' = room - k
    /\ UNCHANGED <<inAvail, peerFin, reset>>

----------------------------------------------------------------------------
(* Calls of the user in the loop thread, from inside a callback.           *)
NewBytes == [i \in 1 .. MsgLen |-> accepted + i]

(* "if no thing in output queue, try writing directly"                     *)
(* Faulty variant (mutation runs only): the test is forgotten.           *)
AlwaysDirectly == TRUE
MayWriteDirectly == ~isWriting /\ outBuf = <<>>

(* What is left over waits for the socket to become writable.              *)
EnableWriting(rest) ==
    IF rest # <<>> /\ ~isWriting THEN SetEvents(events \cup {"OUT"})
                                  ELSE UNCHANGED channelVars

(* A write that fails answers SIZE_MAX, which passes "nwrote >= 0", as     *)
(* ssize_t is unsigned (types.h): remaining is len + 1, counted from the   *)
(* byte in front of the message.                                           *)
Stray      == 0
FailedRest == <<Stray>> \o NewBytes

(* sendInLoop: write at once if nothing waits, buffer what is left over,   *)
(* and report completion, or the high-water mark, through the queue.       *)
SendInLoop(queue) ==
    IF state = "kDisconnected"
    THEN /\ pending' = queue
         /\ UNCHANGED <<channelVars, outBuf, kernelVars, accepted>>
    ELSE \E k \in 0 .. MsgLen :
           LET fails  == MayWriteDirectly /\ ~Writable
               rest   == IF fails THEN FailedRest ELSE SubSeq(NewBytes, k + 1, MsgLen)
               total  == Len(outBuf) + Len(rest)
               notify == \/ rest = <<>>
                         \/ total >= HighWaterMark /\ Len(outBuf) < HighWaterMark
           IN  /\ IF MayWriteDirectly /\ Writable THEN k \in 1 .. room ELSE k = 0
               /\ WriteSome(NewBytes, k)
               /\ UNCHANGED finSent
               /\ outBuf' = outBuf \o rest
               /\ accepted' = accepted + MsgLen
               /\ pending' = IF notify THEN Append(queue, "callback") ELSE queue
               /\ EnableWriting(rest)

Send ==
    /\ pc = "user"
    /\ state = "kConnected"
    /\ spent.sends < MaxSends
    /\ spent' = [spent EXCEPT !.sends = @ + 1]
    /\ SendInLoop(pending)
    /\ UNCHANGED <<loopVars, state, delayed, otherPc, refVars, dropped, closes, destroyed>>

(* shutdown(), and shutdownInLoop which it runs at once.                   *)
(* Faulty variant (mutation runs only): the test of isWriting is forgotten.*)
FinAtOnce(writing)        == finSent' = TRUE
FinAfterShutdown(writing) == finSent' = (finSent \/ ~writing)

Shutdown ==
    /\ pc = "user"
    /\ state = "kConnected"
    /\ state' = "kDisconnecting"
    /\ FinAfterShutdown(isWriting)
    /\ UNCHANGED <<channelVars, loopVars, pending, outBuf, delayed, otherPc, refVars,
                   wire, room, inAvail, peerFin, reset, histVars>>

(* (One call of forceClose waits in the queue at a time: a bound.)         *)
ForceClose ==
    /\ pc = "user"
    /\ Open
    /\ state' = "kDisconnecting"
    /\ Queue(<<"forceClose">>)
    /\ "forceClose" \notin {pending[i] : i \in DOMAIN pending}
    /\ UNCHANGED <<channelVars, loopVars, outBuf, delayed, otherPc, refVars,
                   kernelVars, histVars>>

ForceCloseWithDelay ==
    /\ pc = "user"
    /\ Open
    /\ state' = "kDisconnecting"
    /\ delayed' = TRUE
    /\ UNCHANGED <<channelVars, loopVars, pending, outBuf, otherPc, refVars,
                   kernelVars, histVars>>

Toggle == /\ pc = "user"
          /\ Open /\ closes = 0
          /\ UNCHANGED <<loopVars, state, pending, outBuf, delayed, otherPc,
                         refVars, kernelVars, accepted, dropped, closes, destroyed>>

(* (While the connection is open, reading_ and isReading() agree.)         *)
StopRead ==
    /\ Toggle
    /\ isReading
    /\ spent.stops < MaxStops
    /\ spent' = [spent EXCEPT !.stops = @ + 1]
    /\ SetEvents(events \ {"IN"})

StartRead ==
    /\ Toggle
    /\ ~isReading
    /\ UNCHANGED spent
    /\ SetEvents(events \cup {"IN"})

CallbackReturns ==
    /\ pc = "user"
    /\ pc' = back
    /\ back' = "poll"
    /\ UNCHANGED <<channelVars, batch, todo, reportVars, state, pending, outBuf, delayed, otherPc,
                   refVars, kernelVars, histVars>>

----------------------------------------------------------------------------
(* The other thread: send() looks at state_, and then queues sendInLoop    *)
(* bound to the raw pointer.                                               *)
OtherSendChecks ==
    /\ userRef
    /\ otherPc = "idle"
    /\ state = "kConnected"
    /\ spent.sends < MaxSends
    /\ spent' = [spent EXCEPT !.sends = @ + 1]
    /\ otherPc' = "queue"
    /\ UNCHANGED <<channelVars, loopVars, state, pending, outBuf, delayed, refVars,
                   kernelVars, accepted, dropped, closes, destroyed>>

OtherSendQueues ==
    /\ otherPc = "queue"
    /\ otherPc' = "idle"
    /\ Queue(<<"sendInLoop">>)
    /\ UNCHANGED <<channelVars, loopVars, state, outBuf, delayed, refVars, kernelVars,
                   histVars>>

(* Its forceClose() looks at state_, sets it, whatever it is by then, and  *)
(* queues forceCloseInLoop with a reference.                               *)
OtherForceCloseChecks ==
    /\ userRef
    /\ otherPc = "idle"
    /\ Open
    /\ spent.forces < MaxForces
    /\ spent' = [spent EXCEPT !.forces = @ + 1]
    /\ otherPc' = "set"
    /\ UNCHANGED <<channelVars, loopVars, state, pending, outBuf, delayed, refVars,
                   kernelVars, accepted, dropped, closes, destroyed>>

OtherForceCloseSets ==
    /\ otherPc = "set"
    /\ otherPc' = "queueClose"
    /\ state' = "kDisconnecting"
    /\ UNCHANGED <<channelVars, loopVars, pending, outBuf, delayed, refVars, kernelVars,
                   histVars>>

OtherForceCloseQueues ==
    /\ otherPc = "queueClose"
    /\ otherPc' = "idle"
    /\ Queue(<<"forceClose">>)
    /\ UNCHANGED <<channelVars, loopVars, state, outBuf, delayed, refVars, kernelVars,
                   histVars>>

DropReference ==
    /\ userRef
    /\ otherPc = "idle"
    /\ "sendInLoop" \notin {pending[i] : i \in DOMAIN pending}
    /\ userRef' = FALSE
    /\ UNCHANGED <<channelVars, loopVars, state, pending, outBuf, delayed, otherPc,
                   ownerRef, closing, kernelVars, histVars>>

----------------------------------------------------------------------------
(* The loop thread.  poll() returns with what the socket shows by now.     *)
PollReturns ==
    /\ pc = "poll"
    /\ IF inTree THEN epoll_wait([readable |-> inAvail, writable |-> Writable,
                                  fin |-> peerFin, reset |-> reset])
                 ELSE UNCHANGED <<epollVars, reportVars>>
    /\ GoOn("timers")
    /\ UNCHANGED <<events, index, addedToLoop, todo, batch, state, pending, outBuf, delayed,
                   otherPc, refVars, kernelVars, histVars>>

(* The weak callback of forceCloseWithDelay calls forceClose().  Expired   *)
(* timers run after the poll, before the events.                           *)
DelayedForceClose ==
    /\ pc = "timers"
    /\ delayed
    /\ delayed' = FALSE
    /\ IF Open THEN state' = "kDisconnecting" /\ Queue(<<"forceClose">>)
               ELSE UNCHANGED <<state, pending>>
    /\ UNCHANGED <<channelVars, loopVars, outBuf, otherPc, refVars, kernelVars, histVars>>

StartDispatch ==
    /\ pc = "timers"
    /\ GoOn("dispatch")
    /\ UNCHANGED <<channelVars, batch, todo, reportVars, state, pending, outBuf, delayed,
                   otherPc, refVars, kernelVars, histVars>>

UpToTwo(n) == IF n > 2 THEN 2 ELSE n

(* closeCallback_ *)
(* Faulty variant (mutation runs only): the close callback is forgotten. *)
TellNobody == UNCHANGED closing
TellOwner  == closing' = closing + 1

(* handleClose: the connection callback sees kDisconnected, in which no    *)
(* call of a careful user does anything; then the close callback.          *)
HandleClose ==
    /\ state' = "kDisconnected"
    /\ SetEvents({})
    /\ closes' = UpToTwo(closes + 1)
    /\ TellOwner
    /\ UNCHANGED <<outBuf, kernelVars, userRef, ownerRef, accepted, dropped, destroyed,
                   spent>>

DispatchClose ==
    /\ pc = "dispatch"
    /\ CloseIsNext
    /\ HandleClose
    /\ todo' = todo \ {"HUP", "ERR"}
    /\ UNCHANGED <<pc, back, batch, reportVars, pending, delayed, otherPc>>

(* handleRead: data go to the message callback; no data, whether at the    *)
(* end of the stream or because WSARecv failed, is taken for a close.      *)
DispatchReadData ==
    /\ pc = "dispatch"
    /\ ReadIsNext
    /\ inAvail
    /\ inAvail' = FALSE
    /\ todo' = todo \ {"HUP", "ERR", "IN"}
    /\ Callback("dispatch")
    /\ UNCHANGED <<channelVars, reportVars, batch, state, pending, outBuf,
                   delayed, otherPc, refVars, wire, room, peerFin, reset, finSent,
                   histVars>>

DispatchReadEnd ==
    /\ pc = "dispatch"
    /\ ReadIsNext
    /\ ~inAvail
    /\ HandleClose
    /\ todo' = todo \ {"HUP", "ERR", "IN"}
    /\ UNCHANGED <<pc, back, batch, reportVars, pending, delayed, otherPc>>

(* A shutdown() that came while output was waiting is finished after it.   *)
(* Faulty variant (mutation runs only): the shutdown is forgotten.       *)
LeaveOpen == UNCHANGED finSent
FinishShutdown ==
    IF state = "kDisconnecting" THEN FinAfterShutdown(FALSE) ELSE UNCHANGED finSent

(* What is left of the buffer; once it is empty, lose interest in output,  *)
(* queue the completion callback, and finish a shutdown().                 *)
Keep(rest) ==
    /\ outBuf' = rest
    /\ IF rest = <<>>
       THEN /\ SetEvents(events \ {"OUT"})
            /\ Queue(<<"callback">>)
            /\ FinishShutdown
       ELSE UNCHANGED <<channelVars, pending, finSent>>

(* handleWrite: write some of the buffer.                                  *)
DispatchWrite ==
    /\ pc = "dispatch"
    /\ WriteIsNext
    /\ isWriting /\ Writable
    /\ \E k \in 1 .. Len(outBuf) :
          /\ k <= room
          /\ WriteSome(outBuf, k)
          /\ Keep(SubSeq(outBuf, k + 1, Len(outBuf)))
    /\ todo' = {}
    /\ UNCHANGED <<pc, back, batch, reportVars, state, delayed, otherPc, refVars, histVars>>

(* A write that fails answers SIZE_MAX here too: "n > 0", and retrieve()   *)
(* takes all that is there.                                                *)
DispatchWriteFails ==
    /\ pc = "dispatch"
    /\ WriteIsNext
    /\ isWriting /\ ~Writable
    /\ dropped' = dropped \cup {outBuf[i] : i \in DOMAIN outBuf}
    /\ Keep(<<>>)
    /\ todo' = {}
    /\ UNCHANGED <<pc, back, batch, reportVars, state, delayed, otherPc, refVars,
                   wire, room, inAvail, peerFin, reset, accepted, closes, destroyed, spent>>

(* The interest in output is already gone.                                 *)
DispatchNoWrite ==
    /\ pc = "dispatch"
    /\ WriteIsNext
    /\ ~isWriting
    /\ todo' = {}
    /\ UNCHANGED <<channelVars, pc, back, batch, reportVars, state, pending, outBuf,
                   delayed, otherPc, refVars, kernelVars, histVars>>

HandleEvent ==
    /\ pc = "dispatch"
    /\ BeginEvent
    /\ UNCHANGED <<channelVars, pc, back, batch, state, pending, outBuf, delayed, otherPc,
                   refVars, kernelVars, histVars>>

(* activeChannels_ is done.  (revents_ is not read before it is set again.) *)
SwapFunctors ==
    /\ pc = "dispatch"
    /\ todo = {} /\ active = 0
    /\ revents' = {}
    /\ batch' = Len(pending)
    /\ GoOn("functors")
    /\ UNCHANGED <<channelVars, todo, active, state, pending, outBuf, delayed,
                   otherPc, refVars, kernelVars, histVars>>

(* The functors of this connection.                                        *)
Functor(f) == /\ pc = "functors"
              /\ batch > 0
              /\ batch' = batch - 1
              /\ Head(pending) = f
              /\ UNCHANGED <<todo, reportVars>>

(* In the connection callback the user may keep the TcpConnectionPtr.      *)
ConnectEstablished ==
    /\ Functor("connectEstablished")
    /\ pending' = Tail(pending)
    /\ state' = "kConnected"
    /\ SetEvents(events \cup {"IN"})
    /\ userRef' \in BOOLEAN
    /\ Callback("functors")
    /\ UNCHANGED <<outBuf, delayed, otherPc, ownerRef, closing, kernelVars, histVars>>

RunSendInLoop ==
    /\ Functor("sendInLoop")
    /\ SendInLoop(Tail(pending))
    /\ UNCHANGED <<pc, back, state, delayed, otherPc, refVars, dropped, closes, destroyed,
                   spent>>

RunCallback ==
    /\ Functor("callback")
    /\ pending' = Tail(pending)
    /\ Callback("functors")
    /\ UNCHANGED <<channelVars, state, outBuf, delayed, otherPc, refVars, kernelVars,
                   histVars>>

(* Faulty variant (mutation runs only): kDisconnecting is forgotten.     *)
OnlyConnected == state = "kConnected"
MayForceClose == Open

ForceCloseInLoop ==
    /\ Functor("forceClose")
    /\ pending' = Tail(pending)
    /\ IF MayForceClose THEN HandleClose
       ELSE UNCHANGED <<channelVars, state, outBuf, kernelVars, refVars, histVars>>
    /\ UNCHANGED <<pc, back, delayed, otherPc>>

ConnectDestroyed ==
    /\ Functor("connectDestroyed")
    /\ pending' = Tail(pending)
    /\ IF state = "kConnected"
       THEN /\ state' = "kDisconnected"
            /\ disableAllAndRemove
       ELSE /\ remove
            /\ UNCHANGED state
    /\ destroyed' = UpToTwo(destroyed + 1)
    /\ UNCHANGED <<pc, back, outBuf, delayed, otherPc, refVars, kernelVars,
                   accepted, dropped, closes, spent>>

EndIteration ==
    /\ pc = "functors"
    /\ batch = 0
    /\ GoOn("poll")
    /\ UNCHANGED <<channelVars, batch, todo, reportVars, state, pending, outBuf, delayed,
                   otherPc, refVars, kernelVars, histVars>>

(* The owner, in its own loop: forget the connection, and no more.         *)
(* Faulty variant (mutation runs only): connectDestroyed is not queued.  *)
OwnerForgets ==
    /\ closing > 0
    /\ closing' = closing - 1
    /\ ownerRef' = FALSE
    /\ UNCHANGED <<channelVars, loopVars, state, pending, outBuf, delayed, otherPc,
                   userRef, kernelVars, histVars>>

(* The owner, in its own loop: forget the connection, queue its end.       *)
OwnerRemoves ==
    /\ closing > 0
    /\ closing' = closing - 1
    /\ ownerRef' = FALSE
    /\ Queue(<<"connectDestroyed">>)
    /\ UNCHANGED <<channelVars, loopVars, state, outBuf, delayed, otherPc, userRef,
                   kernelVars, histVars>>

----------------------------------------------------------------------------
(* The peer and the network, as long as the loop may look at the socket.   *)
Network ==
    /\ destroyed = 0
    /\ UNCHANGED <<channelVars, loopVars, state, pending, outBuf, delayed, otherPc,
                   refVars, wire, finSent, accepted, dropped, closes, destroyed>>

PeerSends == /\ ~peerFin /\ ~reset
             /\ spent.received < MaxReceived
             /\ spent' = [spent EXCEPT !.received = @ + 1]
             /\ inAvail' = TRUE
             /\ Network /\ UNCHANGED <<room, peerFin, reset>>
PeerReads == /\ room < RoomCap
             /\ room' = RoomCap
             /\ Network /\ UNCHANGED <<inAvail, peerFin, reset, spent>>
PeerCloses == /\ ~peerFin /\ ~reset
              /\ peerFin' = TRUE
              /\ Network /\ UNCHANGED <<room, inAvail, reset, spent>>
PeerResets == /\ ~reset
              /\ reset' = TRUE
              /\ inAvail' = FALSE
              /\ Network /\ UNCHANGED <<room, peerFin, spent>>

UserCalls == \/ Send \/ Shutdown \/ ForceClose \/ ForceCloseWithDelay
             \/ StopRead \/ StartRead

RunFunctor == \/ ConnectEstablished \/ RunSendInLoop \/ RunCallback
              \/ ForceCloseInLoop \/ ConnectDestroyed

Dispatch == \/ HandleEvent \/ DispatchClose \/ DispatchReadData \/ DispatchReadEnd
            \/ DispatchWrite \/ DispatchWriteFails \/ DispatchNoWrite

LoopStep == \/ PollReturns \/ DelayedForceClose \/ StartDispatch \/ Dispatch
            \/ SwapFunctors \/ RunFunctor \/ CallbackReturns \/ EndIteration

OtherForceCloses == OtherForceCloseSets \/ OtherForceCloseQueues

OtherThread == \/ OtherSendChecks \/ OtherSendQueues \/ DropReference
               \/ OtherForceCloseChecks \/ OtherForceCloses

Next == \/ LoopStep \/ UserCalls \/ OtherThread \/ OwnerRemoves
        \/ PeerSends \/ PeerReads \/ PeerCloses \/ PeerResets

(* The loops run, and the peer reads what it is sent.  The delay of a      *)
(* timer ends, and then the next iteration runs it (TimerQueue shows that  *)
(* none is passed over), so it is not passed over forever.  The other      *)
(* thread finishes a call of forceClose().  Neither the user, nor          *)
(* otherwise the other thread or the peer, has to do anything.             *)
Fairness == /\ WF_vars(LoopStep)
            /\ SF_vars(DelayedForceClose)
            /\ WF_vars(OwnerRemoves)
            /\ WF_vars(PeerReads)
            /\ WF_vars(OtherForceCloses)

Spec == Init /\ [][Next]_vars /\ Fairness

----------------------------------------------------------------------------
Functors == {"connectEstablished", "sendInLoop", "callback", "forceClose",
             "connectDestroyed"}

TypeOK ==
    /\ ChannelTypeOK
    /\ pc \in {"poll", "timers", "dispatch", "functors", "user"}
    /\ back \in {"poll", "dispatch", "functors"}
    /\ state \in {"kConnecting", "kConnected", "kDisconnecting", "kDisconnected"}
    /\ pending \in Seq(Functors)
    /\ batch \in 0 .. Len(pending)
    /\ outBuf \in Seq(Nat) /\ wire \in Seq(Nat)
    /\ {delayed, userRef, ownerRef, inAvail, peerFin, reset, finSent} \subseteq BOOLEAN
    /\ otherPc \in {"idle", "queue", "set", "queueClose"}
    /\ room \in 0 .. RoomCap
    /\ {accepted, closes, destroyed, closing} \subseteq Nat
    /\ dropped \subseteq 0 .. accepted

(* The byte stream: what the kernel has taken, followed by what is in      *)
(* outputBuffer_, is what sendInLoop took and no failing handleWrite threw *)
(* away, in order, each byte once -- whoever sent, directly or through the *)
(* queue, with partial writes.  What a failing direct write adds to it     *)
(* stands in front of a message.                                           *)
MessageStarts(taken) == {m * MsgLen + 1 : m \in 0 .. taken}

Intact(stream, taken, lost) ==
    /\ {stream[i] : i \in DOMAIN stream} \ {Stray} = (1 .. taken) \ lost
    /\ \A i, j \in DOMAIN stream :
          i < j => stream[i] = Stray \/ stream[j] = Stray \/ stream[i] < stream[j]
    /\ \A i \in 1 .. Len(stream) - 1 :
          stream[i] = Stray => stream[i + 1] \in {Stray} \cup MessageStarts(taken)

StreamIntact == TypeOK /\ Intact(wire \o outBuf, accepted, dropped)

(* Until the connection is closed, the channel asks for output exactly     *)
(* when some is buffered; shutdownInLoop and sendInLoop rely on it.        *)
WritingIffBuffered == Open /\ closes = 0 => (isWriting <=> outBuf # <<>>)

(* Both: but for what a failing write throws away, no output is lost, none *)
(* is doubled or reordered, and none is left without anyone to write it.   *)
OutputAccounted == StreamIntact /\ WritingIffBuffered

(* The FIN of shutdown() never overtakes output: but for what a failing    *)
(* write has thrown away, all of it is in the kernel before.               *)
FinAfterOutput ==
    [][~finSent /\ finSent'
         => (1 .. accepted') \ dropped' \subseteq {wire'[i] : i \in DOMAIN wire'}]_vars

(* "assert(remaining <= len)" in sendInLoop: no more is buffered than the  *)
(* message has.                                                            *)
RemainingAssert == [][Len(outBuf') <= Len(outBuf) + MsgLen]_vars

(* "assert(len <= readableBytes())" in Buffer::retrieve, which handleWrite *)
(* calls: no more is retrieved than there is.  It fails with every write   *)
(* that fails, and it does so on a healthy connection too.                 *)
RetrieveAssert == dropped # {} => reset \/ finSent

(* "assert(state_ == kConnected || state_ == kDisconnecting)" at the top   *)
(* of handleClose, and connectDestroyed "should be called only once".      *)
HandleCloseAssert == closes <= 1 /\ destroyed <= 1

(* No TcpConnectionPtr is left, not even in a queued functor.              *)
Unreferenced ==
    /\ ~userRef /\ ~ownerRef /\ closing = 0
    /\ pc # "user" /\ todo = {}
    /\ \A i \in DOMAIN pending : pending[i] = "sendInLoop"

(* The destructor runs then.  It finds state_ kDisconnected and a channel  *)
(* removed from its loop, as both destructors assert, and no functor bound *)
(* to the raw pointer is left to run.                                      *)
DestroyedClean ==
    Unreferenced => state = "kDisconnected" /\ ~addedToLoop /\ events = {} /\ pending = <<>>

(* A closed connection is taken out of its owner and its loop.             *)
ClosedIsDestroyed == (state = "kDisconnected") ~> (destroyed > 0)

(* forceClose(), of the other thread too, and forceCloseWithDelay() close, *)
(* whatever the peer does; a state_ that was set to kDisconnecting after   *)
(* the connection had closed becomes kDisconnected again.                  *)
ForceCloseCloses ==
    (delayed \/ otherPc = "queueClose" \/ "forceClose" \in {pending[i] : i \in DOMAIN pending})
        ~> (state = "kDisconnected")

(* The channel asks for output, but nothing does so of the kernel.         *)
OutputForgotten ==
    isWriting /\ "OUT" \notin registered /\ \A i \in DOMAIN ops : "OUT" \notin ops[i].events

(* shutdown() sends FIN once the output is flushed -- unless the epoll     *)
(* emulation has dropped the interest in output on the way.                *)
ShutdownSendsFin ==
    (state = "kDisconnecting") ~> (finSent \/ reset \/ state = "kDisconnected"
                                     \/ OutputForgotten)

(* Buffered output reaches a peer that keeps reading.                      *)
OutputDrains == (outBuf # <<>>) ~> (outBuf = <<>> \/ reset \/ finSent \/ state = "kDisconnected")
=============================================================================
