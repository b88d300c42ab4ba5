------------------------------ MODULE TcpClient ------------------------------
(***************************************************************************)
(* net/connector.cpp and net/tcpClient.cpp: a client connects, retries,    *)
(* connects again when it has lost its connection, and is told to stop by  *)
(* another thread than its loop's.                                         *)
(*                                                                         *)
(* One iteration of the loop runs expired timers, then the events that its *)
(* poll has reported, then one batch of functors.  A timer may expire in   *)
(* any iteration (the back-off of the retries is left out).  The calls of  *)
(* the other thread set their flags first and queue a functor after that.  *)
(*                                                                         *)
(* A connection may close more than once: the same poll reports its channel*)
(* again, the other thread's forceClose() sets its state_ back after it has*)
(* closed, or the second close has put its channel back into the poller.   *)
(*                                                                         *)
(* The other thread calls connect() only when nothing is under way, and    *)
(* keeps a connection only inside forceClose().  What startInLoop asserts  *)
(* (kDisconnected; it is kConnected after an earlier connection) is        *)
(* compiled out, as all asserts are.  A channel that is destroyed while it *)
(* is polled is silent from there on.  Destroying the client is left out.  *)
(***************************************************************************)
EXTENDS Integers, Sequences, FiniteSets

CONSTANTS
    MaxConnects,    \* bound: calls of connect()
    MaxStops,       \* bound: calls of stop()
    MaxForces,      \* bound: calls of forceClose() by the other thread
    MaxDoubles,     \* bound: events that close a connection once more
    MaxConns        \* bound: connections that exist at the same time

ASSUME BoundsAssumption ==
    {MaxConnects, MaxStops, MaxForces, MaxDoubles, MaxConns} \subseteq Nat

Conn   == 1 .. MaxConns     \* the connections; one that is gone comes again
NoConn == 0

VARIABLES
    connect,        \* connect_ of the connector
    state,          \* its state_
    channel,        \* its channel_: "none", "polled", or "removed" from the
                    \* poller and not yet destroyed
    timers,         \* how many timers are set to call startInLoop
    sockets,        \* how many sockets are open
    retry,          \* retry_ of the client (enableRetry)
    clientConnect,  \* connect_ of the client
    connection,     \* connection_
    obj,            \* the TcpConnection objects: state_, whether the channel is
                    \* in the poller, how often handleClose has run
    at,             \* the loop: "poll", "timers", "events", "functors"
    restarting,     \* it is between the test in removeConnection and restart()
    ready,          \* what its poll has reported: NoConn for the connector's
                    \* channel, a connection for that connection's
    batch,          \* how many functors are swapped out
    pending,        \* the functors that have not run
    userPc,         \* the other thread: "idle", "start" or "stop" (about to
                    \* queue it), "disconnect" (about to take the lock), "set"
                    \* or "queue" (what it does next in forceClose())
    held,           \* the connection that it calls forceClose() for
    calls,          \* the bounded calls made so far
    wanted,         \* history: the client should be, or become, connected
    stopped,        \* history: stop() was called after the last connect()
    raced,          \* history: restart() ran after a stop() it undoes
    confused        \* history: a second close of a connection has restarted the
                    \* connector, or dropped a newer connection

connectorVars == <<connect, state, channel, timers, sockets>>
clientVars    == <<retry, clientConnect, connection, obj>>
loopVars      == <<at, restarting, ready, batch, pending>>
userVars      == <<userPc, held, calls>>
histVars      == <<wanted, stopped, raced, confused>>
vars          == <<connectorVars, clientVars, loopVars, userVars, histVars>>

NoObject == [state |-> "none", polled |-> FALSE, closes |-> 0]
Object   == [state : {"kConnected", "kDisconnecting", "kDisconnected"},
             polled : BOOLEAN, closes : Nat]
Spare    == {c \in Conn : obj[c] = NoObject}

(* retry_ is set by enableRetry(), before connect().                       *)
ClientInit ==
    /\ retry \in BOOLEAN
    /\ clientConnect = TRUE
    /\ connection = NoConn
    /\ obj = [c \in Conn |-> NoObject]

Init ==
    /\ connect = FALSE
    /\ state = "kDisconnected"
    /\ channel = "none"
    /\ timers = 0
    /\ sockets = 0
    /\ ClientInit
    /\ at = "poll"
    /\ restarting = FALSE
    /\ ready = {}
    /\ batch = 0
    /\ pending = <<>>
    /\ userPc = "idle"
    /\ held = NoConn
    /\ calls = [connects |-> 0, stops |-> 0, forces |-> 0, doubles |-> 0]
    /\ wanted = FALSE
    /\ stopped = FALSE
    /\ raced = FALSE
    /\ confused = FALSE

(* A functor is bound to the connector, or to a connection.                *)
Call(op)       == [op |-> op, conn |-> NoConn]
CallOf(op, c)  == [op |-> op, conn |-> c]
Queued(op)     == Cardinality({i \in DOMAIN pending : pending[i].op = op})

(* Who holds a TcpConnectionPtr: the client, a functor, the other thread.  *)
Referenced(c) ==
    \/ c = connection
    \/ c = held
    \/ \E i \in DOMAIN pending : pending[i].conn = c

(* The objects and the n open sockets, when those that nobody refers to    *)
(* any more have been destroyed and have closed theirs.                    *)
LetGo(objects, n) ==
    /\ obj' = [c \in Conn |-> IF Referenced(c)' THEN objects[c] ELSE NoObject]
    /\ sockets' = n - Cardinality({c \in Conn : objects[c] # NoObject /\ obj'[c] = NoObject})

----------------------------------------------------------------------------
(* The connector, in the loop thread.                                      *)
ClosesSocket(n)  == sockets' = n - 1

(* Faulty variant (mutation runs only): the timer is not set.            *)
NoTimer      == 0
TimersToSet  == IF connect THEN 1 ELSE 0

(* retry(), of the n sockets open: close it, and try again later.          *)
Retry(n) ==
    /\ ClosesSocket(n)
    /\ state' = "kDisconnected"
    /\ timers' = timers + TimersToSet
    /\ UNCHANGED connect

(* startInLoop and connect().  Winsock does not set the errno that         *)
(* connect() looks at, so that each of its three outcomes is possible:     *)
(* wait for the connection, retry, or give up.  It finds connect_ and      *)
(* state_ as flag and s, and left timers.                                  *)
StartInLoop(flag, s, left) ==
    IF flag
    THEN \/ /\ state' = "kConnecting"
            /\ channel' = "polled"
            /\ sockets' = sockets + 1
            /\ timers' = left
            /\ UNCHANGED wanted
         \/ /\ state' = "kDisconnected"
            /\ timers' = left + 1
            /\ UNCHANGED <<channel, sockets, wanted>>
         \/ /\ state' = s
            /\ timers' = left
            /\ wanted' = FALSE
            /\ UNCHANGED <<channel, sockets>>
    ELSE state' = s /\ timers' = left /\ UNCHANGED <<channel, sockets, wanted>>

(* removeAndResetChannel: out of the poller now, destroyed by a functor;   *)
(* queue is what has to run before it.                                     *)
(* Faulty variant (mutation runs only): the channel is never destroyed.  *)
RemoveOnly(queue)            == channel' = "removed" /\ pending' = queue
RemoveAndResetChannel(queue) ==
    /\ channel' = "removed"
    /\ pending' = Append(queue, Call("resetChannel"))

(* newConnection of the client: a connection has the socket now.           *)
NewConnection ==
    \E c \in Spare :
        /\ \A d \in Spare : c <= d
        /\ connection' = c
        /\ LetGo([obj EXCEPT ![c] = [state |-> "kConnected", polled |-> TRUE, closes |-> 0]],
                 sockets)

(* The loop handles an event of the connector's channel, while the         *)
(* connector waits for it; in another state its handlers do nothing.       *)
ConnectorEvent ==
    /\ at = "events" /\ ~restarting
    /\ NoConn \in ready
    /\ state = "kConnecting"
    /\ ready' = ready \ {NoConn}

(* handleWrite, when the socket has connected.                             *)
HandleWriteConnected ==
    /\ ConnectorEvent
    /\ UNCHANGED held
    /\ RemoveAndResetChannel(pending)
    /\ state' = "kConnected"
    /\ IF connect
       THEN NewConnection
       ELSE sockets' = sockets - 1 /\ UNCHANGED <<connection, obj>>
    /\ UNCHANGED <<connect, timers, retry, clientConnect, at, restarting, batch, userPc,
                   calls, histVars>>

(* handleWrite when it has not, or has connected to itself; handleError.   *)
HandleFailure ==
    /\ ConnectorEvent
    /\ RemoveAndResetChannel(pending)
    /\ Retry(sockets)
    /\ UNCHANGED <<clientVars, at, restarting, batch, userVars, histVars>>

----------------------------------------------------------------------------
(* The client.  removeConnection drops connection_, whichever connection   *)
(* that is by now, and tests whether to connect again...                   *)
Again == retry /\ clientConnect

RemoveConnection(c, queue) ==
    /\ connection' = NoConn
    /\ pending' = Append(queue, CallOf("connectDestroyed", c))
    /\ restarting' = Again
    /\ wanted' = (wanted /\ (Again \/ obj[c].closes > 0))
    /\ confused' = (confused \/ (obj[c].closes > 0 /\ (Again \/ connection # NoConn)))

(* handleClose of a connection, and its close callback.  disableAll() of a *)
(* channel that is out of the poller already puts it back.                 *)
Closed(c) == [obj EXCEPT ![c] = [state  |-> "kDisconnected",
                                 polled |-> ~obj[c].polled,
                                 closes |-> obj[c].closes + 1]]
HandleClose(c, queue) ==
    /\ UNCHANGED held
    /\ RemoveConnection(c, queue)
    /\ LetGo(Closed(c), sockets)
    /\ UNCHANGED <<connect, state, channel, timers, retry, clientConnect, at, userPc,
                   stopped, raced>>

(* An event closes the connection, and perhaps another report closes it    *)
(* again.                                                                  *)
CloseByEvent(c) ==
    /\ at = "events" /\ ~restarting
    /\ c \in ready
    /\ obj[c] # NoObject
    /\ IF obj[c].closes = 0
       THEN UNCHANGED calls
       ELSE calls.doubles < MaxDoubles /\ calls' = [calls EXCEPT !.doubles = @ + 1]
    /\ HandleClose(c, pending)
    /\ UNCHANGED <<ready, batch>>

(* ... and then calls restart(), which sets connect_ of the connector.     *)
(* (It reads it back at once; a stop() between the two is left out.)       *)
Restart ==
    /\ restarting
    /\ restarting' = FALSE
    /\ connect' = TRUE
    /\ raced' = (raced \/ ~connect)
    /\ StartInLoop(TRUE, "kDisconnected", timers)
    /\ UNCHANGED <<clientVars, at, ready, batch, pending, userVars, stopped, confused>>

----------------------------------------------------------------------------
(* The other thread.                                                       *)
AtRest ==
    /\ state # "kConnecting" /\ timers = 0 /\ connection = NoConn /\ ~restarting
    /\ \A i \in DOMAIN pending :
          pending[i].op \notin {"startInLoop", "stopInLoop", "resetChannel"}

UserConnects ==
    /\ userPc = "idle"
    /\ calls.connects < MaxConnects
    /\ AtRest
    /\ calls' = [calls EXCEPT !.connects = @ + 1]
    /\ clientConnect' = TRUE
    /\ connect' = TRUE
    /\ wanted' = TRUE
    /\ stopped' = FALSE
    /\ userPc' = "start"
    /\ UNCHANGED <<state, channel, timers, sockets, retry, connection, obj, held, loopVars,
                   raced, confused>>

(* Faulty variant (mutation runs only): connect_ of the connector is left.*)
LeaveConnect == UNCHANGED connect
ClearConnect == connect' = FALSE

UserStops ==
    /\ userPc = "idle"
    /\ calls.stops < MaxStops
    /\ calls' = [calls EXCEPT !.stops = @ + 1]
    /\ clientConnect' = FALSE
    /\ ClearConnect
    /\ wanted' = FALSE
    /\ stopped' = TRUE
    /\ userPc' = "stop"
    /\ UNCHANGED <<state, channel, timers, sockets, retry, connection, obj, held, loopVars,
                   raced, confused>>

UserQueues ==
    /\ userPc \in {"start", "stop"}
    /\ pending' = Append(pending, Call(IF userPc = "start" THEN "startInLoop"
                                                           ELSE "stopInLoop"))
    /\ userPc' = "idle"
    /\ UNCHANGED <<connectorVars, clientVars, at, restarting, ready, batch, held, calls,
                   histVars>>

(* disconnect(): no more connections after this one, which is shut down.   *)
UserDisconnects ==
    /\ userPc = "idle"
    /\ clientConnect' = FALSE
    /\ wanted' = FALSE
    /\ userPc' = "disconnect"
    /\ UNCHANGED <<connectorVars, retry, connection, obj, loopVars, held, calls, stopped,
                   raced, confused>>

UserShutsDown ==
    /\ userPc = "disconnect"
    /\ userPc' = "idle"
    /\ IF connection # NoConn /\ obj[connection].state = "kConnected"
       THEN obj' = [obj EXCEPT ![connection].state = "kDisconnecting"]
       ELSE UNCHANGED obj
    /\ UNCHANGED <<connectorVars, retry, clientConnect, connection, loopVars, held, calls,
                   histVars>>

(* forceClose() of the connection that connection() returns: it looks at   *)
(* state_, sets it, whatever it is by then, and queues forceCloseInLoop.   *)
Open(c) == obj[c].state \in {"kConnected", "kDisconnecting"}

UserForces ==
    /\ userPc = "idle"
    /\ calls.forces < MaxForces
    /\ connection # NoConn /\ Open(connection)
    /\ calls' = [calls EXCEPT !.forces = @ + 1]
    /\ held' = connection
    /\ userPc' = "set"
    /\ UNCHANGED <<connectorVars, clientVars, loopVars, histVars>>

UserForceSets ==
    /\ userPc = "set"
    /\ obj' = [obj EXCEPT ![held].state = "kDisconnecting"]
    /\ userPc' = "queue"
    /\ UNCHANGED <<connectorVars, retry, clientConnect, connection, loopVars, held, calls,
                   histVars>>

UserForceQueues ==
    /\ userPc = "queue"
    /\ pending' = Append(pending, CallOf("forceClose", held))
    /\ held' = NoConn
    /\ userPc' = "idle"
    /\ UNCHANGED <<connectorVars, clientVars, at, restarting, ready, batch, calls, histVars>>

----------------------------------------------------------------------------
(* The loop.  Poll reports some of what may happen.                        *)
PollReturns ==
    /\ at = "poll"
    /\ at' = "timers"
    /\ ready' \in SUBSET ((IF channel = "polled" THEN {NoConn} ELSE {})
                             \cup {c \in Conn : obj[c].polled})
    /\ UNCHANGED <<connectorVars, clientVars, restarting, batch, pending, userVars, histVars>>

RunRetryTimer ==
    /\ at = "timers"
    /\ timers > 0
    /\ StartInLoop(connect, state, timers - 1)
    /\ UNCHANGED <<connect, clientVars, loopVars, userVars, stopped, raced, confused>>

StartDispatch ==
    /\ at = "timers"
    /\ at' = "events"
    /\ UNCHANGED <<connectorVars, clientVars, restarting, ready, batch, pending, userVars,
                   histVars>>

(* (What is left of ready closes no connection.)                           *)
SwapFunctors ==
    /\ at = "events" /\ ~restarting
    /\ ~(NoConn \in ready /\ state = "kConnecting")
    /\ ready' = {}
    /\ at' = "functors"
    /\ batch' = Len(pending)
    /\ UNCHANGED <<connectorVars, clientVars, restarting, pending, userVars, histVars>>

Begin(op) ==
    /\ at = "functors" /\ ~restarting
    /\ batch > 0
    /\ batch' = batch - 1
    /\ Head(pending).op = op

Functor(op) ==
    /\ Begin(op)
    /\ UNCHANGED <<connect, clientVars, at, restarting, ready, userVars, stopped, raced,
                   confused>>

RunStartInLoop ==
    /\ Functor("startInLoop")
    /\ pending' = Tail(pending)
    /\ StartInLoop(connect, state, timers)

RunStopInLoop ==
    /\ Functor("stopInLoop")
    /\ IF state = "kConnecting"
       THEN RemoveAndResetChannel(Tail(pending)) /\ Retry(sockets)
       ELSE pending' = Tail(pending) /\ UNCHANGED <<state, channel, timers, sockets>>
    /\ UNCHANGED wanted

RunResetChannel ==
    /\ Functor("resetChannel")
    /\ pending' = Tail(pending)
    /\ channel' = "none"
    /\ UNCHANGED <<state, timers, sockets, wanted>>

(* connectDestroyed, which lets go of its reference to the connection.     *)
Destroyed(c) == [obj EXCEPT ![c] =
    [state  |-> IF obj[c].state = "kConnected" THEN "kDisconnected" ELSE obj[c].state,
     polled |-> FALSE,
     closes |-> obj[c].closes]]

RunConnectDestroyed ==
    /\ Begin("connectDestroyed")
    /\ UNCHANGED <<connection, held>>
    /\ pending' = Tail(pending)
    /\ LetGo(Destroyed(Head(pending).conn), sockets)
    /\ UNCHANGED <<connect, state, channel, timers, retry, clientConnect, at, restarting,
                   ready, userPc, calls, histVars>>

(* forceCloseInLoop, of a connection that may have closed already.         *)
RunForceClose ==
    /\ Begin("forceClose")
    /\ IF Open(Head(pending).conn)
       THEN HandleClose(Head(pending).conn, Tail(pending))
       ELSE /\ UNCHANGED <<connection, held>>
            /\ pending' = Tail(pending)
            /\ LetGo(obj, sockets)
            /\ UNCHANGED <<connect, state, channel, timers, retry, clientConnect, at,
                           restarting, userPc, histVars>>
    /\ UNCHANGED <<ready, calls>>

EndIteration ==
    /\ at = "functors" /\ ~restarting
    /\ batch = 0
    /\ at' = "poll"
    /\ UNCHANGED <<connectorVars, clientVars, restarting, ready, batch, pending, userVars,
                   histVars>>

LoopStep == \/ PollReturns \/ RunRetryTimer \/ StartDispatch
            \/ HandleWriteConnected \/ HandleFailure \/ Restart
            \/ \E c \in Conn : CloseByEvent(c)
            \/ SwapFunctors \/ RunStartInLoop \/ RunStopInLoop \/ RunResetChannel
            \/ RunConnectDestroyed \/ RunForceClose \/ EndIteration

UserReturns == UserQueues \/ UserShutsDown \/ UserForceSets \/ UserForceQueues

UserStep == UserConnects \/ UserStops \/ UserDisconnects \/ UserForces \/ UserReturns

Next == LoopStep \/ UserStep

(* The threads run, and a timer that is set expires.  Nobody has to call   *)
(* anything, and no attempt has to succeed, or even to fail.               *)
Spec == /\ Init /\ [][Next]_vars
        /\ WF_vars(LoopStep)
        /\ SF_vars(RunRetryTimer)
        /\ WF_vars(UserReturns)

----------------------------------------------------------------------------
TypeOK ==
    /\ {connect, retry, clientConnect, restarting} \subseteq BOOLEAN
    /\ {wanted, stopped, raced, confused} \subseteq BOOLEAN
    /\ state \in {"kDisconnected", "kConnecting", "kConnected"}
    /\ channel \in {"none", "polled", "removed"}
    /\ timers \in Nat /\ sockets \in Nat
    /\ {connection, held} \subseteq Conn \cup {NoConn}
    /\ obj \in [Conn -> Object \cup {NoObject}]
    /\ at \in {"poll", "timers", "events", "functors"}
    /\ ready \subseteq Conn \cup {NoConn}
    /\ pending \in Seq([op : {"startInLoop", "stopInLoop", "resetChannel"}, conn : {NoConn}]
                       \cup [op : {"connectDestroyed", "forceClose"}, conn : Conn])
    /\ batch \in 0 .. Len(pending)
    /\ userPc \in {"idle", "start", "stop", "disconnect", "set", "queue"}
    /\ calls \in [connects : 0 .. MaxConnects, stops : 0 .. MaxStops,
                  forces : 0 .. MaxForces, doubles : 0 .. MaxDoubles]

(* Unless a restart() undoes a stop(), or a second close of a connection   *)
(* confuses the client: a channel is polled exactly while connecting, and  *)
(* resetChannel is on its way exactly for one that has been removed.  So   *)
(* no channel is destroyed while it is in the poller, none is reported to  *)
(* a connector that does not wait for it, and connecting() finds channel_  *)
(* empty, as it asserts.                                                   *)
ChannelInStep ==
    /\ TypeOK
    /\ ~raced /\ ~confused =>
          /\ channel = "polled" <=> state = "kConnecting"
          /\ Queued("resetChannel") = (IF channel = "removed" THEN 1 ELSE 0)

(* "assert(!channel_)" of connecting(), the one step that opens a socket,  *)
(* in a client that no stop() races with.                                  *)
ChannelAssert == [][sockets' > sockets /\ ~raced' => channel = "none"]_vars

(* What is under way on behalf of connect().                               *)
UnderWay ==
    (IF state = "kConnecting" THEN 1 ELSE 0) + (IF connection # NoConn THEN 1 ELSE 0)
        + (IF restarting THEN 1 ELSE 0) + (IF userPc = "start" THEN 1 ELSE 0)
        + timers + Queued("startInLoop")

(* There is at most one attempt or connection, and there is one as long as *)
(* the client should be connected: neither a failure, a lost connection    *)
(* nor a call of the other thread leaves it without.                       *)
OneUnderWay == UnderWay <= 1 /\ (wanted => UnderWay = 1)

(* Every socket is closed once: an open one belongs to the attempt, or to  *)
(* a connection that somebody refers to and will let go of.                *)
SocketsAccounted ==
    sockets = (IF state = "kConnecting" THEN 1 ELSE 0)
                 + Cardinality({c \in Conn : Referenced(c)})

(* Both: every attempt and its socket are accounted for, unless a second   *)
(* close of a connection restarts the connector or drops a newer one.      *)
AttemptsAccounted == ~confused => OneUnderWay /\ SocketsAccounted

(* No attempt is under way or will be made.                                *)
Quiet == state # "kConnecting" /\ timers = 0 /\ ~restarting

(* After the last stop() attempts cease, unless a restart() undoes it or a *)
(* second close has confused the client (see AttemptsAccounted): the       *)
(* queued stopInLoop ends the one under way, whatever the server does.     *)
StopEndsAttempts == <>[](stopped /\ ~raced /\ ~confused => Quiet)

(* "void stop();  // can be called in any thread"                          *)
StopStops == <>[](stopped => Quiet)
=============================================================================
