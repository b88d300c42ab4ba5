------------------------------ MODULE TcpServer ------------------------------
(***************************************************************************)
(* net/tcpServer.cpp with net/acceptor.cpp and net/eventLoopThreadPool.cpp:*)
(* a server in the base loop hands its connections to I/O loops in turn,   *)
(* takes them out of its map when they close, and disposes of the others   *)
(* and of the threads in its destructor.                                   *)
(*                                                                         *)
(* A loop alternates between polling (events of its connections) and one   *)
(* batch of functors, and looks at quit_ after the batch, as EventLoop has *)
(* it.  A functor or handler is one step: what it shares with other        *)
(* threads is one push to a queue.  How a connection comes to close is the *)
(* subject of TcpConnection; here it may at any time, and again where      *)
(* handleClose can run again: the same poll has reported the channel more  *)
(* than once, another thread's forceClose() has set state_ back, or the    *)
(* second close has put the channel back into its poller.                  *)
(***************************************************************************)
EXTENDS Integers, Sequences, FiniteSets

CONSTANTS
    MaxConns,       \* bound: connections accepted
    MaxThreads,     \* bound: what setThreadNum may be given
    MaxAgain,       \* bound: connections that another thread closes by force, or
                    \* that events close more than once
    MaxCloses       \* bound: times that events close one connection

ASSUME BoundsAssumption == {MaxConns, MaxThreads, MaxAgain, MaxCloses} \subseteq Nat

Base == 0
Loop == 0 .. MaxThreads     \* the base loop and those of the pool
Conn == 1 .. MaxConns       \* connections, known by nextConnId_

VARIABLES
    serverPc,       \* "new", "serving", "dtor" (the base thread is in the
                    \* destructor), "gone"
    numThreads,     \* numThreads_ of the pool
    next,           \* next_ of the pool
    nextConnId,
    connections,    \* connections_
    joined,         \* how many threads the destructor has joined
    at,             \* every loop: "none", "poll", "functors", "dead"
    batch,          \* how many of its functors are swapped out
    pending,        \* its functors that have not run
    quit,           \* its quit_
    ioLoop,         \* loop_ of every connection
    state,          \* its state_
    reading,        \* its channel is interested in something
    index,          \* its channel in the poller: "kNew", "kAdded", "kDeleted"
    reported,       \* the running iteration of its loop has handled an event of it
    forcing,        \* another thread inside forceClose(): what it does next, and
                    \* for which connection
    told,           \* history: what the connection callback has been told
    closes,         \* history: times handleClose ran for every connection
    forced,         \* history: connections that thread has called
    hasty,          \* history: the server was destroyed too early, see Hasty
    misuse          \* history: a server that was gone has been called

serverVars == <<serverPc, numThreads, next, nextConnId, connections, joined>>
loopVars   == <<at, batch, pending, quit>>
connVars   == <<ioLoop, state, reading, index, reported, told, closes>>
forceVars  == <<forcing, forced>>
histVars   == <<hasty, misuse>>
vars       == <<serverVars, loopVars, connVars, forceVars, histVars>>

Idle == [pc |-> "idle"]

Init ==
    /\ serverPc = "new"
    /\ numThreads = 0
    /\ next = 0
    /\ nextConnId = 1
    /\ connections = {}
    /\ joined = 0
    /\ at = [l \in Loop |-> IF l = Base THEN "poll" ELSE "none"]
    /\ batch = [l \in Loop |-> 0]
    /\ pending = [l \in Loop |-> <<>>]
    /\ quit = [l \in Loop |-> FALSE]
    /\ ioLoop = [c \in Conn |-> Base]
    /\ state = [c \in Conn |-> "kConnecting"]
    /\ reading = [c \in Conn |-> FALSE]
    /\ index = [c \in Conn |-> "kNew"]
    /\ reported = [c \in Conn |-> FALSE]
    /\ forcing = Idle
    /\ told = [c \in Conn |-> <<>>]
    /\ closes = [c \in Conn |-> 0]
    /\ forced = {}
    /\ hasty = FALSE
    /\ misuse = FALSE

Accepted == 1 .. nextConnId - 1

(* The thread of a loop, between two of its steps.                         *)
Runs(l) == at[l] \in {"poll", "functors"} /\ (l = Base => serverPc # "dtor")

Functor(op, c) == [op |-> op, conn |-> c]

(* queueInLoop: l's queue after the push.                                  *)
Queued(l, f) == [pending EXCEPT ![l] = Append(@, f)]

Open(c)        == state[c] \in {"kConnected", "kDisconnecting"}
addedToLoop(c) == index[c] # "kNew"
Forcing(c)     == forcing # Idle /\ forcing.conn = c

(* Who holds a TcpConnectionPtr: the map, the functors bound to one, and   *)
(* the thread inside forceClose().                                         *)
Referenced(c) ==
    \/ c \in connections
    \/ Forcing(c)
    \/ \E l \in Loop : \E i \in DOMAIN pending[l] : pending[l][i].conn = c

----------------------------------------------------------------------------
(* TcpConnection, as its loop calls it.                                    *)
ConnectEstablished(c) ==
    /\ state' = [state EXCEPT ![c] = "kConnected"]
    /\ reading' = [reading EXCEPT ![c] = TRUE]
    /\ index' = [index EXCEPT ![c] = "kAdded"]
    /\ told' = [told EXCEPT ![c] = Append(@, "up")]

(* Faulty variant (mutation runs only): state_ is not looked at.         *)
AlwaysTells(c) == TRUE
StillUp(c)     == state[c] = "kConnected"

ConnectDestroyed(c) ==
    /\ index' = [index EXCEPT ![c] = "kNew"]
    /\ IF StillUp(c)
       THEN /\ state' = [state EXCEPT ![c] = "kDisconnected"]
            /\ reading' = [reading EXCEPT ![c] = FALSE]
            /\ told' = [told EXCEPT ![c] = Append(@, "down")]
       ELSE UNCHANGED <<state, reading, told>>

(* removeConnectionInLoop: out of the map, and to the end in its own loop. *)
(* Faulty variant (mutation runs only): connectDestroyed is not queued.  *)
ErasedOnly(c, queues) == connections' = connections \ {c} /\ pending' = queues
RemoveConnectionInLoop(c, queues) ==
    /\ connections' = connections \ {c}
    /\ pending' = [queues EXCEPT ![ioLoop[c]] = Append(@, Functor("connectDestroyed", c))]

(* removeConnection, the close callback: runInLoop of the base loop.  It   *)
(* is bound to the server's address: undefined once that is gone.          *)
(* Faulty variant (mutation runs only): the base loop is not told.       *)
RemoveNothing(c, queues) == pending' = queues /\ UNCHANGED <<connections, misuse>>
RemoveConnection(c, queues) ==
    CASE serverPc = "gone" ->
           /\ misuse' = TRUE
           /\ pending' = queues
           /\ UNCHANGED connections
      [] serverPc # "gone" /\ ioLoop[c] = Base ->
           /\ RemoveConnectionInLoop(c, queues)
           /\ UNCHANGED misuse
      [] serverPc # "gone" /\ ioLoop[c] # Base ->
           /\ pending' = [queues EXCEPT ![Base] = Append(@, Functor("removeConnection", c))]
           /\ UNCHANGED <<connections, misuse>>

(* handleClose.  disableAll() of a channel that is out of the poller       *)
(* already puts it back, interested in nothing.                            *)
HandleClose(c, queues) ==
    /\ state' = [state EXCEPT ![c] = "kDisconnected"]
    /\ reading' = [reading EXCEPT ![c] = FALSE]
    /\ index' = [index EXCEPT ![c] = IF @ = "kAdded" THEN "kDeleted" ELSE "kAdded"]
    /\ told' = [told EXCEPT ![c] = Append(@, "down")]
    /\ closes' = [closes EXCEPT ![c] = @ + 1]
    /\ RemoveConnection(c, queues)

(* (What makes a connection close again is bounded.)                       *)
MayCloseAgain ==
    Cardinality(forced) + Cardinality({c \in Conn : closes[c] > 1}) < MaxAgain

(* An event closes the connection: the poller has reported its channel in  *)
(* this iteration, perhaps more than once.                                 *)
CloseByEvent(c) ==
    /\ Runs(ioLoop[c])
    /\ at[ioLoop[c]] = "poll"
    /\ index[c] = "kAdded" \/ reported[c]
    /\ closes[c] < MaxCloses /\ (closes[c] = 0 \/ MayCloseAgain)
    /\ reported' = [reported EXCEPT ![c] = TRUE]
    /\ HandleClose(c, pending)
    /\ UNCHANGED <<serverPc, numThreads, next, nextConnId, joined, at, batch, quit,
                   ioLoop, forceVars, hasty>>

(* A forceClose() in the loop's own thread has queued forceCloseInLoop.    *)
(* (A second close of this kind is RunForceClose, below.)                  *)
CloseByFunctor(c) ==
    /\ Runs(ioLoop[c])
    /\ at[ioLoop[c]] = "functors"
    /\ Open(c) /\ closes[c] = 0
    /\ HandleClose(c, pending)
    /\ UNCHANGED <<serverPc, numThreads, next, nextConnId, joined, at, batch, quit,
                   ioLoop, reported, forceVars, hasty>>

Shutdown(c) ==
    /\ Runs(ioLoop[c])
    /\ addedToLoop(c)
    /\ state[c] = "kConnected"
    /\ state' = [state EXCEPT ![c] = "kDisconnecting"]
    /\ UNCHANGED <<serverVars, loopVars, ioLoop, reading, index, reported, told, closes,
                   forceVars, histVars>>

----------------------------------------------------------------------------
(* forceClose() in another thread that holds the connection: it looks at   *)
(* state_, sets it, whatever it is by then, and queues forceCloseInLoop.   *)
(* (Called while the destructor runs, it comes too late: see Hasty.)       *)
ForceCloseChecks(c) ==
    /\ forcing = Idle
    /\ Open(c) /\ Referenced(c)
    /\ c \notin forced /\ MayCloseAgain
    /\ forcing' = [pc |-> "set", conn |-> c]
    /\ forced' = forced \cup {c}
    /\ hasty' = (hasty \/ serverPc \in {"dtor", "gone"})
    /\ UNCHANGED <<serverVars, loopVars, connVars, misuse>>

ForceCloseSets ==
    /\ forcing.pc = "set"
    /\ forcing' = [forcing EXCEPT !.pc = "queue"]
    /\ state' = [state EXCEPT ![forcing.conn] = "kDisconnecting"]
    /\ UNCHANGED <<serverVars, loopVars, ioLoop, reading, index, reported, told, closes,
                   forced, histVars>>

(* (The queue of a loop that has been destroyed must not be touched.)      *)
ForceCloseQueues ==
    /\ forcing.pc = "queue"
    /\ forcing' = Idle
    /\ LET l == ioLoop[forcing.conn]
       IN  IF at[l] = "dead"
           THEN misuse' = TRUE /\ UNCHANGED pending
           ELSE /\ pending' = Queued(l, Functor("forceClose", forcing.conn))
                /\ UNCHANGED misuse
    /\ UNCHANGED <<serverVars, at, batch, quit, connVars, forced, hasty>>

ForceCloses == ForceCloseSets \/ ForceCloseQueues

----------------------------------------------------------------------------
(* EventLoopThreadPool::start: startLoop() of every thread.  They are in   *)
(* loop() before the destructor comes; EventLoopThread has the other case. *)
StartPool == at' = [l \in Loop |-> IF l \in 1 .. numThreads' THEN "poll" ELSE at[l]]

(* setThreadNum and start(): the pool's threads run, the acceptor listens. *)
Start ==
    /\ serverPc = "new"
    /\ Runs(Base)
    /\ serverPc' = "serving"
    /\ numThreads' \in 0 .. MaxThreads
    /\ StartPool
    /\ UNCHANGED <<next, nextConnId, connections, joined, batch, pending, quit, connVars,
                   forceVars, histVars>>

(* getNextLoop: round robin over the pool, or the base loop.               *)
Wrap(n)       == IF n >= numThreads THEN 0 ELSE n
NextLoop      == IF numThreads = 0 THEN Base ELSE next + 1

(* Faulty variant (mutation runs only): connections_ is not updated.     *)
Unregistered(c) == UNCHANGED connections
Register(c)     == connections' = connections \cup {c}

(* runInLoop of connectEstablished.                                        *)
Establish(c, l) ==
    IF l = Base
    THEN ConnectEstablished(c) /\ UNCHANGED pending
    ELSE /\ pending' = Queued(l, Functor("connectEstablished", c))
         /\ UNCHANGED <<state, reading, index, told>>

(* Acceptor::handleRead: somebody connects while the acceptor listens.     *)
Accepts == serverPc = "serving" /\ at[Base] = "poll"

NewConnection ==
    /\ Accepts
    /\ nextConnId \in Conn
    /\ nextConnId' = nextConnId + 1
    /\ next' = IF numThreads = 0 THEN next ELSE Wrap(next + 1)
    /\ ioLoop' = [ioLoop EXCEPT ![nextConnId] = NextLoop]
    /\ Register(nextConnId)
    /\ Establish(nextConnId, NextLoop)
    /\ UNCHANGED <<serverPc, numThreads, joined, at, batch, quit, reported, closes,
                   forceVars, histVars>>

----------------------------------------------------------------------------
(* The loops.                                                              *)
SwapFunctors(l) ==
    /\ Runs(l)
    /\ at[l] = "poll"
    /\ at' = [at EXCEPT ![l] = "functors"]
    /\ batch' = [batch EXCEPT ![l] = Len(pending[l])]
    /\ reported' = [c \in Conn |-> reported[c] /\ ioLoop[c] # l]
    /\ UNCHANGED <<serverVars, pending, quit, ioLoop, state, reading, index, told, closes,
                   forceVars, histVars>>

(* The next functor of l, which is op, leaves these queues behind.         *)
Begin(l, op) ==
    /\ Runs(l)
    /\ batch[l] > 0
    /\ Head(pending[l]).op = op
    /\ batch' = [batch EXCEPT ![l] = @ - 1]
    /\ UNCHANGED <<serverPc, numThreads, next, nextConnId, joined, at, quit, ioLoop, reported,
                   forceVars, hasty>>

Rest(l) == [pending EXCEPT ![l] = Tail(@)]

RunConnectEstablished(l) ==
    /\ Begin(l, "connectEstablished")
    /\ pending' = Rest(l)
    /\ ConnectEstablished(Head(pending[l]).conn)
    /\ UNCHANGED <<connections, closes, misuse>>

RunConnectDestroyed(l) ==
    /\ Begin(l, "connectDestroyed")
    /\ pending' = Rest(l)
    /\ ConnectDestroyed(Head(pending[l]).conn)
    /\ UNCHANGED <<connections, closes, misuse>>

RunForceClose(l) ==
    /\ Begin(l, "forceClose")
    /\ IF Open(Head(pending[l]).conn)
       THEN HandleClose(Head(pending[l]).conn, Rest(l))
       ELSE /\ pending' = Rest(l)
            /\ UNCHANGED <<connections, state, reading, index, told, closes, misuse>>

(* The functor is bound to the server's address: undefined once it is gone.*)
RunRemoveConnection ==
    /\ Begin(Base, "removeConnection")
    /\ IF serverPc = "gone"
       THEN /\ misuse' = TRUE
            /\ pending' = Rest(Base)
            /\ UNCHANGED connections
       ELSE /\ RemoveConnectionInLoop(Head(pending[Base]).conn, Rest(Base))
            /\ UNCHANGED misuse
    /\ UNCHANGED <<state, reading, index, told, closes>>

Quits(l) == quit[l]

(* "while (!quit_)"; a loop that ends is destroyed with what it has queued.*)
EndIteration(l) ==
    /\ Runs(l)
    /\ at[l] = "functors"
    /\ batch[l] = 0
    /\ at' = [at EXCEPT ![l] = IF Quits(l) THEN "dead" ELSE "poll"]
    /\ pending' = [pending EXCEPT ![l] = IF Quits(l) THEN <<>> ELSE @]
    /\ UNCHANGED <<serverVars, batch, quit, connVars, forceVars, histVars>>

----------------------------------------------------------------------------
(* ~TcpServer, in the base thread.  It comes too early for a connection    *)
(* that another loop has not finished with (that loop may end before it    *)
(* runs connectDestroyed, or hand the connection back to a server that is  *)
(* gone), for one in kDisconnecting, which connectDestroyed takes for      *)
(* closed, for one that a forceClose() under way may close after it, and   *)
(* for one that a second close has put back into the poller.               *)
Hasty == \E c \in Accepted :
            \/ ioLoop[c] # Base /\ Referenced(c)
            \/ c \in connections /\ state[c] = "kDisconnecting"
            \/ Forcing(c)
            \/ ioLoop[c] = Base /\ index[c] = "kAdded" /\ ~reading[c]
            \/ \E i \in DOMAIN pending[Base] : pending[Base][i] = Functor("forceClose", c)

(* (Not while the base loop handles events: activeChannels_ would be left  *)
(* with channels that are no more.)                                        *)
DtorBegins ==
    /\ serverPc \in {"new", "serving"}
    /\ Runs(Base)
    /\ at[Base] = "functors"
    /\ serverPc' = "dtor"
    /\ hasty' = Hasty
    /\ UNCHANGED <<numThreads, next, nextConnId, connections, joined, loopVars, connVars,
                   forceVars, misuse>>

(* One connection of the map: runInLoop of connectDestroyed.               *)
DtorDisposes(c) ==
    /\ serverPc = "dtor"
    /\ c \in connections
    /\ connections' = connections \ {c}
    /\ IF ioLoop[c] = Base
       THEN ConnectDestroyed(c) /\ UNCHANGED pending
       ELSE /\ pending' = Queued(ioLoop[c], Functor("connectDestroyed", c))
            /\ UNCHANGED <<state, reading, index, told>>
    /\ UNCHANGED <<serverPc, numThreads, next, nextConnId, joined, at, batch, quit, ioLoop,
                   reported, closes, forceVars, histVars>>

(* Then the members go, the pool's threads one by one: quit() and join().  *)
DtorQuits ==
    /\ serverPc = "dtor"
    /\ connections = {}
    /\ joined < numThreads
    /\ ~quit[joined + 1]
    /\ quit' = [quit EXCEPT ![joined + 1] = TRUE]
    /\ UNCHANGED <<serverVars, at, batch, pending, connVars, forceVars, histVars>>

DtorJoins ==
    /\ serverPc = "dtor"
    /\ joined < numThreads
    /\ at[joined + 1] = "dead"
    /\ joined' = joined + 1
    /\ UNCHANGED <<serverPc, numThreads, next, nextConnId, connections, loopVars, connVars,
                   forceVars, histVars>>

DtorEnds ==
    /\ serverPc = "dtor"
    /\ connections = {}
    /\ joined = numThreads
    /\ serverPc' = "gone"
    /\ UNCHANGED <<numThreads, next, nextConnId, connections, joined, loopVars, connVars,
                   forceVars, histVars>>

LoopStep(l) == \/ SwapFunctors(l) \/ EndIteration(l)
               \/ RunConnectEstablished(l) \/ RunConnectDestroyed(l) \/ RunForceClose(l)
               \/ l = Base /\ RunRemoveConnection

DtorStep == DtorQuits \/ DtorJoins \/ DtorEnds \/ \E c \in Conn : DtorDisposes(c)

Next == \/ Start \/ NewConnection \/ DtorBegins \/ DtorStep
        \/ \E l \in Loop : LoopStep(l)
        \/ \E c \in Conn : \/ CloseByEvent(c) \/ CloseByFunctor(c) \/ Shutdown(c)
                           \/ ForceCloseChecks(c)
        \/ ForceCloses

(* The threads run, and a call of forceClose() comes to its end.  Nobody   *)
(* has to connect, to close, or to destroy.                                *)
Spec == /\ Init /\ [][Next]_vars
        /\ \A l \in Loop : WF_vars(LoopStep(l))
        /\ WF_vars(DtorStep)
        /\ WF_vars(ForceCloses)

----------------------------------------------------------------------------
TypeOK ==
    /\ serverPc \in {"new", "serving", "dtor", "gone"}
    /\ numThreads \in 0 .. MaxThreads
    /\ next \in 0 .. MaxThreads
    /\ nextConnId \in 1 .. MaxConns + 1
    /\ connections \subseteq Accepted
    /\ joined \in 0 .. numThreads
    /\ at \in [Loop -> {"none", "poll", "functors", "dead"}]
    /\ \A l \in Loop :
          /\ pending[l] \in Seq([op : {"connectEstablished", "connectDestroyed",
                                       "removeConnection", "forceClose"}, conn : Conn])
          /\ batch[l] \in 0 .. Len(pending[l])
    /\ quit \in [Loop -> BOOLEAN]
    /\ ioLoop \in [Conn -> Loop]
    /\ state \in [Conn -> {"kConnecting", "kConnected", "kDisconnecting", "kDisconnected"}]
    /\ index \in [Conn -> {"kNew", "kAdded", "kDeleted"}]
    /\ {reading, reported} \subseteq [Conn -> BOOLEAN]
    /\ forcing \in {Idle} \cup [pc : {"set", "queue"}, conn : Conn]
    /\ closes \in [Conn -> Nat]
    /\ forced \subseteq Conn
    /\ {hasty, misuse} \subseteq BOOLEAN

(* A removal on its way to the base loop finds a server to call, and its   *)
(* connection in the map, and is the only one for it -- unless handleClose *)
(* has run twice for it.  A connection that is up is there to be found.    *)
RemovalFindsConnection ==
    /\ TypeOK
    /\ ~hasty =>
        /\ ~misuse
        /\ \A i, j \in DOMAIN pending[Base] :
              pending[Base][i].op = "removeConnection" /\ closes[pending[Base][i].conn] < 2 =>
                 /\ pending[Base][i].conn \in connections
                 /\ pending[Base][j] = pending[Base][i] => i = j
        /\ \A c \in Conn : reading[c] => c \in connections

(* "assert(n == 1)" of removeConnectionInLoop.                             *)
RemovalAssert ==
    ~hasty => \A i \in DOMAIN pending[Base] :
                 pending[Base][i].op = "removeConnection" => pending[Base][i].conn \in connections

(* What ~TcpConnection and ~Channel assert when the last reference goes,   *)
(* whichever of the closes, the destructor and their functors came first:  *)
(* disconnected, interested in nothing, out of its poller.                 *)
DestroyedClean ==
    ~hasty => \A c \in Accepted :
                 ~Referenced(c) => state[c] = "kDisconnected" /\ ~reading[c] /\ ~addedToLoop(c)

(* The connection callback is told of the connection, then of its end:     *)
(* once for each time that handleClose runs, or by connectDestroyed for a  *)
(* connection that has not closed.  Even a destructor that comes too early *)
(* tells nobody twice, unless another thread closes the connection then.   *)
ToldInOrder ==
    \A c \in Conn :
        told[c] # <<>> =>
           /\ told[c][1] = "up"
           /\ \A i \in 2 .. Len(told[c]) : told[c][i] = "down"
           /\ \/ Len(told[c]) <= 2
              \/ Len(told[c]) = closes[c] + 1
              \/ hasty /\ c \in forced

(* "new connections are assigned on a round-robin basis"                   *)
LoopsShareEvenly ==
    \A l, m \in 1 .. numThreads :
        Cardinality({c \in Accepted : ioLoop[c] = l})
            <= Cardinality({c \in Accepted : ioLoop[c] = m}) + 1

(* Both: each loop serves its share, and tells of each connection in order. *)
ConnectionsServed == ToldInOrder /\ LoopsShareEvenly

(* A connection that is closed is let go of, by every loop.                *)
ClosedIsReleased ==
    \A c \in Conn : (state[c] = "kDisconnected") ~> ~Referenced(c)

(* A connection that is accepted is announced, in its own loop, unless a   *)
(* destructor comes too early for it.                                      *)
AcceptedIsTold ==
    \A c \in Conn : (c \in connections) ~> (told[c] # <<>> \/ hasty)

(* The destructor joins every thread of the pool and returns.              *)
DestructorReturns == (serverPc = "dtor") ~> (serverPc = "gone")

(* All three: no connection is stuck on its way from the acceptor to the   *)
(* end, and the loops that it comes through end with the server.           *)
LifeCompletes == AcceptedIsTold /\ ClosedIsReleased /\ DestructorReturns
=============================================================================
