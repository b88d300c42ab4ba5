--------------------------- MODULE TcpClientProof ---------------------------
(***************************************************************************)
(* Theorems of TcpClient for any number of calls and of connections.       *)
(***************************************************************************)
EXTENDS TcpClient, SequenceTheorems, FiniteSetTheorems, TLAPS

Plain    == {"startInLoop", "stopInLoop", "resetChannel"}
Names    == Plain \cup {"connectDestroyed", "forceClose"}
Functors == [op : Plain, conn : {NoConn}]
                \cup [op : {"connectDestroyed", "forceClose"}, conn : Conn]

One(b) == IF b THEN 1 ELSE 0

FlagsOK ==
    /\ connect \in BOOLEAN /\ retry \in BOOLEAN /\ clientConnect \in BOOLEAN
    /\ wanted \in BOOLEAN /\ stopped \in BOOLEAN /\ raced \in BOOLEAN
    /\ confused \in BOOLEAN /\ restarting \in BOOLEAN

WheresOK ==
    /\ state \in {"kDisconnected", "kConnecting", "kConnected"}
    /\ channel \in {"none", "polled", "removed"}
    /\ at \in {"poll", "timers", "events", "functors"}
    /\ userPc \in {"idle", "start", "stop", "disconnect", "set", "queue"}

QueueOK == pending \in Seq(Functors) /\ batch \in 0 .. Len(pending)

Calls == [connects : 0 .. MaxConnects, stops : 0 .. MaxStops,
          forces : 0 .. MaxForces, doubles : 0 .. MaxDoubles]

NumbersOK == timers \in Nat /\ calls \in Calls

ConnsOK ==
    /\ connection \in Conn \cup {NoConn} /\ held \in Conn \cup {NoConn}
    /\ obj \in [Conn -> Object \cup {NoObject}]
    /\ ready \subseteq Conn \cup {NoConn}
    /\ at = "functors" => ready = {}
    /\ userPc \in {"set", "queue"} <=> held \in Conn

(* An object lives as long as somebody refers to it.                       *)
Refs == \A c \in Conn : obj[c] # NoObject <=> Referenced(c)

(* The sockets of the attempt and of the objects are open; a confused      *)
(* client may have lost others.                                            *)
Alive == {c \in Conn : obj[c] # NoObject}
Owned == One(state = "kConnecting") + Cardinality(Alive)

SocketsHold ==
    /\ sockets \in Nat /\ sockets >= Owned
    /\ ~confused => sockets = Owned

(* Who wants to be connected has not called stop() or disconnect().  The   *)
(* client's connection is the one that has not closed, and the events that *)
(* poll has reported are of connections that there are.                    *)
Sound ==
    /\ wanted => connect /\ clientConnect
    /\ \A c \in Conn : c = connection <=> obj[c] # NoObject /\ obj[c].closes = 0
    /\ \A c \in Conn : c \in ready => obj[c] # NoObject
    /\ OneUnderWay

(* A channel that has been removed is destroyed before anybody can start   *)
(* another attempt: a retry or a lost connection waits for the next        *)
(* iteration, and resetChannel is among the functors of this one.          *)
Within(seq, n) == \E i \in 1 .. n : i \in DOMAIN seq /\ seq[i].op = "resetChannel"

Resetting ==
    channel = "removed" /\ UnderWay # 0 =>
        /\ timers = 1 \/ connection # NoConn
        /\ \/ at = "events" /\ connection \notin ready
           \/ at = "functors" /\ Within(pending, batch)

(* What closes the connection comes after what destroys the old channel.   *)
Forces(seq, c) == {j \in DOMAIN seq : seq[j].op = "forceClose" /\ seq[j].conn = c}
Before(seq, c) ==
    \A i \in DOMAIN seq, j \in Forces(seq, c) : seq[i].op = "resetChannel" => i < j

(* Nobody sets connect_ while a stopInLoop is coming.                      *)
Stopping == userPc = "stop" \/ Queued("stopInLoop") > 0 => ~connect

InStep ==
    /\ channel = "polled" <=> state = "kConnecting"
    /\ Queued("resetChannel") = IF channel = "removed" THEN 1 ELSE 0
    /\ Resetting
    /\ Before(pending, connection)
    /\ Stopping

IInv == /\ FlagsOK /\ WheresOK /\ QueueOK /\ NumbersOK /\ ConnsOK
        /\ Refs /\ SocketsHold
        /\ ~confused => Sound
        /\ ~raced /\ ~confused => InStep
----------------------------------------------------------------------------
(* How many functors of a name wait when one more is queued, and when the  *)
(* one at the head has been taken.                                         *)
Count(f, seq) == Cardinality({i \in DOMAIN seq : seq[i].op = f})

(* Whether one of them is bound to a connection.                           *)
Binds(seq, c) == \E i \in DOMAIN seq : seq[i].conn = c

(* A functor has a name, and a connection just if it is bound to one. *)
LEMMA FunctorType ==
    /\ NoConn \notin Conn
    /\ \A g \in Functors : /\ g.op \in Names /\ g.conn \in Conn \cup {NoConn}
                           /\ g.op \in Plain <=> g.conn = NoConn
                           /\ g.op \notin Plain <=> g.conn \in Conn
    /\ \A op \in Plain : /\ Call(op) \in Functors
                         /\ Call(op).op = op /\ Call(op).conn = NoConn
    /\ \A c \in Conn : /\ CallOf("connectDestroyed", c) \in Functors
                       /\ CallOf("connectDestroyed", c).op = "connectDestroyed"
                       /\ CallOf("connectDestroyed", c).conn = c
                       /\ CallOf("forceClose", c) \in Functors
                       /\ CallOf("forceClose", c).op = "forceClose"
                       /\ CallOf("forceClose", c).conn = c
  BY BoundsAssumption DEF Functors, Names, Plain, Call, CallOf, Conn, NoConn

(* How many of a kind wait is a number, and none is zero. *)
LEMMA CountType ==
    ASSUME NEW seq \in Seq(Functors), NEW f
    PROVE  /\ Count(f, seq) \in Nat
           /\ IsFiniteSet({i \in DOMAIN seq : seq[i].op = f})
           /\ Count(f, seq) > 0 <=> \E i \in DOMAIN seq : seq[i].op = f
  <1> DEFINE S == {i \in DOMAIN seq : seq[i].op = f}
  <1>1. DOMAIN seq = 1 .. Len(seq) /\ Len(seq) \in Nat
    OBVIOUS
  <1>2. IsFiniteSet(DOMAIN seq)
    BY <1>1, FS_Interval
  <1>3. IsFiniteSet(S)
    BY <1>2, FS_Subset
  <1>4. Cardinality(S) \in Nat /\ (Cardinality(S) = 0 <=> S = {})
    BY <1>3, FS_CardinalityType, FS_EmptySet
  <1>5. S = {} <=> ~ \E i \in DOMAIN seq : seq[i].op = f
    OBVIOUS
  <1> HIDE DEF S
  <1>6. Count(f, seq) = Cardinality(S)
    BY DEF Count, S
  <1>7. Count(f, seq) \in Nat /\ (Count(f, seq) > 0 <=> \E i \in DOMAIN seq : seq[i].op = f)
    BY <1>4, <1>5, <1>6
  <1> QED BY <1>3, <1>7 DEF S

(* One more at the end counts one more of its name. *)
LEMMA CountAppend ==
    ASSUME NEW seq \in Seq(Functors), NEW g \in Functors, NEW f
    PROVE  Count(f, Append(seq, g)) = Count(f, seq) + One(f = g.op)
  <1> DEFINE t == Append(seq, g)
             n == Len(seq)
             S == {i \in DOMAIN seq : seq[i].op = f}
             T == {i \in DOMAIN t : t[i].op = f}
  <1>1. /\ n \in Nat /\ DOMAIN seq = 1 .. n /\ DOMAIN t = 1 .. n + 1
        /\ \A i \in 1 .. n : t[i] = seq[i]
        /\ t[n + 1] = g
    OBVIOUS
  <1> HIDE DEF t, n
  <1>2. n + 1 \notin S
    BY <1>1
  <1>3. T = IF f = g.op THEN S \cup {n + 1} ELSE S
    <2>1. \A i \in 1 .. n + 1 : i \in 1 .. n \/ i = n + 1
      BY <1>1
    <2>2. \A i \in 1 .. n : i \in 1 .. n + 1
      BY <1>1
    <2>3. n + 1 \in 1 .. n + 1
      BY <1>1
    <2> QED BY <1>1, <2>1, <2>2, <2>3
  <1>4. IsFiniteSet(S) /\ Cardinality(S) \in Nat
    BY CountType, FS_CardinalityType
  <1> HIDE DEF S, T
  <1>5. Cardinality(S \cup {n + 1}) = Cardinality(S) + 1
    BY <1>2, <1>4, FS_AddElement
  <1>6. Cardinality(T) = Cardinality(S) + One(f = g.op)
    BY <1>3, <1>4, <1>5 DEF One
  <1> QED BY <1>6 DEF Count, S, T, t

(* The head taken counts one less of its name. *)
LEMMA CountTail ==
    ASSUME NEW seq \in Seq(Functors), seq # <<>>, NEW f
    PROVE  Count(f, seq) = Count(f, Tail(seq)) + One(f = Head(seq).op)
  <1> DEFINE t == Tail(seq)
             n == Len(seq)
             S == {i \in DOMAIN t : t[i].op = f}
             U == {i \in 2 .. n : seq[i].op = f}
             T == {i \in DOMAIN seq : seq[i].op = f}
             b == [i \in S |-> i + 1]
  <1>1. /\ n \in Nat /\ n > 0 /\ DOMAIN seq = 1 .. n /\ DOMAIN t = 1 .. n - 1
        /\ \A i \in 1 .. n - 1 : t[i] = seq[i + 1]
        /\ seq[1] = Head(seq)
        /\ t \in Seq(Functors)
    OBVIOUS
  <1> HIDE DEF t, n
  <1>2. b \in Bijection(S, U)
    <2>1. \A i \in 1 .. n - 1 : i + 1 \in 2 .. n
      BY <1>1
    <2>2. \A j \in 2 .. n : j - 1 \in 1 .. n - 1 /\ (j - 1) + 1 = j
      BY <1>1
    <2>3. b \in [S -> U]
      BY <1>1, <2>1
    <2>4. \A i, j \in S : b[i] = b[j] => i = j
      BY <1>1
    <2>5. \A j \in U : \E i \in S : b[i] = j
      BY <1>1, <2>2
    <2> HIDE DEF b
    <2> QED BY <2>3, <2>4, <2>5 DEF Bijection, Injection, Surjection, IsInjective
  <1>3. IsFiniteSet(S)
    BY <1>1, CountType
  <1>4. IsFiniteSet(U) /\ Cardinality(S) = Cardinality(U)
    <2> HIDE DEF b, S, U
    <2> QED BY <1>2, <1>3, FS_Bijection DEF ExistsBijection
  <1>5. 1 \notin U
    OBVIOUS
  <1>6. T = IF f = Head(seq).op THEN U \cup {1} ELSE U
    <2>1. \A i \in 1 .. n : i \in 2 .. n \/ i = 1
      BY <1>1
    <2>2. \A i \in 2 .. n : i \in 1 .. n
      BY <1>1
    <2>3. 1 \in 1 .. n
      BY <1>1
    <2> QED BY <1>1, <2>1, <2>2, <2>3
  <1> HIDE DEF S, T, U
  <1>7. Cardinality(U \cup {1}) = Cardinality(U) + 1 /\ Cardinality(U) \in Nat
    BY <1>4, <1>5, FS_AddElement, FS_CardinalityType
  <1>8. Cardinality(T) = Cardinality(S) + One(f = Head(seq).op)
    BY <1>4, <1>6, <1>7 DEF One
  <1> QED BY <1>8 DEF Count, S, T, t

(* The model counts the functors of the queue in this way. *)
LEMMA QueuedIsCount ==
    \A f : Queued(f) = Count(f, pending) /\ Queued(f)' = Count(f, pending')
  BY DEF Queued, Count

(* What a functor added to seq, or taken from it, makes of it: t.          *)
Added(seq, t, g) ==
    /\ t \in Seq(Functors) /\ Len(t) = Len(seq) + 1
    /\ \A f \in Names : Count(f, t) = Count(f, seq) + One(f = g.op)
    /\ \A n \in Nat : Within(seq, n) => Within(t, n)
    /\ \A c \in Conn : Binds(t, c) <=> Binds(seq, c) \/ g.conn = c
    /\ \A c : Before(seq, c) /\ (g.op = "resetChannel" => Forces(seq, c) = {}) => Before(t, c)

Taken(seq, t, g) ==
    /\ t \in Seq(Functors) /\ Len(t) = Len(seq) - 1
    /\ \A f \in Names : Count(f, seq) = Count(f, t) + One(f = g.op)
    /\ \A n \in Nat : g.op # "resetChannel" /\ Within(seq, n) => Within(t, n - 1)
    /\ \A c \in Conn : Binds(seq, c) <=> Binds(t, c) \/ g.conn = c
    /\ \A c : Before(seq, c) => Before(t, c)

(* queueInLoop adds its functor to the others. *)
LEMMA AppendAdds ==
    ASSUME NEW seq \in Seq(Functors), NEW g \in Functors
    PROVE  Added(seq, Append(seq, g), g)
  <1> DEFINE t == Append(seq, g)
             n == Len(seq)
  <1>1. /\ n \in Nat /\ DOMAIN seq = 1 .. n /\ DOMAIN t = 1 .. n + 1
        /\ \A i \in 1 .. n : t[i] = seq[i]
        /\ t[n + 1] = g
        /\ t \in Seq(Functors) /\ Len(t) = n + 1
    OBVIOUS
  <1>2. \A f \in Names : Count(f, t) = Count(f, seq) + One(f = g.op)
    BY CountAppend
  <1> HIDE DEF t, n
  <1>3. /\ \A i \in 1 .. n + 1 : i \in 1 .. n \/ i = n + 1
        /\ \A i \in 1 .. n : i \in 1 .. n + 1 /\ i < n + 1
        /\ n + 1 \in 1 .. n + 1
    BY <1>1
  <1>4. \A m \in Nat : Within(seq, m) => Within(t, m)
    BY <1>1, <1>3 DEF Within
  <1>5. \A c \in Conn : Binds(t, c) <=> Binds(seq, c) \/ g.conn = c
    BY <1>1, <1>3 DEF Binds
  <1>6. ASSUME NEW c, Before(seq, c), g.op = "resetChannel" => Forces(seq, c) = {},
               NEW i \in 1 .. n + 1, NEW j \in 1 .. n + 1,
               t[i].op = "resetChannel", t[j].op = "forceClose", t[j].conn = c
        PROVE  i < j
    <2>1. CASE j = n + 1
      <3>1. i # n + 1
        BY <1>1, <1>6, <2>1
      <3> QED BY <1>3, <2>1, <3>1
    <2>2. CASE j \in 1 .. n
      <3>1. j \in Forces(seq, c)
        BY <1>1, <1>6, <2>2 DEF Forces
      <3>2. i # n + 1
        BY <1>1, <1>6, <3>1
      <3> QED BY <1>1, <1>3, <1>6, <3>1, <3>2 DEF Before
    <2> QED BY <1>3, <2>1, <2>2
  <1>7. \A c : Before(seq, c) /\ (g.op = "resetChannel" => Forces(seq, c) = {}) => Before(t, c)
    BY <1>1, <1>6 DEF Before, Forces
  <1>8. Added(seq, t, g)
    BY <1>1, <1>2, <1>4, <1>5, <1>7 DEF Added, n
  <1> QED BY <1>8 DEF t

(* The functor that is taken is the first. *)
LEMMA TailTakes ==
    ASSUME NEW seq \in Seq(Functors), seq # <<>>
    PROVE  Taken(seq, Tail(seq), Head(seq)) /\ Head(seq) \in Functors
  <1> DEFINE t == Tail(seq)
             n == Len(seq)
             g == Head(seq)
  <1>1. /\ n \in Nat /\ n > 0 /\ DOMAIN seq = 1 .. n /\ DOMAIN t = 1 .. n - 1
        /\ \A i \in 1 .. n - 1 : t[i] = seq[i + 1]
        /\ seq[1] = g /\ g \in Functors
        /\ t \in Seq(Functors) /\ Len(t) = n - 1
    OBVIOUS
  <1>2. \A f \in Names : Count(f, seq) = Count(f, t) + One(f = g.op)
    BY CountTail
  <1> HIDE DEF t, n, g
  <1>3. /\ \A i \in 1 .. n : i = 1 \/ (i - 1 \in 1 .. n - 1 /\ (i - 1) + 1 = i)
        /\ \A i \in 1 .. n - 1 : i + 1 \in 1 .. n
        /\ 1 \in 1 .. n
    BY <1>1
  <1>4. ASSUME NEW m \in Nat, g.op # "resetChannel", Within(seq, m) PROVE Within(t, m - 1)
    <2>1. PICK i \in 1 .. m : i \in DOMAIN seq /\ seq[i].op = "resetChannel"
      BY <1>4 DEF Within
    <2>2. i # 1
      BY <1>1, <1>4, <2>1
    <2>3. i - 1 \in 1 .. m - 1 /\ i - 1 \in 1 .. n - 1 /\ (i - 1) + 1 = i
      BY <1>1, <2>1, <2>2
    <2>4. t[i - 1] = seq[i]
      BY <1>1, <2>3
    <2> QED BY <1>1, <2>1, <2>3, <2>4 DEF Within
  <1>5. \A c \in Conn : Binds(seq, c) <=> Binds(t, c) \/ g.conn = c
    <2> SUFFICES ASSUME NEW c \in Conn PROVE Binds(seq, c) <=> Binds(t, c) \/ g.conn = c
      OBVIOUS
    <2>1. Binds(t, c) => Binds(seq, c)
      BY <1>1, <1>3 DEF Binds
    <2>2. g.conn = c => Binds(seq, c)
      BY <1>1, <1>3 DEF Binds
    <2>3. ASSUME Binds(seq, c), g.conn # c PROVE Binds(t, c)
      <3>1. PICK i \in 1 .. n : seq[i].conn = c
        BY <1>1, <2>3 DEF Binds
      <3>2. i - 1 \in 1 .. n - 1 /\ (i - 1) + 1 = i
        BY <1>1, <1>3, <2>3, <3>1
      <3>3. t[i - 1] = seq[i]
        BY <1>1, <3>2
      <3> QED BY <1>1, <3>1, <3>2, <3>3 DEF Binds
    <2> QED BY <2>1, <2>2, <2>3
  <1>6. ASSUME NEW c, Before(seq, c), NEW i \in 1 .. n - 1, NEW j \in 1 .. n - 1,
               t[i].op = "resetChannel", t[j].op = "forceClose", t[j].conn = c
        PROVE  i < j
    <2>1. i + 1 \in 1 .. n /\ j + 1 \in 1 .. n
      BY <1>3
    <2>2. j + 1 \in Forces(seq, c)
      BY <1>1, <1>6, <2>1 DEF Forces
    <2>3. i + 1 < j + 1
      BY <1>1, <1>6, <2>1, <2>2 DEF Before
    <2> QED BY <1>1, <2>3
  <1>7. \A c : Before(seq, c) => Before(t, c)
    BY <1>1, <1>6 DEF Before, Forces
  <1>8. Taken(seq, t, g)
    BY <1>1, <1>2, <1>4, <1>5, <1>7 DEF Taken, n
  <1> QED BY <1>1, <1>8 DEF t, g

(* The counts of the queue are numbers, and positive for what waits. *)
LEMMA QueuedType ==
    ASSUME QueueOK
    PROVE  /\ \A f \in Names : Queued(f) \in Nat
           /\ \A f \in Names : Queued(f) > 0 <=> \E i \in DOMAIN pending : pending[i].op = f
  BY CountType, QueuedIsCount DEF QueueOK

(* Who refers to a connection, before a step and after it. *)
LEMMA ReferencedIs ==
    \A c : /\ Referenced(c) <=> c = connection \/ c = held \/ Binds(pending, c)
           /\ Referenced(c)' <=> c = connection' \/ c = held' \/ Binds(pending', c)
  BY DEF Referenced, Binds

(* Sets of connections are finite. *)
LEMMA ConnSets ==
    ASSUME NEW S \in SUBSET Conn
    PROVE  IsFiniteSet(S) /\ Cardinality(S) \in Nat
  <1>1. MaxConns \in Int /\ 1 \in Int
    BY BoundsAssumption
  <1>2. IsFiniteSet(1 .. MaxConns)
    BY <1>1, FS_Interval
  <1> QED BY <1>2, FS_Subset, FS_CardinalityType DEF Conn

(* The objects that nobody refers to any more go, each with its socket. *)
LEMMA LetGoKeeps ==
    ASSUME NEW objects, objects \in [Conn -> Object \cup {NoObject}],
           NEW n \in Nat, LetGo(objects, n),
           \A c \in Conn : Referenced(c)' => objects[c] # NoObject,
           NEW k \in Nat, k = One(state' = "kConnecting"),
           NEW m \in Nat, m = Cardinality({c \in Conn : objects[c] # NoObject}),
           n >= k + m, ~confused' => n = k + m
    PROVE  /\ obj' \in [Conn -> Object \cup {NoObject}]
           /\ Refs'
           /\ \A c \in Conn : obj'[c] # NoObject => obj'[c] = objects[c]
           /\ \A c \in Conn : Referenced(c)' => obj'[c] = objects[c]
           /\ SocketsHold'
  <1> DEFINE A == {c \in Conn : objects[c] # NoObject}
             G == {c \in Conn : objects[c] # NoObject /\ obj'[c] = NoObject}
             B == {c \in Conn : obj'[c] # NoObject}
  <1>1. /\ obj' = [c \in Conn |-> IF Referenced(c)' THEN objects[c] ELSE NoObject]
        /\ sockets' = n - Cardinality(G)
    BY DEF LetGo
  <1>2. obj' \in [Conn -> Object \cup {NoObject}]
    BY <1>1
  <1>3. \A c \in Conn : obj'[c] = IF Referenced(c)' THEN objects[c] ELSE NoObject
    BY <1>1
  <1>4. Refs'
    BY <1>3 DEF Refs
  <1>5. G \subseteq A /\ B = A \ G /\ A \subseteq Conn /\ G \subseteq Conn /\ B \subseteq Conn
    BY <1>3
  <1>b. Alive' = B
    BY DEF Alive
  <1>c. m = Cardinality(A)
    OBVIOUS
  <1> HIDE DEF A, G, B
  <1>6. IsFiniteSet(A) /\ Cardinality(G) \in Nat /\ Cardinality(B) \in Nat
    BY <1>5, ConnSets
  <1>7. Cardinality(A \ G) = Cardinality(A) - Cardinality(A \cap G) /\ A \cap G = G
    BY <1>5, <1>6, FS_Difference
  <1>8. Cardinality(B) = m - Cardinality(G)
    BY <1>5, <1>7, <1>c
  <1>9. Owned' = k + Cardinality(B)
    BY <1>b DEF Owned
  <1>10. sockets' \in Nat /\ sockets' >= k + Cardinality(B) /\ (~confused' => sockets' = k + Cardinality(B))
    BY <1>1, <1>6, <1>8
  <1>11. SocketsHold'
    BY <1>9, <1>10 DEF SocketsHold
  <1> QED BY <1>2, <1>3, <1>4, <1>11

(* While no reference changes hands, the objects are what they were. *)
LEMMA ObjectsStay ==
    ASSUME ConnsOK, Refs, UNCHANGED <<connection, held, obj>>,
           \A c \in Conn : Binds(pending', c) <=> Binds(pending, c)
    PROVE  /\ Refs' /\ Alive' = Alive
           /\ \A c \in Conn : obj'[c] = obj[c]
  BY ReferencedIs DEF Refs, Alive

(* ... and so are the sockets, but for the attempt's. *)
LEMMA SocketsStay ==
    ASSUME SocketsHold, Alive' = Alive, ~confused' => ~confused,
           sockets' \in Int,
           sockets' >= (sockets + One(state' = "kConnecting")) - One(state = "kConnecting"),
           ~confused => sockets' = (sockets + One(state' = "kConnecting")) - One(state = "kConnecting")
    PROVE  SocketsHold'
  <1>1. Alive \subseteq Conn
    BY DEF Alive
  <1>2. Cardinality(Alive) \in Nat
    BY <1>1, ConnSets
  <1>3. One(state = "kConnecting") \in Nat /\ One(state' = "kConnecting") \in Nat
    BY DEF One
  <1>4. Owned' = One(state' = "kConnecting") + Cardinality(Alive)
    BY DEF Owned
  <1>5. /\ sockets \in Nat /\ sockets >= One(state = "kConnecting") + Cardinality(Alive)
        /\ ~confused => sockets = One(state = "kConnecting") + Cardinality(Alive)
    BY DEF SocketsHold, Owned
  <1>6. /\ sockets' \in Nat /\ sockets' >= One(state' = "kConnecting") + Cardinality(Alive)
        /\ ~confused' => sockets' = One(state' = "kConnecting") + Cardinality(Alive)
    BY <1>2, <1>3, <1>5
  <1> QED BY <1>4, <1>6 DEF SocketsHold

(* What else is under way when an attempt, a timer, a start or a restart is: nothing. *)
LEMMA Alone ==
    ASSUME IInv, ~confused
    PROVE  /\ state = "kConnecting" => /\ connection = NoConn /\ ~restarting /\ userPc # "start"
                                       /\ timers = 0 /\ Queued("startInLoop") = 0
           /\ timers > 0 => /\ state # "kConnecting" /\ connection = NoConn /\ ~restarting
                            /\ userPc # "start" /\ timers = 1 /\ Queued("startInLoop") = 0
           /\ Queued("startInLoop") > 0 => /\ state # "kConnecting" /\ connection = NoConn
                                           /\ ~restarting /\ userPc # "start"
                                           /\ timers = 0 /\ Queued("startInLoop") = 1
           /\ restarting => /\ state # "kConnecting" /\ connection = NoConn
                            /\ userPc # "start" /\ timers = 0 /\ Queued("startInLoop") = 0
           /\ connection # NoConn => /\ state # "kConnecting" /\ ~restarting
                                     /\ userPc # "start" /\ timers = 0
                                     /\ Queued("startInLoop") = 0
           /\ \/ UnderWay = 0 /\ ~wanted
              \/ UnderWay = 1
  <1>0. timers \in Nat /\ Queued("startInLoop") \in Nat
    BY QueuedType DEF IInv, NumbersOK, Names, Plain
  <1>1. UnderWay <= 1 /\ (wanted => UnderWay = 1)
    BY DEF IInv, Sound, OneUnderWay
  <1>2. UnderWay = 0 \/ UnderWay = 1
    BY <1>0, <1>1 DEF UnderWay
  <1>3. \/ UnderWay = 0 /\ ~wanted
        \/ UnderWay = 1
    BY <1>1, <1>2
  <1>4. state = "kConnecting" => /\ connection = NoConn /\ ~restarting /\ userPc # "start"
                                 /\ timers = 0 /\ Queued("startInLoop") = 0
    BY <1>0, <1>1 DEF UnderWay
  <1>5. timers > 0 => /\ state # "kConnecting" /\ connection = NoConn /\ ~restarting
                      /\ userPc # "start" /\ timers = 1 /\ Queued("startInLoop") = 0
    BY <1>0, <1>1 DEF UnderWay
  <1>6. Queued("startInLoop") > 0 => /\ state # "kConnecting" /\ connection = NoConn
                                     /\ ~restarting /\ userPc # "start"
                                     /\ timers = 0 /\ Queued("startInLoop") = 1
    BY <1>0, <1>1 DEF UnderWay
  <1>7. restarting => /\ state # "kConnecting" /\ connection = NoConn
                      /\ userPc # "start" /\ timers = 0 /\ Queued("startInLoop") = 0
    BY <1>0, <1>1 DEF UnderWay
  <1>8. connection # NoConn => /\ state # "kConnecting" /\ ~restarting /\ userPc # "start"
                               /\ timers = 0 /\ Queued("startInLoop") = 0
    BY <1>0, <1>1 DEF UnderWay
  <1> QED BY <1>3, <1>4, <1>5, <1>6, <1>7, <1>8

(* The queue as it stays, as a functor is added, and as the first is taken. *)
LEMMA QueueStays ==
    ASSUME QueueOK, pending' = pending
    PROVE  /\ \A f : Queued(f)' = Queued(f)
           /\ \A f \in Names : Queued(f) \in Nat
           /\ \A c \in Conn : Binds(pending', c) <=> Binds(pending, c)
  <1>1. \A f : Queued(f)' = Queued(f)
    BY DEF Queued
  <1> QED BY <1>1, QueuedType

LEMMA QueueAdds ==
    ASSUME QueueOK, NEW g \in Functors, pending' = Append(pending, g)
    PROVE  /\ Added(pending, pending', g)
           /\ \A f \in Names : /\ Queued(f)' = Queued(f) + One(f = g.op)
                               /\ Queued(f) \in Nat
           /\ batch' = batch => QueueOK'
  <1>1. pending \in Seq(Functors) /\ Len(pending) \in Nat /\ batch \in 0 .. Len(pending)
    BY DEF QueueOK
  <1>2. Added(pending, pending', g)
    BY <1>1, AppendAdds
  <1>3. \A f \in Names : Queued(f)' = Queued(f) + One(f = g.op)
    BY <1>2, QueuedIsCount DEF Added
  <1>4. batch' = batch => QueueOK'
    BY <1>1, <1>2 DEF Added, QueueOK
  <1> QED BY <1>2, <1>3, <1>4, QueuedType

LEMMA QueueTakes ==
    ASSUME QueueOK, batch > 0, pending' = Tail(pending), batch' = batch - 1
    PROVE  /\ pending # <<>> /\ Head(pending) \in Functors
           /\ Taken(pending, pending', Head(pending))
           /\ \A f \in Names : /\ Queued(f) = Queued(f)' + One(f = Head(pending).op)
                               /\ Queued(f) \in Nat /\ Queued(f)' \in Nat
           /\ QueueOK'
  <1>1. /\ pending \in Seq(Functors) /\ Len(pending) \in Nat /\ batch \in 0 .. Len(pending)
        /\ pending # <<>>
    <2>1. Len(<<>>) = 0
      OBVIOUS
    <2> QED BY <2>1 DEF QueueOK
  <1>2. Taken(pending, pending', Head(pending)) /\ Head(pending) \in Functors
    BY <1>1, TailTakes
  <1>3. \A f \in Names : Queued(f) = Queued(f)' + One(f = Head(pending).op)
    BY <1>2, QueuedIsCount DEF Taken
  <1>4. QueueOK'
    BY <1>1, <1>2 DEF Taken, QueueOK
  <1>5. \A f \in Names : Queued(f)' \in Nat
    BY <1>4, CountType, QueuedIsCount DEF QueueOK
  <1> QED BY <1>1, <1>2, <1>3, <1>4, <1>5, QueuedType

(* Nothing forces a connection to close when there is none. *)
LEMMA NoForces ==
    ASSUME NEW seq \in Seq(Functors)
    PROVE  Forces(seq, NoConn) = {}
  <1>1. \A i \in DOMAIN seq : seq[i] \in Functors
    OBVIOUS
  <1>2. \A g \in Functors : g.op = "forceClose" => g.conn # NoConn
    BY FunctorType DEF Plain
  <1> QED BY <1>1, <1>2 DEF Forces

(* startInLoop, for a connector that finds nothing under way unless it is   *)
(* confused: an attempt, a timer, or nothing any more.                      *)
LEMMA StartInLoopKeeps ==
    ASSUME FlagsOK, WheresOK, SocketsHold, NEW flag \in BOOLEAN, NEW left \in Nat,
           NEW s \in {"kDisconnected", "kConnecting", "kConnected"},
           s = "kConnecting" => state = "kConnecting",
           ~confused => state # "kConnecting",
           StartInLoop(flag, s, left), Alive' = Alive, confused' = confused
    PROVE  /\ SocketsHold'
           /\ state' \in {"kDisconnected", "kConnecting", "kConnected"}
           /\ channel' \in {"none", "polled", "removed"}
           /\ timers' \in Nat /\ wanted' \in BOOLEAN /\ (wanted' => wanted)
           /\ ~confused => \/ flag /\ timers' + One(state' = "kConnecting") = left + 1
                           \/ /\ timers' = left /\ state' # "kConnecting"
                              /\ ~flag \/ ~wanted'
           /\ channel = "none" /\ ~confused =>
                 /\ channel' # "removed"
                 /\ channel' = "polled" <=> state' = "kConnecting"
  <1>0. sockets \in Nat
    BY DEF SocketsHold
  <1>1. CASE flag /\ state' = "kConnecting" /\ channel' = "polled" /\ sockets' = sockets + 1
             /\ timers' = left /\ wanted' = wanted
    <2>1. SocketsHold'
      BY <1>0, <1>1, SocketsStay DEF One
    <2> QED BY <1>1, <2>1 DEF FlagsOK, One
  <1>2. CASE flag /\ state' = "kDisconnected" /\ timers' = left + 1
             /\ UNCHANGED <<channel, sockets, wanted>>
    <2>1. SocketsHold'
      BY <1>0, <1>2, SocketsStay DEF One
    <2> QED BY <1>2, <2>1 DEF FlagsOK, WheresOK, One
  <1>3. CASE /\ state' = s /\ timers' = left /\ UNCHANGED <<channel, sockets>>
             /\ wanted' = FALSE \/ (wanted' = wanted /\ ~flag)
    <2>1. SocketsHold'
      BY <1>0, <1>3, SocketsStay DEF One
    <2>2. wanted' \in BOOLEAN /\ (wanted' => wanted) /\ (~flag \/ ~wanted')
      <3>1. CASE wanted' = FALSE
        BY <3>1
      <3>2. CASE wanted' = wanted /\ ~flag
        BY <3>2 DEF FlagsOK
      <3> QED BY <1>3, <3>1, <3>2
    <2>3. /\ state' \in {"kDisconnected", "kConnecting", "kConnected"}
          /\ channel' \in {"none", "polled", "removed"}
          /\ timers' \in Nat /\ timers' = left
      BY <1>3 DEF WheresOK
    <2>4. ~confused => state' # "kConnecting"
      BY <1>3
    <2>5. channel = "none" => channel' # "removed" /\ channel' # "polled"
      BY <1>3
    <2> QED BY <2>1, <2>2, <2>3, <2>4, <2>5
  <1> QED BY <1>1, <1>2, <1>3 DEF StartInLoop
----------------------------------------------------------------------------
(* connect() comes only when nothing is under way. *)
LEMMA UserConnectsKeeps == IInv /\ UserConnects => IInv'
  <1> SUFFICES ASSUME IInv, UserConnects PROVE IInv'
    OBVIOUS
  <1>0. /\ userPc = "idle" /\ userPc' = "start"
        /\ state # "kConnecting" /\ timers = 0 /\ connection = NoConn /\ ~restarting
        /\ clientConnect' = TRUE /\ connect' = TRUE /\ wanted' = TRUE /\ stopped' = FALSE
        /\ UNCHANGED <<state, channel, timers, sockets, retry, connection, obj, held, at,
                       restarting, ready, batch, pending, raced, confused>>
        /\ calls' \in Calls
    <2>1. calls' \in Calls
      BY BoundsAssumption DEF UserConnects, IInv, NumbersOK, Calls
    <2> QED BY <2>1 DEF UserConnects, AtRest, loopVars
  <1>q. /\ \A f : Queued(f)' = Queued(f)
        /\ \A c \in Conn : Binds(pending', c) <=> Binds(pending, c)
    BY <1>0, QueueStays DEF IInv
  <1>e. Queued("startInLoop") = 0 /\ Queued("stopInLoop") = 0 /\ Queued("resetChannel") = 0
    <2>1. ~ \E i \in DOMAIN pending :
               pending[i].op \in {"startInLoop", "stopInLoop", "resetChannel"}
      BY DEF UserConnects, AtRest
    <2> QED BY <2>1, QueuedType DEF IInv, Names, Plain
  <1>1. FlagsOK' /\ WheresOK' /\ QueueOK' /\ NumbersOK' /\ ConnsOK'
    <2>1. FlagsOK'
      BY <1>0 DEF IInv, FlagsOK
    <2> QED BY <1>0, <2>1 DEF IInv, WheresOK, QueueOK, NumbersOK, ConnsOK
  <1>3. Refs' /\ SocketsHold'
    <2>1. Refs' /\ Alive' = Alive
      BY <1>0, <1>q, ObjectsStay DEF IInv
    <2> QED BY <1>0, <2>1 DEF IInv, SocketsHold, Owned
  <1>4. ASSUME ~confused' PROVE Sound'
    <2>1. OneUnderWay'
      BY <1>0, <1>q, <1>e DEF OneUnderWay, UnderWay
    <2> QED BY <1>0, <1>4, <2>1 DEF IInv, Sound
  <1>5. ASSUME ~raced', ~confused' PROVE InStep'
    <2>0. InStep
      BY <1>0, <1>5 DEF IInv
    <2>1. Stopping'
      BY <1>0, <1>q, <1>e DEF Stopping
    <2>2. channel' # "removed" /\ Resetting'
      BY <1>0, <1>e, <2>0 DEF InStep, Resetting
    <2> QED BY <1>0, <1>q, <2>0, <2>1, <2>2 DEF InStep
  <1> QED BY <1>1, <1>3, <1>4, <1>5 DEF IInv

(* stop() clears connect_ before it queues its functor. *)
LEMMA UserStopsKeeps == IInv /\ UserStops => IInv'
  <1> SUFFICES ASSUME IInv, UserStops PROVE IInv'
    OBVIOUS
  <1>0. /\ userPc = "idle" /\ userPc' = "stop"
        /\ clientConnect' = FALSE /\ connect' = FALSE /\ wanted' = FALSE /\ stopped' = TRUE
        /\ UNCHANGED <<state, channel, timers, sockets, retry, connection, obj, held, at,
                       restarting, ready, batch, pending, raced, confused>>
        /\ calls' \in Calls
    <2>1. calls' \in Calls
      BY BoundsAssumption DEF UserStops, IInv, NumbersOK, Calls
    <2> QED BY <2>1 DEF UserStops, ClearConnect, loopVars
  <1>q. /\ \A f : Queued(f)' = Queued(f)
        /\ \A c \in Conn : Binds(pending', c) <=> Binds(pending, c)
    BY <1>0, QueueStays DEF IInv
  <1>1. FlagsOK' /\ WheresOK' /\ QueueOK' /\ NumbersOK' /\ ConnsOK'
    <2>1. FlagsOK'
      BY <1>0 DEF IInv, FlagsOK
    <2> QED BY <1>0, <2>1 DEF IInv, WheresOK, QueueOK, NumbersOK, ConnsOK
  <1>3. Refs' /\ SocketsHold'
    <2>1. Refs' /\ Alive' = Alive
      BY <1>0, <1>q, ObjectsStay DEF IInv
    <2> QED BY <1>0, <2>1 DEF IInv, SocketsHold, Owned
  <1>u. UnderWay' = UnderWay
    BY <1>0, <1>q DEF UnderWay
  <1>4. ASSUME ~confused' PROVE Sound'
    BY <1>0, <1>4, <1>u DEF IInv, Sound, OneUnderWay
  <1>5. ASSUME ~raced', ~confused' PROVE InStep'
    BY <1>0, <1>q, <1>u, <1>5 DEF IInv, InStep, Resetting, Stopping
  <1> QED BY <1>1, <1>3, <1>4, <1>5 DEF IInv

(* disconnect() gives up later connections. *)
LEMMA UserDisconnectsKeeps == IInv /\ UserDisconnects => IInv'
  <1> SUFFICES ASSUME IInv, UserDisconnects PROVE IInv'
    OBVIOUS
  <1>0. /\ userPc = "idle" /\ userPc' = "disconnect" /\ clientConnect' = FALSE /\ wanted' = FALSE
        /\ UNCHANGED <<connect, state, channel, timers, sockets, retry, connection, obj, held,
                       calls, at, restarting, ready, batch, pending, stopped, raced, confused>>
    BY DEF UserDisconnects, connectorVars, loopVars
  <1>q. /\ \A f : Queued(f)' = Queued(f)
        /\ \A c \in Conn : Binds(pending', c) <=> Binds(pending, c)
    BY <1>0, QueueStays DEF IInv
  <1>1. FlagsOK' /\ WheresOK' /\ QueueOK' /\ NumbersOK' /\ ConnsOK'
    <2>1. FlagsOK'
      BY <1>0 DEF IInv, FlagsOK
    <2> QED BY <1>0, <2>1 DEF IInv, WheresOK, QueueOK, NumbersOK, ConnsOK
  <1>3. Refs' /\ SocketsHold'
    <2>1. Refs' /\ Alive' = Alive
      BY <1>0, <1>q, ObjectsStay DEF IInv
    <2> QED BY <1>0, <2>1 DEF IInv, SocketsHold, Owned
  <1>u. UnderWay' = UnderWay
    BY <1>0, <1>q DEF UnderWay
  <1>4. ASSUME ~confused' PROVE Sound'
    BY <1>0, <1>4, <1>u DEF IInv, Sound, OneUnderWay
  <1>5. ASSUME ~raced', ~confused' PROVE InStep'
    BY <1>0, <1>q, <1>u, <1>5 DEF IInv, InStep, Resetting, Stopping
  <1> QED BY <1>1, <1>3, <1>4, <1>5 DEF IInv

(* The connection's state_ is set: by the shutdown() of disconnect(), or by *)
(* forceClose(), which may find it closed by then.                          *)
LEMMA StateSet ==
    ASSUME IInv, NEW c \in Conn, obj[c] # NoObject,
           obj' = [obj EXCEPT ![c].state = "kDisconnecting"]
    PROVE  /\ obj' \in [Conn -> Object \cup {NoObject}]
           /\ \A d \in Conn : /\ obj'[d] # NoObject <=> obj[d] # NoObject
                              /\ obj'[d].closes = obj[d].closes
           /\ Alive' = Alive
  <1>1. obj \in [Conn -> Object \cup {NoObject}]
    BY DEF IInv, ConnsOK
  <1>2. obj[c] \in Object
    BY <1>1
  <1>3. \A d \in Conn : obj'[d] = IF d = c THEN [obj[c] EXCEPT !.state = "kDisconnecting"] ELSE obj[d]
    BY <1>1
  <1>4. /\ [obj[c] EXCEPT !.state = "kDisconnecting"] \in Object
        /\ [obj[c] EXCEPT !.state = "kDisconnecting"].closes = obj[c].closes
        /\ [obj[c] EXCEPT !.state = "kDisconnecting"] # NoObject
    <2>1. [obj[c] EXCEPT !.state = "kDisconnecting"].state = "kDisconnecting"
      BY <1>2 DEF Object
    <2> QED BY <1>2, <2>1 DEF Object, NoObject
  <1>5. obj' \in [Conn -> Object \cup {NoObject}]
    BY <1>1, <1>4
  <1>6. \A d \in Conn : /\ obj'[d] # NoObject <=> obj[d] # NoObject
                        /\ obj'[d].closes = obj[d].closes
    BY <1>3, <1>4
  <1> QED BY <1>5, <1>6 DEF Alive

LEMMA UserShutsDownKeeps == IInv /\ UserShutsDown => IInv'
  <1> SUFFICES ASSUME IInv, UserShutsDown PROVE IInv'
    OBVIOUS
  <1>0. /\ userPc = "disconnect" /\ userPc' = "idle"
        /\ IF connection # NoConn /\ obj[connection].state = "kConnected"
           THEN obj' = [obj EXCEPT ![connection].state = "kDisconnecting"]
           ELSE obj' = obj
        /\ UNCHANGED <<connect, state, channel, timers, sockets, retry, clientConnect,
                       connection, held, calls, at, restarting, ready, batch, pending,
                       wanted, stopped, raced, confused>>
    BY DEF UserShutsDown, connectorVars, loopVars, histVars
  <1>q. /\ \A f : Queued(f)' = Queued(f)
        /\ \A c \in Conn : Binds(pending', c) <=> Binds(pending, c)
    BY <1>0, QueueStays DEF IInv
  <1>o. /\ obj' \in [Conn -> Object \cup {NoObject}]
        /\ \A d \in Conn : /\ obj'[d] # NoObject <=> obj[d] # NoObject
                           /\ obj'[d].closes = obj[d].closes
        /\ Alive' = Alive
    <2>1. connection # NoConn => connection \in Conn /\ obj[connection] # NoObject
      BY ReferencedIs DEF IInv, ConnsOK, Refs
    <2>2. CASE obj' = obj
      BY <2>2 DEF IInv, ConnsOK, Alive
    <2>3. CASE connection # NoConn /\ obj' = [obj EXCEPT ![connection].state = "kDisconnecting"]
      BY <2>1, <2>3, StateSet
    <2> QED BY <1>0, <2>2, <2>3
  <1>1. FlagsOK' /\ WheresOK' /\ QueueOK' /\ NumbersOK' /\ ConnsOK'
    BY <1>0, <1>o DEF IInv, FlagsOK, WheresOK, QueueOK, NumbersOK, ConnsOK
  <1>3. Refs' /\ SocketsHold'
    BY <1>0, <1>o, <1>q, ReferencedIs DEF IInv, SocketsHold, Owned, Refs
  <1>u. UnderWay' = UnderWay
    BY <1>0, <1>q DEF UnderWay
  <1>4. ASSUME ~confused' PROVE Sound'
    BY <1>0, <1>4, <1>o, <1>u DEF IInv, Sound, OneUnderWay
  <1>5. ASSUME ~raced', ~confused' PROVE InStep'
    BY <1>0, <1>q, <1>u, <1>5 DEF IInv, InStep, Resetting, Stopping
  <1> QED BY <1>1, <1>3, <1>4, <1>5 DEF IInv

LEMMA UserForceSetsKeeps == IInv /\ UserForceSets => IInv'
  <1> SUFFICES ASSUME IInv, UserForceSets PROVE IInv'
    OBVIOUS
  <1>0. /\ userPc = "set" /\ userPc' = "queue"
        /\ obj' = [obj EXCEPT ![held].state = "kDisconnecting"]
        /\ UNCHANGED <<connect, state, channel, timers, sockets, retry, clientConnect,
                       connection, held, calls, at, restarting, ready, batch, pending,
                       wanted, stopped, raced, confused>>
    BY DEF UserForceSets, connectorVars, loopVars, histVars
  <1>q. /\ \A f : Queued(f)' = Queued(f)
        /\ \A c \in Conn : Binds(pending', c) <=> Binds(pending, c)
    BY <1>0, QueueStays DEF IInv
  <1>o. /\ obj' \in [Conn -> Object \cup {NoObject}]
        /\ \A d \in Conn : /\ obj'[d] # NoObject <=> obj[d] # NoObject
                           /\ obj'[d].closes = obj[d].closes
        /\ Alive' = Alive
    <2>1. held \in Conn /\ obj[held] # NoObject
      BY <1>0, ReferencedIs DEF IInv, ConnsOK, Refs
    <2> QED BY <1>0, <2>1, StateSet
  <1>1. FlagsOK' /\ WheresOK' /\ QueueOK' /\ NumbersOK' /\ ConnsOK'
    BY <1>0, <1>o DEF IInv, FlagsOK, WheresOK, QueueOK, NumbersOK, ConnsOK
  <1>3. Refs' /\ SocketsHold'
    BY <1>0, <1>o, <1>q, ReferencedIs DEF IInv, SocketsHold, Owned, Refs
  <1>u. UnderWay' = UnderWay
    BY <1>0, <1>q DEF UnderWay
  <1>4. ASSUME ~confused' PROVE Sound'
    BY <1>0, <1>4, <1>o, <1>u DEF IInv, Sound, OneUnderWay
  <1>5. ASSUME ~raced', ~confused' PROVE InStep'
    BY <1>0, <1>q, <1>u, <1>5 DEF IInv, InStep, Resetting, Stopping
  <1> QED BY <1>1, <1>3, <1>4, <1>5 DEF IInv

(* forceClose() has found the connection open, and keeps it. *)
LEMMA UserForcesKeeps == IInv /\ UserForces => IInv'
  <1> SUFFICES ASSUME IInv, UserForces PROVE IInv'
    OBVIOUS
  <1>0. /\ userPc = "idle" /\ userPc' = "set" /\ connection # NoConn /\ held' = connection
        /\ UNCHANGED <<connect, state, channel, timers, sockets, retry, clientConnect,
                       connection, obj, at, restarting, ready, batch, pending,
                       wanted, stopped, raced, confused>>
        /\ calls' \in Calls
    <2>1. calls' \in Calls
      BY BoundsAssumption DEF UserForces, IInv, NumbersOK, Calls
    <2> QED BY <2>1 DEF UserForces, connectorVars, clientVars, loopVars, histVars
  <1>q. /\ \A f : Queued(f)' = Queued(f)
        /\ \A c \in Conn : Binds(pending', c) <=> Binds(pending, c)
    BY <1>0, QueueStays DEF IInv
  <1>1. FlagsOK' /\ WheresOK' /\ QueueOK' /\ NumbersOK' /\ ConnsOK'
    <2>1. FlagsOK'
      BY <1>0 DEF IInv, FlagsOK
    <2> QED BY <1>0, <2>1 DEF IInv, WheresOK, QueueOK, NumbersOK, ConnsOK
  <1>3. Refs' /\ SocketsHold'
    <2>1. \A c \in Conn : Referenced(c)' <=> Referenced(c)
      <3>1. \A c \in Conn : c # held
        BY <1>0 DEF IInv, ConnsOK
      <3> QED BY <1>0, <1>q, <3>1, ReferencedIs
    <2>2. Refs'
      BY <1>0, <2>1 DEF IInv, Refs
    <2> QED BY <1>0, <2>2 DEF IInv, SocketsHold, Owned, Alive
  <1>u. UnderWay' = UnderWay
    BY <1>0, <1>q DEF UnderWay
  <1>4. ASSUME ~confused' PROVE Sound'
    BY <1>0, <1>4, <1>u DEF IInv, Sound, OneUnderWay
  <1>5. ASSUME ~raced', ~confused' PROVE InStep'
    BY <1>0, <1>q, <1>u, <1>5 DEF IInv, InStep, Resetting, Stopping
  <1> QED BY <1>1, <1>3, <1>4, <1>5 DEF IInv

(* The functor of connect() or of stop() is queued. *)
LEMMA UserQueuesKeeps == IInv /\ UserQueues => IInv'
  <1> SUFFICES ASSUME IInv, UserQueues PROVE IInv'
    OBVIOUS
  <1> DEFINE op == IF userPc = "start" THEN "startInLoop" ELSE "stopInLoop"
             g  == Call(op)
  <1>0. /\ userPc \in {"start", "stop"} /\ userPc' = "idle"
        /\ pending' = Append(pending, g)
        /\ UNCHANGED <<connect, state, channel, timers, sockets, retry, clientConnect,
                       connection, obj, held, calls, at, restarting, ready, batch,
                       wanted, stopped, raced, confused>>
    BY DEF UserQueues, connectorVars, clientVars, histVars
  <1>g. op \in Plain /\ g \in Functors /\ g.op = op /\ g.conn = NoConn /\ NoConn \notin Conn
    BY FunctorType DEF Plain
  <1>d. op = IF userPc = "start" THEN "startInLoop" ELSE "stopInLoop"
    OBVIOUS
  <1> HIDE DEF g, op
  <1>a. /\ Added(pending, pending', g) /\ QueueOK'
        /\ \A f \in Names : Queued(f)' = Queued(f) + One(f = op) /\ Queued(f) \in Nat
    BY <1>0, <1>g, QueueAdds DEF IInv
  <1>q. /\ Queued("startInLoop")' = Queued("startInLoop") + One(userPc = "start")
        /\ Queued("stopInLoop")' = Queued("stopInLoop") + One(userPc = "stop")
        /\ Queued("resetChannel")' = Queued("resetChannel")
        /\ Queued("startInLoop") \in Nat /\ Queued("stopInLoop") \in Nat
        /\ Queued("resetChannel") \in Nat
    BY <1>0, <1>a, <1>d DEF Names, Plain, One
  <1>1. FlagsOK' /\ WheresOK' /\ NumbersOK' /\ ConnsOK'
    <2>1. FlagsOK'
      BY <1>0 DEF IInv, FlagsOK
    <2> QED BY <1>0, <2>1 DEF IInv, WheresOK, NumbersOK, ConnsOK
  <1>3. Refs' /\ SocketsHold'
    <2>1. Refs' /\ Alive' = Alive
      BY <1>0, <1>a, <1>g, ObjectsStay DEF IInv, Added
    <2> QED BY <1>0, <2>1 DEF IInv, SocketsHold, Owned
  <1>u. UnderWay' = UnderWay
    <2>1. timers \in Nat
      BY DEF IInv, NumbersOK
    <2> QED BY <1>0, <1>q, <2>1 DEF UnderWay, One
  <1>4. ASSUME ~confused' PROVE Sound'
    BY <1>0, <1>4, <1>u DEF IInv, Sound, OneUnderWay
  <1>5. ASSUME ~raced', ~confused' PROVE InStep'
    <2>0. InStep
      BY <1>0, <1>5 DEF IInv
    <2>1. Stopping'
      BY <1>0, <1>q, <2>0 DEF InStep, Stopping, One
    <2>2. Resetting'
      <3>1. batch \in Nat
        BY DEF IInv, QueueOK
      <3> QED BY <1>0, <1>a, <1>u, <2>0, <3>1 DEF InStep, Resetting, Added
    <2>3. Before(pending', connection')
      <3>1. g.op # "resetChannel"
        BY <1>d, <1>g
      <3> QED BY <1>0, <1>a, <2>0, <3>1 DEF InStep, Added
    <2> QED BY <1>0, <1>q, <2>0, <2>1, <2>2, <2>3 DEF InStep
  <1> QED BY <1>1, <1>a, <1>3, <1>4, <1>5 DEF IInv

(* forceCloseInLoop is queued, and has the reference now. *)
LEMMA UserForceQueuesKeeps == IInv /\ UserForceQueues => IInv'
  <1> SUFFICES ASSUME IInv, UserForceQueues PROVE IInv'
    OBVIOUS
  <1> DEFINE g == CallOf("forceClose", held)
  <1>0. /\ userPc = "queue" /\ userPc' = "idle" /\ held' = NoConn
        /\ pending' = Append(pending, g)
        /\ UNCHANGED <<connect, state, channel, timers, sockets, retry, clientConnect,
                       connection, obj, calls, at, restarting, ready, batch,
                       wanted, stopped, raced, confused>>
    BY DEF UserForceQueues, connectorVars, clientVars, histVars
  <1>h. held \in Conn /\ NoConn \notin Conn
    BY <1>0, FunctorType DEF IInv, ConnsOK
  <1>g. g \in Functors /\ g.op = "forceClose" /\ g.conn = held
    BY <1>h, FunctorType
  <1> HIDE DEF g
  <1>a. /\ Added(pending, pending', g) /\ QueueOK'
        /\ \A f \in Names : Queued(f)' = Queued(f) + One(f = "forceClose") /\ Queued(f) \in Nat
    BY <1>0, <1>g, QueueAdds DEF IInv
  <1>q. /\ Queued("startInLoop")' = Queued("startInLoop")
        /\ Queued("stopInLoop")' = Queued("stopInLoop")
        /\ Queued("resetChannel")' = Queued("resetChannel")
    BY <1>a DEF Names, Plain, One
  <1>1. FlagsOK' /\ WheresOK' /\ NumbersOK' /\ ConnsOK'
    <2>1. FlagsOK'
      BY <1>0 DEF IInv, FlagsOK
    <2> QED BY <1>0, <1>h, <2>1 DEF IInv, WheresOK, NumbersOK, ConnsOK
  <1>3. Refs' /\ SocketsHold'
    <2>1. \A c \in Conn : Referenced(c)' <=> Referenced(c)
      <3>1. \A c \in Conn : Binds(pending', c) <=> Binds(pending, c) \/ held = c
        BY <1>a, <1>g DEF Added
      <3> QED BY <1>0, <1>h, <3>1, ReferencedIs
    <2>2. Refs'
      BY <1>0, <2>1 DEF IInv, Refs
    <2> QED BY <1>0, <2>2 DEF IInv, SocketsHold, Owned, Alive
  <1>u. UnderWay' = UnderWay
    BY <1>0, <1>q DEF UnderWay
  <1>4. ASSUME ~confused' PROVE Sound'
    BY <1>0, <1>4, <1>u DEF IInv, Sound, OneUnderWay
  <1>5. ASSUME ~raced', ~confused' PROVE InStep'
    <2>0. InStep
      BY <1>0, <1>5 DEF IInv
    <2>1. Stopping'
      BY <1>0, <1>q, <2>0 DEF InStep, Stopping
    <2>2. Resetting'
      <3>1. batch \in Nat
        BY DEF IInv, QueueOK
      <3> QED BY <1>0, <1>a, <1>u, <2>0, <3>1 DEF InStep, Resetting, Added
    <2>3. Before(pending', connection')
      BY <1>0, <1>a, <1>g, <2>0 DEF InStep, Added
    <2> QED BY <1>0, <1>q, <2>0, <2>1, <2>2, <2>3 DEF InStep
  <1> QED BY <1>1, <1>a, <1>3, <1>4, <1>5 DEF IInv
----------------------------------------------------------------------------
(* Poll reports channels that are in the poller. *)
LEMMA PollReturnsKeeps == IInv /\ PollReturns => IInv'
  <1> SUFFICES ASSUME IInv, PollReturns PROVE IInv'
    OBVIOUS
  <1>0. /\ at = "poll" /\ at' = "timers"
        /\ ready' \subseteq Conn \cup {NoConn}
        /\ \A c \in Conn : c \in ready' => obj[c].polled
        /\ UNCHANGED <<connect, state, channel, timers, sockets, retry, clientConnect,
                       connection, obj, held, userPc, calls, restarting, batch, pending,
                       wanted, stopped, raced, confused>>
    BY FunctorType DEF PollReturns, connectorVars, clientVars, userVars, histVars
  <1>q. /\ \A f : Queued(f)' = Queued(f)
        /\ \A c \in Conn : Binds(pending', c) <=> Binds(pending, c)
    BY <1>0, QueueStays DEF IInv
  <1>1. FlagsOK' /\ WheresOK' /\ QueueOK' /\ NumbersOK' /\ ConnsOK'
    <2>1. FlagsOK'
      BY <1>0 DEF IInv, FlagsOK
    <2>2. QueueOK' /\ NumbersOK' /\ WheresOK'
      BY <1>0 DEF IInv, WheresOK, QueueOK, NumbersOK
    <2>3. ConnsOK'
      BY <1>0 DEF IInv, ConnsOK
    <2> QED BY <2>1, <2>2, <2>3
  <1>3. Refs' /\ SocketsHold'
    <2>1. Refs' /\ Alive' = Alive
      BY <1>0, <1>q, ObjectsStay DEF IInv
    <2> QED BY <1>0, <2>1 DEF IInv, SocketsHold, Owned
  <1>u. UnderWay' = UnderWay
    BY <1>0, <1>q DEF UnderWay
  <1>4. ASSUME ~confused' PROVE Sound'
    <2>1. \A c \in Conn : c \in ready' => obj'[c] # NoObject
      BY <1>0 DEF NoObject
    <2> QED BY <1>0, <1>4, <1>u, <2>1 DEF IInv, Sound, OneUnderWay
  <1>5. ASSUME ~raced', ~confused' PROVE InStep'
    BY <1>0, <1>q, <1>u, <1>5 DEF IInv, InStep, Resetting, Stopping
  <1> QED BY <1>1, <1>3, <1>4, <1>5 DEF IInv

(* From the timers to the events. *)
LEMMA StartDispatchKeeps == IInv /\ StartDispatch => IInv'
  <1> SUFFICES ASSUME IInv, StartDispatch PROVE IInv'
    OBVIOUS
  <1>0. /\ at = "timers" /\ at' = "events"
        /\ UNCHANGED <<connect, state, channel, timers, sockets, retry, clientConnect,
                       connection, obj, held, userPc, calls, restarting, ready, batch,
                       pending, wanted, stopped, raced, confused>>
    BY DEF StartDispatch, connectorVars, clientVars, userVars, histVars
  <1>q. /\ \A f : Queued(f)' = Queued(f)
        /\ \A c \in Conn : Binds(pending', c) <=> Binds(pending, c)
    BY <1>0, QueueStays DEF IInv
  <1>1. FlagsOK' /\ WheresOK' /\ QueueOK' /\ NumbersOK' /\ ConnsOK'
    <2>1. FlagsOK'
      BY <1>0 DEF IInv, FlagsOK
    <2> QED BY <1>0, <2>1 DEF IInv, WheresOK, QueueOK, NumbersOK, ConnsOK
  <1>3. Refs' /\ SocketsHold'
    <2>1. Refs' /\ Alive' = Alive
      BY <1>0, <1>q, ObjectsStay DEF IInv
    <2> QED BY <1>0, <2>1 DEF IInv, SocketsHold, Owned
  <1>u. UnderWay' = UnderWay
    BY <1>0, <1>q DEF UnderWay
  <1>4. ASSUME ~confused' PROVE Sound'
    BY <1>0, <1>4, <1>u DEF IInv, Sound, OneUnderWay
  <1>5. ASSUME ~raced', ~confused' PROVE InStep'
    BY <1>0, <1>q, <1>u, <1>5 DEF IInv, InStep, Resetting, Stopping
  <1> QED BY <1>1, <1>3, <1>4, <1>5 DEF IInv

(* The batch is all that has been queued, resetChannel with it. *)
LEMMA SwapFunctorsKeeps == IInv /\ SwapFunctors => IInv'
  <1> SUFFICES ASSUME IInv, SwapFunctors PROVE IInv'
    OBVIOUS
  <1>0. /\ at = "events" /\ ~restarting /\ at' = "functors" /\ ready' = {}
        /\ batch' = Len(pending)
        /\ UNCHANGED <<connect, state, channel, timers, sockets, retry, clientConnect,
                       connection, obj, held, userPc, calls, restarting, pending,
                       wanted, stopped, raced, confused>>
    BY DEF SwapFunctors, connectorVars, clientVars, userVars, histVars
  <1>q. /\ \A f : Queued(f)' = Queued(f)
        /\ \A c \in Conn : Binds(pending', c) <=> Binds(pending, c)
    BY <1>0, QueueStays DEF IInv
  <1>1. FlagsOK' /\ WheresOK' /\ QueueOK' /\ NumbersOK' /\ ConnsOK'
    <2>1. FlagsOK'
      BY <1>0 DEF IInv, FlagsOK
    <2>2. QueueOK'
      BY <1>0 DEF IInv, QueueOK
    <2> QED BY <1>0, <2>1, <2>2 DEF IInv, WheresOK, NumbersOK, ConnsOK
  <1>3. Refs' /\ SocketsHold'
    <2>1. Refs' /\ Alive' = Alive
      BY <1>0, <1>q, ObjectsStay DEF IInv
    <2> QED BY <1>0, <2>1 DEF IInv, SocketsHold, Owned
  <1>u. UnderWay' = UnderWay
    BY <1>0, <1>q DEF UnderWay
  <1>4. ASSUME ~confused' PROVE Sound'
    BY <1>0, <1>4, <1>u DEF IInv, Sound, OneUnderWay
  <1>5. ASSUME ~raced', ~confused' PROVE InStep'
    <2>0. InStep
      BY <1>0, <1>5 DEF IInv
    <2>1. Resetting'
      <3> SUFFICES ASSUME channel = "removed" PROVE Within(pending, Len(pending)) \/ UnderWay = 0
        BY <1>0, <1>u, <2>0 DEF InStep, Resetting
      <3>1. Queued("resetChannel") > 0
        BY <2>0 DEF InStep
      <3>2. PICK i \in DOMAIN pending : pending[i].op = "resetChannel"
        BY <3>1, QueuedType DEF IInv, Names, Plain
      <3>3. i \in 1 .. Len(pending)
        BY DEF IInv, QueueOK
      <3> QED BY <3>2, <3>3 DEF Within
    <2> QED BY <1>0, <1>q, <2>0, <2>1 DEF InStep, Stopping
  <1> QED BY <1>1, <1>3, <1>4, <1>5 DEF IInv

(* The batch is done. *)
LEMMA EndIterationKeeps == IInv /\ EndIteration => IInv'
  <1> SUFFICES ASSUME IInv, EndIteration PROVE IInv'
    OBVIOUS
  <1>0. /\ at = "functors" /\ batch = 0 /\ at' = "poll"
        /\ UNCHANGED <<connect, state, channel, timers, sockets, retry, clientConnect,
                       connection, obj, held, userPc, calls, restarting, ready, batch,
                       pending, wanted, stopped, raced, confused>>
    BY DEF EndIteration, connectorVars, clientVars, userVars, histVars
  <1>q. /\ \A f : Queued(f)' = Queued(f)
        /\ \A c \in Conn : Binds(pending', c) <=> Binds(pending, c)
    BY <1>0, QueueStays DEF IInv
  <1>1. FlagsOK' /\ WheresOK' /\ QueueOK' /\ NumbersOK' /\ ConnsOK'
    <2>1. FlagsOK'
      BY <1>0 DEF IInv, FlagsOK
    <2> QED BY <1>0, <2>1 DEF IInv, WheresOK, QueueOK, NumbersOK, ConnsOK
  <1>3. Refs' /\ SocketsHold'
    <2>1. Refs' /\ Alive' = Alive
      BY <1>0, <1>q, ObjectsStay DEF IInv
    <2> QED BY <1>0, <2>1 DEF IInv, SocketsHold, Owned
  <1>u. UnderWay' = UnderWay
    BY <1>0, <1>q DEF UnderWay
  <1>4. ASSUME ~confused' PROVE Sound'
    BY <1>0, <1>4, <1>u DEF IInv, Sound, OneUnderWay
  <1>5. ASSUME ~raced', ~confused' PROVE InStep'
    <2>0. InStep
      BY <1>0, <1>5 DEF IInv
    <2>1. Resetting'
      <3>1. ~Within(pending, batch)
        BY <1>0 DEF Within
      <3>2. channel = "removed" => UnderWay = 0
        BY <1>0, <2>0, <3>1 DEF InStep, Resetting
      <3> QED BY <1>0, <1>u, <3>2 DEF Resetting
    <2> QED BY <1>0, <1>q, <2>0, <2>1 DEF InStep, Stopping
  <1> QED BY <1>1, <1>3, <1>4, <1>5 DEF IInv

(* Nothing happens. *)
LEMMA StutterKeeps == IInv /\ (UNCHANGED vars) => IInv'
  <1> SUFFICES ASSUME IInv, UNCHANGED vars PROVE IInv'
    OBVIOUS
  <1>0. UNCHANGED <<connect, state, channel, timers, sockets, retry, clientConnect,
                    connection, obj, held, userPc, calls, at, restarting, ready, batch,
                    pending, wanted, stopped, raced, confused>>
    BY DEF vars, connectorVars, clientVars, loopVars, userVars, histVars
  <1>q. /\ \A f : Queued(f)' = Queued(f)
        /\ \A c \in Conn : Binds(pending', c) <=> Binds(pending, c)
    BY <1>0, QueueStays DEF IInv
  <1>1. FlagsOK' /\ WheresOK' /\ QueueOK' /\ NumbersOK' /\ ConnsOK'
    <2>1. FlagsOK'
      BY <1>0 DEF IInv, FlagsOK
    <2> QED BY <1>0, <2>1 DEF IInv, WheresOK, QueueOK, NumbersOK, ConnsOK
  <1>3. Refs' /\ SocketsHold'
    <2>1. Refs' /\ Alive' = Alive
      BY <1>0, <1>q, ObjectsStay DEF IInv
    <2> QED BY <1>0, <2>1 DEF IInv, SocketsHold, Owned
  <1>u. UnderWay' = UnderWay
    BY <1>0, <1>q DEF UnderWay
  <1>4. ASSUME ~confused' PROVE Sound'
    BY <1>0, <1>4, <1>u DEF IInv, Sound, OneUnderWay
  <1>5. ASSUME ~raced', ~confused' PROVE InStep'
    BY <1>0, <1>q, <1>u, <1>5 DEF IInv, InStep, Resetting, Stopping
  <1> QED BY <1>1, <1>3, <1>4, <1>5 DEF IInv
----------------------------------------------------------------------------
(* restart() starts the next attempt, whatever has been called since the test. *)
LEMMA RestartKeeps == IInv /\ Restart => IInv'
  <1> SUFFICES ASSUME IInv, Restart PROVE IInv'
    OBVIOUS
  <1>0. /\ restarting /\ restarting' = FALSE /\ connect' = TRUE /\ raced' = (raced \/ ~connect)
        /\ StartInLoop(TRUE, "kDisconnected", timers)
        /\ UNCHANGED <<retry, clientConnect, connection, obj, held, userPc, calls, at, ready,
                       batch, pending, stopped, confused>>
    BY DEF Restart, clientVars, userVars
  <1>q. /\ \A f : Queued(f)' = Queued(f)
        /\ \A c \in Conn : Binds(pending', c) <=> Binds(pending, c)
    BY <1>0, QueueStays DEF IInv
  <1>a. ~confused => /\ connection = NoConn /\ userPc # "start" /\ timers = 0
                     /\ Queued("startInLoop") = 0 /\ state # "kConnecting"
    BY <1>0, Alone
  <1>r. Refs' /\ Alive' = Alive
    BY <1>0, <1>q, ObjectsStay DEF IInv
  <1>n. timers \in Nat
    BY DEF IInv, NumbersOK
  <1>s. /\ SocketsHold'
        /\ state' \in {"kDisconnected", "kConnecting", "kConnected"}
        /\ channel' \in {"none", "polled", "removed"}
        /\ timers' \in Nat /\ wanted' \in BOOLEAN /\ (wanted' => wanted)
        /\ ~confused => \/ timers' + One(state' = "kConnecting") = timers + 1
                        \/ timers' = timers /\ state' # "kConnecting" /\ ~wanted'
        /\ channel = "none" /\ ~confused =>
              /\ channel' # "removed"
              /\ channel' = "polled" <=> state' = "kConnecting"
    BY <1>0, <1>a, <1>r, <1>n, StartInLoopKeeps DEF IInv
  <1>1. FlagsOK' /\ WheresOK' /\ QueueOK' /\ NumbersOK' /\ ConnsOK'
    <2>1. FlagsOK'
      BY <1>0, <1>s DEF IInv, FlagsOK
    <2> QED BY <1>0, <1>s, <2>1 DEF IInv, WheresOK, QueueOK, NumbersOK, ConnsOK
  <1>4. ASSUME ~confused' PROVE Sound'
    <2>1. OneUnderWay'
      <3>1. UnderWay' = timers' + One(state' = "kConnecting") /\ timers = 0
        BY <1>0, <1>q, <1>a, <1>s, <1>n, <1>4 DEF UnderWay, One
      <3>2. CASE timers' + One(state' = "kConnecting") = timers + 1
        BY <3>1, <3>2 DEF OneUnderWay
      <3>3. CASE timers' = timers /\ state' # "kConnecting" /\ ~wanted'
        BY <3>1, <3>3 DEF OneUnderWay, One
      <3> QED BY <1>0, <1>4, <1>s, <3>2, <3>3
    <2> QED BY <1>0, <1>s, <1>4, <2>1 DEF IInv, Sound
  <1>5. ASSUME ~raced', ~confused' PROVE InStep'
    <2>0. InStep /\ connect
      BY <1>0, <1>5 DEF IInv, FlagsOK
    <2>1. Stopping'
      <3>1. userPc # "stop" /\ ~(Queued("stopInLoop") > 0)
        BY <2>0 DEF InStep, Stopping
      <3> QED BY <1>0, <1>q, <3>1 DEF Stopping
    <2>2. channel = "none"
      <3>1. UnderWay = 1
        BY <1>0, <1>5, <1>a, <1>q DEF UnderWay
      <3>2. channel # "removed"
        BY <1>0, <1>5, <1>a, <2>0, <3>1 DEF InStep, Resetting
      <3> QED BY <1>0, <1>5, <1>a, <2>0, <3>2 DEF IInv, WheresOK, InStep
    <2>3. Queued("resetChannel")' = 0
      BY <1>q, <2>0, <2>2 DEF InStep
    <2> QED BY <1>0, <1>5, <1>s, <2>0, <2>1, <2>2, <2>3 DEF InStep, Resetting
  <1> QED BY <1>1, <1>r, <1>s, <1>4, <1>5 DEF IInv

(* A timer expires. *)
LEMMA RunRetryTimerKeeps == IInv /\ RunRetryTimer => IInv'
  <1> SUFFICES ASSUME IInv, RunRetryTimer PROVE IInv'
    OBVIOUS
  <1>0. /\ at = "timers" /\ timers > 0
        /\ StartInLoop(connect, state, timers - 1)
        /\ UNCHANGED <<connect, retry, clientConnect, connection, obj, held, userPc, calls, at,
                       restarting, ready, batch, pending, stopped, raced, confused>>
    BY DEF RunRetryTimer, clientVars, userVars, loopVars
  <1>q. /\ \A f : Queued(f)' = Queued(f)
        /\ \A c \in Conn : Binds(pending', c) <=> Binds(pending, c)
    BY <1>0, QueueStays DEF IInv
  <1>a. ~confused => /\ connection = NoConn /\ userPc # "start" /\ timers = 1 /\ ~restarting
                     /\ Queued("startInLoop") = 0 /\ state # "kConnecting"
    BY <1>0, Alone
  <1>r. Refs' /\ Alive' = Alive
    BY <1>0, <1>q, ObjectsStay DEF IInv
  <1> DEFINE left == timers - 1
  <1>n. left \in Nat /\ timers = left + 1 /\ connect \in BOOLEAN
        /\ state \in {"kDisconnected", "kConnecting", "kConnected"}
    BY <1>0 DEF IInv, NumbersOK, FlagsOK, WheresOK
  <1>m. StartInLoop(connect, state, left)
    BY <1>0
  <1> HIDE DEF left
  <1>s. /\ SocketsHold'
        /\ state' \in {"kDisconnected", "kConnecting", "kConnected"}
        /\ channel' \in {"none", "polled", "removed"}
        /\ timers' \in Nat /\ wanted' \in BOOLEAN /\ (wanted' => wanted)
        /\ ~confused => \/ connect /\ timers' + One(state' = "kConnecting") = left + 1
                        \/ /\ timers' = left /\ state' # "kConnecting"
                           /\ ~connect \/ ~wanted'
        /\ channel = "none" /\ ~confused =>
              /\ channel' # "removed"
              /\ channel' = "polled" <=> state' = "kConnecting"
    BY <1>0, <1>a, <1>r, <1>n, <1>m, StartInLoopKeeps DEF IInv
  <1>1. FlagsOK' /\ WheresOK' /\ QueueOK' /\ NumbersOK' /\ ConnsOK'
    <2>1. FlagsOK'
      BY <1>0, <1>s DEF IInv, FlagsOK
    <2> QED BY <1>0, <1>s, <2>1 DEF IInv, WheresOK, QueueOK, NumbersOK, ConnsOK
  <1>4. ASSUME ~confused' PROVE Sound'
    <2>w. wanted => connect
      BY <1>0, <1>4 DEF IInv, Sound
    <2>u. /\ UnderWay' = timers' + One(state' = "kConnecting")
          /\ left = 0
      BY <1>0, <1>q, <1>a, <1>s, <1>n, <1>4 DEF UnderWay, One
    <2>1. OneUnderWay'
      <3>1. CASE timers' + One(state' = "kConnecting") = left + 1
        BY <2>u, <3>1 DEF OneUnderWay
      <3>2. CASE timers' = left /\ state' # "kConnecting" /\ (~connect \/ ~wanted')
        <4>1. ~wanted'
          BY <1>s, <2>w, <3>2
        <4> QED BY <2>u, <3>2, <4>1 DEF OneUnderWay, One
      <3> QED BY <1>0, <1>4, <1>s, <3>1, <3>2
    <2> QED BY <1>0, <1>s, <1>4, <2>1 DEF IInv, Sound
  <1>5. ASSUME ~raced', ~confused' PROVE InStep'
    <2>0. InStep
      BY <1>0, <1>5 DEF IInv
    <2>1. Stopping'
      BY <1>0, <1>q, <2>0 DEF InStep, Stopping
    <2>2. channel = "none"
      <3>1. UnderWay = 1
        BY <1>0, <1>5, <1>a, <1>q DEF UnderWay
      <3>2. channel # "removed"
        BY <1>0, <1>5, <1>a, <2>0, <3>1 DEF InStep, Resetting
      <3> QED BY <1>0, <1>5, <1>a, <2>0, <3>2 DEF IInv, WheresOK, InStep
    <2>3. Queued("resetChannel")' = 0
      BY <1>q, <2>0, <2>2 DEF InStep
    <2> QED BY <1>0, <1>5, <1>s, <2>0, <2>1, <2>2, <2>3 DEF InStep, Resetting
  <1> QED BY <1>1, <1>r, <1>s, <1>4, <1>5 DEF IInv

(* connect() has come to the loop. *)
LEMMA RunStartInLoopKeeps == IInv /\ RunStartInLoop => IInv'
  <1> SUFFICES ASSUME IInv, RunStartInLoop PROVE IInv'
    OBVIOUS
  <1>0. /\ at = "functors" /\ ~restarting /\ batch > 0 /\ batch' = batch - 1
        /\ Head(pending).op = "startInLoop" /\ pending' = Tail(pending)
        /\ StartInLoop(connect, state, timers)
        /\ UNCHANGED <<connect, retry, clientConnect, connection, obj, held, userPc, calls, at,
                       restarting, ready, stopped, raced, confused>>
    BY DEF RunStartInLoop, Functor, Begin, clientVars, userVars
  <1>t. /\ Taken(pending, pending', Head(pending)) /\ QueueOK'
        /\ Head(pending) \in Functors
        /\ \A f \in Names : /\ Queued(f) = Queued(f)' + One(f = "startInLoop")
                            /\ Queued(f) \in Nat /\ Queued(f)' \in Nat
    BY <1>0, QueueTakes DEF IInv
  <1>q. /\ Queued("startInLoop") = Queued("startInLoop")' + 1
        /\ Queued("stopInLoop")' = Queued("stopInLoop")
        /\ Queued("resetChannel")' = Queued("resetChannel")
        /\ Queued("startInLoop")' \in Nat
    BY <1>t DEF Names, Plain, One
  <1>b. \A c \in Conn : Binds(pending', c) <=> Binds(pending, c)
    BY <1>0, <1>t, FunctorType DEF Taken, Plain
  <1>a. ~confused => /\ connection = NoConn /\ userPc # "start" /\ timers = 0
                     /\ Queued("startInLoop")' = 0 /\ state # "kConnecting"
    BY <1>0, <1>q, Alone
  <1>r. Refs' /\ Alive' = Alive
    BY <1>0, <1>b, ObjectsStay DEF IInv
  <1>n. timers \in Nat /\ connect \in BOOLEAN
        /\ state \in {"kDisconnected", "kConnecting", "kConnected"}
    BY <1>0 DEF IInv, NumbersOK, FlagsOK, WheresOK
  <1>s. /\ SocketsHold'
        /\ state' \in {"kDisconnected", "kConnecting", "kConnected"}
        /\ channel' \in {"none", "polled", "removed"}
        /\ timers' \in Nat /\ wanted' \in BOOLEAN /\ (wanted' => wanted)
        /\ ~confused => \/ connect /\ timers' + One(state' = "kConnecting") = timers + 1
                        \/ /\ timers' = timers /\ state' # "kConnecting"
                           /\ ~connect \/ ~wanted'
        /\ channel = "none" /\ ~confused =>
              /\ channel' # "removed"
              /\ channel' = "polled" <=> state' = "kConnecting"
    BY <1>0, <1>a, <1>r, <1>n, StartInLoopKeeps DEF IInv
  <1>1. FlagsOK' /\ WheresOK' /\ NumbersOK' /\ ConnsOK'
    <2>1. FlagsOK'
      BY <1>0, <1>s DEF IInv, FlagsOK
    <2> QED BY <1>0, <1>s, <2>1 DEF IInv, WheresOK, NumbersOK, ConnsOK
  <1>4. ASSUME ~confused' PROVE Sound'
    <2>w. wanted => connect
      BY <1>0, <1>4 DEF IInv, Sound
    <2>u. /\ UnderWay' = timers' + One(state' = "kConnecting")
          /\ timers = 0
      BY <1>0, <1>q, <1>a, <1>s, <1>n, <1>4 DEF UnderWay, One
    <2>1. OneUnderWay'
      <3>1. CASE timers' + One(state' = "kConnecting") = timers + 1
        BY <2>u, <3>1 DEF OneUnderWay
      <3>2. CASE timers' = timers /\ state' # "kConnecting" /\ (~connect \/ ~wanted')
        <4>1. ~wanted'
          BY <1>s, <2>w, <3>2
        <4> QED BY <2>u, <3>2, <4>1 DEF OneUnderWay, One
      <3> QED BY <1>0, <1>4, <1>s, <3>1, <3>2
    <2> QED BY <1>0, <1>s, <1>4, <2>1 DEF IInv, Sound
  <1>5. ASSUME ~raced', ~confused' PROVE InStep'
    <2>0. InStep
      BY <1>0, <1>5 DEF IInv
    <2>1. Stopping'
      BY <1>0, <1>q, <2>0 DEF InStep, Stopping
    <2>2. channel = "none"
      <3>1. UnderWay = 1
        BY <1>0, <1>5, <1>a, <1>q DEF UnderWay
      <3>2. channel # "removed"
        BY <1>0, <1>5, <1>a, <2>0, <3>1 DEF InStep, Resetting
      <3> QED BY <1>0, <1>5, <1>a, <2>0, <3>2 DEF IInv, WheresOK, InStep
    <2>3. Queued("resetChannel")' = 0
      BY <1>q, <2>0, <2>2 DEF InStep
    <2>4. Before(pending', connection')
      BY <1>0, <1>t, <2>0 DEF InStep, Taken
    <2> QED BY <1>0, <1>5, <1>s, <2>1, <2>2, <2>3, <2>4 DEF InStep, Resetting
  <1> QED BY <1>1, <1>t, <1>r, <1>s, <1>4, <1>5 DEF IInv

(* The removed channel is destroyed. *)
LEMMA RunResetChannelKeeps == IInv /\ RunResetChannel => IInv'
  <1> SUFFICES ASSUME IInv, RunResetChannel PROVE IInv'
    OBVIOUS
  <1>0. /\ at = "functors" /\ ~restarting /\ batch > 0 /\ batch' = batch - 1
        /\ Head(pending).op = "resetChannel" /\ pending' = Tail(pending) /\ channel' = "none"
        /\ UNCHANGED <<connect, state, timers, sockets, retry, clientConnect, connection, obj,
                       held, userPc, calls, at, restarting, ready, wanted, stopped, raced,
                       confused>>
    BY DEF RunResetChannel, Functor, Begin, clientVars, userVars
  <1>t. /\ Taken(pending, pending', Head(pending)) /\ QueueOK'
        /\ Head(pending) \in Functors
        /\ \A f \in Names : /\ Queued(f) = Queued(f)' + One(f = "resetChannel")
                            /\ Queued(f) \in Nat /\ Queued(f)' \in Nat
    BY <1>0, QueueTakes DEF IInv
  <1>q. /\ Queued("startInLoop")' = Queued("startInLoop")
        /\ Queued("stopInLoop")' = Queued("stopInLoop")
        /\ Queued("resetChannel") = Queued("resetChannel")' + 1
        /\ Queued("resetChannel")' \in Nat
    BY <1>t DEF Names, Plain, One
  <1>b. \A c \in Conn : Binds(pending', c) <=> Binds(pending, c)
    BY <1>0, <1>t, FunctorType DEF Taken, Plain
  <1>1. FlagsOK' /\ WheresOK' /\ NumbersOK' /\ ConnsOK'
    <2>1. FlagsOK'
      BY <1>0 DEF IInv, FlagsOK
    <2> QED BY <1>0, <2>1 DEF IInv, WheresOK, NumbersOK, ConnsOK
  <1>3. Refs' /\ SocketsHold'
    <2>1. Refs' /\ Alive' = Alive
      BY <1>0, <1>b, ObjectsStay DEF IInv
    <2> QED BY <1>0, <2>1 DEF IInv, SocketsHold, Owned
  <1>u. UnderWay' = UnderWay
    BY <1>0, <1>q DEF UnderWay
  <1>4. ASSUME ~confused' PROVE Sound'
    BY <1>0, <1>4, <1>u DEF IInv, Sound, OneUnderWay
  <1>5. ASSUME ~raced', ~confused' PROVE InStep'
    <2>0. InStep
      BY <1>0, <1>5 DEF IInv
    <2>1. Stopping'
      BY <1>0, <1>q, <2>0 DEF InStep, Stopping
    <2>2. channel = "removed" /\ Queued("resetChannel")' = 0
      BY <1>q, <2>0 DEF InStep
    <2>3. Before(pending', connection')
      BY <1>0, <1>t, <2>0 DEF InStep, Taken
    <2> QED BY <1>0, <2>0, <2>1, <2>2, <2>3 DEF InStep, Resetting
  <1> QED BY <1>1, <1>t, <1>3, <1>4, <1>5 DEF IInv
----------------------------------------------------------------------------
(* The attempt has failed: the channel is removed, and a timer is set       *)
(* unless connect_ was cleared.                                             *)
LEMMA HandleFailureKeeps == IInv /\ HandleFailure => IInv'
  <1> SUFFICES ASSUME IInv, HandleFailure PROVE IInv'
    OBVIOUS
  <1> DEFINE g == Call("resetChannel")
  <1>0. /\ at = "events" /\ ~restarting /\ state = "kConnecting"
        /\ ready' = ready \ {NoConn} /\ state' = "kDisconnected" /\ channel' = "removed"
        /\ pending' = Append(pending, g)
        /\ sockets' = sockets - 1 /\ timers' = timers + One(connect)
        /\ UNCHANGED <<connect, retry, clientConnect, connection, obj, held, userPc, calls, at,
                       restarting, batch, wanted, stopped, raced, confused>>
    BY DEF HandleFailure, ConnectorEvent, RemoveAndResetChannel, Retry, ClosesSocket,
       TimersToSet, One, clientVars, userVars, histVars
  <1>g. g \in Functors /\ g.op = "resetChannel" /\ g.conn = NoConn /\ NoConn \notin Conn
    BY FunctorType DEF Plain
  <1> HIDE DEF g
  <1>t. /\ Added(pending, pending', g) /\ QueueOK'
        /\ \A f \in Names : Queued(f)' = Queued(f) + One(f = "resetChannel") /\ Queued(f) \in Nat
    BY <1>0, <1>g, QueueAdds DEF IInv
  <1>q. /\ Queued("startInLoop")' = Queued("startInLoop")
        /\ Queued("stopInLoop")' = Queued("stopInLoop")
        /\ Queued("resetChannel")' = Queued("resetChannel") + 1
    BY <1>t DEF Names, Plain, One
  <1>b. \A c \in Conn : Binds(pending', c) <=> Binds(pending, c)
    BY <1>g, <1>t DEF Added
  <1>a. ~confused => /\ connection = NoConn /\ userPc # "start" /\ timers = 0
                     /\ Queued("startInLoop") = 0
    BY <1>0, Alone
  <1>n. timers' \in Nat
    BY <1>0 DEF IInv, NumbersOK, One
  <1>1. FlagsOK' /\ WheresOK' /\ NumbersOK' /\ ConnsOK'
    <2>1. FlagsOK'
      BY <1>0 DEF IInv, FlagsOK
    <2>2. WheresOK' /\ NumbersOK'
      BY <1>0, <1>n DEF IInv, WheresOK, NumbersOK
    <2>3. ConnsOK'
      BY <1>0 DEF IInv, ConnsOK
    <2> QED BY <2>1, <2>2, <2>3
  <1>3. Refs' /\ SocketsHold'
    <2>1. Refs' /\ Alive' = Alive
      BY <1>0, <1>b, ObjectsStay DEF IInv
    <2>2. sockets \in Nat
      BY DEF IInv, SocketsHold
    <2> QED BY <1>0, <2>1, <2>2, SocketsStay DEF IInv, One
  <1>4. ASSUME ~confused' PROVE Sound'
    <2>w. wanted => connect
      BY <1>0, <1>4 DEF IInv, Sound
    <2>1. UnderWay' = One(connect)
      BY <1>0, <1>4, <1>q, <1>a DEF UnderWay, One
    <2>2. OneUnderWay'
      BY <1>0, <2>w, <2>1 DEF OneUnderWay, One
    <2> QED BY <1>0, <1>4, <2>2 DEF IInv, Sound
  <1>5. ASSUME ~raced', ~confused' PROVE InStep'
    <2>0. InStep
      BY <1>0, <1>5 DEF IInv
    <2>1. Stopping'
      BY <1>0, <1>q, <2>0 DEF InStep, Stopping
    <2>2. Queued("resetChannel")' = 1
      BY <1>0, <1>q, <2>0 DEF InStep
    <2>3. Before(pending', connection')
      <3>1. Forces(pending, connection) = {}
        BY <1>0, <1>5, <1>a, NoForces DEF IInv, QueueOK
      <3> QED BY <1>0, <1>t, <2>0, <3>1 DEF InStep, Added
    <2>4. Resetting'
      <3>1. UnderWay' # 0 => timers' = 1
        BY <1>0, <1>5, <1>q, <1>a DEF UnderWay, One
      <3>2. connection' \notin ready'
        BY <1>0, <1>5, <1>a
      <3> QED BY <1>0, <3>1, <3>2 DEF Resetting
    <2> QED BY <1>0, <2>0, <2>1, <2>2, <2>3, <2>4 DEF InStep
  <1> QED BY <1>1, <1>t, <1>3, <1>4, <1>5 DEF IInv

(* stop() has come to the loop, and ends the attempt that there is. *)
LEMMA RunStopInLoopKeeps == IInv /\ RunStopInLoop => IInv'
  <1> SUFFICES ASSUME IInv, RunStopInLoop PROVE IInv'
    OBVIOUS
  <1> DEFINE g == Call("resetChannel")
             t == Tail(pending)
  <1>0. /\ at = "functors" /\ ~restarting /\ batch > 0 /\ batch' = batch - 1
        /\ Head(pending).op = "stopInLoop"
        /\ IF state = "kConnecting"
           THEN /\ channel' = "removed" /\ pending' = Append(t, g)
                /\ sockets' = sockets - 1 /\ state' = "kDisconnected"
                /\ timers' = timers + One(connect)
           ELSE pending' = t /\ UNCHANGED <<state, channel, timers, sockets>>
        /\ UNCHANGED <<connect, retry, clientConnect, connection, obj, held, userPc, calls, at,
                       restarting, ready, wanted, stopped, raced, confused>>
    BY DEF RunStopInLoop, Functor, Begin, RemoveAndResetChannel, Retry, ClosesSocket,
       TimersToSet, One, clientVars, userVars
  <1>g. g \in Functors /\ g.op = "resetChannel" /\ g.conn = NoConn /\ NoConn \notin Conn
    BY FunctorType DEF Plain
  <1>p. /\ pending \in Seq(Functors) /\ pending # <<>> /\ Len(pending) \in Nat
        /\ batch \in 0 .. Len(pending)
    <2>1. Len(<<>>) = 0
      OBVIOUS
    <2> QED BY <1>0, <2>1 DEF IInv, QueueOK
  <1>t. Taken(pending, t, Head(pending)) /\ Head(pending) \in Functors
    BY <1>p, TailTakes
  <1>f. Head(pending).conn \notin Conn /\ Head(pending).op # "resetChannel"
    BY <1>0, <1>t, FunctorType DEF Plain
  <1> HIDE DEF g, t
  <1>d. state = "kConnecting" => Added(t, pending', g)
    BY <1>0, <1>g, <1>t, AppendAdds DEF Taken
  <1>2. QueueOK'
    BY <1>0, <1>p, <1>t, <1>d DEF Taken, Added, QueueOK
  <1>c. /\ \A f \in Names : Count(f, pending) = Count(f, t) + One(f = "stopInLoop")
        /\ \A f \in Names : Count(f, pending') =
                                Count(f, t) + One(f = "resetChannel" /\ state = "kConnecting")
        /\ \A f \in Names : Count(f, t) \in Nat
    <2>1. \A f \in Names : Count(f, t) \in Nat
      BY <1>t, CountType DEF Taken
    <2>2. CASE state = "kConnecting"
      BY <1>0, <1>t, <1>d, <1>g, <2>1, <2>2 DEF Taken, Added
    <2>3. CASE state # "kConnecting"
      BY <1>0, <1>t, <2>1, <2>3 DEF Taken, One
    <2> QED BY <2>1, <2>2, <2>3
  <1>q. /\ Queued("startInLoop")' = Queued("startInLoop")
        /\ Queued("stopInLoop") = Queued("stopInLoop")' + 1 /\ Queued("stopInLoop")' \in Nat
        /\ Queued("resetChannel")' = Queued("resetChannel") + One(state = "kConnecting")
        /\ Queued("resetChannel") \in Nat
    BY <1>c, QueuedIsCount DEF Names, Plain, One
  <1>b. \A c \in Conn : Binds(pending', c) <=> Binds(pending, c)
    <2>1. \A c \in Conn : Binds(t, c) <=> Binds(pending, c)
      BY <1>t, <1>f DEF Taken
    <2>2. CASE state = "kConnecting"
      BY <1>d, <1>g, <2>1, <2>2 DEF Added
    <2>3. CASE state # "kConnecting"
      BY <1>0, <2>1, <2>3
    <2> QED BY <2>2, <2>3
  <1>a. ~confused /\ state = "kConnecting" =>
              /\ connection = NoConn /\ userPc # "start" /\ timers = 0
              /\ Queued("startInLoop") = 0
    BY <1>0, Alone
  <1>n. timers' \in Nat
    BY <1>0 DEF IInv, NumbersOK, One
  <1>1. FlagsOK' /\ WheresOK' /\ NumbersOK' /\ ConnsOK'
    <2>1. FlagsOK'
      BY <1>0 DEF IInv, FlagsOK
    <2>2. WheresOK' /\ NumbersOK'
      BY <1>0, <1>n DEF IInv, WheresOK, NumbersOK
    <2>3. ConnsOK'
      BY <1>0 DEF IInv, ConnsOK
    <2> QED BY <2>1, <2>2, <2>3
  <1>3. Refs' /\ SocketsHold'
    <2>1. Refs' /\ Alive' = Alive
      BY <1>0, <1>b, ObjectsStay DEF IInv
    <2>2. sockets \in Nat
      BY DEF IInv, SocketsHold
    <2> QED BY <1>0, <2>1, <2>2, SocketsStay DEF IInv, One
  <1>u. state # "kConnecting" => UnderWay' = UnderWay
    BY <1>0, <1>q DEF UnderWay
  <1>4. ASSUME ~confused' PROVE Sound'
    <2>w. wanted => connect
      BY <1>0, <1>4 DEF IInv, Sound
    <2>1. CASE state = "kConnecting"
      <3>1. UnderWay' = One(connect)
        BY <1>0, <1>4, <1>q, <1>a, <2>1 DEF UnderWay, One
      <3>2. OneUnderWay'
        BY <1>0, <2>w, <3>1 DEF OneUnderWay, One
      <3> QED BY <1>0, <1>4, <3>2 DEF IInv, Sound
    <2>2. CASE state # "kConnecting"
      BY <1>0, <1>u, <1>4, <2>2 DEF IInv, Sound, OneUnderWay
    <2> QED BY <2>1, <2>2
  <1>5. ASSUME ~raced', ~confused' PROVE InStep'
    <2>0. InStep
      BY <1>0, <1>5 DEF IInv
    <2>n. ~connect
      BY <1>q, <2>0 DEF InStep, Stopping
    <2>1. Stopping'
      BY <1>0, <2>n DEF Stopping
    <2>2. Before(t, connection)
      BY <1>t, <2>0 DEF InStep, Taken
    <2>3. CASE state = "kConnecting"
      <3>1. Queued("resetChannel")' = 1
        BY <1>0, <1>q, <2>0, <2>3 DEF InStep, One
      <3>2. Before(pending', connection')
        <4>1. Forces(t, connection) = {}
          BY <1>0, <1>5, <1>a, <1>t, <2>3, NoForces DEF Taken
        <4> QED BY <1>0, <1>d, <2>2, <2>3, <4>1 DEF Added
      <3>3. UnderWay' = 0
        BY <1>0, <1>5, <1>q, <1>a, <2>n, <2>3 DEF UnderWay, One
      <3> QED BY <1>0, <2>1, <2>3, <3>1, <3>2, <3>3 DEF InStep, Resetting
    <2>4. CASE state # "kConnecting"
      <3>1. Queued("resetChannel")' = Queued("resetChannel")
        BY <1>q, <2>4 DEF One
      <3>2. Within(pending, batch) => Within(pending', batch')
        BY <1>0, <1>p, <1>t, <1>f, <2>4 DEF Taken
      <3>3. Resetting'
        BY <1>0, <1>u, <2>0, <2>4, <3>2 DEF InStep, Resetting
      <3> QED BY <1>0, <2>0, <2>1, <2>2, <2>4, <3>1, <3>3 DEF InStep
    <2> QED BY <2>3, <2>4
  <1> QED BY <1>1, <1>2, <1>3, <1>4, <1>5 DEF IInv
----------------------------------------------------------------------------
(* The socket has connected: the attempt becomes a connection, or nothing   *)
(* if connect_ was cleared.                                                 *)
LEMMA HandleWriteConnectedKeeps == IInv /\ HandleWriteConnected => IInv'
  <1> SUFFICES ASSUME IInv, HandleWriteConnected PROVE IInv'
    OBVIOUS
  <1> DEFINE g   == Call("resetChannel")
             new == [state |-> "kConnected", polled |-> TRUE, closes |-> 0]
  <1>0. /\ at = "events" /\ ~restarting /\ state = "kConnecting"
        /\ ready' = ready \ {NoConn} /\ state' = "kConnected" /\ channel' = "removed"
        /\ pending' = Append(pending, g)
        /\ UNCHANGED <<connect, timers, retry, clientConnect, held, userPc, calls, at,
                       restarting, batch, wanted, stopped, raced, confused>>
    BY DEF HandleWriteConnected, ConnectorEvent, RemoveAndResetChannel, histVars
  <1>c. \/ ~connect /\ sockets' = sockets - 1 /\ UNCHANGED <<connection, obj>>
        \/ connect /\ \E c \in Spare : connection' = c /\ LetGo([obj EXCEPT ![c] = new], sockets)
    BY DEF HandleWriteConnected, NewConnection
  <1>g. g \in Functors /\ g.op = "resetChannel" /\ g.conn = NoConn /\ NoConn \notin Conn
    BY FunctorType DEF Plain
  <1>o. new \in Object /\ new # NoObject /\ new.closes = 0
    BY DEF Object, NoObject
  <1> HIDE DEF g, new
  <1>t. /\ Added(pending, pending', g) /\ QueueOK'
        /\ \A f \in Names : Queued(f)' = Queued(f) + One(f = "resetChannel") /\ Queued(f) \in Nat
    BY <1>0, <1>g, QueueAdds DEF IInv
  <1>q. /\ Queued("startInLoop")' = Queued("startInLoop")
        /\ Queued("stopInLoop")' = Queued("stopInLoop")
        /\ Queued("resetChannel")' = Queued("resetChannel") + 1
    BY <1>t DEF Names, Plain, One
  <1>b. \A c \in Conn : Binds(pending', c) <=> Binds(pending, c)
    BY <1>g, <1>t DEF Added
  <1>a. ~confused => /\ connection = NoConn /\ userPc # "start" /\ timers = 0
                     /\ Queued("startInLoop") = 0
    BY <1>0, Alone
  <1>1. FlagsOK' /\ WheresOK' /\ NumbersOK'
    <2>1. FlagsOK'
      BY <1>0 DEF IInv, FlagsOK
    <2> QED BY <1>0, <2>1 DEF IInv, WheresOK, NumbersOK
  <1>2. CASE ~connect /\ sockets' = sockets - 1 /\ UNCHANGED <<connection, obj>>
    <2>1. ConnsOK'
      BY <1>0, <1>2 DEF IInv, ConnsOK
    <2>2. Refs' /\ SocketsHold'
      <3>1. Refs' /\ Alive' = Alive
        BY <1>0, <1>2, <1>b, ObjectsStay DEF IInv
      <3>2. sockets \in Nat
        BY DEF IInv, SocketsHold
      <3> QED BY <1>0, <1>2, <3>1, <3>2, SocketsStay DEF IInv, One
    <2>u. ~confused => UnderWay' = 0
      BY <1>0, <1>2, <1>q, <1>a DEF UnderWay
    <2>4. ASSUME ~confused' PROVE Sound'
      <3>1. OneUnderWay'
        BY <1>0, <1>2, <2>4, <2>u DEF OneUnderWay, IInv, Sound
      <3> QED BY <1>0, <1>2, <2>4, <3>1 DEF IInv, Sound
    <2>5. ASSUME ~raced', ~confused' PROVE InStep'
      <3>0. InStep
        BY <1>0, <2>5 DEF IInv
      <3>1. Stopping'
        BY <1>0, <1>2 DEF Stopping
      <3>2. Queued("resetChannel")' = 1
        BY <1>0, <1>q, <3>0 DEF InStep
      <3>3. Before(pending', connection')
        <4>1. Forces(pending, connection) = {}
          BY <1>0, <2>5, <1>a, NoForces DEF IInv, QueueOK
        <4> QED BY <1>0, <1>2, <1>t, <3>0, <4>1 DEF InStep, Added
      <3> QED BY <1>0, <2>5, <2>u, <3>1, <3>2, <3>3 DEF InStep, Resetting
    <2> QED BY <1>1, <1>t, <2>1, <2>2, <2>4, <2>5 DEF IInv
  <1>3. ASSUME connect, NEW c \in Spare, connection' = c, LetGo([obj EXCEPT ![c] = new], sockets)
        PROVE  IInv'
    <2> DEFINE objects == [obj EXCEPT ![c] = new]
               m       == Cardinality(Alive) + 1
    <2>0. c \in Conn /\ obj[c] = NoObject /\ c # NoConn
      BY <1>g DEF Spare
    <2>1. /\ obj \in [Conn -> Object \cup {NoObject}]
          /\ objects \in [Conn -> Object \cup {NoObject}]
          /\ objects[c] = new
          /\ \A d \in Conn : d # c => objects[d] = obj[d]
      BY <1>o, <2>0 DEF IInv, ConnsOK
    <2>l. LetGo(objects, sockets)
      BY <1>3
    <2> HIDE DEF objects
    <2>r. /\ ~Referenced(c)
          /\ \A d \in Conn : Referenced(d)' <=> d = c \/ d = held \/ Binds(pending, d)
      BY <1>0, <1>3, <1>b, <2>0, ReferencedIs DEF IInv, Refs
    <2>2. \A d \in Conn : Referenced(d)' => objects[d] # NoObject
      BY <1>o, <2>1, <2>r, ReferencedIs DEF IInv, Refs
    <2>3. m = Cardinality({d \in Conn : objects[d] # NoObject}) /\ m \in Nat
      <3>1. {d \in Conn : objects[d] # NoObject} = Alive \cup {c} /\ c \notin Alive
        BY <1>o, <2>0, <2>1 DEF Alive
      <3>2. IsFiniteSet(Alive) /\ Cardinality(Alive) \in Nat
        BY ConnSets DEF Alive
      <3>3. Cardinality(Alive \cup {c}) = Cardinality(Alive) + 1
        BY <3>1, <3>2, FS_AddElement
      <3>4. m \in Nat
        BY <3>2
      <3>5. Cardinality({d \in Conn : objects[d] # NoObject}) = Cardinality(Alive \cup {c})
        BY <3>1
      <3> QED BY <3>3, <3>4, <3>5
    <2>4. sockets \in Nat /\ sockets >= 0 + m /\ (~confused' => sockets = 0 + m)
      <3>1. Cardinality(Alive) \in Nat
        BY ConnSets DEF Alive
      <3> QED BY <1>0, <3>1 DEF IInv, SocketsHold, Owned, One
    <2>5. 0 = One(state' = "kConnecting")
      BY <1>0 DEF One
    <2> HIDE DEF m
    <2>6. /\ obj' \in [Conn -> Object \cup {NoObject}]
          /\ Refs' /\ SocketsHold'
          /\ \A d \in Conn : obj'[d] # NoObject => obj'[d] = objects[d]
          /\ \A d \in Conn : Referenced(d)' => obj'[d] = objects[d]
      BY <2>1, <2>l, <2>2, <2>3, <2>4, <2>5, LetGoKeeps
    <2>7. ConnsOK'
      BY <1>0, <1>3, <2>0, <2>6 DEF IInv, ConnsOK
    <2>u. ~confused => UnderWay' = 1
      BY <1>0, <1>3, <1>q, <1>a, <2>0 DEF UnderWay
    <2>n. ~confused => c \notin ready
      BY <2>0 DEF IInv, Sound
    <2>8. ASSUME ~confused' PROVE Sound'
      <3>0. Sound /\ connection = NoConn
        BY <1>0, <1>a, <2>8 DEF IInv
      <3>1. wanted' => connect' /\ clientConnect'
        BY <1>0, <3>0 DEF Sound
      <3>2. \A d \in Conn : d = connection' <=> obj'[d] # NoObject /\ obj'[d].closes = 0
        <4>1. obj'[c] # NoObject /\ obj'[c].closes = 0
          BY <1>o, <2>0, <2>1, <2>6, <2>r
        <4>2. \A d \in Conn : d # c => obj'[d] = NoObject \/ obj'[d].closes # 0
          BY <1>g, <2>1, <2>6, <3>0 DEF Sound
        <4> QED BY <1>3, <4>1, <4>2
      <3>3. \A d \in Conn : d \in ready' => obj'[d] # NoObject
        <4> SUFFICES ASSUME NEW d \in Conn, d \in ready PROVE obj'[d] # NoObject
          BY <1>0
        <4>1. obj[d] # NoObject
          BY <3>0 DEF Sound
        <4>2. Referenced(d) /\ d # c
          BY <4>1, <2>0 DEF IInv, Refs
        <4>3. Referenced(d)'
          BY <1>g, <2>r, <3>0, <4>2, ReferencedIs
        <4> QED BY <2>1, <2>6, <4>1, <4>2, <4>3
      <3>4. OneUnderWay'
        BY <1>0, <2>8, <2>u DEF OneUnderWay
      <3> QED BY <3>1, <3>2, <3>3, <3>4 DEF Sound
    <2>9. ASSUME ~raced', ~confused' PROVE InStep'
      <3>0. InStep
        BY <1>0, <2>9 DEF IInv
      <3>1. Stopping'
        BY <1>0, <1>q, <3>0 DEF InStep, Stopping
      <3>2. Queued("resetChannel")' = 1
        BY <1>0, <1>q, <3>0 DEF InStep
      <3>3. Before(pending', connection')
        <4>1. Forces(pending, c) = {}
          BY <2>0, <2>r, ReferencedIs DEF Forces, Binds
        <4>2. Before(pending, c)
          BY <4>1 DEF Before
        <4> QED BY <1>3, <1>t, <4>1, <4>2 DEF Added
      <3>4. Resetting'
        BY <1>0, <1>3, <2>0, <2>9, <2>n DEF Resetting
      <3> QED BY <1>0, <3>1, <3>2, <3>3, <3>4 DEF InStep
    <2> QED BY <1>1, <1>t, <2>6, <2>7, <2>8, <2>9 DEF IInv
  <1> QED BY <1>c, <1>2, <1>3
----------------------------------------------------------------------------
(* A connection closes, for the first time or once more: q is the queue     *)
(* that handleClose finds, and it drops the client's reference.             *)
LEMMA HandleCloseKeeps ==
    ASSUME IInv, NEW c \in Conn, obj[c] # NoObject, ~restarting,
           NEW q, q \in Seq(Functors), HandleClose(c, q),
           ready' = ready, calls' \in Calls, QueueOK', at \in {"events", "functors"},
           \A d \in Conn : Binds(q, d) \/ d = c <=> Binds(pending, d) \/ d = c,
           \A f \in Plain : Count(f, q) = Count(f, pending),
           Within(pending, batch) => Within(q, batch'),
           ~raced /\ ~confused /\ obj[c].closes = 0 => channel # "removed"
    PROVE  IInv'
  <1> DEFINE g       == CallOf("connectDestroyed", c)
             objects == Closed(c)
  <1>0. /\ connection' = NoConn /\ pending' = Append(q, g) /\ restarting' = Again
        /\ wanted' = (wanted /\ (Again \/ obj[c].closes > 0))
        /\ confused' = (confused \/ (obj[c].closes > 0 /\ (Again \/ connection # NoConn)))
        /\ LetGo(objects, sockets)
        /\ UNCHANGED <<held, connect, state, channel, timers, retry, clientConnect, at, userPc,
                       stopped, raced>>
    BY DEF HandleClose, RemoveConnection
  <1>g. /\ g \in Functors /\ g.op = "connectDestroyed" /\ g.conn = c /\ NoConn \notin Conn
    BY FunctorType
  <1>o. /\ obj \in [Conn -> Object \cup {NoObject}] /\ obj[c] \in Object /\ obj[c].closes \in Nat
        /\ objects \in [Conn -> Object \cup {NoObject}]
        /\ objects[c] # NoObject /\ objects[c].closes # 0
        /\ \A d \in Conn : d # c => objects[d] = obj[d]
    <2>1. obj \in [Conn -> Object \cup {NoObject}]
      BY DEF IInv, ConnsOK
    <2>2. obj[c] \in Object /\ obj[c].polled \in BOOLEAN /\ obj[c].closes \in Nat
      BY <2>1 DEF Object
    <2> DEFINE new == [state  |-> "kDisconnected", polled |-> ~obj[c].polled,
                       closes |-> obj[c].closes + 1]
    <2>3. new \in Object /\ new # NoObject /\ new.closes # 0
      BY <2>2 DEF Object, NoObject
    <2>4. objects = [obj EXCEPT ![c] = new]
      BY DEF Closed
    <2> HIDE DEF new, objects
    <2> QED BY <2>1, <2>2, <2>3, <2>4
  <1> HIDE DEF g, objects
  <1>t. Added(q, pending', g)
    BY <1>0, <1>g, AppendAdds
  <1>n. timers \in Nat /\ FlagsOK
    BY DEF IInv, NumbersOK
  <1>q. /\ Queued("startInLoop")' = Queued("startInLoop")
        /\ Queued("stopInLoop")' = Queued("stopInLoop")
        /\ Queued("resetChannel")' = Queued("resetChannel")
    <2>1. \A f \in Plain : Count(f, pending') = Count(f, pending) + One(f = "connectDestroyed")
      BY <1>t, <1>g DEF Added, Names
    <2>2. \A f \in Plain : Count(f, pending) \in Nat
      BY CountType DEF IInv, QueueOK
    <2> QED BY <2>1, <2>2, QueuedIsCount DEF Plain, One
  <1>b. \A d \in Conn : Binds(pending', d) <=> Binds(pending, d) \/ d = c
    BY <1>t, <1>g DEF Added
  <1>r. \A d \in Conn : Referenced(d)' <=> d = held \/ Binds(pending, d) \/ d = c
    BY <1>0, <1>b, <1>g, ReferencedIs
  <1>c. ~confused' => /\ ~confused
                      /\ obj[c].closes = 0 \/ (~Again /\ connection = NoConn)
    <2> DEFINE P == obj[c].closes > 0
    <2>1. P <=> obj[c].closes # 0
      BY <1>o
    <2>2. confused' = (confused \/ (P /\ (Again \/ connection # NoConn)))
      BY <1>0
    <2> HIDE DEF P
    <2> QED BY <2>1, <2>2, Zenon
  <1>a. ~confused' /\ obj[c].closes = 0 =>
              /\ connection = c /\ state # "kConnecting" /\ userPc # "start" /\ timers = 0
              /\ Queued("startInLoop") = 0
    <2> SUFFICES ASSUME ~confused', obj[c].closes = 0
                 PROVE  /\ connection = c /\ state # "kConnecting" /\ userPc # "start"
                        /\ timers = 0 /\ Queued("startInLoop") = 0
      OBVIOUS
    <2>1. connection = c
      BY <1>c DEF IInv, Sound
    <2> QED BY <1>c, <1>g, <2>1, Alone
  <1>1. FlagsOK' /\ WheresOK' /\ NumbersOK'
    <2>1. FlagsOK'
      BY <1>0, <1>n, Zenon DEF FlagsOK, Again
    <2>2. WheresOK' /\ NumbersOK'
      BY <1>0 DEF IInv, WheresOK, NumbersOK
    <2> QED BY <2>1, <2>2
  <1>2. /\ obj' \in [Conn -> Object \cup {NoObject}]
        /\ Refs' /\ SocketsHold'
        /\ \A d \in Conn : obj'[d] # NoObject => obj'[d] = objects[d]
        /\ \A d \in Conn : Referenced(d)' => obj'[d] = objects[d]
    <2> DEFINE m == Cardinality(Alive)
               k == One(state' = "kConnecting")
    <2>1. \A d \in Conn : Referenced(d)' => objects[d] # NoObject
      BY <1>o, <1>r, ReferencedIs DEF IInv, Refs
    <2>2. {d \in Conn : objects[d] # NoObject} = Alive
      BY <1>o DEF Alive
    <2>3. m = Cardinality({d \in Conn : objects[d] # NoObject}) /\ m \in Nat
      BY <2>2, ConnSets DEF Alive
    <2>4. k \in Nat
      BY DEF One
    <2>5. sockets \in Nat /\ sockets >= k + m /\ (~confused' => sockets = k + m)
      BY <1>0, <1>c DEF IInv, SocketsHold, Owned
    <2>6. k = One(state' = "kConnecting")
      OBVIOUS
    <2> HIDE DEF m, k
    <2> QED BY <1>0, <1>o, <2>1, <2>3, <2>4, <2>5, <2>6, LetGoKeeps
  <1>3. ConnsOK'
    BY <1>0, <1>2 DEF IInv, ConnsOK
  <1>u. /\ ~confused' /\ obj[c].closes = 0 => UnderWay' = One(Again)
        /\ ~confused' /\ obj[c].closes # 0 => UnderWay' = UnderWay
    <2>1. ASSUME ~confused', obj[c].closes = 0 PROVE UnderWay' = One(Again)
      BY <1>0, <1>q, <1>a, <2>1 DEF UnderWay, One
    <2>2. ASSUME ~confused', obj[c].closes # 0 PROVE UnderWay' = UnderWay
      BY <1>0, <1>q, <1>c, <2>2 DEF UnderWay
    <2> QED BY <2>1, <2>2
  <1>4. ASSUME ~confused' PROVE Sound'
    <2>0. Sound /\ ~confused
      BY <1>c, <1>4 DEF IInv
    <2>1. wanted' => connect' /\ clientConnect'
      BY <1>0, <2>0 DEF Sound
    <2>2. \A d \in Conn : d = connection' <=> obj'[d] # NoObject /\ obj'[d].closes = 0
      <3>1. \A d \in Conn : d # c => objects[d] = NoObject \/ objects[d].closes # 0
        BY <1>o, <1>c, <1>g, <1>4, <2>0 DEF Sound
      <3> QED BY <1>0, <1>g, <1>o, <1>2, <3>1
    <2>3. \A d \in Conn : d \in ready' => obj'[d] # NoObject
      <3> SUFFICES ASSUME NEW d \in Conn, d \in ready PROVE obj'[d] # NoObject
        OBVIOUS
      <3>1. obj[d] # NoObject
        BY <2>0 DEF Sound
      <3>2. d = connection => d = c
        BY <1>c, <1>g, <1>4, <2>0 DEF Sound
      <3>3. Referenced(d)'
        BY <1>r, <3>1, <3>2, ReferencedIs DEF IInv, Refs
      <3> QED BY <1>o, <1>2, <3>1, <3>3
    <2>4. OneUnderWay'
      <3>1. UnderWay <= 1 /\ (wanted => UnderWay = 1)
        BY <2>0 DEF Sound, OneUnderWay
      <3>2. CASE obj[c].closes = 0
        <4>1. wanted' => Again
          <5>1. ~(obj[c].closes > 0)
            BY <3>2
          <5> QED BY <1>0, <5>1, Zenon
        <4> QED BY <1>4, <1>u, <3>2, <4>1 DEF OneUnderWay, One
      <3>3. CASE obj[c].closes # 0
        <4>1. wanted' => wanted
          BY <1>0
        <4> QED BY <1>4, <1>u, <3>1, <3>3, <4>1 DEF OneUnderWay
      <3> QED BY <3>2, <3>3
    <2> QED BY <2>1, <2>2, <2>3, <2>4 DEF Sound
  <1>5. ASSUME ~raced', ~confused' PROVE InStep'
    <2>0. InStep /\ ~raced /\ ~confused
      BY <1>0, <1>c, <1>5 DEF IInv
    <2>1. Stopping'
      BY <1>0, <1>q, <2>0 DEF InStep, Stopping
    <2>2. Before(pending', connection')
      BY <1>0, <1>t, NoForces DEF Added, Before
    <2>3. Resetting'
      <3>1. CASE obj[c].closes = 0
        BY <1>0, <2>0, <3>1 DEF Resetting
      <3>2. CASE obj[c].closes # 0
        <4>1. connection = NoConn
          BY <1>c, <1>5, <3>2
        <4>2. UnderWay' = UnderWay
          BY <1>u, <1>5, <3>2
        <4>3. Within(pending, batch) => Within(pending', batch')
          <5>1. batch' \in Nat
            BY DEF QueueOK
          <5> QED BY <1>t, <5>1 DEF Added
        <4> QED BY <1>0, <2>0, <4>1, <4>2, <4>3 DEF InStep, Resetting
      <3> QED BY <3>1, <3>2
    <2> QED BY <1>0, <1>q, <2>0, <2>1, <2>2, <2>3 DEF InStep
  <1> QED BY <1>1, <1>2, <1>3, <1>4, <1>5 DEF IInv

(* An event closes a connection: not the client's, while the old channel is *)
(* still to be destroyed.                                                   *)
LEMMA CloseByEventKeeps == ASSUME NEW c \in Conn PROVE IInv /\ CloseByEvent(c) => IInv'
  <1> SUFFICES ASSUME IInv, CloseByEvent(c) PROVE IInv'
    OBVIOUS
  <1>0. /\ at = "events" /\ ~restarting /\ c \in ready /\ obj[c] # NoObject
        /\ \/ calls' = calls
           \/ calls.doubles < MaxDoubles /\ calls' = [calls EXCEPT !.doubles = @ + 1]
        /\ HandleClose(c, pending)
        /\ ready' = ready /\ batch' = batch
    BY DEF CloseByEvent
  <1>1. pending \in Seq(Functors)
    BY DEF IInv, QueueOK
  <1>2. calls' \in Calls
    <2>1. calls \in Calls
      BY DEF IInv, NumbersOK
    <2>2. MaxDoubles \in Nat
      BY BoundsAssumption
    <2> QED BY <1>0, <2>1, <2>2 DEF Calls
  <1>3. QueueOK'
    <2>1. pending' = Append(pending, CallOf("connectDestroyed", c))
      BY <1>0 DEF HandleClose, RemoveConnection
    <2> QED BY <1>0, <2>1, FunctorType, QueueAdds DEF IInv
  <1>4. ~raced /\ ~confused /\ obj[c].closes = 0 => channel # "removed"
    <2> SUFFICES ASSUME ~raced, ~confused, obj[c].closes = 0, channel = "removed" PROVE FALSE
      OBVIOUS
    <2>1. c = connection /\ c # NoConn
      BY <1>0, FunctorType DEF IInv, Sound
    <2>2. UnderWay # 0
      BY <2>1, QueuedType DEF IInv, UnderWay, NumbersOK, Names, Plain
    <2> QED BY <1>0, <2>1, <2>2 DEF IInv, InStep, Resetting
  <1> QED BY <1>0, <1>1, <1>2, <1>3, <1>4, HandleCloseKeeps

(* A functor lets go of its connection, which stays as open as it was. *)
LEMMA ReleasedKeeps ==
    ASSUME IInv, at = "functors", ~restarting, batch > 0, batch' = batch - 1,
           Head(pending).op \notin Plain, pending' = Tail(pending),
           NEW objects, objects \in [Conn -> Object \cup {NoObject}],
           \A c \in Conn : /\ objects[c] # NoObject <=> obj[c] # NoObject
                           /\ objects[c].closes = obj[c].closes,
           LetGo(objects, sockets),
           UNCHANGED <<connection, held, connect, state, channel, timers, retry, clientConnect,
                       at, restarting, ready, userPc, calls, wanted, stopped, raced, confused>>
    PROVE  IInv'
  <1>t. /\ Taken(pending, pending', Head(pending)) /\ QueueOK'
        /\ Head(pending) \in Functors
        /\ \A f \in Names : /\ Queued(f) = Queued(f)' + One(f = Head(pending).op)
                            /\ Queued(f) \in Nat /\ Queued(f)' \in Nat
    BY QueueTakes DEF IInv
  <1>q. /\ Queued("startInLoop")' = Queued("startInLoop")
        /\ Queued("stopInLoop")' = Queued("stopInLoop")
        /\ Queued("resetChannel")' = Queued("resetChannel")
    BY <1>t DEF Names, Plain, One
  <1>r. \A d \in Conn : Referenced(d)' => Referenced(d)
    BY <1>t, ReferencedIs DEF Taken
  <1>1. FlagsOK' /\ WheresOK' /\ NumbersOK'
    <2>1. FlagsOK'
      BY DEF IInv, FlagsOK
    <2> QED BY <2>1 DEF IInv, WheresOK, NumbersOK
  <1>2. /\ obj' \in [Conn -> Object \cup {NoObject}]
        /\ Refs' /\ SocketsHold'
        /\ \A d \in Conn : obj'[d] # NoObject => obj'[d] = objects[d]
        /\ \A d \in Conn : Referenced(d)' => obj'[d] = objects[d]
    <2> DEFINE m == Cardinality(Alive)
               k == One(state' = "kConnecting")
    <2>1. \A d \in Conn : Referenced(d)' => objects[d] # NoObject
      BY <1>r DEF IInv, Refs
    <2>2. {d \in Conn : objects[d] # NoObject} = Alive
      BY DEF Alive
    <2>3. m = Cardinality({d \in Conn : objects[d] # NoObject}) /\ m \in Nat
      BY <2>2, ConnSets DEF Alive
    <2>4. k \in Nat
      BY DEF One
    <2>5. sockets \in Nat /\ sockets >= k + m /\ (~confused' => sockets = k + m)
      BY DEF IInv, SocketsHold, Owned
    <2>6. k = One(state' = "kConnecting")
      OBVIOUS
    <2> HIDE DEF m, k
    <2> QED BY <2>1, <2>3, <2>4, <2>5, <2>6, LetGoKeeps
  <1>3. ConnsOK'
    BY <1>2 DEF IInv, ConnsOK
  <1>u. UnderWay' = UnderWay
    BY <1>q DEF UnderWay
  <1>4. ASSUME ~confused' PROVE Sound'
    <2>0. Sound
      BY <1>4 DEF IInv
    <2>1. \A d \in Conn : d = connection' <=> obj'[d] # NoObject /\ obj'[d].closes = 0
      <3>1. \A d \in Conn : d = connection => Referenced(d)'
        BY ReferencedIs
      <3> QED BY <1>2, <2>0, <3>1 DEF Sound
    <2>2. ready' = {}
      BY DEF IInv, ConnsOK
    <2>3. (wanted' => connect' /\ clientConnect') /\ OneUnderWay'
      BY <1>u, <2>0 DEF Sound, OneUnderWay
    <2> QED BY <2>1, <2>2, <2>3 DEF Sound
  <1>5. ASSUME ~raced', ~confused' PROVE InStep'
    <2>0. InStep
      BY <1>5 DEF IInv
    <2>1. Stopping'
      BY <1>q, <2>0 DEF InStep, Stopping
    <2>2. Before(pending', connection')
      BY <1>t, <2>0 DEF InStep, Taken
    <2>3. Within(pending, batch) => Within(pending', batch')
      <3>1. batch \in Nat
        BY DEF IInv, QueueOK
      <3> QED BY <1>t, <3>1 DEF Taken, Plain
    <2>4. Resetting'
      BY <1>u, <2>0, <2>3 DEF InStep, Resetting
    <2> QED BY <1>q, <2>0, <2>1, <2>2, <2>4 DEF InStep
  <1> QED BY <1>1, <1>t, <1>2, <1>3, <1>4, <1>5 DEF IInv

(* connectDestroyed: the connection is out of the poller. *)
LEMMA RunConnectDestroyedKeeps == IInv /\ RunConnectDestroyed => IInv'
  <1> SUFFICES ASSUME IInv, RunConnectDestroyed PROVE IInv'
    OBVIOUS
  <1> DEFINE c       == Head(pending).conn
             objects == Destroyed(c)
  <1>0. /\ at = "functors" /\ ~restarting /\ batch > 0 /\ batch' = batch - 1
        /\ Head(pending).op = "connectDestroyed" /\ pending' = Tail(pending)
        /\ UNCHANGED <<connection, held, connect, state, channel, timers, retry, clientConnect,
                       at, restarting, ready, userPc, calls, wanted, stopped, raced, confused>>
    BY DEF RunConnectDestroyed, Begin, histVars
  <1>l. LetGo(objects, sockets)
    BY DEF RunConnectDestroyed
  <1>1. /\ Taken(pending, pending', Head(pending)) /\ Head(pending) \in Functors
    BY <1>0, QueueTakes DEF IInv
  <1>2. c \in Conn /\ Head(pending).op \notin Plain
    BY <1>0, <1>1, FunctorType DEF Plain
  <1> HIDE DEF c
  <1>3. obj \in [Conn -> Object \cup {NoObject}] /\ obj[c] # NoObject
    <2>1. Referenced(c)
      BY <1>1, <1>2, ReferencedIs DEF Taken, c
    <2> QED BY <1>2, <2>1 DEF IInv, ConnsOK, Refs
  <1> DEFINE new ==
               [state  |-> IF obj[c].state = "kConnected" THEN "kDisconnected" ELSE obj[c].state,
                polled |-> FALSE, closes |-> obj[c].closes]
  <1>4. new \in Object /\ new # NoObject /\ new.closes = obj[c].closes
    <2>1. obj[c] \in Object
      BY <1>2, <1>3
    <2> QED BY <2>1 DEF Object, NoObject
  <1>n. objects = [obj EXCEPT ![c] = new]
    BY DEF Destroyed
  <1> HIDE DEF new, objects
  <1>5. /\ objects \in [Conn -> Object \cup {NoObject}]
        /\ \A d \in Conn : /\ objects[d] # NoObject <=> obj[d] # NoObject
                           /\ objects[d].closes = obj[d].closes
    BY <1>2, <1>3, <1>4, <1>n
  <1> QED BY <1>0, <1>l, <1>2, <1>5, ReleasedKeeps

(* forceCloseInLoop: by then the old channel has been destroyed. *)
LEMMA RunForceCloseKeeps == IInv /\ RunForceClose => IInv'
  <1> SUFFICES ASSUME IInv, RunForceClose PROVE IInv'
    OBVIOUS
  <1> DEFINE c == Head(pending).conn
             t == Tail(pending)
  <1>0. /\ at = "functors" /\ ~restarting /\ batch > 0 /\ batch' = batch - 1
        /\ Head(pending).op = "forceClose" /\ ready' = ready /\ calls' = calls
    BY DEF RunForceClose, Begin
  <1>p. /\ pending \in Seq(Functors) /\ pending # <<>> /\ Len(pending) \in Nat
        /\ batch \in 0 .. Len(pending)
    <2>1. Len(<<>>) = 0
      OBVIOUS
    <2> QED BY <1>0, <2>1 DEF IInv, QueueOK
  <1>1. Taken(pending, t, Head(pending)) /\ Head(pending) \in Functors
    BY <1>p, TailTakes
  <1>2. c \in Conn /\ Head(pending).op \notin Plain
    BY <1>0, <1>1, FunctorType DEF Plain
  <1>3. CASE ~Open(c)
    <2>1. /\ pending' = Tail(pending) /\ LetGo(obj, sockets)
          /\ UNCHANGED <<connection, held, connect, state, channel, timers, retry,
                         clientConnect, at, restarting, userPc, wanted, stopped, raced, confused>>
      BY <1>3 DEF RunForceClose, histVars
    <2>2. obj \in [Conn -> Object \cup {NoObject}]
      BY DEF IInv, ConnsOK
    <2> QED BY <1>0, <1>2, <2>1, <2>2, ReleasedKeeps
  <1>4. CASE Open(c)
    <2>1. HandleClose(c, t)
      BY <1>4 DEF RunForceClose
    <2>2. obj[c] # NoObject
      BY <1>4 DEF Open, NoObject
    <2>3. t \in Seq(Functors) /\ Len(t) = Len(pending) - 1
      BY <1>1 DEF Taken
    <2>4. pending' = Append(t, CallOf("connectDestroyed", c))
      BY <2>1 DEF HandleClose, RemoveConnection
    <2>5. Head(pending).conn = c
      OBVIOUS
    <2> HIDE DEF c, t
    <2>6. QueueOK'
      <3>1. Added(t, pending', CallOf("connectDestroyed", c))
        BY <1>2, <2>3, <2>4, FunctorType, AppendAdds
      <3> QED BY <1>0, <1>p, <2>3, <3>1 DEF Added, QueueOK
    <2>7. \A d \in Conn : Binds(t, d) \/ d = c <=> Binds(pending, d) \/ d = c
      BY <1>1, <2>5 DEF Taken
    <2>8. \A f \in Plain : Count(f, t) = Count(f, pending)
      <3>1. \A f \in Plain : Count(f, pending) = Count(f, t) + One(f = Head(pending).op)
        BY <1>1 DEF Taken, Names
      <3>2. \A f \in Plain : Count(f, t) \in Nat
        BY <2>3, CountType
      <3> QED BY <1>2, <3>1, <3>2 DEF One
    <2>9. Within(pending, batch) => Within(t, batch')
      BY <1>0, <1>p, <1>1 DEF Taken
    <2>10. ~raced /\ ~confused /\ obj[c].closes = 0 => channel # "removed"
      <3> SUFFICES ASSUME ~raced, ~confused, obj[c].closes = 0, channel = "removed" PROVE FALSE
        OBVIOUS
      <3>0. InStep /\ Sound
        BY DEF IInv
      <3>1. c = connection
        BY <1>2, <2>2, <3>0 DEF Sound
      <3>2. 1 \in Forces(pending, connection)
        BY <1>0, <1>p, <2>5, <3>1 DEF Forces
      <3>3. PICK i \in DOMAIN pending : pending[i].op = "resetChannel"
        BY <3>0, QueuedType DEF IInv, InStep, Names, Plain
      <3>4. i < 1
        BY <3>0, <3>2, <3>3 DEF InStep, Before
      <3> QED BY <1>p, <3>3, <3>4
    <2>11. calls' \in Calls
      BY <1>0 DEF IInv, NumbersOK
    <2> QED BY <1>0, <1>2, <2>1, <2>2, <2>3, <2>6, <2>7, <2>8, <2>9, <2>10, <2>11,
               HandleCloseKeeps
  <1> QED BY <1>3, <1>4
----------------------------------------------------------------------------
(* For any number of calls and of connections, with a server that accepts,  *)
(* refuses and closes as it likes: the parts of IInv hold.                  *)
THEOREM InductiveInvariant == Spec => []IInv
  <1>1. Init => IInv
    <2> SUFFICES ASSUME Init PROVE IInv
      OBVIOUS
    <2>0. /\ connect = FALSE /\ state = "kDisconnected" /\ channel = "none" /\ timers = 0
          /\ sockets = 0 /\ retry \in BOOLEAN /\ clientConnect = TRUE /\ connection = NoConn
          /\ obj = [c \in Conn |-> NoObject] /\ at = "poll" /\ restarting = FALSE
          /\ ready = {} /\ batch = 0 /\ pending = <<>> /\ userPc = "idle" /\ held = NoConn
          /\ calls = [connects |-> 0, stops |-> 0, forces |-> 0, doubles |-> 0]
          /\ wanted = FALSE /\ stopped = FALSE /\ raced = FALSE /\ confused = FALSE
      BY DEF Init, ClientInit
    <2>1. FlagsOK
      BY <2>0 DEF FlagsOK
    <2>2. WheresOK /\ QueueOK
      BY <2>0 DEF WheresOK, QueueOK
    <2>3. NumbersOK
      BY <2>0, BoundsAssumption DEF NumbersOK, Calls
    <2>4. ConnsOK
      BY <2>0, FunctorType DEF ConnsOK
    <2>5. pending \in Seq(Functors) /\ DOMAIN pending = {}
      BY <2>0
    <2>6. Refs
      BY <2>0, <2>5, FunctorType DEF Refs, Referenced
    <2>7. SocketsHold
      <3>1. Alive = {}
        BY <2>0 DEF Alive
      <3> QED BY <2>0, <3>1, FS_EmptySet DEF SocketsHold, Owned, One
    <2>q. \A f \in Names : Queued(f) = 0
      <3>1. \A f : {i \in DOMAIN pending : pending[i].op = f} = {}
        BY <2>5
      <3> QED BY <3>1, FS_EmptySet DEF Queued
    <2>8. Sound
      <3>1. OneUnderWay
        BY <2>0, <2>q DEF OneUnderWay, UnderWay, Names, Plain
      <3> QED BY <2>0, <3>1, FunctorType DEF Sound
    <2>9. InStep
      BY <2>0, <2>5, <2>q DEF InStep, Resetting, Before, Stopping, Names, Plain
    <2> QED BY <2>1, <2>2, <2>3, <2>4, <2>6, <2>7, <2>8, <2>9 DEF IInv
  <1>2. IInv /\ [Next]_vars => IInv'
    <2> SUFFICES ASSUME IInv, [Next]_vars PROVE IInv'
      OBVIOUS
    <2>1. CASE LoopStep
      BY <2>1, HandleWriteConnectedKeeps, HandleFailureKeeps, RestartKeeps, CloseByEventKeeps,
         PollReturnsKeeps, RunRetryTimerKeeps, StartDispatchKeeps, SwapFunctorsKeeps,
         RunStartInLoopKeeps, RunStopInLoopKeeps, RunResetChannelKeeps,
         RunConnectDestroyedKeeps, RunForceCloseKeeps, EndIterationKeeps DEF LoopStep
    <2>2. CASE UserStep
      BY <2>2, UserConnectsKeeps, UserStopsKeeps, UserQueuesKeeps, UserDisconnectsKeeps,
         UserShutsDownKeeps, UserForcesKeeps, UserForceSetsKeeps, UserForceQueuesKeeps
         DEF UserStep, UserReturns
    <2>3. CASE UNCHANGED vars
      BY <2>3, StutterKeeps
    <2> QED BY <2>1, <2>2, <2>3 DEF Next
  <1> QED BY <1>1, <1>2, PTL DEF Spec

(* For any number of calls and of connections, closed once or again: while  *)
(* no restart() has undone a stop() and no second close has confused the    *)
(* client, the connector's channel is in the poller exactly while it        *)
(* connects, and a functor to destroy it is queued exactly once it is out.  *)
THEOREM ChannelFollowsState == Spec => []ChannelInStep
  <1>1. IInv => ChannelInStep
    <2> SUFFICES ASSUME IInv PROVE ChannelInStep
      OBVIOUS
    <2>1. TypeOK
      <3>1. FlagsOK /\ WheresOK /\ QueueOK /\ NumbersOK /\ ConnsOK /\ sockets \in Nat
        BY DEF IInv, SocketsHold
      <3>2. /\ {connect, retry, clientConnect, restarting} \subseteq BOOLEAN
            /\ {wanted, stopped, raced, confused} \subseteq BOOLEAN
        BY <3>1, Zenon DEF FlagsOK
      <3>3. /\ state \in {"kDisconnected", "kConnecting", "kConnected"}
            /\ channel \in {"none", "polled", "removed"}
            /\ at \in {"poll", "timers", "events", "functors"}
            /\ userPc \in {"idle", "start", "stop", "disconnect", "set", "queue"}
        BY <3>1 DEF WheresOK
      <3>4. pending \in Seq([op : {"startInLoop", "stopInLoop", "resetChannel"}, conn : {NoConn}]
                            \cup [op : {"connectDestroyed", "forceClose"}, conn : Conn])
            /\ batch \in 0 .. Len(pending)
        BY <3>1 DEF QueueOK, Functors, Plain
      <3>5. /\ timers \in Nat
            /\ calls \in [connects : 0 .. MaxConnects, stops : 0 .. MaxStops,
                          forces : 0 .. MaxForces, doubles : 0 .. MaxDoubles]
        BY <3>1 DEF NumbersOK, Calls
      <3>6. /\ {connection, held} \subseteq Conn \cup {NoConn}
            /\ obj \in [Conn -> Object \cup {NoObject}]
            /\ ready \subseteq Conn \cup {NoConn}
        BY <3>1 DEF ConnsOK
      <3> QED BY <3>1, <3>2, <3>3, <3>4, <3>5, <3>6 DEF TypeOK
    <2> QED BY <2>1 DEF ChannelInStep, IInv, InStep
  <1> QED BY <1>1, InductiveInvariant, PTL

(* For any number of calls and of connections, closed once or again: while  *)
(* no second close has confused the client, there is at most one attempt or *)
(* connection of the client, there is one as long as the client should be   *)
(* connected, and the open sockets are those of the attempt and of the      *)
(* connections that somebody still refers to.                               *)
THEOREM OneAttempt == Spec => []AttemptsAccounted
  <1>1. IInv => AttemptsAccounted
    <2> SUFFICES ASSUME IInv, ~confused PROVE OneUnderWay /\ SocketsAccounted
      BY DEF AttemptsAccounted
    <2>1. Alive = {c \in Conn : Referenced(c)}
      BY DEF IInv, Refs, Alive
    <2>2. SocketsAccounted
      BY <2>1 DEF IInv, SocketsHold, Owned, One, SocketsAccounted
    <2> QED BY <2>2 DEF IInv, Sound
  <1> QED BY <1>1, InductiveInvariant, PTL
=====
