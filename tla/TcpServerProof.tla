--------------------------- MODULE TcpServerProof ---------------------------
(***************************************************************************)
(* Theorems of TcpServer for any number of connections, of threads and of  *)
(* closes.                                                                 *)
(***************************************************************************)
EXTENDS TcpServer, SequenceTheorems, FiniteSetTheorems, TLAPS

Ops == {"connectEstablished", "connectDestroyed", "removeConnection", "forceClose"}
Functors == [op : Ops, conn : Conn]

(* A functor of c waits in l's queue.                                      *)
In(q, l, op, c) == \E i \in DOMAIN q[l] : q[l][i] = Functor(op, c)

Establishing(c) == In(pending, ioLoop[c], "connectEstablished", c)
Destroying(c)   == In(pending, ioLoop[c], "connectDestroyed", c)
ForceClosing(c) == In(pending, ioLoop[c], "forceClose", c)
Removing(c)     == In(pending, Base, "removeConnection", c)

ServerOK ==
    /\ serverPc \in {"new", "serving", "dtor", "gone"}
    /\ numThreads \in 0 .. MaxThreads
    /\ next \in 0 .. MaxThreads
    /\ nextConnId \in 1 .. MaxConns + 1
    /\ connections \subseteq Accepted
    /\ joined \in 0 .. numThreads
    /\ hasty \in BOOLEAN /\ misuse \in BOOLEAN

LoopsOK ==
    /\ at \in [Loop -> {"none", "poll", "functors", "dead"}]
    /\ batch \in [Loop -> Nat]
    /\ pending \in [Loop -> Seq(Functors)]
    /\ quit \in [Loop -> BOOLEAN]
    /\ \A l \in Loop : batch[l] <= Len(pending[l])

ConnsOK ==
    /\ ioLoop \in [Conn -> Loop]
    /\ state \in [Conn -> {"kConnecting", "kConnected", "kDisconnecting", "kDisconnected"}]
    /\ reading \in [Conn -> BOOLEAN]
    /\ index \in [Conn -> {"kNew", "kAdded", "kDeleted"}]
    /\ reported \in [Conn -> BOOLEAN]
    /\ told \in [Conn -> Seq({"up", "down"})]
    /\ closes \in [Conn -> Nat]
    /\ forcing \in {Idle} \cup [pc : {"set", "queue"}, conn : Conn]
    /\ forced \subseteq Conn

(* Before start() there is nothing; the loops are told to quit only by the *)
(* destructor, and the base loop never.  Functors run after the events.    *)
Started ==
    /\ serverPc = "new" => /\ nextConnId = 1 /\ next = 0 /\ numThreads = 0
                           /\ \A l \in Loop : l # Base => at[l] = "none"
    /\ serverPc \in {"new", "serving"} => ~hasty /\ \A l \in Loop : ~quit[l]
    /\ ~quit[Base]
    /\ serverPc = "gone" => connections = {}
    /\ \A l \in Loop : /\ at[l] = "dead" => quit[l]
                       /\ batch[l] > 0 => at[l] = "functors"

(* A functor is in the queue of the loop that has to run it.               *)
Places ==
    \A l \in Loop, op \in Ops, c \in Conn :
        In(pending, l, op, c) =>
            /\ c \in Accepted
            /\ l = IF op = "removeConnection" THEN Base ELSE ioLoop[c]
            /\ op \in {"connectEstablished", "removeConnection"} => ioLoop[c] # Base

(* A connection is established once, and removed once if it closes once.   *)
Lone == {f \in Functors : \/ f.op = "connectEstablished"
                          \/ f.op = "removeConnection" /\ closes[f.conn] < 2}
Once(q, lone) ==
    \A l \in Loop : \A i, j \in DOMAIN q[l] : q[l][i] = q[l][j] /\ q[l][i] \in lone => i = j

InOrder(s) == s[1] = "up" /\ \A i \in 2 .. Len(s) : s[i] = "down"

(* What the callback has heard of c: the connection is up, then an end for *)
(* each close, or the one end that connectDestroyed tells of itself.       *)
Heard(c) ==
    /\ reading[c] <=> Len(told[c]) = 1
    /\ state[c] = "kConnecting" <=> Len(told[c]) = 0
    /\ Len(told[c]) > 0 =>
          /\ InOrder(told[c])
          /\ \/ Len(told[c]) = closes[c] + 1
             \/ /\ Len(told[c]) = 2 /\ closes[c] = 0 /\ c \notin forced
                /\ state[c] = "kDisconnected" /\ index[c] = "kNew"
             \/ hasty /\ c \in forced

(* What a connection's state says of it, whatever the destructor does.     *)
Phase(c) ==
    /\ state[c] = "kConnecting" => index[c] = "kNew" /\ closes[c] = 0 /\ c \notin forced
    /\ state[c] = "kConnected" => reading[c] /\ index[c] = "kAdded"
    /\ state[c] = "kDisconnecting" => reading[c] \/ c \in forced
    /\ state[c] = "kDisconnected" => ~reading[c]
    /\ reading[c] => closes[c] = 0
    /\ c \notin Accepted => state[c] = "kConnecting"
    /\ Establishing(c) => state[c] = "kConnecting"
    /\ Removing(c) => closes[c] > 0
    /\ c \in forced /\ state[c] = "kConnected" => forcing = [pc |-> "set", conn |-> c]
    /\ Forcing(c) \/ ForceClosing(c) => c \in forced
    /\ reported[c] => closes[c] > 0 /\ at[ioLoop[c]] = "poll"

Phases == \A c \in Conn : Heard(c) /\ Phase(c)

(* Where a connection is on its way, unless the destructor came too early. *)
OnItsWay(c) ==
    /\ state[c] = "kConnecting" => Establishing(c)
    /\ state[c] = "kConnecting" \/ reading[c] => c \in connections
    /\ Removing(c) /\ closes[c] < 2 => c \in connections
    /\ Destroying(c) => c \notin connections
    /\ c \notin connections /\ ~Destroying(c) /\ ~Removing(c) => index[c] = "kNew"
    /\ reported[c] => Destroying(c) \/ Removing(c)
    /\ state[c] = "kDisconnecting" /\ ~reading[c] =>
          ForceClosing(c) \/ forcing = [pc |-> "queue", conn |-> c]

(* What the destructor finds when it comes in time.                        *)
InTime(c) ==
    /\ state[c] # "kDisconnecting" /\ ~reported[c]
    /\ ~Forcing(c) /\ ~ForceClosing(c)
    /\ index[c] = "kAdded" => reading[c]
    /\ ioLoop[c] # Base => c \notin connections /\ ~Destroying(c) /\ ~Removing(c)

Stages == ~hasty => /\ ~misuse
                    /\ \A c \in Accepted : /\ OnItsWay(c)
                                           /\ serverPc \in {"dtor", "gone"} => InTime(c)

(* The loops up to next_ have one connection more than the others.         *)
Served(l) == {c \in Accepted : ioLoop[c] = l}
Dealt == /\ numThreads > 0 => next < numThreads
         /\ \E k \in Nat : \A l \in 1 .. numThreads :
                Cardinality(Served(l)) = IF l <= next THEN k + 1 ELSE k

IInv == /\ ServerOK /\ LoopsOK /\ ConnsOK
        /\ Started /\ Places /\ Once(pending, Lone) /\ Phases /\ Stages
        /\ Dealt
----------------------------------------------------------------------------
(* What is in the queues when one of them has grown, and when the functor  *)
(* at the head of one is taken to be run.                                  *)
Pushed(r, q, l, op, c) ==
    /\ r \in [Loop -> Seq(Functors)]
    /\ \A m \in Loop : Len(r[m]) >= Len(q[m])
    /\ \A m \in Loop, o \in Ops, d \in Conn :
          In(r, m, o, d) <=> In(q, m, o, d) \/ (m = l /\ o = op /\ d = c)
    /\ \A lone : Once(q, lone) /\ (Functor(op, c) \in lone => ~In(q, l, op, c)) => Once(r, lone)

Popped(r, q, l, op, c) ==
    /\ r \in [Loop -> Seq(Functors)]
    /\ \A m \in Loop : Len(r[m]) = IF m = l THEN Len(q[m]) - 1 ELSE Len(q[m])
    /\ op \in Ops /\ c \in Conn /\ In(q, l, op, c)
    /\ \A m \in Loop, o \in Ops, d \in Conn :
          /\ In(r, m, o, d) => In(q, m, o, d)
          /\ In(q, m, o, d) => In(r, m, o, d) \/ (m = l /\ o = op /\ d = c)
    /\ \A lone : Once(q, lone) =>
          Once(r, lone) /\ (Functor(op, c) \in lone => ~In(r, l, op, c))

(* A functor is told by its operation and its connection. *)
LEMMA FunctorParts ==
    /\ \A op \in Ops, c \in Conn : Functor(op, c) \in Functors
    /\ \A f \in Functors : f.op \in Ops /\ f.conn \in Conn /\ f = Functor(f.op, f.conn)
    /\ \A op, o \in Ops, c, d \in Conn : Functor(op, c) = Functor(o, d) => op = o /\ c = d
  <1>1. \A op \in Ops, c \in Conn : Functor(op, c) \in Functors
    BY DEF Functor, Functors
  <1>2. \A f \in Functors : f.op \in Ops /\ f.conn \in Conn /\ f = Functor(f.op, f.conn)
    BY DEF Functor, Functors
  <1>3. \A op, o, c, d : Functor(op, c) = Functor(o, d) => op = o /\ c = d
    <2> SUFFICES ASSUME NEW op, NEW o, NEW c, NEW d, Functor(op, c) = Functor(o, d)
                 PROVE  op = o /\ c = d
      OBVIOUS
    <2>1. Functor(op, c).op = op /\ Functor(o, d).op = o
      BY DEF Functor
    <2>2. Functor(op, c).conn = c /\ Functor(o, d).conn = d
      BY DEF Functor
    <2> QED BY <2>1, <2>2
  <1> QED BY <1>1, <1>2, <1>3

(* queueInLoop adds its functor and nothing else. *)
LEMMA Push ==
    ASSUME NEW q \in [Loop -> Seq(Functors)], NEW l \in Loop, NEW op \in Ops, NEW c \in Conn,
           NEW r, r = [q EXCEPT ![l] = Append(@, Functor(op, c))]
    PROVE  Pushed(r, q, l, op, c)
  <1> DEFINE f == Functor(op, c)
             s == q[l]
             t == Append(s, f)
  <1>0. f \in Functors /\ s \in Seq(Functors)
    BY FunctorParts
  <1> HIDE DEF f, s
  <1>1. /\ t \in Seq(Functors) /\ Len(t) = Len(s) + 1 /\ Len(s) \in Nat
        /\ DOMAIN t = 1 .. Len(s) + 1 /\ DOMAIN s = 1 .. Len(s)
        /\ \A i \in 1 .. Len(s) : t[i] = s[i]
        /\ t[Len(s) + 1] = f
    BY <1>0
  <1>2. r = [q EXCEPT ![l] = t]
    BY DEF f, s
  <1>3. \A m \in Loop : m # l => r[m] = q[m]
    BY <1>2
  <1>4. r[l] = t
    BY <1>2
  <1> HIDE DEF t
  <1>5. r \in [Loop -> Seq(Functors)]
    BY <1>1, <1>2
  <1>6. \A m \in Loop : Len(r[m]) >= Len(q[m])
    <2> SUFFICES ASSUME NEW m \in Loop PROVE Len(r[m]) >= Len(q[m])
      OBVIOUS
    <2>1. CASE m = l
      BY <1>1, <1>4, <2>1 DEF s
    <2>2. CASE m # l
      <3>1. Len(q[m]) \in Nat
        OBVIOUS
      <3> QED BY <3>1, <1>3, <2>2
    <2> QED BY <2>1, <2>2
  <1>7. ASSUME NEW m \in Loop, NEW o \in Ops, NEW d \in Conn
        PROVE  In(r, m, o, d) <=> In(q, m, o, d) \/ (m = l /\ o = op /\ d = c)
    <2>1. CASE m # l
      BY <1>3, <2>1 DEF In
    <2>2. CASE m = l
      <3>1. f = Functor(o, d) <=> o = op /\ d = c
        BY FunctorParts DEF f
      <3>2. In(r, m, o, d) <=> \E i \in 1 .. Len(s) + 1 : t[i] = Functor(o, d)
        BY <1>1, <1>4, <2>2 DEF In
      <3>3. In(q, m, o, d) <=> \E i \in 1 .. Len(s) : s[i] = Functor(o, d)
        BY <1>1, <2>2 DEF In, s
      <3>4. \A i \in 1 .. Len(s) + 1 : i \in 1 .. Len(s) \/ i = Len(s) + 1
        BY <1>1
      <3>5. \A i \in 1 .. Len(s) : i \in 1 .. Len(s) + 1
        BY <1>1
      <3>6. Len(s) + 1 \in 1 .. Len(s) + 1
        BY <1>1
      <3> QED BY <1>1, <2>2, <3>1, <3>2, <3>3, <3>4, <3>5, <3>6
    <2> QED BY <2>1, <2>2
  <1>8. ASSUME NEW lone, Once(q, lone), Functor(op, c) \in lone => ~In(q, l, op, c)
        PROVE  Once(r, lone)
    <2> SUFFICES ASSUME NEW m \in Loop, NEW i \in DOMAIN r[m], NEW j \in DOMAIN r[m],
                        r[m][i] = r[m][j], r[m][i] \in lone
                 PROVE  i = j
      BY DEF Once
    <2>1. CASE m # l
      BY <1>3, <1>8, <2>1 DEF Once
    <2>2. CASE m = l
      <3>2. f \in lone => \A k \in 1 .. Len(s) : s[k] # f
        BY <1>1, <1>8 DEF In, s, f
      <3>3. \A k \in 1 .. Len(s) + 1 : k \in 1 .. Len(s) \/ k = Len(s) + 1
        BY <1>1
      <3>4. i \in 1 .. Len(s) + 1 /\ j \in 1 .. Len(s) + 1 /\ t[i] = t[j]
            /\ t[i] \in lone
        BY <1>1, <1>4, <2>2
      <3>5. \A a, b \in 1 .. Len(s) : s[a] = s[b] /\ s[a] \in lone => a = b
        BY <1>1, <1>8 DEF Once, s
      <3> QED BY <1>1, <3>2, <3>3, <3>4, <3>5
    <2> QED BY <2>1, <2>2
  <1> QED BY <1>5, <1>6, <1>7, <1>8 DEF Pushed

(* A loop takes the head of its queue, and the rest waits on. *)
LEMMA Pop ==
    ASSUME NEW q \in [Loop -> Seq(Functors)], NEW l \in Loop, q[l] # <<>>,
           NEW r, r = [q EXCEPT ![l] = Tail(@)]
    PROVE  Popped(r, q, l, Head(q[l]).op, Head(q[l]).conn)
  <1> DEFINE s == q[l]
             t == Tail(s)
             f == Head(s)
             op == f.op
             c == f.conn
  <1>0. s \in Seq(Functors) /\ s # <<>>
    OBVIOUS
  <1>2. r = [q EXCEPT ![l] = t]
    OBVIOUS
  <1> HIDE DEF s
  <1>1. /\ t \in Seq(Functors) /\ Len(t) = Len(s) - 1 /\ Len(s) \in Nat /\ Len(s) > 0
        /\ DOMAIN t = 1 .. Len(s) - 1 /\ DOMAIN s = 1 .. Len(s)
        /\ \A i \in 1 .. Len(s) - 1 : t[i] = s[i + 1]
        /\ s[1] = f /\ f \in Functors
    BY <1>0
  <1>3. \A m \in Loop : m # l => r[m] = q[m]
    BY <1>2
  <1>4. r[l] = t
    BY <1>2
  <1> HIDE DEF t, f
  <1>p. op \in Ops /\ c \in Conn /\ f = Functor(op, c)
    BY <1>1, FunctorParts
  <1>5. r \in [Loop -> Seq(Functors)]
    BY <1>1, <1>2
  <1>6. \A m \in Loop : Len(r[m]) = IF m = l THEN Len(q[m]) - 1 ELSE Len(q[m])
    BY <1>1, <1>3, <1>4 DEF s
  <1>7. In(q, l, op, c)
    <2>1. 1 \in 1 .. Len(s)
      BY <1>1
    <2> QED BY <1>1, <1>p, <2>1 DEF In, s
  <1>8. ASSUME NEW m \in Loop, NEW o \in Ops, NEW d \in Conn
        PROVE  /\ In(r, m, o, d) => In(q, m, o, d)
               /\ In(q, m, o, d) => In(r, m, o, d) \/ (m = l /\ o = op /\ d = c)
    <2>1. CASE m # l
      BY <1>3, <2>1 DEF In
    <2>2. CASE m = l
      <3>1. f = Functor(o, d) => o = op /\ d = c
        BY <1>p, FunctorParts
      <3>2. In(r, m, o, d) <=> \E i \in 1 .. Len(s) - 1 : t[i] = Functor(o, d)
        BY <1>1, <1>4, <2>2 DEF In
      <3>3. In(q, m, o, d) <=> \E i \in 1 .. Len(s) : s[i] = Functor(o, d)
        BY <1>1, <2>2 DEF In, s
      <3>4. \A i \in 1 .. Len(s) - 1 : i + 1 \in 1 .. Len(s)
        BY <1>1
      <3>5. \A i \in 1 .. Len(s) : i = 1 \/ (i - 1 \in 1 .. Len(s) - 1 /\ (i - 1) + 1 = i)
        BY <1>1
      <3>6. In(r, m, o, d) => In(q, m, o, d)
        BY <1>1, <3>2, <3>3, <3>4
      <3>7. ASSUME NEW i \in 1 .. Len(s), s[i] = Functor(o, d), i # 1
            PROVE  In(r, m, o, d)
        <4>1. i - 1 \in 1 .. Len(s) - 1 /\ t[i - 1] = s[(i - 1) + 1] /\ (i - 1) + 1 = i
          BY <1>1, <3>5, <3>7
        <4> QED BY <3>2, <3>7, <4>1
      <3>8. In(q, m, o, d) => In(r, m, o, d) \/ (m = l /\ o = op /\ d = c)
        BY <1>1, <2>2, <3>1, <3>3, <3>7
      <3> QED BY <3>6, <3>8
    <2> QED BY <2>1, <2>2
  <1>9. ASSUME NEW lone, Once(q, lone)
        PROVE  Once(r, lone) /\ (Functor(op, c) \in lone => ~In(r, l, op, c))
    <2>0. \A a, b \in 1 .. Len(s) : s[a] = s[b] /\ s[a] \in lone => a = b
      BY <1>1, <1>9 DEF Once, s
    <2>1. ASSUME NEW i \in 1 .. Len(s) - 1, NEW j \in 1 .. Len(s) - 1,
                 t[i] = t[j], t[i] \in lone
          PROVE  i = j
      <3>1. i + 1 \in 1 .. Len(s) /\ j + 1 \in 1 .. Len(s) /\ s[i + 1] = s[j + 1]
            /\ s[i + 1] \in lone
        BY <1>1, <2>1
      <3>2. i + 1 = j + 1
        BY <2>0, <3>1
      <3> QED BY <3>2
    <2>2. Once(r, lone)
      <3> SUFFICES ASSUME NEW m \in Loop, NEW i \in DOMAIN r[m], NEW j \in DOMAIN r[m],
                          r[m][i] = r[m][j], r[m][i] \in lone
                   PROVE  i = j
        BY DEF Once
      <3>1. CASE m # l
        BY <1>3, <1>9, <3>1 DEF Once
      <3>2. CASE m = l
        BY <1>1, <1>4, <2>1, <3>2
      <3> QED BY <3>1, <3>2
    <2>3. ASSUME f \in lone, In(r, l, op, c) PROVE FALSE
      <3>1. PICK i \in 1 .. Len(s) - 1 : t[i] = f
        BY <1>1, <1>4, <1>p, <2>3 DEF In
      <3>2. i + 1 \in 1 .. Len(s) /\ 1 \in 1 .. Len(s) /\ s[i + 1] = s[1] /\ i + 1 # 1
        BY <1>1, <3>1
      <3> QED BY <1>1, <2>0, <2>3, <3>2
    <2> QED BY <1>p, <2>2, <2>3
  <1>10. Popped(r, q, l, op, c)
    BY <1>5, <1>6, <1>p, <1>7, <1>8, <1>9 DEF Popped
  <1> QED BY <1>10 DEF f, s
----------------------------------------------------------------------------
----------------------------------------------------------------------------
(* The base loop is a loop, and what is accepted is a connection. *)
LEMMA BaseAndLoops == Base \in Loop /\ (\A c \in Accepted : ServerOK => c \in Conn)
  BY BoundsAssumption DEF Base, Loop, Accepted, Conn, ServerOK

(* A connection that a step leaves alone, but that its loop's iteration    *)
(* may have ended, and the functors that wait for it.                      *)
Same(d) ==
    /\ ioLoop'[d] = ioLoop[d] /\ state'[d] = state[d] /\ reading'[d] = reading[d]
    /\ index'[d] = index[d] /\ told'[d] = told[d] /\ closes'[d] = closes[d]
    /\ d \in forced' <=> d \in forced
    /\ d \in Accepted' <=> d \in Accepted
    /\ reported'[d] => reported[d] /\ at'[ioLoop[d]] = "poll"

SameForcing(d) ==
    /\ Forcing(d)' => Forcing(d)
    /\ \A pc : forcing = [pc |-> pc, conn |-> d] => forcing' = forcing

SameQueues(d) ==
    /\ Establishing(d)' <=> Establishing(d)
    /\ Destroying(d)' <=> Destroying(d)
    /\ ForceClosing(d)' <=> ForceClosing(d)
    /\ Removing(d)' <=> Removing(d)

FewerQueues(d) ==
    /\ Establishing(d)' => Establishing(d)
    /\ Destroying(d)' => Destroying(d)
    /\ ForceClosing(d)' => ForceClosing(d)
    /\ Removing(d)' => Removing(d)

(* What holds of such a connection still holds. *)
LEMMA PhaseKept ==
    ASSUME NEW d \in Conn, Heard(d), Phase(d), Same(d), SameForcing(d), hasty => hasty',
           Establishing(d)' => Establishing(d), ForceClosing(d)' => ForceClosing(d),
           Removing(d)' => Removing(d)
    PROVE  Heard(d)' /\ Phase(d)'
  <1>1. Heard(d)'
    BY DEF Heard, Same
  <1>2. Phase(d)'
    BY DEF Phase, Same, SameForcing
  <1> QED BY <1>1, <1>2

LEMMA WayKept ==
    ASSUME NEW d, OnItsWay(d), Same(d), SameForcing(d), SameQueues(d),
           d \in connections' <=> d \in connections
    PROVE  OnItsWay(d)'
  BY DEF OnItsWay, Same, SameForcing, SameQueues

LEMMA InTimeKept ==
    ASSUME NEW d, InTime(d), Same(d), SameForcing(d), FewerQueues(d),
           d \in connections' => d \in connections
    PROVE  InTime(d)'
  BY DEF InTime, Same, SameForcing, FewerQueues

(* Shares change only when a connection is dealt. *)
LEMMA DealtKeeps ==
    ASSUME IInv, UNCHANGED <<numThreads, next, nextConnId, ioLoop>>
    PROVE  Dealt'
  BY DEF IInv, Dealt, Served, Accepted

(* The queues and the connections as they were satisfy what they did. *)
LEMMA SameKeeps ==
    ASSUME IInv, UNCHANGED <<pending, nextConnId, ioLoop, closes>>, hasty => hasty',
           \A d \in Conn : Same(d) /\ SameForcing(d)
    PROVE  /\ Places' /\ Once(pending, Lone)' /\ Phases'
           /\ \A d \in Conn : SameQueues(d) /\ FewerQueues(d)
  <1>1. Accepted' = Accepted
    BY DEF Accepted
  <1>2. Places'
    BY <1>1 DEF IInv, Places, In
  <1>3. Once(pending, Lone)'
    BY DEF IInv, Once, Lone
  <1>4. \A d \in Conn : SameQueues(d) /\ FewerQueues(d)
    BY DEF SameQueues, FewerQueues, Establishing, Destroying, ForceClosing, Removing, In
  <1>5. Phases'
    BY <1>4, PhaseKept DEF IInv, Phases, SameQueues
  <1> QED BY <1>2, <1>3, <1>4, <1>5

(* No connection moves when the server alone does, but for the step into the destructor. *)
LEMMA StagesKeep ==
    ASSUME IInv, UNCHANGED <<pending, nextConnId, connections, ioLoop, hasty, misuse>>,
           \A d \in Conn : Same(d) /\ SameForcing(d) /\ SameQueues(d) /\ FewerQueues(d),
           serverPc' \in {"dtor", "gone"} => serverPc \in {"dtor", "gone"}
    PROVE  Stages'
  <1>1. Accepted' = Accepted /\ \A d \in Accepted : d \in Conn
    BY BaseAndLoops DEF Accepted, IInv
  <1>2. ASSUME NEW d \in Accepted, OnItsWay(d) PROVE OnItsWay(d)'
    BY <1>1, <1>2, WayKept
  <1>3. ASSUME NEW d \in Accepted, InTime(d) PROVE InTime(d)'
    BY <1>1, <1>3, InTimeKept
  <1> QED BY <1>1, <1>2, <1>3 DEF IInv, Stages

(* Every step keeps the invariant, by a lemma for each action.  start() finds no connection yet. *)
LEMMA StartKeeps == IInv /\ Start => IInv'
  <1> SUFFICES ASSUME IInv, Start PROVE IInv'
    OBVIOUS
  <1>0. /\ serverPc = "new" /\ serverPc' = "serving" /\ numThreads' \in 0 .. MaxThreads
        /\ at' = [l \in Loop |-> IF l \in 1 .. numThreads' THEN "poll" ELSE at[l]]
        /\ UNCHANGED <<next, nextConnId, connections, joined, batch, pending, quit, ioLoop, state,
                       reading, index, reported, told, closes, forcing, forced, hasty, misuse>>
    BY DEF Start, StartPool, connVars, forceVars, histVars
  <1>a. Accepted' = Accepted /\ Accepted = {}
    BY <1>0 DEF IInv, Started, Accepted
  <1>1. ServerOK'
    <2>1. joined = 0
      BY <1>0 DEF IInv, ServerOK, Started
    <2> QED BY <1>0, <1>a, <2>1 DEF IInv, ServerOK
  <1>2. LoopsOK'
    BY <1>0 DEF IInv, LoopsOK
  <1>3. ConnsOK'
    BY <1>0 DEF IInv, ConnsOK
  <1>4. Started'
    <2>1. \A l \in Loop : l # Base => at[l] = "none"
      BY <1>0 DEF IInv, Started
    <2>2. Base \notin 1 .. numThreads'
      BY <1>0, BoundsAssumption DEF Base
    <2>3. \A l \in Loop : (at'[l] = "poll" /\ l # Base) \/ at'[l] = at[l]
      BY <1>0, <2>2
    <2> QED BY <1>0, <2>1, <2>3 DEF IInv, Started
  <1>5. \A d \in Conn : Same(d) /\ SameForcing(d)
    <2>1. \A d \in Conn : ~reported[d]
      BY <1>a DEF IInv, Phases, Phase, ConnsOK
    <2> QED BY <1>0, <1>a, <2>1 DEF Same, SameForcing, Forcing
  <1>6. Places' /\ Once(pending, Lone)' /\ Phases' /\ Stages'
    BY <1>0, <1>5, SameKeeps, StagesKeep
  <1>7. Dealt'
    <2>1. nextConnId = 1 /\ next = 0 /\ nextConnId' = 1 /\ next' = 0
      BY <1>0 DEF IInv, Started
    <2>2. \A l : Served(l)' = {}
      BY <2>1 DEF Served, Accepted
    <2>3. Cardinality({}) = 0
      BY FS_EmptySet
    <2>4. \A l \in 1 .. numThreads' : Cardinality(Served(l)') = IF l <= next' THEN 0 + 1 ELSE 0
      BY <1>0, <2>1, <2>2, <2>3
    <2>5. numThreads' > 0 => next' < numThreads'
      BY <1>0, <2>1
    <2> QED BY <2>4, <2>5 DEF Dealt
  <1> QED BY <1>1, <1>2, <1>3, <1>4, <1>6, <1>7 DEF IInv

(* A functor of a connection holds a reference to it. *)
LEMMA FunctorsRefer ==
    ASSUME IInv, NEW c \in Conn
    PROVE  /\ Establishing(c) \/ Destroying(c) \/ ForceClosing(c) \/ Removing(c) => Referenced(c)
           /\ c \in connections \/ Forcing(c) => Referenced(c)
  <1>0. ioLoop[c] \in Loop /\ Base \in Loop
    BY BaseAndLoops DEF IInv, ConnsOK
  <1>1. ASSUME NEW l \in Loop, NEW op, In(pending, l, op, c) PROVE Referenced(c)
    <2>1. PICK i \in DOMAIN pending[l] : pending[l][i] = Functor(op, c)
      BY <1>1 DEF In
    <2>2. pending[l][i].conn = c
      BY <2>1 DEF Functor
    <2> QED BY <2>2 DEF Referenced
  <1>2. c \in connections \/ Forcing(c) => Referenced(c)
    BY DEF Referenced
  <1> QED BY <1>0, <1>1, <1>2 DEF Establishing, Destroying, ForceClosing, Removing

(* A destructor that comes in time finds nothing on its way through another loop. *)
LEMMA DtorBeginsKeeps == IInv /\ DtorBegins => IInv'
  <1> SUFFICES ASSUME IInv, DtorBegins PROVE IInv'
    OBVIOUS
  <1>0. /\ serverPc \in {"new", "serving"} /\ serverPc' = "dtor" /\ hasty' = Hasty
        /\ at[Base] = "functors"
        /\ UNCHANGED <<numThreads, next, nextConnId, connections, joined, at, batch, pending, quit,
                       ioLoop, state, reading, index, reported, told, closes, forcing, forced,
                       misuse>>
    BY DEF DtorBegins, loopVars, connVars, forceVars
  <1>a. Accepted' = Accepted /\ \A c \in Accepted : c \in Conn
    BY <1>0, BaseAndLoops DEF Accepted, IInv
  <1>b. ~hasty /\ hasty' \in BOOLEAN
    BY <1>0 DEF IInv, Started, Hasty
  <1>1. ServerOK'
    BY <1>0, <1>a, <1>b DEF IInv, ServerOK
  <1>2. LoopsOK' /\ ConnsOK' /\ Started'
    BY <1>0 DEF IInv, LoopsOK, ConnsOK, Started
  <1>3. \A d \in Conn : Same(d) /\ SameForcing(d)
    BY <1>0, <1>a DEF Same, SameForcing, Forcing, IInv, Phases, Phase
  <1>4. /\ Places' /\ Once(pending, Lone)' /\ Phases'
        /\ \A d \in Conn : SameQueues(d) /\ FewerQueues(d)
    BY <1>0, <1>3, <1>b, SameKeeps
  <1>5. Stages'
    <2>1. ~misuse /\ \A c \in Accepted : OnItsWay(c)
      BY <1>b DEF IInv, Stages
    <2>2. ASSUME NEW c \in Accepted PROVE OnItsWay(c)'
      BY <1>0, <1>3, <1>4, <1>a, <2>1, WayKept
    <2>3. ASSUME ~Hasty, NEW c \in Accepted PROVE InTime(c)
      <3>0. c \in Conn /\ OnItsWay(c) /\ Phase(c) /\ Heard(c)
        BY <1>a, <2>1 DEF IInv, Phases
      <3>1. ~Forcing(c) /\ (index[c] = "kAdded" /\ ioLoop[c] = Base => reading[c])
        BY <2>3 DEF Hasty
      <3>2. CASE ioLoop[c] = Base
        <4>1. ~ForceClosing(c)
          BY <2>3, <3>2 DEF Hasty, ForceClosing, In
        <4>2. ~reported[c]
          BY <1>0, <3>0, <3>2 DEF Phase
        <4>3. state[c] # "kDisconnecting"
          <5>1. c \in connections => state[c] # "kDisconnecting"
            BY <2>3 DEF Hasty
          <5> QED BY <3>0, <3>1, <4>1, <5>1 DEF OnItsWay, Forcing, Idle
        <4> QED BY <3>1, <3>2, <4>1, <4>2, <4>3 DEF InTime
      <3>3. CASE ioLoop[c] # Base
        <4>1. ~Referenced(c)
          BY <2>3, <3>3 DEF Hasty
        <4>2. ~Destroying(c) /\ ~ForceClosing(c) /\ ~Removing(c) /\ c \notin connections
          BY <3>0, <4>1, FunctorsRefer
        <4>3. index[c] = "kNew" /\ ~reported[c]
          BY <3>0, <4>2 DEF OnItsWay
        <4>4. state[c] # "kDisconnecting"
          BY <3>0, <3>1, <4>2 DEF OnItsWay, Forcing, Idle
        <4> QED BY <3>1, <3>3, <4>2, <4>3, <4>4 DEF InTime
      <3> QED BY <3>2, <3>3
    <2>4. ASSUME ~Hasty, NEW c \in Accepted PROVE InTime(c)'
      BY <1>0, <1>3, <1>4, <1>a, <2>3, <2>4, InTimeKept
    <2> QED BY <1>0, <1>a, <2>1, <2>2, <2>4 DEF Stages
  <1>6. Dealt'
    BY <1>0, DealtKeeps
  <1> QED BY <1>1, <1>2, <1>4, <1>5, <1>6 DEF IInv

(* quit(), join() and the end of the destructor leave the connections alone. *)
LEMMA DtorJoinsThreads == IInv /\ (DtorQuits \/ DtorJoins \/ DtorEnds) => IInv'
  <1> SUFFICES ASSUME IInv, DtorQuits \/ DtorJoins \/ DtorEnds PROVE IInv'
    OBVIOUS
  <1>0. /\ serverPc = "dtor" /\ serverPc' \in {"dtor", "gone"}
        /\ UNCHANGED <<numThreads, next, nextConnId, connections, at, batch, pending, ioLoop, state,
                       reading, index, reported, told, closes, forcing, forced, hasty, misuse>>
    BY DEF DtorQuits, DtorJoins, DtorEnds, serverVars, loopVars, connVars, forceVars, histVars
  <1>a. Accepted' = Accepted
    BY <1>0 DEF Accepted
  <1>1. ServerOK'
    <2>1. joined' \in 0 .. numThreads
      BY DEF DtorQuits, DtorJoins, DtorEnds, serverVars, IInv, ServerOK
    <2> QED BY <1>0, <1>a, <2>1 DEF IInv, ServerOK
  <1>2. quit' \in [Loop -> BOOLEAN] /\ ~quit'[Base] /\ \A l \in Loop : quit[l] => quit'[l]
    <2>1. CASE DtorQuits
      <3>1. joined + 1 \in Loop /\ joined + 1 # Base /\ joined < numThreads
        BY <2>1, BoundsAssumption DEF DtorQuits, IInv, ServerOK, Loop, Base
      <3>2. quit' = [quit EXCEPT ![joined + 1] = TRUE]
        BY <2>1 DEF DtorQuits
      <3>3. quit \in [Loop -> BOOLEAN] /\ ~quit[Base] /\ Base \in Loop
        BY BaseAndLoops DEF IInv, LoopsOK, Started
      <3>4. quit'[Base] = quit[Base]
        BY <3>1, <3>2, <3>3
      <3>5. quit' \in [Loop -> BOOLEAN] /\ \A l \in Loop : quit[l] => quit'[l]
        BY <3>2, <3>3
      <3> QED BY <3>3, <3>4, <3>5
    <2>2. CASE UNCHANGED quit
      BY <2>2 DEF IInv, LoopsOK, Started
    <2> QED BY <2>1, <2>2 DEF DtorJoins, DtorEnds, loopVars
  <1>b. serverPc' = "gone" => connections' = {}
    BY DEF DtorQuits, DtorJoins, DtorEnds, serverVars
  <1>3. LoopsOK' /\ ConnsOK' /\ Started'
    BY <1>0, <1>2, <1>b DEF IInv, LoopsOK, ConnsOK, Started
  <1>4. \A d \in Conn : Same(d) /\ SameForcing(d)
    BY <1>0, <1>a DEF Same, SameForcing, Forcing, IInv, Phases, Phase
  <1>5. Places' /\ Once(pending, Lone)' /\ Phases' /\ Stages' /\ Dealt'
    BY <1>0, <1>4, SameKeeps, StagesKeep, DealtKeeps
  <1> QED BY <1>1, <1>3, <1>5 DEF IInv

(* A loop that swaps its functors out still has them to run, and is done with its events. *)
LEMMA SwapFunctorsKeeps == \A l \in Loop : IInv /\ SwapFunctors(l) => IInv'
  <1> SUFFICES ASSUME NEW l \in Loop, IInv, SwapFunctors(l) PROVE IInv'
    OBVIOUS
  <1>0. /\ Runs(l) /\ at[l] = "poll"
        /\ at' = [at EXCEPT ![l] = "functors"]
        /\ batch' = [batch EXCEPT ![l] = Len(pending[l])]
        /\ reported' = [c \in Conn |-> reported[c] /\ ioLoop[c] # l]
        /\ UNCHANGED <<serverPc, numThreads, next, nextConnId, connections, joined, pending, quit,
                       ioLoop, state, reading, index, told, closes, forcing, forced, hasty, misuse>>
    BY DEF SwapFunctors, serverVars, forceVars, histVars
  <1>a. Accepted' = Accepted
    BY <1>0 DEF Accepted
  <1>1. ServerOK' /\ ConnsOK'
    BY <1>0, <1>a DEF IInv, ServerOK, ConnsOK
  <1>2. LoopsOK'
    <2>1. \A m \in Loop : Len(pending[m]) \in Nat
      BY DEF IInv, LoopsOK
    <2>2. batch' \in [Loop -> Nat] /\ \A m \in Loop : batch'[m] <= Len(pending[m])
      BY <1>0, <2>1 DEF IInv, LoopsOK
    <2> QED BY <1>0, <2>2 DEF IInv, LoopsOK
  <1>3. Started'
    <2>1. at'[l] = "functors" /\ \A m \in Loop : m # l => at'[m] = at[m] /\ batch'[m] = batch[m]
      BY <1>0 DEF IInv, LoopsOK
    <2>2. serverPc = "new" => l = Base
      BY <1>0 DEF IInv, Started
    <2> QED BY <1>0, <2>1, <2>2 DEF IInv, Started
  <1>4. \A d \in Conn : Same(d) /\ SameForcing(d)
    <2>1. ASSUME NEW d \in Conn, reported[d], ioLoop[d] # l PROVE at'[ioLoop[d]] = "poll"
      BY <1>0, <2>1 DEF IInv, Phases, Phase, LoopsOK, ConnsOK
    <2> QED BY <1>0, <1>a, <2>1 DEF Same, SameForcing, Forcing
  <1>5. Places' /\ Once(pending, Lone)' /\ Phases' /\ Stages' /\ Dealt'
    BY <1>0, <1>4, SameKeeps, StagesKeep, DealtKeeps
  <1> QED BY <1>1, <1>2, <1>3, <1>5 DEF IInv

(* A loop that ends takes with it only functors the destructor has made needless. *)
LEMMA EndIterationKeeps == \A l \in Loop : IInv /\ EndIteration(l) => IInv'
  <1> SUFFICES ASSUME NEW l \in Loop, IInv, EndIteration(l) PROVE IInv'
    OBVIOUS
  <1>0. /\ at[l] = "functors" /\ Runs(l)
        /\ at' = [at EXCEPT ![l] = IF quit[l] THEN "dead" ELSE "poll"]
        /\ pending' = [pending EXCEPT ![l] = IF quit[l] THEN <<>> ELSE @]
        /\ batch[l] = 0
        /\ UNCHANGED <<serverPc, numThreads, next, nextConnId, connections, joined, batch, quit,
                       ioLoop, state, reading, index, reported, told, closes, forcing, forced,
                       hasty, misuse>>
    BY DEF EndIteration, Quits, serverVars, connVars, forceVars, histVars
  <1>a. Accepted' = Accepted /\ \A c \in Accepted : c \in Conn
    BY <1>0, BaseAndLoops DEF Accepted, IInv
  <1>1. ServerOK' /\ ConnsOK' /\ Dealt'
    BY <1>0, <1>a, DealtKeeps DEF IInv, ServerOK, ConnsOK
  <1>2. Started'
    <2>1. /\ at'[l] = IF quit[l] THEN "dead" ELSE "poll"
          /\ \A m \in Loop : m # l => at'[m] = at[m]
      BY <1>0 DEF IInv, LoopsOK
    <2>2. serverPc = "new" => l = Base
      BY <1>0 DEF IInv, Started
    <2>3. \A m \in Loop : batch[m] > 0 => m # l
      BY <1>0
    <2> QED BY <1>0, <2>1, <2>2, <2>3 DEF IInv, Started
  <1>3. \A d \in Conn : Same(d) /\ SameForcing(d)
    <2>1. ASSUME NEW d \in Conn, reported[d] PROVE at'[ioLoop[d]] = "poll"
      <3>1. at[ioLoop[d]] = "poll" /\ ioLoop[d] \in Loop
        BY <2>1 DEF IInv, Phases, Phase, ConnsOK
      <3> QED BY <1>0, <3>1 DEF IInv, LoopsOK
    <2> QED BY <1>0, <1>a, <2>1 DEF Same, SameForcing, Forcing
  <1>b. CASE ~quit[l]
    <2>1. pending' = pending
      BY <1>0, <1>b DEF IInv, LoopsOK
    <2>2. LoopsOK'
      BY <1>0, <2>1 DEF IInv, LoopsOK
    <2>3. Places' /\ Once(pending, Lone)' /\ Phases' /\ Stages'
      BY <1>0, <1>3, <2>1, SameKeeps, StagesKeep
    <2> QED BY <1>1, <1>2, <2>2, <2>3 DEF IInv
  <1>c. CASE quit[l]
    <2>0. pending \in [Loop -> Seq(Functors)]
      BY DEF IInv, LoopsOK
    <2>1. pending' = [pending EXCEPT ![l] = <<>>]
      BY <1>0, <1>c
    <2>2. pending'[l] = <<>> /\ \A m \in Loop : m # l => pending'[m] = pending[m]
      BY <2>0, <2>1
    <2>3. \A o, d : ~In(pending', l, o, d)
      BY <2>2 DEF In
    <2>4. \A m \in Loop, o \in Ops, d \in Conn : m # l => (In(pending', m, o, d) <=> In(pending, m, o, d))
      BY <2>2 DEF In
    <2>5. \A m \in Loop, o \in Ops, d \in Conn : In(pending', m, o, d) => In(pending, m, o, d)
      BY <2>3, <2>4
    <2>7. LoopsOK'
      <3>1. pending' \in [Loop -> Seq(Functors)]
        BY <2>0, <2>1
      <3>2. \A m \in Loop : batch[m] <= Len(pending'[m])
        <4>1. Len(<<>>) = 0
          OBVIOUS
        <4> QED BY <1>0, <2>2, <4>1 DEF IInv, LoopsOK
      <3> QED BY <1>0, <3>1, <3>2 DEF IInv, LoopsOK
    <2>8. Places'
      BY <1>0, <1>a, <2>5 DEF IInv, Places
    <2>9. Once(pending, Lone)'
      <3>1. DOMAIN pending'[l] = {} /\ Lone' = Lone
        BY <1>0, <2>2 DEF Lone
      <3> QED BY <2>2, <3>1 DEF IInv, Once
    <2>10. l # Base /\ serverPc \in {"dtor", "gone"}
      BY <1>c DEF IInv, Started, ServerOK
    <2>11. ASSUME NEW d \in Conn
           PROVE  /\ FewerQueues(d) /\ (Removing(d)' <=> Removing(d))
                  /\ ioLoop[d] # l => SameQueues(d)
      <3>1. ioLoop[d] \in Loop /\ Base \in Loop
        BY BaseAndLoops DEF IInv, ConnsOK
      <3>2. Removing(d)' <=> Removing(d)
        BY <2>4, <2>10, <3>1 DEF Removing, Ops
      <3>3. FewerQueues(d)
        BY <1>0, <2>5, <3>1 DEF FewerQueues, Establishing, Destroying, ForceClosing, Removing, Ops
      <3>4. ioLoop[d] # l => SameQueues(d)
        BY <1>0, <2>4, <3>1, <3>2 DEF SameQueues, Establishing, Destroying, ForceClosing, Ops
      <3> QED BY <3>2, <3>3, <3>4
    <2>12. Phases'
      BY <1>0, <1>3, <2>11, PhaseKept DEF IInv, Phases, FewerQueues
    <2>13. Stages'
      <3>1. ASSUME NEW d \in Accepted, OnItsWay(d), InTime(d) PROVE OnItsWay(d)' /\ InTime(d)'
        <4>0. d \in Conn
          BY <1>a
        <4>1. InTime(d)'
          BY <1>0, <1>3, <2>11, <3>1, <4>0, InTimeKept
        <4>2. CASE ioLoop[d] = l
          <5>1. /\ d \notin connections /\ ~Destroying(d) /\ ~Removing(d) /\ ~ForceClosing(d)
                /\ state[d] # "kDisconnecting" /\ ~reported[d]
            BY <2>10, <3>1, <4>2 DEF InTime
          <5>2. /\ state[d] # "kConnecting" /\ ~reading[d] /\ index[d] = "kNew"
            BY <3>1, <5>1 DEF OnItsWay
          <5>3. ~Destroying(d)' /\ ~Removing(d)'
            BY <2>11, <4>0, <5>1 DEF FewerQueues
          <5> QED BY <1>0, <4>1, <5>1, <5>2, <5>3 DEF OnItsWay
        <4>3. CASE ioLoop[d] # l
          BY <1>0, <1>3, <2>11, <3>1, <4>0, <4>1, <4>3, WayKept
        <4> QED BY <4>2, <4>3
      <3> QED BY <1>0, <1>a, <2>10, <3>1 DEF IInv, Stages
    <2> QED BY <1>1, <1>2, <2>7, <2>8, <2>9, <2>12, <2>13 DEF IInv
  <1> QED BY <1>b, <1>c

(* shutdown() of a connection that is up leaves it on its way. *)
LEMMA ShutdownKeeps == \A c \in Conn : IInv /\ Shutdown(c) => IInv'
  <1> SUFFICES ASSUME NEW c \in Conn, IInv, Shutdown(c) PROVE IInv'
    OBVIOUS
  <1>0. /\ Runs(ioLoop[c]) /\ state[c] = "kConnected"
        /\ state' = [state EXCEPT ![c] = "kDisconnecting"]
        /\ UNCHANGED <<serverPc, numThreads, next, nextConnId, connections, joined, at, batch,
                       pending, quit, ioLoop, reading, index, reported, told, closes, forcing,
                       forced, hasty, misuse>>
    BY DEF Shutdown, serverVars, loopVars, forceVars, histVars
  <1>a. Accepted' = Accepted /\ \A d \in Accepted : d \in Conn
    BY <1>0, BaseAndLoops DEF Accepted, IInv
  <1>1. ServerOK' /\ LoopsOK' /\ ConnsOK' /\ Started' /\ Dealt'
    BY <1>0, <1>a, DealtKeeps DEF IInv, ServerOK, LoopsOK, ConnsOK, Started
  <1>2. Places' /\ Once(pending, Lone)'
    BY <1>0, <1>a DEF IInv, Places, Once, In, Lone
  <1>3. \A d \in Conn : SameQueues(d) /\ FewerQueues(d) /\ SameForcing(d)
    BY <1>0 DEF SameQueues, FewerQueues, SameForcing, Forcing, Establishing, Destroying,
                ForceClosing, Removing, In
  <1>4. \A d \in Conn : d # c => Same(d)
    BY <1>0, <1>a DEF Same, IInv, Phases, Phase, ConnsOK
  <1>5. state'[c] = "kDisconnecting" /\ reading[c] /\ Heard(c) /\ Phase(c)
    BY <1>0 DEF IInv, ConnsOK, Phases, Phase
  <1>6. Phases'
    <2>1. Heard(c)' /\ Phase(c)'
      BY <1>0, <1>a, <1>3, <1>5 DEF Heard, Phase, FewerQueues, Forcing
    <2> QED BY <1>0, <1>3, <1>4, <2>1, PhaseKept DEF IInv, Phases, FewerQueues
  <1>7. Stages'
    <2>1. ASSUME ~hasty PROVE OnItsWay(c)' /\ (c \in Accepted => serverPc \notin {"dtor", "gone"})
      <3>1. c \in Accepted
        BY <1>0 DEF IInv, Phases, Phase
      <3>2. OnItsWay(c) /\ c \in connections
        BY <1>5, <2>1, <3>1 DEF IInv, Stages, OnItsWay
      <3>3. serverPc \in {"dtor", "gone"} => serverPc = "dtor" /\ ioLoop[c] = Base
        BY <2>1, <3>1, <3>2 DEF IInv, Stages, InTime, Started
      <3>4. serverPc \notin {"dtor", "gone"}
        BY <1>0, <3>3 DEF Runs
      <3> QED BY <1>0, <1>3, <1>5, <3>2, <3>4 DEF OnItsWay, SameQueues
    <2>2. ASSUME NEW d \in Accepted, d # c, OnItsWay(d) PROVE OnItsWay(d)'
      BY <1>0, <1>3, <1>4, <1>a, <2>2, WayKept
    <2>3. ASSUME NEW d \in Accepted, d # c, InTime(d) PROVE InTime(d)'
      BY <1>0, <1>3, <1>4, <1>a, <2>3, InTimeKept
    <2> QED BY <1>0, <1>a, <2>1, <2>2, <2>3 DEF IInv, Stages
  <1> QED BY <1>1, <1>2, <1>6, <1>7 DEF IInv

(* forceClose() of another thread looks at state_: too late, once the destructor has begun. *)
LEMMA ForceCloseChecksKeeps == \A c \in Conn : IInv /\ ForceCloseChecks(c) => IInv'
  <1> SUFFICES ASSUME NEW c \in Conn, IInv, ForceCloseChecks(c) PROVE IInv'
    OBVIOUS
  <1>0. /\ Open(c) /\ forcing = Idle /\ c \notin forced
        /\ forcing' = [pc |-> "set", conn |-> c] /\ forced' = forced \cup {c}
        /\ hasty' = (hasty \/ serverPc \in {"dtor", "gone"})
        /\ UNCHANGED <<serverPc, numThreads, next, nextConnId, connections, joined, at, batch,
                       pending, quit, ioLoop, state, reading, index, reported, told, closes,
                       misuse>>
    BY DEF ForceCloseChecks, serverVars, loopVars, connVars
  <1>a. Accepted' = Accepted /\ \A d \in Accepted : d \in Conn
    BY <1>0, BaseAndLoops DEF Accepted, IInv
  <1>b. hasty' \in BOOLEAN /\ (hasty => hasty') /\ (hasty' => hasty \/ serverPc \in {"dtor", "gone"})
    BY <1>0 DEF IInv, ServerOK
  <1>1. ServerOK' /\ LoopsOK' /\ ConnsOK' /\ Started' /\ Dealt'
    BY <1>0, <1>a, <1>b, DealtKeeps DEF IInv, ServerOK, LoopsOK, ConnsOK, Started
  <1>2. Places' /\ Once(pending, Lone)'
    BY <1>0, <1>a DEF IInv, Places, Once, In, Lone
  <1>3. \A d \in Conn : SameQueues(d) /\ FewerQueues(d)
    BY <1>0 DEF SameQueues, FewerQueues, Establishing, Destroying, ForceClosing, Removing, In
  <1>4. \A d \in Conn : d # c => Same(d) /\ SameForcing(d)
    BY <1>0, <1>a DEF Same, SameForcing, Forcing, Idle, IInv, Phases, Phase, ConnsOK
  <1>5. Heard(c) /\ Phase(c)
    BY DEF IInv, Phases
  <1>6. Phases'
    <2>1. Heard(c)'
      BY <1>0, <1>b, <1>5 DEF Heard, Open
    <2>2. Phase(c)'
      BY <1>0, <1>a, <1>3, <1>5 DEF Phase, FewerQueues, Open
    <2> QED BY <1>3, <1>4, <1>b, <2>1, <2>2, PhaseKept DEF IInv, Phases, FewerQueues
  <1>7. Stages'
    <2>1. ASSUME ~hasty', NEW d \in Accepted PROVE OnItsWay(d)'
      <3>1. d \in Conn /\ OnItsWay(d) /\ ~hasty
        BY <1>a, <1>b, <2>1 DEF IInv, Stages
      <3>2. CASE d = c
        BY <1>0, <1>3, <3>1, <3>2 DEF OnItsWay, SameQueues, Idle
      <3>3. CASE d # c
        BY <1>0, <1>3, <1>4, <3>1, <3>3, WayKept
      <3> QED BY <3>2, <3>3
    <2> QED BY <1>0, <1>a, <1>b, <2>1 DEF IInv, Stages
  <1> QED BY <1>1, <1>2, <1>6, <1>7 DEF IInv

(* It sets state_, whatever the connection has come to since. *)
LEMMA ForceCloseSetsKeeps == IInv /\ ForceCloseSets => IInv'
  <1> SUFFICES ASSUME IInv, ForceCloseSets PROVE IInv'
    OBVIOUS
  <1>p. PICK c \in Conn : forcing = [pc |-> "set", conn |-> c]
    <2>1. forcing.pc = "set" /\ forcing # Idle
      BY DEF ForceCloseSets, Idle
    <2>2. forcing \in [pc : {"set", "queue"}, conn : Conn]
      BY <2>1 DEF IInv, ConnsOK
    <2> QED BY <2>1, <2>2
  <1>0. /\ forcing' = [pc |-> "queue", conn |-> c]
        /\ state' = [state EXCEPT ![c] = "kDisconnecting"]
        /\ UNCHANGED <<serverPc, numThreads, next, nextConnId, connections, joined, at, batch,
                       pending, quit, ioLoop, reading, index, reported, told, closes, forced,
                       hasty, misuse>>
    BY <1>p DEF ForceCloseSets, serverVars, loopVars, histVars
  <1>a. Accepted' = Accepted /\ \A d \in Accepted : d \in Conn
    BY <1>0, BaseAndLoops DEF Accepted, IInv
  <1>1. ServerOK' /\ LoopsOK' /\ Started' /\ Dealt'
    BY <1>0, <1>a, DealtKeeps DEF IInv, ServerOK, LoopsOK, Started
  <1>b. ConnsOK'
    BY <1>0 DEF IInv, ConnsOK
  <1>2. Places' /\ Once(pending, Lone)'
    BY <1>0, <1>a DEF IInv, Places, Once, In, Lone
  <1>3. \A d \in Conn : SameQueues(d) /\ FewerQueues(d)
    BY <1>0 DEF SameQueues, FewerQueues, Establishing, Destroying, ForceClosing, Removing, In
  <1>c. Forcing(c) /\ Forcing(c)' /\ \A d \in Conn : d # c => ~Forcing(d) /\ ~Forcing(d)'
    BY <1>0, <1>p DEF Forcing, Idle
  <1>4. \A d \in Conn : d # c => Same(d) /\ SameForcing(d)
    <2>1. \A d \in Conn : d # c => Same(d)
      BY <1>0, <1>a DEF Same, IInv, Phases, Phase, ConnsOK
    <2>2. \A d \in Conn : d # c => SameForcing(d)
      BY <1>c, <1>p DEF SameForcing
    <2> QED BY <2>1, <2>2
  <1>5. state'[c] = "kDisconnecting" /\ Heard(c) /\ Phase(c) /\ c \in forced
    BY <1>0, <1>c DEF IInv, ConnsOK, Phases, Phase
  <1>d. c \in Accepted /\ state[c] # "kConnecting"
    BY <1>5 DEF Phase
  <1>6. Phases'
    <2>1. Heard(c)'
      BY <1>0, <1>5, <1>d DEF Heard
    <2>2. Phase(c)'
      BY <1>0, <1>a, <1>3, <1>5, <1>d DEF Phase, FewerQueues
    <2> QED BY <1>0, <1>3, <1>4, <2>1, <2>2, PhaseKept DEF IInv, Phases, FewerQueues
  <1>7. Stages'
    <2>1. ASSUME ~hasty PROVE OnItsWay(c)' /\ serverPc \notin {"dtor", "gone"}
      <3>1. OnItsWay(c)
        BY <1>d, <2>1 DEF IInv, Stages
      <3>2. serverPc \notin {"dtor", "gone"}
        BY <1>c, <1>d, <2>1 DEF IInv, Stages, InTime
      <3> QED BY <1>0, <1>3, <1>5, <3>1, <3>2 DEF OnItsWay, SameQueues
    <2>2. ASSUME NEW d \in Accepted, d # c, OnItsWay(d) PROVE OnItsWay(d)'
      BY <1>0, <1>3, <1>4, <1>a, <2>2, WayKept
    <2> QED BY <1>0, <1>a, <2>1, <2>2 DEF IInv, Stages
  <1> QED BY <1>1, <1>b, <1>2, <1>6, <1>7 DEF IInv

(* It queues forceCloseInLoop, in a loop that still runs. *)
LEMMA ForceCloseQueuesKeeps == IInv /\ ForceCloseQueues => IInv'
  <1> SUFFICES ASSUME IInv, ForceCloseQueues PROVE IInv'
    OBVIOUS
  <1>p. PICK c \in Conn : forcing = [pc |-> "queue", conn |-> c]
    <2>1. forcing.pc = "queue" /\ forcing # Idle
      BY DEF ForceCloseQueues, Idle
    <2>2. forcing \in [pc : {"set", "queue"}, conn : Conn]
      BY <2>1 DEF IInv, ConnsOK
    <2> QED BY <2>1, <2>2
  <1>0. /\ forcing' = Idle
        /\ IF at[ioLoop[c]] = "dead"
           THEN misuse' = TRUE /\ UNCHANGED pending
           ELSE /\ pending' = [pending EXCEPT ![ioLoop[c]] = Append(@, Functor("forceClose", c))]
                /\ UNCHANGED misuse
        /\ UNCHANGED <<serverPc, numThreads, next, nextConnId, connections, joined, at, batch,
                       quit, ioLoop, state, reading, index, reported, told, closes, forced, hasty>>
    BY <1>p DEF ForceCloseQueues, serverVars, connVars, Queued
  <1>a. Accepted' = Accepted /\ (\A d \in Accepted : d \in Conn) /\ ioLoop[c] \in Loop
    BY <1>0, BaseAndLoops DEF Accepted, IInv, ConnsOK
  <1>c. Forcing(c) /\ (\A d \in Conn : ~Forcing(d)') /\ \A d \in Conn : d # c => ~Forcing(d)
    BY <1>0, <1>p DEF Forcing, Idle
  <1>5. Heard(c) /\ Phase(c) /\ c \in forced /\ c \in Accepted /\ state[c] # "kConnected"
    <2>1. c \in forced /\ state[c] # "kConnected"
      BY <1>c, <1>p DEF IInv, Phases, Phase
    <2> QED BY <2>1 DEF IInv, Phases, Phase
  <1>6. \A d \in Conn : SameForcing(d) \/ d = c
    BY <1>c, <1>p DEF SameForcing
  <1>7. \A d \in Conn : Same(d)
    BY <1>0, <1>a DEF Same, IInv, Phases, Phase, ConnsOK
  <1>1. misuse' \in BOOLEAN
    BY <1>0 DEF IInv, ServerOK
  <1>2. ServerOK' /\ ConnsOK' /\ Started' /\ Dealt'
    BY <1>0, <1>1, <1>a, DealtKeeps DEF IInv, ServerOK, ConnsOK, Started
  <1>d. CASE at[ioLoop[c]] = "dead"
    <2>1. pending' = pending
      BY <1>0, <1>d
    <2>2. LoopsOK'
      BY <1>0, <2>1 DEF IInv, LoopsOK
    <2>3. Places' /\ Once(pending, Lone)'
      BY <1>0, <1>a, <2>1 DEF IInv, Places, Once, In, Lone
    <2>4. \A d \in Conn : FewerQueues(d)
      BY <1>0, <2>1 DEF FewerQueues, Establishing, Destroying, ForceClosing, Removing, In
    <2>5. Phases'
      <3>1. Heard(c)' /\ Phase(c)'
        BY <1>0, <1>a, <1>c, <1>5, <2>4 DEF Heard, Phase, FewerQueues
      <3> QED BY <1>0, <1>6, <1>7, <2>4, <3>1, PhaseKept DEF IInv, Phases, FewerQueues
    <2>6. hasty
      <3>1. serverPc \in {"dtor", "gone"}
        BY <1>a, <1>d DEF IInv, Started, ServerOK
      <3>2. ~hasty => ~Forcing(c)
        BY <1>5, <3>1 DEF IInv, Stages, InTime
      <3> QED BY <1>c, <3>2 DEF IInv, ServerOK
    <2> QED BY <1>0, <1>2, <2>2, <2>3, <2>5, <2>6 DEF IInv, Stages
  <1>e. CASE at[ioLoop[c]] # "dead"
    <2>1. Pushed(pending', pending, ioLoop[c], "forceClose", c)
      <3>1. pending \in [Loop -> Seq(Functors)] /\ "forceClose" \in Ops
        BY DEF IInv, LoopsOK, Ops
      <3> QED BY <1>0, <1>a, <1>e, <3>1, Push
    <2>2. LoopsOK'
      <3>1. \A m \in Loop : Len(pending[m]) \in Nat /\ Len(pending'[m]) \in Nat
        BY <2>1 DEF IInv, LoopsOK, Pushed
      <3>2. \A m \in Loop : batch'[m] <= Len(pending'[m])
        BY <1>0, <2>1, <3>1 DEF IInv, LoopsOK, Pushed
      <3> QED BY <1>0, <2>1, <3>2 DEF IInv, LoopsOK, Pushed
    <2>3. Places' /\ Once(pending, Lone)'
      <3>1. Functor("forceClose", c) \notin Lone /\ Lone' = Lone
        BY <1>0 DEF Lone, Functor
      <3>2. Once(pending, Lone)'
        <4>1. Once(pending', Lone)
          BY <2>1, <3>1 DEF IInv, Pushed
        <4> QED BY <3>1, <4>1 DEF Once
      <3>3. Places'
        BY <1>0, <1>a, <1>5, <2>1 DEF IInv, Places, Pushed
      <3> QED BY <3>2, <3>3
    <2>4. ASSUME NEW d \in Conn
          PROVE  /\ Establishing(d)' <=> Establishing(d)
                 /\ Removing(d)' <=> Removing(d)
                 /\ Destroying(d)' <=> Destroying(d)
                 /\ ForceClosing(d)' <=> ForceClosing(d) \/ d = c
      <3>0. ioLoop[d] \in Loop /\ Base \in Loop
        BY BaseAndLoops DEF IInv, ConnsOK
      <3> QED BY <1>0, <2>1, <3>0
              DEF Pushed, Establishing, Removing, Destroying, ForceClosing, Ops
    <2>5. \A d \in Conn : d # c => SameQueues(d) /\ FewerQueues(d) /\ SameForcing(d)
      BY <1>6, <2>4 DEF SameQueues, FewerQueues
    <2>6. Phases'
      <3>1. Heard(c)' /\ Phase(c)'
        BY <1>0, <1>a, <1>c, <1>5, <2>4 DEF Heard, Phase
      <3> QED BY <1>0, <1>7, <2>5, <3>1, PhaseKept DEF IInv, Phases, FewerQueues
    <2>7. Stages'
      <3>1. ASSUME ~hasty PROVE OnItsWay(c)' /\ serverPc \notin {"dtor", "gone"}
        <4>1. OnItsWay(c)
          BY <1>5, <3>1 DEF IInv, Stages
        <4>2. serverPc \notin {"dtor", "gone"}
          BY <1>c, <1>5, <3>1 DEF IInv, Stages, InTime
        <4> QED BY <1>0, <2>4, <4>1, <4>2 DEF OnItsWay
      <3>2. ASSUME NEW d \in Accepted, d # c, OnItsWay(d) PROVE OnItsWay(d)'
        BY <1>0, <1>7, <2>5, <1>a, <3>2, WayKept
      <3> QED BY <1>0, <1>a, <1>e, <3>1, <3>2 DEF IInv, Stages
    <2> QED BY <1>2, <2>2, <2>3, <2>6, <2>7 DEF IInv
  <1> QED BY <1>d, <1>e

(* A functor is taken from l's queue: what is left is as the lemma Pop says. *)
LEMMA BeginPops ==
    ASSUME IInv, NEW l \in Loop, NEW op, Begin(l, op)
    PROVE  /\ Popped(Rest(l), pending, l, op, Head(pending[l]).conn)
           /\ Head(pending[l]).conn \in Accepted
           /\ \A m \in Loop : batch'[m] <= Len(Rest(l)[m]) /\ batch'[m] <= batch[m]
           /\ batch' \in [Loop -> Nat]
           /\ at[l] = "functors"
  <1>0. /\ batch[l] > 0 /\ Head(pending[l]).op = op
        /\ batch' = [batch EXCEPT ![l] = @ - 1]
    BY DEF Begin
  <1>1. /\ pending \in [Loop -> Seq(Functors)] /\ batch \in [Loop -> Nat]
        /\ \A m \in Loop : batch[m] <= Len(pending[m])
    BY DEF IInv, LoopsOK
  <1>2. pending[l] # <<>>
    <2>1. Len(<<>>) = 0
      OBVIOUS
    <2> QED BY <1>0, <1>1, <2>1
  <1>3. Rest(l) = [pending EXCEPT ![l] = Tail(@)]
    BY DEF Rest
  <1>4. Popped(Rest(l), pending, l, op, Head(pending[l]).conn)
    BY <1>0, <1>1, <1>2, <1>3, Pop
  <1>5. Head(pending[l]).conn \in Accepted
    BY <1>4 DEF IInv, Places, Popped
  <1>6. batch' \in [Loop -> Nat]
    BY <1>0, <1>1
  <1>7. \A m \in Loop : batch'[m] <= Len(Rest(l)[m]) /\ batch'[m] <= batch[m]
    <2> SUFFICES ASSUME NEW m \in Loop
                 PROVE  batch'[m] <= Len(Rest(l)[m]) /\ batch'[m] <= batch[m]
      OBVIOUS
    <2>1. Len(pending[m]) \in Nat
      BY <1>1
    <2>2. batch'[m] = IF m = l THEN batch[m] - 1 ELSE batch[m]
      BY <1>0, <1>1
    <2>3. Len(Rest(l)[m]) = IF m = l THEN Len(pending[m]) - 1 ELSE Len(pending[m])
      BY <1>4 DEF Popped
    <2> QED BY <1>1, <2>1, <2>2, <2>3
  <1>8. at[l] = "functors"
    BY <1>0 DEF IInv, Started
  <1> QED BY <1>4, <1>5, <1>6, <1>7, <1>8

(* The loops' batches and the server's own state, when a functor has been taken. *)
LEMMA BatchKeeps ==
    ASSUME IInv, batch' \in [Loop -> Nat], \A m \in Loop : batch'[m] <= batch[m],
           UNCHANGED <<serverPc, numThreads, next, nextConnId, connections, at, quit, hasty>>
    PROVE  Started'
  <1>1. \A m \in Loop : batch[m] \in Nat /\ batch'[m] \in Nat
    BY DEF IInv, LoopsOK
  <1>2. \A m \in Loop : batch'[m] > 0 => batch[m] > 0
    BY <1>1
  <1> QED BY <1>2 DEF IInv, Started

(* What the connection callback hears first, and last. *)
LEMMA HearsUp ==
    ASSUME NEW s \in Seq({"up", "down"}), Len(s) = 0
    PROVE  LET t == Append(s, "up")
           IN  t \in Seq({"up", "down"}) /\ Len(t) = 1 /\ InOrder(t)
  <1> DEFINE t == Append(s, "up")
  <1>1. t \in Seq({"up", "down"}) /\ Len(t) = 1 /\ t[1] = "up"
    OBVIOUS
  <1> HIDE DEF t
  <1>2. InOrder(t)
    BY <1>1 DEF InOrder
  <1> QED BY <1>1, <1>2 DEF t

LEMMA HearsDown ==
    ASSUME NEW s \in Seq({"up", "down"}), Len(s) > 0, InOrder(s)
    PROVE  LET t == Append(s, "down")
           IN  t \in Seq({"up", "down"}) /\ Len(t) = Len(s) + 1 /\ InOrder(t)
  <1> DEFINE t == Append(s, "down")
  <1>1. /\ t \in Seq({"up", "down"}) /\ Len(t) = Len(s) + 1 /\ Len(s) \in Nat
        /\ \A i \in 1 .. Len(s) : t[i] = s[i]
        /\ t[Len(s) + 1] = "down"
    OBVIOUS
  <1> HIDE DEF t
  <1>2. \A i \in 2 .. Len(t) : i \in 2 .. Len(s) \/ i = Len(s) + 1
    BY <1>1
  <1>3. \A i \in 2 .. Len(s) : i \in 1 .. Len(s)
    BY <1>1
  <1>4. 1 \in 1 .. Len(s)
    BY <1>1
  <1>5. InOrder(t)
    BY <1>1, <1>2, <1>3, <1>4 DEF InOrder
  <1> QED BY <1>1, <1>5 DEF t

(* The one connectEstablished of a connection finds it connecting. *)
LEMMA RunConnectEstablishedKeeps == \A l \in Loop : IInv /\ RunConnectEstablished(l) => IInv'
  <1> SUFFICES ASSUME NEW l \in Loop, IInv, RunConnectEstablished(l) PROVE IInv'
    OBVIOUS
  <1>p. PICK c \in Accepted : c = Head(pending[l]).conn
    BY BeginPops DEF RunConnectEstablished
  <1>0. /\ Begin(l, "connectEstablished") /\ ConnectEstablished(c) /\ pending' = Rest(l)
        /\ UNCHANGED <<serverPc, numThreads, next, nextConnId, connections, joined, at, quit,
                       ioLoop, reported, closes, forcing, forced, hasty, misuse>>
    BY <1>p DEF RunConnectEstablished, Begin, forceVars
  <1>1. /\ Popped(pending', pending, l, "connectEstablished", c) /\ c \in Accepted
        /\ \A m \in Loop : batch'[m] <= Len(pending'[m]) /\ batch'[m] <= batch[m]
        /\ batch' \in [Loop -> Nat]
    BY <1>0, <1>p, BeginPops
  <1>a. Accepted' = Accepted /\ c \in Conn /\ \A d \in Accepted : d \in Conn
    BY <1>0, <1>1, BaseAndLoops DEF Accepted, IInv
  <1>b. l = ioLoop[c] /\ ioLoop[c] # Base /\ Establishing(c)
    BY <1>1, <1>a DEF IInv, Places, Popped, Ops, Establishing
  <1>c. /\ state[c] = "kConnecting" /\ Len(told[c]) = 0 /\ ~reading[c] /\ closes[c] = 0
        /\ c \notin forced /\ told[c] \in Seq({"up", "down"})
        /\ Phase(c) /\ Heard(c)
    <2>1. Phase(c) /\ Heard(c) /\ told[c] \in Seq({"up", "down"})
      BY <1>a DEF IInv, Phases, ConnsOK
    <2>2. state[c] = "kConnecting" /\ closes[c] = 0 /\ c \notin forced
      BY <1>b, <2>1 DEF Phase
    <2>3. Len(told[c]) = 0 /\ ~reading[c]
      BY <2>1, <2>2 DEF Heard
    <2> QED BY <2>1, <2>2, <2>3
  <1>d. /\ state' = [state EXCEPT ![c] = "kConnected"]
        /\ reading' = [reading EXCEPT ![c] = TRUE]
        /\ index' = [index EXCEPT ![c] = "kAdded"]
        /\ told' = [told EXCEPT ![c] = Append(@, "up")]
    BY <1>0 DEF ConnectEstablished
  <1>e. LET t == Append(told[c], "up")
        IN  t \in Seq({"up", "down"}) /\ Len(t) = 1 /\ InOrder(t)
    BY <1>c, HearsUp
  <1>2. ServerOK' /\ Started' /\ Dealt'
    BY <1>0, <1>1, <1>a, BatchKeeps, DealtKeeps DEF IInv, ServerOK
  <1>3. LoopsOK'
    BY <1>0, <1>1 DEF IInv, LoopsOK, Popped
  <1>4. ConnsOK'
    <2>1. told' \in [Conn -> Seq({"up", "down"})]
      BY <1>a, <1>d, <1>e DEF IInv, ConnsOK
    <2> QED BY <1>0, <1>d, <2>1 DEF IInv, ConnsOK
  <1>5. Places'
    BY <1>0, <1>1, <1>a DEF IInv, Places, Popped
  <1>l. Lone' = Lone /\ Functor("connectEstablished", c) \in Lone
    <2>1. "connectEstablished" \in Ops
      BY DEF Ops
    <2> QED BY <1>0, <1>a, <2>1 DEF Lone, Functors, Functor
  <1>o. Once(pending, Lone)' /\ ~In(pending', l, "connectEstablished", c)
    <2>1. Once(pending', Lone) /\ ~In(pending', l, "connectEstablished", c)
      BY <1>1, <1>l DEF IInv, Popped
    <2> QED BY <1>l, <2>1 DEF Once
  <1>6. ASSUME NEW d \in Conn
        PROVE  /\ Establishing(d)' <=> Establishing(d) /\ d # c
               /\ Removing(d)' <=> Removing(d)
               /\ Destroying(d)' <=> Destroying(d)
               /\ ForceClosing(d)' <=> ForceClosing(d)
    <2>1. ioLoop[d] \in Loop /\ Base \in Loop
      BY BaseAndLoops DEF IInv, ConnsOK
    <2> QED BY <1>0, <1>1, <1>b, <1>o, <2>1
            DEF Popped, Establishing, Removing, Destroying, ForceClosing, Ops
  <1>7. \A d \in Conn : d # c => Same(d) /\ SameForcing(d) /\ SameQueues(d) /\ FewerQueues(d)
    <2>1. \A d \in Conn : d # c => Same(d) /\ SameForcing(d)
      BY <1>0, <1>a, <1>d DEF Same, SameForcing, Forcing, IInv, Phases, Phase, ConnsOK
    <2> QED BY <1>6, <2>1 DEF SameQueues, FewerQueues
  <1>8. /\ state'[c] = "kConnected" /\ reading'[c] /\ index'[c] = "kAdded"
        /\ Len(told'[c]) = 1 /\ InOrder(told'[c])
    BY <1>a, <1>d, <1>e DEF IInv, ConnsOK
  <1>9. Phases'
    <2>1. Heard(c)'
      BY <1>0, <1>8, <1>c DEF Heard
    <2>2. Phase(c)'
      BY <1>0, <1>1, <1>a, <1>6, <1>8, <1>c DEF Phase, Forcing
    <2> QED BY <1>0, <1>7, <2>1, <2>2, PhaseKept DEF IInv, Phases, FewerQueues
  <1>10. Stages'
    <2>1. ASSUME ~hasty PROVE OnItsWay(c)' /\ serverPc \notin {"dtor", "gone"}
      <3>1. OnItsWay(c) /\ c \in connections
        BY <1>1, <1>c, <2>1 DEF IInv, Stages, OnItsWay
      <3>2. serverPc \notin {"dtor", "gone"}
        BY <1>1, <1>b, <2>1, <3>1 DEF IInv, Stages, InTime
      <3> QED BY <1>0, <1>a, <1>6, <1>8, <3>1, <3>2 DEF OnItsWay
    <2>2. ASSUME NEW d \in Accepted, d # c, OnItsWay(d) PROVE OnItsWay(d)'
      BY <1>0, <1>7, <1>a, <2>2, WayKept
    <2> QED BY <1>0, <1>a, <1>p, <2>1, <2>2 DEF IInv, Stages
  <1> QED BY <1>2, <1>3, <1>4, <1>5, <1>o, <1>9, <1>10 DEF IInv

(* connectDestroyed, run by a loop or by the destructor. *)
LEMMA ConnectDestroyedKeeps ==
    ASSUME IInv, NEW c \in Conn, ConnectDestroyed(c)
    PROVE  /\ \A d \in Conn : d # c => /\ state'[d] = state[d] /\ reading'[d] = reading[d]
                                       /\ index'[d] = index[d] /\ told'[d] = told[d]
           /\ state' \in [Conn -> {"kConnecting", "kConnected", "kDisconnecting", "kDisconnected"}]
           /\ reading' \in [Conn -> BOOLEAN]
           /\ index' \in [Conn -> {"kNew", "kAdded", "kDeleted"}]
           /\ told' \in [Conn -> Seq({"up", "down"})]
           /\ index'[c] = "kNew"
           /\ IF state[c] = "kConnected"
              THEN /\ state'[c] = "kDisconnected" /\ ~reading'[c]
                   /\ Len(told'[c]) = 2 /\ InOrder(told'[c]) /\ closes[c] = 0 /\ reading[c]
              ELSE state'[c] = state[c] /\ reading'[c] = reading[c] /\ told'[c] = told[c]
  <1>0. ConnsOK /\ Phase(c) /\ Heard(c) /\ told[c] \in Seq({"up", "down"})
    BY DEF IInv, Phases, ConnsOK
  <1>1. index' = [index EXCEPT ![c] = "kNew"]
    BY DEF ConnectDestroyed
  <1>2. CASE state[c] = "kConnected"
    <2>1. Len(told[c]) = 1 /\ InOrder(told[c]) /\ closes[c] = 0 /\ reading[c]
      BY <1>0, <1>2 DEF Phase, Heard
    <2>0. Len(told[c]) > 0
      BY <2>1
    <2>2. LET t == Append(told[c], "down")
          IN  t \in Seq({"up", "down"}) /\ Len(t) = Len(told[c]) + 1 /\ InOrder(t)
      BY <1>0, <2>0, <2>1, HearsDown
    <2>3. /\ state' = [state EXCEPT ![c] = "kDisconnected"]
          /\ reading' = [reading EXCEPT ![c] = FALSE]
          /\ told' = [told EXCEPT ![c] = Append(@, "down")]
      BY <1>2 DEF ConnectDestroyed, StillUp
    <2>4. told' \in [Conn -> Seq({"up", "down"})] /\ told'[c] = Append(told[c], "down")
      BY <1>0, <2>2, <2>3 DEF ConnsOK
    <2>5. Len(told'[c]) = 2 /\ InOrder(told'[c])
      BY <2>1, <2>2, <2>4
    <2> QED BY <1>0, <1>1, <1>2, <2>1, <2>3, <2>4, <2>5 DEF ConnsOK
  <1>3. CASE state[c] # "kConnected"
    <2>1. UNCHANGED <<state, reading, told>>
      BY <1>3 DEF ConnectDestroyed, StillUp
    <2> QED BY <1>0, <1>1, <1>3, <2>1 DEF ConnsOK
  <1> QED BY <1>2, <1>3

(* connectDestroyed, run by its loop, ends the connection. *)
LEMMA RunConnectDestroyedKeeps == \A l \in Loop : IInv /\ RunConnectDestroyed(l) => IInv'
  <1> SUFFICES ASSUME NEW l \in Loop, IInv, RunConnectDestroyed(l) PROVE IInv'
    OBVIOUS
  <1>p. PICK c \in Accepted : c = Head(pending[l]).conn
    BY BeginPops DEF RunConnectDestroyed
  <1>0. /\ Begin(l, "connectDestroyed") /\ ConnectDestroyed(c) /\ pending' = Rest(l)
        /\ UNCHANGED <<serverPc, numThreads, next, nextConnId, connections, joined, at, quit,
                       ioLoop, reported, closes, forcing, forced, hasty, misuse>>
    BY <1>p DEF RunConnectDestroyed, Begin, forceVars
  <1>1. /\ Popped(pending', pending, l, "connectDestroyed", c) /\ c \in Accepted
        /\ \A m \in Loop : batch'[m] <= Len(pending'[m]) /\ batch'[m] <= batch[m]
        /\ batch' \in [Loop -> Nat] /\ at[l] = "functors"
    BY <1>0, <1>p, BeginPops
  <1>a. Accepted' = Accepted /\ c \in Conn /\ \A d \in Accepted : d \in Conn
    BY <1>0, <1>1, BaseAndLoops DEF Accepted, IInv
  <1>b. l = ioLoop[c] /\ Destroying(c)
    BY <1>1, <1>a DEF IInv, Places, Popped, Ops, Destroying
  <1>c. Heard(c) /\ Phase(c) /\ ~reported[c]
    BY <1>1, <1>a, <1>b DEF IInv, Phases, Phase
  <1>d. /\ \A d \in Conn : d # c => /\ state'[d] = state[d] /\ reading'[d] = reading[d]
                                    /\ index'[d] = index[d] /\ told'[d] = told[d]
        /\ index'[c] = "kNew"
        /\ IF state[c] = "kConnected"
           THEN /\ state'[c] = "kDisconnected" /\ ~reading'[c]
                /\ Len(told'[c]) = 2 /\ InOrder(told'[c]) /\ closes[c] = 0 /\ reading[c]
           ELSE state'[c] = state[c] /\ reading'[c] = reading[c] /\ told'[c] = told[c]
    BY <1>0, <1>a, ConnectDestroyedKeeps
  <1>2. ServerOK' /\ Started' /\ Dealt'
    BY <1>0, <1>1, <1>a, BatchKeeps, DealtKeeps DEF IInv, ServerOK
  <1>3. LoopsOK'
    BY <1>0, <1>1 DEF IInv, LoopsOK, Popped
  <1>4. ConnsOK'
    <2>1. ioLoop' \in [Conn -> Loop] /\ reported' \in [Conn -> BOOLEAN] /\ closes' \in [Conn -> Nat]
          /\ forcing' \in {Idle} \cup [pc : {"set", "queue"}, conn : Conn] /\ forced' \subseteq Conn
      BY <1>0 DEF IInv, ConnsOK
    <2> QED BY <1>0, <1>a, <2>1, ConnectDestroyedKeeps DEF ConnsOK
  <1>5. Places' /\ Once(pending, Lone)'
    <2>1. Lone' = Lone
      BY <1>0 DEF Lone
    <2>2. Once(pending', Lone)
      BY <1>1 DEF IInv, Popped
    <2>3. Places'
      BY <1>0, <1>1, <1>a DEF IInv, Places, Popped
    <2> QED BY <2>1, <2>2, <2>3 DEF Once
  <1>6. ASSUME NEW d \in Conn
        PROVE  /\ Establishing(d)' <=> Establishing(d)
               /\ Removing(d)' <=> Removing(d)
               /\ ForceClosing(d)' <=> ForceClosing(d)
               /\ Destroying(d)' => Destroying(d)
               /\ d # c => (Destroying(d)' <=> Destroying(d))
    <2>1. ioLoop[d] \in Loop /\ Base \in Loop
      BY BaseAndLoops DEF IInv, ConnsOK
    <2> QED BY <1>0, <1>1, <1>b, <2>1
            DEF Popped, Establishing, Removing, Destroying, ForceClosing, Ops
  <1>7. \A d \in Conn : d # c => Same(d) /\ SameForcing(d) /\ SameQueues(d) /\ FewerQueues(d)
    <2>1. \A d \in Conn : d # c => Same(d) /\ SameForcing(d)
      BY <1>0, <1>a, <1>d DEF Same, SameForcing, Forcing, IInv, Phases, Phase, ConnsOK
    <2> QED BY <1>6, <2>1 DEF SameQueues, FewerQueues
  <1>8. ~hasty => OnItsWay(c) /\ c \notin connections /\ ~reading[c] /\ state[c] # "kConnecting"
    BY <1>1, <1>b DEF IInv, Stages, OnItsWay
  <1>9. Phases'
    <2>1. Heard(c)'
      <3>1. state[c] = "kConnected" => hasty
        BY <1>8, <1>c DEF Phase, IInv, ServerOK
      <3>2. CASE state[c] = "kConnected"
        <4>1. /\ state'[c] = "kDisconnected" /\ ~reading'[c] /\ Len(told'[c]) = 2
              /\ InOrder(told'[c]) /\ closes[c] = 0
          BY <1>d, <3>2
        <4> QED BY <1>0, <1>d, <3>1, <3>2, <4>1 DEF Heard
      <3>3. CASE state[c] # "kConnected"
        BY <1>0, <1>d, <1>c, <3>3 DEF Heard
      <3> QED BY <3>2, <3>3
    <2>2. Phase(c)'
      BY <1>0, <1>a, <1>6, <1>d, <1>c DEF Phase, Forcing
    <2> QED BY <1>0, <1>7, <2>1, <2>2, PhaseKept DEF IInv, Phases, FewerQueues
  <1>10. Stages'
    <2>1. ASSUME ~hasty PROVE OnItsWay(c)' /\ (InTime(c) => InTime(c)')
      <3>1. state[c] # "kConnected"
        BY <1>8, <1>c, <2>1 DEF Phase
      <3>2. OnItsWay(c)'
        BY <1>0, <1>6, <1>a, <1>8, <1>c, <1>d, <2>1, <3>1 DEF OnItsWay
      <3>3. InTime(c) => InTime(c)'
        BY <1>0, <1>6, <1>a, <1>d, <3>1 DEF InTime, Forcing
      <3> QED BY <3>2, <3>3
    <2>2. ASSUME NEW d \in Accepted, d # c, OnItsWay(d) PROVE OnItsWay(d)'
      BY <1>0, <1>7, <1>a, <2>2, WayKept
    <2>3. ASSUME NEW d \in Accepted, d # c, InTime(d) PROVE InTime(d)'
      BY <1>0, <1>7, <1>a, <2>3, InTimeKept
    <2> QED BY <1>0, <1>a, <1>p, <2>1, <2>2, <2>3 DEF IInv, Stages
  <1> QED BY <1>2, <1>3, <1>4, <1>5, <1>9, <1>10 DEF IInv

(* The destructor disposes of a connection of the base loop itself, and sends the rest to theirs. *)
LEMMA DtorDisposesKeeps == \A c \in Conn : IInv /\ DtorDisposes(c) => IInv'
  <1> SUFFICES ASSUME NEW c \in Conn, IInv, DtorDisposes(c) PROVE IInv'
    OBVIOUS
  <1>0. /\ serverPc = "dtor" /\ c \in connections /\ connections' = connections \ {c}
        /\ UNCHANGED <<serverPc, numThreads, next, nextConnId, joined, at, batch, quit, ioLoop,
                       reported, closes, forcing, forced, hasty, misuse>>
    BY DEF DtorDisposes, forceVars, histVars
  <1>a. Accepted' = Accepted /\ c \in Accepted /\ \A d \in Accepted : d \in Conn
    BY <1>0, BaseAndLoops DEF Accepted, IInv, ServerOK
  <1>2. ServerOK' /\ Started' /\ Dealt'
    BY <1>0, <1>a, DealtKeeps DEF IInv, ServerOK, Started
  <1>3. Heard(c) /\ Phase(c)
    BY DEF IInv, Phases
  <1>4. /\ ioLoop' \in [Conn -> Loop] /\ reported' \in [Conn -> BOOLEAN] /\ closes' \in [Conn -> Nat]
        /\ forcing' \in {Idle} \cup [pc : {"set", "queue"}, conn : Conn] /\ forced' \subseteq Conn
    BY <1>0 DEF IInv, ConnsOK
  <1>l. Lone' = Lone
    BY <1>0 DEF Lone
  <1>b. CASE ioLoop[c] = Base
    <2>1. ConnectDestroyed(c) /\ pending' = pending
      BY <1>b DEF DtorDisposes
    <2>d. /\ \A d \in Conn : d # c => /\ state'[d] = state[d] /\ reading'[d] = reading[d]
                                      /\ index'[d] = index[d] /\ told'[d] = told[d]
          /\ index'[c] = "kNew"
          /\ IF state[c] = "kConnected"
             THEN /\ state'[c] = "kDisconnected" /\ ~reading'[c]
                  /\ Len(told'[c]) = 2 /\ InOrder(told'[c]) /\ closes[c] = 0 /\ reading[c]
             ELSE state'[c] = state[c] /\ reading'[c] = reading[c] /\ told'[c] = told[c]
      BY <2>1, ConnectDestroyedKeeps
    <2>2. LoopsOK'
      BY <1>0, <2>1 DEF IInv, LoopsOK
    <2>3. ConnsOK'
      BY <1>4, <2>1, ConnectDestroyedKeeps DEF ConnsOK
    <2>4. Places' /\ Once(pending, Lone)'
      BY <1>0, <1>a, <1>l, <2>1 DEF IInv, Places, Once, In
    <2>5. ASSUME NEW d \in Conn PROVE SameQueues(d) /\ FewerQueues(d)
      BY <1>0, <2>1
         DEF SameQueues, FewerQueues, Establishing, Removing, Destroying, ForceClosing, In
    <2>6. ~Establishing(c) /\ ~Removing(c)
      <3>1. ioLoop[c] \in Loop /\ Base \in Loop
        BY BaseAndLoops DEF IInv, ConnsOK
      <3> QED BY <1>b, <3>1 DEF IInv, Places, Establishing, Removing, Ops
    <2>7. \A d \in Conn : d # c => Same(d) /\ SameForcing(d)
      BY <1>0, <1>a, <2>d DEF Same, SameForcing, Forcing, IInv, Phases, Phase, ConnsOK
    <2>i. ~hasty => OnItsWay(c) /\ InTime(c)
      BY <1>0, <1>a DEF IInv, Stages
    <2>8. Phases'
      <3>1. state[c] = "kConnected" /\ c \in forced => hasty
        <4>1. state[c] = "kConnected" /\ c \in forced => Forcing(c)
          BY <1>3 DEF Phase, Forcing, Idle
        <4> QED BY <2>i, <4>1 DEF InTime, IInv, ServerOK
      <3>2. Heard(c)'
        <4>2. CASE state[c] = "kConnected"
          <5>1. /\ state'[c] = "kDisconnected" /\ ~reading'[c] /\ Len(told'[c]) = 2
                /\ InOrder(told'[c]) /\ closes[c] = 0
            BY <2>d, <4>2
          <5> QED BY <1>0, <2>d, <3>1, <4>2, <5>1 DEF Heard
        <4>3. CASE state[c] # "kConnected"
          BY <1>0, <2>d, <1>3, <4>3 DEF Heard
        <4> QED BY <4>2, <4>3
      <3>3. Phase(c)'
        BY <1>0, <1>a, <1>3, <2>5, <2>6, <2>d DEF Phase, Forcing, SameQueues
      <3> QED BY <1>0, <2>5, <2>7, <3>2, <3>3, PhaseKept DEF IInv, Phases, SameQueues
    <2>9. Stages'
      <3>1. ASSUME ~hasty PROVE OnItsWay(c)' /\ InTime(c)'
        <4>1. state[c] \in {"kConnected", "kDisconnected"} /\ ~reported[c]
          BY <2>6, <2>i, <3>1 DEF OnItsWay, InTime, IInv, ConnsOK
        <4>2. state'[c] = "kDisconnected" /\ ~reading'[c]
          BY <1>3, <2>d, <4>1 DEF Phase
        <4>3. OnItsWay(c)'
          BY <1>0, <2>5, <2>6, <2>d, <2>i, <3>1, <4>1, <4>2 DEF OnItsWay, SameQueues
        <4>4. InTime(c)'
          BY <1>0, <1>b, <2>5, <2>d, <2>i, <3>1, <4>2 DEF InTime, SameQueues, Forcing
        <4> QED BY <4>3, <4>4
      <3>2. ASSUME NEW d \in Accepted, d # c, OnItsWay(d) PROVE OnItsWay(d)'
        BY <1>0, <1>a, <2>5, <2>7, <3>2, WayKept
      <3>3. ASSUME NEW d \in Accepted, d # c, InTime(d) PROVE InTime(d)'
        BY <1>0, <1>a, <2>5, <2>7, <3>3, InTimeKept
      <3> QED BY <1>0, <1>a, <3>1, <3>2, <3>3 DEF IInv, Stages
    <2> QED BY <1>2, <2>2, <2>3, <2>4, <2>8, <2>9 DEF IInv
  <1>c. CASE ioLoop[c] # Base
    <2>1. /\ pending' = Queued(ioLoop[c], Functor("connectDestroyed", c))
          /\ UNCHANGED <<state, reading, index, told>>
      BY <1>c DEF DtorDisposes
    <2>2. hasty
      <3>1. ~hasty => c \notin connections
        BY <1>0, <1>a, <1>c DEF IInv, Stages, InTime
      <3> QED BY <1>0, <3>1 DEF IInv, ServerOK
    <2>3. Pushed(pending', pending, ioLoop[c], "connectDestroyed", c)
      <3>1. pending \in [Loop -> Seq(Functors)] /\ ioLoop[c] \in Loop /\ "connectDestroyed" \in Ops
        BY DEF IInv, LoopsOK, ConnsOK, Ops
      <3>2. pending' = [pending EXCEPT ![ioLoop[c]] = Append(@, Functor("connectDestroyed", c))]
        BY <2>1 DEF Queued
      <3> QED BY <3>1, <3>2, Push
    <2>4. LoopsOK'
      <3>1. \A m \in Loop : Len(pending[m]) \in Nat /\ Len(pending'[m]) \in Nat
        BY <2>3 DEF IInv, LoopsOK, Pushed
      <3>2. \A m \in Loop : batch'[m] <= Len(pending'[m])
        BY <1>0, <2>3, <3>1 DEF IInv, LoopsOK, Pushed
      <3> QED BY <1>0, <2>3, <3>2 DEF IInv, LoopsOK, Pushed
    <2>5. ConnsOK'
      BY <1>4, <2>1 DEF IInv, ConnsOK
    <2>6. Places' /\ Once(pending, Lone)'
      <3>1. Functor("connectDestroyed", c) \notin Lone
        BY DEF Lone, Functor
      <3>2. Once(pending', Lone)
        BY <2>3, <3>1 DEF IInv, Pushed
      <3>3. Places'
        BY <1>0, <1>a, <2>3 DEF IInv, Places, Pushed
      <3> QED BY <1>l, <3>2, <3>3 DEF Once
    <2>7. \A d \in Conn : Same(d) /\ SameForcing(d)
      BY <1>0, <1>a, <2>1 DEF Same, SameForcing, Forcing, IInv, Phases, Phase, ConnsOK
    <2>8. Phases'
      <3> SUFFICES ASSUME NEW d \in Conn PROVE Heard(d)' /\ Phase(d)'
        BY DEF Phases
      <3>1. ioLoop[d] \in Loop /\ Base \in Loop
        BY BaseAndLoops DEF IInv, ConnsOK
      <3>2. /\ Establishing(d)' <=> Establishing(d)
            /\ Removing(d)' <=> Removing(d)
            /\ ForceClosing(d)' <=> ForceClosing(d)
        BY <1>0, <2>3, <3>1 DEF Pushed, Establishing, Removing, ForceClosing, Ops
      <3> QED BY <1>0, <2>7, <3>2, PhaseKept DEF IInv, Phases
    <2>9. Stages'
      BY <1>0, <2>2 DEF Stages
    <2> QED BY <1>2, <2>4, <2>5, <2>6, <2>8, <2>9 DEF IInv
  <1> QED BY <1>b, <1>c

(* The base loop runs a removal: out of the map, and on to the connection's loop. *)
LEMMA RunRemoveConnectionKeeps == IInv /\ RunRemoveConnection => IInv'
  <1> SUFFICES ASSUME IInv, RunRemoveConnection PROVE IInv'
    OBVIOUS
  <1>p. PICK c \in Accepted : c = Head(pending[Base]).conn
    BY BeginPops, BaseAndLoops DEF RunRemoveConnection
  <1>0. /\ Begin(Base, "removeConnection")
        /\ UNCHANGED <<serverPc, numThreads, next, nextConnId, joined, at, quit, ioLoop, hasty,
                       state, reading, index, reported, told, closes, forcing, forced>>
    BY DEF RunRemoveConnection, Begin, forceVars
  <1> DEFINE rest == Rest(Base)
  <1>1. /\ Popped(rest, pending, Base, "removeConnection", c)
        /\ \A m \in Loop : batch'[m] <= Len(rest[m]) /\ batch'[m] <= batch[m]
        /\ batch' \in [Loop -> Nat]
    BY <1>0, <1>p, BeginPops, BaseAndLoops
  <1>a. /\ Accepted' = Accepted /\ c \in Conn /\ Base \in Loop /\ ioLoop[c] \in Loop
        /\ \A d \in Accepted : d \in Conn
    BY <1>0, BaseAndLoops DEF Accepted, IInv, ConnsOK
  <1>b. ioLoop[c] # Base /\ Removing(c)
    BY <1>1, <1>a DEF IInv, Places, Popped, Ops, Removing
  <1>2. ConnsOK' /\ Dealt' /\ Lone' = Lone
    BY <1>0, DealtKeeps DEF IInv, ConnsOK, Lone
  <1>3. \A d \in Conn : Same(d) /\ SameForcing(d)
    BY <1>0, <1>a DEF Same, SameForcing, Forcing, IInv, Phases, Phase, ConnsOK
  <1>r. Once(rest, Lone)
    BY <1>1 DEF IInv, Popped
  <1>i. ~hasty => serverPc \notin {"dtor", "gone"}
    BY <1>b DEF IInv, Stages, InTime
  <1>c. CASE serverPc = "gone"
    <2>1. pending' = rest /\ misuse' = TRUE /\ connections' = connections
      BY <1>c DEF RunRemoveConnection
    <2>2. ServerOK' /\ Started'
      BY <1>0, <1>1, <1>a, <2>1, BatchKeeps DEF IInv, ServerOK
    <2> HIDE DEF rest
    <2>3. LoopsOK' /\ Once(pending, Lone)'
      <3>1. LoopsOK'
        BY <1>0, <1>1, <2>1 DEF IInv, LoopsOK, Popped
      <3> QED BY <1>2, <1>r, <2>1, <3>1 DEF Once
    <2>4. \A m \in Loop, o \in Ops, d \in Conn : In(pending', m, o, d) => In(pending, m, o, d)
      BY <1>1, <2>1 DEF Popped
    <2>5. \A d \in Conn : FewerQueues(d)
      <3>1. \A d \in Conn : ioLoop[d] \in Loop
        BY DEF IInv, ConnsOK
      <3> QED BY <1>0, <1>a, <2>4, <3>1
              DEF FewerQueues, Establishing, Destroying, ForceClosing, Removing, Ops
    <2>6. Places' /\ Phases'
      <3>1. Places'
        BY <1>0, <1>a, <2>4 DEF IInv, Places
      <3> QED BY <1>0, <1>3, <2>5, <3>1, PhaseKept DEF IInv, Phases, FewerQueues
    <2>7. Stages'
      BY <1>0, <1>c, <1>i DEF Stages
    <2> QED BY <1>2, <2>2, <2>3, <2>6, <2>7 DEF IInv
  <1>d. CASE serverPc # "gone"
    <2>1. /\ connections' = connections \ {c} /\ misuse' = misuse
          /\ pending' = [rest EXCEPT ![ioLoop[c]] = Append(@, Functor("connectDestroyed", c))]
      BY <1>d, <1>p DEF RunRemoveConnection, RemoveConnectionInLoop
    <2>3. ServerOK' /\ Started'
      <3>1. Started'
        BY <1>0, <1>1, <1>d, <2>1 DEF IInv, Started, LoopsOK
      <3> QED BY <1>0, <1>a, <2>1, <3>1 DEF IInv, ServerOK
    <2> HIDE DEF rest
    <2>2. Pushed(pending', rest, ioLoop[c], "connectDestroyed", c)
      <3>1. rest \in [Loop -> Seq(Functors)]
        BY <1>1 DEF Popped
      <3>2. "connectDestroyed" \in Ops
        BY DEF Ops
      <3> QED BY <1>a, <2>1, <3>1, <3>2, Push
    <2>4. LoopsOK'
      <3>1. \A m \in Loop : Len(rest[m]) \in Nat /\ Len(pending'[m]) \in Nat
        BY <1>1, <2>2 DEF Popped, Pushed
      <3>2. \A m \in Loop : batch'[m] <= Len(pending'[m])
        BY <1>1, <2>2, <3>1 DEF Pushed
      <3> QED BY <1>0, <1>1, <2>2, <3>2 DEF IInv, LoopsOK, Pushed
    <2>5. Once(pending, Lone)'
      <3>1. Functor("connectDestroyed", c) \notin Lone
        BY DEF Lone, Functor
      <3>2. Once(pending', Lone)
        BY <1>r, <2>2, <3>1 DEF Pushed
      <3> QED BY <1>2, <3>2 DEF Once
    <2>6. ASSUME NEW m \in Loop, NEW o \in Ops, NEW d \in Conn
          PROVE  In(pending', m, o, d) => \/ In(pending, m, o, d)
                                          \/ m = ioLoop[c] /\ o = "connectDestroyed" /\ d = c
      BY <1>1, <2>2 DEF Popped, Pushed
    <2>7. Places'
      <3>1. "connectDestroyed" \notin {"connectEstablished", "removeConnection"}
        OBVIOUS
      <3> QED BY <1>0, <1>a, <2>6, <3>1 DEF IInv, Places
    <2>l. closes[c] < 2 => ~In(rest, Base, "removeConnection", c)
      <3>1. closes[c] < 2 => Functor("removeConnection", c) \in Lone
        BY <1>a DEF Lone, Functor, Functors, Ops
      <3> QED BY <1>1, <3>1 DEF IInv, Popped
    <2>8. ASSUME NEW d \in Conn
          PROVE  /\ Establishing(d)' <=> Establishing(d)
                 /\ Removing(d)' => Removing(d)
                 /\ d # c => (Removing(d)' <=> Removing(d))
                 /\ closes[c] < 2 => ~Removing(c)'
                 /\ Destroying(d)' <=> Destroying(d) \/ d = c
                 /\ ForceClosing(d)' <=> ForceClosing(d)
      <3>0. ioLoop[d] \in Loop
        BY DEF IInv, ConnsOK
      <3>1. /\ Removing(d)' <=> In(rest, Base, "removeConnection", d)
            /\ Removing(c)' <=> In(rest, Base, "removeConnection", c)
            /\ Establishing(d)' <=> In(rest, ioLoop[d], "connectEstablished", d)
            /\ ForceClosing(d)' <=> In(rest, ioLoop[d], "forceClose", d)
            /\ Destroying(d)' <=> In(rest, ioLoop[d], "connectDestroyed", d) \/ d = c
        BY <1>0, <1>a, <2>2, <3>0
           DEF Pushed, Establishing, Removing, Destroying, ForceClosing, Ops
      <3>2. /\ In(rest, Base, "removeConnection", d) => Removing(d)
            /\ d # c => (Removing(d) => In(rest, Base, "removeConnection", d))
            /\ In(rest, ioLoop[d], "connectEstablished", d) <=> Establishing(d)
            /\ In(rest, ioLoop[d], "forceClose", d) <=> ForceClosing(d)
            /\ In(rest, ioLoop[d], "connectDestroyed", d) <=> Destroying(d)
        BY <1>1, <1>a, <3>0 DEF Popped, Establishing, Removing, Destroying, ForceClosing, Ops
      <3> QED BY <2>l, <3>1, <3>2
    <2>9. Phases'
      BY <1>0, <1>3, <2>8, PhaseKept DEF IInv, Phases
    <2>10. Stages'
      <3>1. ASSUME ~hasty PROVE OnItsWay(c)'
        <4>1. OnItsWay(c) /\ Phase(c) /\ Heard(c) /\ closes[c] > 0
          BY <1>a, <1>b, <3>1 DEF IInv, Stages, Phases, Phase
        <4>2. state[c] # "kConnecting" /\ ~reading[c]
          BY <4>1 DEF Phase, IInv, ConnsOK
        <4> QED BY <1>0, <1>a, <2>1, <2>8, <4>1, <4>2 DEF OnItsWay
      <3>2. ASSUME NEW d \in Accepted, d # c, OnItsWay(d) PROVE OnItsWay(d)'
        <4>1. SameQueues(d)
          BY <1>a, <2>8, <3>2 DEF SameQueues
        <4> QED BY <1>0, <1>3, <1>a, <2>1, <3>2, <4>1, WayKept
      <3> QED BY <1>0, <1>a, <1>i, <1>p, <2>1, <3>1, <3>2 DEF IInv, Stages
    <2> QED BY <1>2, <2>3, <2>4, <2>5, <2>7, <2>9, <2>10 DEF IInv
  <1> QED BY <1>c, <1>d

(* The queues of a connection that closes: as they were, or without the    *)
(* forceCloseInLoop that closes it.                                        *)
Near(q, c) ==
    /\ q \in [Loop -> Seq(Functors)] /\ Once(q, Lone)
    /\ \A m \in Loop, o \in Ops, d \in Conn :
          /\ In(q, m, o, d) => In(pending, m, o, d)
          /\ In(pending, m, o, d) => In(q, m, o, d) \/ (o = "forceClose" /\ d = c)

(* A connection closes, for the first time or again: out of the map at     *)
(* once in the base loop, or by way of it.                                 *)
LEMMA HandleCloseKeeps ==
    ASSUME IInv, NEW c \in Accepted, NEW q, Near(q, c), HandleClose(c, q),
           state[c] # "kConnecting", ~(state[c] = "kDisconnected" /\ index[c] = "kNew" /\ closes[c] = 0),
           ~hasty => serverPc \notin {"dtor", "gone"},
           reported' \in [Conn -> BOOLEAN],
           \A d \in Conn : d # c => reported'[d] = reported[d],
           reported'[c] => at[ioLoop[c]] = "poll",
           batch' \in [Loop -> Nat],
           \A m \in Loop : batch'[m] <= Len(q[m]) /\ batch'[m] <= batch[m],
           UNCHANGED <<serverPc, numThreads, next, nextConnId, joined, at, quit, ioLoop, forcing,
                       forced, hasty>>
    PROVE  IInv'
  <1>a. /\ Accepted' = Accepted /\ c \in Conn /\ Base \in Loop /\ ioLoop[c] \in Loop
        /\ \A d \in Accepted : d \in Conn
    BY BaseAndLoops DEF Accepted, IInv, ConnsOK
  <1>0. /\ state' = [state EXCEPT ![c] = "kDisconnected"]
        /\ reading' = [reading EXCEPT ![c] = FALSE]
        /\ index' = [index EXCEPT ![c] = IF @ = "kAdded" THEN "kDeleted" ELSE "kAdded"]
        /\ told' = [told EXCEPT ![c] = Append(@, "down")]
        /\ closes' = [closes EXCEPT ![c] = @ + 1]
        /\ RemoveConnection(c, q)
    BY DEF HandleClose
  <1>b. Heard(c) /\ Phase(c) /\ told[c] \in Seq({"up", "down"}) /\ closes[c] \in Nat
    BY <1>a DEF IInv, Phases, ConnsOK
  <1>c. Len(told[c]) > 0 /\ InOrder(told[c])
    <2>1. Len(told[c]) # 0 /\ Len(told[c]) \in Nat
      BY <1>b DEF Heard
    <2>2. Len(told[c]) > 0
      BY <2>1
    <2> QED BY <1>b, <2>2 DEF Heard
  <1>d. LET t == Append(told[c], "down")
        IN  t \in Seq({"up", "down"}) /\ Len(t) = Len(told[c]) + 1 /\ InOrder(t)
    BY <1>b, <1>c, HearsDown
  <1>e. told' \in [Conn -> Seq({"up", "down"})] /\ told'[c] = Append(told[c], "down")
    BY <1>0, <1>a, <1>d DEF IInv, ConnsOK
  <1>f. /\ state'[c] = "kDisconnected" /\ ~reading'[c] /\ closes'[c] = closes[c] + 1
        /\ Len(told'[c]) = Len(told[c]) + 1 /\ InOrder(told'[c])
    <2>1. state'[c] = "kDisconnected" /\ ~reading'[c] /\ closes'[c] = closes[c] + 1
      BY <1>0, <1>a DEF IInv, ConnsOK
    <2> QED BY <1>d, <1>e, <2>1
  <1>1. ConnsOK' /\ Dealt'
    <2>0. closes \in [Conn -> Nat] /\ closes' = [closes EXCEPT ![c] = closes[c] + 1]
      BY <1>0 DEF IInv, ConnsOK
    <2>1. closes' \in [Conn -> Nat]
      BY <1>a, <2>0
    <2> QED BY <1>0, <1>e, <2>1, DealtKeeps DEF IInv, ConnsOK
  <1>2. \A d \in Conn : d # c => Same(d) /\ SameForcing(d)
    BY <1>0, <1>a DEF Same, SameForcing, Forcing, IInv, Phases, Phase, ConnsOK
  <1>g. q \in [Loop -> Seq(Functors)] /\ Once(q, Lone)
    BY DEF Near
  <1>h. Lone' \subseteq Lone /\ (Functor("removeConnection", c) \in Lone' => closes[c] = 0)
        /\ Functor("connectDestroyed", c) \notin Lone'
    <2>1. \A d \in Conn : closes[d] \in Nat /\ closes'[d] \in Nat /\ closes[d] <= closes'[d]
      BY <1>0, <1>1 DEF IInv, ConnsOK
    <2>2. \A d \in Conn : closes'[d] < 2 => closes[d] < 2
      BY <2>1
    <2>3. Lone' \subseteq Lone
      BY <2>2 DEF Lone, Functors
    <2>4. closes'[c] < 2 => closes[c] = 0
      BY <1>b, <1>f
    <2>5. Functor("removeConnection", c) \in Lone' => closes'[c] < 2
      BY DEF Lone, Functor
    <2>6. Functor("connectDestroyed", c) \notin Lone'
      BY DEF Lone, Functor
    <2> QED BY <2>3, <2>4, <2>5, <2>6
  <1>i. Once(q, Lone')
    BY <1>g, <1>h DEF Once
  <1>j. Started'
    <2>1. serverPc = "gone" => connections' = {}
      BY <1>0 DEF IInv, Started, RemoveConnection
    <2>2. \A m \in Loop : batch[m] \in Nat /\ batch'[m] \in Nat
      BY DEF IInv, LoopsOK
    <2>3. \A m \in Loop : batch'[m] > 0 => batch[m] > 0
      BY <2>2
    <2> QED BY <2>1, <2>3 DEF IInv, Started
  <1>k. ServerOK'
    BY <1>0, <1>a DEF IInv, ServerOK, RemoveConnection, RemoveConnectionInLoop
  <1>m. ~hasty /\ closes[c] = 0 => c \in connections
    <2>1. ~hasty /\ closes[c] = 0 => Len(told[c]) = 1
      BY <1>b, <1>c DEF Heard, IInv, ServerOK
    <2>2. ~hasty /\ closes[c] = 0 => reading[c]
      BY <1>b, <2>1 DEF Heard
    <2> QED BY <2>2 DEF IInv, Stages, OnItsWay, ServerOK
  (* What is left to show is that one functor of c at most has been queued. *)
  <1> DEFINE l == Base
             op == IF ioLoop[c] = Base THEN "connectDestroyed" ELSE "removeConnection"
  <1>3. ASSUME Places', LoopsOK', Once(pending', Lone'),
               \A d \in Conn : /\ Establishing(d)' <=> Establishing(d)
                               /\ ForceClosing(d)' => ForceClosing(d)
                               /\ d # c => (ForceClosing(d)' <=> ForceClosing(d))
                               /\ d # c => (Removing(d)' <=> Removing(d))
                               /\ d # c => (Destroying(d)' <=> Destroying(d)),
               hasty \/ IF ioLoop[c] = Base
                        THEN /\ connections' = connections \ {c}
                             /\ Destroying(c)' /\ (Removing(c)' => Removing(c))
                        ELSE /\ connections' = connections
                             /\ Removing(c)' /\ (Destroying(c)' => Destroying(c)),
               hasty \/ misuse' = misuse
        PROVE  IInv'
    <2>0. Once(pending, Lone)'
      BY <1>3 DEF Once
    <2>1. \A d \in Conn : d # c => SameQueues(d) /\ FewerQueues(d)
      BY <1>3 DEF SameQueues, FewerQueues
    <2>2. Phases'
      <3>1. Heard(c)'
        BY <1>b, <1>c, <1>f DEF Heard
      <3>2. Phase(c)'
        BY <1>3, <1>a, <1>b, <1>f DEF Phase, Forcing
      <3> QED BY <1>2, <2>1, <3>1, <3>2, PhaseKept DEF IInv, Phases, FewerQueues
    <2>3. Stages'
      <3>1. ASSUME ~hasty PROVE OnItsWay(c)'
        <4>1. OnItsWay(c)
          BY <3>1 DEF IInv, Stages
        <4>2. closes'[c] < 2 => c \in connections
          BY <1>b, <1>f, <1>m, <3>1
        <4>3. CASE ioLoop[c] = Base
          <5>1. ~Removing(c)
            BY <1>a, <4>3 DEF IInv, Places, Removing, Ops
          <5> QED BY <1>3, <1>f, <3>1, <4>3, <5>1 DEF OnItsWay
        <4>4. CASE ioLoop[c] # Base
          BY <1>3, <1>f, <3>1, <4>1, <4>2, <4>4 DEF OnItsWay
        <4> QED BY <4>3, <4>4
      <3>2. ASSUME ~hasty, NEW d \in Accepted, d # c, OnItsWay(d) PROVE OnItsWay(d)'
        BY <1>2, <1>3, <1>a, <2>1, <3>2, WayKept
      <3> QED BY <1>3, <1>a, <3>1, <3>2 DEF IInv, Stages
    <2> QED BY <1>1, <1>3, <1>j, <1>k, <2>0, <2>2, <2>3 DEF IInv
  <1>n. \A d \in Conn : ioLoop[d] \in Loop
    BY DEF IInv, ConnsOK
  <1>4. CASE serverPc = "gone"
    <2>1. pending' = q /\ hasty
      BY <1>0, <1>4 DEF RemoveConnection, IInv, ServerOK
    <2>2. \A m \in Loop, o \in Ops, d \in Conn :
             /\ In(pending', m, o, d) => In(pending, m, o, d)
             /\ In(pending, m, o, d) => In(pending', m, o, d) \/ (o = "forceClose" /\ d = c)
      BY <2>1 DEF Near
    <2>3. \A d \in Conn : /\ Establishing(d)' <=> Establishing(d)
                          /\ ForceClosing(d)' => ForceClosing(d)
                          /\ d # c => (ForceClosing(d)' <=> ForceClosing(d))
                          /\ d # c => (Removing(d)' <=> Removing(d))
                          /\ d # c => (Destroying(d)' <=> Destroying(d))
      BY <1>a, <1>n, <2>2 DEF Establishing, Destroying, ForceClosing, Removing, Ops
    <2>4. Places'
      BY <1>a, <2>2 DEF IInv, Places
    <2>5. LoopsOK'
      BY <1>g, <2>1 DEF IInv, LoopsOK
    <2> QED BY <1>3, <1>i, <2>1, <2>3, <2>4, <2>5
  <1>5. CASE serverPc # "gone"
    <2>1. /\ pending' = [q EXCEPT ![l] = Append(@, Functor(op, c))]
          /\ connections' = IF ioLoop[c] = Base THEN connections \ {c} ELSE connections
          /\ misuse' = misuse
      BY <1>0, <1>5 DEF RemoveConnection, RemoveConnectionInLoop
    <2>2. op \in Ops /\ l \in Loop
      BY <1>a DEF Ops
    <2>o. /\ ioLoop[c] = Base => op = "connectDestroyed"
          /\ ioLoop[c] # Base => op = "removeConnection"
          /\ l = Base
      OBVIOUS
    <2> HIDE DEF l, op
    <2>3. Pushed(pending', q, l, op, c)
      BY <1>a, <1>g, <2>1, <2>2, Push
    <2>4. LoopsOK'
      <3>1. \A m \in Loop : Len(q[m]) \in Nat /\ Len(pending'[m]) \in Nat
        BY <1>g, <2>3 DEF Pushed
      <3>2. \A m \in Loop : batch'[m] <= Len(pending'[m])
        BY <2>3, <3>1 DEF Pushed
      <3> QED BY <2>3, <3>2 DEF IInv, LoopsOK, Pushed
    <2>5. Once(pending', Lone')
      <3>1. ASSUME Functor(op, c) \in Lone' PROVE ~In(q, l, op, c)
        <4>1. op = "removeConnection" /\ closes[c] = 0
          BY <1>h, <2>2, <2>o, <3>1
        <4>2. ~Removing(c)
          BY <1>b, <4>1 DEF Phase
        <4> QED BY <1>a, <2>2, <2>o, <4>1, <4>2 DEF Near, Removing
      <3> QED BY <1>i, <2>3, <3>1 DEF Pushed
    <2>6. \A m \in Loop, o \in Ops, d \in Conn :
             /\ In(pending', m, o, d) => In(pending, m, o, d) \/ (m = l /\ o = op /\ d = c)
             /\ In(pending, m, o, d) => In(pending', m, o, d) \/ (o = "forceClose" /\ d = c)
             /\ m = l /\ o = op /\ d = c => In(pending', m, o, d)
      BY <2>3 DEF Near, Pushed
    <2>7. Places'
      <3>1. \A m \in Loop, o \in Ops, d \in Conn : In(pending, m, o, d) =>
               /\ d \in Accepted
               /\ m = IF o = "removeConnection" THEN Base ELSE ioLoop[d]
               /\ o \in {"connectEstablished", "removeConnection"} => ioLoop[d] # Base
        BY DEF IInv, Places
      <3>2. /\ l = IF op = "removeConnection" THEN Base ELSE ioLoop[c]
            /\ op \in {"connectEstablished", "removeConnection"} => ioLoop[c] # Base
        BY <2>o
      <3> QED BY <1>a, <2>6, <3>1, <3>2 DEF Places
    <2>8. \A d \in Conn : /\ Establishing(d)' <=> Establishing(d)
                          /\ ForceClosing(d)' => ForceClosing(d)
                          /\ d # c => (ForceClosing(d)' <=> ForceClosing(d))
                          /\ d # c => (Removing(d)' <=> Removing(d))
                          /\ d # c => (Destroying(d)' <=> Destroying(d))
      BY <1>a, <1>n, <2>6, <2>o DEF Establishing, Destroying, ForceClosing, Removing, Ops
    <2>9. CASE ioLoop[c] = Base
      <3>1. Destroying(c)' /\ (Removing(c)' => Removing(c))
        BY <1>a, <2>2, <2>6, <2>9, <2>o DEF Destroying, Removing, Ops
      <3> QED BY <1>3, <2>1, <2>4, <2>5, <2>7, <2>8, <2>9, <3>1
    <2>10. CASE ioLoop[c] # Base
      <3>1. Removing(c)' /\ (Destroying(c)' => Destroying(c))
        BY <1>a, <2>2, <2>6, <2>10, <2>o DEF Destroying, Removing, Ops
      <3> QED BY <1>3, <2>1, <2>4, <2>5, <2>7, <2>8, <2>10, <3>1
    <2> QED BY <2>9, <2>10
  <1> QED BY <1>4, <1>5

(* An event that closes a connection finds it announced, and its server in place. *)
LEMMA CloseByEventKeeps == \A c \in Conn : IInv /\ CloseByEvent(c) => IInv'
  <1> SUFFICES ASSUME NEW c \in Conn, IInv, CloseByEvent(c) PROVE IInv'
    OBVIOUS
  <1>0. /\ Runs(ioLoop[c]) /\ at[ioLoop[c]] = "poll" /\ (index[c] = "kAdded" \/ reported[c])
        /\ reported' = [reported EXCEPT ![c] = TRUE]
        /\ HandleClose(c, pending)
        /\ UNCHANGED <<serverPc, numThreads, next, nextConnId, joined, at, batch, quit, ioLoop,
                       forcing, forced, hasty>>
    BY DEF CloseByEvent, forceVars
  <1>1. Heard(c) /\ Phase(c)
    BY DEF IInv, Phases
  <1>2. c \in Accepted /\ state[c] # "kConnecting"
    BY <1>0, <1>1 DEF Phase
  <1>3. ~(state[c] = "kDisconnected" /\ index[c] = "kNew" /\ closes[c] = 0)
    BY <1>0, <1>1 DEF Phase
  <1>4. Near(pending, c)
    BY DEF Near, IInv, LoopsOK
  <1>5. ~hasty => serverPc \notin {"dtor", "gone"}
    <2> SUFFICES ASSUME ~hasty, serverPc \in {"dtor", "gone"} PROVE FALSE
      OBVIOUS
    <2>1. InTime(c) /\ OnItsWay(c)
      BY <1>2 DEF IInv, Stages
    <2>2. c \in connections
      BY <1>0, <2>1 DEF InTime, OnItsWay
    <2>3. serverPc = "dtor" /\ ioLoop[c] = Base
      BY <2>1, <2>2 DEF InTime, IInv, Started
    <2> QED BY <1>0, <2>3 DEF Runs
  <1>6. /\ reported' \in [Conn -> BOOLEAN]
        /\ \A d \in Conn : d # c => reported'[d] = reported[d]
    BY <1>0 DEF IInv, ConnsOK
  <1>7. /\ batch' \in [Loop -> Nat]
        /\ \A m \in Loop : batch'[m] <= Len(pending[m]) /\ batch'[m] <= batch[m]
    BY <1>0 DEF IInv, LoopsOK
  <1> QED BY <1>0, <1>2, <1>3, <1>4, <1>5, <1>6, <1>7, HandleCloseKeeps

(* So does a functor of its loop. *)
LEMMA CloseByFunctorKeeps == \A c \in Conn : IInv /\ CloseByFunctor(c) => IInv'
  <1> SUFFICES ASSUME NEW c \in Conn, IInv, CloseByFunctor(c) PROVE IInv'
    OBVIOUS
  <1>0. /\ Runs(ioLoop[c]) /\ at[ioLoop[c]] = "functors" /\ Open(c)
        /\ HandleClose(c, pending)
        /\ UNCHANGED <<serverPc, numThreads, next, nextConnId, joined, at, batch, quit, ioLoop,
                       reported, forcing, forced, hasty>>
    BY DEF CloseByFunctor, forceVars
  <1>1. Heard(c) /\ Phase(c)
    BY DEF IInv, Phases
  <1>2. c \in Accepted /\ state[c] # "kConnecting" /\ state[c] # "kDisconnected"
    BY <1>0, <1>1 DEF Phase, Open
  <1>4. Near(pending, c)
    BY DEF Near, IInv, LoopsOK
  <1>5. ~hasty => serverPc \notin {"dtor", "gone"}
    <2> SUFFICES ASSUME ~hasty, serverPc \in {"dtor", "gone"} PROVE FALSE
      OBVIOUS
    <2>1. InTime(c) /\ OnItsWay(c)
      BY <1>2 DEF IInv, Stages
    <2>2. c \in connections
      BY <1>0, <1>1, <2>1 DEF InTime, OnItsWay, Open, Phase
    <2>3. serverPc = "dtor" /\ ioLoop[c] = Base
      BY <2>1, <2>2 DEF InTime, IInv, Started
    <2> QED BY <1>0, <2>3 DEF Runs
  <1>6. /\ reported' \in [Conn -> BOOLEAN] /\ ~reported'[c]
        /\ \A d \in Conn : d # c => reported'[d] = reported[d]
    BY <1>0, <1>1 DEF IInv, ConnsOK, Phase
  <1>7. /\ batch' \in [Loop -> Nat]
        /\ \A m \in Loop : batch'[m] <= Len(pending[m]) /\ batch'[m] <= batch[m]
    BY <1>0 DEF IInv, LoopsOK
  <1> QED BY <1>0, <1>2, <1>4, <1>5, <1>6, <1>7, HandleCloseKeeps

(* forceCloseInLoop closes a connection that is not closed, or closed no more. *)
LEMMA RunForceCloseKeeps == \A l \in Loop : IInv /\ RunForceClose(l) => IInv'
  <1> SUFFICES ASSUME NEW l \in Loop, IInv, RunForceClose(l) PROVE IInv'
    OBVIOUS
  <1>p. PICK c \in Accepted : c = Head(pending[l]).conn
    BY BeginPops DEF RunForceClose
  <1> DEFINE rest == Rest(l)
  <1>0. /\ Begin(l, "forceClose")
        /\ IF Open(c)
           THEN HandleClose(c, rest)
           ELSE /\ pending' = rest
                /\ UNCHANGED <<connections, state, reading, index, told, closes, misuse>>
        /\ UNCHANGED <<serverPc, numThreads, next, nextConnId, joined, at, quit, ioLoop, reported,
                       forcing, forced, hasty>>
    BY <1>p DEF RunForceClose, Begin, forceVars
  <1>1. /\ Popped(rest, pending, l, "forceClose", c)
        /\ \A m \in Loop : batch'[m] <= Len(rest[m]) /\ batch'[m] <= batch[m]
        /\ batch' \in [Loop -> Nat] /\ at[l] = "functors"
    BY <1>0, <1>p, BeginPops
  <1> HIDE DEF rest
  <1>a. Accepted' = Accepted /\ c \in Conn /\ \A d \in Accepted : d \in Conn
    BY <1>0, BaseAndLoops DEF Accepted, IInv
  <1>b. l = ioLoop[c] /\ ForceClosing(c)
    BY <1>1, <1>a DEF IInv, Places, Popped, Ops, ForceClosing
  <1>c. Heard(c) /\ Phase(c)
    BY <1>a DEF IInv, Phases
  <1>4. Near(rest, c)
    BY <1>1 DEF Near, IInv, Popped
  <1>d. CASE Open(c)
    <2>1. state[c] # "kConnecting" /\ state[c] # "kDisconnected"
      BY <1>d DEF Open
    <2>2. ~hasty => serverPc \notin {"dtor", "gone"}
      BY <1>b DEF IInv, Stages, InTime
    <2>3. /\ reported' \in [Conn -> BOOLEAN] /\ ~reported'[c]
          /\ \A d \in Conn : d # c => reported'[d] = reported[d]
      BY <1>0, <1>1, <1>b, <1>c DEF IInv, ConnsOK, Phase
    <2> QED BY <1>0, <1>1, <1>4, <1>d, <2>1, <2>2, <2>3, HandleCloseKeeps
  <1>e. CASE ~Open(c)
    <2>0. /\ pending' = rest
          /\ UNCHANGED <<connections, state, reading, index, told, closes, misuse>>
      BY <1>0, <1>e
    <2>1. ServerOK' /\ ConnsOK' /\ Started' /\ Dealt'
      BY <1>0, <1>1, <1>a, <2>0, BatchKeeps, DealtKeeps DEF IInv, ServerOK, ConnsOK
    <2>2. LoopsOK'
      BY <1>0, <1>1, <2>0 DEF IInv, LoopsOK, Popped
    <2>3. \A m \in Loop, o \in Ops, d \in Conn : In(pending', m, o, d) => In(pending, m, o, d)
      BY <1>4, <2>0 DEF Near
    <2>4. Places'
      BY <1>0, <1>a, <2>3 DEF IInv, Places
    <2>5. Once(pending, Lone)'
      <3>1. Lone' = Lone
        BY <2>0 DEF Lone
      <3>2. Once(rest, Lone)
        BY <1>4 DEF Near
      <3> QED BY <2>0, <3>1, <3>2 DEF Once
    <2>6. \A d \in Conn : Same(d) /\ SameForcing(d)
      BY <1>0, <1>a, <2>0 DEF Same, SameForcing, Forcing, IInv, Phases, Phase, ConnsOK
    <2>7. \A d \in Conn : /\ FewerQueues(d)
                          /\ d # c => SameQueues(d)
                          /\ Establishing(c)' <=> Establishing(c)
                          /\ Destroying(c)' <=> Destroying(c)
                          /\ Removing(c)' <=> Removing(c)
      <3>1. Base \in Loop /\ \A d \in Conn : ioLoop[d] \in Loop
        BY BaseAndLoops DEF IInv, ConnsOK
      <3>2. \A m \in Loop, o \in Ops, d \in Conn :
               d # c \/ o # "forceClose" => (In(pending', m, o, d) <=> In(pending, m, o, d))
        BY <1>4, <2>0 DEF Near
      <3>3. \A d \in Conn : FewerQueues(d)
        BY <1>0, <2>3, <3>1 DEF FewerQueues, Establishing, Destroying, ForceClosing, Removing, Ops
      <3>4. \A d \in Conn : d # c => SameQueues(d)
        BY <1>0, <3>1, <3>2 DEF SameQueues, Establishing, Destroying, ForceClosing, Removing, Ops
      <3>5. /\ Establishing(c)' <=> Establishing(c)
            /\ Destroying(c)' <=> Destroying(c)
            /\ Removing(c)' <=> Removing(c)
        BY <1>0, <1>a, <3>1, <3>2 DEF Establishing, Destroying, Removing, Ops
      <3> QED BY <3>3, <3>4, <3>5
    <2>8. Phases'
      BY <1>0, <2>6, <2>7, PhaseKept DEF IInv, Phases, FewerQueues
    <2>9. Stages'
      <3>1. ASSUME NEW d \in Accepted, OnItsWay(d) PROVE OnItsWay(d)'
        <4>1. CASE d = c
          BY <1>0, <1>a, <1>e, <2>0, <2>7, <3>1, <4>1 DEF OnItsWay, Open
        <4>2. CASE d # c
          BY <1>0, <1>a, <2>0, <2>6, <2>7, <3>1, <4>2, WayKept
        <4> QED BY <4>1, <4>2
      <3>2. ASSUME NEW d \in Accepted, InTime(d) PROVE InTime(d)'
        BY <1>0, <1>a, <2>0, <2>6, <2>7, <3>2, InTimeKept
      <3> QED BY <1>0, <1>a, <2>0, <3>1, <3>2 DEF IInv, Stages
    <2> QED BY <2>1, <2>2, <2>4, <2>5, <2>8, <2>9 DEF IInv
  <1> QED BY <1>d, <1>e

(* getNextLoop deals in turn, so the shares stay within one of each other. *)
LEMMA NextLoopDeals ==
    ASSUME IInv, NEW c \in Conn, c = nextConnId, nextConnId' = nextConnId + 1,
           ioLoop' = [ioLoop EXCEPT ![c] = NextLoop],
           next' = IF numThreads = 0 THEN next ELSE Wrap(next + 1),
           numThreads' = numThreads
    PROVE  /\ Dealt' /\ next' \in 0 .. MaxThreads
           /\ NextLoop \in Loop /\ (NextLoop = Base <=> numThreads = 0)
  <1>0. /\ numThreads \in 0 .. MaxThreads /\ next \in 0 .. MaxThreads /\ MaxThreads \in Nat
        /\ nextConnId \in Nat /\ nextConnId >= 1 /\ (numThreads > 0 => next < numThreads)
    BY BoundsAssumption DEF IInv, ServerOK, Dealt
  <1>1. CASE numThreads = 0
    <2>1. \A l \in 1 .. numThreads : FALSE
      BY <1>1
    <2>2. Dealt'
      BY <1>0, <1>1, <2>1 DEF Dealt
    <2> QED BY <1>0, <1>1, <2>2 DEF NextLoop, Base, Loop
  <1>2. CASE numThreads # 0
    <2>1. NextLoop = next + 1 /\ next + 1 \in 1 .. numThreads /\ NextLoop \in Loop
      BY <1>0, <1>2 DEF NextLoop, Loop
    <2>2. next' = IF next + 1 = numThreads THEN 0 ELSE next + 1
      BY <1>0, <1>2 DEF Wrap
    <2>3. PICK k \in Nat : \A l \in 1 .. numThreads :
                Cardinality(Served(l)) = IF l <= next THEN k + 1 ELSE k
      BY DEF IInv, Dealt
    <2>4. Accepted' = Accepted \cup {c} /\ c \notin Accepted
      <3>1. Accepted' = 1 .. nextConnId /\ Accepted = 1 .. nextConnId - 1
        BY <1>0 DEF Accepted
      <3>2. 1 .. nextConnId = (1 .. nextConnId - 1) \cup {nextConnId}
        BY <1>0
      <3>3. nextConnId \notin 1 .. nextConnId - 1
        BY <1>0
      <3> QED BY <3>1, <3>2, <3>3
    <2>5. \A d \in Accepted : d \in Conn /\ d # c
      BY <2>4, BaseAndLoops DEF IInv
    <2>6. ioLoop'[c] = next + 1 /\ \A d \in Accepted : ioLoop'[d] = ioLoop[d]
      BY <2>1, <2>5 DEF IInv, ConnsOK
    <2>7. \A l : Served(l)' = IF l = next + 1 THEN Served(l) \cup {c} ELSE Served(l)
      BY <2>4, <2>6 DEF Served
    <2>8. \A l : c \notin Served(l) /\ IsFiniteSet(Served(l))
      <3>1. IsFiniteSet(Accepted)
        BY <1>0, FS_Interval DEF Accepted
      <3>2. \A l : Served(l) \subseteq Accepted
        BY DEF Served
      <3> QED BY <2>4, <3>1, <3>2, FS_Subset
    <2>9. Cardinality(Served(next + 1) \cup {c}) = Cardinality(Served(next + 1)) + 1
      BY <2>8, FS_AddElement
    <2>10. Cardinality(Served(next + 1)) = k
      BY <1>0, <2>1, <2>3
    <2>11. \A l \in 1 .. numThreads :
              Cardinality(Served(l)') = IF l <= next + 1 THEN k + 1 ELSE k
      <3> SUFFICES ASSUME NEW l \in 1 .. numThreads
                   PROVE  Cardinality(Served(l)') = IF l <= next + 1 THEN k + 1 ELSE k
        OBVIOUS
      <3>1. CASE l = next + 1
        <4>1. Served(l)' = Served(next + 1) \cup {c}
          BY <2>7, <3>1
        <4>2. Cardinality(Served(l)') = k + 1
          BY <2>9, <2>10, <4>1
        <4> QED BY <1>0, <3>1, <4>2
      <3>2. CASE l # next + 1
        <4>1. Cardinality(Served(l)') = Cardinality(Served(l))
          BY <2>7, <3>2
        <4>2. l <= next <=> l <= next + 1
          BY <1>0, <3>2
        <4> QED BY <2>3, <4>1, <4>2
      <3> QED BY <3>1, <3>2
    <2>12. CASE next + 1 = numThreads
      <3>1. next' = 0 /\ next' < numThreads'
        BY <1>0, <1>2, <2>2, <2>12
      <3>2. \A l \in 1 .. numThreads' :
               Cardinality(Served(l)') = IF l <= next' THEN (k + 1) + 1 ELSE k + 1
        BY <1>0, <2>11, <2>12, <3>1
      <3>3. k + 1 \in Nat
        OBVIOUS
      <3>4. Dealt'
        BY <3>1, <3>2, <3>3 DEF Dealt
      <3> QED BY <1>0, <1>2, <2>1, <3>1, <3>4 DEF Base
    <2>13. CASE next + 1 # numThreads
      <3>1. next' = next + 1 /\ next' < numThreads'
        BY <1>0, <1>2, <2>2, <2>13
      <3>2. Dealt'
        BY <2>11, <3>1 DEF Dealt
      <3>3. next' \in 0 .. MaxThreads
        BY <1>0, <3>1
      <3> QED BY <1>0, <1>2, <2>1, <3>2, <3>3 DEF Base
    <2> QED BY <2>12, <2>13
  <1> QED BY <1>1, <1>2

(* A connection is entered in the map before anything else can know of it. *)
LEMMA NewConnectionKeeps == IInv /\ NewConnection => IInv'
  <1> SUFFICES ASSUME IInv, NewConnection PROVE IInv'
    OBVIOUS
  <1>p. PICK c \in Conn : c = nextConnId
    BY DEF NewConnection
  <1>q. PICK l : l = NextLoop
    OBVIOUS
  <1>0. /\ serverPc = "serving" /\ nextConnId' = nextConnId + 1
        /\ next' = IF numThreads = 0 THEN next ELSE Wrap(next + 1)
        /\ ioLoop' = [ioLoop EXCEPT ![c] = NextLoop]
        /\ connections' = connections \cup {c} /\ Establish(c, l)
        /\ UNCHANGED <<serverPc, numThreads, joined, at, batch, quit, reported, closes, forcing,
                       forced, hasty, misuse>>
    BY <1>p, <1>q DEF NewConnection, Accepts, Register, forceVars, histVars
  <1>1. Dealt' /\ next' \in 0 .. MaxThreads /\ l \in Loop
    BY <1>0, <1>p, <1>q, NextLoopDeals
  <1>a. /\ Accepted' = Accepted \cup {c} /\ c \notin Accepted
        /\ nextConnId' \in 1 .. MaxConns + 1 /\ nextConnId' # 1
    BY <1>0, <1>p, BoundsAssumption DEF Accepted, Conn
  <1>b. /\ ioLoop'[c] = l /\ \A d \in Conn : d # c => ioLoop'[d] = ioLoop[d]
        /\ ioLoop' \in [Conn -> Loop]
    BY <1>0, <1>1, <1>q DEF IInv, ConnsOK
  <1>c. /\ state[c] = "kConnecting" /\ Len(told[c]) = 0 /\ told[c] \in Seq({"up", "down"})
        /\ ~reading[c] /\ index[c] = "kNew" /\ closes[c] = 0 /\ c \notin forced
        /\ ~reported[c] /\ c \notin connections /\ Heard(c) /\ Phase(c) /\ ~Forcing(c)
    <2>1. Heard(c) /\ Phase(c) /\ told[c] \in Seq({"up", "down"}) /\ c \notin connections
      BY <1>a DEF IInv, Phases, ServerOK, ConnsOK
    <2>2. state[c] = "kConnecting" /\ index[c] = "kNew" /\ closes[c] = 0 /\ c \notin forced
      BY <1>a, <2>1 DEF Phase
    <2>3. ~reported[c] /\ ~Forcing(c)
      BY <2>1, <2>2 DEF Phase
    <2>4. Len(told[c]) = 0
      <3>1. state[c] = "kConnecting" <=> Len(told[c]) = 0
        BY <2>1, Zenon DEF Heard
      <3> QED BY <2>2, <3>1
    <2>5. ~reading[c]
      <3>1. reading[c] <=> Len(told[c]) = 1
        BY <2>1, Zenon DEF Heard
      <3> QED BY <2>4, <3>1
    <2> QED BY <2>1, <2>2, <2>3, <2>4, <2>5
  <1>d. \A m \in Loop, o \in Ops : ~In(pending, m, o, c)
    BY <1>a DEF IInv, Places
  <1>e. Base \in Loop
    BY BaseAndLoops
  <1>f. \A d \in Accepted : d \in Conn /\ d # c
    BY <1>a, BaseAndLoops DEF IInv
  <1>2. ServerOK' /\ Started'
    BY <1>0, <1>1, <1>a DEF IInv, ServerOK, Started
  <1>l. Lone' = Lone
    BY <1>0 DEF Lone
  <1>g. /\ reported' \in [Conn -> BOOLEAN] /\ closes' \in [Conn -> Nat] /\ forced' \subseteq Conn
        /\ forcing' \in {Idle} \cup [pc : {"set", "queue"}, conn : Conn]
    BY <1>0 DEF IInv, ConnsOK
  <1>h. ~hasty => ~misuse /\ \A d \in Accepted : OnItsWay(d)
    BY DEF IInv, Stages
  (* What is left to show of c: it is up, or will be. *)
  <1>3. ASSUME LoopsOK', ConnsOK', Places', Once(pending', Lone),
               \A d \in Conn : d # c => Same(d) /\ SameForcing(d) /\ SameQueues(d),
               ~Removing(c)', ~Destroying(c)', ~ForceClosing(c)',
               \/ /\ UNCHANGED <<state[c], reading[c], index[c], told[c]>> /\ Establishing(c)'
               \/ /\ state'[c] = "kConnected" /\ reading'[c] /\ index'[c] = "kAdded"
                  /\ Len(told'[c]) = 1 /\ InOrder(told'[c]) /\ ~Establishing(c)'
        PROVE  IInv'
    <2>1. Once(pending, Lone)'
      BY <1>3, <1>l DEF Once
    <2>2. Phases'
      <3>1. Heard(c)'
        <4>1. closes'[c] = 0 /\ c \notin forced'
          BY <1>0, <1>c
        <4>2. CASE /\ UNCHANGED <<state[c], reading[c], index[c], told[c]>>
                   /\ Establishing(c)'
          <5>1. /\ state'[c] = "kConnecting" /\ ~reading'[c] /\ Len(told'[c]) = 0
            BY <1>c, <4>2
          <5> QED BY <5>1 DEF Heard
        <4>3. CASE /\ state'[c] = "kConnected" /\ reading'[c] /\ index'[c] = "kAdded"
                   /\ Len(told'[c]) = 1 /\ InOrder(told'[c]) /\ ~Establishing(c)'
          BY <4>1, <4>3 DEF Heard
        <4> QED BY <1>3, <4>2, <4>3
      <3>2. Phase(c)'
        BY <1>0, <1>3, <1>a, <1>c DEF Phase, Forcing
      <3> QED BY <1>0, <1>3, <3>1, <3>2, PhaseKept DEF IInv, Phases, SameQueues
    <2>3. Stages'
      <3>1. OnItsWay(c)'
        BY <1>0, <1>3, <1>c, <1>a DEF OnItsWay
      <3>2. ASSUME NEW d \in Accepted, OnItsWay(d) PROVE OnItsWay(d)'
        BY <1>0, <1>3, <1>f, <3>2, WayKept
      <3> QED BY <1>0, <1>a, <1>h, <3>1, <3>2 DEF Stages
    <2> QED BY <1>1, <1>2, <1>3, <2>1, <2>2, <2>3 DEF IInv
  <1>4. CASE l = Base
    <2>1. ConnectEstablished(c) /\ pending' = pending
      BY <1>0, <1>4 DEF Establish
    <2>2. /\ state' = [state EXCEPT ![c] = "kConnected"]
          /\ reading' = [reading EXCEPT ![c] = TRUE]
          /\ index' = [index EXCEPT ![c] = "kAdded"]
          /\ told' = [told EXCEPT ![c] = Append(@, "up")]
      BY <2>1 DEF ConnectEstablished
    <2>e. LET t == Append(told[c], "up")
          IN  t \in Seq({"up", "down"}) /\ Len(t) = 1 /\ InOrder(t)
      BY <1>c, HearsUp
    <2>3. LoopsOK'
      BY <1>0, <2>1 DEF IInv, LoopsOK
    <2>4. ConnsOK'
      <3>1. told' \in [Conn -> Seq({"up", "down"})]
        BY <2>2, <2>e DEF IInv, ConnsOK
      <3> QED BY <1>b, <1>g, <2>2, <3>1 DEF IInv, ConnsOK
    <2>5. /\ \A d \in Conn : d # c => /\ state'[d] = state[d] /\ reading'[d] = reading[d]
                                      /\ index'[d] = index[d] /\ told'[d] = told[d]
          /\ state'[c] = "kConnected" /\ reading'[c] /\ index'[c] = "kAdded"
          /\ Len(told'[c]) = 1 /\ InOrder(told'[c])
      BY <2>2, <2>e DEF IInv, ConnsOK
    <2>6. Once(pending', Lone) /\ Places'
      BY <1>a, <1>b, <1>d, <2>1 DEF IInv, Once, Places, In
    <2>7. \A d \in Conn : d # c => Same(d) /\ SameForcing(d)
      BY <1>0, <1>a, <1>b, <2>5 DEF Same, SameForcing, Forcing, IInv, Phases, Phase, ConnsOK
    <2>8. \A d \in Conn : d # c => SameQueues(d)
      BY <1>b, <2>1 DEF SameQueues, Establishing, Removing, Destroying, ForceClosing, In
    <2>9. ~Establishing(c)' /\ ~Removing(c)' /\ ~Destroying(c)' /\ ~ForceClosing(c)'
      <3>1. \A m \in Loop, o \in Ops : ~In(pending', m, o, c)
        BY <1>d, <2>1
      <3> QED BY <1>1, <1>b, <1>e, <3>1
              DEF Establishing, Removing, Destroying, ForceClosing, Ops
    <2> QED BY <1>3, <2>3, <2>4, <2>5, <2>6, <2>7, <2>8, <2>9
  <1>5. CASE l # Base
    <2>1. /\ pending' = [pending EXCEPT ![l] = Append(@, Functor("connectEstablished", c))]
          /\ UNCHANGED <<state, reading, index, told>>
      BY <1>0, <1>5 DEF Establish, Queued
    <2>2. Pushed(pending', pending, l, "connectEstablished", c)
      <3>1. pending \in [Loop -> Seq(Functors)] /\ "connectEstablished" \in Ops
        BY DEF IInv, LoopsOK, Ops
      <3> QED BY <1>1, <2>1, <3>1, Push
    <2>3. LoopsOK'
      <3>1. \A m \in Loop : Len(pending[m]) \in Nat /\ Len(pending'[m]) \in Nat
        BY <2>2 DEF IInv, LoopsOK, Pushed
      <3>2. \A m \in Loop : batch'[m] <= Len(pending'[m])
        BY <1>0, <2>2, <3>1 DEF Pushed, IInv, LoopsOK
      <3> QED BY <1>0, <2>2, <3>2 DEF IInv, LoopsOK, Pushed
    <2>4. ConnsOK'
      BY <1>b, <1>g, <2>1 DEF IInv, ConnsOK
    <2>5. Once(pending', Lone)
      BY <1>1, <1>d, <2>2 DEF IInv, Pushed, Ops
    <2>6. Places'
      BY <1>5, <1>a, <1>b, <1>d, <2>2 DEF IInv, Places, Pushed
    <2>7. \A d \in Conn : d # c => Same(d) /\ SameForcing(d)
      BY <1>0, <1>a, <1>b, <2>1 DEF Same, SameForcing, Forcing, IInv, Phases, Phase, ConnsOK
    <2>n. \A d \in Conn : ioLoop[d] \in Loop
      BY DEF IInv, ConnsOK
    <2>8. \A d \in Conn : d # c => SameQueues(d)
      BY <1>b, <1>e, <2>2, <2>n
         DEF Pushed, SameQueues, Establishing, Removing, Destroying, ForceClosing, Ops
    <2>9. Establishing(c)' /\ ~Removing(c)' /\ ~Destroying(c)' /\ ~ForceClosing(c)'
      BY <1>1, <1>b, <1>d, <1>e, <2>2
         DEF Pushed, Establishing, Removing, Destroying, ForceClosing, Ops
    <2> QED BY <1>3, <2>1, <2>3, <2>4, <2>5, <2>6, <2>7, <2>8, <2>9
  <1> QED BY <1>4, <1>5
----------------------------------------------------------------------------
(* A server that has not been started satisfies the invariant. *)
LEMMA InitKeeps == Init => IInv
  <1> SUFFICES ASSUME Init PROVE IInv
    OBVIOUS
  <1> USE BoundsAssumption DEF Init
  <1>0. Accepted = {}
    BY DEF Accepted
  <1>1. \A l \in Loop : \A op, c : ~In(pending, l, op, c)
    BY DEF In
  <1>2. ServerOK
    <2>1. numThreads = 0 /\ next = 0 /\ nextConnId = 1 /\ joined = 0
      OBVIOUS
    <2>2. /\ 0 \in 0 .. MaxThreads /\ 1 \in 1 .. MaxConns + 1 /\ 0 \in 0 .. 0
      OBVIOUS
    <2>3. hasty \in BOOLEAN /\ misuse \in BOOLEAN
      OBVIOUS
    <2> QED BY <2>1, <2>2, <2>3 DEF ServerOK
  <1>a. Started
    BY BaseAndLoops DEF Started
  <1>3. LoopsOK
    BY DEF LoopsOK
  <1>4. ConnsOK
    BY BaseAndLoops DEF ConnsOK
  <1>5. Places /\ Once(pending, Lone)
    BY <1>1 DEF Places, Once
  <1>6. Phases
    <2> SUFFICES ASSUME NEW c \in Conn PROVE Heard(c) /\ Phase(c)
      BY DEF Phases
    <2>1. ~Establishing(c) /\ ~Removing(c) /\ ~ForceClosing(c) /\ ~Forcing(c)
      BY <1>1, BaseAndLoops DEF Establishing, Removing, ForceClosing, Forcing
    <2>2. Len(told[c]) = 0
      OBVIOUS
    <2>3. Heard(c)
      BY <2>2 DEF Heard
    <2> QED BY <1>0, <2>1, <2>3 DEF Phase
  <1>7. Stages
    BY <1>0 DEF Stages
  <1>8. Dealt
    <2>1. \A l \in 1 .. numThreads : FALSE
      OBVIOUS
    <2> QED BY <2>1 DEF Dealt
  <1> QED BY <1>2, <1>a, <1>3, <1>4, <1>5, <1>6, <1>7, <1>8 DEF IInv

(* The inductive invariant: every action of the server, of its loops, of   *)
(* its connections and of its destructor keeps it.                         *)
THEOREM InductiveInvariant == Spec => []IInv
  <1>1. Init => IInv
    BY InitKeeps
  <1>2. IInv /\ [Next]_vars => IInv'
    <2> SUFFICES ASSUME IInv, [Next]_vars PROVE IInv'
      OBVIOUS
    <2>1. CASE Start
      BY <2>1, StartKeeps
    <2>2. CASE NewConnection
      BY <2>2, NewConnectionKeeps
    <2>3. CASE DtorBegins
      BY <2>3, DtorBeginsKeeps
    <2>4. CASE DtorStep
      BY <2>4, DtorJoinsThreads, DtorDisposesKeeps DEF DtorStep
    <2>5. ASSUME NEW l \in Loop, LoopStep(l) PROVE IInv'
      BY <2>5, SwapFunctorsKeeps, EndIterationKeeps, RunConnectEstablishedKeeps,
         RunConnectDestroyedKeeps, RunForceCloseKeeps, RunRemoveConnectionKeeps DEF LoopStep
    <2>6. ASSUME NEW c \in Conn,
                 CloseByEvent(c) \/ CloseByFunctor(c) \/ Shutdown(c) \/ ForceCloseChecks(c)
          PROVE  IInv'
      BY <2>6, CloseByEventKeeps, CloseByFunctorKeeps, ShutdownKeeps, ForceCloseChecksKeeps
    <2>7. CASE ForceCloses
      BY <2>7, ForceCloseSetsKeeps, ForceCloseQueuesKeeps DEF ForceCloses
    <2>8. CASE UNCHANGED vars
      <3>1. UNCHANGED <<serverVars, loopVars, connVars, forceVars, histVars>>
        BY <2>8 DEF vars
      <3>2. ServerOK' /\ LoopsOK' /\ ConnsOK' /\ Started' /\ Dealt'
        BY <3>1, DealtKeeps DEF IInv, ServerOK, LoopsOK, ConnsOK, Started, Accepted,
                    serverVars, loopVars, connVars, forceVars, histVars
      <3>3. \A d \in Conn : Same(d) /\ SameForcing(d)
        BY <3>1 DEF Same, SameForcing, Forcing, Accepted, IInv, Phases, Phase,
                    serverVars, loopVars, connVars, forceVars
      <3>4. Places' /\ Once(pending, Lone)' /\ Phases' /\ Stages'
        BY <3>1, <3>3, SameKeeps, StagesKeep DEF serverVars, loopVars, connVars, histVars
      <3> QED BY <3>2, <3>4 DEF IInv
    <2> QED BY <2>1, <2>2, <2>3, <2>4, <2>5, <2>6, <2>7, <2>8 DEF Next
  <1> QED BY <1>1, <1>2, PTL DEF Spec

(* If the server is not destroyed before its connections are done with, a  *)
(* removal on its way to the base loop finds a server to call, and the one *)
(* removal of a connection that handleClose has run for once finds it in   *)
(* connections_.  (After a second handleClose it need not, and "assert(n   *)
(* == 1)" may fail: see RemovalAssert.)                                    *)
THEOREM RemovalIsExpected == Spec => []RemovalFindsConnection
  <1>1. IInv => RemovalFindsConnection
    <2> SUFFICES ASSUME IInv PROVE RemovalFindsConnection
      OBVIOUS
    <2>1. TypeOK
      <3>1. /\ {reading, reported} \subseteq [Conn -> BOOLEAN]
            /\ {hasty, misuse} \subseteq BOOLEAN
        BY DEF IInv, ServerOK, ConnsOK
      <3>2. \A l \in Loop : /\ pending[l] \in Seq(Functors)
                            /\ batch[l] \in 0 .. Len(pending[l])
        BY DEF IInv, LoopsOK
      <3>3. Functors = [op : {"connectEstablished", "connectDestroyed",
                              "removeConnection", "forceClose"}, conn : Conn]
        BY DEF Functors, Ops
      <3> QED BY <3>1, <3>2, <3>3 DEF TypeOK, IInv, ServerOK, LoopsOK, ConnsOK
    <2>2. ASSUME ~hasty, NEW i \in DOMAIN pending[Base], NEW j \in DOMAIN pending[Base],
                 pending[Base][i].op = "removeConnection", closes[pending[Base][i].conn] < 2
          PROVE  /\ pending[Base][i].conn \in connections
                 /\ pending[Base][j] = pending[Base][i] => i = j
      <3> DEFINE f == pending[Base][i]
      <3>1. Base \in Loop /\ pending[Base] \in Seq(Functors)
        BY BaseAndLoops DEF IInv, LoopsOK
      <3>2. f \in Functors
        BY <3>1
      <3>3. f.conn \in Conn /\ f = Functor("removeConnection", f.conn)
        BY <2>2, <3>2, FunctorParts
      <3>4. Removing(f.conn)
        BY <3>3 DEF Removing, In
      <3>5. f.conn \in Accepted
        BY <3>1, <3>3, <3>4 DEF IInv, Places, Removing, Ops
      <3>6. f.conn \in connections
        BY <2>2, <3>4, <3>5 DEF IInv, Stages, OnItsWay
      <3>7. f \in Lone
        BY <2>2, <3>2 DEF Lone
      <3>8. pending[Base][j] = f => i = j
        BY <2>2, <3>1, <3>7 DEF IInv, Once
      <3> QED BY <3>6, <3>8
    <2>3. ASSUME ~hasty, NEW c \in Conn, reading[c] PROVE c \in connections
      <3>1. c \in Accepted
        BY <2>3 DEF IInv, Phases, Phase, Heard
      <3> QED BY <2>3, <3>1 DEF IInv, Stages, OnItsWay
    <2> QED BY <2>1, <2>2, <2>3 DEF RemovalFindsConnection, IInv, Stages
  <1> QED BY <1>1, InductiveInvariant, PTL

(* When the last TcpConnectionPtr of a connection goes, whichever of its   *)
(* closes, the destructor and their functors came first, the connection is *)
(* as ~TcpConnection and ~Channel assert.                                  *)
THEOREM ConnectionsEndInOrder == Spec => []DestroyedClean
  <1>1. IInv => DestroyedClean
    <2> SUFFICES ASSUME IInv, ~hasty, NEW c \in Accepted, ~Referenced(c)
                 PROVE  state[c] = "kDisconnected" /\ ~reading[c] /\ ~addedToLoop(c)
      BY DEF DestroyedClean
    <2>0. c \in Conn
      BY BaseAndLoops DEF IInv
    <2>1. OnItsWay(c) /\ Phase(c) /\ Heard(c)
      BY <2>0 DEF IInv, Stages, Phases
    <2>2. /\ c \notin connections /\ ~Forcing(c) /\ ~Establishing(c) /\ ~Destroying(c)
          /\ ~ForceClosing(c) /\ ~Removing(c)
      BY <2>0, FunctorsRefer
    <2>3. ~reading[c] /\ index[c] = "kNew" /\ state[c] # "kConnecting"
      BY <2>1, <2>2 DEF OnItsWay
    <2>4. state[c] # "kConnected" /\ state[c] # "kDisconnecting"
      BY <2>1, <2>2, <2>3 DEF OnItsWay, Phase, Forcing, Idle
    <2> QED BY <2>0, <2>3, <2>4 DEF IInv, ConnsOK, addedToLoop
  <1> QED BY <1>1, InductiveInvariant, PTL

(* The connection callback hears of each connection's start first, and of  *)
(* its end once for each time handleClose runs, or once from               *)
(* connectDestroyed where it has not run; and the pool's loops have one    *)
(* connection more or less than each other.                                *)
THEOREM ServedInTurn == Spec => []ConnectionsServed
  <1>1. IInv => ToldInOrder
    <2> SUFFICES ASSUME IInv, NEW c \in Conn, told[c] # <<>>
                 PROVE  /\ told[c][1] = "up"
                        /\ \A i \in 2 .. Len(told[c]) : told[c][i] = "down"
                        /\ \/ Len(told[c]) <= 2
                           \/ Len(told[c]) = closes[c] + 1
                           \/ hasty /\ c \in forced
      BY DEF ToldInOrder
    <2>1. Heard(c) /\ told[c] \in Seq({"up", "down"})
      BY DEF IInv, Phases, ConnsOK
    <2>2. Len(told[c]) > 0
      BY <2>1
    <2> QED BY <2>1, <2>2 DEF Heard, InOrder
  <1>2. IInv => LoopsShareEvenly
    <2> SUFFICES ASSUME IInv, NEW l \in 1 .. numThreads, NEW m \in 1 .. numThreads
                 PROVE  Cardinality(Served(l)) <= Cardinality(Served(m)) + 1
      BY DEF LoopsShareEvenly, Served
    <2>1. PICK k \in Nat : \A n \in 1 .. numThreads :
                Cardinality(Served(n)) = IF n <= next THEN k + 1 ELSE k
      BY DEF IInv, Dealt
    <2>2. Cardinality(Served(l)) \in {k, k + 1} /\ Cardinality(Served(m)) \in {k, k + 1}
      BY <2>1
    <2> QED BY <2>2
  <1> QED BY <1>1, <1>2, InductiveInvariant, PTL DEF ConnectionsServed
=====
