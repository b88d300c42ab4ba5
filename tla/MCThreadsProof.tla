---------------------------- MODULE MCThreadsProof ----------------------------
(***************************************************************************)
(* Theorems of MCThreads: the thread pool, the blocking queues and the     *)
(* thread objects, for any number of threads, tasks and items and for any  *)
(* limit of a queue, with or without spurious wake-ups; and the logging,   *)
(* for any sizes of buffers and files and any lengths of lines.            *)
(***************************************************************************)
EXTENDS MCThreads, FiniteSetTheorems, SequenceTheorems, NaturalsInduction,
        WellFoundedInduction, TLAPS

----------------------------------------------------------------------------
(* What the threads of the pool know of each other.                        *)
AllThreads == Worker \cup Producer \cup {Owner}

OwnerAt == {"idle", "started", "await", "stop", "join", "joined"}
Labels  == {"new", "loop", "take", "busy", "ended", "run", "again"} \cup OwnerAt

(* Workers exist once started, hold a task exactly while busy, and sleep   *)
(* only in take(); producers sleep only in run(), before a limit, and pass *)
(* what they have counted.                                                 *)
PoolPlaces ==
    /\ pc \in [AllThreads -> Labels]
    /\ \A w \in Worker : /\ w \in threads <=> pc[w] # "new"
                         /\ pc[w] = "busy" <=> doing[w] # NoTask
                         /\ w \in notEmpty => pc[w] = "take"
    /\ \A p \in Producer : /\ p \in notFull => pc[p] = "again"
                           /\ pc[p] # "idle" => given[p] # 0
    /\ notFull # {} => MaxQueueSize > 0 /\ threads # {}
    /\ threads = {} => queue = <<>>

(* running_ is the owner's: nothing happens before start(), after stop()   *)
(* nobody sleeps, and once joined the workers are no more.                 *)
PoolPhase ==
    /\ running <=> pc[Owner] \in {"started", "await", "stop"}
    /\ pc[Owner] = "idle" =>
            threads = {} /\ \A p \in Producer : pc[p] = "idle" /\ given[p] = 0
    /\ ~running => notEmpty = {} /\ notFull = {}
    /\ dropped # {} => ~running
    /\ pc[Owner] = "joined" => AllEnded

(* The places of a task: one of them, for each task given to run().        *)
Hand      == UNION {InHand(p) : p \in Producer}
BusyTasks == {doing[w] : w \in Busy}

Disjoint(H, Q, B, R, D) ==
    /\ H \cap (Q \cup B \cup R \cup D) = {}
    /\ Q \cap (B \cup R \cup D) = {}
    /\ B \cap (R \cup D) = {}
    /\ R \cap D = {}

OnePlace ==
    /\ Hand \cup Elements(queue) \cup BusyTasks \cup ran \cup dropped = Submitted
    /\ Disjoint(Hand, Elements(queue), BusyTasks, ran, dropped)
    /\ \A v, w \in Busy : doing[v] = doing[w] => v = w

(* The queue keeps the order of each producer, and to its limit, and what  *)
(* a worker has taken came before all that is queued.                      *)
QueueInOrder ==
    /\ MaxQueueSize > 0 => Len(queue) <= MaxQueueSize
    /\ \A i, j \in DOMAIN queue : i < j /\ queue[i][1] = queue[j][1]
                                    => queue[i][2] < queue[j][2]
    /\ \A x \in Elements(queue), t \in BusyTasks \cup ran :
            t[1] = x[1] => t[2] < x[2]

(* The latch is never ahead of the last tasks that have run: a task that   *)
(* throws does not count down.                                             *)
Last(p) == <<p, PerProducer>>
LatchBehind ==
    /\ Cardinality({p \in Producer : Last(p) \notin ran}) <= latch
    /\ awaited => dropped = {} /\ \A p \in Producer : Last(p) \in ran

PoolInv == /\ PoolTypeOK /\ PoolPlaces /\ PoolPhase
           /\ OnePlace /\ QueueInOrder /\ LatchBehind /\ NotificationsSuffice

(* Queues: an item in put() is not yet in the queue, and the items of a    *)
(* producer are numbered.                                                  *)
ItemsFresh ==
    /\ bounded => Len(queue) <= MaxSize
    /\ ~bounded => notFull = {}
    /\ \A i \in DOMAIN queue : LET p == queue[i][1]
                               IN  /\ queue[i][2] <= sent[p]
                                   /\ p \in calling => queue[i][2] # sent[p]
    /\ \A p \in Producer \cap calling : sent[p] # 0
    /\ \A i, j \in DOMAIN queue : queue[i] = queue[j] => i = j

QueueInv == QueueNotificationsSuffice /\ ItemsFresh

(* Threads: what the owner has done with an object tells how far its       *)
(* thread can be, and a thread has written its id unless the object is     *)
(* gone; default names carry numbers that have been given out.             *)
DefaultName(k) == <<"Thread", k>>
ThreadName == {<<>>, <<"given">>} \cup {DefaultName(k) : k \in Nat}

ObjectsOK ==
    /\ num_ \in Nat
    /\ object \in [ThreadObject -> [started_ : BOOLEAN, joined_ : BOOLEAN,
                                    tid_ : {0} \cup ThreadObject, name_ : ThreadName]]
    /\ t_cachedTid \in [ThreadObject -> {0} \cup ThreadObject]
    /\ strayed \subseteq ThreadObject
    /\ process \in {"runs", "detached nothing", "unknown exception"}
    /\ \A t \in ThreadObject :
          /\ t_cachedTid[t] \in {0, t}
          /\ \A k \in Nat : object[t].name_ = DefaultName(k) => k <= num_

BodyFollowsLife ==
    \A t \in ThreadObject :
        /\ life[t] = "none" => ~object[t].started_
        /\ object[t].joined_ => object[t].started_
        /\ body[t] # "none" => object[t].started_
        /\ life[t] \in {"join", "joined"} => body[t] # "none" /\ object[t].joined_
        /\ object[t].joined_ =>
              life[t] = "join" \/ body[t] \in {"none", "ended"}
        /\ life[t] \in {"none", "made"} /\ object[t].joined_ => body[t] = "none"
        /\ body[t] \in {"running", "ended"} => object[t].tid_ = t \/ t \in strayed

ThreadInv == ThreadsAccounted /\ ObjectsOK /\ BodyFollowsLife

IInv == /\ part \in {"pool", "queue", "log", "thread"}
        /\ bounded \in BOOLEAN
        /\ part = "pool" => PoolInv
        /\ part = "queue" => QueueInv
        /\ part = "thread" => ThreadInv
        /\ part \in {"log", "thread"} => notEmpty = {} /\ notFull = {}
----------------------------------------------------------------------------
(* Counting and sequences.                                                 *)

(* A new element counts one more.                                          *)
LEMMA OneMore ==
    ASSUME NEW S, NEW T, IsFiniteSet(S), NEW x, x \notin S, T = S \cup {x}
    PROVE  /\ IsFiniteSet(T)
           /\ Cardinality(T) \in Nat /\ Cardinality(S) \in Nat
           /\ Cardinality(T) = Cardinality(S) + 1
  BY FS_AddElement, FS_CardinalityType

(* A part of a finite set is finite and counts no more.                    *)
LEMMA NoMore ==
    ASSUME NEW S, NEW T, IsFiniteSet(S), T \subseteq S
    PROVE  /\ IsFiniteSet(T)
           /\ Cardinality(T) \in Nat /\ Cardinality(S) \in Nat
           /\ Cardinality(T) <= Cardinality(S)
  BY FS_Subset, FS_CardinalityType

(* Append() adds one element...                                            *)
LEMMA ElementsAppend ==
    ASSUME NEW S, NEW s \in Seq(S), NEW x \in S
    PROVE  Elements(Append(s, x)) = Elements(s) \cup {x}
  <1>1. /\ DOMAIN Append(s, x) = 1 .. Len(s) + 1
        /\ \A i \in 1 .. Len(s) : Append(s, x)[i] = s[i]
        /\ Append(s, x)[Len(s) + 1] = x
        /\ DOMAIN s = 1 .. Len(s) /\ Len(s) \in Nat
    OBVIOUS
  <1>2. 1 .. Len(s) + 1 = (1 .. Len(s)) \cup {Len(s) + 1}
    BY <1>1
  <1> HIDE DEF Elements
  <1>3. Elements(Append(s, x)) = {Append(s, x)[i] : i \in (1 .. Len(s)) \cup {Len(s) + 1}}
    BY <1>1, <1>2 DEF Elements
  <1>4. Elements(s) = {Append(s, x)[i] : i \in 1 .. Len(s)}
    BY <1>1 DEF Elements
  <1> QED BY <1>1, <1>3, <1>4

(* ... and Tail() removes one occurrence of the head.                      *)
LEMMA ElementsTail ==
    ASSUME NEW S, NEW s \in Seq(S), s # <<>>
    PROVE  /\ Head(s) \in S
           /\ Elements(s) = Elements(Tail(s)) \cup {Head(s)}
           /\ Elements(s) \subseteq S
  <1>1. /\ Len(s) \in Nat \ {0} /\ DOMAIN s = 1 .. Len(s) /\ Head(s) = s[1]
        /\ DOMAIN Tail(s) = 1 .. Len(s) - 1
        /\ \A i \in 1 .. Len(s) - 1 : Tail(s)[i] = s[i + 1]
        /\ \A i \in 1 .. Len(s) : s[i] \in S
    OBVIOUS
  <1>2. ASSUME NEW y \in Elements(s) PROVE y \in Elements(Tail(s)) \cup {Head(s)}
    <2>1. PICK i \in 1 .. Len(s) : y = s[i]
      BY <1>1 DEF Elements
    <2>2. CASE i = 1
      BY <1>1, <2>1, <2>2
    <2>3. CASE i # 1
      <3>1. i - 1 \in DOMAIN Tail(s) /\ Tail(s)[i - 1] = y
        BY <1>1, <2>1, <2>3
      <3> QED BY <3>1 DEF Elements
    <2> QED BY <2>2, <2>3
  <1>3. ASSUME NEW y \in Elements(Tail(s)) PROVE y \in Elements(s)
    <2>1. PICK i \in 1 .. Len(s) - 1 : y = Tail(s)[i]
      BY <1>1 DEF Elements
    <2>2. i + 1 \in DOMAIN s /\ s[i + 1] = y
      BY <1>1, <2>1
    <2> QED BY <2>2 DEF Elements
  <1>4. Head(s) \in Elements(s)
    BY <1>1 DEF Elements
  <1>5. Elements(s) \subseteq S
    BY <1>1 DEF Elements
  <1> QED BY <1>1, <1>2, <1>3, <1>4, <1>5

(* A sequence that repeats nothing has as many elements as its length.     *)
LEMMA ElementsCounted ==
    ASSUME NEW S, NEW s \in Seq(S),
           \A i, j \in DOMAIN s : s[i] = s[j] => i = j
    PROVE  IsFiniteSet(Elements(s)) /\ Cardinality(Elements(s)) = Len(s)
  <1>1. DOMAIN s = 1 .. Len(s) /\ Len(s) \in Nat
    OBVIOUS
  <1>2. IsFiniteSet(1 .. Len(s)) /\ Cardinality(1 .. Len(s)) = Len(s)
    BY <1>1, FS_Interval
  <1> DEFINE f == [i \in 1 .. Len(s) |-> s[i]]
  <1>3. f \in Bijection(1 .. Len(s), Elements(s))
    BY <1>1 DEF Elements, Bijection, Injection, Surjection, IsInjective
  <1>4. ExistsBijection(1 .. Len(s), Elements(s))
    BY <1>3 DEF ExistsBijection
  <1> HIDE DEF f
  <1> QED BY <1>2, <1>4, FS_Bijection

(* Items are pairs, finitely many, and none is NoTask.                     *)
LEMMA ItemsArePairs ==
    /\ IsFiniteSet(Item) /\ NoTask \notin Item
    /\ \A t \in Item : t[1] \in Producer /\ t[2] \in 1 .. PerProducer /\ t = <<t[1], t[2]>>
    /\ Cardinality(Item) = PerProducer * Cardinality(Producer)
  <1>1. IsFiniteSet(Producer) /\ PerProducer \in Nat
    BY ProducerAssumption
  <1>2. IsFiniteSet(1 .. PerProducer) /\ Cardinality(1 .. PerProducer) = PerProducer
    BY <1>1, FS_Interval
  <1>3. /\ IsFiniteSet(Item)
        /\ Cardinality(Item) = Cardinality(Producer) * PerProducer
    BY <1>1, <1>2, FS_Product DEF Item
  <1>4. Cardinality(Producer) \in Nat
    BY <1>1, FS_CardinalityType
  <1>5. Cardinality(Producer) * PerProducer = PerProducer * Cardinality(Producer)
    BY <1>1, <1>4
  <1>6. \A t \in Item : t[1] \in Producer /\ t[2] \in 1 .. PerProducer /\ t = <<t[1], t[2]>>
    BY DEF Item
  <1>7. NoTask \notin Item
    BY DEF Item, NoTask
  <1> QED BY <1>3, <1>5, <1>6, <1>7

(* Sets that share nothing count together.                                 *)
LEMMA Apart ==
    ASSUME NEW S, NEW T, IsFiniteSet(S), IsFiniteSet(T), S \cap T = {}
    PROVE  Cardinality(S \cup T) = Cardinality(S) + Cardinality(T)
  <1>1. Cardinality(S \cup T) = Cardinality(S) + Cardinality(T) - Cardinality(S \cap T)
    BY FS_Union
  <1>2. Cardinality(S \cap T) = 0
    BY FS_EmptySet
  <1> QED BY <1>1, <1>2, FS_CardinalityType

----------------------------------------------------------------------------
(* The thread pool: moves of a task from one place to another.             *)

(* A producer that returns from run() lets go of its task.                 *)
LEMMA HandRelease ==
    ASSUME PoolTypeOK, PoolPlaces, NEW p \in Producer, pc[p] # "idle",
           pc' = [pc EXCEPT ![p] = "idle"], given' = given
    PROVE  /\ Arg(p) \in Hand /\ Arg(p) \in Item
           /\ Hand' = Hand \ {Arg(p)} /\ Submitted' = Submitted
  <1>1. \A q \in Producer : q \in DOMAIN pc /\ q \in DOMAIN given
    BY DEF PoolPlaces, AllThreads, PoolTypeOK
  <1>2. Arg(p) \in Item
    BY DEF Arg, PoolTypeOK, PoolPlaces, Item
  <1>3. \A q \in Producer : Arg(q)' = Arg(q) /\ (q # p => Arg(q) # Arg(p))
    BY DEF Arg
  <1>4. \A q \in Producer \ {p} : InHand(q)' = InHand(q) /\ Arg(p) \notin InHand(q)
    BY <1>1, <1>3 DEF InHand
  <1>5. InHand(p) = {Arg(p)} /\ InHand(p)' = {}
    BY <1>1 DEF InHand
  <1>6. Submitted' = Submitted
    BY DEF Submitted
  <1> QED BY <1>2, <1>4, <1>5, <1>6 DEF Hand

(* One that calls run() has a new task in its hand.                        *)
LEMMA HandGain ==
    ASSUME PoolTypeOK, PoolPlaces, NEW p \in Producer, CallRun(p)
    PROVE  /\ Arg(p)' \in Item /\ Arg(p)' \notin Submitted
           /\ Hand' = Hand \cup {Arg(p)'}
           /\ Submitted' = Submitted \cup {Arg(p)'}
  <1>1. /\ \A q \in Producer : q \in DOMAIN pc /\ q \in DOMAIN given
        /\ given[p] \in Nat /\ given[p] < PerProducer /\ PerProducer \in Nat
        /\ given'[p] = given[p] + 1
        /\ \A q \in Producer \ {p} : given'[q] = given[q] /\ pc'[q] = pc[q]
        /\ pc[p] = "idle" /\ pc'[p] = "run"
        /\ \A q \in Producer : given[q] \in Nat
    BY ProducerAssumption DEF CallRun, Goto, PoolPlaces, AllThreads, PoolTypeOK
  <1>2. Arg(p)' = <<p, given[p] + 1>>
    BY <1>1 DEF Arg
  <1>3. Arg(p)' \in Item
    BY <1>1, <1>2 DEF Item
  <1>4. \A q \in Producer \ {p} : InHand(q)' = InHand(q)
    BY <1>1 DEF InHand, Arg
  <1>5. InHand(p) = {} /\ InHand(p)' = {Arg(p)'}
    BY <1>1 DEF InHand
  <1>6. Hand' = Hand \cup {Arg(p)'}
    BY <1>4, <1>5 DEF Hand
  <1>7. Arg(p)' \notin Submitted
    BY <1>1, <1>2 DEF Submitted
  <1>8. ASSUME NEW t \in Item
        PROVE  t \in Submitted' <=> t \in Submitted \/ t = Arg(p)'
    <2>1. t[1] \in Producer /\ t[2] \in Nat /\ t = <<t[1], t[2]>>
      BY ItemsArePairs, ProducerAssumption
    <2>2. t \in Submitted' <=> t[2] <= given'[t[1]]
      BY DEF Submitted
    <2>3. t \in Submitted <=> t[2] <= given[t[1]]
      BY DEF Submitted
    <2>4. t = Arg(p)' <=> t[1] = p /\ t[2] = given[p] + 1
      BY <1>2, <2>1
    <2> QED BY <1>1, <2>1, <2>2, <2>3, <2>4
  <1>9. Submitted \subseteq Item /\ Submitted' \subseteq Item
    BY DEF Submitted
  <1> QED BY <1>3, <1>6, <1>7, <1>8, <1>9

(* A worker takes a task...                                                *)
LEMMA BusyGain ==
    ASSUME PoolTypeOK, NEW w \in Worker, NEW t \in Item, doing[w] = NoTask,
           doing' = [doing EXCEPT ![w] = t],
           \A u, v \in Busy : doing[u] = doing[v] => u = v,
           t \notin BusyTasks
    PROVE  /\ BusyTasks' = BusyTasks \cup {t}
           /\ \A u, v \in Busy' : doing'[u] = doing'[v] => u = v
           /\ Busy' = Busy \cup {w}
  <1>1. /\ doing \in [Worker -> Item \cup {NoTask}]
        /\ doing'[w] = t /\ \A v \in Worker \ {w} : doing'[v] = doing[v]
    BY DEF PoolTypeOK
  <1>2. t # NoTask
    BY ItemsArePairs
  <1>3. Busy' = Busy \cup {w} /\ w \notin Busy
    BY <1>1, <1>2 DEF Busy
  <1>4. \A v \in Busy : v \in Worker /\ v # w /\ doing'[v] = doing[v]
    BY <1>1, <1>3 DEF Busy
  <1>5. BusyTasks' = BusyTasks \cup {t}
    BY <1>1, <1>3, <1>4 DEF BusyTasks
  <1>6. \A u, v \in Busy' : doing'[u] = doing'[v] => u = v
    BY <1>1, <1>3, <1>4 DEF BusyTasks
  <1> QED BY <1>3, <1>5, <1>6

(* ... and is done with it.                                                *)
LEMMA BusyRelease ==
    ASSUME PoolTypeOK, NEW w \in Worker, doing[w] # NoTask,
           doing' = [doing EXCEPT ![w] = NoTask],
           \A u, v \in Busy : doing[u] = doing[v] => u = v
    PROVE  /\ doing[w] \in BusyTasks /\ doing[w] \in Item
           /\ BusyTasks' = BusyTasks \ {doing[w]}
           /\ \A u, v \in Busy' : doing'[u] = doing'[v] => u = v
  <1>1. /\ doing \in [Worker -> Item \cup {NoTask}]
        /\ doing'[w] = NoTask /\ \A v \in Worker \ {w} : doing'[v] = doing[v]
    BY DEF PoolTypeOK
  <1>2. w \in Busy /\ Busy' = Busy \ {w}
    BY <1>1 DEF Busy
  <1>3. \A v \in Busy' : v \in Busy /\ v # w /\ doing'[v] = doing[v]
    BY <1>1, <1>2 DEF Busy
  <1>4. BusyTasks' = BusyTasks \ {doing[w]}
    BY <1>2, <1>3 DEF BusyTasks
  <1>5. doing[w] \in Item
    BY <1>1
  <1> QED BY <1>2, <1>3, <1>4, <1>5 DEF BusyTasks

(* A step that leaves the tasks where they are.                            *)
LEMMA TasksStay ==
    ASSUME PoolTypeOK, OnePlace, QueueInOrder,
           UNCHANGED <<queue, doing, given, dropped, ran>>,
           \A p \in Producer : pc'[p] = "idle" <=> pc[p] = "idle"
    PROVE  OnePlace' /\ QueueInOrder'
  <1>1. \A p \in Producer : InHand(p)' = InHand(p)
    BY DEF InHand, Arg
  <1>2. Hand' = Hand
    BY <1>1 DEF Hand
  <1>3. BusyTasks' = BusyTasks /\ Busy' = Busy
    BY DEF BusyTasks, Busy
  <1>4. Elements(queue)' = Elements(queue) /\ Submitted' = Submitted
    BY DEF Elements, Submitted
  <1>5. OnePlace'
    BY <1>2, <1>3, <1>4 DEF OnePlace
  <1>6. QueueInOrder'
    BY <1>3, <1>4 DEF QueueInOrder
  <1> QED BY <1>5, <1>6

(* A task that leaves the queue's way to be done or dropped: neither the   *)
(* queue nor its order is touched.                                         *)
LEMMA OrderStays ==
    ASSUME QueueInOrder, UNCHANGED queue,
           BusyTasks' \cup ran' \subseteq BusyTasks \cup ran
    PROVE  QueueInOrder'
  <1>1. Elements(queue)' = Elements(queue)
    BY DEF Elements
  <1> QED BY <1>1 DEF QueueInOrder

(* From these places and numbers the sums of TasksAccounted follow.        *)
LEMMA Accounted ==
    ASSUME PoolTypeOK, PoolPlaces, PoolPhase, OnePlace, QueueInOrder
    PROVE  TasksAccounted
  <1> DEFINE H == Hand  Q == Elements(queue)  B == BusyTasks
             Callers == {p \in Producer : pc[p] # "idle"}
  <1>1. H \cup Q \cup B \cup ran \cup dropped = Submitted
    BY DEF OnePlace
  <1>2. Disjoint(H, Q, B, ran, dropped)
    BY DEF OnePlace
  <1>3. IsFiniteSet(Submitted)
    BY ItemsArePairs, FS_Subset DEF Submitted
  <1>4. Cardinality(H) = Cardinality(Callers)
    <2>1. IsFiniteSet(Callers)
      BY ProducerAssumption, FS_Subset
    <2> DEFINE f == [p \in Callers |-> Arg(p)]
    <2>2. \A p, q \in Callers : f[p] = f[q] => p = q
      BY DEF Arg
    <2>3. H = {Arg(p) : p \in Callers}
      BY DEF Hand, InHand
    <2>4. f \in Bijection(Callers, H)
      BY <2>2, <2>3 DEF Bijection, Injection, Surjection, IsInjective
    <2>5. ExistsBijection(Callers, H)
      BY <2>4 DEF ExistsBijection
    <2> QED BY <2>1, <2>5, FS_Bijection
  <1>5. Cardinality(Q) = Len(queue)
    <2>1. queue \in Seq(Item) /\ DOMAIN queue = 1 .. Len(queue) /\ Len(queue) \in Nat
      BY DEF PoolTypeOK
    <2>2. \A i \in DOMAIN queue : queue[i] \in Item
      BY <2>1
    <2>3. \A i \in DOMAIN queue : queue[i][2] \in Nat
      BY <2>2, ItemsArePairs, ProducerAssumption
    <2>4. ASSUME NEW i \in DOMAIN queue, NEW j \in DOMAIN queue, queue[i] = queue[j]
          PROVE  i = j
      <3>1. i \in Nat /\ j \in Nat
        BY <2>1
      <3>2. ~(i < j) /\ ~(j < i)
        BY <2>3, <2>4, <3>1 DEF QueueInOrder
      <3> QED BY <3>1, <3>2
    <2> QED BY <2>1, <2>4, ElementsCounted
  <1>6. Cardinality(B) = Cardinality(Busy)
    <2>1. Busy \subseteq Worker /\ IsFiniteSet(Busy)
      BY PoolAssumption, FS_Subset DEF Busy
    <2> DEFINE f == [w \in Busy |-> doing[w]]
    <2>2. f \in Bijection(Busy, B)
      BY DEF OnePlace, BusyTasks, Bijection, Injection, Surjection, IsInjective
    <2>3. ExistsBijection(Busy, B)
      BY <2>2 DEF ExistsBijection
    <2> QED BY <2>1, <2>3, FS_Bijection
  <1>7. Cardinality(Submitted) = Cardinality(H) + Cardinality(Q) + Cardinality(B)
                                   + Cardinality(ran) + Cardinality(dropped)
    <2> DEFINE D3 == ran \cup dropped  D2 == B \cup D3  D1 == Q \cup D2
    <2> HIDE DEF H, Q, B
    <2>1. Submitted = H \cup D1
      BY <1>1
    <2>2. /\ IsFiniteSet(H) /\ IsFiniteSet(Q) /\ IsFiniteSet(B) /\ IsFiniteSet(ran)
          /\ IsFiniteSet(dropped) /\ IsFiniteSet(D1) /\ IsFiniteSet(D2) /\ IsFiniteSet(D3)
      BY <1>1, <1>3, FS_Subset
    <2>3. /\ H \cap D1 = {} /\ Q \cap D2 = {} /\ B \cap D3 = {} /\ ran \cap dropped = {}
      BY <1>2 DEF Disjoint
    <2>4. Cardinality(D3) = Cardinality(ran) + Cardinality(dropped)
      BY <2>2, <2>3, Apart
    <2>5. Cardinality(D2) = Cardinality(B) + Cardinality(D3)
      BY <2>2, <2>3, Apart
    <2>6. Cardinality(D1) = Cardinality(Q) + Cardinality(D2)
      BY <2>2, <2>3, Apart
    <2>7. Cardinality(Submitted) = Cardinality(H) + Cardinality(D1)
      BY <2>1, <2>2, <2>3, Apart
    <2>8. /\ Cardinality(H) \in Nat /\ Cardinality(Q) \in Nat /\ Cardinality(B) \in Nat
          /\ Cardinality(ran) \in Nat /\ Cardinality(dropped) \in Nat
      BY <2>2, FS_CardinalityType
    <2> HIDE DEF D1, D2, D3
    <2> QED BY <2>4, <2>5, <2>6, <2>7, <2>8
  <1>8. MaxQueueSize > 0 => Len(queue) <= MaxQueueSize
    BY DEF QueueInOrder
  <1>9. \A i, j \in DOMAIN queue : i < j /\ queue[i][1] = queue[j][1]
                                    => queue[i][2] < queue[j][2]
    BY DEF QueueInOrder
  <1>10. (UNION {InHand(p) : p \in Producer}) \cup Elements(queue)
          \cup {doing[w] : w \in Busy} \cup ran \cup dropped = Submitted
    BY DEF OnePlace, Hand, BusyTasks
  <1> QED
    BY <1>4, <1>5, <1>6, <1>7, <1>8, <1>9, <1>10 DEF PoolPhase, TasksAccounted

----------------------------------------------------------------------------
(* Who is awake in take() and in run().                                    *)
Takers  == {w \in threads : InTake(w)}
Runners == {p \in Producer : InRun(p)}

EnoughTakers  == notEmpty # {} => Len(queue) <= Cardinality(Takers)
EnoughRunners == notFull # {}  => MaxQueueSize - Len(queue) <= Cardinality(Runners)

(* The property in these words.                                            *)
LEMMA Enough == NotificationsSuffice <=> EnoughTakers /\ EnoughRunners
  BY DEF NotificationsSuffice, EnoughTakers, EnoughRunners, Takers, Runners

(* Some of the workers or of the producers are finitely many.              *)
LEMMA AwakeCounted ==
    ASSUME NEW S, S \subseteq Worker \/ S \subseteq Producer
    PROVE  IsFiniteSet(S) /\ Cardinality(S) \in Nat
  <1>1. IsFiniteSet(S)
    BY FS_Subset, PoolAssumption, ProducerAssumption
  <1> QED BY <1>1, FS_CardinalityType

(* No more notifications are needed while the queue does not grow and      *)
(* nobody awake in take() goes to sleep...                                 *)
LEMMA TakersKept ==
    ASSUME PoolTypeOK, PoolTypeOK', EnoughTakers,
           notEmpty' # {} => /\ notEmpty # {} /\ Len(queue') <= Len(queue)
                             /\ Takers \subseteq Takers'
    PROVE  EnoughTakers'
  <1> SUFFICES ASSUME notEmpty' # {} PROVE Len(queue') <= Cardinality(Takers')
    BY DEF EnoughTakers
  <1>1. Takers \subseteq Worker /\ Takers' \subseteq Worker
    BY DEF Takers, PoolTypeOK
  <1>2. Cardinality(Takers) <= Cardinality(Takers')
    BY <1>1, AwakeCounted, NoMore
  <1>a. queue \in Seq(Item) /\ queue' \in Seq(Item)
    BY DEF PoolTypeOK
  <1>3. /\ Cardinality(Takers) \in Nat /\ Cardinality(Takers') \in Nat
        /\ Len(queue) \in Nat /\ Len(queue') \in Nat
    BY <1>1, <1>a, AwakeCounted, PoolAssumption
  <1>4. Len(queue) <= Cardinality(Takers) /\ Len(queue') <= Len(queue)
    BY DEF EnoughTakers
  <1> QED BY <1>2, <1>3, <1>4

(* ... and for run(), while the queue does not shrink.                     *)
LEMMA RunnersKept ==
    ASSUME PoolTypeOK, PoolTypeOK', EnoughRunners,
           notFull' # {} => /\ notFull # {} /\ Len(queue) <= Len(queue')
                            /\ Runners \subseteq Runners'
    PROVE  EnoughRunners'
  <1> SUFFICES ASSUME notFull' # {} PROVE MaxQueueSize - Len(queue') <= Cardinality(Runners')
    BY DEF EnoughRunners
  <1>1. Runners \subseteq Producer /\ Runners' \subseteq Producer
    BY DEF Runners
  <1>2. Cardinality(Runners) <= Cardinality(Runners')
    BY <1>1, AwakeCounted, NoMore
  <1>a. queue \in Seq(Item) /\ queue' \in Seq(Item)
    BY DEF PoolTypeOK
  <1>3. /\ Cardinality(Runners) \in Nat /\ Cardinality(Runners') \in Nat
        /\ Len(queue) \in Nat /\ Len(queue') \in Nat /\ MaxQueueSize \in Nat
    BY <1>1, <1>a, AwakeCounted, PoolAssumption
  <1>4. MaxQueueSize - Len(queue) <= Cardinality(Runners) /\ Len(queue) <= Len(queue')
    BY DEF EnoughRunners
  <1> QED BY <1>2, <1>3, <1>4

(* One thread goes on, and the others stay where they are.                 *)
LEMMA OwnerGoes ==
    ASSUME PoolPlaces, NEW l \in Labels, Goto(Owner, l)
    PROVE  /\ pc' \in [AllThreads -> Labels] /\ pc'[Owner] = l
           /\ \A w \in Worker : pc'[w] = pc[w]
           /\ \A p \in Producer : pc'[p] = pc[p]
  BY PoolAssumption DEF PoolPlaces, Goto, AllThreads

(* The same of a producer... *)
LEMMA ProducerGoes ==
    ASSUME PoolPlaces, NEW p \in Producer, NEW l \in Labels, Goto(p, l)
    PROVE  /\ pc' \in [AllThreads -> Labels] /\ pc'[p] = l /\ pc'[Owner] = pc[Owner]
           /\ \A w \in Worker : pc'[w] = pc[w]
           /\ \A q \in Producer \ {p} : pc'[q] = pc[q]
  BY PoolAssumption DEF PoolPlaces, Goto, AllThreads

(* ... and of a worker. *)
LEMMA WorkerGoes ==
    ASSUME PoolPlaces, NEW w \in Worker, NEW l \in Labels, Goto(w, l)
    PROVE  /\ pc' \in [AllThreads -> Labels] /\ pc'[w] = l /\ pc'[Owner] = pc[Owner]
           /\ \A v \in Worker \ {w} : pc'[v] = pc[v]
           /\ \A p \in Producer : pc'[p] = pc[p]
  BY PoolAssumption DEF PoolPlaces, Goto, AllThreads

(* Running a task counts the latch down if it is the last of its producer, *)
(* and so no faster than last tasks run.                                   *)
LEMMA Executed ==
    ASSUME PoolTypeOK, LatchBehind, NEW t \in Item, t \notin ran, Execute(t),
           UNCHANGED <<awaited, dropped>>
    PROVE  /\ latch' \in Int /\ awaiting' \in BOOLEAN /\ ran' = ran \cup {t}
           /\ LatchBehind'
  <1> DEFINE Missing == {p \in Producer : Last(p) \notin ran}
  <1>1. /\ IsFiniteSet(Missing) /\ Cardinality(Missing) \in Nat
        /\ IsFiniteSet(Missing') /\ Cardinality(Missing') \in Nat
    BY ProducerAssumption, FS_Subset, FS_CardinalityType
  <1>2. latch \in Int /\ Cardinality(Missing) <= latch /\ awaiting \in BOOLEAN
    BY DEF PoolTypeOK, LatchBehind
  <1>3. ran' = ran \cup {t}
    BY DEF Execute
  <1>4. awaited' => dropped' = {} /\ \A p \in Producer : Last(p) \in ran'
    BY <1>3 DEF LatchBehind
  <1>5. latch' \in Int /\ awaiting' \in BOOLEAN /\ Cardinality(Missing') <= latch'
    <2>1. CASE IsLast(t)
      <3>1. latch' = latch - 1 /\ awaiting' = (awaiting /\ latch' # 0)
        BY <2>1 DEF Execute
      <3>2. t[1] \in Producer /\ t = Last(t[1])
        BY <2>1, ItemsArePairs DEF IsLast, Last
      <3>3. \A p \in Producer : Last(p) = t <=> p = t[1]
        BY <3>2 DEF Last
      <3>4. t[1] \notin Missing' /\ Missing = Missing' \cup {t[1]}
        BY <1>3, <3>2, <3>3
      <3>5. Cardinality(Missing) = Cardinality(Missing') + 1
        BY <1>1, <3>4, OneMore
      <3>6. latch' \in Int /\ Cardinality(Missing') <= latch'
        BY <1>1, <1>2, <3>1, <3>5
      <3> QED BY <3>1, <3>6
    <2>2. CASE ~IsLast(t)
      <3>1. UNCHANGED <<latch, awaiting>>
        BY <2>2 DEF Execute
      <3>2. \A p \in Producer : Last(p) # t
        BY <2>2 DEF IsLast, Last
      <3>3. Missing' = Missing
        BY <1>3, <3>2
      <3> QED BY <1>2, <3>1, <3>3
    <2> QED BY <2>1, <2>2
  <1> QED BY <1>3, <1>4, <1>5 DEF LatchBehind

(* What is in the hand of a producer comes after all it has passed before. *)
LEMMA HandIsLatest ==
    ASSUME PoolTypeOK, PoolPlaces, OnePlace, NEW p \in Producer, pc[p] # "idle",
           NEW t \in Elements(queue) \cup BusyTasks \cup ran, t[1] = p
    PROVE  t[2] < given[p]
  <1>1. Arg(p) \in Hand
    BY DEF Hand, InHand
  <1>2. t \in Submitted /\ t # Arg(p)
    BY <1>1 DEF OnePlace, Disjoint
  <1>3. t \in Item /\ t[2] <= given[p]
    BY <1>2 DEF Submitted
  <1>4. t[2] # given[p]
    BY <1>2, <1>3, ItemsArePairs DEF Arg
  <1>5. t[2] \in Nat /\ given[p] \in Nat
    BY <1>3, ItemsArePairs, ProducerAssumption DEF PoolTypeOK
  <1> QED BY <1>3, <1>4, <1>5

(* An owner whose wait for the latch has ended finds no producer in run(). *)
LEMMA AwaitedIdle ==
    ASSUME PoolTypeOK, PoolPlaces, OnePlace, LatchBehind, awaited, NEW p \in Producer
    PROVE  pc[p] = "idle"
  <1> SUFFICES ASSUME pc[p] # "idle" PROVE FALSE
    OBVIOUS
  <1>1. Last(p) \in ran /\ Last(p)[1] = p /\ Last(p)[2] = PerProducer
    BY DEF LatchBehind, Last
  <1>2. PerProducer < given[p]
    BY <1>1, HandIsLatest
  <1> QED BY <1>2, ProducerAssumption DEF PoolTypeOK

----------------------------------------------------------------------------
(* The steps of the owner.                                                 *)

(* start() makes workers of threads that were none.                        *)
LEMMA PoolStarts ==
    ASSUME PoolInv, Start
    PROVE  PoolInv'
  <1> USE DEF PoolInv
  <1>a. /\ pc' \in [AllThreads -> Labels] /\ pc'[Owner] = "started"
        /\ \A w \in Worker : pc'[w] = IF w \in threads' THEN "loop" ELSE pc[w]
        /\ \A p \in Producer : pc'[p] = pc[p]
    BY PoolAssumption DEF Start, PoolPlaces, AllThreads, Labels, OwnerAt
  <1>b. /\ UNCHANGED <<queue, notEmpty, notFull, doing, latchVars, history>>
        /\ running' = TRUE /\ threads' \subseteq Worker /\ threads = {}
        /\ notEmpty = {} /\ notFull = {} /\ queue = <<>>
        /\ dropped = {}
    <2>1. pc[Owner] = "idle" /\ threads = {} /\ ~running
      BY DEF Start, PoolPhase
    <2>2. \A p \in Producer : given[p] = 0
      BY <2>1 DEF PoolPhase
    <2>3. Submitted = {}
      BY <2>2, ItemsArePairs, ProducerAssumption DEF Submitted
    <2> QED BY <2>1, <2>3 DEF Start, PoolPhase, PoolPlaces, OnePlace
  <1>1. PoolTypeOK'
    BY <1>a, <1>b DEF PoolTypeOK, monitor, history, latchVars
  <1>2. PoolPlaces'
    BY <1>a, <1>b DEF Start, PoolPlaces, PoolPhase, monitor, history, latchVars
  <1>3. PoolPhase'
    BY <1>a, <1>b DEF Start, PoolPlaces, PoolPhase, AllEnded, monitor, history, latchVars
  <1>4. OnePlace' /\ QueueInOrder'
    BY <1>a, <1>b, TasksStay DEF Start, monitor, history, latchVars
  <1>5. LatchBehind'
    BY <1>a, <1>b DEF Start, LatchBehind, monitor, history, latchVars
  <1>6. EnoughTakers'
    <2>1. queue' = queue
      BY <1>a, <1>b DEF monitor
    <2>2. notEmpty' # {} => notEmpty # {} /\ Takers \subseteq Takers'
      BY <1>a, <1>b DEF Start, Takers, InTake, PoolTypeOK, PoolPlaces, monitor, history, latchVars
    <2> QED BY <1>1, <2>1, <2>2, Enough, TakersKept DEF PoolTypeOK
  <1>7. EnoughRunners'
    <2>1. queue' = queue
      BY <1>a, <1>b DEF monitor
    <2>2. notFull' # {} => notFull # {} /\ Runners \subseteq Runners'
      BY <1>a, <1>b DEF Start, Runners, InRun, PoolPlaces, monitor, history, latchVars
    <2> QED BY <1>1, <2>1, <2>2, Enough, RunnersKept DEF PoolTypeOK
  <1>8. NotificationsSuffice'
    BY <1>6, <1>7 DEF NotificationsSuffice, EnoughTakers, EnoughRunners, Takers, Runners
  <1> QED BY <1>1, <1>2, <1>3, <1>4, <1>5, <1>8


(* A wait for the latch that ends finds the last tasks done.               *)
LEMMA PoolAwaits ==
    ASSUME PoolInv, AwaitLatch
    PROVE  PoolInv'
  <1> USE DEF PoolInv
  <1>0. PICK l \in {"await", "stop"} : Goto(Owner, l)
    BY DEF AwaitLatch
  <1>a. /\ pc' \in [AllThreads -> Labels] /\ pc'[Owner] = l
        /\ \A w \in Worker : pc'[w] = pc[w]
        /\ \A p \in Producer : pc'[p] = pc[p]
    BY <1>0, OwnerGoes DEF Labels, OwnerAt
  <1>b. UNCHANGED <<monitor, running, threads, doing, latch, history>>
    BY DEF AwaitLatch
  <1>c. awaiting' \in BOOLEAN /\ awaited' \in BOOLEAN
    BY DEF AwaitLatch, PoolTypeOK
  <1>1. PoolTypeOK'
    BY <1>a, <1>b, <1>c DEF PoolTypeOK, monitor, history, latchVars
  <1>2. PoolPlaces'
    BY <1>a, <1>b, <1>c DEF AwaitLatch, PoolPlaces, PoolPhase, monitor, history, latchVars
  <1>3. PoolPhase'
    BY <1>a, <1>b, <1>c DEF AwaitLatch, PoolPlaces, PoolPhase, AllEnded, monitor, history, latchVars
  <1>4. OnePlace' /\ QueueInOrder'
    BY <1>a, <1>b, <1>c, TasksStay DEF AwaitLatch, monitor, history, latchVars
  <1>5. LatchBehind'
    <2>1. CASE latch > 0
      BY <1>b, <2>1 DEF AwaitLatch, history, LatchBehind
    <2>2. CASE ~(latch > 0)
      <3> DEFINE Missing == {p \in Producer : Last(p) \notin ran}
      <3>1. IsFiniteSet(Missing) /\ Cardinality(Missing) \in Nat
        BY ProducerAssumption, FS_Subset, FS_CardinalityType
      <3>2. latch \in Int /\ Cardinality(Missing) <= latch
        BY DEF PoolTypeOK, LatchBehind
      <3>3. Cardinality(Missing) = 0
        BY <2>2, <3>1, <3>2
      <3>4. Missing = {}
        BY <3>1, <3>3, FS_EmptySet
      <3>5. dropped = {}
        BY DEF AwaitLatch, PoolPhase
      <3>6. ran' = ran /\ dropped' = dropped /\ latch' = latch
        BY <1>b DEF history
      <3>7. Cardinality(Missing)' <= latch'
        BY <3>2, <3>6
      <3> QED BY <3>4, <3>5, <3>6, <3>7 DEF LatchBehind
    <2> QED BY <2>1, <2>2
  <1>6. EnoughTakers'
    <2>1. queue' = queue
      BY <1>a, <1>b, <1>c DEF monitor
    <2>2. notEmpty' # {} => notEmpty # {} /\ Takers \subseteq Takers'
      BY <1>a, <1>b, <1>c DEF AwaitLatch, Takers, InTake, PoolTypeOK, PoolPlaces, monitor, history, latchVars
    <2> QED BY <1>1, <2>1, <2>2, Enough, TakersKept DEF PoolTypeOK
  <1>7. EnoughRunners'
    <2>1. queue' = queue
      BY <1>a, <1>b, <1>c DEF monitor
    <2>2. notFull' # {} => notFull # {} /\ Runners \subseteq Runners'
      BY <1>a, <1>b, <1>c DEF AwaitLatch, Runners, InRun, PoolPlaces, monitor, history, latchVars
    <2> QED BY <1>1, <2>1, <2>2, Enough, RunnersKept DEF PoolTypeOK
  <1>8. NotificationsSuffice'
    BY <1>6, <1>7 DEF NotificationsSuffice, EnoughTakers, EnoughRunners, Takers, Runners
  <1> QED BY <1>1, <1>2, <1>3, <1>4, <1>5, <1>8


(* stop() wakes everybody, and nobody sleeps any more.                     *)
LEMMA PoolStops ==
    ASSUME PoolInv, Stop
    PROVE  PoolInv'
  <1> USE DEF PoolInv
  <1>a. /\ pc' \in [AllThreads -> Labels] /\ pc'[Owner] = "join"
        /\ \A w \in Worker : pc'[w] = pc[w]
        /\ \A p \in Producer : pc'[p] = pc[p]
    BY OwnerGoes DEF Stop, Labels, OwnerAt
  <1>b. /\ UNCHANGED <<queue, threads, doing, latchVars, history>>
        /\ notEmpty' = {} /\ notFull' = {} /\ running' = FALSE
    BY DEF Stop, NotifyAll
  <1>1. PoolTypeOK'
    BY <1>a, <1>b DEF PoolTypeOK, monitor, history, latchVars
  <1>2. PoolPlaces'
    BY <1>a, <1>b DEF Stop, PoolPlaces, PoolPhase, monitor, history, latchVars
  <1>3. PoolPhase'
    BY <1>a, <1>b DEF Stop, PoolPlaces, PoolPhase, AllEnded, monitor, history, latchVars
  <1>4. OnePlace' /\ QueueInOrder'
    BY <1>a, <1>b, TasksStay DEF Stop, monitor, history, latchVars
  <1>5. LatchBehind'
    BY <1>a, <1>b DEF Stop, LatchBehind, monitor, history, latchVars
  <1>6. EnoughTakers'
    <2>1. queue' = queue
      BY <1>a, <1>b DEF monitor
    <2>2. notEmpty' # {} => notEmpty # {} /\ Takers \subseteq Takers'
      BY <1>a, <1>b DEF Stop, Takers, InTake, PoolTypeOK, PoolPlaces, monitor, history, latchVars
    <2> QED BY <1>1, <2>1, <2>2, Enough, TakersKept DEF PoolTypeOK
  <1>7. EnoughRunners'
    <2>1. queue' = queue
      BY <1>a, <1>b DEF monitor
    <2>2. notFull' # {} => notFull # {} /\ Runners \subseteq Runners'
      BY <1>a, <1>b DEF Stop, Runners, InRun, PoolPlaces, monitor, history, latchVars
    <2> QED BY <1>1, <2>1, <2>2, Enough, RunnersKept DEF PoolTypeOK
  <1>8. NotificationsSuffice'
    BY <1>6, <1>7 DEF NotificationsSuffice, EnoughTakers, EnoughRunners, Takers, Runners
  <1> QED BY <1>1, <1>2, <1>3, <1>4, <1>5, <1>8


(* The owner has joined the workers.                                       *)
LEMMA PoolJoins ==
    ASSUME PoolInv, Join
    PROVE  PoolInv'
  <1> USE DEF PoolInv
  <1>a. /\ pc' \in [AllThreads -> Labels] /\ pc'[Owner] = "joined"
        /\ \A w \in Worker : pc'[w] = pc[w]
        /\ \A p \in Producer : pc'[p] = pc[p]
    BY OwnerGoes DEF Join, Labels, OwnerAt
  <1>b. UNCHANGED <<monitor, running, threads, doing, latchVars, history>>
    BY DEF Join
  <1>c. AllEnded'
    BY <1>a, <1>b DEF Join, AllEnded, PoolTypeOK
  <1>1. PoolTypeOK'
    BY <1>a, <1>b, <1>c DEF PoolTypeOK, monitor, history, latchVars
  <1>2. PoolPlaces'
    BY <1>a, <1>b, <1>c DEF Join, PoolPlaces, PoolPhase, monitor, history, latchVars
  <1>3. PoolPhase'
    BY <1>a, <1>b, <1>c DEF Join, PoolPhase, monitor, history, latchVars
  <1>4. OnePlace' /\ QueueInOrder'
    BY <1>a, <1>b, <1>c, TasksStay DEF Join, monitor, history, latchVars
  <1>5. LatchBehind'
    BY <1>a, <1>b, <1>c DEF Join, LatchBehind, monitor, history, latchVars
  <1>6. EnoughTakers'
    <2>1. queue' = queue
      BY <1>a, <1>b, <1>c DEF monitor
    <2>2. notEmpty' # {} => notEmpty # {} /\ Takers \subseteq Takers'
      BY <1>a, <1>b, <1>c DEF Join, Takers, InTake, PoolTypeOK, PoolPlaces, monitor, history, latchVars
    <2> QED BY <1>1, <2>1, <2>2, Enough, TakersKept DEF PoolTypeOK
  <1>7. EnoughRunners'
    <2>1. queue' = queue
      BY <1>a, <1>b, <1>c DEF monitor
    <2>2. notFull' # {} => notFull # {} /\ Runners \subseteq Runners'
      BY <1>a, <1>b, <1>c DEF Join, Runners, InRun, PoolPlaces, monitor, history, latchVars
    <2> QED BY <1>1, <2>1, <2>2, Enough, RunnersKept DEF PoolTypeOK
  <1>8. NotificationsSuffice'
    BY <1>6, <1>7 DEF NotificationsSuffice, EnoughTakers, EnoughRunners, Takers, Runners
  <1> QED BY <1>1, <1>2, <1>3, <1>4, <1>5, <1>8


----------------------------------------------------------------------------
(* The steps of a producer.                                                *)

(* A producer calls run().                                                 *)
LEMMA PoolCalls ==
    ASSUME PoolInv, NEW p \in Producer, CallRun(p)
    PROVE  PoolInv'
  <1> USE DEF PoolInv
  <1>a. /\ pc' \in [AllThreads -> Labels] /\ pc'[p] = "run" /\ pc'[Owner] = pc[Owner]
        /\ \A w \in Worker : pc'[w] = pc[w]
        /\ \A q \in Producer \ {p} : pc'[q] = pc[q]
    BY ProducerGoes DEF CallRun, Labels, OwnerAt
  <1>b. /\ UNCHANGED <<monitor, running, threads, doing, latchVars, dropped, ran, throws>>
        /\ pc[p] = "idle" /\ pc[Owner] # "idle"
    BY DEF CallRun
  <1>c. /\ given' \in [Producer -> 0 .. PerProducer] /\ given'[p] # 0
        /\ \A q \in Producer \ {p} : given'[q] = given[q]
    BY ProducerAssumption DEF CallRun, PoolTypeOK
  <1>1. PoolTypeOK'
    BY <1>a, <1>b, <1>c DEF PoolTypeOK, monitor, history, latchVars
  <1>2. PoolPlaces'
    BY <1>a, <1>b, <1>c DEF CallRun, PoolPlaces, PoolPhase, monitor, history, latchVars
  <1>3. PoolPhase'
    <2>1. AllEnded' <=> AllEnded
      BY <1>a, <1>b DEF AllEnded, PoolTypeOK
    <2> QED BY <1>a, <1>b, <1>c, <2>1 DEF CallRun, PoolPlaces, PoolPhase, monitor, history, latchVars
  <1>4. OnePlace' /\ QueueInOrder'
    <2>1. /\ Arg(p)' \notin Submitted
          /\ Hand' = Hand \cup {Arg(p)'} /\ Submitted' = Submitted \cup {Arg(p)'}
      BY HandGain
    <2>2. /\ BusyTasks' = BusyTasks /\ Busy' = Busy /\ ran' = ran /\ dropped' = dropped
          /\ Elements(queue)' = Elements(queue) /\ queue' = queue /\ doing' = doing
      BY <1>b DEF BusyTasks, Busy, monitor, Elements
    <2>3. OnePlace'
      BY <2>1, <2>2 DEF OnePlace, Disjoint
    <2> QED BY <2>2, <2>3, OrderStays
  <1>5. LatchBehind'
    BY <1>a, <1>b, <1>c DEF CallRun, LatchBehind, monitor, history, latchVars
  <1>6. EnoughTakers'
    <2>1. queue' = queue
      BY <1>a, <1>b, <1>c DEF monitor
    <2>2. notEmpty' # {} => notEmpty # {} /\ Takers \subseteq Takers'
      BY <1>a, <1>b, <1>c DEF CallRun, Takers, InTake, PoolTypeOK, PoolPlaces, monitor, history, latchVars
    <2> QED BY <1>1, <2>1, <2>2, Enough, TakersKept DEF PoolTypeOK
  <1>7. EnoughRunners'
    <2>1. queue' = queue
      BY <1>a, <1>b, <1>c DEF monitor
    <2>2. notFull' # {} => notFull # {} /\ Runners \subseteq Runners'
      BY <1>a, <1>b, <1>c DEF CallRun, Runners, InRun, PoolPlaces, monitor, history, latchVars
    <2> QED BY <1>1, <2>1, <2>2, Enough, RunnersKept DEF PoolTypeOK
  <1>8. NotificationsSuffice'
    BY <1>6, <1>7 DEF NotificationsSuffice, EnoughTakers, EnoughRunners, Takers, Runners
  <1> QED BY <1>1, <1>2, <1>3, <1>4, <1>5, <1>8


(* Without workers run() executes the task.                                *)
LEMMA PoolRunsInline ==
    ASSUME PoolInv, NEW p \in Producer, RunInline(p)
    PROVE  PoolInv'
  <1> USE DEF PoolInv
  <1>a. /\ pc' \in [AllThreads -> Labels] /\ pc'[p] = "idle" /\ pc'[Owner] = pc[Owner]
        /\ \A w \in Worker : pc'[w] = pc[w]
        /\ \A q \in Producer \ {p} : pc'[q] = pc[q]
    BY ProducerGoes DEF RunInline, Labels, OwnerAt
  <1>b. /\ UNCHANGED <<monitor, running, threads, doing, awaited, given, dropped, throws>>
        /\ pc[p] = "run" /\ threads = {} /\ queue = <<>>
    BY DEF RunInline, PoolPlaces
  <1>c. Arg(p) \in Item /\ Arg(p) \notin ran
    BY <1>b, HandRelease DEF RunInline, Goto, OnePlace, Disjoint
  <1>d. latch' \in Int /\ awaiting' \in BOOLEAN /\ ran' = ran \cup {Arg(p)} /\ LatchBehind'
    BY <1>b, <1>c, Executed DEF RunInline
  <1>1. PoolTypeOK'
    BY <1>a, <1>b, <1>c, <1>d DEF PoolTypeOK, monitor, history, latchVars
  <1>2. PoolPlaces'
    BY <1>a, <1>b, <1>c, <1>d DEF RunInline, PoolPlaces, PoolPhase, monitor, history, latchVars
  <1>3. PoolPhase'
    <2>1. AllEnded' <=> AllEnded
      BY <1>a, <1>b DEF AllEnded, PoolTypeOK
    <2> QED BY <1>a, <1>b, <1>c, <1>d, <2>1 DEF RunInline, PoolPlaces, PoolPhase, monitor, history, latchVars
  <1>4. OnePlace' /\ QueueInOrder'
    <2>1. /\ Arg(p) \in Hand /\ Hand' = Hand \ {Arg(p)} /\ Submitted' = Submitted
      BY <1>b, HandRelease DEF RunInline, Goto, history
    <2>2. /\ BusyTasks' = BusyTasks /\ Busy' = Busy /\ doing' = doing
      BY <1>b DEF BusyTasks, Busy
    <2>3. Elements(queue)' = Elements(queue) /\ Elements(queue) = {}
      BY <1>b DEF Elements, monitor
    <2>4. OnePlace'
      BY <1>b, <1>d, <2>1, <2>2, <2>3 DEF OnePlace, Disjoint
    <2>5. QueueInOrder'
      BY <1>b, <2>3 DEF QueueInOrder, monitor
    <2> QED BY <2>4, <2>5
  <1>5. LatchBehind'
    BY <1>d
  <1>6. EnoughTakers'
    <2>1. queue' = queue
      BY <1>a, <1>b, <1>c, <1>d DEF monitor
    <2>2. notEmpty' # {} => notEmpty # {} /\ Takers \subseteq Takers'
      BY <1>a, <1>b, <1>c, <1>d DEF RunInline, Takers, InTake, PoolTypeOK, PoolPlaces, monitor, history, latchVars
    <2> QED BY <1>1, <2>1, <2>2, Enough, TakersKept DEF PoolTypeOK
  <1>7. EnoughRunners'
    BY <1>b DEF EnoughRunners, PoolPlaces, monitor
  <1>8. NotificationsSuffice'
    BY <1>6, <1>7 DEF NotificationsSuffice, EnoughTakers, EnoughRunners, Takers, Runners
  <1> QED BY <1>1, <1>2, <1>3, <1>4, <1>5, <1>8


(* run() waits before a full queue.                                        *)
LEMMA PoolRunWaits ==
    ASSUME PoolInv, NEW p \in Producer, RunWaits(p)
    PROVE  PoolInv'
  <1> USE DEF PoolInv
  <1>a. /\ pc' \in [AllThreads -> Labels] /\ pc'[p] = "again" /\ pc'[Owner] = pc[Owner]
        /\ \A w \in Worker : pc'[w] = pc[w]
        /\ \A q \in Producer \ {p} : pc'[q] = pc[q]
    BY ProducerGoes DEF RunWaits, Labels, OwnerAt
  <1>b. /\ UNCHANGED <<running, queue, notEmpty, threads, doing, latchVars, history>>
        /\ notFull' = notFull \cup {p} /\ isFull /\ running /\ threads # {} /\ pc[p] # "idle"
    BY DEF RunWaits, InRun
  <1>1. PoolTypeOK'
    BY <1>a, <1>b DEF PoolTypeOK, monitor, history, latchVars
  <1>2. PoolPlaces'
    BY <1>a, <1>b DEF isFull, PoolPlaces, history
  <1>3. PoolPhase'
    <2>1. AllEnded' <=> AllEnded
      BY <1>a, <1>b DEF AllEnded, PoolTypeOK
    <2> QED BY <1>a, <1>b, <2>1 DEF RunWaits, PoolPlaces, PoolPhase, monitor, history, latchVars
  <1>4. OnePlace' /\ QueueInOrder'
    BY <1>a, <1>b, TasksStay DEF RunWaits, monitor, history, latchVars
  <1>5. LatchBehind'
    BY <1>a, <1>b DEF RunWaits, LatchBehind, monitor, history, latchVars
  <1>6. EnoughTakers'
    <2>1. queue' = queue /\ notEmpty' = notEmpty /\ Takers' = Takers
      BY <1>a, <1>b DEF Takers, InTake, PoolTypeOK
    <2> QED BY <2>1, Enough DEF EnoughTakers
  <1>7. EnoughRunners'
    <2>1. Runners' \subseteq Producer
      BY DEF Runners
    <2>2. Cardinality(Runners') \in Nat
      BY <2>1, AwakeCounted
    <2>3. MaxQueueSize \in Nat /\ Len(queue) \in Nat /\ Len(queue) >= MaxQueueSize
      BY <1>b, PoolAssumption DEF PoolTypeOK, isFull
    <2> QED BY <1>b, <2>2, <2>3 DEF EnoughRunners
  <1>8. NotificationsSuffice'
    BY <1>6, <1>7 DEF NotificationsSuffice, EnoughTakers, EnoughRunners, Takers, Runners
  <1> QED BY <1>1, <1>2, <1>3, <1>4, <1>5, <1>8


(* After stop() run() drops the task.                                      *)
LEMMA PoolDrops ==
    ASSUME PoolInv, NEW p \in Producer, RunDrops(p)
    PROVE  PoolInv'
  <1> USE DEF PoolInv
  <1>a. /\ pc' \in [AllThreads -> Labels] /\ pc'[p] = "idle" /\ pc'[Owner] = pc[Owner]
        /\ \A w \in Worker : pc'[w] = pc[w]
        /\ \A q \in Producer \ {p} : pc'[q] = pc[q]
    BY ProducerGoes DEF RunDrops, Labels, OwnerAt
  <1>b. /\ UNCHANGED <<monitor, running, threads, doing, latchVars, given, ran, throws>>
        /\ dropped' = dropped \cup {Arg(p)} /\ pc[p] # "idle" /\ ~running
        /\ notEmpty = {} /\ notFull = {} /\ p \notin notFull
    BY DEF RunDrops, InRun, PoolPhase
  <1>c. Arg(p) \in Item
    BY <1>b, HandRelease DEF RunDrops, Goto
  <1>1. PoolTypeOK'
    BY <1>a, <1>b, <1>c DEF PoolTypeOK, monitor, history, latchVars
  <1>2. PoolPlaces'
    BY <1>a, <1>b, <1>c DEF RunDrops, PoolPlaces, PoolPhase, monitor, history, latchVars
  <1>3. PoolPhase'
    <2>1. AllEnded' <=> AllEnded
      BY <1>a, <1>b DEF AllEnded, PoolTypeOK
    <2> QED BY <1>a, <1>b, <1>c, <2>1 DEF RunDrops, PoolPlaces, PoolPhase, monitor, history, latchVars
  <1>4. OnePlace' /\ QueueInOrder'
    <2>1. /\ Arg(p) \in Hand /\ Hand' = Hand \ {Arg(p)} /\ Submitted' = Submitted
      BY <1>b, HandRelease DEF RunDrops, Goto, history
    <2>2. /\ BusyTasks' = BusyTasks /\ Busy' = Busy /\ doing' = doing
      BY <1>b DEF BusyTasks, Busy
    <2>3. Elements(queue)' = Elements(queue) /\ queue' = queue /\ ran' = ran
      BY <1>b DEF Elements, monitor
    <2>4. OnePlace'
      BY <1>b, <2>1, <2>2, <2>3 DEF OnePlace, Disjoint
    <2> QED BY <2>2, <2>3, <2>4, OrderStays
  <1>5. LatchBehind'
    <2>1. ~awaited
      BY <1>b, AwaitedIdle
    <2> QED BY <1>b, <2>1 DEF LatchBehind, latchVars
  <1>6. EnoughTakers'
    BY <1>b DEF EnoughTakers, monitor
  <1>7. EnoughRunners'
    BY <1>b DEF EnoughRunners, monitor
  <1>8. NotificationsSuffice'
    BY <1>6, <1>7 DEF NotificationsSuffice, EnoughTakers, EnoughRunners, Takers, Runners
  <1> QED BY <1>1, <1>2, <1>3, <1>4, <1>5, <1>8


(* run() queues the task and wakes a worker, if one sleeps.                *)
LEMMA PoolQueues ==
    ASSUME PoolInv, NEW p \in Producer, RunQueues(p)
    PROVE  PoolInv'
  <1> USE DEF PoolInv
  <1>a. /\ pc' \in [AllThreads -> Labels] /\ pc'[p] = "idle" /\ pc'[Owner] = pc[Owner]
        /\ \A w \in Worker : pc'[w] = pc[w]
        /\ \A q \in Producer \ {p} : pc'[q] = pc[q]
    BY ProducerGoes DEF RunQueues, Labels, OwnerAt
  <1>b. /\ UNCHANGED <<running, notFull, threads, doing, latchVars, history>>
        /\ queue' = Append(queue, Arg(p)) /\ notEmpty' \in Notify(notEmpty)
        /\ pc[p] \in {"run", "again"} /\ running /\ ~isFull /\ threads # {} /\ p \notin notFull
    BY DEF RunQueues, InRun, HasRoom
  <1>c. /\ Arg(p) \in Item /\ queue \in Seq(Item) /\ Len(queue) \in Nat
        /\ queue' \in Seq(Item) /\ Len(queue') = Len(queue) + 1
    <2>1. Arg(p) \in Item
      BY <1>b, HandRelease DEF RunQueues, Goto, history
    <2>2. queue \in Seq(Item)
      BY DEF PoolTypeOK
    <2> QED BY <1>b, <2>1, <2>2
  <1>d. notEmpty' \subseteq notEmpty
    BY <1>b DEF Notify
  <1>1. PoolTypeOK'
    BY <1>a, <1>b, <1>c, <1>d DEF PoolTypeOK, monitor, history, latchVars
  <1>2. PoolPlaces'
    BY <1>a, <1>b, <1>c, <1>d DEF RunQueues, PoolPlaces, PoolPhase, monitor, history, latchVars
  <1>3. PoolPhase'
    <2>1. AllEnded' <=> AllEnded
      BY <1>a, <1>b DEF AllEnded, PoolTypeOK
    <2> QED BY <1>a, <1>b, <1>c, <1>d, <2>1 DEF RunQueues, PoolPlaces, PoolPhase, monitor, history, latchVars
  <1>4. OnePlace' /\ QueueInOrder'
    <2>1. /\ Arg(p) \in Hand /\ Hand' = Hand \ {Arg(p)} /\ Submitted' = Submitted
      BY <1>b, HandRelease DEF RunQueues, Goto, history
    <2>2. /\ BusyTasks' = BusyTasks /\ Busy' = Busy /\ doing' = doing
      BY <1>b DEF BusyTasks, Busy
    <2>3. Elements(queue') = Elements(queue) \cup {Arg(p)}
      BY <1>b, <1>c, ElementsAppend
    <2>4. OnePlace'
      BY <1>b, <2>1, <2>2, <2>3 DEF OnePlace, Disjoint, history
    <2>5. MaxQueueSize > 0 => Len(queue') <= MaxQueueSize
      BY <1>b, <1>c, PoolAssumption DEF isFull
    <2>6. /\ Arg(p)[1] = p /\ Arg(p)[2] = given[p]
          /\ \A t \in Elements(queue) \cup BusyTasks \cup ran : t[1] = p => t[2] < given[p]
      BY <1>b, HandIsLatest DEF Arg
    <2>7. \A i, j \in DOMAIN queue' : i < j /\ queue'[i][1] = queue'[j][1]
                                         => queue'[i][2] < queue'[j][2]
      <3> SUFFICES ASSUME NEW i \in DOMAIN queue', NEW j \in DOMAIN queue',
                          i < j, queue'[i][1] = queue'[j][1]
                   PROVE  queue'[i][2] < queue'[j][2]
        OBVIOUS
      <3>1. /\ i \in DOMAIN queue /\ queue'[i] = queue[i] /\ j \in Nat /\ j <= Len(queue) + 1
            /\ j <= Len(queue) => j \in DOMAIN queue /\ queue'[j] = queue[j]
            /\ j = Len(queue) + 1 => queue'[j] = Arg(p)
        BY <1>b, <1>c
      <3>2. queue[i] \in Elements(queue)
        BY <3>1 DEF Elements
      <3>3. CASE j <= Len(queue)
        BY <3>1, <3>3 DEF QueueInOrder
      <3>4. CASE j = Len(queue) + 1
        BY <2>6, <3>1, <3>2, <3>4
      <3> QED BY <1>c, <3>1, <3>3, <3>4
    <2>8. \A x \in Elements(queue'), t \in BusyTasks \cup ran : t[1] = x[1] => t[2] < x[2]
      BY <2>3, <2>6 DEF QueueInOrder
    <2> QED BY <1>b, <2>2, <2>4, <2>5, <2>7, <2>8 DEF QueueInOrder, history
  <1>5. LatchBehind'
    BY <1>a, <1>b, <1>c, <1>d DEF RunQueues, LatchBehind, monitor, history, latchVars
  <1>6. EnoughTakers'
    <2> SUFFICES ASSUME notEmpty' # {} PROVE Len(queue') <= Cardinality(Takers')
      BY DEF EnoughTakers
    <2>1. PICK w \in notEmpty : notEmpty' = notEmpty \ {w}
      BY <1>b DEF Notify
    <2>2. w \in threads /\ pc[w] = "take" /\ w \in Worker
      BY DEF PoolTypeOK, PoolPlaces
    <2>3. Takers' = Takers \cup {w} /\ w \notin Takers /\ Takers \subseteq Worker
      BY <1>a, <1>b, <2>1, <2>2 DEF Takers, InTake, PoolTypeOK
    <2>4. Cardinality(Takers') = Cardinality(Takers) + 1 /\ Cardinality(Takers) \in Nat
      BY <2>3, AwakeCounted, OneMore
    <2>5. Len(queue) <= Cardinality(Takers)
      BY <2>1, Enough DEF EnoughTakers
    <2> QED BY <1>c, <2>4, <2>5
  <1>7. EnoughRunners'
    <2> SUFFICES ASSUME notFull' # {} PROVE MaxQueueSize - Len(queue') <= Cardinality(Runners')
      BY DEF EnoughRunners
    <2>1. Runners = Runners' \cup {p} /\ p \notin Runners' /\ Runners' \subseteq Producer
      BY <1>a, <1>b DEF Runners, InRun
    <2>2. Cardinality(Runners) = Cardinality(Runners') + 1 /\ Cardinality(Runners') \in Nat
      BY <2>1, AwakeCounted, OneMore
    <2>3. MaxQueueSize - Len(queue) <= Cardinality(Runners) /\ MaxQueueSize \in Nat
      BY <1>b, Enough, PoolAssumption DEF EnoughRunners
    <2> QED BY <1>c, <2>2, <2>3
  <1>8. NotificationsSuffice'
    BY <1>6, <1>7 DEF NotificationsSuffice, EnoughTakers, EnoughRunners, Takers, Runners
  <1> QED BY <1>1, <1>2, <1>3, <1>4, <1>5, <1>8


----------------------------------------------------------------------------
(* The steps of a worker.                                                  *)

(* A worker goes to take(), or ends.                                       *)
LEMMA PoolTestsRunning ==
    ASSUME PoolInv, NEW w \in Worker, TestRunning(w)
    PROVE  PoolInv'
  <1> USE DEF PoolInv
  <1>0. PICK l \in {"take", "ended"} : Goto(w, l)
    BY DEF TestRunning
  <1>a. /\ pc' \in [AllThreads -> Labels] /\ pc'[w] = l /\ pc'[Owner] = pc[Owner]
        /\ \A v \in Worker \ {w} : pc'[v] = pc[v]
        /\ \A p \in Producer : pc'[p] = pc[p]
    BY <1>0, WorkerGoes DEF Labels
  <1>b. /\ UNCHANGED <<monitor, running, threads, doing, latchVars, history>>
        /\ pc[w] = "loop"
    BY DEF TestRunning
  <1>1. PoolTypeOK'
    BY <1>a, <1>b DEF PoolTypeOK, monitor, history, latchVars
  <1>2. PoolPlaces'
    BY <1>a, <1>b DEF TestRunning, PoolPlaces, PoolPhase, monitor, history, latchVars
  <1>3. PoolPhase'
    BY <1>a, <1>b DEF TestRunning, PoolPlaces, PoolPhase, AllEnded, monitor, history, latchVars
  <1>4. OnePlace' /\ QueueInOrder'
    BY <1>a, <1>b, TasksStay DEF TestRunning, monitor, history, latchVars
  <1>5. LatchBehind'
    BY <1>a, <1>b DEF TestRunning, LatchBehind, monitor, history, latchVars
  <1>6. EnoughTakers'
    <2>1. queue' = queue
      BY <1>a, <1>b DEF monitor
    <2>2. notEmpty' # {} => notEmpty # {} /\ Takers \subseteq Takers'
      BY <1>a, <1>b DEF TestRunning, Takers, InTake, PoolTypeOK, PoolPlaces, monitor, history, latchVars
    <2> QED BY <1>1, <2>1, <2>2, Enough, TakersKept DEF PoolTypeOK
  <1>7. EnoughRunners'
    <2>1. queue' = queue
      BY <1>a, <1>b DEF monitor
    <2>2. notFull' # {} => notFull # {} /\ Runners \subseteq Runners'
      BY <1>a, <1>b DEF TestRunning, Runners, InRun, PoolPlaces, monitor, history, latchVars
    <2> QED BY <1>1, <2>1, <2>2, Enough, RunnersKept DEF PoolTypeOK
  <1>8. NotificationsSuffice'
    BY <1>6, <1>7 DEF NotificationsSuffice, EnoughTakers, EnoughRunners, Takers, Runners
  <1> QED BY <1>1, <1>2, <1>3, <1>4, <1>5, <1>8


(* take() waits before an empty queue.                                     *)
LEMMA PoolTakeWaits ==
    ASSUME PoolInv, NEW w \in Worker, TakeWaits(w)
    PROVE  PoolInv'
  <1> USE DEF PoolInv
  <1>b. /\ UNCHANGED <<running, queue, notFull, threads, pc, doing, latchVars, history>>
        /\ notEmpty' = notEmpty \cup {w} /\ pc[w] = "take" /\ queue = <<>> /\ running
    BY DEF TakeWaits, InTake
  <1>1. PoolTypeOK'
    BY <1>b DEF PoolTypeOK, PoolPlaces, history, latchVars
  <1>2. PoolPlaces'
    BY <1>b DEF TakeWaits, PoolPlaces, PoolPhase, monitor, history, latchVars
  <1>3. PoolPhase'
    BY <1>b DEF TakeWaits, PoolPlaces, PoolPhase, AllEnded, monitor, history, latchVars
  <1>4. OnePlace' /\ QueueInOrder'
    BY <1>b, TasksStay DEF TakeWaits, monitor, history, latchVars
  <1>5. LatchBehind'
    BY <1>b DEF TakeWaits, LatchBehind, monitor, history, latchVars
  <1>6. EnoughTakers'
    <2>1. Takers' \subseteq Worker
      BY <1>1 DEF PoolTypeOK, Takers
    <2>2. Cardinality(Takers') \in Nat
      BY <2>1, AwakeCounted
    <2>3. Len(queue') = 0
      BY <1>b
    <2> QED BY <2>2, <2>3 DEF EnoughTakers
  <1>7. EnoughRunners'
    <2>1. queue' = queue /\ notFull' = notFull /\ Runners' = Runners
      BY <1>b DEF Runners, InRun
    <2> QED BY <2>1, Enough DEF EnoughRunners
  <1>8. NotificationsSuffice'
    BY <1>6, <1>7 DEF NotificationsSuffice, EnoughTakers, EnoughRunners, Takers, Runners
  <1> QED BY <1>1, <1>2, <1>3, <1>4, <1>5, <1>8


(* After stop() take() returns without a task.                             *)
LEMMA PoolTakesNothing ==
    ASSUME PoolInv, NEW w \in Worker, TakeNothing(w)
    PROVE  PoolInv'
  <1> USE DEF PoolInv
  <1>a. /\ pc' \in [AllThreads -> Labels] /\ pc'[w] = "loop" /\ pc'[Owner] = pc[Owner]
        /\ \A v \in Worker \ {w} : pc'[v] = pc[v]
        /\ \A p \in Producer : pc'[p] = pc[p]
    BY WorkerGoes DEF TakeNothing, Labels
  <1>b. /\ UNCHANGED <<monitor, running, threads, doing, latchVars, history>>
        /\ pc[w] = "take" /\ w \notin notEmpty /\ ~running
        /\ notEmpty = {} /\ notFull = {}
    BY DEF TakeNothing, InTake, PoolPhase
  <1>1. PoolTypeOK'
    BY <1>a, <1>b DEF PoolTypeOK, monitor, history, latchVars
  <1>2. PoolPlaces'
    BY <1>a, <1>b DEF TakeNothing, PoolPlaces, PoolPhase, monitor, history, latchVars
  <1>3. PoolPhase'
    BY <1>a, <1>b DEF TakeNothing, PoolPlaces, PoolPhase, AllEnded, monitor, history, latchVars
  <1>4. OnePlace' /\ QueueInOrder'
    BY <1>a, <1>b, TasksStay DEF TakeNothing, monitor, history, latchVars
  <1>5. LatchBehind'
    BY <1>a, <1>b DEF TakeNothing, LatchBehind, monitor, history, latchVars
  <1>6. EnoughTakers'
    <2>1. queue' = queue
      BY <1>a, <1>b DEF monitor
    <2>2. notEmpty' # {} => notEmpty # {} /\ Takers \subseteq Takers'
      BY <1>a, <1>b DEF TakeNothing, Takers, InTake, PoolTypeOK, PoolPlaces, monitor, history, latchVars
    <2> QED BY <1>1, <2>1, <2>2, Enough, TakersKept DEF PoolTypeOK
  <1>7. EnoughRunners'
    <2>1. queue' = queue
      BY <1>a, <1>b DEF monitor
    <2>2. notFull' # {} => notFull # {} /\ Runners \subseteq Runners'
      BY <1>a, <1>b DEF TakeNothing, Runners, InRun, PoolPlaces, monitor, history, latchVars
    <2> QED BY <1>1, <2>1, <2>2, Enough, RunnersKept DEF PoolTypeOK
  <1>8. NotificationsSuffice'
    BY <1>6, <1>7 DEF NotificationsSuffice, EnoughTakers, EnoughRunners, Takers, Runners
  <1> QED BY <1>1, <1>2, <1>3, <1>4, <1>5, <1>8


(* A worker takes a task and wakes a producer, if one sleeps.              *)
LEMMA PoolTakes ==
    ASSUME PoolInv, NEW w \in Worker, TakeTask(w)
    PROVE  PoolInv'
  <1> USE DEF PoolInv
  <1>a. /\ pc' \in [AllThreads -> Labels] /\ pc'[w] = "busy" /\ pc'[Owner] = pc[Owner]
        /\ \A v \in Worker \ {w} : pc'[v] = pc[v]
        /\ \A p \in Producer : pc'[p] = pc[p]
    BY WorkerGoes DEF TakeTask, Labels
  <1>b. /\ UNCHANGED <<running, notEmpty, threads, latchVars, history>>
        /\ doing' = [doing EXCEPT ![w] = Head(queue)] /\ queue' = Tail(queue)
        /\ notFull' \in AnnounceRoom
        /\ pc[w] = "take" /\ w \notin notEmpty /\ queue # <<>>
    BY DEF TakeTask, InTake
  <1>c. /\ queue \in Seq(Item) /\ Len(queue) \in Nat /\ Len(queue) >= 1
        /\ queue' \in Seq(Item) /\ Len(queue') = Len(queue) - 1
        /\ Head(queue) \in Item /\ Head(queue) # NoTask
        /\ Elements(queue) = Elements(queue') \cup {Head(queue)}
        /\ DOMAIN queue' = 1 .. Len(queue) - 1 /\ DOMAIN queue = 1 .. Len(queue)
        /\ Head(queue) = queue[1] /\ \A i \in 1 .. Len(queue) - 1 : queue'[i] = queue[i + 1]
    <2>1. queue \in Seq(Item)
      BY DEF PoolTypeOK
    <2>2. Head(queue) \in Item /\ Elements(queue) = Elements(queue') \cup {Head(queue)}
      BY <1>b, <2>1, ElementsTail
    <2> QED BY <1>b, <2>1, <2>2, ItemsArePairs
  <1>d. notFull' \subseteq notFull
    BY <1>b DEF AnnounceRoom, Notify
  <1>e. w \in threads /\ doing[w] = NoTask
    BY <1>b DEF PoolPlaces
  <1>f. doing' \in [Worker -> Item \cup {NoTask}] /\ doing'[w] # NoTask
        /\ \A v \in Worker \ {w} : doing'[v] = doing[v]
    BY <1>b, <1>c DEF PoolTypeOK
  <1>1. PoolTypeOK'
    BY <1>a, <1>b, <1>c, <1>d, <1>f DEF PoolTypeOK, history, latchVars
  <1>2. PoolPlaces'
    BY <1>a, <1>b, <1>d, <1>e, <1>f DEF PoolPlaces, history
  <1>3. PoolPhase'
    BY <1>a, <1>b, <1>d, <1>e DEF PoolPhase, AllEnded, history
  <1>4. OnePlace' /\ QueueInOrder'
    <2> DEFINE h == Head(queue)
    <2>1. /\ \A i, j \in DOMAIN queue' : i < j /\ queue'[i][1] = queue'[j][1]
                                         => queue'[i][2] < queue'[j][2]
      <3> SUFFICES ASSUME NEW i \in DOMAIN queue', NEW j \in DOMAIN queue',
                          i < j, queue'[i][1] = queue'[j][1]
                   PROVE  queue'[i][2] < queue'[j][2]
        OBVIOUS
      <3>1. /\ i + 1 \in DOMAIN queue /\ j + 1 \in DOMAIN queue /\ i + 1 < j + 1
            /\ queue'[i] = queue[i + 1] /\ queue'[j] = queue[j + 1]
        BY <1>c
      <3> QED BY <3>1 DEF QueueInOrder
    <2>2. ASSUME NEW x \in Elements(queue'), h[1] = x[1] PROVE h[2] < x[2]
      <3>1. PICK i \in DOMAIN queue' : x = queue'[i]
        BY DEF Elements
      <3>2. /\ 1 \in DOMAIN queue /\ i + 1 \in DOMAIN queue /\ 1 < i + 1
            /\ h = queue[1] /\ x = queue[i + 1]
        BY <1>c, <3>1
      <3> QED BY <2>2, <3>2 DEF QueueInOrder
    <2>3. h \notin Elements(queue')
      <3>1. h[2] \in Nat
        BY <1>c, ItemsArePairs, ProducerAssumption
      <3> QED BY <2>2, <3>1
    <2>4. h \notin BusyTasks /\ h \in Elements(queue)
      BY <1>c DEF OnePlace, Disjoint
    <2>5. /\ BusyTasks' = BusyTasks \cup {h}
          /\ \A u, v \in Busy' : doing'[u] = doing'[v] => u = v
      BY <1>b, <1>c, <1>e, <2>4, BusyGain DEF OnePlace
    <2>6. Hand' = Hand /\ Submitted' = Submitted /\ ran' = ran /\ dropped' = dropped
      BY <1>a, <1>b DEF Hand, InHand, Arg, Submitted, history
    <2> HIDE DEF h
    <2>7. Elements(queue') = Elements(queue) \ {h}
      BY <1>c, <2>3 DEF h
    <2>8. OnePlace'
      BY <2>4, <2>5, <2>6, <2>7 DEF OnePlace, Disjoint
    <2>9. \A x \in Elements(queue'), t \in BusyTasks' \cup ran' : t[1] = x[1] => t[2] < x[2]
      BY <2>2, <2>5, <2>6, <2>7 DEF QueueInOrder
    <2>10. MaxQueueSize > 0 => Len(queue') <= MaxQueueSize
      BY <1>c, PoolAssumption DEF QueueInOrder
    <2> QED BY <2>1, <2>8, <2>9, <2>10 DEF QueueInOrder
  <1>5. LatchBehind'
    BY <1>a, <1>b, <1>c, <1>d, <1>e, <1>f DEF TakeTask, LatchBehind, monitor, history, latchVars
  <1>6. EnoughTakers'
    <2> SUFFICES ASSUME notEmpty' # {} PROVE Len(queue') <= Cardinality(Takers')
      BY DEF EnoughTakers
    <2>1. Takers = Takers' \cup {w} /\ w \notin Takers' /\ Takers' \subseteq Worker
      BY <1>a, <1>b, <1>e DEF Takers, InTake, PoolTypeOK
    <2>2. Cardinality(Takers) = Cardinality(Takers') + 1 /\ Cardinality(Takers') \in Nat
      BY <2>1, AwakeCounted, OneMore
    <2>3. Len(queue) <= Cardinality(Takers)
      BY <1>b, Enough DEF EnoughTakers
    <2> QED BY <1>c, <2>2, <2>3
  <1>7. EnoughRunners'
    <2> SUFFICES ASSUME notFull' # {} PROVE MaxQueueSize - Len(queue') <= Cardinality(Runners')
      BY DEF EnoughRunners
    <2>1. MaxQueueSize > 0 /\ threads # {}
      BY <1>d DEF PoolPlaces
    <2>2. PICK p \in notFull : notFull' = notFull \ {p}
      BY <1>b, <2>1 DEF AnnounceRoom, Notify
    <2>3. p \in Producer /\ pc[p] = "again"
      BY DEF PoolTypeOK, PoolPlaces
    <2>4. Runners' = Runners \cup {p} /\ p \notin Runners /\ Runners \subseteq Producer
      BY <1>a, <1>b, <2>1, <2>2, <2>3 DEF Runners, InRun
    <2>5. Cardinality(Runners') = Cardinality(Runners) + 1 /\ Cardinality(Runners) \in Nat
      BY <2>4, AwakeCounted, OneMore
    <2>6. MaxQueueSize - Len(queue) <= Cardinality(Runners) /\ MaxQueueSize \in Nat
      BY <2>2, Enough, PoolAssumption DEF EnoughRunners
    <2> QED BY <1>c, <2>5, <2>6
  <1>8. NotificationsSuffice'
    BY <1>6, <1>7 DEF NotificationsSuffice, EnoughTakers, EnoughRunners, Takers, Runners
  <1> QED BY <1>1, <1>2, <1>3, <1>4, <1>5, <1>8


(* A worker has run its task.                                              *)
LEMMA PoolRuns ==
    ASSUME PoolInv, NEW w \in Worker, RunTask(w)
    PROVE  PoolInv'
  <1> USE DEF PoolInv
  <1>a. /\ pc' \in [AllThreads -> Labels] /\ pc'[w] = "loop" /\ pc'[Owner] = pc[Owner]
        /\ \A v \in Worker \ {w} : pc'[v] = pc[v]
        /\ \A p \in Producer : pc'[p] = pc[p]
    BY WorkerGoes DEF RunTask, Labels
  <1>b. /\ UNCHANGED <<monitor, running, threads, awaited, given, dropped, throws>>
        /\ doing' = [doing EXCEPT ![w] = NoTask] /\ pc[w] = "busy"
    BY DEF RunTask
  <1>c. doing[w] # NoTask /\ doing[w] \in Item /\ doing[w] \notin ran
    <2>1. doing[w] # NoTask
      BY <1>b DEF PoolPlaces
    <2> QED BY <1>b, <2>1, BusyRelease DEF OnePlace, Disjoint
  <1>d. /\ latch' \in Int /\ awaiting' \in BOOLEAN
        /\ ran' = ran \cup {doing[w]} /\ LatchBehind'
    BY <1>b, <1>c, Executed DEF RunTask
  <1>e. /\ doing' \in [Worker -> Item \cup {NoTask}] /\ doing'[w] = NoTask
        /\ \A v \in Worker \ {w} : doing'[v] = doing[v]
    BY <1>b DEF PoolTypeOK
  <1>1. PoolTypeOK'
    BY <1>a, <1>b, <1>c, <1>d, <1>e DEF PoolTypeOK, monitor, history, latchVars
  <1>2. PoolPlaces'
    BY <1>a, <1>b, <1>c, <1>d, <1>e DEF RunTask, PoolPlaces, PoolPhase, monitor, history, latchVars
  <1>3. PoolPhase'
    BY <1>a, <1>b, <1>c, <1>d, <1>e DEF RunTask, PoolPlaces, PoolPhase, AllEnded, monitor, history, latchVars
  <1>4. OnePlace' /\ QueueInOrder'
    <2>1. /\ doing[w] \in BusyTasks /\ BusyTasks' = BusyTasks \ {doing[w]}
          /\ \A u, v \in Busy' : doing'[u] = doing'[v] => u = v
      BY <1>b, <1>c, BusyRelease DEF OnePlace
    <2>2. Hand' = Hand /\ Submitted' = Submitted
      BY <1>a, <1>b DEF Hand, InHand, Arg, Submitted
    <2>3. Elements(queue)' = Elements(queue) /\ queue' = queue
      BY <1>b DEF Elements, monitor
    <2>4. OnePlace'
      BY <1>b, <1>d, <2>1, <2>2, <2>3 DEF OnePlace, Disjoint
    <2> QED BY <1>d, <2>1, <2>3, <2>4, OrderStays
  <1>5. LatchBehind'
    BY <1>d
  <1>6. EnoughTakers'
    <2>1. queue' = queue
      BY <1>a, <1>b, <1>c, <1>d, <1>e DEF monitor
    <2>2. notEmpty' # {} => notEmpty # {} /\ Takers \subseteq Takers'
      BY <1>a, <1>b, <1>c, <1>d, <1>e DEF RunTask, Takers, InTake, PoolTypeOK, PoolPlaces, monitor, history, latchVars
    <2> QED BY <1>1, <2>1, <2>2, Enough, TakersKept DEF PoolTypeOK
  <1>7. EnoughRunners'
    <2>1. queue' = queue
      BY <1>a, <1>b, <1>c, <1>d, <1>e DEF monitor
    <2>2. notFull' # {} => notFull # {} /\ Runners \subseteq Runners'
      BY <1>a, <1>b, <1>c, <1>d, <1>e DEF RunTask, Runners, InRun, PoolPlaces, monitor, history, latchVars
    <2> QED BY <1>1, <2>1, <2>2, Enough, RunnersKept DEF PoolTypeOK
  <1>8. NotificationsSuffice'
    BY <1>6, <1>7 DEF NotificationsSuffice, EnoughTakers, EnoughRunners, Takers, Runners
  <1> QED BY <1>1, <1>2, <1>3, <1>4, <1>5, <1>8


(* A task that throws ends its worker, and counts nothing down.            *)
LEMMA PoolThrows ==
    ASSUME PoolInv, NEW w \in Worker, TaskThrows(w)
    PROVE  PoolInv'
  <1> USE DEF PoolInv
  <1>a. /\ pc' \in [AllThreads -> Labels] /\ pc'[w] = "ended" /\ pc'[Owner] = pc[Owner]
        /\ \A v \in Worker \ {w} : pc'[v] = pc[v]
        /\ \A p \in Producer : pc'[p] = pc[p]
    BY WorkerGoes DEF TaskThrows, Labels
  <1>b. /\ UNCHANGED <<monitor, running, threads, latchVars, given, dropped>>
        /\ doing' = [doing EXCEPT ![w] = NoTask] /\ pc[w] = "busy"
        /\ throws' \in 0 .. MaxThrows
    BY PoolAssumption DEF TaskThrows, PoolTypeOK
  <1>c. doing[w] # NoTask /\ doing[w] \in Item /\ doing[w] \notin ran
    <2>1. doing[w] # NoTask
      BY <1>b DEF PoolPlaces
    <2> QED BY <1>b, <2>1, BusyRelease DEF OnePlace, Disjoint
  <1>d. ran' = ran \cup {doing[w]}
    BY DEF TaskThrows
  <1>e. /\ doing' \in [Worker -> Item \cup {NoTask}] /\ doing'[w] = NoTask
        /\ \A v \in Worker \ {w} : doing'[v] = doing[v]
    BY <1>b DEF PoolTypeOK
  <1>1. PoolTypeOK'
    BY <1>a, <1>b, <1>c, <1>d, <1>e DEF PoolTypeOK, monitor, history, latchVars
  <1>2. PoolPlaces'
    BY <1>a, <1>b, <1>c, <1>d, <1>e DEF TaskThrows, PoolPlaces, PoolPhase, monitor, history, latchVars
  <1>3. PoolPhase'
    BY <1>a, <1>b, <1>c, <1>d, <1>e DEF TaskThrows, PoolPlaces, PoolPhase, AllEnded, monitor, history, latchVars
  <1>4. OnePlace' /\ QueueInOrder'
    <2>1. /\ doing[w] \in BusyTasks /\ BusyTasks' = BusyTasks \ {doing[w]}
          /\ \A u, v \in Busy' : doing'[u] = doing'[v] => u = v
      BY <1>b, <1>c, BusyRelease DEF OnePlace
    <2>2. Hand' = Hand /\ Submitted' = Submitted
      BY <1>a, <1>b DEF Hand, InHand, Arg, Submitted
    <2>3. Elements(queue)' = Elements(queue) /\ queue' = queue
      BY <1>b DEF Elements, monitor
    <2>4. OnePlace'
      BY <1>b, <1>d, <2>1, <2>2, <2>3 DEF OnePlace, Disjoint
    <2> QED BY <1>d, <2>1, <2>3, <2>4, OrderStays
  <1>5. LatchBehind'
    <2> DEFINE Missing == {p \in Producer : Last(p) \notin ran}
    <2>1. Missing' \subseteq Missing /\ IsFiniteSet(Missing)
      BY <1>d, ProducerAssumption, FS_Subset
    <2>2. /\ Cardinality(Missing') <= Cardinality(Missing)
          /\ Cardinality(Missing) \in Nat /\ Cardinality(Missing') \in Nat
      BY <2>1, NoMore
    <2>3. latch \in Int /\ latch' = latch /\ Cardinality(Missing) <= latch
      BY <1>b DEF LatchBehind, PoolTypeOK, latchVars
    <2>4. Cardinality(Missing') <= latch'
      BY <2>2, <2>3
    <2> QED BY <1>b, <1>d, <2>4 DEF LatchBehind, latchVars
  <1>6. EnoughTakers'
    <2>1. queue' = queue
      BY <1>a, <1>b, <1>c, <1>d, <1>e DEF monitor
    <2>2. notEmpty' # {} => notEmpty # {} /\ Takers \subseteq Takers'
      BY <1>a, <1>b, <1>c, <1>d, <1>e DEF TaskThrows, Takers, InTake, PoolTypeOK, PoolPlaces, monitor, history, latchVars
    <2> QED BY <1>1, <2>1, <2>2, Enough, TakersKept DEF PoolTypeOK
  <1>7. EnoughRunners'
    <2>1. queue' = queue
      BY <1>a, <1>b, <1>c, <1>d, <1>e DEF monitor
    <2>2. notFull' # {} => notFull # {} /\ Runners \subseteq Runners'
      BY <1>a, <1>b, <1>c, <1>d, <1>e DEF TaskThrows, Runners, InRun, PoolPlaces, monitor, history, latchVars
    <2> QED BY <1>1, <2>1, <2>2, Enough, RunnersKept DEF PoolTypeOK
  <1>8. NotificationsSuffice'
    BY <1>6, <1>7 DEF NotificationsSuffice, EnoughTakers, EnoughRunners, Takers, Runners
  <1> QED BY <1>1, <1>2, <1>3, <1>4, <1>5, <1>8


(* A thread wakes for no reason.                                           *)
LEMMA PoolWakes ==
    ASSUME PoolInv, NEW t \in Worker \cup Producer, SpuriousWakeup(t)
    PROVE  PoolInv'
  <1> USE DEF PoolInv
  <1>b. /\ UNCHANGED <<running, queue, threads, pc, doing, latchVars, history>>
        /\ notEmpty' = notEmpty \ {t} /\ notFull' = notFull \ {t}
    BY DEF SpuriousWakeup, Wakes
  <1>1. PoolTypeOK'
    BY <1>b DEF PoolTypeOK, monitor, history, latchVars
  <1>2. PoolPlaces'
    BY <1>b DEF SpuriousWakeup, PoolPlaces, PoolPhase, monitor, history, latchVars
  <1>3. PoolPhase'
    BY <1>b DEF SpuriousWakeup, PoolPlaces, PoolPhase, AllEnded, monitor, history, latchVars
  <1>4. OnePlace' /\ QueueInOrder'
    BY <1>b, TasksStay DEF SpuriousWakeup, monitor, history, latchVars
  <1>5. LatchBehind'
    BY <1>b DEF SpuriousWakeup, LatchBehind, monitor, history, latchVars
  <1>6. EnoughTakers'
    <2>1. queue' = queue
      BY <1>b DEF monitor
    <2>2. notEmpty' # {} => notEmpty # {} /\ Takers \subseteq Takers'
      BY <1>b DEF SpuriousWakeup, Takers, InTake, PoolTypeOK, PoolPlaces, monitor, history, latchVars
    <2> QED BY <1>1, <2>1, <2>2, Enough, TakersKept DEF PoolTypeOK
  <1>7. EnoughRunners'
    <2>1. queue' = queue
      BY <1>b DEF monitor
    <2>2. notFull' # {} => notFull # {} /\ Runners \subseteq Runners'
      BY <1>b DEF SpuriousWakeup, Runners, InRun, PoolPlaces, monitor, history, latchVars
    <2> QED BY <1>1, <2>1, <2>2, Enough, RunnersKept DEF PoolTypeOK
  <1>8. NotificationsSuffice'
    BY <1>6, <1>7 DEF NotificationsSuffice, EnoughTakers, EnoughRunners, Takers, Runners
  <1> QED BY <1>1, <1>2, <1>3, <1>4, <1>5, <1>8

----------------------------------------------------------------------------
(* The pool's first state.                                                 *)
LEMMA PoolBegins == PoolInit => PoolInv
  <1> SUFFICES ASSUME PoolInit PROVE PoolInv
    OBVIOUS
  <1>1. Cardinality(Producer) \in Nat
    BY ProducerAssumption, FS_CardinalityType
  <1>2. /\ running = FALSE /\ threads = {} /\ queue = <<>> /\ notEmpty = {} /\ notFull = {}
        /\ doing = [w \in Worker |-> NoTask] /\ latch = Cardinality(Producer)
        /\ awaiting = FALSE /\ awaited = FALSE /\ given = [p \in Producer |-> 0]
        /\ dropped = {} /\ ran = {} /\ throws = 0
    BY DEF PoolInit, MonitorInit
  <1>3. /\ pc \in [AllThreads -> Labels] /\ pc[Owner] = "idle"
        /\ \A w \in Worker : pc[w] = "new"
        /\ \A p \in Producer : pc[p] = "idle"
    BY PoolAssumption DEF PoolInit, AllThreads, Labels, OwnerAt
  <1>4. PoolTypeOK
    <2>1. PerProducer \in Nat /\ MaxThrows \in Nat
      BY ProducerAssumption, PoolAssumption
    <2>2. /\ given \in [Producer -> 0 .. PerProducer] /\ throws \in 0 .. MaxThrows
          /\ latch \in Int
      BY <1>1, <1>2, <2>1
    <2>3. {awaiting, awaited} \subseteq BOOLEAN /\ running \in BOOLEAN
      BY <1>2
    <2>4. doing \in [Worker -> Item \cup {NoTask}] /\ queue \in Seq(Item)
      BY <1>2
    <2> QED BY <1>2, <1>3, <2>2, <2>3, <2>4 DEF PoolTypeOK
  <1>5. PoolPlaces /\ PoolPhase
    BY <1>2, <1>3 DEF PoolPlaces, PoolPhase
  <1>6. OnePlace
    <2>1. Hand = {} /\ Elements(queue) = {} /\ BusyTasks = {} /\ Busy = {}
      BY <1>2, <1>3 DEF Hand, InHand, Elements, BusyTasks, Busy
    <2>2. Submitted = {}
      BY <1>2, ItemsArePairs, ProducerAssumption DEF Submitted
    <2> QED BY <1>2, <2>1, <2>2 DEF OnePlace, Disjoint
  <1>7. QueueInOrder
    BY <1>2, PoolAssumption DEF QueueInOrder, Elements
  <1>8. LatchBehind
    <2> DEFINE Missing == {p \in Producer : Last(p) \notin ran}
    <2>1. Missing = Producer
      BY <1>2
    <2> HIDE DEF Missing
    <2>2. Cardinality(Missing) <= latch
      BY <1>1, <1>2, <2>1
    <2> QED BY <1>2, <2>2 DEF LatchBehind, Missing
  <1>9. NotificationsSuffice
    BY <1>2 DEF NotificationsSuffice
  <1> QED BY <1>4, <1>5, <1>6, <1>7, <1>8, <1>9 DEF PoolInv

(* Every step of the pool keeps the invariant.                             *)
LEMMA PoolGoesOn == PoolInv /\ PoolNext => PoolInv'
  BY PoolStarts, PoolAwaits, PoolStops, PoolJoins, PoolCalls, PoolRunsInline, PoolRunWaits,
     PoolDrops, PoolQueues, PoolTestsRunning, PoolTakeWaits, PoolTakesNothing, PoolTakes,
     PoolRuns, PoolThrows, PoolWakes
  DEF PoolNext, OwnerStep, RunStep, WorkerStep

(* The owner that waited for the latch before it joined finds every task   *)
(* done: those queued before the last ones were taken before them, and     *)
(* their workers have ended.                                               *)
LEMMA AllDone ==
    ASSUME PoolInv, awaited, pc[Owner] = "joined"
    PROVE  ran = Item
  <1> USE DEF PoolInv
  <1>1. Busy = {} /\ BusyTasks = {}
    <2>1. \A w \in Worker : pc[w] # "busy"
      BY DEF PoolPhase, AllEnded, PoolPlaces
    <2> QED BY <2>1 DEF PoolPlaces, Busy, BusyTasks
  <1>2. Hand = {} /\ dropped = {}
    BY AwaitedIdle DEF Hand, InHand, LatchBehind
  <1>3. ASSUME NEW t \in Item PROVE t \in ran
    <2>1. t[1] \in Producer /\ t[2] \in 1 .. PerProducer /\ PerProducer \in Nat
      BY ItemsArePairs, ProducerAssumption
    <2> DEFINE l == Last(t[1])
    <2>2. l \in ran /\ l \in Item /\ l[1] = t[1] /\ l[2] = PerProducer
      BY <2>1, ProducerAssumption DEF LatchBehind, Last, Item
    <2> HIDE DEF l
    <2>3. given[t[1]] \in Nat /\ PerProducer <= given[t[1]]
      <3>1. l \in Submitted
        BY <2>2 DEF OnePlace
      <3> QED BY <2>1, <2>2, <3>1 DEF Submitted, PoolTypeOK
    <2>4. t \in Submitted
      BY <2>1, <2>3 DEF Submitted
    <2>5. t \notin Elements(queue)
      <3> SUFFICES ASSUME t \in Elements(queue) PROVE FALSE
        OBVIOUS
      <3>1. PerProducer < t[2]
        BY <2>2 DEF QueueInOrder
      <3> QED BY <2>1, <3>1
    <2> QED BY <1>1, <1>2, <2>4, <2>5 DEF OnePlace
  <1> QED BY <1>3 DEF PoolTypeOK

(* What is claimed of the pool.                                            *)
LEMMA PoolKept == PoolInv => TasksAccounted /\ AwaitedTasksDone /\ NotificationsSuffice
  BY Accounted, AllDone DEF PoolInv, AwaitedTasksDone

----------------------------------------------------------------------------
(* The blocking queues.                                                    *)
AwakeConsumers == {c \in Consumer : Awake(c)}
AwakeProducers == {p \in Producer : Awake(p)}

EnoughConsumers == notEmpty # {} => Len(queue) <= Cardinality(AwakeConsumers)
EnoughProducers == notFull # {} => MaxSize - Len(queue) <= Cardinality(AwakeProducers)

(* The property in these words.                                            *)
LEMMA EnoughInQueue ==
    QueueNotificationsSuffice <=> QueueTypeOK /\ EnoughConsumers /\ EnoughProducers
  BY DEF QueueNotificationsSuffice, EnoughConsumers, EnoughProducers,
     AwakeConsumers, AwakeProducers

(* Some of the consumers or of the producers are finitely many.            *)
LEMMA CallersCounted ==
    ASSUME NEW S, S \subseteq Consumer \/ S \subseteq Producer
    PROVE  IsFiniteSet(S) /\ Cardinality(S) \in Nat
  <1>1. IsFiniteSet(S)
    BY FS_Subset, QueueAssumption, ProducerAssumption
  <1> QED BY <1>1, FS_CardinalityType

(* No more notifications are needed while the queue does not grow and no   *)
(* consumer goes to sleep...                                               *)
LEMMA ConsumersKept ==
    ASSUME queue \in Seq(Item), queue' \in Seq(Item), EnoughConsumers,
           notEmpty' # {} => /\ notEmpty # {} /\ Len(queue') <= Len(queue)
                             /\ AwakeConsumers \subseteq AwakeConsumers'
    PROVE  EnoughConsumers'
  <1> SUFFICES ASSUME notEmpty' # {} PROVE Len(queue') <= Cardinality(AwakeConsumers')
    BY DEF EnoughConsumers
  <1>1. AwakeConsumers \subseteq Consumer /\ AwakeConsumers' \subseteq Consumer
    BY DEF AwakeConsumers
  <1>2. Cardinality(AwakeConsumers) <= Cardinality(AwakeConsumers')
    BY <1>1, CallersCounted, NoMore
  <1>3. /\ Cardinality(AwakeConsumers) \in Nat /\ Cardinality(AwakeConsumers') \in Nat
        /\ Len(queue) \in Nat /\ Len(queue') \in Nat
    BY <1>1, CallersCounted
  <1> QED BY <1>2, <1>3 DEF EnoughConsumers

(* ... and for the producers, while it does not shrink.                    *)
LEMMA ProducersKept ==
    ASSUME queue \in Seq(Item), queue' \in Seq(Item), EnoughProducers,
           notFull' # {} => /\ notFull # {} /\ Len(queue) <= Len(queue')
                            /\ AwakeProducers \subseteq AwakeProducers'
    PROVE  EnoughProducers'
  <1> SUFFICES ASSUME notFull' # {}
               PROVE  MaxSize - Len(queue') <= Cardinality(AwakeProducers')
    BY DEF EnoughProducers
  <1>1. AwakeProducers \subseteq Producer /\ AwakeProducers' \subseteq Producer
    BY DEF AwakeProducers
  <1>2. Cardinality(AwakeProducers) <= Cardinality(AwakeProducers')
    BY <1>1, CallersCounted, NoMore
  <1>3. /\ Cardinality(AwakeProducers) \in Nat /\ Cardinality(AwakeProducers') \in Nat
        /\ Len(queue) \in Nat /\ Len(queue') \in Nat /\ MaxSize \in Nat
    BY <1>1, CallersCounted, QueueAssumption
  <1> QED BY <1>2, <1>3 DEF EnoughProducers

(* An item that is being put is new, so there is room for it among all     *)
(* items.                                                                  *)
LEMMA RoomForNew ==
    ASSUME QueueTypeOK, ItemsFresh, NEW p \in Producer \cap calling
    PROVE  /\ Passed(p) \in Item /\ \A i \in DOMAIN queue : queue[i] # Passed(p)
           /\ Len(queue) < PerProducer * Cardinality(Producer)
  <1>1. Passed(p) \in Item /\ Passed(p)[1] = p /\ Passed(p)[2] = sent[p]
    BY ProducerAssumption DEF Passed, QueueTypeOK, ItemsFresh, Item
  <1>2. \A i \in DOMAIN queue : queue[i] # Passed(p)
    BY <1>1 DEF ItemsFresh
  <1>3. queue \in Seq(Item)
    BY DEF QueueTypeOK
  <1>4. IsFiniteSet(Elements(queue)) /\ Cardinality(Elements(queue)) = Len(queue)
    BY <1>3, ElementsCounted DEF ItemsFresh
  <1>5. Passed(p) \notin Elements(queue)
    BY <1>2 DEF Elements
  <1>6. Elements(queue) \cup {Passed(p)} \subseteq Item
    BY <1>1, <1>3 DEF Elements
  <1> DEFINE Both == Elements(queue) \cup {Passed(p)}
  <1>7. Cardinality(Both) = Len(queue) + 1
    BY <1>4, <1>5, OneMore
  <1>8. Cardinality(Both) <= PerProducer * Cardinality(Producer)
    BY <1>6, ItemsArePairs, NoMore
  <1>9. Len(queue) \in Nat /\ PerProducer * Cardinality(Producer) \in Nat
    BY <1>3, ProducerAssumption, FS_CardinalityType
  <1> HIDE DEF Both
  <1>10. Len(queue) < PerProducer * Cardinality(Producer)
    BY <1>7, <1>8, <1>9
  <1> QED BY <1>1, <1>2, <1>10

(* A producer calls put().                                                 *)
LEMMA QueueCallPut ==
    ASSUME QueueInv, NEW p \in Producer, CallPut(p)
    PROVE  QueueInv'
  <1>1. QueueTypeOK /\ ItemsFresh /\ EnoughConsumers /\ EnoughProducers
    BY EnoughInQueue DEF QueueInv
  <1>2. /\ UNCHANGED <<queue, notEmpty, notFull, bounded, taken>>
        /\ calling' = calling \cup {p} /\ p \notin calling
    BY DEF CallPut, monitor
  <1>3. /\ sent' \in [Producer -> 0 .. PerProducer] /\ sent[p] \in Nat
        /\ sent'[p] = sent[p] + 1
        /\ \A q \in Producer \ {p} : sent'[q] = sent[q]
    BY <1>1, ProducerAssumption DEF CallPut, QueueTypeOK
  <1>4. QueueTypeOK'
    BY <1>1, <1>2, <1>3 DEF QueueTypeOK
  <1>5. ItemsFresh'
    <2>1. \A i \in DOMAIN queue : queue[i][1] \in Producer /\ queue[i][2] \in Nat
      BY <1>1, ItemsArePairs, ProducerAssumption DEF QueueTypeOK
    <2> QED BY <1>1, <1>2, <1>3, <2>1 DEF ItemsFresh
  <1>6. EnoughConsumers'
    <2>1. AwakeConsumers' = AwakeConsumers
      BY <1>2, QueueAssumption DEF AwakeConsumers, Awake
    <2> QED BY <1>1, <1>2, <2>1 DEF EnoughConsumers
  <1>7. EnoughProducers'
    <2>1. AwakeProducers \subseteq AwakeProducers'
      BY <1>2 DEF AwakeProducers, Awake
    <2> QED BY <1>1, <1>2, <1>4, <2>1, ProducersKept DEF QueueTypeOK
  <1> QED
    BY <1>4, <1>5, <1>6, <1>7
    DEF QueueInv, QueueNotificationsSuffice, EnoughConsumers, EnoughProducers,
        AwakeConsumers, AwakeProducers

(* put() waits before a full queue.                                        *)
LEMMA QueuePutWaits ==
    ASSUME QueueInv, NEW p \in Producer, PutWaits(p)
    PROVE  QueueInv'
  <1>1. QueueTypeOK /\ ItemsFresh /\ EnoughConsumers /\ EnoughProducers
    BY EnoughInQueue DEF QueueInv
  <1>2. /\ UNCHANGED <<bounded, queue, notEmpty, calling, sent, taken>>
        /\ notFull' = notFull \cup {p} /\ p \in calling /\ bounded /\ Len(queue) = MaxSize
    BY DEF PutWaits, Awake, full
  <1>4. QueueTypeOK'
    BY <1>1, <1>2 DEF QueueTypeOK
  <1>5. ItemsFresh'
    BY <1>1, <1>2 DEF ItemsFresh
  <1>6. EnoughConsumers'
    <2>1. AwakeConsumers' = AwakeConsumers
      BY <1>2, QueueAssumption DEF AwakeConsumers, Awake
    <2> QED BY <1>1, <1>2, <2>1 DEF EnoughConsumers
  <1>7. EnoughProducers'
    <2>1. AwakeProducers' \subseteq Producer
      BY DEF AwakeProducers
    <2>2. Cardinality(AwakeProducers') \in Nat
      BY <2>1, CallersCounted
    <2>3. MaxSize - Len(queue') = 0
      BY <1>2, QueueAssumption
    <2> QED BY <2>2, <2>3 DEF EnoughProducers
  <1> QED
    BY <1>4, <1>5, <1>6, <1>7
    DEF QueueInv, QueueNotificationsSuffice, EnoughConsumers, EnoughProducers,
        AwakeConsumers, AwakeProducers

(* put() adds its item and wakes a consumer, if one sleeps.                *)
LEMMA QueuePut ==
    ASSUME QueueInv, NEW p \in Producer, Put(p)
    PROVE  QueueInv'
  <1>1. QueueTypeOK /\ ItemsFresh /\ EnoughConsumers /\ EnoughProducers
    BY EnoughInQueue DEF QueueInv
  <1>2. /\ UNCHANGED <<bounded, notFull, sent, taken>>
        /\ queue' = Append(queue, Passed(p)) /\ notEmpty' \in Notify(notEmpty)
        /\ calling' = calling \ {p} /\ p \in calling /\ p \notin notFull
        /\ bounded => Len(queue) # MaxSize
    BY DEF Put, Awake, full, AnnounceItem
  <1>3. Passed(p) \in Item /\ \A i \in DOMAIN queue : queue[i] # Passed(p)
    BY <1>1, <1>2, RoomForNew
  <1>a. queue \in Seq(Item)
    BY <1>1 DEF QueueTypeOK
  <1>b. /\ Len(queue) \in Nat /\ queue' \in Seq(Item) /\ Len(queue') = Len(queue) + 1
        /\ DOMAIN queue = 1 .. Len(queue) /\ DOMAIN queue' = 1 .. Len(queue) + 1
        /\ \A i \in DOMAIN queue : queue'[i] = queue[i]
        /\ queue'[Len(queue) + 1] = Passed(p)
    BY <1>2, <1>3, <1>a
  <1>c. notEmpty' \subseteq notEmpty
    BY <1>2 DEF Notify
  <1>4. QueueTypeOK'
    BY <1>1, <1>2, <1>b, <1>c, QueueAssumption DEF QueueTypeOK
  <1>5. ItemsFresh'
    <2>1. ASSUME bounded PROVE Len(queue') <= MaxSize
      <3>1. Len(queue) <= MaxSize /\ Len(queue) # MaxSize
        BY <1>1, <1>2, <2>1 DEF ItemsFresh
      <3>2. MaxSize \in Nat /\ Len(queue) \in Nat /\ Len(queue') = Len(queue) + 1
        BY <1>b, QueueAssumption
      <3> QED BY <3>1, <3>2
    <2>2. ASSUME NEW i \in DOMAIN queue'
          PROVE  LET q == queue'[i][1]
                 IN  queue'[i][2] <= sent[q] /\ (q \in calling' => queue'[i][2] # sent[q])
      <3>1. CASE i \in DOMAIN queue
        BY <1>1, <1>2, <1>b, <3>1 DEF ItemsFresh
      <3>2. CASE i = Len(queue) + 1
        <4>1. queue'[i][1] = p /\ queue'[i][2] = sent[p] /\ p \notin calling' /\ sent[p] \in Int
          BY <1>1, <1>2, <1>b, <3>2, ProducerAssumption DEF Passed, QueueTypeOK
        <4> QED BY <4>1
      <3> QED BY <1>b, <3>1, <3>2
    <2>3. ASSUME NEW i \in DOMAIN queue', NEW j \in DOMAIN queue', queue'[i] = queue'[j]
          PROVE  i = j
      <3>1. /\ i \in DOMAIN queue \/ i = Len(queue) + 1
            /\ j \in DOMAIN queue \/ j = Len(queue) + 1
        BY <1>b
      <3> QED BY <1>1, <1>3, <1>b, <2>3, <3>1 DEF ItemsFresh
    <2> QED BY <1>1, <1>2, <2>1, <2>2, <2>3 DEF ItemsFresh
  <1>6. EnoughConsumers'
    <2> SUFFICES ASSUME notEmpty' # {} PROVE Len(queue') <= Cardinality(AwakeConsumers')
      BY DEF EnoughConsumers
    <2>1. PICK c \in notEmpty : notEmpty' = notEmpty \ {c}
      BY <1>2 DEF Notify
    <2>2. c \in Consumer /\ c \in calling
      BY <1>1 DEF QueueTypeOK
    <2>3. /\ AwakeConsumers' = AwakeConsumers \cup {c} /\ c \notin AwakeConsumers
          /\ AwakeConsumers \subseteq Consumer
      BY <1>1, <1>2, <2>1, <2>2, QueueAssumption DEF AwakeConsumers, Awake, QueueTypeOK
    <2>4. /\ Cardinality(AwakeConsumers') = Cardinality(AwakeConsumers) + 1
          /\ Cardinality(AwakeConsumers) \in Nat
      BY <2>3, CallersCounted, OneMore
    <2>5. Len(queue) <= Cardinality(AwakeConsumers)
      BY <1>1, <2>1 DEF EnoughConsumers
    <2> QED BY <1>b, <2>4, <2>5
  <1>7. EnoughProducers'
    <2> SUFFICES ASSUME notFull' # {}
                 PROVE  MaxSize - Len(queue') <= Cardinality(AwakeProducers')
      BY DEF EnoughProducers
    <2>1. /\ AwakeProducers = AwakeProducers' \cup {p} /\ p \notin AwakeProducers'
          /\ AwakeProducers' \subseteq Producer
      BY <1>1, <1>2, <1>c, QueueAssumption DEF AwakeProducers, Awake, QueueTypeOK
    <2>2. /\ Cardinality(AwakeProducers) = Cardinality(AwakeProducers') + 1
          /\ Cardinality(AwakeProducers') \in Nat
      BY <2>1, CallersCounted, OneMore
    <2>3. MaxSize - Len(queue) <= Cardinality(AwakeProducers) /\ MaxSize \in Nat
      BY <1>1, <1>2, QueueAssumption DEF EnoughProducers
    <2> QED BY <1>b, <2>2, <2>3
  <1> QED
    BY <1>4, <1>5, <1>6, <1>7
    DEF QueueInv, QueueNotificationsSuffice, EnoughConsumers, EnoughProducers,
        AwakeConsumers, AwakeProducers

(* A consumer calls take().                                                *)
LEMMA QueueCallTake ==
    ASSUME QueueInv, NEW c \in Consumer, CallTake(c)
    PROVE  QueueInv'
  <1>1. QueueTypeOK /\ ItemsFresh /\ EnoughConsumers /\ EnoughProducers
    BY EnoughInQueue DEF QueueInv
  <1>2. /\ UNCHANGED <<queue, notEmpty, notFull, bounded, sent, taken>>
        /\ calling' = calling \cup {c} /\ c \notin calling /\ c \notin Producer
    BY QueueAssumption DEF CallTake, monitor
  <1>4. QueueTypeOK'
    BY <1>1, <1>2 DEF QueueTypeOK
  <1>5. ItemsFresh'
    <2>1. \A i \in DOMAIN queue : queue[i][1] \in Producer
      BY <1>1, ItemsArePairs DEF QueueTypeOK
    <2> QED BY <1>1, <1>2, <2>1 DEF ItemsFresh
  <1>6. EnoughConsumers'
    <2>1. AwakeConsumers \subseteq AwakeConsumers'
      BY <1>2 DEF AwakeConsumers, Awake
    <2> QED BY <1>1, <1>2, <1>4, <2>1, ConsumersKept DEF QueueTypeOK
  <1>7. EnoughProducers'
    <2>1. AwakeProducers' = AwakeProducers
      BY <1>2 DEF AwakeProducers, Awake
    <2> QED BY <1>1, <1>2, <2>1 DEF EnoughProducers
  <1> QED
    BY <1>4, <1>5, <1>6, <1>7
    DEF QueueInv, QueueNotificationsSuffice, EnoughConsumers, EnoughProducers,
        AwakeConsumers, AwakeProducers

(* take() waits before an empty queue.                                     *)
LEMMA QueueTakeSleeps ==
    ASSUME QueueInv, NEW c \in Consumer, QueueTakeWaits(c)
    PROVE  QueueInv'
  <1>1. QueueTypeOK /\ ItemsFresh /\ EnoughConsumers /\ EnoughProducers
    BY EnoughInQueue DEF QueueInv
  <1>2. /\ UNCHANGED <<bounded, queue, notFull, calling, sent, taken>>
        /\ notEmpty' = notEmpty \cup {c} /\ c \in calling /\ queue = <<>> /\ c \notin Producer
    BY QueueAssumption DEF QueueTakeWaits, Awake
  <1>4. QueueTypeOK'
    BY <1>1, <1>2 DEF QueueTypeOK
  <1>5. ItemsFresh'
    BY <1>1, <1>2 DEF ItemsFresh
  <1>6. EnoughConsumers'
    <2>1. AwakeConsumers' \subseteq Consumer
      BY DEF AwakeConsumers
    <2>2. Cardinality(AwakeConsumers') \in Nat
      BY <2>1, CallersCounted
    <2>3. Len(queue') = 0
      BY <1>2
    <2> QED BY <2>2, <2>3 DEF EnoughConsumers
  <1>7. EnoughProducers'
    <2>1. AwakeProducers' = AwakeProducers
      BY <1>2 DEF AwakeProducers, Awake
    <2> QED BY <1>1, <1>2, <2>1 DEF EnoughProducers
  <1> QED
    BY <1>4, <1>5, <1>6, <1>7
    DEF QueueInv, QueueNotificationsSuffice, EnoughConsumers, EnoughProducers,
        AwakeConsumers, AwakeProducers

(* take() takes the first item and, of a bounded queue, wakes a producer.  *)
LEMMA QueueTake ==
    ASSUME QueueInv, NEW c \in Consumer, Take(c)
    PROVE  QueueInv'
  <1>1. QueueTypeOK /\ ItemsFresh /\ EnoughConsumers /\ EnoughProducers
    BY EnoughInQueue DEF QueueInv
  <1>2. /\ UNCHANGED <<bounded, notEmpty, sent>>
        /\ queue # <<>> /\ queue' = Tail(queue) /\ taken' = Append(taken, Head(queue))
        /\ notFull' \in IF bounded THEN Notify(notFull) ELSE {notFull}
        /\ calling' = calling \ {c} /\ c \in calling /\ c \notin notEmpty /\ c \notin Producer
    BY QueueAssumption DEF Take, Awake
  <1>a. queue \in Seq(Item)
    BY <1>1 DEF QueueTypeOK
  <1>b. /\ Len(queue) \in Nat /\ Len(queue) >= 1 /\ Head(queue) \in Item
        /\ queue' \in Seq(Item) /\ Len(queue') = Len(queue) - 1
        /\ DOMAIN queue = 1 .. Len(queue) /\ DOMAIN queue' = 1 .. Len(queue) - 1
        /\ \A i \in DOMAIN queue' : i + 1 \in DOMAIN queue /\ queue'[i] = queue[i + 1]
    BY <1>2, <1>a
  <1>c. notFull' \subseteq notFull
    BY <1>2 DEF Notify
  <1>4. QueueTypeOK'
    <2>1. taken' \in Seq(Item)
      BY <1>1, <1>2, <1>b DEF QueueTypeOK
    <2> QED BY <1>1, <1>2, <1>b, <1>c, <2>1, QueueAssumption DEF QueueTypeOK
  <1>5. ItemsFresh'
    <2>1. bounded => Len(queue') <= MaxSize
      BY <1>1, <1>b, QueueAssumption DEF ItemsFresh
    <2>2. \A i \in DOMAIN queue' :
            LET p == queue'[i][1]
            IN  queue'[i][2] <= sent[p] /\ (p \in calling' => queue'[i][2] # sent[p])
      BY <1>1, <1>2, <1>b DEF ItemsFresh
    <2>3. ASSUME NEW i \in DOMAIN queue', NEW j \in DOMAIN queue', queue'[i] = queue'[j]
          PROVE  i = j
      <3>1. i \in Nat /\ j \in Nat /\ i + 1 = j + 1
        BY <1>1, <1>b, <2>3 DEF ItemsFresh
      <3> QED BY <3>1
    <2> QED BY <1>1, <1>2, <1>c, <2>1, <2>2, <2>3 DEF ItemsFresh
  <1>6. EnoughConsumers'
    <2> SUFFICES ASSUME notEmpty' # {} PROVE Len(queue') <= Cardinality(AwakeConsumers')
      BY DEF EnoughConsumers
    <2>1. /\ AwakeConsumers = AwakeConsumers' \cup {c} /\ c \notin AwakeConsumers'
          /\ AwakeConsumers' \subseteq Consumer
      BY <1>1, <1>2, <1>c, QueueAssumption DEF AwakeConsumers, Awake, QueueTypeOK
    <2>2. /\ Cardinality(AwakeConsumers) = Cardinality(AwakeConsumers') + 1
          /\ Cardinality(AwakeConsumers') \in Nat
      BY <2>1, CallersCounted, OneMore
    <2>3. Len(queue) <= Cardinality(AwakeConsumers)
      BY <1>1, <1>2 DEF EnoughConsumers
    <2> QED BY <1>b, <2>2, <2>3
  <1>7. EnoughProducers'
    <2> SUFFICES ASSUME notFull' # {}
                 PROVE  MaxSize - Len(queue') <= Cardinality(AwakeProducers')
      BY DEF EnoughProducers
    <2>1. bounded
      BY <1>1, <1>c DEF ItemsFresh
    <2>2. PICK p \in notFull : notFull' = notFull \ {p}
      BY <1>2, <2>1 DEF Notify
    <2>3. p \in Producer /\ p \in calling
      BY <1>1 DEF QueueTypeOK
    <2>4. /\ AwakeProducers' = AwakeProducers \cup {p} /\ p \notin AwakeProducers
          /\ AwakeProducers \subseteq Producer
      BY <1>1, <1>2, <2>2, <2>3, QueueAssumption DEF AwakeProducers, Awake, QueueTypeOK
    <2>5. /\ Cardinality(AwakeProducers') = Cardinality(AwakeProducers) + 1
          /\ Cardinality(AwakeProducers) \in Nat
      BY <2>4, CallersCounted, OneMore
    <2>6. MaxSize - Len(queue) <= Cardinality(AwakeProducers) /\ MaxSize \in Nat
      BY <1>1, <2>2, QueueAssumption DEF EnoughProducers
    <2> QED BY <1>b, <2>5, <2>6
  <1> QED
    BY <1>4, <1>5, <1>6, <1>7
    DEF QueueInv, QueueNotificationsSuffice, EnoughConsumers, EnoughProducers,
        AwakeConsumers, AwakeProducers

(* drain() takes everything; nobody waits for room in a queue without a    *)
(* bound.                                                                  *)
LEMMA QueueDrains ==
    ASSUME QueueInv, drain
    PROVE  QueueInv'
  <1>1. QueueTypeOK /\ ItemsFresh /\ EnoughConsumers /\ EnoughProducers
    BY EnoughInQueue DEF QueueInv
  <1>2. /\ UNCHANGED <<bounded, notEmpty, notFull, calling, sent>>
        /\ ~bounded /\ queue' = <<>> /\ taken' = taken \o queue
    BY DEF drain
  <1>4. QueueTypeOK'
    <2>1. taken' \in Seq(Item) /\ queue' \in Seq(Item)
      BY <1>1, <1>2 DEF QueueTypeOK
    <2> QED BY <1>1, <1>2, <2>1 DEF QueueTypeOK
  <1>5. ItemsFresh'
    BY <1>1, <1>2 DEF ItemsFresh
  <1>6. EnoughConsumers'
    <2>1. AwakeConsumers' = AwakeConsumers /\ AwakeConsumers \subseteq Consumer
      BY <1>2 DEF AwakeConsumers, Awake
    <2>2. Cardinality(AwakeConsumers') \in Nat
      BY <2>1, CallersCounted
    <2>3. Len(queue') = 0
      BY <1>2
    <2> QED BY <2>2, <2>3 DEF EnoughConsumers
  <1>7. EnoughProducers'
    BY <1>1, <1>2 DEF ItemsFresh, EnoughProducers
  <1> QED
    BY <1>4, <1>5, <1>6, <1>7
    DEF QueueInv, QueueNotificationsSuffice, EnoughConsumers, EnoughProducers,
        AwakeConsumers, AwakeProducers

(* A thread wakes for no reason.                                           *)
LEMMA QueueWakes ==
    ASSUME QueueInv, NEW t \in Producer \cup Consumer, WakesInQueue(t)
    PROVE  QueueInv'
  <1>1. QueueTypeOK /\ ItemsFresh /\ EnoughConsumers /\ EnoughProducers
    BY EnoughInQueue DEF QueueInv
  <1>2. /\ UNCHANGED <<queue, bounded, calling, sent, taken>>
        /\ notEmpty' = notEmpty \ {t} /\ notFull' = notFull \ {t}
    BY DEF WakesInQueue, Wakes, callVars
  <1>4. QueueTypeOK'
    BY <1>1, <1>2 DEF QueueTypeOK
  <1>5. ItemsFresh'
    BY <1>1, <1>2 DEF ItemsFresh
  <1>6. EnoughConsumers'
    <2>1. AwakeConsumers \subseteq AwakeConsumers'
      BY <1>2 DEF AwakeConsumers, Awake
    <2> QED BY <1>1, <1>2, <1>4, <2>1, ConsumersKept DEF QueueTypeOK
  <1>7. EnoughProducers'
    <2>1. AwakeProducers \subseteq AwakeProducers'
      BY <1>2 DEF AwakeProducers, Awake
    <2> QED BY <1>1, <1>2, <1>4, <2>1, ProducersKept DEF QueueTypeOK
  <1> QED
    BY <1>4, <1>5, <1>6, <1>7
    DEF QueueInv, QueueNotificationsSuffice, EnoughConsumers, EnoughProducers,
        AwakeConsumers, AwakeProducers

(* The first state, and every step.                                        *)
LEMMA QueueBegins == QueueInit => QueueInv
  <1> SUFFICES ASSUME QueueInit PROVE QueueInv
    OBVIOUS
  <1>1. /\ bounded \in BOOLEAN /\ queue = <<>> /\ notEmpty = {} /\ notFull = {}
        /\ calling = {} /\ sent = [p \in Producer |-> 0] /\ taken = <<>>
    BY DEF QueueInit, MonitorInit
  <1>2. QueueTypeOK
    BY <1>1, ProducerAssumption DEF QueueTypeOK
  <1>3. ItemsFresh
    BY <1>1, QueueAssumption DEF ItemsFresh
  <1> QED BY <1>1, <1>2, <1>3 DEF QueueInv, QueueNotificationsSuffice

(* Every step of the queue keeps its invariant. *)
LEMMA QueueGoesOn == QueueInv /\ QueueNext => QueueInv'
  BY QueueCallPut, QueuePutWaits, QueuePut, QueueCallTake, QueueTakeSleeps, QueueTake,
     QueueDrains, QueueWakes
  DEF QueueNext, PutStep, TakeStep

----------------------------------------------------------------------------
(* The thread objects.                                                     *)

(* Default names tell their numbers, and are no other names.               *)
LEMMA NamesDiffer ==
    /\ \A j, k \in Nat : DefaultName(j) = DefaultName(k) => j = k
    /\ \A k \in Nat : DefaultName(k) \notin {<<>>, <<"given">>}
  <1>1. ASSUME NEW j \in Nat, NEW k \in Nat, DefaultName(j) = DefaultName(k) PROVE j = k
    <2>1. DefaultName(j)[2] = j /\ DefaultName(k)[2] = k
      BY DEF DefaultName
    <2> QED BY <1>1, <2>1
  <1>2. ASSUME NEW k \in Nat PROVE DefaultName(k) \notin {<<>>, <<"given">>}
    BY DEF DefaultName
  <1> QED BY <1>1, <1>2

(* An object's variables that a step of it leaves to the others.           *)
LEMMA ObjectUpdated ==
    ASSUME ObjectsOK, NEW t \in ThreadObject, NEW o,
           object' = [object EXCEPT ![t] = o]
    PROVE  object'[t] = o /\ \A u \in ThreadObject \ {t} : object'[u] = object[u]
  BY DEF ObjectsOK

(* Thread's constructor.                                                   *)
LEMMA ThreadConstructed ==
    ASSUME ThreadInv, process = "runs", NEW t \in ThreadObject, Construct(t)
    PROVE  ThreadInv'
  <1> USE DEF ThreadInv
  <1>1. PICK name \in {<<>>, <<"given">>} :
            object' = [object EXCEPT ![t].name_ = setDefaultName(name)]
    BY DEF Construct
  <1>2. /\ life[t] = "none" /\ life' = [life EXCEPT ![t] = "made"] /\ num_' = num_ + 1
        /\ UNCHANGED <<body, t_cachedTid, strayed, process>>
    BY DEF Construct
  <1>3. num_ \in Nat /\ num_' \in Nat
    BY <1>2 DEF ObjectsOK
  <1>4. setDefaultName(name) \in {<<"given">>, DefaultName(num_ + 1)}
    BY <1>1 DEF setDefaultName, DefaultName
  <1>5. /\ object'[t].name_ = setDefaultName(name)
        /\ \A u \in ThreadObject : /\ object'[u].started_ = object[u].started_
                                   /\ object'[u].joined_ = object[u].joined_
                                   /\ object'[u].tid_ = object[u].tid_
        /\ \A u \in ThreadObject \ {t} : object'[u].name_ = object[u].name_
    BY <1>1 DEF ObjectsOK
  <1>6. object' \in [ThreadObject -> [started_ : BOOLEAN, joined_ : BOOLEAN,
                                      tid_ : {0} \cup ThreadObject, name_ : ThreadName]]
    <2>1. setDefaultName(name) \in ThreadName
      BY <1>3, <1>4 DEF ThreadName
    <2> QED BY <1>1, <2>1 DEF ObjectsOK
  <1>7. ObjectsOK'
    <2>1. \A u \in ThreadObject : \A k \in Nat : object'[u].name_ = DefaultName(k) => k <= num_'
      BY <1>2, <1>3, <1>4, <1>5, NamesDiffer DEF ObjectsOK
    <2> QED BY <1>2, <1>3, <1>6, <2>1 DEF ObjectsOK
  <1>8. BodyFollowsLife'
    BY <1>2, <1>5 DEF BodyFollowsLife, ThreadsAccounted
  <1>9. ASSUME NEW u \in ThreadObject, NEW v \in ThreadObject \ {u},
               object'[u].name_ = object'[v].name_
        PROVE  object'[u].name_ \in {<<>>, <<"given">>}
    <2>1. CASE u # t /\ v # t
      BY <1>5, <1>9, <2>1 DEF ThreadsAccounted
    <2>2. ASSUME NEW w \in ThreadObject \ {t}, object'[w].name_ = DefaultName(num_ + 1)
          PROVE  FALSE
      <3>1. num_ + 1 <= num_
        BY <1>3, <1>5, <2>2 DEF ObjectsOK
      <3> QED BY <1>3, <3>1
    <2> QED BY <1>4, <1>5, <1>9, <2>1, <2>2
  <1>10. ThreadsAccounted'
    <2>1. life' \in [ThreadObject -> {"none", "made", "join", "joined", "gone"}]
      BY <1>2 DEF ThreadsAccounted
    <2>2. \A u \in ThreadObject :
             /\ life'[u] = "joined" => body'[u] = "ended" /\ object'[u].tid_ = u
             /\ u \in strayed' => life'[u] = "gone" /\ Detaches(u)'
      BY <1>2, <1>5 DEF ThreadsAccounted, Detaches
    <2> QED BY <1>2, <1>9, <2>1, <2>2 DEF ThreadsAccounted
  <1> QED BY <1>7, <1>8, <1>10

(* Steps that give no names.                                               *)
LEMMA NamesStay ==
    ASSUME ThreadsAccounted, \A u \in ThreadObject : object'[u].name_ = object[u].name_
    PROVE  \A u \in ThreadObject : \A v \in ThreadObject \ {u} :
              object'[u].name_ = object'[v].name_ => object'[u].name_ \in {<<>>, <<"given">>}
  BY DEF ThreadsAccounted

(* start(): with a thread, or without one as its constructor throws.       *)
LEMMA ThreadStarted ==
    ASSUME ThreadInv, process = "runs", NEW t \in ThreadObject, StartThread(t)
    PROVE  ThreadInv'
  <1> USE DEF ThreadInv
  <1>1. PICK began \in {"new", "none"} : body' = [body EXCEPT ![t] = began]
    BY DEF StartThread
  <1>2. /\ life[t] = "made" /\ object[t].started_ = FALSE
        /\ object' = [object EXCEPT ![t].started_ = TRUE]
        /\ UNCHANGED <<life, num_, t_cachedTid, strayed, process>>
    BY DEF StartThread, ObjectsOK
  <1>3. /\ object'[t].started_ = TRUE
        /\ \A u \in ThreadObject : /\ object'[u].name_ = object[u].name_
                                   /\ object'[u].joined_ = object[u].joined_
                                   /\ object'[u].tid_ = object[u].tid_
        /\ \A u \in ThreadObject \ {t} : object'[u].started_ = object[u].started_
    BY <1>2 DEF ObjectsOK
  <1>4. ObjectsOK'
    <2>1. object' \in [ThreadObject -> [started_ : BOOLEAN, joined_ : BOOLEAN,
                                        tid_ : {0} \cup ThreadObject, name_ : ThreadName]]
      BY <1>2 DEF ObjectsOK
    <2> QED BY <1>2, <1>3, <2>1 DEF ObjectsOK
  <1>5. /\ body' \in [ThreadObject -> {"none", "new", "running", "ended"}]
        /\ body[t] = "none" /\ body'[t] \in {"new", "none"}
        /\ \A u \in ThreadObject \ {t} : body'[u] = body[u]
    BY <1>1, <1>2 DEF ThreadsAccounted, BodyFollowsLife
  <1>6. BodyFollowsLife'
    BY <1>2, <1>3, <1>5 DEF BodyFollowsLife
  <1>7. ThreadsAccounted'
    <2>1. \A u \in ThreadObject :
             /\ life'[u] = "joined" => body'[u] = "ended" /\ object'[u].tid_ = u
             /\ u \in strayed' => life'[u] = "gone" /\ Detaches(u)'
      BY <1>2, <1>3, <1>5 DEF ThreadsAccounted, Detaches
    <2> QED BY <1>2, <1>3, <1>5, <2>1, NamesStay DEF ThreadsAccounted
  <1> QED BY <1>4, <1>6, <1>7

(* join() of a thread, or of none, which throws.                           *)
LEMMA ThreadJoining ==
    ASSUME ThreadInv, process = "runs", NEW t \in ThreadObject, JoinThread(t)
    PROVE  ThreadInv'
  <1> USE DEF ThreadInv
  <1>2. /\ life[t] = "made" /\ object[t].started_ = TRUE /\ object[t].joined_ = FALSE
        /\ object' = [object EXCEPT ![t].joined_ = TRUE]
        /\ life' = [life EXCEPT ![t] = IF body[t] = "none" THEN @ ELSE "join"]
        /\ UNCHANGED <<num_, body, t_cachedTid, strayed, process>>
    BY DEF JoinThread, ObjectsOK
  <1>3. /\ object'[t].joined_ = TRUE
        /\ \A u \in ThreadObject : /\ object'[u].name_ = object[u].name_
                                   /\ object'[u].started_ = object[u].started_
                                   /\ object'[u].tid_ = object[u].tid_
        /\ \A u \in ThreadObject \ {t} : object'[u].joined_ = object[u].joined_
    BY <1>2 DEF ObjectsOK
  <1>4. ObjectsOK'
    <2>1. object' \in [ThreadObject -> [started_ : BOOLEAN, joined_ : BOOLEAN,
                                        tid_ : {0} \cup ThreadObject, name_ : ThreadName]]
      BY <1>2 DEF ObjectsOK
    <2> QED BY <1>2, <1>3, <2>1 DEF ObjectsOK
  <1>5. /\ life' \in [ThreadObject -> {"none", "made", "join", "joined", "gone"}]
        /\ life'[t] = IF body[t] = "none" THEN "made" ELSE "join"
        /\ \A u \in ThreadObject \ {t} : life'[u] = life[u]
    BY <1>2 DEF ThreadsAccounted
  <1>6. BodyFollowsLife'
    BY <1>2, <1>3, <1>5 DEF BodyFollowsLife
  <1>7. ThreadsAccounted'
    <2>1. \A u \in ThreadObject :
             /\ life'[u] = "joined" => body'[u] = "ended" /\ object'[u].tid_ = u
             /\ u \in strayed' => life'[u] = "gone" /\ Detaches(u)'
      BY <1>2, <1>3, <1>5 DEF ThreadsAccounted, Detaches
    <2> QED BY <1>2, <1>3, <1>5, <2>1, NamesStay DEF ThreadsAccounted
  <1> QED BY <1>4, <1>6, <1>7

(* join() returns when the thread has ended, and it has written its id.    *)
LEMMA ThreadJoined ==
    ASSUME ThreadInv, process = "runs", NEW t \in ThreadObject, JoinEnds(t)
    PROVE  ThreadInv'
  <1> USE DEF ThreadInv
  <1>2. /\ life[t] = "join" /\ body[t] = "ended" /\ life' = [life EXCEPT ![t] = "joined"]
        /\ UNCHANGED <<object, num_, body, t_cachedTid, strayed, process>>
    BY DEF JoinEnds
  <1>4. ObjectsOK'
    BY <1>2 DEF ObjectsOK
  <1>5. /\ life' \in [ThreadObject -> {"none", "made", "join", "joined", "gone"}]
        /\ life'[t] = "joined" /\ \A u \in ThreadObject \ {t} : life'[u] = life[u]
    BY <1>2 DEF ThreadsAccounted
  <1>6. BodyFollowsLife'
    BY <1>2, <1>5 DEF BodyFollowsLife
  <1>7. ThreadsAccounted'
    <2>1. t \notin strayed /\ object[t].tid_ = t
      BY <1>2 DEF ThreadsAccounted, BodyFollowsLife
    <2>2. \A u \in ThreadObject :
             /\ life'[u] = "joined" => body'[u] = "ended" /\ object'[u].tid_ = u
             /\ u \in strayed' => life'[u] = "gone" /\ Detaches(u)'
      BY <1>2, <1>5, <2>1 DEF ThreadsAccounted, Detaches
    <2> QED BY <1>2, <1>5, <2>2, NamesStay DEF ThreadsAccounted
  <1> QED BY <1>4, <1>6, <1>7

(* The destructor.                                                         *)
LEMMA ThreadDestroyed ==
    ASSUME ThreadInv, process = "runs", NEW t \in ThreadObject, DestroyThread(t)
    PROVE  ThreadInv'
  <1> USE DEF ThreadInv
  <1>2. /\ life[t] \in {"made", "joined"} /\ life' = [life EXCEPT ![t] = "gone"]
        /\ process' = IF Detaches(t) /\ body[t] = "none" THEN "detached nothing" ELSE process
        /\ UNCHANGED <<object, num_, body, t_cachedTid, strayed>>
    BY DEF DestroyThread
  <1>4. ObjectsOK'
    BY <1>2 DEF ObjectsOK
  <1>5. /\ life' \in [ThreadObject -> {"none", "made", "join", "joined", "gone"}]
        /\ life'[t] = "gone" /\ \A u \in ThreadObject \ {t} : life'[u] = life[u]
    BY <1>2 DEF ThreadsAccounted
  <1>6. BodyFollowsLife'
    BY <1>2, <1>5 DEF BodyFollowsLife, ThreadsAccounted
  <1>7. ThreadsAccounted'
    <2>1. \A u \in ThreadObject :
             /\ life'[u] = "joined" => body'[u] = "ended" /\ object'[u].tid_ = u
             /\ u \in strayed' => life'[u] = "gone" /\ Detaches(u)'
      BY <1>2, <1>5 DEF ThreadsAccounted, Detaches
    <2>2. process' = "detached nothing" =>
            \E u \in ThreadObject : life'[u] = "gone" /\ Detaches(u)' /\ body'[u] = "none"
      BY <1>2, <1>5 DEF Detaches
    <2> QED BY <1>2, <1>5, <2>1, <2>2, NamesStay DEF ThreadsAccounted
  <1> QED BY <1>4, <1>6, <1>7

(* The thread runs and writes its id, to an object or past its end.        *)
LEMMA ThreadRuns ==
    ASSUME ThreadInv, process = "runs", NEW t \in ThreadObject, RunInThread(t)
    PROVE  ThreadInv'
  <1> USE DEF ThreadInv
  <1>1. /\ body[t] = "new" /\ body' = [body EXCEPT ![t] = "running"]
        /\ t_cachedTid' = [t_cachedTid EXCEPT ![t] = cacheTid(t)]
        /\ UNCHANGED <<life, num_, process>>
    BY DEF RunInThread
  <1>2. cacheTid(t) = t
    BY DEF cacheTid, ObjectsOK
  <1>3. /\ t_cachedTid' \in [ThreadObject -> {0} \cup ThreadObject]
        /\ t_cachedTid'[t] = t
        /\ \A u \in ThreadObject \ {t} : t_cachedTid'[u] = t_cachedTid[u]
    BY <1>1, <1>2 DEF ObjectsOK
  <1>4. /\ body' \in [ThreadObject -> {"none", "new", "running", "ended"}]
        /\ body'[t] = "running" /\ \A u \in ThreadObject \ {t} : body'[u] = body[u]
    BY <1>1 DEF ThreadsAccounted
  <1>5. /\ object' \in [ThreadObject -> [started_ : BOOLEAN, joined_ : BOOLEAN,
                                         tid_ : {0} \cup ThreadObject, name_ : ThreadName]]
        /\ \A u \in ThreadObject : /\ object'[u].name_ = object[u].name_
                                   /\ object'[u].started_ = object[u].started_
                                   /\ object'[u].joined_ = object[u].joined_
        /\ \A u \in ThreadObject \ {t} : object'[u].tid_ = object[u].tid_
        /\ life[t] = "gone" => strayed' = strayed \cup {t}
        /\ life[t] # "gone" => object'[t].tid_ = t /\ strayed' = strayed
    <2>1. CASE life[t] = "gone"
      BY <2>1 DEF RunInThread, ObjectsOK
    <2>2. CASE life[t] # "gone"
      <3>1. object' = [object EXCEPT ![t].tid_ = t] /\ strayed' = strayed
        BY <1>3, <2>2 DEF RunInThread
      <3> QED BY <2>2, <3>1 DEF ObjectsOK
    <2> QED BY <2>1, <2>2
  <1>6. ObjectsOK'
    BY <1>1, <1>3, <1>5 DEF ObjectsOK
  <1>7. BodyFollowsLife'
    BY <1>1, <1>4, <1>5 DEF BodyFollowsLife
  <1>8. ThreadsAccounted'
    <2>1. \A u \in ThreadObject :
             /\ life'[u] = "joined" => body'[u] = "ended" /\ object'[u].tid_ = u
             /\ u \in strayed' => life'[u] = "gone" /\ Detaches(u)'
      BY <1>1, <1>4, <1>5 DEF ThreadsAccounted, BodyFollowsLife, Detaches
    <2> QED BY <1>1, <1>4, <1>5, <2>1, NamesStay DEF ThreadsAccounted
  <1> QED BY <1>6, <1>7, <1>8

(* The function ends, with an exception or without.                        *)
LEMMA ThreadFunctionEnds ==
    ASSUME ThreadInv, process = "runs", NEW t \in ThreadObject, FunctionEnds(t)
    PROVE  ThreadInv'
  <1> USE DEF ThreadInv
  <1>1. /\ body[t] = "running" /\ body' = [body EXCEPT ![t] = "ended"]
        /\ process' \in {"runs", "unknown exception"}
        /\ UNCHANGED <<object, life, num_, t_cachedTid, strayed>>
    BY DEF FunctionEnds
  <1>2. /\ body' \in [ThreadObject -> {"none", "new", "running", "ended"}]
        /\ body'[t] = "ended" /\ \A u \in ThreadObject \ {t} : body'[u] = body[u]
    BY <1>1 DEF ThreadsAccounted
  <1>3. ObjectsOK'
    BY <1>1 DEF ObjectsOK
  <1>4. BodyFollowsLife'
    BY <1>1, <1>2 DEF BodyFollowsLife
  <1>5. ThreadsAccounted'
    <2>1. \A u \in ThreadObject :
             /\ life'[u] = "joined" => body'[u] = "ended" /\ object'[u].tid_ = u
             /\ u \in strayed' => life'[u] = "gone" /\ Detaches(u)'
      BY <1>1, <1>2 DEF ThreadsAccounted, Detaches
    <2> QED BY <1>1, <1>2, <2>1, NamesStay DEF ThreadsAccounted
  <1> QED BY <1>3, <1>4, <1>5

(* The first state, and every step.                                        *)
LEMMA ThreadsBegin == ThreadInit => ThreadInv
  <1> SUFFICES ASSUME ThreadInit PROVE ThreadInv
    OBVIOUS
  <1>1. <<>> \in ThreadName
    BY DEF ThreadName
  <1>2. ObjectsOK
    <2>1. object \in [ThreadObject -> [started_ : BOOLEAN, joined_ : BOOLEAN,
                                       tid_ : {0} \cup ThreadObject, name_ : ThreadName]]
      BY <1>1 DEF ThreadInit
    <2>2. \A t \in ThreadObject : \A k \in Nat : object[t].name_ # DefaultName(k)
      BY NamesDiffer DEF ThreadInit
    <2> QED BY <2>1, <2>2 DEF ThreadInit, ObjectsOK
  <1>3. BodyFollowsLife
    BY DEF ThreadInit, BodyFollowsLife
  <1>4. ThreadsAccounted
    BY DEF ThreadInit, ThreadsAccounted
  <1> QED BY <1>2, <1>3, <1>4 DEF ThreadInv

(* Every step of the thread objects keeps theirs. *)
LEMMA ThreadsGoOn == ThreadInv /\ ThreadNext => ThreadInv'
  BY ThreadConstructed, ThreadStarted, ThreadJoining, ThreadJoined, ThreadDestroyed,
     ThreadRuns, ThreadFunctionEnds
  DEF ThreadNext

----------------------------------------------------------------------------
(* The four together.                                                      *)

(* A step of the others leaves the invariants of the pool, the queue and   *)
(* the threads alone.                                                      *)
LEMMA PoolStays == ASSUME PoolInv, UNCHANGED poolVars PROVE PoolInv'
  <1> USE DEF PoolInv
  <1>1. UNCHANGED <<monitor, running, threads, pc, doing, latchVars, history>>
    BY DEF poolVars
  <1>2. PoolTypeOK'
    BY <1>1 DEF PoolTypeOK, monitor, latchVars, history
  <1>3. PoolPlaces'
    BY <1>1 DEF PoolPlaces, monitor, history
  <1>4. PoolPhase'
    BY <1>1 DEF PoolPhase, AllEnded, monitor, history
  <1>5. OnePlace' /\ QueueInOrder'
    BY <1>1, TasksStay DEF monitor, history
  <1>6. LatchBehind'
    BY <1>1 DEF LatchBehind, latchVars, history
  <1>7. NotificationsSuffice'
    BY <1>1 DEF NotificationsSuffice, InTake, InRun, monitor
  <1> QED BY <1>2, <1>3, <1>4, <1>5, <1>6, <1>7

(* A step that leaves the queue alone keeps its invariant. *)
LEMMA QueueStays == ASSUME QueueInv, UNCHANGED queueVars PROVE QueueInv'
  <1>1. UNCHANGED <<queue, notEmpty, notFull, bounded, calling, sent, taken>>
    BY DEF queueVars, monitor, callVars
  <1>2. QueueNotificationsSuffice'
    BY <1>1 DEF QueueInv, QueueNotificationsSuffice, QueueTypeOK, Awake
  <1>3. ItemsFresh'
    BY <1>1 DEF QueueInv, ItemsFresh
  <1> QED BY <1>2, <1>3 DEF QueueInv

(* A step that leaves the thread objects alone keeps theirs. *)
LEMMA ThreadsStay == ASSUME ThreadInv, UNCHANGED threadObjectVars PROVE ThreadInv'
  BY DEF ThreadInv, threadObjectVars, ThreadsAccounted, Detaches, ObjectsOK, BodyFollowsLife

(* The first state satisfies the invariant... *)
LEMMA InitIInv == Init => IInv
  <1> SUFFICES ASSUME Init PROVE IInv
    OBVIOUS
  <1>1. PoolInv /\ QueueInv /\ ThreadInv
    BY PoolBegins, QueueBegins, ThreadsBegin DEF Init
  <1>2. part \in {"pool", "queue", "log", "thread"} /\ bounded \in BOOLEAN
        /\ notEmpty = {} /\ notFull = {}
    BY DEF Init, QueueInit, MonitorInit
  <1> QED BY <1>1, <1>2 DEF IInv

(* ... and every step of any part keeps it. *)
LEMMA NextIInv == IInv /\ [Next]_vars => IInv'
  <1> SUFFICES ASSUME IInv, [Next]_vars PROVE IInv'
    OBVIOUS
  <1>1. CASE PoolStep
    <2>1. part = "pool" /\ part' = "pool" /\ bounded' = bounded
      BY <1>1 DEF PoolStep, callVars
    <2>2. PoolInv'
      BY <1>1, <2>1, PoolGoesOn DEF PoolStep, IInv
    <2> QED BY <2>1, <2>2 DEF IInv
  <1>2. CASE QueueStep
    <2>1. part = "queue" /\ part' = "queue"
      BY <1>2 DEF QueueStep
    <2>2. QueueInv'
      BY <1>2, <2>1, QueueGoesOn DEF QueueStep, IInv
    <2>3. bounded' \in BOOLEAN
      BY <2>2 DEF QueueInv, QueueNotificationsSuffice, QueueTypeOK
    <2> QED BY <2>1, <2>2, <2>3 DEF IInv
  <1>3. CASE LogStep
    <2>1. /\ part = "log" /\ part' = "log" /\ bounded' = bounded
          /\ notEmpty' = notEmpty /\ notFull' = notFull
      BY <1>3 DEF LogStep, queueVars, monitor, callVars
    <2> QED BY <2>1 DEF IInv
  <1>4. CASE ThreadStepOf
    <2>1. /\ part = "thread" /\ part' = "thread" /\ bounded' = bounded
          /\ notEmpty' = notEmpty /\ notFull' = notFull
      BY <1>4 DEF ThreadStepOf, queueVars, monitor, callVars
    <2>2. ThreadInv'
      BY <1>4, <2>1, ThreadsGoOn DEF ThreadStepOf, IInv
    <2> QED BY <2>1, <2>2 DEF IInv
  <1>5. CASE UNCHANGED vars
    <2>1. /\ part' = part /\ UNCHANGED <<poolVars, queueVars, threadObjectVars>>
      BY <1>5 DEF vars
    <2>2. bounded' = bounded /\ notEmpty' = notEmpty /\ notFull' = notFull
      BY <2>1 DEF queueVars, monitor, callVars
    <2> QED BY <2>1, <2>2, PoolStays, QueueStays, ThreadsStay DEF IInv
  <1> QED BY <1>1, <1>2, <1>3, <1>4, <1>5 DEF Next

(* The invariant is kept by every step of the threads.                     *)
THEOREM InductiveInvariant == Spec => []IInv
  <1>1. Init => IInv
    BY InitIInv
  <1>2. IInv /\ [Next]_vars => IInv'
    BY NextIInv
  <1> QED BY <1>1, <1>2, PTL DEF Spec

(* Threadpool and Thread: every task given to run() is in one place and    *)
(* none is lost or run twice, whatever throws; an owner that waited for    *)
(* the latch, stopped and joined finds all tasks done; and who has joined  *)
(* a thread finds its function done and its id written.                    *)
THEOREM TasksAreDone == Spec => []TasksDone
  <1>1. IInv => TasksDone
    BY PoolKept DEF IInv, ThreadInv, TasksDone
  <1> QED BY <1>1, InductiveInvariant, PTL

(* Threadpool::run and take(), BlockingQueue and BoundedBlockingQueue: no  *)
(* thread sleeps for a condition while there are more items, or more room, *)
(* than threads already woken to use it, with notify() waking only one.    *)
THEOREM NotificationsAreKept == Spec => []NoNotificationLost
  <1>1. IInv => NoNotificationLost
    BY PoolKept DEF IInv, QueueInv, NoNotificationLost
  <1> QED BY <1>1, InductiveInvariant, PTL

----------------------------------------------------------------------------
(* The refinement.                                                         *)
Items    == IF part = "queue" THEN queue ELSE <<>>
Capacity == IF bounded THEN MaxSize ELSE PerProducer * Cardinality(Producer)

(* A queue begins empty, with some capacity.                               *)
LEMMA FifoInit == Init => Waiting!Init
  <1> SUFFICES ASSUME Init PROVE Waiting!Init
    OBVIOUS
  <1>1. queue = <<>> /\ taken = <<>>
    BY DEF Init, QueueInit, MonitorInit
  <1>2. Capacity \in Nat
    BY QueueAssumption, ProducerAssumption, FS_CardinalityType DEF Capacity
  <1> QED BY <1>1, <1>2 DEF Waiting!Init, Capacity

(* put() puts, take() takes, drain() drains and calls, waits and wakes     *)
(* leave the items alone.                                                  *)
LEMMA FifoQueueStep ==
    ASSUME QueueInv, part = "queue", QueueStep
    PROVE  Waiting!Next \/ UNCHANGED <<Items, taken, Capacity>>
  <1>1. part' = "queue" /\ bounded' = bounded
    BY DEF QueueStep, QueueNext, PutStep, TakeStep, CallPut, PutWaits, Put, CallTake,
       QueueTakeWaits, Take, drain, WakesInQueue, callVars
  <1>2. Items = queue /\ Items' = queue' /\ Capacity' = Capacity
    BY <1>1 DEF Items, Capacity
  <1>3. ASSUME NEW p \in Producer, Put(p) PROVE Waiting!Next
    <2>1. /\ queue' = Append(queue, Passed(p)) /\ taken' = taken
          /\ p \in calling /\ ~(bounded /\ Len(queue) = MaxSize)
      BY <1>3 DEF Put, Awake, full
    <2>2. /\ Passed(p) \in Item
          /\ Len(queue) < PerProducer * Cardinality(Producer)
      BY <2>1, RoomForNew DEF QueueInv, QueueNotificationsSuffice
    <2>3. queue \in Seq(Item)
      BY DEF QueueInv, QueueNotificationsSuffice, QueueTypeOK
    <2>4. Len(queue) < Capacity
      <3>1. CASE bounded
        <4>1. Len(queue) <= MaxSize /\ Len(queue) # MaxSize
          BY <2>1, <3>1 DEF QueueInv, ItemsFresh
        <4>2. MaxSize \in Nat /\ Len(queue) \in Nat
          BY <2>3, QueueAssumption
        <4>3. Len(queue) < MaxSize
          BY <4>1, <4>2
        <4> QED BY <3>1, <4>3 DEF Capacity
      <3>2. CASE ~bounded
        BY <2>2, <3>2 DEF Capacity
      <3> QED BY <3>1, <3>2
    <2>5. Waiting!Put(Passed(p))
      BY <1>2, <2>1, <2>4 DEF Waiting!Put, Items, Capacity
    <2> QED BY <2>2, <2>5 DEF Waiting!Next
  <1>4. ASSUME NEW c \in Consumer, Take(c) PROVE Waiting!Next
    <2>1. queue # <<>> /\ queue' = Tail(queue) /\ taken' = Append(taken, Head(queue))
      BY <1>4 DEF Take
    <2>2. Waiting!Take
      BY <1>2, <2>1 DEF Waiting!Take, Items, Capacity
    <2> QED BY <2>2 DEF Waiting!Next
  <1>5. CASE drain
    <2>1. queue' = <<>> /\ taken' = taken \o queue
      BY <1>5 DEF drain
    <2>2. Waiting!Drain
      BY <1>2, <2>1 DEF Waiting!Drain, Items, Capacity
    <2> QED BY <2>2 DEF Waiting!Next
  <1>6. ASSUME UNCHANGED <<queue, taken>> PROVE UNCHANGED <<Items, taken, Capacity>>
    BY <1>2, <1>6
  <1>7. ASSUME NEW p \in Producer, CallPut(p) \/ PutWaits(p)
        PROVE  UNCHANGED <<queue, taken>>
    BY <1>7 DEF CallPut, PutWaits, monitor
  <1>8. ASSUME NEW c \in Consumer, CallTake(c) \/ QueueTakeWaits(c)
        PROVE  UNCHANGED <<queue, taken>>
    BY <1>8 DEF CallTake, QueueTakeWaits, monitor
  <1>9. ASSUME NEW t \in Producer \cup Consumer, WakesInQueue(t)
        PROVE  UNCHANGED <<queue, taken>>
    BY <1>9 DEF WakesInQueue, Wakes, callVars
  <1>10. QueueNext
    BY DEF QueueStep
  <1> QED
    BY <1>3, <1>4, <1>5, <1>6, <1>7, <1>8, <1>9, <1>10 DEF QueueNext, PutStep, TakeStep

(* The steps of the other parts leave the queue's variables alone.         *)
LEMMA FifoStep == IInv /\ [Next]_vars => Waiting!Next \/ UNCHANGED <<Items, taken, Capacity>>
  <1> SUFFICES ASSUME IInv, [Next]_vars
               PROVE  Waiting!Next \/ UNCHANGED <<Items, taken, Capacity>>
    OBVIOUS
  <1>1. CASE QueueStep
    <2>1. part = "queue"
      BY <1>1 DEF QueueStep
    <2> QED BY <1>1, <2>1, FifoQueueStep DEF IInv
  <1>2. CASE PoolStep
    <2>1. part = "pool" /\ part' = "pool" /\ UNCHANGED <<taken, bounded>>
      BY <1>2 DEF PoolStep, callVars
    <2> QED BY <2>1 DEF Items, Capacity
  <1>3. CASE LogStep
    <2>1. part' = part /\ UNCHANGED <<queue, taken, bounded>>
      BY <1>3 DEF LogStep, queueVars, monitor, callVars
    <2> QED BY <2>1 DEF Items, Capacity
  <1>4. CASE ThreadStepOf
    <2>1. part' = part /\ UNCHANGED <<queue, taken, bounded>>
      BY <1>4 DEF ThreadStepOf, queueVars, monitor, callVars
    <2> QED BY <2>1 DEF Items, Capacity
  <1>5. CASE UNCHANGED vars
    <2>1. part' = part /\ UNCHANGED <<queue, taken, bounded>>
      BY <1>5 DEF vars, queueVars, monitor, callVars
    <2> QED BY <2>1 DEF Items, Capacity
  <1> QED BY <1>1, <1>2, <1>3, <1>4, <1>5 DEF Next

(* BlockingQueue and BoundedBlockingQueue are first-in first-out buffers   *)
(* of their capacity: what put() adds leaves once and in order, with one   *)
(* take() or with a drain().                                               *)
THEOREM QueuesAreFifo == Spec => ImplementsFifo
  <1>1. Init => Waiting!Init
    BY FifoInit
  <1>2. IInv /\ [Next]_vars
            => [Waiting!Next]_<<IF part = "queue" THEN queue ELSE <<>>, taken,
                   IF bounded THEN MaxSize ELSE PerProducer * Cardinality(Producer)>>
    BY FifoStep DEF Items, Capacity
  <1> QED
    BY <1>1, <1>2, InductiveInvariant, PTL DEF Spec, ImplementsFifo, Waiting!Spec

----------------------------------------------------------------------------
(* What the logging thread relies on.                                      *)
RealLine == [id : Nat \ {0}, len : Nat]
AnyLine  == [id : Nat, len : Nat]
BufferOf == [lines : Seq(RealLine)]
ChunkOf  == [lines : Seq(AnyLine), at : Nat]
FileOf   == [name : Nat, chunks : Seq(ChunkOf)]

LogPlaces == {"new", "start", "loop", "lock", "waited", "check", "write", "last", "ended"}

LoggingTypes ==
    /\ logPc \in LogPlaces /\ appended \in Nat
    /\ current \in BufferOf /\ buffers \in Seq(BufferOf)
    /\ toWrite \in Seq(BufferOf) /\ done \in 0 .. Len(toWrite)
    /\ {next, spare1, spare2} \subseteq {Empty, NoBuffer}

(* Where the buffers are.                                                  *)
BufferPlaces ==
    /\ owner = "new" => logPc = "new"
    /\ logPc \notin {"new", "start"} => files # <<>>
    /\ logPc \notin {"check", "write"} => toWrite = <<>>
    /\ logPc \notin {"new", "start", "check", "write"} => spare1 = Empty /\ spare2 = Empty
    /\ logPc = "check" => done = 0
    /\ logPc \in {"check", "write"} => Len(toWrite) >= IF spare2 = NoBuffer THEN 2 ELSE 1
    /\ next = NoBuffer => buffers # <<>>

(* The files and what is in them follow the clock, and the last one is of  *)
(* the last roll.                                                          *)
FilesInTime(F, roll, time) ==
    /\ F \in Seq(FileOf)
    /\ roll \in Nat /\ time \in Nat /\ roll <= time /\ time > 0
    /\ IF F = <<>> THEN roll = 0 ELSE F[Len(F)].name = roll
    /\ \A f \in DOMAIN F : F[f].name > 0 /\ F[f].name <= roll
    /\ \A f, g \in DOMAIN F : f < g => F[f].name < F[g].name
    /\ \A f \in DOMAIN F : \A c \in DOMAIN F[f].chunks :
          /\ F[f].name <= F[f].chunks[c].at /\ F[f].chunks[c].at <= time
          /\ \A g \in DOMAIN F : f < g => F[f].chunks[c].at <= F[g].name

(* The chunks of a file that are of a later period than the file: as many  *)
(* as count_ says, n, may have got into the last one.                      *)
LateChunks(file) ==
    {c \in DOMAIN file.chunks : PeriodOf(file.chunks[c].at) # PeriodOf(file.name)}

SomeLate(F) == \A f \in DOMAIN F : Cardinality(LateChunks(F[f])) <= CheckEveryN
FewLate(F, n) ==
    /\ n \in Nat /\ n < CheckEveryN
    /\ SomeLate(F)
    /\ F # <<>> => Cardinality(LateChunks(F[Len(F)])) <= n

FilesKnown ==
    /\ FilesInTime(files, lastRoll, now)
    /\ FewLate(files, count)
    /\ {writtenBytes, lastFlush, unflushed} \subseteq Nat
    /\ startOfPeriod = PeriodOf(lastRoll)

LogInv == LoggingTypes /\ BufferPlaces /\ FilesKnown /\ LinesAccounted

----------------------------------------------------------------------------
(* The files.                                                              *)

(* Every set of numbers has a least.                                       *)
LEMMA LeastOf ==
    ASSUME NEW T, T \subseteq Nat, T # {}
    PROVE  \E x \in T : \A y \in T : ~(y < x)
  <1>1. PICK x \in T : \A y \in T : <<y, x>> \notin OpToRel(<, Nat)
    BY NatLessThanWellFounded, WFMin
  <1>2. \A n, m \in Nat : n < m => <<n, m>> \in OpToRel(<, Nat)
    BY DEF OpToRel
  <1> QED BY <1>1, <1>2

(* A chunk has a number of bytes.                                          *)
LEMMA BytesAreNat ==
    ASSUME NEW chunk \in Seq(AnyLine)
    PROVE  Bytes(chunk) \in Nat
  <1> DEFINE n == Len(chunk)
             Sums(f, k) == /\ f[0] = 0
                           /\ \A i \in 1 .. k : f[i] = f[i - 1] + chunk[i].len
             sum[i \in 0 .. Len(chunk)] == IF i = 0 THEN 0 ELSE sum[i - 1] + chunk[i].len
  <1>1. n \in Nat
    OBVIOUS
  <1>2. ASSUME NEW i \in 1 .. n PROVE chunk[i].len \in Nat
    <2>1. chunk[i] \in AnyLine
      BY <1>1
    <2> QED BY <2>1 DEF AnyLine
  <1>3. \A k \in 0 .. n : \E f \in [0 .. k -> Nat] : Sums(f, k)
    <2> DEFINE Bad == {k \in 0 .. n : \A f \in [0 .. k -> Nat] : ~Sums(f, k)}
    <2> SUFFICES ASSUME Bad # {} PROVE FALSE
      OBVIOUS
    <2>0. Bad \subseteq Nat
      BY <1>1
    <2>1. PICK k \in Bad : \A l \in Bad : ~(l < k)
      <3> HIDE DEF Bad
      <3> QED BY <2>0, LeastOf
    <2>2. k \in 0 .. n /\ k \in Nat
      BY <1>1
    <2>3. CASE k = 0
      <3>1. [i \in 0 .. 0 |-> 0] \in [0 .. k -> Nat] /\ Sums([i \in 0 .. 0 |-> 0], 0)
        BY <2>3
      <3> QED BY <2>1, <2>3, <3>1
    <2>4. CASE k # 0
      <3>1. k - 1 \in 0 .. n /\ k - 1 < k /\ k \in 1 .. n
        BY <1>1, <2>2, <2>4
      <3>2. PICK f \in [0 .. k - 1 -> Nat] : Sums(f, k - 1)
        BY <2>1, <3>1
      <3> DEFINE g == [i \in 0 .. k |-> IF i = k THEN f[k - 1] + chunk[k].len ELSE f[i]]
      <3>3. f[k - 1] \in Nat /\ chunk[k].len \in Nat
        BY <1>2, <2>2, <3>1
      <3>4. g \in [0 .. k -> Nat]
        BY <2>2, <3>3
      <3>5. Sums(g, k)
        BY <2>2, <2>4, <3>2
      <3> QED BY <2>1, <3>4, <3>5
    <2> QED BY <2>3, <2>4
  <1>4. PICK f \in [0 .. n -> Nat] : Sums(f, n)
    <2> HIDE DEF Sums
    <2>1. n \in 0 .. n
      BY <1>1
    <2> QED BY <1>3, <2>1
  <1>5. f = [i \in 0 .. n |-> IF i = 0 THEN 0 ELSE f[i - 1] + chunk[i].len]
    BY <1>1, <1>4
  <1>6. sum = [i \in 0 .. n |-> IF i = 0 THEN 0 ELSE sum[i - 1] + chunk[i].len]
    BY <1>5 DEF sum
  <1>7. Bytes(chunk) = sum[n]
    BY DEF Bytes
  <1> HIDE DEF sum
  <1>8. sum[n] \in Nat
    <2> DEFINE Bad == {k \in 0 .. n : sum[k] \notin Nat}
    <2> SUFFICES ASSUME Bad # {} PROVE FALSE
      BY <1>1
    <2>0. Bad \subseteq Nat
      BY <1>1
    <2>1. PICK k \in Bad : \A l \in Bad : ~(l < k)
      <3> HIDE DEF Bad
      <3> QED BY <2>0, LeastOf
    <2>2. k \in 0 .. n /\ k \in Nat /\ sum[k] \notin Nat
      BY <1>1
    <2>3. sum[k] = IF k = 0 THEN 0 ELSE sum[k - 1] + chunk[k].len
      BY <1>6, <2>2
    <2>4. k # 0 /\ k - 1 \in 0 .. n /\ k - 1 < k /\ k \in 1 .. n
      BY <1>1, <2>2, <2>3
    <2>5. sum[k - 1] \in Nat
      BY <2>1, <2>4
    <2> QED BY <1>2, <2>2, <2>3, <2>4, <2>5
  <1> QED BY <1>7, <1>8

(* Periods follow each other.                                              *)
LEMMA PeriodsFollow ==
    ASSUME NEW t \in Nat, NEW u \in Nat, t <= u
    PROVE  PeriodOf(t) \in Nat /\ PeriodOf(t) <= PeriodOf(u)
  <1> DEFINE p == Period
  <1>1. p \in Nat /\ p > 0
    BY LogFileAssumption
  <1> HIDE DEF p
  <1>2. t \div p \in Int /\ u \div p \in Int
    BY <1>1
  <1>3. t \div p >= 0 /\ t \div p <= u \div p
    BY <1>1
  <1> DEFINE a == t \div p
             b == u \div p
  <1>4. a \in Nat /\ b \in Nat /\ a <= b
    BY <1>2, <1>3
  <1> HIDE DEF a, b
  <1>5. a * p \in Nat /\ a * p <= b * p
    BY <1>1, <1>4
  <1> QED BY <1>5 DEF PeriodOf, a, b, p

(* A chunk more in the last file.                                          *)
ChunkPut(F, s, t) == IF s = <<>> THEN F
                ELSE [F EXCEPT ![Len(F)].chunks = Append(@, [lines |-> s, at |-> t])]

IsChunkPut(F, s, t, G, l, m) ==
    /\ G \in Seq(FileOf) /\ G # <<>> /\ Len(G) = l /\ l \in Nat /\ m \in Nat
    /\ DOMAIN F = 1 .. l /\ DOMAIN G = 1 .. l /\ l \in 1 .. l
    /\ \A f \in 1 .. l : G[f].name = F[f].name /\ (f # l => G[f] = F[f])
    /\ DOMAIN F[l].chunks = 1 .. m /\ DOMAIN G[l].chunks = 1 .. m + 1
    /\ \A c \in 1 .. m : c # m + 1 /\ G[l].chunks[c] = F[l].chunks[c]
    /\ G[l].chunks[m + 1] = [lines |-> s, at |-> t]

(* What it is.                                                             *)
LEMMA PutIs ==
    ASSUME NEW F \in Seq(FileOf), F # <<>>, NEW s \in Seq(AnyLine), s # <<>>, NEW t \in Nat,
           NEW G, G = ChunkPut(F, s, t), NEW l, l = Len(F), NEW m, m = Len(F[l].chunks)
    PROVE  IsChunkPut(F, s, t, G, l, m)
  <1> DEFINE x == [lines |-> s, at |-> t]
  <1>1. l \in Nat /\ DOMAIN F = 1 .. l /\ l \in 1 .. l /\ F \in [1 .. l -> FileOf]
    <2>1. l \in Nat /\ F \in [1 .. l -> FileOf] /\ DOMAIN F = 1 .. l
      BY LenProperties
    <2>2. l # 0
      BY EmptySeq
    <2> QED BY <2>1, <2>2
  <1>2. F[l] \in FileOf
    BY <1>1
  <1>3. F[l].chunks \in Seq(ChunkOf) /\ F[l].name \in Nat
    BY <1>2 DEF FileOf
  <1>4. x \in ChunkOf
    BY DEF ChunkOf
  <1>5. m \in Nat /\ DOMAIN F[l].chunks = 1 .. m
    BY <1>3, LenProperties
  <1> DEFINE k == Append(F[l].chunks, x)
  <1>6. /\ k \in Seq(ChunkOf) /\ Len(k) = m + 1 /\ DOMAIN k = 1 .. m + 1
        /\ \A c \in 1 .. m : k[c] = F[l].chunks[c]
        /\ k[m + 1] = x
    BY <1>3, <1>4, <1>5, AppendProperties, LenProperties
  <1>7. G = [F EXCEPT ![l].chunks = k]
    BY DEF ChunkPut
  <1> HIDE DEF k, x
  <1>8. G = [F EXCEPT ![l] = [F[l] EXCEPT !.chunks = k]]
    BY <1>7
  <1>9. [F[l] EXCEPT !.chunks = k] = [name |-> F[l].name, chunks |-> k]
    <2> DEFINE old == F[l]
    <2>1. old \in FileOf
      BY <1>2
    <2> HIDE DEF old
    <2>2. DOMAIN old = {"name", "chunks"}
      BY <2>1 DEF FileOf
    <2>3. [old EXCEPT !.chunks = k]
            = [f \in {"name", "chunks"} |-> IF f = "chunks" THEN k ELSE old[f]]
      BY <2>2
    <2>4. [old EXCEPT !.chunks = k] = [name |-> old.name, chunks |-> k]
      BY <2>3
    <2> QED BY <2>4 DEF old
  <1>10. [name |-> F[l].name, chunks |-> k] \in FileOf
    BY <1>3, <1>6 DEF FileOf
  <1>11. G \in [1 .. l -> FileOf]
    BY <1>1, <1>8, <1>9, <1>10
  <1>12. G \in Seq(FileOf)
    <2>1. \A S : [1 .. l -> S] \subseteq Seq(S)
      BY <1>1, SeqDef
    <2> QED BY <1>11, <2>1
  <1>13. DOMAIN G = 1 .. l /\ Len(G) = l
    BY <1>1, <1>11, <1>12, LenProperties
  <1>14. G[l] = [name |-> F[l].name, chunks |-> k] /\ \A f \in 1 .. l : f # l => G[f] = F[f]
    BY <1>1, <1>8, <1>9
  <1>15. \A f \in 1 .. l : G[f].name = F[f].name
    BY <1>14
  <1>16. G # <<>>
    BY <1>1, <1>13
  <1>17. G[l].chunks = k
    BY <1>14
  <1>18. \A c \in 1 .. m : c # m + 1
    BY <1>5
  <1> QED
    BY <1>1, <1>5, <1>6, <1>12, <1>13, <1>14, <1>15, <1>16, <1>17, <1>18 DEF x, IsChunkPut

(* A chunk more keeps the files in time, and is a late one at most when    *)
(* the period is another than that of the last roll.                       *)
LEMMA PutInTime ==
    ASSUME NEW F, NEW roll, NEW time, NEW n, FilesInTime(F, roll, time), FewLate(F, n),
           F # <<>>, NEW s \in Seq(AnyLine), NEW G, G = ChunkPut(F, s, time)
    PROVE  /\ FilesInTime(G, roll, time) /\ G # <<>>
           /\ SomeLate(G)
           /\ Cardinality(LateChunks(G[Len(G)])) \in Nat
           /\ Cardinality(LateChunks(G[Len(G)])) <= n + 1
           /\ PeriodOf(time) = PeriodOf(roll) => LateChunks(G[Len(G)]) = {}
  <1> DEFINE l == Len(F)
             m == Len(F[l].chunks)
             a == F[l].chunks
             b == G[l].chunks
             new == [lines |-> s, at |-> time]
  <1>1. /\ F \in Seq(FileOf) /\ roll \in Nat /\ time \in Nat /\ roll <= time /\ time > 0
        /\ F[l].name = roll
        /\ \A f \in DOMAIN F : F[f].name > 0 /\ F[f].name <= roll
        /\ \A f, g \in DOMAIN F : f < g => F[f].name < F[g].name
        /\ \A f \in DOMAIN F : \A c \in DOMAIN F[f].chunks :
              F[f].name <= F[f].chunks[c].at /\ F[f].chunks[c].at <= time
        /\ \A f \in DOMAIN F : \A c \in DOMAIN F[f].chunks :
              \A g \in DOMAIN F : f < g => F[f].chunks[c].at <= F[g].name
    BY DEF FilesInTime
  <1>2. l \in Nat /\ DOMAIN F = 1 .. l /\ l \in 1 .. l
    <2>1. l \in Nat /\ DOMAIN F = 1 .. l
      BY <1>1, LenProperties
    <2>2. l # 0
      BY <1>1, EmptySeq
    <2> QED BY <2>1, <2>2
  <1>3. F[l] \in FileOf
    BY <1>1, <1>2, ElementOfSeq
  <1>4. a \in Seq(ChunkOf)
    BY <1>3 DEF FileOf
  <1>5. m \in Nat /\ DOMAIN a = 1 .. m
    BY <1>4, LenProperties
  <1>6. \A c \in 1 .. m : a[c].at \in Nat /\ roll <= a[c].at /\ a[c].at <= time
    <2>1. \A c \in 1 .. m : a[c] \in ChunkOf
      BY <1>4, <1>5, ElementOfSeq
    <2>2. \A c \in 1 .. m : a[c].at \in Nat
      BY <2>1 DEF ChunkOf
    <2> QED BY <1>1, <1>2, <1>5, <2>2
  <1> HIDE DEF l, m
  <1>7. PeriodOf(time) = PeriodOf(roll) =>
            \A c \in 1 .. m : PeriodOf(a[c].at) = PeriodOf(roll)
    <2> SUFFICES ASSUME PeriodOf(time) = PeriodOf(roll), NEW c \in 1 .. m
                 PROVE  PeriodOf(a[c].at) = PeriodOf(roll)
      OBVIOUS
    <2> DEFINE u == a[c].at
    <2>1. u \in Nat /\ roll <= u /\ u <= time
      BY <1>6
    <2> HIDE DEF u
    <2>2. PeriodOf(u) \in Nat /\ PeriodOf(roll) \in Nat
      BY <1>1, <2>1, PeriodsFollow
    <2>3. PeriodOf(roll) <= PeriodOf(u) /\ PeriodOf(u) <= PeriodOf(time)
      BY <1>1, <2>1, PeriodsFollow
    <2>4. PeriodOf(u) = PeriodOf(roll)
      BY <2>2, <2>3
    <2> QED BY <2>4 DEF u
  <1>8. /\ n \in Nat /\ n < CheckEveryN /\ CheckEveryN \in Nat
        /\ \A f \in 1 .. l : Cardinality(LateChunks(F[f])) <= CheckEveryN
        /\ Cardinality(LateChunks(F[l])) <= n
    BY <1>2, LogFileAssumption DEF FewLate, SomeLate, l
  <1>9. IsFiniteSet(LateChunks(F[l])) /\ LateChunks(F[l]) \subseteq 1 .. m
    <2>1. LateChunks(F[l]) \subseteq 1 .. m
      BY <1>5 DEF LateChunks
    <2> QED BY <1>5, <2>1, FS_Interval, FS_Subset
  <1>10. Cardinality(LateChunks(F[l])) \in Nat
    BY <1>9, FS_CardinalityType
  <1>11. CASE s = <<>>
    <2>1. G = F
      BY <1>11 DEF ChunkPut
    <2>2. PeriodOf(time) = PeriodOf(roll) => LateChunks(F[l]) = {}
      BY <1>1, <1>5, <1>7 DEF LateChunks
    <2>3. Len(G) = l
      BY <2>1 DEF l
    <2>4. Cardinality(LateChunks(F[l])) <= n + 1
      BY <1>8, <1>10
    <2>5. SomeLate(F)
      BY DEF FewLate
    <2> QED BY <1>10, <2>1, <2>2, <2>3, <2>4, <2>5
  <1>12. CASE s # <<>>
    <2>1. IsChunkPut(F, s, time, G, l, m)
      BY <1>1, <1>12, PutIs DEF l, m
    <2>2. /\ G \in Seq(FileOf) /\ G # <<>> /\ Len(G) = l
          /\ DOMAIN F = 1 .. l /\ DOMAIN G = 1 .. l
          /\ \A f \in 1 .. l : G[f].name = F[f].name /\ (f # l => G[f] = F[f])
          /\ DOMAIN b = 1 .. m + 1
          /\ \A c \in 1 .. m : c # m + 1 /\ b[c] = a[c]
          /\ b[m + 1] = new
      BY <2>1 DEF IsChunkPut
    <2>3. \A c \in 1 .. m + 1 : c \in 1 .. m \/ c = m + 1
      BY <1>5
    <2>4. \A c \in DOMAIN b : roll <= b[c].at /\ b[c].at <= time
      <3> SUFFICES ASSUME NEW c \in 1 .. m + 1 PROVE roll <= b[c].at /\ b[c].at <= time
        BY <2>2
      <3>1. CASE c \in 1 .. m
        BY <1>6, <2>2, <3>1
      <3>2. CASE c = m + 1
        <4>1. b[c].at = time
          BY <2>2, <3>2
        <4> QED BY <1>1, <4>1
      <3> QED BY <2>3, <3>1, <3>2
    <2>5. \A f \in DOMAIN G : \A c \in DOMAIN G[f].chunks :
              G[f].name <= G[f].chunks[c].at /\ G[f].chunks[c].at <= time
      <3> SUFFICES ASSUME NEW f \in 1 .. l, NEW c \in DOMAIN G[f].chunks
                   PROVE  G[f].name <= G[f].chunks[c].at /\ G[f].chunks[c].at <= time
        BY <2>2
      <3>1. CASE f = l
        BY <1>1, <1>2, <2>2, <2>4, <3>1
      <3>2. CASE f # l
        BY <1>1, <2>2, <3>2
      <3> QED BY <3>1, <3>2
    <2>6. \A f \in DOMAIN G : \A c \in DOMAIN G[f].chunks :
              \A g \in DOMAIN G : f < g => G[f].chunks[c].at <= G[g].name
      <3> SUFFICES ASSUME NEW f \in 1 .. l, NEW c \in DOMAIN G[f].chunks,
                          NEW g \in 1 .. l, f < g
                   PROVE  G[f].chunks[c].at <= G[g].name
        BY <2>2
      <3>1. f # l
        BY <1>2
      <3> QED BY <1>1, <2>2, <3>1
    <2>7. FilesInTime(G, roll, time)
      <3>1. \A f \in DOMAIN G : G[f].name > 0 /\ G[f].name <= roll
        BY <1>1, <2>2
      <3>2. \A f, g \in DOMAIN G : f < g => G[f].name < G[g].name
        BY <1>1, <2>2
      <3>3. G[Len(G)].name = roll
        BY <1>1, <1>2, <2>2
      <3> QED BY <1>1, <2>2, <2>5, <2>6, <3>1, <3>2, <3>3 DEF FilesInTime
    <2>8. G[l].name = roll
      BY <1>1, <1>2, <2>2
    <2>9. LateChunks(G[l]) \subseteq LateChunks(F[l]) \cup {m + 1}
      <3> SUFFICES ASSUME NEW c \in LateChunks(G[l]), c # m + 1 PROVE c \in LateChunks(F[l])
        OBVIOUS
      <3>1. c \in 1 .. m + 1 /\ PeriodOf(b[c].at) # PeriodOf(roll)
        BY <2>2, <2>8 DEF LateChunks
      <3>2. c \in 1 .. m /\ PeriodOf(a[c].at) # PeriodOf(roll)
        BY <2>2, <2>3, <3>1
      <3> QED BY <1>1, <1>5, <3>2 DEF LateChunks
    <2>10. PeriodOf(time) = PeriodOf(roll) => LateChunks(G[l]) = {}
      <3> SUFFICES ASSUME PeriodOf(time) = PeriodOf(roll), NEW c \in LateChunks(G[l])
                   PROVE  FALSE
        OBVIOUS
      <3>1. c \in 1 .. m + 1 /\ PeriodOf(b[c].at) # PeriodOf(roll)
        BY <2>2, <2>8 DEF LateChunks
      <3>2. CASE c \in 1 .. m
        BY <1>7, <2>2, <3>1, <3>2
      <3>3. CASE c = m + 1
        <4>1. b[c].at = time
          BY <2>2, <3>3
        <4> QED BY <3>1, <4>1
      <3> QED BY <2>3, <3>1, <3>2, <3>3
    <2> DEFINE L == LateChunks(F[l])
               K == LateChunks(G[l])
    <2>11. Cardinality(K) \in Nat /\ Cardinality(K) <= n + 1
      <3> HIDE DEF L, K
      <3>1. IsFiniteSet(L) /\ Cardinality(L) \in Nat /\ Cardinality(L) <= n
        BY <1>8, <1>9, <1>10 DEF L
      <3>2. IsFiniteSet(L \cup {m + 1})
        BY <3>1, FS_AddElement
      <3>3. Cardinality(L \cup {m + 1}) <= Cardinality(L) + 1
        <4>1. \/ Cardinality(L \cup {m + 1}) = Cardinality(L)
              \/ Cardinality(L \cup {m + 1}) = Cardinality(L) + 1
          BY <3>1, FS_AddElement, Zenon
        <4> QED BY <3>1, <4>1
      <3>4. K \subseteq L \cup {m + 1}
        BY <2>9 DEF L, K
      <3>5. IsFiniteSet(K) /\ Cardinality(K) <= Cardinality(L \cup {m + 1})
        BY <3>2, <3>4, FS_Subset
      <3>6. Cardinality(K) \in Nat /\ Cardinality(L \cup {m + 1}) \in Nat
        BY <3>2, <3>5, FS_CardinalityType
      <3> QED BY <1>8, <3>1, <3>3, <3>5, <3>6
    <2>12. SomeLate(G)
      <3> SUFFICES ASSUME NEW f \in 1 .. l PROVE Cardinality(LateChunks(G[f])) <= CheckEveryN
        BY <2>2 DEF SomeLate
      <3>1. CASE f = l
        <4>1. Cardinality(K) <= CheckEveryN
          BY <1>8, <2>11
        <4> QED BY <3>1, <4>1
      <3>2. CASE f # l
        BY <1>8, <2>2, <3>2
      <3> QED BY <3>1, <3>2
    <2> QED BY <2>2, <2>7, <2>10, <2>11, <2>12
  <1> QED BY <1>11, <1>12

(* A new file is of the period of its name.                                *)
LEMMA RollInTime ==
    ASSUME NEW F, NEW roll, NEW time, FilesInTime(F, roll, time), SomeLate(F), roll < time,
           NEW G, G = Append(F, [name |-> time, chunks |-> <<>>]),
           NEW n \in Nat, n < CheckEveryN
    PROVE  FilesInTime(G, time, time) /\ G # <<>> /\ FewLate(G, n)
  <1> DEFINE l == Len(F)
             x == [name |-> time, chunks |-> <<>>]
  <1>1. /\ F \in Seq(FileOf) /\ roll \in Nat /\ time \in Nat /\ roll <= time /\ time > 0
        /\ \A f \in DOMAIN F : F[f].name > 0 /\ F[f].name <= roll
        /\ \A f, g \in DOMAIN F : f < g => F[f].name < F[g].name
        /\ \A f \in DOMAIN F : \A c \in DOMAIN F[f].chunks :
              F[f].name <= F[f].chunks[c].at /\ F[f].chunks[c].at <= time
        /\ \A f \in DOMAIN F : \A c \in DOMAIN F[f].chunks :
              \A g \in DOMAIN F : f < g => F[f].chunks[c].at <= F[g].name
    BY DEF FilesInTime
  <1>2. x \in FileOf /\ DOMAIN x.chunks = {} /\ x.name = time
    BY <1>1 DEF FileOf
  <1> HIDE DEF x
  <1>3. /\ G \in Seq(FileOf) /\ Len(G) = l + 1 /\ DOMAIN G = 1 .. l + 1
        /\ l \in Nat /\ DOMAIN F = 1 .. l
        /\ \A f \in 1 .. l : G[f] = F[f]
        /\ G[l + 1] = x /\ G # <<>>
    <2>1. l \in Nat /\ DOMAIN F = 1 .. l
      BY <1>1, LenProperties
    <2>2. G = Append(F, x)
      BY DEF x
    <2>3. G \in Seq(FileOf) /\ Len(G) = l + 1 /\ G[l + 1] = x /\ \A f \in 1 .. l : G[f] = F[f]
      BY <1>1, <1>2, <2>2, AppendProperties
    <2>4. DOMAIN G = 1 .. l + 1
      BY <2>3, LenProperties
    <2>5. G # <<>>
      BY <2>1, <2>3, <2>4
    <2> QED BY <2>1, <2>3, <2>4, <2>5
  <1> HIDE DEF l
  <1>4. \A f \in 1 .. l + 1 : (f \in 1 .. l /\ f # l + 1) \/ f = l + 1
    BY <1>3
  <1>5. \A f \in DOMAIN G : G[f].name > 0 /\ G[f].name <= time
    <2> SUFFICES ASSUME NEW f \in 1 .. l + 1 PROVE G[f].name > 0 /\ G[f].name <= time
      BY <1>3
    <2>1. CASE f \in 1 .. l
      <3> DEFINE k == F[f].name
      <3>1. G[f].name = k
        BY <1>3, <2>1
      <3>2. k > 0 /\ k <= roll
        BY <1>1, <1>3, <2>1
      <3>3. k \in Nat
        <4>1. F[f] \in FileOf
          BY <1>1, <1>3, <2>1, ElementOfSeq
        <4> QED BY <4>1 DEF FileOf
      <3> HIDE DEF k
      <3>4. k > 0 /\ k <= time
        BY <1>1, <3>2, <3>3
      <3> QED BY <3>1, <3>4
    <2>2. CASE f = l + 1
      BY <1>1, <1>2, <1>3, <2>2
    <2> QED BY <1>4, <2>1, <2>2
  <1>6. \A f \in 1 .. l : F[f].name < time
    <2> TAKE f \in 1 .. l
    <2> DEFINE k == F[f].name
    <2>1. k <= roll
      BY <1>1, <1>3
    <2>2. k \in Nat
      <3>1. F[f] \in FileOf
        BY <1>1, <1>3, ElementOfSeq
      <3> QED BY <3>1 DEF FileOf
    <2> HIDE DEF k
    <2>3. k < time
      BY <1>1, <2>1, <2>2
    <2> QED BY <2>3 DEF k
  <1>7. \A f, g \in DOMAIN G : f < g => G[f].name < G[g].name
    <2> SUFFICES ASSUME NEW f \in 1 .. l + 1, NEW g \in 1 .. l + 1, f < g
                 PROVE  G[f].name < G[g].name
      BY <1>3
    <2>1. f \in 1 .. l
      BY <1>3
    <2>2. CASE g \in 1 .. l
      BY <1>1, <1>3, <2>1, <2>2
    <2>3. CASE g = l + 1
      BY <1>2, <1>3, <1>6, <2>1, <2>3
    <2> QED BY <1>4, <2>2, <2>3
  <1>8. \A f \in DOMAIN G : \A c \in DOMAIN G[f].chunks :
            G[f].name <= G[f].chunks[c].at /\ G[f].chunks[c].at <= time
    <2> SUFFICES ASSUME NEW f \in 1 .. l + 1, NEW c \in DOMAIN G[f].chunks
                 PROVE  G[f].name <= G[f].chunks[c].at /\ G[f].chunks[c].at <= time
      BY <1>3
    <2>1. f \in 1 .. l
      BY <1>2, <1>3, <1>4
    <2> QED BY <1>1, <1>3, <2>1
  <1>9. \A f \in DOMAIN G : \A c \in DOMAIN G[f].chunks :
            \A g \in DOMAIN G : f < g => G[f].chunks[c].at <= G[g].name
    <2> SUFFICES ASSUME NEW f \in 1 .. l + 1, NEW c \in DOMAIN G[f].chunks,
                        NEW g \in 1 .. l + 1, f < g
                 PROVE  G[f].chunks[c].at <= G[g].name
      BY <1>3
    <2>1. f \in 1 .. l
      BY <1>2, <1>3, <1>4
    <2>2. CASE g \in 1 .. l
      BY <1>1, <1>3, <2>1, <2>2
    <2>3. CASE g = l + 1
      BY <1>1, <1>2, <1>3, <2>1, <2>3
    <2> QED BY <1>4, <2>2, <2>3
  <1>10. FilesInTime(G, time, time)
    <2>1. G[Len(G)].name = time
      BY <1>2, <1>3
    <2> QED BY <1>1, <1>3, <1>5, <1>7, <1>8, <1>9, <2>1 DEF FilesInTime
  <1>11. LateChunks(x) = {} /\ Cardinality(LateChunks(x)) = 0
    <2>1. LateChunks(x) = {}
      BY <1>2 DEF LateChunks
    <2> QED BY <2>1, FS_EmptySet
  <1>12. SomeLate(G)
    <2> SUFFICES ASSUME NEW f \in 1 .. l + 1 PROVE Cardinality(LateChunks(G[f])) <= CheckEveryN
      BY <1>3 DEF SomeLate
    <2>1. CASE f \in 1 .. l
      BY <1>3, <2>1 DEF SomeLate
    <2>2. CASE f = l + 1
      <3>1. Cardinality(LateChunks(G[f])) = 0
        BY <1>3, <1>11, <2>2
      <3>2. 0 <= CheckEveryN
        BY LogFileAssumption
      <3> QED BY <3>1, <3>2
    <2> QED BY <1>4, <2>1, <2>2
  <1>13. Cardinality(LateChunks(G[Len(G)])) <= n
    <2>1. Cardinality(LateChunks(G[Len(G)])) = 0
      BY <1>3, <1>11
    <2> QED BY <2>1
  <1> QED BY <1>3, <1>10, <1>12, <1>13 DEF FewLate

(* Time goes on.                                                           *)
LEMMA LaterInTime ==
    ASSUME NEW F, NEW roll, NEW time, FilesInTime(F, roll, time)
    PROVE  FilesInTime(F, roll, time + 1)
  <1>1. \A f \in DOMAIN F : \A c \in DOMAIN F[f].chunks : F[f].chunks[c].at \in Nat
    <2> SUFFICES ASSUME NEW f \in DOMAIN F, NEW c \in DOMAIN F[f].chunks
                 PROVE  F[f].chunks[c].at \in Nat
      OBVIOUS
    <2>1. F \in Seq(FileOf)
      BY DEF FilesInTime
    <2>2. F[f] \in FileOf
      BY <2>1, LenProperties, ElementOfSeq
    <2> DEFINE a == F[f].chunks
    <2>3. a \in Seq(ChunkOf)
      BY <2>2 DEF FileOf
    <2>4. a[c] \in ChunkOf
      BY <2>3, LenProperties, ElementOfSeq
    <2> QED BY <2>4 DEF ChunkOf
  <1>2. \A f \in DOMAIN F : \A c \in DOMAIN F[f].chunks : F[f].chunks[c].at <= time + 1
    BY <1>1 DEF FilesInTime
  <1>3. time + 1 \in Nat /\ roll <= time + 1 /\ time + 1 > 0
    BY DEF FilesInTime
  <1> QED BY <1>2, <1>3 DEF FilesInTime

----------------------------------------------------------------------------
(* append_unlocked(): the chunk is put, and the file is rolled then or not.*)
LEMMA PutOrRolled ==
    ASSUME FilesKnown, files # <<>>, NEW s \in Seq(AnyLine), NEW counted \in Nat,
           AppendUnlocked(s, counted), now' = now
    PROVE  /\ FilesKnown' /\ files' # <<>>
           /\ files' \in {ChunkPut(files, s, now), Append(ChunkPut(files, s, now), NewFile)}
  <1> DEFINE G == ChunkPut(files, s, now)
             bytes == writtenBytes + counted
             due == count + 1 >= CheckEveryN
  <1>1. /\ FilesInTime(files, lastRoll, now) /\ FewLate(files, count)
        /\ writtenBytes \in Nat /\ lastFlush \in Nat /\ unflushed \in Nat
        /\ startOfPeriod = PeriodOf(lastRoll)
    BY DEF FilesKnown
  <1>2. /\ lastRoll \in Nat /\ now \in Nat /\ lastRoll <= now
        /\ count \in Nat /\ count < CheckEveryN /\ CheckEveryN \in Nat \ {0}
    BY <1>1, LogFileAssumption DEF FilesInTime, FewLate
  <1>3. PutChunk(s) = G
    BY DEF PutChunk, ChunkPut
  <1>4. /\ FilesInTime(G, lastRoll, now) /\ G # <<>> /\ SomeLate(G)
        /\ Cardinality(LateChunks(G[Len(G)])) \in Nat
        /\ Cardinality(LateChunks(G[Len(G)])) <= count + 1
        /\ PeriodOf(now) = PeriodOf(lastRoll) => LateChunks(G[Len(G)]) = {}
    BY <1>1, PutInTime
  <1>5. bytes \in Nat /\ unflushed + 1 \in Nat
    BY <1>1
  <1>6. \/ bytes > RollSize /\ rollFile(G, bytes, unflushed + 1) /\ count' = count
        \/ /\ due /\ NewPeriod /\ count' = 0
           /\ rollFile(G, bytes, unflushed + 1)
        \/ /\ IF due THEN ~NewPeriod /\ count' = 0 ELSE count' = count + 1
           /\ files' = G /\ writtenBytes' = bytes
           /\ startOfPeriod' = startOfPeriod /\ lastRoll' = lastRoll
           /\ \/ lastFlush' = now /\ unflushed' = 0
              \/ lastFlush' = lastFlush /\ unflushed' = unflushed + 1
    BY <1>3 DEF AppendUnlocked
  <1> HIDE DEF G, bytes, due
  <1>7. ASSUME PeriodOf(now) = PeriodOf(lastRoll), NEW n \in Nat, n < CheckEveryN
        PROVE  FewLate(G, n)
    <2>1. Cardinality(LateChunks(G[Len(G)])) = 0
      BY <1>4, <1>7, FS_EmptySet
    <2>2. Cardinality(LateChunks(G[Len(G)])) <= n
      BY <1>7, <2>1
    <2> QED BY <1>4, <1>7, <2>2 DEF FewLate
  <1>8. ASSUME NEW n \in Nat, n < CheckEveryN, rollFile(G, bytes, unflushed + 1), count' = n,
               MayRoll \/ PeriodOf(now) = PeriodOf(lastRoll)
        PROVE  /\ FilesKnown' /\ files' # <<>>
               /\ files' \in {G, Append(G, NewFile)}
    <2>1. CASE MayRoll
      <3>1. /\ files' = Append(G, NewFile) /\ writtenBytes' = 0
            /\ lastRoll' = now /\ lastFlush' = now /\ startOfPeriod' = PeriodOf(now)
            /\ unflushed' = 0
        BY <1>8, <2>1 DEF rollFile
      <3>2. lastRoll < now
        BY <1>2, <2>1 DEF MayRoll
      <3>3. files' = Append(G, [name |-> now, chunks |-> <<>>])
        BY <3>1 DEF NewFile
      <3>4. FilesInTime(files', now, now) /\ files' # <<>> /\ FewLate(files', n)
        BY <1>4, <1>8, <3>2, <3>3, RollInTime
      <3>5. {writtenBytes, lastFlush, unflushed}' \subseteq Nat
        BY <1>2, <3>1
      <3>6. FilesKnown'
        BY <1>8, <3>1, <3>4, <3>5 DEF FilesKnown
      <3> QED BY <3>1, <3>4, <3>6
    <2>2. CASE ~MayRoll /\ PeriodOf(now) = PeriodOf(lastRoll)
      <3>1. /\ files' = G /\ writtenBytes' = bytes /\ unflushed' = unflushed + 1
            /\ lastRoll' = lastRoll /\ lastFlush' = lastFlush
            /\ startOfPeriod' = startOfPeriod
        BY <1>8, <2>2 DEF rollFile
      <3>2. FewLate(G, n)
        BY <1>7, <1>8, <2>2
      <3>3. {writtenBytes, lastFlush, unflushed}' \subseteq Nat
        BY <1>1, <1>5, <3>1
      <3>4. FilesKnown'
        BY <1>1, <1>4, <1>8, <3>1, <3>2, <3>3 DEF FilesKnown
      <3> QED BY <1>4, <3>1, <3>4
    <2> QED BY <1>8, <2>1, <2>2
  <1>9. MayRoll \/ PeriodOf(now) = PeriodOf(lastRoll)
    <2>1. ~MayRoll => now = lastRoll
      BY <1>2 DEF MayRoll
    <2> QED BY <2>1
  <1>10. CASE bytes > RollSize /\ rollFile(G, bytes, unflushed + 1) /\ count' = count
    BY <1>2, <1>8, <1>9, <1>10 DEF G
  <1>11. CASE /\ due /\ NewPeriod /\ count' = 0
              /\ rollFile(G, bytes, unflushed + 1)
    <2>1. 0 \in Nat /\ 0 < CheckEveryN
      BY <1>2
    <2> QED BY <1>8, <1>9, <1>11, <2>1 DEF G
  <1>12. CASE /\ IF due THEN ~NewPeriod /\ count' = 0 ELSE count' = count + 1
              /\ files' = G /\ writtenBytes' = bytes
              /\ startOfPeriod' = startOfPeriod /\ lastRoll' = lastRoll
              /\ \/ lastFlush' = now /\ unflushed' = 0
                 \/ lastFlush' = lastFlush /\ unflushed' = unflushed + 1
    <2>1. FewLate(G, count')
      <3>1. CASE due
        <4>1. count' = 0 /\ PeriodOf(now) = PeriodOf(lastRoll)
          BY <1>1, <1>12, <3>1 DEF NewPeriod
        <4>2. 0 \in Nat /\ 0 < CheckEveryN
          BY <1>2
        <4> QED BY <1>7, <4>1, <4>2
      <3>2. CASE ~due
        <4>1. count' = count + 1
          BY <1>12, <3>2
        <4>2. count' \in Nat /\ count' < CheckEveryN
          BY <1>2, <3>2, <4>1 DEF due
        <4> QED BY <1>4, <4>1, <4>2 DEF FewLate
      <3> QED BY <3>1, <3>2
    <2>2. {writtenBytes, lastFlush, unflushed}' \subseteq Nat
      <3>1. writtenBytes' \in Nat
        BY <1>5, <1>12
      <3>2. lastFlush' \in Nat /\ unflushed' \in Nat
        BY <1>1, <1>2, <1>5, <1>12
      <3> QED BY <3>1, <3>2
    <2>3. FilesKnown'
      BY <1>1, <1>4, <1>12, <2>1, <2>2 DEF FilesKnown
    <2> QED BY <1>4, <1>12, <2>3 DEF G
  <1> QED BY <1>6, <1>10, <1>11, <1>12

(* The thread's first roll.                                                *)
LEMMA FirstRoll ==
    ASSUME FilesKnown, rollFile(files, writtenBytes, unflushed), now' = now, count' = count
    PROVE  FilesKnown' /\ files' # <<>> /\ files' \in {files, Append(files, NewFile)}
  <1>1. /\ FilesInTime(files, lastRoll, now) /\ FewLate(files, count)
        /\ writtenBytes \in Nat /\ lastFlush \in Nat /\ unflushed \in Nat
        /\ startOfPeriod = PeriodOf(lastRoll)
    BY DEF FilesKnown
  <1>2. lastRoll \in Nat /\ now \in Nat /\ lastRoll <= now /\ now > 0
    BY <1>1 DEF FilesInTime
  <1>3. CASE MayRoll
    <2>1. /\ files' = Append(files, NewFile) /\ writtenBytes' = 0
          /\ lastRoll' = now /\ lastFlush' = now /\ startOfPeriod' = PeriodOf(now)
          /\ unflushed' = 0
      BY <1>3 DEF rollFile
    <2>2. lastRoll < now
      BY <1>2, <1>3 DEF MayRoll
    <2>3. files' = Append(files, [name |-> now, chunks |-> <<>>])
      BY <2>1 DEF NewFile
    <2>4. count \in Nat /\ count < CheckEveryN /\ SomeLate(files)
      BY <1>1 DEF FewLate
    <2>5. FilesInTime(files', now, now) /\ files' # <<>> /\ FewLate(files', count)
      BY <1>1, <2>2, <2>3, <2>4, RollInTime
    <2>6. {writtenBytes, lastFlush, unflushed}' \subseteq Nat
      BY <1>2, <2>1
    <2>7. FilesKnown'
      BY <2>1, <2>5, <2>6 DEF FilesKnown
    <2> QED BY <2>1, <2>5, <2>7
  <1>4. CASE ~MayRoll
    <2>1. /\ files' = files /\ writtenBytes' = writtenBytes /\ unflushed' = unflushed
          /\ lastRoll' = lastRoll /\ lastFlush' = lastFlush
          /\ startOfPeriod' = startOfPeriod
      BY <1>4 DEF rollFile
    <2>2. lastRoll # 0
      BY <1>2, <1>4 DEF MayRoll
    <2>3. files # <<>>
      BY <1>1, <2>2 DEF FilesInTime
    <2>4. FilesKnown'
      BY <1>1, <2>1 DEF FilesKnown
    <2> QED BY <2>1, <2>3, <2>4
  <1> QED BY <1>3, <1>4

----------------------------------------------------------------------------
(* The lines: LinesAccounted of any files F, buffers P, lost lines gone,   *)
(* and number of lines n.                                                  *)
LinesOfFiles(F) ==
    UNION {UNION {LinesIn(F[f].chunks[c]) : c \in DOMAIN F[f].chunks} : f \in DOMAIN F}
LinesOfBuffers(P) == UNION {LinesIn(P[i]) : i \in DOMAIN P}

FilesSorted(F) ==
    \A f, g \in DOMAIN F :
        \A c \in DOMAIN F[f].chunks, d \in DOMAIN F[g].chunks :
            /\ f < g \/ (f = g /\ c < d) => Before(F[f].chunks[c], F[g].chunks[d])
            /\ Rising(F[f].chunks[c].lines)

BuffersSorted(P) ==
    \A i, j \in DOMAIN P :
        /\ i < j => Before(P[i], P[j])
        /\ Rising(P[i].lines)

LinesPlaced(F, P, gone, n) ==
    /\ FilesSorted(F)
    /\ BuffersSorted(P)
    /\ \A x \in LinesOfFiles(F), y \in LinesOfBuffers(P) : x < y
    /\ (LinesOfFiles(F) \cup LinesOfBuffers(P)) \cap gone = {}
    /\ LinesOfFiles(F) \cup LinesOfBuffers(P) \cup gone = 1 .. n

(* A line is in some chunk of some file.                                   *)
LEMMA InSomeFile ==
    ASSUME NEW F, NEW x
    PROVE  x \in LinesOfFiles(F) <=>
             \E f \in DOMAIN F : \E c \in DOMAIN F[f].chunks : x \in LinesIn(F[f].chunks[c])
  BY DEF LinesOfFiles

(* A line is in some buffer.                                               *)
LEMMA InSomeBuffer ==
    ASSUME NEW P, NEW x
    PROVE  x \in LinesOfBuffers(P) <=> \E i \in DOMAIN P : x \in LinesIn(P[i])
  BY DEF LinesOfBuffers

(* A chunk that comes after all lines of the files keeps them sorted.      *)
LEMMA PutSorted ==
    ASSUME NEW F \in Seq(FileOf), F # <<>>, NEW s \in Seq(AnyLine), NEW t \in Nat,
           FilesSorted(F), Rising(s),
           \A x \in LinesOfFiles(F), y \in Ids(s) \ {0} : x < y,
           NEW G, G = ChunkPut(F, s, t)
    PROVE  FilesSorted(G) /\ LinesOfFiles(G) = LinesOfFiles(F) \cup (Ids(s) \ {0})
  <1>1. CASE s = <<>>
    <2>1. G = F /\ Ids(s) = {}
      BY <1>1 DEF ChunkPut, Ids
    <2> QED BY <2>1
  <1>2. CASE s # <<>>
    <2> DEFINE l == Len(F)
               m == Len(F[l].chunks)
               new == [lines |-> s, at |-> t]
    <2>1. IsChunkPut(F, s, t, G, l, m)
      BY <1>2, PutIs
    <2> HIDE DEF l, m, new
    <2>2. /\ DOMAIN F = 1 .. l /\ DOMAIN G = 1 .. l /\ l \in 1 .. l /\ l \in Nat /\ m \in Nat
          /\ \A f \in 1 .. l : f # l => G[f] = F[f]
          /\ DOMAIN F[l].chunks = 1 .. m /\ DOMAIN G[l].chunks = 1 .. m + 1
          /\ \A c \in 1 .. m : c # m + 1 /\ G[l].chunks[c] = F[l].chunks[c]
          /\ G[l].chunks[m + 1] = new
      BY <2>1 DEF IsChunkPut, new
    <2>3. LinesIn(new) = Ids(s) \ {0} /\ new.lines = s
      BY DEF LinesIn, new
    <2> DEFINE IsNew(f, c) == f = l /\ c = m + 1
    <2>4. ASSUME NEW f \in DOMAIN G, NEW c \in DOMAIN G[f].chunks
          PROVE  \/ IsNew(f, c) /\ G[f].chunks[c] = new
                 \/ /\ ~IsNew(f, c) /\ f \in DOMAIN F /\ c \in DOMAIN F[f].chunks
                    /\ G[f].chunks[c] = F[f].chunks[c]
      <3>1. CASE f # l
        BY <2>2, <3>1
      <3>2. CASE f = l
        <4>1. c \in 1 .. m \/ c = m + 1
          BY <2>2, <3>2
        <4> QED BY <2>2, <3>2, <4>1
      <3> QED BY <3>1, <3>2
    <2>5. ASSUME NEW f \in DOMAIN F, NEW c \in DOMAIN F[f].chunks
          PROVE  /\ f \in DOMAIN G /\ c \in DOMAIN G[f].chunks
                 /\ G[f].chunks[c] = F[f].chunks[c]
      <3>1. CASE f # l
        BY <2>2, <3>1
      <3>2. CASE f = l
        BY <2>2, <3>2
      <3> QED BY <3>1, <3>2
    <2>6. l \in DOMAIN G /\ m + 1 \in DOMAIN G[l].chunks /\ G[l].chunks[m + 1] = new
      BY <2>2
    <2>7. ASSUME NEW x
          PROVE  x \in LinesOfFiles(G) <=> x \in LinesOfFiles(F) \/ x \in LinesIn(new)
      <3>1. ASSUME x \in LinesOfFiles(G)
            PROVE  x \in LinesOfFiles(F) \/ x \in LinesIn(new)
        <4>1. PICK f \in DOMAIN G : \E c \in DOMAIN G[f].chunks : x \in LinesIn(G[f].chunks[c])
          BY <3>1, InSomeFile
        <4>2. PICK c \in DOMAIN G[f].chunks : x \in LinesIn(G[f].chunks[c])
          BY <4>1
        <4> QED BY <2>4, <4>2, InSomeFile
      <3>2. ASSUME x \in LinesOfFiles(F)
            PROVE  x \in LinesOfFiles(G)
        <4>1. PICK f \in DOMAIN F : \E c \in DOMAIN F[f].chunks : x \in LinesIn(F[f].chunks[c])
          BY <3>2, InSomeFile
        <4>2. PICK c \in DOMAIN F[f].chunks : x \in LinesIn(F[f].chunks[c])
          BY <4>1
        <4> QED BY <2>5, <4>2, InSomeFile
      <3>3. ASSUME x \in LinesIn(new)
            PROVE  x \in LinesOfFiles(G)
        BY <2>6, <3>3, InSomeFile
      <3> QED BY <3>1, <3>2, <3>3
    <2>8. LinesOfFiles(G) = LinesOfFiles(F) \cup (Ids(s) \ {0})
      BY <2>3, <2>7
    <2>9. ASSUME NEW f \in DOMAIN G, NEW g \in DOMAIN G,
                 NEW c \in DOMAIN G[f].chunks, NEW d \in DOMAIN G[g].chunks
          PROVE  /\ f < g \/ (f = g /\ c < d) => Before(G[f].chunks[c], G[g].chunks[d])
                 /\ Rising(G[f].chunks[c].lines)
      <3>1. CASE IsNew(f, c)
        <4>1. Rising(G[f].chunks[c].lines)
          BY <2>3, <2>4, <3>1
        <4>2. ~(f < g)
          BY <2>2, <3>1
        <4>3. ~(f = g /\ c < d)
          BY <2>2, <3>1
        <4> QED BY <4>1, <4>2, <4>3
      <3>2. CASE ~IsNew(f, c)
        <4>1. f \in DOMAIN F /\ c \in DOMAIN F[f].chunks /\ G[f].chunks[c] = F[f].chunks[c]
          BY <2>4, <3>2
        <4>2. CASE IsNew(g, d)
          <5>1. G[g].chunks[d] = new
            BY <2>4, <4>2
          <5>2. \A x \in LinesIn(F[f].chunks[c]) : x \in LinesOfFiles(F)
            BY <4>1, InSomeFile
          <5>3. Before(F[f].chunks[c], new)
            BY <2>3, <5>2 DEF Before
          <5>4. Rising(F[f].chunks[c].lines)
            BY <4>1 DEF FilesSorted
          <5> QED BY <4>1, <5>1, <5>3, <5>4
        <4>3. CASE ~IsNew(g, d)
          <5>1. g \in DOMAIN F /\ d \in DOMAIN F[g].chunks /\ G[g].chunks[d] = F[g].chunks[d]
            BY <2>4, <4>3
          <5> QED BY <4>1, <5>1 DEF FilesSorted
        <4> QED BY <4>2, <4>3
      <3> QED BY <3>1, <3>2
    <2>10. FilesSorted(G)
      BY <2>9 DEF FilesSorted
    <2> QED BY <2>8, <2>10
  <1> QED BY <1>1, <1>2

(* A new file has no lines.                                                *)
LEMMA RollSorted ==
    ASSUME NEW F \in Seq(FileOf), FilesSorted(F), NEW x \in FileOf, x.chunks = <<>>,
           NEW G, G = Append(F, x)
    PROVE  FilesSorted(G) /\ LinesOfFiles(G) = LinesOfFiles(F)
  <1> DEFINE l == Len(F)
  <1>1. l \in Nat /\ DOMAIN F = 1 .. l
    BY LenProperties
  <1>2. G \in Seq(FileOf) /\ Len(G) = l + 1 /\ G[l + 1] = x /\ \A f \in 1 .. l : G[f] = F[f]
    BY AppendProperties
  <1>3. DOMAIN G = 1 .. l + 1 /\ DOMAIN G[l + 1].chunks = {}
    BY <1>2, LenProperties
  <1> HIDE DEF l
  <1>4. ASSUME NEW f \in DOMAIN G, NEW c \in DOMAIN G[f].chunks
        PROVE  f \in DOMAIN F /\ G[f] = F[f] /\ c \in DOMAIN F[f].chunks
    <2>1. f \in 1 .. l \/ f = l + 1
      BY <1>1, <1>3
    <2>2. f \in 1 .. l
      BY <1>3, <2>1
    <2> QED BY <1>1, <1>2, <2>2
  <1>5. \A f \in DOMAIN F : f \in DOMAIN G /\ G[f] = F[f]
    BY <1>1, <1>2, <1>3
  <1>6. ASSUME NEW y PROVE y \in LinesOfFiles(G) <=> y \in LinesOfFiles(F)
    <2>1. y \in LinesOfFiles(G) <=>
             \E f \in DOMAIN G : \E c \in DOMAIN G[f].chunks : y \in LinesIn(G[f].chunks[c])
      BY InSomeFile
    <2>2. y \in LinesOfFiles(F) <=>
             \E f \in DOMAIN F : \E c \in DOMAIN F[f].chunks : y \in LinesIn(F[f].chunks[c])
      BY InSomeFile
    <2> QED BY <1>4, <1>5, <2>1, <2>2
  <1>7. LinesOfFiles(G) = LinesOfFiles(F)
    BY <1>6
  <1>8. FilesSorted(G)
    BY <1>4 DEF FilesSorted
  <1> QED BY <1>7, <1>8

(* What ChunkPut gives are files.                                          *)
LEMMA PutFiles ==
    ASSUME NEW F \in Seq(FileOf), F # <<>>, NEW s \in Seq(AnyLine), NEW t \in Nat
    PROVE  ChunkPut(F, s, t) \in Seq(FileOf)
  <1> DEFINE H == ChunkPut(F, s, t)
  <1>1. CASE s = <<>>
    BY <1>1 DEF ChunkPut
  <1>2. CASE s # <<>>
    <2>1. IsChunkPut(F, s, t, H, Len(F), Len(F[Len(F)].chunks))
      BY <1>2, PutIs
    <2> QED BY <2>1 DEF IsChunkPut
  <1> QED BY <1>1, <1>2

----------------------------------------------------------------------------
(* The buffers that are still to be written.                               *)
Queue(T, d, B, c) == SubSeq(T, d + 1, Len(T)) \o Append(B, c)

IsQueue(P, T, d, B, c, r, q) ==
    /\ P \in Seq(BufferOf) /\ r \in Nat /\ q \in Nat /\ d \in Nat
    /\ DOMAIN P = 1 .. r + q + 1
    /\ \A i \in 1 .. r : P[i] = T[d + i]
    /\ \A j \in 1 .. q : P[r + j] = B[j]
    /\ P[r + q + 1] = c

(* Which they are: r of buffersToWrite, q of buffers_, and currentBuffer_. *)
LEMMA QueueIs ==
    ASSUME NEW T \in Seq(BufferOf), NEW d \in 0 .. Len(T), NEW B \in Seq(BufferOf),
           NEW c \in BufferOf, NEW P, P = Queue(T, d, B, c),
           NEW r, r = Len(T) - d, NEW q, q = Len(B)
    PROVE  IsQueue(P, T, d, B, c, r, q)
  <1> DEFINE S == SubSeq(T, d + 1, Len(T))
             A == Append(B, c)
  <1>1. Len(T) \in Nat /\ d \in Nat /\ r \in Nat /\ q \in Nat
    BY LenProperties
  <1>2. S \in Seq(BufferOf) /\ Len(S) = r /\ \A i \in 1 .. r : S[i] = T[d + i]
    <2>1. \A i \in d + 1 .. Len(T) : i \in DOMAIN T
      BY <1>1, LenProperties
    <2>2. \A i \in d + 1 .. Len(T) : T[i] \in BufferOf
      BY <2>1, ElementOfSeq
    <2>3. S = [i \in 1 .. r |-> T[d + i]]
      BY <1>1
    <2>4. \A i \in 1 .. r : T[d + i] \in BufferOf
      BY <1>1, <2>2
    <2>5. S \in [1 .. r -> BufferOf]
      BY <2>3, <2>4
    <2>6. S \in Seq(BufferOf)
      BY <1>1, <2>5, SeqDef
    <2>7. Len(S) = r
      BY <1>1, <2>5, <2>6, LenProperties
    <2> QED BY <2>3, <2>6, <2>7
  <1>3. /\ A \in Seq(BufferOf) /\ Len(A) = q + 1 /\ A[q + 1] = c
        /\ \A j \in 1 .. q : A[j] = B[j]
    BY AppendProperties
  <1>4. P = S \o A
    BY DEF Queue
  <1> HIDE DEF S, A
  <1>5. /\ P \in Seq(BufferOf) /\ Len(P) = r + (q + 1)
        /\ \A i \in 1 .. r + (q + 1) : P[i] = IF i <= r THEN S[i] ELSE A[i - r]
    <2>1. /\ P \in Seq(BufferOf) /\ Len(P) = Len(S) + Len(A)
          /\ \A i \in 1 .. Len(S) + Len(A) : P[i] = IF i <= Len(S) THEN S[i] ELSE A[i - Len(S)]
      <3>1. /\ S \o A \in Seq(BufferOf) /\ Len(S \o A) = Len(S) + Len(A)
            /\ \A i \in 1 .. Len(S) + Len(A) :
                  (S \o A)[i] = IF i <= Len(S) THEN S[i] ELSE A[i - Len(S)]
        BY <1>2, <1>3, ConcatProperties, Zenon
      <3> QED BY <1>4, <3>1, Zenon
    <2> QED BY <1>2, <1>3, <2>1
  <1>6. DOMAIN P = 1 .. r + q + 1
    BY <1>1, <1>5, LenProperties
  <1>7. \A i \in 1 .. r : P[i] = T[d + i]
    <2> TAKE i \in 1 .. r
    <2>1. i \in 1 .. r + (q + 1) /\ i <= r
      BY <1>1
    <2>2. P[i] = S[i]
      BY <1>5, <2>1
    <2> QED BY <1>2, <2>2
  <1>8. \A j \in 1 .. q + 1 : P[r + j] = A[j]
    <2> TAKE j \in 1 .. q + 1
    <2>1. r + j \in 1 .. r + (q + 1) /\ ~(r + j <= r) /\ (r + j) - r = j
      BY <1>1
    <2> QED BY <1>5, <2>1
  <1>9. \A j \in 1 .. q : P[r + j] = B[j]
    BY <1>1, <1>3, <1>8
  <1>10. P[r + q + 1] = c
    <2>1. r + (q + 1) = r + q + 1 /\ q + 1 \in 1 .. q + 1
      BY <1>1
    <2> QED BY <1>3, <1>8, <2>1
  <1> QED BY <1>1, <1>5, <1>6, <1>7, <1>9, <1>10 DEF IsQueue

(* The lines of a buffer have numbers.                                     *)
LEMMA LinesAreNat ==
    ASSUME NEW b \in BufferOf
    PROVE  /\ LinesIn(b) = Ids(b.lines) /\ LinesIn(b) \subseteq Nat \ {0}
           /\ b.lines \in Seq(RealLine)
  <1>1. b.lines \in Seq(RealLine)
    BY DEF BufferOf
  <1>2. \A i \in DOMAIN b.lines : b.lines[i] \in RealLine
    BY <1>1, LenProperties, ElementOfSeq
  <1>3. \A i \in DOMAIN b.lines : b.lines[i].id \in Nat \ {0}
    BY <1>2 DEF RealLine
  <1> QED BY <1>1, <1>3 DEF LinesIn, Ids

(* Different buffers have different lines.                                 *)
LEMMA BuffersApart ==
    ASSUME NEW P \in Seq(BufferOf), BuffersSorted(P), NEW i \in DOMAIN P, NEW j \in DOMAIN P,
           i # j, NEW x, x \in LinesIn(P[i]), x \in LinesIn(P[j])
    PROVE  FALSE
  <1>1. i \in Nat /\ j \in Nat
    BY LenProperties
  <1>2. P[i] \in BufferOf
    BY LenProperties, ElementOfSeq
  <1>3. x \in Nat
    BY <1>2, LinesAreNat
  <1>4. CASE i < j
    <2>1. Before(P[i], P[j])
      BY <1>4 DEF BuffersSorted
    <2>2. x < x
      BY <2>1 DEF Before
    <2> QED BY <1>3, <2>2
  <1>5. CASE j < i
    <2>1. Before(P[j], P[i])
      BY <1>5 DEF BuffersSorted
    <2>2. x < x
      BY <2>1 DEF Before
    <2> QED BY <1>3, <2>2
  <1> QED BY <1>1, <1>4, <1>5

(* Some of the buffers, in their order; the lines of the others are lost.  *)
LEMMA Thinned ==
    ASSUME NEW F, NEW P \in Seq(BufferOf), NEW gone, NEW n, LinesPlaced(F, P, gone, n),
           NEW Q, NEW h \in [DOMAIN Q -> DOMAIN P],
           \A i, j \in DOMAIN Q : i < j => h[i] < h[j],
           \A i \in DOMAIN Q : Q[i] = P[h[i]],
           NEW missing,
           \A x : x \in missing <=> \E i \in DOMAIN P :
                      (\A j \in DOMAIN Q : h[j] # i) /\ x \in LinesIn(P[i])
    PROVE  LinesPlaced(F, Q, gone \cup missing, n)
  <1> DEFINE W == LinesOfFiles(F)
             U == LinesOfBuffers(P)
             V == LinesOfBuffers(Q)
  <1>1. /\ FilesSorted(F) /\ BuffersSorted(P)
        /\ \A x \in W, y \in U : x < y
        /\ (W \cup U) \cap gone = {} /\ W \cup U \cup gone = 1 .. n
    BY DEF LinesPlaced
  <1>2. BuffersSorted(Q)
    <2>1. \A i, j \in DOMAIN Q : /\ i < j => Before(P[h[i]], P[h[j]])
                                 /\ Rising(P[h[i]].lines)
      BY <1>1 DEF BuffersSorted
    <2> QED BY <2>1 DEF BuffersSorted
  <1>3. ASSUME NEW x \in V PROVE x \in U /\ x \notin missing
    <2>1. PICK i \in DOMAIN Q : x \in LinesIn(P[h[i]])
      BY InSomeBuffer
    <2>2. x \in U
      BY <2>1, InSomeBuffer
    <2>3. ASSUME x \in missing PROVE FALSE
      <3>1. PICK k \in DOMAIN P : (\A j \in DOMAIN Q : h[j] # k) /\ x \in LinesIn(P[k])
        BY <2>3
      <3>2. h[i] # k /\ h[i] \in DOMAIN P
        BY <3>1
      <3> QED BY <1>1, <2>1, <3>1, <3>2, BuffersApart
    <2> QED BY <2>2, <2>3
  <1>4. ASSUME NEW x \in U PROVE x \in V \/ x \in missing
    <2>1. PICK i \in DOMAIN P : x \in LinesIn(P[i])
      BY InSomeBuffer
    <2>2. CASE \E j \in DOMAIN Q : h[j] = i
      BY <2>1, <2>2, InSomeBuffer
    <2>3. CASE \A j \in DOMAIN Q : h[j] # i
      BY <2>1, <2>3
    <2> QED BY <2>2, <2>3
  <1>5. \A x \in missing : x \in U
    BY InSomeBuffer
  <1>6. ASSUME NEW x \in missing PROVE x \notin W
    <2>1. x \in Nat
      <3>1. PICK i \in DOMAIN P : x \in LinesIn(P[i])
        OBVIOUS
      <3>2. P[i] \in BufferOf
        BY LenProperties, ElementOfSeq
      <3> QED BY <3>1, <3>2, LinesAreNat
    <2>2. x \in W => x < x
      BY <1>1, <1>5
    <2> QED BY <2>1, <2>2
  <1> HIDE DEF W, U, V
  <1>7. \A x \in W, y \in V : x < y
    BY <1>1, <1>3
  <1>8. (W \cup V) \cap (gone \cup missing) = {}
    BY <1>1, <1>3, <1>6
  <1>9. W \cup V \cup (gone \cup missing) = 1 .. n
    BY <1>1, <1>3, <1>4, <1>5
  <1> QED BY <1>1, <1>2, <1>7, <1>8, <1>9 DEF LinesPlaced, W, V

(* A buffer without lines more.                                            *)
LEMMA BufferAdded ==
    ASSUME NEW F, NEW P, NEW gone, NEW n, LinesPlaced(F, P, gone, n),
           NEW p \in Nat, DOMAIN P = 1 .. p, NEW Q, DOMAIN Q = 1 .. p + 1,
           \A i \in 1 .. p : Q[i] = P[i], Q[p + 1] = Empty
    PROVE  LinesPlaced(F, Q, gone, n)
  <1>1. LinesIn(Empty) = {} /\ Rising(Empty.lines)
    <2>1. DOMAIN Empty.lines = {}
      BY DEF Empty
    <2> QED BY <2>1 DEF LinesIn, Ids, Rising
  <1>2. \A i \in 1 .. p + 1 : i \in 1 .. p \/ i = p + 1
    OBVIOUS
  <1>3. \A i \in 1 .. p : i \in 1 .. p + 1
    OBVIOUS
  <1>4. BuffersSorted(Q)
    <2> SUFFICES ASSUME NEW i \in 1 .. p + 1, NEW j \in 1 .. p + 1
                 PROVE  (i < j => Before(Q[i], Q[j])) /\ Rising(Q[i].lines)
      BY DEF BuffersSorted
    <2>1. BuffersSorted(P)
      BY DEF LinesPlaced
    <2>2. Rising(Q[i].lines)
      BY <1>1, <1>2, <2>1 DEF BuffersSorted
    <2>3. ASSUME i < j PROVE Before(Q[i], Q[j])
      <3>1. i \in 1 .. p
        BY <2>3
      <3>2. CASE j \in 1 .. p
        BY <2>1, <2>3, <3>1, <3>2 DEF BuffersSorted
      <3>3. CASE j = p + 1
        BY <1>1, <3>3 DEF Before
      <3> QED BY <1>2, <3>2, <3>3
    <2> QED BY <2>2, <2>3
  <1>5. ASSUME NEW x PROVE x \in LinesOfBuffers(Q) <=> x \in LinesOfBuffers(P)
    <2>1. x \in LinesOfBuffers(Q) <=> \E i \in 1 .. p + 1 : x \in LinesIn(Q[i])
      BY InSomeBuffer
    <2>2. x \in LinesOfBuffers(P) <=> \E i \in 1 .. p : x \in LinesIn(P[i])
      BY InSomeBuffer
    <2> QED BY <1>1, <1>2, <1>3, <2>1, <2>2
  <1>6. LinesOfBuffers(Q) = LinesOfBuffers(P)
    BY <1>5
  <1> QED BY <1>4, <1>6 DEF LinesPlaced

(* A line that is missing.                                                 *)
LEMMA LineLost ==
    ASSUME NEW F, NEW P, NEW gone, NEW n \in Nat, LinesPlaced(F, P, gone, n)
    PROVE  LinesPlaced(F, P, gone \cup {n + 1}, n + 1)
  <1> DEFINE W == LinesOfFiles(F)
             U == LinesOfBuffers(P)
  <1>1. /\ FilesSorted(F) /\ BuffersSorted(P)
        /\ \A x \in W, y \in U : x < y
        /\ (W \cup U) \cap gone = {} /\ W \cup U \cup gone = 1 .. n
    BY DEF LinesPlaced
  <1> HIDE DEF W, U
  <1>2. 1 .. n + 1 = 1 .. n \cup {n + 1} /\ n + 1 \notin 1 .. n
    OBVIOUS
  <1>3. W \cup U \cup (gone \cup {n + 1}) = 1 .. n + 1
    BY <1>1, <1>2
  <1>4. (W \cup U) \cap (gone \cup {n + 1}) = {}
    BY <1>1, <1>2
  <1> QED BY <1>1, <1>3, <1>4 DEF LinesPlaced, W, U

(* A line more in the last buffer.                                         *)
LEMMA LineAdded ==
    ASSUME NEW F, NEW P \in Seq(BufferOf), NEW gone, NEW n \in Nat, LinesPlaced(F, P, gone, n),
           gone \subseteq 1 .. n,
           NEW p \in Nat, p > 0, DOMAIN P = 1 .. p, NEW Q, DOMAIN Q = 1 .. p,
           \A i \in 1 .. p : i # p => Q[i] = P[i],
           NEW line \in RealLine, line.id = n + 1,
           Q[p] = [lines |-> Append(P[p].lines, line)]
    PROVE  LinesPlaced(F, Q, gone, n + 1)
  <1> DEFINE W == LinesOfFiles(F)
             U == LinesOfBuffers(P)
             V == LinesOfBuffers(Q)
             s == P[p].lines
             u == Append(s, line)
             m == Len(s)
  <1>1. /\ FilesSorted(F) /\ BuffersSorted(P)
        /\ \A x \in W, y \in U : x < y
        /\ (W \cup U) \cap gone = {} /\ W \cup U \cup gone = 1 .. n
    BY DEF LinesPlaced
  <1>2. p \in 1 .. p /\ P[p] \in BufferOf
    BY ElementOfSeq, LenProperties
  <1>3. s \in Seq(RealLine)
    BY <1>2, LinesAreNat
  <1>4. /\ u \in Seq(RealLine) /\ Len(u) = m + 1 /\ u[m + 1] = line
        /\ \A i \in 1 .. m : u[i] = s[i]
    BY <1>3, AppendProperties
  <1>5. m \in Nat /\ DOMAIN s = 1 .. m /\ DOMAIN u = 1 .. m + 1
    BY <1>3, <1>4, LenProperties
  <1>6. Q[p] = [lines |-> u]
    OBVIOUS
  <1> HIDE DEF u, m
  <1>7. Q[p].lines = u
    BY <1>6
  <1>8. \A i \in 1 .. m + 1 : i \in 1 .. m \/ i = m + 1
    BY <1>5
  <1>9. \A i \in 1 .. m : i \in 1 .. m + 1
    BY <1>5
  <1>10. m + 1 \in 1 .. m + 1
    BY <1>5
  <1>11. Ids(u) = Ids(s) \cup {n + 1}
    <2>1. ASSUME NEW x PROVE x \in Ids(u) <=> x \in Ids(s) \/ x = n + 1
      <3>1. x \in Ids(u) <=> \E i \in 1 .. m + 1 : x = u[i].id
        BY <1>5 DEF Ids
      <3>2. x \in Ids(s) <=> \E i \in 1 .. m : x = s[i].id
        BY <1>5 DEF Ids
      <3> QED BY <1>4, <1>8, <1>9, <1>10, <3>1, <3>2
    <2> QED BY <2>1
  <1>12. LinesIn(P[p]) = Ids(s)
    BY <1>2, LinesAreNat
  <1>13. LinesIn(Q[p]) = LinesIn(P[p]) \cup {n + 1}
    <2>1. LinesIn(Q[p]) = (Ids(s) \cup {n + 1}) \ {0}
      BY <1>7, <1>11 DEF LinesIn
    <2>2. LinesIn(P[p]) \subseteq Nat \ {0}
      BY <1>2, LinesAreNat
    <2>3. n + 1 # 0
      OBVIOUS
    <2> QED BY <1>12, <2>1, <2>2, <2>3
  <1>14. \A x \in U : x \in 1 .. n
    BY <1>1
  <1>15. \A i \in 1 .. p : \A x \in LinesIn(P[i]) : x \in Nat /\ x < n + 1
    <2>1. \A i \in 1 .. p : \A x \in LinesIn(P[i]) : x \in 1 .. n
      BY <1>14, InSomeBuffer
    <2> QED BY <2>1
  <1>16. Rising(u)
    <2> SUFFICES ASSUME NEW i \in 1 .. m + 1, NEW j \in 1 .. m + 1, i < j
                 PROVE  u[i].id < u[j].id
      BY <1>5 DEF Rising
    <2>1. i \in 1 .. m
      BY <1>5
    <2>2. Rising(s)
      BY <1>1, <1>2 DEF BuffersSorted
    <2>3. CASE j \in 1 .. m
      BY <1>4, <1>5, <2>1, <2>2, <2>3 DEF Rising
    <2>4. CASE j = m + 1
      <3>1. u[i].id \in LinesIn(P[p])
        BY <1>4, <1>5, <1>12, <2>1 DEF Ids
      <3>2. u[j].id = n + 1
        BY <1>4, <2>4
      <3> QED BY <1>2, <1>15, <3>1, <3>2
    <2> QED BY <1>8, <2>3, <2>4
  <1>17. BuffersSorted(Q)
    <2> SUFFICES ASSUME NEW i \in 1 .. p, NEW j \in 1 .. p
                 PROVE  (i < j => Before(Q[i], Q[j])) /\ Rising(Q[i].lines)
      BY DEF BuffersSorted
    <2>1. Rising(Q[i].lines)
      <3>1. CASE i = p
        BY <1>7, <1>16, <3>1
      <3>2. CASE i # p
        BY <1>1, <3>2 DEF BuffersSorted
      <3> QED BY <3>1, <3>2
    <2>2. ASSUME i < j PROVE Before(Q[i], Q[j])
      <3>1. Q[i] = P[i] /\ Before(P[i], P[j])
        <4>1. i # p
          BY <2>2
        <4> QED BY <1>1, <2>2, <4>1 DEF BuffersSorted
      <3>2. CASE j # p
        BY <3>1, <3>2
      <3>3. CASE j = p
        BY <1>13, <1>15, <3>1, <3>3 DEF Before
      <3> QED BY <3>2, <3>3
    <2> QED BY <2>1, <2>2
  <1>18. V = U \cup {n + 1}
    <2>1. ASSUME NEW x PROVE x \in V <=> x \in U \/ x = n + 1
      <3>1. x \in V <=> \E i \in 1 .. p : x \in LinesIn(Q[i])
        BY InSomeBuffer
      <3>2. x \in U <=> \E i \in 1 .. p : x \in LinesIn(P[i])
        BY InSomeBuffer
      <3> HIDE DEF U, V
      <3>3. \A i \in 1 .. p : i # p => LinesIn(Q[i]) = LinesIn(P[i])
        OBVIOUS
      <3>4. ASSUME NEW i \in 1 .. p, x \in LinesIn(Q[i]) PROVE x \in U \/ x = n + 1
        <4>1. CASE i = p
          <5>1. x \in LinesIn(P[p]) \/ x = n + 1
            BY <1>13, <3>4, <4>1
          <5> QED BY <1>2, <3>2, <5>1
        <4>2. CASE i # p
          <5>1. x \in LinesIn(P[i])
            BY <3>3, <3>4, <4>2
          <5> QED BY <3>2, <5>1
        <4> QED BY <4>1, <4>2
      <3>5. ASSUME NEW i \in 1 .. p, x \in LinesIn(P[i]) PROVE x \in V
        BY <1>13, <3>1, <3>3, <3>5
      <3>6. x = n + 1 => x \in V
        BY <1>2, <1>13, <3>1
      <3> QED BY <3>1, <3>2, <3>4, <3>5, <3>6
    <2> HIDE DEF U, V
    <2> QED BY <2>1
  <1> HIDE DEF W, U, V
  <1>19. 1 .. n + 1 = 1 .. n \cup {n + 1} /\ n + 1 \notin 1 .. n
    OBVIOUS
  <1>20. \A x \in W, y \in V : x < y
    <2>1. \A x \in W : x \in 1 .. n
      BY <1>1
    <2>2. \A x \in W : x < n + 1
      BY <2>1
    <2> QED BY <1>1, <1>18, <2>2
  <1>21. (W \cup V) \cap gone = {}
    BY <1>1, <1>18, <1>19
  <1>22. W \cup V \cup gone = 1 .. n + 1
    BY <1>1, <1>18, <1>19
  <1> QED BY <1>1, <1>17, <1>20, <1>21, <1>22 DEF LinesPlaced, W, V

(* The first buffer is written: the lines kept of it get into a file, the  *)
(* others are lost.                                                        *)
LEMMA HeadWritten ==
    ASSUME NEW F, NEW P \in Seq(BufferOf), NEW gone, NEW n, LinesPlaced(F, P, gone, n),
           NEW p \in Nat, DOMAIN P = 1 .. p + 1, NEW Q, DOMAIN Q = 1 .. p,
           \A i \in 1 .. p : Q[i] = P[i + 1],
           NEW kept, NEW missing, kept \cup missing = LinesIn(P[1]), kept \cap missing = {},
           NEW G, FilesSorted(G), LinesOfFiles(G) = LinesOfFiles(F) \cup kept
    PROVE  LinesPlaced(G, Q, gone \cup missing, n)
  <1> DEFINE h == [i \in 1 .. p |-> i + 1]
             W == LinesOfFiles(F)
             U == LinesOfBuffers(P)
             V == LinesOfBuffers(Q)
  <1>1. LinesPlaced(F, Q, gone \cup (kept \cup missing), n)
    <2>1. h \in [1 .. p -> 1 .. p + 1]
      OBVIOUS
    <2>2. \A i, j \in DOMAIN Q : i < j => h[i] < h[j]
      OBVIOUS
    <2>3. \A i \in DOMAIN Q : Q[i] = P[h[i]]
      OBVIOUS
    <2>4. \A i \in DOMAIN P : (\A j \in DOMAIN Q : h[j] # i) <=> i = 1
      <3>1. ASSUME NEW i \in 1 .. p + 1, i # 1 PROVE \E j \in 1 .. p : h[j] = i
        <4>1. i - 1 \in 1 .. p /\ h[i - 1] = i
          BY <3>1
        <4> QED BY <4>1
      <3>2. \A j \in 1 .. p : h[j] # 1
        OBVIOUS
      <3> QED BY <3>1, <3>2
    <2>5. 1 \in DOMAIN P
      OBVIOUS
    <2>6. \A x : x \in kept \cup missing <=> \E i \in DOMAIN P :
                      (\A j \in DOMAIN Q : h[j] # i) /\ x \in LinesIn(P[i])
      BY <2>4, <2>5
    <2> DEFINE all == kept \cup missing
    <2>7. h \in [DOMAIN Q -> DOMAIN P]
      BY <2>1
    <2> HIDE DEF h, all
    <2>8. \A x : x \in all <=> \E i \in DOMAIN P :
                      (\A j \in DOMAIN Q : h[j] # i) /\ x \in LinesIn(P[i])
      BY <2>6 DEF all
    <2>9. LinesPlaced(F, Q, gone \cup all, n)
      BY <2>2, <2>3, <2>7, <2>8, Thinned
    <2> QED BY <2>9 DEF all
  <1>2. /\ FilesSorted(F) /\ BuffersSorted(P)
        /\ \A x \in W, y \in U : x < y
        /\ (W \cup U) \cap gone = {} /\ W \cup U \cup gone = 1 .. n
    BY DEF LinesPlaced
  <1>3. /\ BuffersSorted(Q)
        /\ \A x \in W, y \in V : x < y
        /\ (W \cup V) \cap (gone \cup (kept \cup missing)) = {}
        /\ W \cup V \cup (gone \cup (kept \cup missing)) = 1 .. n
    BY <1>1 DEF LinesPlaced
  <1>4. 1 \in DOMAIN P
    OBVIOUS
  <1>5. \A x \in kept : x \in U
    <2>1. \A x \in kept : x \in LinesIn(P[1])
      OBVIOUS
    <2> QED BY <1>4, <2>1, InSomeBuffer
  <1>6. ASSUME NEW x \in kept, NEW y \in V PROVE x < y
    <2>1. x \in LinesIn(P[1])
      OBVIOUS
    <2>2. PICK i \in DOMAIN Q : y \in LinesIn(Q[i])
      BY InSomeBuffer
    <2>3. i + 1 \in DOMAIN P /\ 1 < i + 1 /\ Q[i] = P[i + 1]
      OBVIOUS
    <2>4. Before(P[1], P[i + 1])
      BY <1>2, <1>4, <2>3 DEF BuffersSorted
    <2> QED BY <2>1, <2>2, <2>3, <2>4 DEF Before
  <1> HIDE DEF W, U, V
  <1>7. LinesOfFiles(G) = W \cup kept
    BY DEF W
  <1>8. \A x \in W \cup kept, y \in V : x < y
    BY <1>3, <1>6
  <1>9. (W \cup kept \cup V) \cap (gone \cup missing) = {}
    BY <1>2, <1>3, <1>5
  <1>10. W \cup kept \cup V \cup (gone \cup missing) = 1 .. n
    BY <1>3
  <1> QED BY <1>3, <1>7, <1>8, <1>9, <1>10 DEF LinesPlaced, V

(* A buffer in two parts, as a write that fails leaves it.                 *)
LEMMA InTwoParts ==
    ASSUME NEW b \in BufferOf, Rising(b.lines), NEW k \in 0 .. Len(b.lines),
           NEW s, s = SubSeq(b.lines, 1, k),
           NEW rest, rest = SubSeq(b.lines, k + 1, Len(b.lines))
    PROVE  /\ s \in Seq(AnyLine) /\ Rising(s) /\ Ids(s) \ {0} = Ids(s)
           /\ Ids(s) \cup Ids(rest) = LinesIn(b) /\ Ids(s) \cap Ids(rest) = {}
  <1> DEFINE a == b.lines
             m == Len(a)
  <1>1. a \in Seq(RealLine) /\ LinesIn(b) = Ids(a) /\ LinesIn(b) \subseteq Nat \ {0}
    BY LinesAreNat
  <1>2. m \in Nat /\ k \in Nat /\ k <= m /\ DOMAIN a = 1 .. m
    BY <1>1, LenProperties
  <1>3. \A i \in 1 .. m : a[i] \in RealLine /\ a[i] \in AnyLine
    <2>1. \A i \in 1 .. m : a[i] \in RealLine
      BY <1>1, <1>2, ElementOfSeq
    <2> QED BY <2>1 DEF RealLine, AnyLine
  <1>4. \A i \in 1 .. m : a[i].id \in Nat
    BY <1>3 DEF RealLine
  <1> HIDE DEF a, m
  <1>5. s = [i \in 1 .. k |-> a[i]] /\ rest = [i \in 1 .. m - k |-> a[k + i]]
    <2>1. s = SubSeq(a, 1, k) /\ rest = SubSeq(a, k + 1, m)
      BY DEF a, m
    <2>2. SubSeq(a, 1, k) = [i \in 1 .. k |-> a[i]]
      BY <1>2
    <2>3. SubSeq(a, k + 1, m) = [i \in 1 .. m - k |-> a[k + i]]
      BY <1>2
    <2> QED BY <2>1, <2>2, <2>3
  <1>6. \A i \in 1 .. k : i \in 1 .. m
    BY <1>2
  <1>7. s \in Seq(AnyLine)
    <2>1. s \in [1 .. k -> AnyLine]
      BY <1>3, <1>5, <1>6
    <2> QED BY <1>2, <2>1, SeqDef
  <1>8. Rising(a)
    BY DEF a
  <1>9. Rising(s)
    BY <1>2, <1>5, <1>6, <1>8 DEF Rising
  <1>10. Ids(s) = {a[i].id : i \in 1 .. k}
    <2>1. DOMAIN s = 1 .. k /\ \A i \in 1 .. k : s[i] = a[i]
      BY <1>5
    <2> QED BY <2>1 DEF Ids
  <1>11. Ids(rest) = {a[i].id : i \in k + 1 .. m}
    <2>1. Ids(rest) = {a[k + i].id : i \in 1 .. m - k}
      <3>1. DOMAIN rest = 1 .. m - k /\ \A i \in 1 .. m - k : rest[i] = a[k + i]
        BY <1>5
      <3> QED BY <3>1 DEF Ids
    <2>2. \A i \in 1 .. m - k : k + i \in k + 1 .. m
      BY <1>2
    <2>3. \A i \in k + 1 .. m : i - k \in 1 .. m - k /\ k + (i - k) = i
      BY <1>2
    <2> QED BY <2>1, <2>2, <2>3
  <1>12. Ids(a) = {a[i].id : i \in 1 .. m}
    BY <1>2 DEF Ids
  <1>13. Ids(s) \cup Ids(rest) = Ids(a)
    <2>1. \A i \in 1 .. m : i \in 1 .. k \/ i \in k + 1 .. m
      BY <1>2
    <2>2. \A i \in k + 1 .. m : i \in 1 .. m
      BY <1>2
    <2> QED BY <1>6, <1>10, <1>11, <1>12, <2>1, <2>2
  <1>14. Ids(s) \cap Ids(rest) = {}
    <2> SUFFICES ASSUME NEW i \in 1 .. k, NEW j \in k + 1 .. m, a[i].id = a[j].id PROVE FALSE
      BY <1>10, <1>11
    <2>1. i \in 1 .. m /\ j \in 1 .. m /\ i < j
      BY <1>2
    <2>2. a[i].id < a[j].id
      BY <1>2, <1>8, <2>1 DEF Rising
    <2> QED BY <1>4, <2>1, <2>2
  <1>15. Ids(s) \ {0} = Ids(s)
    BY <1>1, <1>13
  <1> QED BY <1>1, <1>7, <1>9, <1>13, <1>14, <1>15

----------------------------------------------------------------------------
(* The steps.                                                              *)

(* LinesAccounted is what it says of these.                                *)
LEMMA AccountedNow ==
    /\ LinesAccounted <=>
            LinesPlaced(files, Queue(toWrite, done, buffers, current), lost, appended)
    /\ LinesAccounted' <=>
            LinesPlaced(files', Queue(toWrite', done', buffers', current'), lost', appended')
  <1>1. LinesAccounted <=>
            LinesPlaced(files, Queue(toWrite, done, buffers, current), lost, appended)
    BY DEF LinesAccounted, WrittenInOrder, UnwrittenInOrder, LinesWritten, LinesUnwritten,
           Unwritten, Queue, LinesPlaced, FilesSorted, BuffersSorted, LinesOfFiles,
           LinesOfBuffers
  <1>2. LinesAccounted' <=>
            LinesPlaced(files', Queue(toWrite', done', buffers', current'), lost', appended')
    BY DEF LinesAccounted, WrittenInOrder, UnwrittenInOrder, LinesWritten, LinesUnwritten,
           Unwritten, Queue, LinesPlaced, FilesSorted, BuffersSorted, LinesOfFiles,
           LinesOfBuffers
  <1> QED BY <1>1, <1>2

(* A buffer is not no buffer.                                              *)
LEMMA IsABuffer == Empty \in BufferOf /\ NoBuffer \notin BufferOf
  <1>1. Empty \in BufferOf
    BY DEF Empty, BufferOf
  <1>2. ASSUME NEW b \in BufferOf PROVE DOMAIN b = {"lines"}
    BY DEF BufferOf
  <1>3. DOMAIN NoBuffer = {"none"}
    BY DEF NoBuffer
  <1>4. "none" # "lines"
    OBVIOUS
  <1> QED BY <1>1, <1>2, <1>3, <1>4

LogUnchanged == UNCHANGED <<now, fileVars, frontVars, backVars, lost>>

(* A step that only goes to another place.                                 *)
LEMMA OnlyPlaceMoves ==
    ASSUME LogInv, LogUnchanged, logPc' \in LogPlaces, BufferPlaces'
    PROVE  LogInv'
  <1>1. LoggingTypes'
    BY DEF LogInv, LoggingTypes, LogUnchanged, frontVars, backVars
  <1>2. FilesKnown'
    BY DEF LogInv, FilesKnown, LogUnchanged, fileVars
  <1>3. LinesAccounted'
    BY AccountedNow DEF LogInv, LogUnchanged, fileVars, frontVars, backVars
  <1> QED BY <1>1, <1>2, <1>3 DEF LogInv

(* The owner.                                                              *)
LEMMA OwnerSteps ==
    ASSUME LogInv, StartLogging \/ Started \/ StopLogging \/ Joined
    PROVE  LogInv'
  <1>1. LogUnchanged
    BY DEF StartLogging, Started, StopLogging, Joined, LogUnchanged
  <1>2. LoggingTypes /\ BufferPlaces
    BY DEF LogInv
  <1>3. UNCHANGED <<files, toWrite, done, spare1, spare2, next, buffers>>
    BY <1>1 DEF LogUnchanged, fileVars, frontVars, backVars
  <1>4. CASE StartLogging
    <2>1. logPc = "new" /\ logPc' = "start" /\ owner' = "starting"
      BY <1>2, <1>4 DEF StartLogging, BufferPlaces
    <2>2. BufferPlaces'
      BY <1>2, <1>3, <2>1 DEF BufferPlaces
    <2> QED BY <1>1, <2>1, <2>2, OnlyPlaceMoves DEF LogPlaces
  <1>5. CASE Started \/ StopLogging \/ Joined
    <2>1. logPc' = logPc /\ owner' # "new"
      BY <1>5 DEF Started, StopLogging, Joined
    <2>2. BufferPlaces'
      BY <1>2, <1>3, <2>1 DEF BufferPlaces
    <2>3. logPc \in LogPlaces
      BY <1>2 DEF LoggingTypes
    <2> QED BY <1>1, <2>1, <2>2, <2>3, OnlyPlaceMoves
  <1> QED BY <1>4, <1>5

(* The steps of the thread that only look.                                 *)
LEMMA LookSteps ==
    ASSUME LogInv, TestLogRunning \/ WaitFor
    PROVE  LogInv'
  <1>1. LogUnchanged
    BY DEF TestLogRunning, WaitFor, LogUnchanged
  <1>2. LoggingTypes /\ BufferPlaces
    BY DEF LogInv
  <1>3. UNCHANGED <<files, toWrite, done, spare1, spare2, next, buffers>>
    BY <1>1 DEF LogUnchanged, fileVars, frontVars, backVars
  <1>4. logPc \in {"loop", "lock"} /\ logPc' \in {"lock", "last", "waited"} /\ owner' = owner
    BY DEF TestLogRunning, WaitFor
  <1>5. BufferPlaces'
    BY <1>2, <1>3, <1>4 DEF BufferPlaces
  <1>6. logPc' \in LogPlaces
    BY <1>4 DEF LogPlaces
  <1> QED BY <1>1, <1>5, <1>6, OnlyPlaceMoves

(* A second passes.                                                        *)
LEMMA TickStep ==
    ASSUME LogInv, Tick
    PROVE  LogInv'
  <1>1. /\ now' = now + 1
        /\ UNCHANGED <<fileVars, logRunning, owner, logPc, frontVars, backVars, lost>>
    BY DEF Tick
  <1>2. LoggingTypes'
    BY <1>1 DEF LogInv, LoggingTypes, frontVars, backVars
  <1>3. BufferPlaces'
    BY <1>1 DEF LogInv, BufferPlaces, frontVars, backVars, fileVars
  <1>4. FilesKnown'
    <2>1. FilesInTime(files, lastRoll, now + 1)
      BY LaterInTime DEF LogInv, FilesKnown
    <2> QED BY <1>1, <2>1 DEF LogInv, FilesKnown, fileVars
  <1>5. LinesAccounted'
    BY <1>1, AccountedNow DEF LogInv, fileVars, frontVars, backVars
  <1> QED BY <1>2, <1>3, <1>4, <1>5 DEF LogInv

(* A flush.                                                                *)
LEMMA FlushKeeps ==
    ASSUME FilesKnown, flush, now' = now
    PROVE  FilesKnown' /\ files' = files
  <1>1. /\ UNCHANGED <<files, writtenBytes, count, startOfPeriod, lastRoll, lastFlush>>
        /\ unflushed' = 0
    BY DEF flush
  <1> QED BY <1>1 DEF FilesKnown

(* The thread ends.                                                        *)
LEMMA ThreadEndsStep ==
    ASSUME LogInv, ThreadEnds
    PROVE  LogInv'
  <1>1. /\ logPc = "last" /\ flush /\ logPc' = "ended"
        /\ UNCHANGED <<now, owner, frontVars, backVars, lost>>
    BY DEF ThreadEnds
  <1>2. FilesKnown' /\ files' = files
    BY <1>1, FlushKeeps DEF LogInv
  <1>3. LoggingTypes'
    BY <1>1 DEF LogInv, LoggingTypes, frontVars, backVars, LogPlaces
  <1>4. BufferPlaces'
    BY <1>1, <1>2 DEF LogInv, BufferPlaces, frontVars, backVars
  <1>5. LinesAccounted'
    BY <1>1, <1>2, AccountedNow DEF LogInv, frontVars, backVars
  <1> QED BY <1>2, <1>3, <1>4, <1>5 DEF LogInv

(* The thread begins with a file and its two buffers.                      *)
LEMMA ThreadStartsStep ==
    ASSUME LogInv, ThreadStarts
    PROVE  LogInv'
  <1>1. /\ logPc = "start" /\ rollFile(files, writtenBytes, unflushed)
        /\ spare1' = Empty /\ spare2' = Empty /\ logPc' = "loop"
        /\ UNCHANGED <<now, count, owner, frontVars, toWrite, done, lost>>
    BY DEF ThreadStarts
  <1>2. FilesKnown' /\ files' # <<>> /\ files' \in {files, Append(files, NewFile)}
    BY <1>1, FirstRoll DEF LogInv
  <1>3. LoggingTypes'
    BY <1>1 DEF LogInv, LoggingTypes, frontVars, LogPlaces
  <1>4. BufferPlaces'
    BY <1>1, <1>2 DEF LogInv, BufferPlaces, frontVars
  <1>5. LinesAccounted'
    <2> DEFINE P == Queue(toWrite, done, buffers, current)
    <2>1. LinesPlaced(files, P, lost, appended)
      BY AccountedNow DEF LogInv
    <2>2. files \in Seq(FileOf) /\ now \in Nat
      BY DEF LogInv, FilesKnown, FilesInTime
    <2>3. NewFile \in FileOf /\ NewFile.chunks = <<>>
      BY <2>2 DEF NewFile, FileOf
    <2>4. FilesSorted(files)
      BY <2>1 DEF LinesPlaced
    <2>5. FilesSorted(files') /\ LinesOfFiles(files') = LinesOfFiles(files)
      BY <1>2, <2>2, <2>3, <2>4, RollSorted
    <2>6. LinesPlaced(files', P, lost, appended)
      BY <2>1, <2>5 DEF LinesPlaced
    <2>7. UNCHANGED <<toWrite, done, buffers, current, lost, appended>>
      BY <1>1 DEF frontVars
    <2> QED BY <2>6, <2>7, AccountedNow
  <1> QED BY <1>2, <1>3, <1>4, <1>5 DEF LogInv

(* What holds of the buffers in any state of LogInv.                       *)
BuffersNow(T, d, B, c, P) ==
    /\ T \in Seq(BufferOf) /\ d \in 0 .. Len(T) /\ B \in Seq(BufferOf) /\ c \in BufferOf
    /\ P = Queue(T, d, B, c)
    /\ LinesPlaced(files, P, lost, appended)
    /\ IsQueue(P, T, d, B, c, Len(T) - d, Len(B))
    /\ appended \in Nat /\ lost \subseteq 1 .. appended

(* It follows from the types and LinesAccounted.                           *)
LEMMA BuffersAre ==
    ASSUME LogInv, NEW T, T = toWrite, NEW d, d = done, NEW B, B = buffers, NEW c, c = current,
           NEW P, P = Queue(toWrite, done, buffers, current)
    PROVE  BuffersNow(T, d, B, c, P)
  <1>1. /\ T \in Seq(BufferOf) /\ d \in 0 .. Len(T) /\ B \in Seq(BufferOf) /\ c \in BufferOf
        /\ appended \in Nat
    BY DEF LogInv, LoggingTypes
  <1>2. LinesPlaced(files, P, lost, appended)
    BY AccountedNow DEF LogInv
  <1>3. IsQueue(P, T, d, B, c, Len(T) - d, Len(B))
    BY <1>1, QueueIs
  <1>4. lost \subseteq 1 .. appended
    BY <1>2 DEF LinesPlaced
  <1> QED BY <1>1, <1>2, <1>3, <1>4 DEF BuffersNow

(* The buffers are exchanged: the thread has them all, and an empty one    *)
(* comes behind them.                                                      *)
LEMMA SwapStep ==
    ASSUME LogInv, Swap
    PROVE  LogInv'
  <1> DEFINE T == toWrite
             d == done
             B == buffers
             c == current
             P == Queue(toWrite, done, buffers, current)
             U == Append(B, c)
             Q == Queue(U, 0, <<>>, Empty)
             q == Len(B)
  <1>1. /\ logPc \in {"lock", "waited"} /\ logPc' = "check" /\ owner' = owner
        /\ logPc = "waited" \/ buffers # <<>>
        /\ toWrite' = U /\ buffers' = <<>> /\ current' = spare1 /\ spare1' = NoBuffer
        /\ next' = NextAfterSwap /\ spare2' = IF next = NoBuffer THEN NoBuffer ELSE spare2
        /\ done' = 0
        /\ UNCHANGED <<now, fileVars, appended, lost>>
    BY DEF Swap
  <1>2. BuffersNow(T, d, B, c, P)
    BY BuffersAre
  <1>3. /\ spare1 = Empty /\ spare2 = Empty /\ toWrite = <<>>
        /\ next \in {Empty, NoBuffer} /\ (next = NoBuffer => buffers # <<>>)
        /\ files # <<>> /\ owner # "new"
    BY <1>1 DEF LogInv, LoggingTypes, BufferPlaces
  <1>4. /\ B \in Seq(BufferOf) /\ c \in BufferOf
        /\ LinesPlaced(files, P, lost, appended)
        /\ IsQueue(P, T, d, B, c, Len(T) - d, Len(B))
        /\ d \in 0 .. Len(T)
    BY <1>2 DEF BuffersNow
  <1>5. Len(T) - d = 0 /\ d = 0
    <2>1. Len(T) = 0
      BY <1>3
    <2>2. d = 0
      BY <1>4, <2>1
    <2> QED BY <2>1, <2>2
  <1>6. Empty \in BufferOf /\ NoBuffer \notin BufferOf
    BY IsABuffer
  <1>7. /\ U \in Seq(BufferOf) /\ Len(U) = q + 1 /\ q \in Nat /\ U[q + 1] = c
        /\ \A i \in 1 .. q : U[i] = B[i]
    <2>1. q \in Nat
      BY <1>4, LenProperties
    <2> QED BY <1>4, <2>1, AppendProperties
  <1>8. /\ DOMAIN P = 1 .. q + 1
        /\ \A j \in 1 .. q : P[j] = B[j]
        /\ P[q + 1] = c
    <2>1. IsQueue(P, T, d, B, c, 0, q)
      BY <1>4, <1>5
    <2>2. /\ DOMAIN P = 1 .. 0 + q + 1
          /\ \A j \in 1 .. q : P[0 + j] = B[j]
          /\ P[0 + q + 1] = c
      BY <2>1 DEF IsQueue
    <2>3. 0 + q = q /\ \A j \in 1 .. q : 0 + j = j
      BY <1>7
    <2> QED BY <2>2, <2>3
  <1> HIDE DEF T, d, B, c, P, U, q
  <1>9. /\ DOMAIN Q = 1 .. (q + 1) + 1
        /\ \A i \in 1 .. q + 1 : Q[i] = U[i]
        /\ Q[(q + 1) + 1] = Empty
    <2>1. <<>> \in Seq(BufferOf) /\ Len(<<>>) = 0
      BY EmptySeq
    <2>2. 0 \in 0 .. Len(U) /\ Len(U) - 0 = q + 1
      BY <1>7
    <2>3. IsQueue(Q, U, 0, <<>>, Empty, q + 1, 0)
      BY <1>6, <1>7, <2>1, <2>2, QueueIs
    <2>4. /\ DOMAIN Q = 1 .. q + 1 + 0 + 1
          /\ \A i \in 1 .. q + 1 : Q[i] = U[0 + i]
          /\ Q[q + 1 + 0 + 1] = Empty
      BY <2>3 DEF IsQueue
    <2>5. q + 1 + 0 + 1 = (q + 1) + 1 /\ \A i \in 1 .. q + 1 : 0 + i = i
      BY <1>7
    <2> QED BY <2>4, <2>5
  <1> HIDE DEF Q
  <1>10. \A i \in 1 .. q + 1 : Q[i] = P[i]
    <2> TAKE i \in 1 .. q + 1
    <2>1. i \in 1 .. q \/ i = q + 1
      BY <1>7
    <2> QED BY <1>7, <1>8, <1>9, <2>1
  <1>11. LinesPlaced(files, Q, lost, appended)
    <2>1. q + 1 \in Nat
      BY <1>7
    <2> QED BY <1>4, <1>8, <1>9, <1>10, <2>1, BufferAdded
  <1>12. LinesAccounted'
    <2>1. Queue(toWrite', done', buffers', current') = Q
      BY <1>1, <1>3 DEF Q
    <2>2. files' = files /\ lost' = lost /\ appended' = appended
      BY <1>1 DEF fileVars
    <2> QED BY <1>11, <2>1, <2>2, AccountedNow
  <1>13. /\ next' = Empty /\ spare2' \in {Empty, NoBuffer}
         /\ spare2' = NoBuffer => next = NoBuffer
    BY <1>1, <1>3, <1>6 DEF NextAfterSwap
  <1>14. LoggingTypes'
    <2>1. toWrite' \in Seq(BufferOf) /\ done' \in 0 .. Len(toWrite')
      BY <1>1, <1>7
    <2>2. buffers' \in Seq(BufferOf)
      BY <1>1, EmptySeq
    <2>3. current' \in BufferOf /\ {next, spare1, spare2}' \subseteq {Empty, NoBuffer}
      BY <1>1, <1>3, <1>6, <1>13
    <2>4. logPc' \in LogPlaces /\ appended' \in Nat
      BY <1>1 DEF LogPlaces, LogInv, LoggingTypes
    <2> QED BY <2>1, <2>2, <2>3, <2>4 DEF LoggingTypes
  <1>15. BufferPlaces'
    <2>1. Len(toWrite') >= 1
      BY <1>1, <1>7
    <2>2. spare2' = NoBuffer => Len(toWrite') >= 2
      <3> SUFFICES ASSUME spare2' = NoBuffer PROVE Len(toWrite') >= 2
        OBVIOUS
      <3>1. B # <<>>
        BY <1>3, <1>13 DEF B
      <3>2. q # 0
        BY <1>4, <3>1, EmptySeq DEF q
      <3> QED BY <1>1, <1>7, <3>2
    <2>3. next' # NoBuffer /\ files' # <<>> /\ owner' # "new"
      BY <1>1, <1>3, <1>6, <1>13 DEF fileVars
    <2>4. Len(toWrite') >= IF spare2' = NoBuffer THEN 2 ELSE 1
      BY <2>1, <2>2
    <2> QED BY <1>1, <2>3, <2>4 DEF BufferPlaces
  <1>16. FilesKnown'
    BY <1>1 DEF LogInv, FilesKnown, fileVars
  <1> QED BY <1>12, <1>14, <1>15, <1>16 DEF LogInv

(* The two buffers that are kept are empty again.                          *)
LEMMA RecycleStep ==
    ASSUME LogInv, Recycle
    PROVE  LogInv'
  <1>1. /\ logPc = "write" /\ done = Len(toWrite) /\ logPc' = "loop" /\ owner' = owner
        /\ spare1' = Empty /\ spare2' = IF spare2 = NoBuffer THEN Empty ELSE spare2
        /\ toWrite' = <<>> /\ done' = 0 /\ flush
        /\ UNCHANGED <<now, frontVars, lost>>
    BY DEF Recycle, Reset
  <1>2. FilesKnown' /\ files' = files
    BY <1>1, FlushKeeps DEF LogInv
  <1>3. LoggingTypes'
    <2>1. toWrite' \in Seq(BufferOf) /\ done' \in 0 .. Len(toWrite')
      BY <1>1, EmptySeq
    <2>2. {next, spare1, spare2}' \subseteq {Empty, NoBuffer}
      BY <1>1 DEF LogInv, LoggingTypes, frontVars
    <2> QED BY <1>1, <2>1, <2>2 DEF LogInv, LoggingTypes, frontVars, LogPlaces
  <1>4. BufferPlaces'
    <2>1. spare2' = Empty
      BY <1>1 DEF LogInv, LoggingTypes
    <2> QED BY <1>1, <1>2, <2>1 DEF LogInv, BufferPlaces, frontVars
  <1>5. LinesAccounted'
    <2>1. Len(toWrite) \in Nat
      BY LenProperties DEF LogInv, LoggingTypes
    <2>2. SubSeq(toWrite, Len(toWrite) + 1, Len(toWrite)) = <<>>
      BY <2>1, SubSeqEmpty
    <2>3. SubSeq(<<>>, 0 + 1, Len(<<>>)) = <<>>
      BY SubSeqEmpty
    <2>4. Queue(toWrite', done', buffers', current') = Queue(toWrite, done, buffers, current)
      BY <1>1, <2>2, <2>3 DEF Queue, frontVars
    <2> QED BY <1>1, <1>2, <2>4, AccountedNow DEF LogInv, frontVars
  <1> QED BY <1>2, <1>3, <1>4, <1>5 DEF LogInv

(* append(): the line gets into the last buffer, which may be a new one,   *)
(* or is lost as no buffer holds it.                                       *)
LEMMA AppendLineStep ==
    ASSUME LogInv, NEW n \in Lengths, AppendLine(n)
    PROVE  LogInv'
  <1> DEFINE T == toWrite
             d == done
             B == buffers
             c == current
             P == Queue(toWrite, done, buffers, current)
             m == appended
             line == Line(m + 1, n)
             noRoom == ~Fits(c, n)
             into == IF ~noRoom THEN c ELSE IF next # NoBuffer THEN next ELSE Empty
             U == IF noRoom THEN Append(B, c) ELSE B
             x == AddTo(into, line)
             M == Queue(T, d, U, into)
             Q == Queue(T, d, U, x)
             r == Len(T) - d
             q == Len(U)
  <1>1. /\ appended' = m + 1 /\ current' = x /\ buffers' = U
        /\ next' = IF noRoom THEN NoBuffer ELSE next
        /\ lost' = IF Fits(into, n) THEN lost ELSE lost \cup {line.id}
        /\ UNCHANGED <<now, fileVars, owner, logPc, backVars>>
    BY DEF AppendLine
  <1>2. BuffersNow(T, d, B, c, P)
    BY BuffersAre
  <1>3. /\ T \in Seq(BufferOf) /\ d \in 0 .. Len(T) /\ B \in Seq(BufferOf) /\ c \in BufferOf
        /\ LinesPlaced(files, P, lost, m)
        /\ IsQueue(P, T, d, B, c, r, Len(B))
        /\ m \in Nat /\ lost \subseteq 1 .. m
    BY <1>2 DEF BuffersNow
  <1>4. Empty \in BufferOf /\ NoBuffer \notin BufferOf /\ next \in {Empty, NoBuffer}
    BY IsABuffer DEF LogInv, LoggingTypes
  <1>5. into \in BufferOf /\ (noRoom => into = Empty) /\ (~noRoom => into = c)
    BY <1>3, <1>4
  <1>6. line \in RealLine /\ line.id = m + 1 /\ line.len = n
    <2>1. n \in Nat
      BY LoggingAssumption
    <2> QED BY <1>3, <2>1 DEF Line, RealLine
  <1>7. x = IF Fits(into, n) THEN [lines |-> Append(into.lines, line)] ELSE into
    BY <1>6 DEF AddTo
  <1>8. x \in BufferOf
    <2> HIDE DEF line, into, noRoom
    <2>1. into.lines \in Seq(RealLine)
      BY <1>5, LinesAreNat
    <2>2. Append(into.lines, line) \in Seq(RealLine)
      BY <1>6, <2>1, AppendProperties
    <2> QED BY <1>5, <1>7, <2>2 DEF BufferOf
  <1>9. U \in Seq(BufferOf) /\ q \in Nat /\ r \in Nat
        /\ (noRoom => q = Len(B) + 1 /\ U[q] = c /\ \A j \in 1 .. Len(B) : U[j] = B[j])
        /\ (~noRoom => U = B) /\ (noRoom => U # <<>>)
    <2> HIDE DEF noRoom
    <2>1. Len(B) \in Nat /\ Len(T) \in Nat
      BY <1>3, LenProperties
    <2>2. r \in Nat
      BY <1>3, <2>1
    <2>3. CASE noRoom
      <3>1. U = Append(B, c)
        BY <2>3
      <3>2. /\ Append(B, c) \in Seq(BufferOf) /\ Len(Append(B, c)) = Len(B) + 1
            /\ Append(B, c)[Len(B) + 1] = c /\ \A j \in 1 .. Len(B) : Append(B, c)[j] = B[j]
        BY <1>3, AppendProperties
      <3>3. Append(B, c) # <<>>
        BY <2>1, <3>2, EmptySeq
      <3> QED BY <2>1, <2>2, <2>3, <3>1, <3>2, <3>3
    <2>4. CASE ~noRoom
      <3>1. U = B
        BY <2>4
      <3> QED BY <1>3, <2>1, <2>2, <2>4, <3>1
    <2> QED BY <2>3, <2>4
  <1> HIDE DEF T, d, B, c, P, m, line, noRoom, into, U, x, r, q
  <1>10. IsQueue(M, T, d, U, into, r, q) /\ IsQueue(Q, T, d, U, x, r, q)
    BY <1>3, <1>5, <1>8, <1>9, QueueIs DEF r, q
  <1> HIDE DEF M, Q
  <1>11. /\ M \in Seq(BufferOf) /\ DOMAIN M = 1 .. r + q + 1 /\ d \in Nat
         /\ \A i \in 1 .. r : M[i] = T[d + i]
         /\ \A j \in 1 .. q : M[r + j] = U[j]
         /\ M[r + q + 1] = into
    BY <1>10 DEF IsQueue
  <1>12. /\ DOMAIN Q = 1 .. r + q + 1
         /\ \A i \in 1 .. r : Q[i] = T[d + i]
         /\ \A j \in 1 .. q : Q[r + j] = U[j]
         /\ Q[r + q + 1] = x
    BY <1>10 DEF IsQueue
  <1>13. LinesPlaced(files, M, lost, m)
    <2>1. CASE ~noRoom
      <3>1. M = P
        BY <1>5, <1>9, <2>1 DEF M, P, T, d, B, c
      <3> QED BY <1>3, <3>1
    <2>2. CASE noRoom
      <3> DEFINE k == Len(B)
      <3>1. /\ DOMAIN P = 1 .. r + k + 1
            /\ \A i \in 1 .. r : P[i] = T[d + i]
            /\ \A j \in 1 .. k : P[r + j] = B[j]
            /\ P[r + k + 1] = c /\ k \in Nat
        BY <1>3 DEF IsQueue
      <3>2. q = k + 1 /\ U[q] = c /\ \A j \in 1 .. k : U[j] = B[j]
        BY <1>9, <2>2
      <3> HIDE DEF k
      <3>3. \A i \in 1 .. r + k + 1 : M[i] = P[i]
        <4> TAKE i \in 1 .. r + k + 1
        <4>1. CASE i \in 1 .. r
          BY <1>11, <3>1, <4>1
        <4>2. CASE i > r /\ i <= r + k
          <5>1. i - r \in 1 .. k /\ i - r \in 1 .. q /\ r + (i - r) = i
            BY <1>9, <3>1, <3>2, <4>2
          <5> QED BY <1>11, <3>1, <3>2, <5>1
        <4>3. CASE i = r + k + 1
          <5>1. i = r + q /\ q \in 1 .. q
            BY <1>9, <3>1, <3>2, <4>3
          <5>2. M[i] = U[q]
            BY <1>11, <5>1
          <5> QED BY <3>1, <3>2, <4>3, <5>2
        <4>4. i \in 1 .. r \/ (i > r /\ i <= r + k) \/ i = r + k + 1
          BY <1>9, <3>1
        <4> QED BY <4>1, <4>2, <4>3, <4>4
      <3>4. DOMAIN M = 1 .. (r + k + 1) + 1 /\ M[(r + k + 1) + 1] = Empty
        <4>1. r + q + 1 = (r + k + 1) + 1
          BY <1>9, <3>1, <3>2
        <4> QED BY <1>5, <1>11, <2>2, <4>1
      <3>5. r + k + 1 \in Nat
        BY <1>9, <3>1
      <3> QED BY <1>3, <3>1, <3>3, <3>4, <3>5, BufferAdded
    <2> QED BY <2>1, <2>2
  <1> DEFINE p == r + q + 1
  <1>14. p \in Nat /\ p > 0 /\ DOMAIN M = 1 .. p /\ DOMAIN Q = 1 .. p /\ M[p] = into /\ Q[p] = x
    BY <1>9, <1>11, <1>12
  <1>15. \A i \in 1 .. p : i # p => Q[i] = M[i]
    <2> TAKE i \in 1 .. p
    <2> HAVE i # p
    <2>1. CASE i \in 1 .. r
      BY <1>11, <1>12, <2>1
    <2>2. CASE i > r
      <3>1. i - r \in 1 .. q /\ r + (i - r) = i
        BY <1>9, <2>2
      <3> QED BY <1>11, <1>12, <3>1
    <2>3. i \in 1 .. r \/ i > r
      BY <1>9
    <2> QED BY <2>1, <2>2, <2>3
  <1> HIDE DEF p
  <1>16. LinesAccounted'
    <2>1. LinesPlaced(files, Q, lost', m + 1)
      <3>1. CASE Fits(into, n)
        <4>1. Q[p] = [lines |-> Append(M[p].lines, line)] /\ lost' = lost
          BY <1>1, <1>7, <1>14, <3>1
        <4>2. LinesPlaced(files, Q, lost, m + 1)
          BY <1>3, <1>6, <1>11, <1>13, <1>14, <1>15, <4>1, LineAdded
        <4> QED BY <4>1, <4>2
      <3>2. CASE ~Fits(into, n)
        <4>1. x = into /\ lost' = lost \cup {m + 1}
          BY <1>1, <1>6, <1>7, <3>2
        <4>2. Q = M
          BY <4>1 DEF Q, M
        <4>3. LinesPlaced(files, M, lost \cup {m + 1}, m + 1)
          BY <1>3, <1>13, LineLost
        <4> QED BY <4>1, <4>2, <4>3
      <3> QED BY <3>1, <3>2
    <2>2. Queue(toWrite', done', buffers', current') = Q
      BY <1>1 DEF Q, T, d, backVars
    <2>3. files' = files
      BY <1>1 DEF fileVars
    <2> QED BY <1>1, <2>1, <2>2, <2>3, AccountedNow
  <1>17. LoggingTypes'
    <2>1. UNCHANGED <<spare1, spare2, toWrite, done, logPc>>
      BY <1>1 DEF backVars
    <2>2. current' \in BufferOf /\ buffers' \in Seq(BufferOf) /\ appended' \in Nat
      BY <1>1, <1>3, <1>8, <1>9
    <2>3. next' \in {Empty, NoBuffer}
      BY <1>1, <1>4
    <2> QED BY <2>1, <2>2, <2>3 DEF LogInv, LoggingTypes
  <1>18. BufferPlaces'
    <2>1. UNCHANGED <<files, spare1, spare2, toWrite, done, owner, logPc>>
      BY <1>1 DEF backVars, fileVars
    <2>2. next' = NoBuffer => buffers' # <<>>
      <3>1. CASE noRoom
        BY <1>1, <1>9, <3>1
      <3>2. CASE ~noRoom
        BY <1>1, <1>9, <3>2 DEF LogInv, BufferPlaces, B
      <3> QED BY <3>1, <3>2
    <2> QED BY <2>1, <2>2 DEF LogInv, BufferPlaces
  <1>19. FilesKnown'
    BY <1>1 DEF LogInv, FilesKnown, fileVars
  <1> QED BY <1>16, <1>17, <1>18, <1>19 DEF LogInv

(* What the thread writes follows what is in the files: s are the lines    *)
(* of the next buffer, or those written before an error.                   *)
LEMMA WriteSome ==
    ASSUME LogInv, logPc = "write", done < Len(toWrite),
           NEW chunk, chunk = toWrite[done + 1].lines,
           NEW k \in 0 .. Len(chunk), NEW s, s = SubSeq(chunk, 1, k),
           NEW rest, rest = SubSeq(chunk, k + 1, Len(chunk)),
           NEW counted \in Nat, AppendUnlocked(s, counted),
           done' = done + 1, lost' = lost \cup Ids(rest),
           UNCHANGED <<now, owner, logPc, frontVars, spare1, spare2, toWrite>>
    PROVE  LogInv'
  <1> DEFINE T == toWrite
             d == done
             B == buffers
             c == current
             P == Queue(toWrite, done, buffers, current)
             Q == Queue(T, d + 1, B, c)
             b == T[d + 1]
             r == Len(T) - d
             q == Len(B)
             p == r + q
  <1>1. BuffersNow(T, d, B, c, P)
    BY BuffersAre
  <1>2. /\ T \in Seq(BufferOf) /\ d \in 0 .. Len(T) /\ B \in Seq(BufferOf) /\ c \in BufferOf
        /\ LinesPlaced(files, P, lost, appended)
        /\ IsQueue(P, T, d, B, c, r, q)
    BY <1>1 DEF BuffersNow
  <1>3. d < Len(T) /\ b.lines = chunk
    OBVIOUS
  <1>4. FilesKnown /\ files # <<>>
    BY DEF LogInv, BufferPlaces
  <1>5. files \in Seq(FileOf) /\ now \in Nat
    BY <1>4 DEF FilesKnown, FilesInTime
  <1> HIDE DEF T, d, B, c, P, Q, b
  <1>6. Len(T) \in Nat /\ d \in Nat /\ q \in Nat /\ r \in Nat /\ r >= 1
    <2>1. Len(T) \in Nat /\ q \in Nat
      BY <1>2, LenProperties
    <2> QED BY <1>2, <1>3, <2>1
  <1>7. d + 1 \in 0 .. Len(T) /\ Len(T) - (d + 1) = r - 1
    BY <1>3, <1>6
  <1>8. IsQueue(Q, T, d + 1, B, c, r - 1, q)
    BY <1>2, <1>7, QueueIs DEF Q
  <1> HIDE DEF r, q
  <1>9. /\ P \in Seq(BufferOf) /\ DOMAIN P = 1 .. r + q + 1
        /\ \A i \in 1 .. r : P[i] = T[d + i]
        /\ \A j \in 1 .. q : P[r + j] = B[j]
        /\ P[r + q + 1] = c
    BY <1>2 DEF IsQueue
  <1>10. /\ DOMAIN Q = 1 .. (r - 1) + q + 1
         /\ \A i \in 1 .. r - 1 : Q[i] = T[(d + 1) + i]
         /\ \A j \in 1 .. q : Q[(r - 1) + j] = B[j]
         /\ Q[(r - 1) + q + 1] = c
    BY <1>8 DEF IsQueue
  <1>11. p \in Nat /\ DOMAIN P = 1 .. p + 1 /\ DOMAIN Q = 1 .. p
    BY <1>6, <1>9, <1>10
  <1>12. \A i \in 1 .. p : Q[i] = P[i + 1]
    <2> TAKE i \in 1 .. p
    <2>1. CASE i <= r - 1
      <3>1. i \in 1 .. r - 1 /\ i + 1 \in 1 .. r /\ (d + 1) + i = d + (i + 1)
        BY <1>6, <2>1
      <3> QED BY <1>9, <1>10, <3>1
    <2>2. CASE i > r - 1 /\ i < p
      <3> DEFINE j == i - (r - 1)
      <3>1. j \in 1 .. q /\ (r - 1) + j = i /\ r + j = i + 1
        BY <1>6, <2>2
      <3> HIDE DEF j
      <3> QED BY <1>9, <1>10, <3>1
    <2>3. CASE i = p
      <3>1. (r - 1) + q + 1 = i /\ r + q + 1 = i + 1
        BY <1>6, <2>3
      <3> QED BY <1>9, <1>10, <3>1
    <2>4. i <= r - 1 \/ (i > r - 1 /\ i < p) \/ i = p
      BY <1>6
    <2> QED BY <2>1, <2>2, <2>3, <2>4
  <1>13. P[1] = b /\ 1 \in DOMAIN P /\ b \in BufferOf
    <2>1. 1 \in 1 .. r /\ 1 \in 1 .. r + q + 1
      BY <1>6
    <2>2. P[1] = b
      BY <1>9, <2>1 DEF b
    <2> QED BY <1>9, <2>1, <2>2, LenProperties, ElementOfSeq
  <1> HIDE DEF p
  <1>14. FilesSorted(files) /\ BuffersSorted(P)
         /\ \A x \in LinesOfFiles(files), y \in LinesOfBuffers(P) : x < y
    BY <1>2 DEF LinesPlaced
  <1>15. Rising(b.lines)
    BY <1>13, <1>14 DEF BuffersSorted
  <1>16. /\ s \in Seq(AnyLine) /\ Rising(s) /\ Ids(s) \ {0} = Ids(s)
         /\ Ids(s) \cup Ids(rest) = LinesIn(b) /\ Ids(s) \cap Ids(rest) = {}
    <2>1. /\ k \in 0 .. Len(b.lines) /\ s = SubSeq(b.lines, 1, k)
          /\ rest = SubSeq(b.lines, k + 1, Len(b.lines))
      BY <1>3
    <2>2. b \in BufferOf
      BY <1>13
    <2> QED BY <1>15, <2>1, <2>2, InTwoParts, ZenonT(30)
  <1>17. /\ FilesKnown' /\ files' # <<>>
         /\ files' \in {ChunkPut(files, s, now), Append(ChunkPut(files, s, now), NewFile)}
    BY <1>4, <1>16, PutOrRolled
  <1>18. FilesSorted(files') /\ LinesOfFiles(files') = LinesOfFiles(files) \cup Ids(s)
    <2>1. \A x \in LinesOfFiles(files), y \in Ids(s) \ {0} : x < y
      <3>1. \A y \in Ids(s) : y \in LinesOfBuffers(P)
        BY <1>13, <1>16, InSomeBuffer
      <3> QED BY <1>14, <3>1
    <2> DEFINE H == ChunkPut(files, s, now)
    <2>2. s \in Seq(AnyLine) /\ Rising(s)
      BY <1>16
    <2>3. files \in Seq(FileOf) /\ files # <<>> /\ FilesSorted(files) /\ now \in Nat
      BY <1>4, <1>5, <1>14
    <2>4. FilesSorted(H) /\ LinesOfFiles(H) = LinesOfFiles(files) \cup (Ids(s) \ {0})
      BY <2>1, <2>2, <2>3, PutSorted, ZenonT(30)
    <2>5. files' = H \/ files' = Append(H, NewFile)
      BY <1>17
    <2>6. H \in Seq(FileOf)
      BY <2>2, <2>3, PutFiles
    <2>7. NewFile \in FileOf /\ NewFile.chunks = <<>>
      BY <1>5 DEF NewFile, FileOf
    <2> HIDE DEF H
    <2>8. FilesSorted(files') /\ LinesOfFiles(files') = LinesOfFiles(H)
      BY <2>4, <2>5, <2>6, <2>7, RollSorted
    <2> QED BY <1>16, <2>4, <2>8
  <1>19. LinesAccounted'
    <2>1. Ids(s) \cup Ids(rest) = LinesIn(P[1])
      BY <1>13, <1>16
    <2>2. LinesPlaced(files', Q, lost \cup Ids(rest), appended)
      <3>1. P \in Seq(BufferOf) /\ LinesPlaced(files, P, lost, appended)
        BY <1>2, <1>9
      <3>2. Ids(s) \cap Ids(rest) = {}
        BY <1>16
      <3> QED BY <1>11, <1>12, <1>18, <2>1, <3>1, <3>2, HeadWritten, ZenonT(30)
    <2>3. Queue(toWrite', done', buffers', current') = Q
      BY DEF Q, T, d, B, c, frontVars
    <2>4. lost' = lost \cup Ids(rest) /\ appended' = appended
      BY DEF frontVars
    <2> QED BY <2>2, <2>3, <2>4, AccountedNow
  <1>20. LoggingTypes'
    <2>1. UNCHANGED <<logPc, appended, current, buffers, toWrite, next, spare1, spare2>>
      BY DEF frontVars
    <2>2. done' \in 0 .. Len(toWrite')
      BY <1>7, <2>1 DEF d, T
    <2> QED BY <2>1, <2>2 DEF LogInv, LoggingTypes
  <1>21. BufferPlaces'
    <2>1. UNCHANGED <<owner, logPc, buffers, toWrite, next, spare1, spare2>>
      BY DEF frontVars
    <2> QED BY <1>17, <2>1 DEF LogInv, BufferPlaces
  <1> QED BY <1>17, <1>19, <1>20, <1>21 DEF LogInv

(* The whole next buffer.                                                  *)
LEMMA WriteBufferStep ==
    ASSUME LogInv, WriteBuffer
    PROVE  LogInv'
  <1> DEFINE b == toWrite[done + 1]
             chunk == b.lines
             m == Len(chunk)
  <1>1. /\ logPc = "write" /\ done < Len(toWrite)
        /\ AppendUnlocked(chunk, Bytes(chunk)) /\ done' = done + 1
        /\ UNCHANGED <<now, owner, logPc, frontVars, spare1, spare2, toWrite, lost>>
    BY DEF WriteBuffer, append
  <1>2. b \in BufferOf
    <2>1. toWrite \in Seq(BufferOf) /\ done \in 0 .. Len(toWrite)
      BY DEF LogInv, LoggingTypes
    <2>2. done + 1 \in 1 .. Len(toWrite)
      BY <1>1, <2>1, LenProperties
    <2> QED BY <2>1, <2>2, ElementOfSeq
  <1>3. chunk \in Seq(RealLine)
    BY <1>2, LinesAreNat
  <1> HIDE DEF chunk
  <1>4. m \in Nat /\ m \in 0 .. m
    BY <1>3, LenProperties
  <1>5. SubSeq(chunk, 1, m) = chunk /\ SubSeq(chunk, m + 1, m) = <<>>
    BY <1>3, <1>4, SubSeqFull, SubSeqEmpty
  <1>6. Ids(<<>>) = {}
    BY DEF Ids
  <1>7. Bytes(chunk) \in Nat
    <2>1. RealLine \subseteq AnyLine
      BY DEF RealLine, AnyLine
    <2>2. \A i \in 1 .. m : chunk[i] \in AnyLine
      BY <1>3, <1>4, <2>1, ElementOfSeq
    <2>3. chunk \in Seq(AnyLine)
      <3>1. SubSeq(chunk, 1, m) \in Seq(AnyLine)
        BY <1>4, <2>2, SubSeqProperties
      <3> QED BY <1>5, <3>1
    <2> QED BY <2>3, BytesAreNat
  <1>8. lost' = lost \cup Ids(<<>>)
    BY <1>1, <1>6
  <1>9. UNCHANGED <<now, owner, logPc, frontVars, spare1, spare2, toWrite>>
    BY <1>1
  <1>10. chunk = toWrite[done + 1].lines
    BY DEF chunk
  <1> QED BY <1>1, <1>4, <1>5, <1>7, <1>8, <1>9, <1>10, WriteSome

(* A part of it.                                                           *)
LEMMA WriteFailsStep ==
    ASSUME LogInv, WriteFails
    PROVE  LogInv'
  <1> DEFINE chunk == toWrite[done + 1].lines
  <1>1. PICK k \in 0 .. Len(chunk) :
            /\ k < Len(chunk)
            /\ AppendUnlocked(SubSeq(chunk, 1, k), 0)
            /\ lost' = lost \cup Ids(SubSeq(chunk, k + 1, Len(chunk)))
    BY DEF WriteFails
  <1>2. /\ logPc = "write" /\ done < Len(toWrite) /\ done' = done + 1
        /\ UNCHANGED <<now, owner, logPc, frontVars, spare1, spare2, toWrite>>
    BY DEF WriteFails
  <1>3. chunk = toWrite[done + 1].lines /\ 0 \in Nat
    OBVIOUS
  <1> HIDE DEF chunk
  <1> QED BY <1>1, <1>2, <1>3, WriteSome

(* With too many buffers the thread keeps two, and writes a notice.        *)
LEMMA CheckPendingStep ==
    ASSUME LogInv, CheckPending
    PROVE  LogInv'
  <1>1. /\ logPc = "check" /\ logPc' = "write" /\ done = 0
        /\ UNCHANGED <<now, owner, frontVars, spare1, spare2, done>>
    BY DEF CheckPending, LogInv, BufferPlaces
  <1>2. UNCHANGED <<current, next, buffers, appended>>
    BY <1>1 DEF frontVars
  <1>3. CASE ~(Len(toWrite) > MaxPending)
    <2>1. UNCHANGED <<toWrite, lost, fileVars>>
      BY <1>3 DEF CheckPending
    <2>2. LoggingTypes'
      BY <1>1, <1>2, <2>1 DEF LogInv, LoggingTypes, LogPlaces
    <2>3. BufferPlaces'
      BY <1>1, <1>2, <2>1 DEF LogInv, BufferPlaces, fileVars
    <2>4. FilesKnown'
      BY <1>1, <2>1 DEF LogInv, FilesKnown, fileVars
    <2>5. LinesAccounted'
      BY <1>1, <1>2, <2>1, AccountedNow DEF LogInv, fileVars
    <2> QED BY <2>2, <2>3, <2>4, <2>5 DEF LogInv
  <1>4. CASE Len(toWrite) > MaxPending
    <2> DEFINE T == toWrite
               d == done
               B == buffers
               c == current
               P == Queue(toWrite, done, buffers, current)
               t == Len(T)
               S == SubSeq(T, 1, 2)
               Q == Queue(S, 0, B, c)
               q == Len(B)
               over == LinesOf(SubSeq(T, 3, Len(T)))
    <2>1. /\ toWrite' = S /\ lost' = lost \cup over
          /\ AppendUnlocked(Notice, Bytes(Notice))
      BY <1>4 DEF CheckPending, append
    <2>2. BuffersNow(T, d, B, c, P)
      BY BuffersAre
    <2>3. /\ T \in Seq(BufferOf) /\ B \in Seq(BufferOf) /\ c \in BufferOf
          /\ LinesPlaced(files, P, lost, appended)
          /\ IsQueue(P, T, 0, B, c, t - 0, q)
      BY <1>1, <2>2 DEF BuffersNow
    <2>4. t \in Nat /\ t >= 3 /\ t - 0 = t /\ q \in Nat
      <3>1. t \in Nat /\ q \in Nat
        BY <2>3, LenProperties
      <3>2. t > MaxPending
        BY <1>4
      <3> HIDE DEF t, q
      <3>3. t >= 3
        BY <3>1, <3>2, LoggingAssumption
      <3> QED BY <3>1, <3>3
    <2>5. \A i \in 1 .. t : T[i] \in BufferOf
      BY <2>3, LenProperties, ElementOfSeq
    <2> HIDE DEF T, d, B, c, t
    <2>6. S \in Seq(BufferOf) /\ Len(S) = 2 /\ S[1] = T[1] /\ S[2] = T[2]
      <3>1. \A i \in 1 .. 2 : T[i] \in BufferOf
        BY <2>4, <2>5
      <3>2. /\ S \in Seq(BufferOf) /\ Len(S) = IF 1 <= 2 THEN 2 - 1 + 1 ELSE 0
            /\ \A i \in 1 .. 2 - 1 + 1 : S[i] = T[1 + i - 1]
        BY <3>1, SubSeqProperties
      <3> HIDE DEF S
      <3>3. 2 - 1 + 1 = 2 /\ 1 \in 1 .. 2 /\ 2 \in 1 .. 2 /\ 1 + 1 - 1 = 1 /\ 1 + 2 - 1 = 2
        OBVIOUS
      <3>4. S[1] = T[1] /\ S[2] = T[2]
        BY <3>2, <3>3
      <3>5. Len(S) = 2
        BY <3>2
      <3> QED BY <3>2, <3>4, <3>5
    <2> HIDE DEF S
    <2>7. IsQueue(Q, S, 0, B, c, 2, q)
      <3>1. 0 \in 0 .. Len(S) /\ Len(S) - 0 = 2
        BY <2>6
      <3> QED BY <2>3, <2>6, <3>1, QueueIs
    <2> HIDE DEF P, Q, q
    <2>8. /\ P \in Seq(BufferOf) /\ DOMAIN P = 1 .. t + q + 1
          /\ \A i \in 1 .. t : P[i] = T[i]
          /\ \A j \in 1 .. q : P[t + j] = B[j]
          /\ P[t + q + 1] = c
      <3>1. IsQueue(P, T, 0, B, c, t, q)
        BY <2>3, <2>4
      <3>2. \A i \in 1 .. t : P[i] = T[0 + i]
        BY <3>1 DEF IsQueue
      <3>3. \A i \in 1 .. t : 0 + i = i
        BY <2>4
      <3> QED BY <3>1, <3>2, <3>3 DEF IsQueue
    <2>9. /\ DOMAIN Q = 1 .. 2 + q + 1
          /\ Q[1] = S[1] /\ Q[2] = S[2]
          /\ \A j \in 1 .. q : Q[2 + j] = B[j]
          /\ Q[2 + q + 1] = c
      <3>1. \A i \in 1 .. 2 : Q[i] = S[0 + i]
        BY <2>7 DEF IsQueue
      <3>2. 1 \in 1 .. 2 /\ 2 \in 1 .. 2 /\ 0 + 1 = 1 /\ 0 + 2 = 2
        OBVIOUS
      <3> QED BY <2>7, <3>1, <3>2 DEF IsQueue
    <2> DEFINE h == [i \in 1 .. 2 + q + 1 |-> IF i <= 2 THEN i ELSE i + (t - 2)]
    <2>10. h \in [1 .. 2 + q + 1 -> 1 .. t + q + 1]
      BY <2>4
    <2>11. \A i, j \in 1 .. 2 + q + 1 : i < j => h[i] < h[j]
      BY <2>4
    <2>12. \A i \in 1 .. 2 + q + 1 : Q[i] = P[h[i]]
      <3> TAKE i \in 1 .. 2 + q + 1
      <3>1. CASE i = 1 \/ i = 2
        <4>1. h[i] = i /\ i \in 1 .. t
          BY <2>4, <3>1
        <4> QED BY <2>6, <2>8, <2>9, <3>1, <4>1
      <3>2. CASE i > 2 /\ i < 2 + q + 1
        <4> DEFINE j == i - 2
        <4>1. j \in 1 .. q /\ 2 + j = i /\ h[i] = t + j
          BY <2>4, <3>2
        <4> HIDE DEF j, h
        <4> QED BY <2>8, <2>9, <4>1
      <3>3. CASE i = 2 + q + 1
        <4>1. h[i] = t + q + 1
          BY <2>4, <3>3
        <4> QED BY <2>8, <2>9, <3>3, <4>1
      <3>4. i = 1 \/ i = 2 \/ (i > 2 /\ i < 2 + q + 1) \/ i = 2 + q + 1
        BY <2>4
      <3> QED BY <3>1, <3>2, <3>3, <3>4
    <2>13. \A i \in 1 .. t + q + 1 : (\A j \in 1 .. 2 + q + 1 : h[j] # i) <=> i \in 3 .. t
      <3> TAKE i \in 1 .. t + q + 1
      <3>1. ASSUME i \notin 3 .. t PROVE \E j \in 1 .. 2 + q + 1 : h[j] = i
        <4>1. CASE i <= 2
          <5>1. i \in 1 .. 2 + q + 1 /\ h[i] = i
            BY <2>4, <4>1
          <5> QED BY <5>1
        <4>2. CASE i > t
          <5>1. i - (t - 2) \in 1 .. 2 + q + 1 /\ h[i - (t - 2)] = i
            BY <2>4, <4>2
          <5> QED BY <5>1
        <4>3. i <= 2 \/ i > t
          BY <2>4, <3>1
        <4> QED BY <4>1, <4>2, <4>3
      <3>2. ASSUME i \in 3 .. t, NEW j \in 1 .. 2 + q + 1 PROVE h[j] # i
        BY <2>4, <3>2
      <3> QED BY <3>1, <3>2
    <2> HIDE DEF h
    <2>14. ASSUME NEW x PROVE x \in over <=> \E i \in 3 .. t : x \in LinesIn(P[i])
      <3> DEFINE R == SubSeq(T, 3, t)
      <3>1. \A i \in 3 .. t : T[i] \in BufferOf /\ P[i] = T[i]
        BY <2>4, <2>5, <2>8
      <3>2. /\ R \in Seq(BufferOf) /\ Len(R) = IF 3 <= t THEN t - 3 + 1 ELSE 0
            /\ \A i \in 1 .. t - 3 + 1 : R[i] = T[3 + i - 1]
        BY <2>4, <3>1, SubSeqProperties
      <3>3. over = LinesOf(R)
        BY DEF t
      <3> HIDE DEF R, over
      <3>4. DOMAIN R = 1 .. t - 2 /\ \A i \in 1 .. t - 2 : R[i] = T[i + 2]
        <4>1. Len(R) = t - 2
          BY <2>4, <3>2
        <4>2. DOMAIN R = 1 .. t - 2
          BY <3>2, <4>1, LenProperties
        <4>3. \A i \in 1 .. t - 2 : i \in 1 .. t - 3 + 1 /\ 3 + i - 1 = i + 2
          BY <2>4
        <4> QED BY <3>2, <4>2, <4>3
      <3>5. \A i \in 3 .. t : LinesIn(P[i]) = Ids(T[i].lines)
        BY <3>1, LinesAreNat
      <3>6. x \in over <=> \E i \in 1 .. t - 2 : x \in Ids(T[i + 2].lines)
        <4>1. over = UNION {Ids(R[i].lines) : i \in DOMAIN R}
          BY <3>3 DEF LinesOf
        <4> QED BY <3>4, <4>1
      <3>7. \A i \in 1 .. t - 2 : i + 2 \in 3 .. t
        BY <2>4
      <3>8. \A i \in 3 .. t : i - 2 \in 1 .. t - 2 /\ (i - 2) + 2 = i
        BY <2>4
      <3>9. ASSUME NEW i \in 3 .. t, x \in LinesIn(P[i]) PROVE x \in over
        BY <3>5, <3>6, <3>8, <3>9
      <3>10. ASSUME x \in over PROVE \E i \in 3 .. t : x \in LinesIn(P[i])
        BY <3>5, <3>6, <3>7, <3>10
      <3> QED BY <3>9, <3>10
    <2> HIDE DEF over
    <2>15. LinesPlaced(files, Q, lost \cup over, appended)
      <3>1. \A i \in 3 .. t : i \in 1 .. t + q + 1
        BY <2>4
      <3>2. \A x : x \in over <=> \E i \in DOMAIN P :
                       (\A j \in DOMAIN Q : h[j] # i) /\ x \in LinesIn(P[i])
        BY <2>8, <2>9, <2>13, <2>14, <3>1
      <3>3. h \in [DOMAIN Q -> DOMAIN P]
        BY <2>8, <2>9, <2>10
      <3>4. \A i, j \in DOMAIN Q : i < j => h[i] < h[j]
        BY <2>9, <2>11
      <3>5. \A i \in DOMAIN Q : Q[i] = P[h[i]]
        BY <2>9, <2>12
      <3>6. P \in Seq(BufferOf) /\ LinesPlaced(files, P, lost, appended)
        BY <2>3, <2>8
      <3> QED BY <3>2, <3>3, <3>4, <3>5, <3>6, Thinned, ZenonT(30)
    <2>16. FilesKnown /\ files # <<>> /\ files \in Seq(FileOf) /\ now \in Nat
      BY <1>1 DEF LogInv, BufferPlaces, FilesKnown, FilesInTime
    <2>17. /\ Notice \in Seq(AnyLine) /\ Rising(Notice) /\ Ids(Notice) \ {0} = {}
           /\ Bytes(Notice) \in Nat
      <3>1. Line(0, 1) \in AnyLine /\ Line(0, 1).id = 0
        BY DEF Line, AnyLine
      <3>2. Notice \in Seq(AnyLine)
        BY <3>1 DEF Notice
      <3>3. DOMAIN Notice = {1} /\ Notice[1].id = 0
        BY <3>1 DEF Notice
      <3>4. Rising(Notice) /\ Ids(Notice) = {0}
        BY <3>3 DEF Rising, Ids
      <3> QED BY <3>2, <3>4, BytesAreNat
    <2>18. /\ FilesKnown' /\ files' # <<>>
           /\ files' \in {ChunkPut(files, Notice, now),
                          Append(ChunkPut(files, Notice, now), NewFile)}
      <3>1. now' = now
        BY <1>1
      <3>2. AppendUnlocked(Notice, Bytes(Notice))
        BY <2>1
      <3> QED BY <2>16, <2>17, <3>1, <3>2, PutOrRolled
    <2>19. FilesSorted(files') /\ LinesOfFiles(files') = LinesOfFiles(files)
      <3> DEFINE H == ChunkPut(files, Notice, now)
      <3>1. FilesSorted(files)
        BY <2>3 DEF LinesPlaced
      <3>2. \A x \in LinesOfFiles(files), y \in Ids(Notice) \ {0} : x < y
        BY <2>17
      <3>3. FilesSorted(H) /\ LinesOfFiles(H) = LinesOfFiles(files) \cup (Ids(Notice) \ {0})
        BY <2>16, <2>17, <3>1, <3>2, PutSorted, ZenonT(30)
      <3>4. files' = H \/ files' = Append(H, NewFile)
        BY <2>18
      <3>5. H \in Seq(FileOf)
        BY <2>16, <2>17, PutFiles
      <3>6. NewFile \in FileOf /\ NewFile.chunks = <<>>
        BY <2>16 DEF NewFile, FileOf
      <3> HIDE DEF H
      <3>7. FilesSorted(files') /\ LinesOfFiles(files') = LinesOfFiles(H)
        BY <3>3, <3>4, <3>5, <3>6, RollSorted
      <3> QED BY <2>17, <3>3, <3>7
    <2>20. LinesAccounted'
      <3>1. LinesPlaced(files', Q, lost \cup over, appended)
        BY <2>15, <2>19 DEF LinesPlaced
      <3>2. Queue(toWrite', done', buffers', current') = Q
        BY <1>1, <1>2, <2>1 DEF Q, B, c
      <3> QED BY <1>2, <2>1, <3>1, <3>2, AccountedNow
    <2>21. LoggingTypes'
      <3>1. toWrite' \in Seq(BufferOf) /\ done' \in 0 .. Len(toWrite')
        BY <1>1, <2>1, <2>6
      <3> QED BY <1>1, <1>2, <3>1 DEF LogInv, LoggingTypes, LogPlaces
    <2>22. BufferPlaces'
      <3>1. Len(toWrite') = 2
        BY <2>1, <2>6
      <3>2. Len(toWrite') >= IF spare2' = NoBuffer THEN 2 ELSE 1
        BY <3>1
      <3> QED BY <1>1, <1>2, <2>18, <3>2 DEF LogInv, BufferPlaces
    <2> QED BY <2>18, <2>20, <2>21, <2>22 DEF LogInv
  <1> QED BY <1>3, <1>4

(* Every step of the logging.                                              *)
LEMMA LoggingGoesOn == LogInv /\ LoggingNext => LogInv'
  <1> SUFFICES ASSUME LogInv, LoggingNext PROVE LogInv'
    OBVIOUS
  <1>1. ASSUME NEW n \in Lengths, AppendLine(n) PROVE LogInv'
    BY <1>1, AppendLineStep
  <1> QED
    BY <1>1, OwnerSteps, LookSteps, TickStep, ThreadEndsStep, ThreadStartsStep, SwapStep,
       RecycleStep, WriteBufferStep, WriteFailsStep, CheckPendingStep
       DEF LoggingNext, ThreadStep

(* Logging begins with no file and an empty buffer.                        *)
LEMMA LoggingBegins == LoggingInit => LogInv
  <1> SUFFICES ASSUME LoggingInit PROVE LogInv
    OBVIOUS
  <1>1. /\ now = 1 /\ files = <<>> /\ writtenBytes = 0 /\ count = 0
        /\ startOfPeriod = 0 /\ lastRoll = 0 /\ lastFlush = 0 /\ unflushed = 0
        /\ owner = "new" /\ logPc = "new"
        /\ current = Empty /\ next = Empty /\ buffers = <<>>
        /\ spare1 = NoBuffer /\ spare2 = NoBuffer /\ toWrite = <<>> /\ done = 0
        /\ appended = 0 /\ lost = {}
    BY DEF LoggingInit, LogFileInit
  <1>2. Empty \in BufferOf /\ NoBuffer \notin BufferOf
    BY IsABuffer
  <1>3. LoggingTypes
    <2>1. <<>> \in Seq(BufferOf) /\ 0 \in 0 .. Len(<<>>)
      BY EmptySeq
    <2> QED BY <1>1, <1>2, <2>1 DEF LoggingTypes, LogPlaces
  <1>4. BufferPlaces
    BY <1>1, <1>2 DEF BufferPlaces
  <1>5. FilesKnown
    <2>1. FilesInTime(files, lastRoll, now)
      <3>1. files \in Seq(FileOf) /\ DOMAIN files = {}
        BY <1>1, EmptySeq
      <3> QED BY <1>1, <3>1 DEF FilesInTime
    <2>2. FewLate(files, count)
      <3>1. DOMAIN files = {} /\ 0 < CheckEveryN
        BY <1>1, LogFileAssumption
      <3> QED BY <1>1, <3>1 DEF FewLate, SomeLate
    <2>3. PeriodOf(0) = 0
      <3> DEFINE p == Period
      <3>1. p \in Nat /\ p > 0
        BY LogFileAssumption
      <3> HIDE DEF p
      <3>2. 0 \div p = 0
        BY <3>1
      <3>3. (0 \div p) * p = 0
        BY <3>1, <3>2
      <3> QED BY <3>3 DEF PeriodOf, p
    <2> QED BY <1>1, <2>1, <2>2, <2>3 DEF FilesKnown
  <1>6. LinesAccounted
    <2> DEFINE P == Queue(<<>>, 0, <<>>, Empty)
    <2>1. <<>> \in Seq(BufferOf) /\ Len(<<>>) = 0 /\ 0 \in 0 .. Len(<<>>) /\ 0 = Len(<<>>) - 0
      BY EmptySeq
    <2>2. IsQueue(P, <<>>, 0, <<>>, Empty, 0, 0)
      BY <1>2, <2>1, QueueIs
    <2> HIDE DEF P
    <2>3. DOMAIN P = {1} /\ P[1] = Empty
      <3>1. DOMAIN P = 1 .. 0 + 0 + 1 /\ P[0 + 0 + 1] = Empty
        BY <2>2 DEF IsQueue
      <3> QED BY <3>1
    <2>4. LinesIn(Empty) = {} /\ Rising(Empty.lines)
      <3>1. DOMAIN Empty.lines = {}
        BY DEF Empty
      <3> QED BY <3>1 DEF LinesIn, Ids, Rising
    <2>5. LinesOfBuffers(P) = {}
      BY <2>3, <2>4 DEF LinesOfBuffers
    <2>6. BuffersSorted(P)
      BY <2>3, <2>4 DEF BuffersSorted
    <2>7. LinesOfFiles(<<>>) = {} /\ FilesSorted(<<>>)
      BY DEF LinesOfFiles, FilesSorted
    <2>8. 1 .. 0 = {}
      OBVIOUS
    <2>9. LinesPlaced(<<>>, P, {}, 0)
      BY <2>5, <2>6, <2>7, <2>8 DEF LinesPlaced
    <2> QED BY <1>1, <2>9, AccountedNow DEF P
  <1> QED BY <1>3, <1>4, <1>5, <1>6 DEF LogInv

(* What leaves the variables of the logging alone.                         *)
LEMMA LoggingStays == LogInv /\ UNCHANGED loggingVars => LogInv'
  <1> SUFFICES ASSUME LogInv, UNCHANGED loggingVars PROVE LogInv'
    OBVIOUS
  <1>1. LogUnchanged /\ UNCHANGED <<owner, logPc>>
    BY DEF loggingVars, LogUnchanged
  <1>2. BufferPlaces'
    BY <1>1 DEF LogInv, BufferPlaces, LogUnchanged, fileVars, frontVars, backVars
  <1>3. logPc' \in LogPlaces
    BY <1>1 DEF LogInv, LoggingTypes
  <1> QED BY <1>1, <1>2, <1>3, OnlyPlaceMoves

(* What the logging thread relies on suffices.                             *)
LEMMA LogInvSuffices == LogInv => LogKept
  <1> SUFFICES ASSUME LogInv PROVE LogKept
    OBVIOUS
  <1>1. NoBuffer \notin BufferOf
    BY IsABuffer
  <1>2. BuffersSuffice
    BY <1>1 DEF LogInv, LoggingTypes, BufferPlaces, BuffersSuffice
  <1>3. /\ FilesInTime(files, lastRoll, now) /\ FewLate(files, count)
        /\ {writtenBytes, lastFlush, unflushed} \subseteq Nat
        /\ startOfPeriod = PeriodOf(lastRoll)
    BY DEF LogInv, FilesKnown
  <1>4. files \in Seq(FileOf) /\ lastRoll \in Nat /\ now \in Nat /\ lastRoll <= now
    BY <1>3 DEF FilesInTime
  <1>5. LogFileTypeOK
    <2>1. startOfPeriod \in Nat
      BY <1>3, <1>4, PeriodsFollow
    <2>2. count \in Nat
      BY <1>3 DEF FewLate
    <2>3. ASSUME NEW i \in DOMAIN files PROVE files[i].name \in 1 .. now
      <3> DEFINE n == files[i].name
      <3>1. n > 0 /\ n <= lastRoll
        BY <1>3 DEF FilesInTime
      <3>2. n \in Nat
        <4>1. files[i] \in FileOf
          BY <1>4, LenProperties, ElementOfSeq
        <4> QED BY <4>1 DEF FileOf
      <3> HIDE DEF n
      <3>3. n \in 1 .. now
        BY <1>4, <3>1, <3>2
      <3> QED BY <3>3 DEF n
    <2> QED BY <1>3, <1>4, <2>1, <2>2, <2>3 DEF LogFileTypeOK
  <1>6. FilesInOrder
    <2>1. SomeLate(files)
      BY <1>3 DEF FewLate
    <2>2. \A i \in DOMAIN files :
            Cardinality({c \in DOMAIN files[i].chunks :
                PeriodOf(files[i].chunks[c].at) # PeriodOf(files[i].name)}) <= CheckEveryN
      BY <2>1 DEF SomeLate, LateChunks
    <2>3. \A i, j \in DOMAIN files : i < j => files[i].name < files[j].name
      BY <1>3 DEF FilesInTime
    <2>4. \A i, j \in DOMAIN files : \A c \in DOMAIN files[i].chunks :
            i < j => files[i].chunks[c].at <= files[j].name
      BY <1>3 DEF FilesInTime
    <2> QED BY <1>5, <2>2, <2>3, <2>4 DEF FilesInOrder
  <1> QED BY <1>2, <1>6 DEF LogInv, LogKept

(* A step of the other parts leaves the logging alone.                     *)
LEMMA LogInvStep == LogInv /\ [Next]_vars => LogInv'
  <1> SUFFICES ASSUME LogInv, [Next]_vars PROVE LogInv'
    OBVIOUS
  <1>1. CASE LogStep
    BY <1>1, LoggingGoesOn DEF LogStep
  <1>2. CASE PoolStep \/ QueueStep \/ ThreadStepOf \/ UNCHANGED vars
    <2>1. UNCHANGED loggingVars
      BY <1>2 DEF PoolStep, QueueStep, ThreadStepOf, vars
    <2> QED BY <2>1, LoggingStays
  <1> QED BY <1>1, <1>2 DEF Next

(* The invariant of the logging is kept by every step.                     *)
THEOREM LogInvariant == Spec => []LogInv
  <1>1. Init => LogInv
    BY LoggingBegins DEF Init
  <1> QED BY <1>1, LogInvStep, PTL DEF Spec

(* AsyncLogging and LogFile: every line appended is in one place, in a     *)
(* file, in a buffer or among the lost, and in the order of append();      *)
(* the logging thread never lacks a buffer that it asserts to have; and    *)
(* the files have different names, in order, with fewer than checkEveryN_  *)
(* chunks of a later period in each.                                       *)
THEOREM LogsAreKept == Spec => []LogKept
  <1> QED BY LogInvariant, LogInvSuffices, PTL
=============================================================================
