----------------------------- MODULE Threadpool -----------------------------
(***************************************************************************)
(* base/threadpool.cpp with the mutex, the two conditions and the latch it *)
(* is used with.  An owner starts the pool, perhaps waits for a latch that *)
(* the last task of each producer counts down, stops the pool and joins;   *)
(* producers call run(); workers take tasks and run them.                  *)
(*                                                                         *)
(* runInThread reads running_ without the mutex, in a step of its own;     *)
(* pid_ of the mutex is written by some of those who hold it, and by stop()*)
(* also after it has let go: nothing depends on it but an assertion, and   *)
(* it is left out.                                                         *)
(***************************************************************************)
EXTENDS Monitor

CONSTANTS Worker, Owner,
          MaxQueueSize,     \* maxQueueSize_; 0 for no limit
          MaxThrows         \* bound: the tasks that throw

ASSUME PoolAssumption ==
    /\ MaxQueueSize \in Nat
    /\ MaxThrows \in Nat
    /\ IsFiniteSet(Worker)
    /\ Worker \cap Producer = {}
    /\ Owner \notin Worker \cup Producer

VARIABLES
    running,        \* running_
    threads,        \* threads_: the workers started
    pc,             \* where each thread is
    doing,          \* the task of each busy worker
    latch,          \* count_ of the latch
    awaiting,       \* the owner waits for condition_ of the latch
    awaited,        \* the owner has waited for the latch before stop()
    given,          \* how many tasks each producer has passed to run()
    dropped,        \* tasks that run() returned from without queueing
    ran,            \* tasks that have run, or thrown
    throws          \* how many have thrown

latchVars == <<latch, awaiting, awaited>>
history == <<given, dropped, ran, throws>>
poolVars == <<monitor, running, threads, pc, doing, latchVars, history>>

NoTask == <<>>
IsLast(t) == t[2] = PerProducer

PoolInit ==
    /\ running = FALSE
    /\ threads = {}
    /\ MonitorInit
    /\ pc = [t \in Worker \cup Producer \cup {Owner} |->
                IF t \in Worker THEN "new" ELSE "idle"]
    /\ doing = [w \in Worker |-> NoTask]
    /\ latch = Cardinality(Producer)
    /\ awaiting = FALSE /\ awaited = FALSE
    /\ given = [p \in Producer |-> 0]
    /\ dropped = {} /\ ran = {} /\ throws = 0

Goto(t, label) == pc' = [pc EXCEPT ![t] = label]

isFull == MaxQueueSize > 0 /\ Len(queue) >= MaxQueueSize

----------------------------------------------------------------------------
(* The owner.                                                              *)

(* start(numThreads), for any number of threads.                           *)
Start ==
    /\ pc[Owner] = "idle"
    /\ running' = TRUE
    /\ threads' \in SUBSET Worker
    /\ pc' = [t \in DOMAIN pc |-> CASE t = Owner        -> "started"
                                    [] t \in threads'   -> "loop"
                                    [] OTHER            -> pc[t]]
    /\ UNCHANGED <<queue, notEmpty, notFull, doing, latchVars, history>>

(* CountDownLatch::wait returns at once, or waits to be notified.          *)
AwaitLatch ==
    /\ pc[Owner] = "started" \/ (pc[Owner] = "await" /\ ~awaiting)
    /\ IF latch > 0
       THEN awaiting' = TRUE  /\ Goto(Owner, "await") /\ UNCHANGED awaited
       ELSE awaited'  = TRUE  /\ Goto(Owner, "stop")  /\ UNCHANGED awaiting
    /\ UNCHANGED <<monitor, running, threads, doing, latch, history>>

(* stop(), under the lock.                                                 *)
Stop ==
    /\ pc[Owner] \in {"started", "stop"}
    /\ running' = FALSE
    /\ notEmpty' = NotifyAll(notEmpty)
    /\ notFull' = NotifyAll(notFull)
    /\ Goto(Owner, "join")
    /\ UNCHANGED <<queue, threads, doing, latchVars, history>>

AllEnded == \A w \in threads : pc[w] = "ended"

Join ==
    /\ pc[Owner] = "join"
    /\ AllEnded
    /\ Goto(Owner, "joined")
    /\ UNCHANGED <<monitor, running, threads, doing, latchVars, history>>

----------------------------------------------------------------------------
(* run(f) of a producer.                                                   *)

Arg(p) == <<p, given[p]>>          \* the task that p is passing to run()

CallRun(p) ==
    /\ pc[Owner] # "idle"
    /\ pc[p] = "idle"
    /\ given[p] < PerProducer
    /\ given' = [given EXCEPT ![p] = @ + 1]
    /\ Goto(p, "run")
    /\ UNCHANGED <<monitor, running, threads, doing, latchVars, dropped, ran, throws>>

(* What running a task does: the last one of a producer counts down.       *)
Execute(t) ==
    /\ ran' = ran \cup {t}
    /\ IF IsLast(t)
       THEN /\ latch' = latch - 1
            /\ awaiting' = (awaiting /\ latch' # 0)
       ELSE UNCHANGED <<latch, awaiting>>

(* Without threads the caller runs the task.                               *)
RunInline(p) ==
    /\ pc[p] = "run"
    /\ threads = {}
    /\ Execute(Arg(p))
    /\ Goto(p, "idle")
    /\ UNCHANGED <<monitor, running, threads, doing, awaited, given, dropped, throws>>

InRun(p) == /\ pc[p] \in {"run", "again"}
            /\ p \notin notFull
            /\ threads # {}

RunWaits(p) ==
    /\ InRun(p) /\ isFull /\ running
    /\ notFull' = notFull \cup {p}
    /\ Goto(p, "again")
    /\ UNCHANGED <<running, queue, notEmpty, threads, doing, latchVars, history>>

RunDrops(p) ==
    /\ InRun(p) /\ ~running
    /\ dropped' = dropped \cup {Arg(p)}
    /\ Goto(p, "idle")
    /\ UNCHANGED <<monitor, running, threads, doing, latchVars, given, ran, throws>>

(* Faulty variant (mutation runs only): who has waited once does not look  *)
(* again whether there is room.                                            *)
RoomOrWoken(p) == running /\ (~isFull \/ pc[p] = "again")

HasRoom(p) == running /\ ~isFull

RunQueues(p) ==
    /\ InRun(p) /\ HasRoom(p)
    /\ queue' = Append(queue, Arg(p))
    /\ notEmpty' \in Notify(notEmpty)
    /\ Goto(p, "idle")
    /\ UNCHANGED <<running, notFull, threads, doing, latchVars, history>>

----------------------------------------------------------------------------
(* runInThread and take() of a worker.                                     *)

TestRunning(w) ==
    /\ pc[w] = "loop"
    /\ Goto(w, IF running THEN "take" ELSE "ended")
    /\ UNCHANGED <<monitor, running, threads, doing, latchVars, history>>

InTake(w) == pc[w] = "take" /\ w \notin notEmpty

TakeWaits(w) ==
    /\ InTake(w) /\ queue = <<>> /\ running
    /\ notEmpty' = notEmpty \cup {w}
    /\ UNCHANGED <<running, queue, notFull, threads, pc, doing,
                   latchVars, history>>

TakeNothing(w) ==
    /\ InTake(w) /\ queue = <<>> /\ ~running
    /\ Goto(w, "loop")
    /\ UNCHANGED <<monitor, running, threads, doing, latchVars, history>>

(* Faulty variant (mutation runs only): only the step from a full queue to *)
(* one with room is announced.                                             *)
AnnounceWhenFull == IF isFull THEN Notify(notFull) ELSE {notFull}

AnnounceRoom == IF MaxQueueSize > 0 THEN Notify(notFull) ELSE {notFull}

TakeTask(w) ==
    /\ InTake(w) /\ queue # <<>>
    /\ doing' = [doing EXCEPT ![w] = Head(queue)]
    /\ queue' = Tail(queue)
    /\ notFull' \in AnnounceRoom
    /\ Goto(w, "busy")
    /\ UNCHANGED <<running, notEmpty, threads, latchVars, history>>

RunTask(w) ==
    /\ pc[w] = "busy"
    /\ Execute(doing[w])
    /\ doing' = [doing EXCEPT ![w] = NoTask]
    /\ Goto(w, "loop")
    /\ UNCHANGED <<monitor, running, threads, awaited, given, dropped, throws>>

(* A task that throws ends its worker: runInThread catches outside of the  *)
(* loop.                                                                   *)
TaskThrows(w) ==
    /\ pc[w] = "busy"
    /\ throws < MaxThrows
    /\ throws' = throws + 1
    /\ ran' = ran \cup {doing[w]}
    /\ doing' = [doing EXCEPT ![w] = NoTask]
    /\ Goto(w, "ended")
    /\ UNCHANGED <<monitor, running, threads, latchVars, given, dropped>>

SpuriousWakeup(t) ==
    /\ Wakes(t)
    /\ UNCHANGED <<running, threads, pc, doing, latchVars, history>>

OwnerStep == Start \/ AwaitLatch \/ Stop \/ Join
RunStep(p) == RunInline(p) \/ RunWaits(p) \/ RunDrops(p) \/ RunQueues(p)
WorkerStep(w) == TestRunning(w) \/ TakeWaits(w) \/ TakeNothing(w)
                    \/ TakeTask(w) \/ RunTask(w)

PoolNext == \/ OwnerStep
            \/ \E p \in Producer : CallRun(p) \/ RunStep(p)
            \/ \E w \in Worker : WorkerStep(w) \/ TaskThrows(w)
            \/ \E t \in Worker \cup Producer : SpuriousWakeup(t)

(* A thread that can go on does so, and tasks end.  Nobody has to call     *)
(* run() or start(), but an owner that has started the pool stops it.      *)
PoolFairness == /\ WF_poolVars(AwaitLatch \/ Stop) /\ WF_poolVars(Join)
                /\ \A p \in Producer : WF_poolVars(RunStep(p))
                /\ \A w \in Worker : WF_poolVars(WorkerStep(w))

----------------------------------------------------------------------------
Elements(s) == {s[i] : i \in DOMAIN s}

PoolTypeOK ==
    /\ running \in BOOLEAN
    /\ threads \subseteq Worker
    /\ queue \in Seq(Item)
    /\ notEmpty \subseteq threads
    /\ notFull \subseteq Producer
    /\ \A t \in Worker : pc[t] \in {"new", "loop", "take", "busy", "ended"}
    /\ \A t \in Producer : pc[t] \in {"idle", "run", "again"}
    /\ pc[Owner] \in {"idle", "started", "await", "stop", "join", "joined"}
    /\ doing \in [Worker -> Item \cup {NoTask}]
    /\ latch \in Int
    /\ {awaiting, awaited} \subseteq BOOLEAN
    /\ given \in [Producer -> 0 .. PerProducer]
    /\ dropped \subseteq Item /\ ran \subseteq Item
    /\ throws \in 0 .. MaxThrows

InHand(p)   == IF pc[p] = "idle" THEN {} ELSE {Arg(p)}
Busy        == {w \in Worker : doing[w] # NoTask}
Submitted   == {t \in Item : t[2] <= given[t[1]]}

(* Every task given to run() is in one place: in the hand of its producer, *)
(* queued, with a worker, done or dropped; the queue keeps to its limit    *)
(* and to the order of each producer, and tasks are dropped only after     *)
(* stop() (threadpool.cpp:49-70 and 106-121).                              *)
TasksAccounted ==
    /\ PoolTypeOK
    /\ (UNION {InHand(p) : p \in Producer}) \cup Elements(queue)
          \cup {doing[w] : w \in Busy} \cup ran \cup dropped = Submitted
    /\ Cardinality(Submitted) = Cardinality({p \in Producer : pc[p] # "idle"})
          + Len(queue) + Cardinality(Busy) + Cardinality(ran) + Cardinality(dropped)
    /\ MaxQueueSize > 0 => Len(queue) <= MaxQueueSize
    /\ \A i, j \in DOMAIN queue : i < j /\ queue[i][1] = queue[j][1]
                                    => queue[i][2] < queue[j][2]
    /\ dropped # {} => ~running

(* No notification is lost: while a worker sleeps, awake ones in take()    *)
(* are enough for all that is queued; while a producer sleeps, awake ones  *)
(* in run() are enough for all the room there is (threadpool.cpp:56-67 and *)
(* 108-117).                                                               *)
NotificationsSuffice ==
    /\ notEmpty # {} => Len(queue) <= Cardinality({w \in threads : InTake(w)})
    /\ notFull # {}  => MaxQueueSize - Len(queue)
                           <= Cardinality({p \in Producer : InRun(p)})

(* An owner that waited for the latch before it stopped and joined the     *)
(* pool finds all tasks done: none was left in the queue, in a worker or   *)
(* with a producer (what testThreadpool of baseTest relies on).            *)
AwaitedTasksDone ==
    awaited /\ pc[Owner] = "joined" => ran = Item

(* stop() returns: the conditions it notifies wake everybody, and whoever  *)
(* is awake sees running_ false (threadpool.cpp:36-47).                    *)
StopReturns == (pc[Owner] = "join") ~> (pc[Owner] = "joined")

AllGone == threads # {} /\ AllEnded

(* A call of run() returns, unless tasks that threw have ended all the     *)
(* workers (threadpool.cpp:77-104).                                        *)
RunReturns == \A p \in Producer :
                (pc[p] = "again") ~> (pc[p] = "idle" \/ AllGone)
=============================================================================
