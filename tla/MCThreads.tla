------------------------------ MODULE MCThreads ------------------------------
(***************************************************************************)
(* The threads, the thread pool, the blocking queues and the logging       *)
(* thread, each for itself: one of them goes its way while the others stay *)
(* where they begin, where nothing of theirs has to happen.                *)
(***************************************************************************)
EXTENDS Threadpool, BlockingQueues, AsyncLogging, Thread

VARIABLE part

vars == <<part, poolVars, queueVars, loggingVars, threadObjectVars>>

Init == /\ part \in {"pool", "queue", "log", "thread"}
        /\ PoolInit /\ QueueInit /\ LoggingInit /\ ThreadInit
        /\ bounded => part = "queue"

PoolStep == /\ part = "pool" /\ PoolNext
            /\ UNCHANGED <<part, callVars, loggingVars, threadObjectVars>>

QueueStep == /\ part = "queue" /\ QueueNext
             /\ UNCHANGED <<part, running, threads, pc, doing, latchVars, history,
                            loggingVars, threadObjectVars>>

LogStep == /\ part = "log" /\ LoggingNext
           /\ UNCHANGED <<part, poolVars, queueVars, threadObjectVars>>

ThreadStepOf == /\ part = "thread" /\ ThreadNext
                /\ UNCHANGED <<part, poolVars, queueVars, loggingVars>>

Next == PoolStep \/ QueueStep \/ LogStep \/ ThreadStepOf

Spec == Init /\ [][Next]_vars /\ PoolFairness /\ LoggingFairness

----------------------------------------------------------------------------
(* Every task of the pool is in one place, an owner that waited for the    *)
(* latch finds all of them done, and one that has joined a thread finds    *)
(* its function done (threadpool.cpp:49-121, thread.cpp:11-74).            *)
TasksDone ==
    /\ part = "pool" => TasksAccounted /\ AwaitedTasksDone
    /\ part = "thread" => ThreadsAccounted

(* No notification of the pool or of a queue is lost (threadpool.cpp:56-67 *)
(* and 108-117, blockingQueue.h:14-34, boundedBlockingQueue.h:19-48).      *)
NoNotificationLost ==
    CASE part = "pool"  -> NotificationsSuffice
      [] part = "queue" -> QueueNotificationsSuffice
      [] OTHER          -> notEmpty = {} /\ notFull = {}

(* Every line is in one place, the logging thread has the buffers that it  *)
(* asserts it has, and its files are in order (asyncLogging.cpp:27-116,    *)
(* logFile.cpp:28-94).                                                     *)
LogKept == LinesAccounted /\ BuffersSuffice /\ FilesInOrder

(* A queue is a first-in first-out buffer, of bounded size for the bounded *)
(* one: every item that put() adds leaves once, in order, with one take()  *)
(* or with a drain() (blockingQueue.h:14-43, boundedBlockingQueue.h:19-48).*)
Waiting == INSTANCE Fifo WITH
    items    <- IF part = "queue" THEN queue ELSE <<>>,
    capacity <- IF bounded THEN MaxSize ELSE PerProducer * Cardinality(Producer)
ImplementsFifo == Waiting!Spec

(* run() and stop() of the pool and stop() of the logging return           *)
(* (threadpool.cpp:36-70, asyncLogging.h:41).                              *)
CallsReturn == RunReturns /\ StopReturns /\ StopLoggingReturns
=============================================================================
