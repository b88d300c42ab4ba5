------------------------------- MODULE Monitor -------------------------------
(***************************************************************************)
(* What base/threadpool.h, blockingQueue.h and boundedBlockingQueue.h have *)
(* in common: a queue that producers fill, guarded by a mutex, with the    *)
(* conditions notEmpty_ and notFull_ of base/condition.h.                  *)
(*                                                                         *)
(* What a thread does between taking the mutex and releasing it or waiting *)
(* is one step.  A thread in notEmpty or notFull waits for that condition, *)
(* and may be woken for no reason.  One that was woken takes the mutex     *)
(* again in a step of its own, and others may come first.                  *)
(***************************************************************************)
EXTENDS Integers, Sequences, FiniteSets

CONSTANTS Producer,
          PerProducer       \* bound: the items a producer passes

ASSUME ProducerAssumption == IsFiniteSet(Producer) /\ PerProducer \in Nat \ {0}

VARIABLES
    queue,          \* queue_
    notEmpty,       \* the consumers waiting for notEmpty_
    notFull         \* the producers waiting for notFull_

monitor == <<queue, notEmpty, notFull>>

Item == Producer \X (1 .. PerProducer)

MonitorInit == queue = <<>> /\ notEmpty = {} /\ notFull = {}

(* Condition::notify wakes one of those waiting, if there is one.          *)
Notify(waiting) == IF waiting = {} THEN {{}}
                   ELSE {waiting \ {t} : t \in waiting}

(* Faulty variant (mutation runs only): one is woken.                      *)
WakeOne(waiting) == IF waiting = {} THEN {}
                    ELSE waiting \ {CHOOSE t \in waiting : TRUE}

NotifyAll(waiting) == {}

Wakes(t) ==
    /\ t \in notEmpty \cup notFull
    /\ notEmpty' = notEmpty \ {t}
    /\ notFull' = notFull \ {t}
    /\ UNCHANGED queue
=============================================================================
