-------------------------- MODULE EventLoopThread --------------------------
(***************************************************************************)
(* net/eventLoopThread.cpp around net/eventLoop.cpp: the owner of an       *)
(* EventLoopThread starts it, uses the EventLoop* it got, and destroys it, *)
(* while the thread constructs the EventLoop on its stack, publishes its   *)
(* address, loops, and destroys it again.                                  *)
(*                                                                         *)
(* A step that touches an object which is already destroyed is undefined   *)
(* in the code.  Here it changes nothing and is recorded in misuse.        *)
(***************************************************************************)
EXTENDS EventLoop

CONSTANT Owner          \* the thread that owns the EventLoopThread, and the
                        \* only one that calls anything here

ASSUME OwnerAssumption == Owner \in Callers

VARIABLES
    ownerPc,    \* where the owner is in start / use / destroy
    threadPc,   \* where threadFunc is
    loopPtr,    \* loop_ # NULL
    selfQuit,   \* history: the loop thread itself has called quit()
    quitLost,   \* history: loop() began by clearing a quit_ that was set
    misuse      \* history: which destroyed objects have been touched

threadVars == <<ownerPc, threadPc, loopPtr, selfQuit, quitLost, misuse>>
allVars    == <<vars, threadVars>>

ThreadInit ==
    /\ Init
    /\ ownerPc = "new"
    /\ threadPc = "none"
    /\ loopPtr = FALSE
    /\ selfQuit = FALSE
    /\ quitLost = FALSE
    /\ misuse = {}

LoopAlive == threadPc \notin {"none", "dead"}

----------------------------------------------------------------------------
(* startLoop() starts the thread and waits on cond_ for loop_ # NULL.      *)
StartThread ==
    /\ ownerPc = "new"
    /\ ownerPc' = "starting"
    /\ threadPc' = "callback"
    /\ UNCHANGED <<vars, loopPtr, selfQuit, quitLost, misuse>>

StartReturns ==
    /\ ownerPc = "starting"
    /\ loopPtr
    /\ ownerPc' = "using"
    /\ UNCHANGED <<vars, threadPc, loopPtr, selfQuit, quitLost, misuse>>

(* The owner queues functors through the pointer startLoop() returned.     *)
OwnerQueues ==
    /\ ownerPc = "using"
    /\ \/ /\ LoopAlive
          /\ CallerQueues(Owner)
          /\ UNCHANGED misuse
       \/ /\ ~LoopAlive
          /\ misuse' = misuse \cup {"queueInLoop"}
          /\ UNCHANGED vars
    /\ UNCHANGED <<ownerPc, threadPc, loopPtr, selfQuit, quitLost>>

(* The second half of queueInLoop and of quit(), which finds the pipe      *)
(* closed when the loop was destroyed after the first half.                *)
OwnerWakeup ==
    /\ \/ /\ LoopAlive
          /\ CallerWakeup(Owner)
          /\ UNCHANGED misuse
       \/ /\ ~LoopAlive
          /\ callerPc[Owner] = "wakeup"
          /\ callerPc' = [callerPc EXCEPT ![Owner] = "idle"]
          /\ misuse' = misuse \cup {"wakeup"}
          /\ UNCHANGED <<loopPc, queueVars, pipeVars, quitVars>>
    /\ UNCHANGED <<ownerPc, threadPc, loopPtr, selfQuit, quitLost>>

(* ~EventLoopThread tests loop_ without the lock; when it is NULL the      *)
(* thread was never started or has ended its loop, and is not joined.      *)
DtorTests ==
    /\ ownerPc \in {"new", "using"}
    /\ callerPc[Owner] = "idle"
    /\ ownerPc' = IF loopPtr THEN "dtorQuit" ELSE "gone"
    /\ UNCHANGED <<vars, threadPc, loopPtr, selfQuit, quitLost, misuse>>

DtorQuits ==
    /\ ownerPc = "dtorQuit"
    /\ \/ /\ loopPtr
          /\ CallerQuits(Owner)
          /\ UNCHANGED misuse
       \/ /\ ~loopPtr
          /\ misuse' = misuse \cup {"quit"}
          /\ UNCHANGED vars
    /\ ownerPc' = "join"
    /\ UNCHANGED <<threadPc, loopPtr, selfQuit, quitLost>>

(* Faulty variant (mutation runs only): the thread is not joined.        *)
DtorDetaches ==
    /\ ownerPc = "join"
    /\ callerPc[Owner] = "idle"
    /\ ownerPc' = "gone"
    /\ UNCHANGED <<vars, threadPc, loopPtr, selfQuit, quitLost, misuse>>

DtorJoins ==
    /\ ownerPc = "join"
    /\ callerPc[Owner] = "idle"
    /\ threadPc = "dead"
    /\ ownerPc' = "gone"
    /\ UNCHANGED <<vars, threadPc, loopPtr, selfQuit, quitLost, misuse>>

----------------------------------------------------------------------------
(* threadFunc: the ThreadInitCallback runs first; it may queue and quit.   *)
InitCallbackCalls ==
    /\ threadPc = "callback"
    /\ \/ LoopQueues("start", "prior") /\ UNCHANGED selfQuit
       \/ LoopQuits /\ selfQuit' = TRUE
    /\ UNCHANGED <<ownerPc, threadPc, loopPtr, quitLost, misuse>>

(* Faulty variant (mutation runs only): loop_ is not set.                *)
PublishNothing ==
    /\ threadPc = "callback"
    /\ threadPc' = "loop"
    /\ UNCHANGED <<vars, ownerPc, loopPtr, selfQuit, quitLost, misuse>>

Publish ==
    /\ threadPc = "callback"
    /\ loopPtr' = TRUE
    /\ threadPc' = "loop"
    /\ UNCHANGED <<vars, ownerPc, selfQuit, quitLost, misuse>>

RunLoop ==
    /\ threadPc = "loop"
    /\ LoopStep
    /\ quitLost' = IF loopPc = "start" THEN quit ELSE quitLost
    /\ UNCHANGED <<ownerPc, threadPc, loopPtr, selfQuit, misuse>>

LoopEvent ==
    /\ threadPc = "loop"
    /\ PollOther \/ LoopQueues("handle", "handler") \/ LoopQueues("body", "functor")
    /\ UNCHANGED threadVars

QuitFromLoop ==
    /\ threadPc = "loop"
    /\ loopPc # "start"
    /\ LoopQuits
    /\ selfQuit' = TRUE
    /\ UNCHANGED <<ownerPc, threadPc, loopPtr, quitLost, misuse>>

(* After loop() threadFunc takes mutex_ and clears loop_...                *)
Unpublish ==
    /\ threadPc = "loop"
    /\ loopPc = "done"
    /\ loopPtr' = FALSE
    /\ threadPc' = "locked"
    /\ misuse' = misuse \cup (IF ownerPc = "gone" THEN {"members"} ELSE {})
    /\ UNCHANGED <<vars, ownerPc, selfQuit, quitLost>>

(* ... then its locals go, last first: the lock guard, which writes the    *)
(* mutex again, and the EventLoop.                                         *)
Unlock ==
    /\ threadPc = "locked"
    /\ threadPc' = "unlocked"
    /\ misuse' = misuse \cup (IF ownerPc = "gone" THEN {"members"} ELSE {})
    /\ UNCHANGED <<vars, ownerPc, loopPtr, selfQuit, quitLost>>

DestroyLoop ==
    /\ threadPc = "unlocked"
    /\ threadPc' = "dead"
    /\ UNCHANGED <<vars, ownerPc, loopPtr, selfQuit, quitLost, misuse>>

(* The system has stopped: destroyed, or the owner still waits in          *)
(* startLoop() for a loop that has already ended.                          *)
ThreadStopped ==
    /\ threadPc \in {"none", "dead"}
    /\ ownerPc \in {"gone", "starting"}
    /\ UNCHANGED allVars

OwnerStep  == StartReturns \/ OwnerWakeup \/ DtorQuits \/ DtorJoins
ThreadStep == Publish \/ RunLoop \/ Unpublish \/ Unlock \/ DestroyLoop

ThreadNext == \/ StartThread \/ OwnerStep \/ OwnerQueues \/ DtorTests
              \/ ThreadStep \/ InitCallbackCalls \/ LoopEvent \/ QuitFromLoop
              \/ ThreadStopped

(* Both threads are scheduled fairly.  The owner need not start the        *)
(* thread, queue anything or destroy the object.                           *)
ThreadSpec == /\ ThreadInit
              /\ [][ThreadNext]_allVars
              /\ WF_allVars(OwnerStep)
              /\ WF_allVars(ThreadStep)

----------------------------------------------------------------------------
ThreadTypeOK ==
    /\ TypeOK
    /\ ownerPc \in {"new", "starting", "using", "dtorQuit", "join", "gone"}
    /\ threadPc \in {"none", "callback", "loop", "locked", "unlocked", "dead"}
    /\ loopPtr \in BOOLEAN
    /\ selfQuit \in BOOLEAN
    /\ quitLost \in BOOLEAN
    /\ misuse \subseteq {"queueInLoop", "wakeup", "quit", "members"}

(* Unless the loop thread quits its own loop, the pointer startLoop()      *)
(* returned stays good until the destructor, and a finished destructor     *)
(* leaves no thread behind: the only destroyed object ever touched is the  *)
(* pipe, by the quit() that ended the loop (the remark in quit()).         *)
OwnershipHolds ==
    /\ ThreadTypeOK
    /\ ~selfQuit =>
        /\ ownerPc \in {"using", "dtorQuit"} => threadPc = "loop" /\ loopPtr
        /\ ownerPc = "gone" => threadPc \in {"none", "dead"}
        /\ misuse \subseteq {"wakeup"}

(* startLoop() returns, unless the loop thread ended the loop first.       *)
StartLoopReturns == (ownerPc = "starting") ~> (ownerPc # "starting" \/ selfQuit)

(* The join of the destructor returns, unless loop() cleared quit_ after   *)
(* somebody had set it.                                                    *)
JoinReturnsUnlessQuitLost == (ownerPc = "join") ~> (ownerPc = "gone" \/ quitLost)
=============================================================================
