----------------------------- MODULE EventLoop -----------------------------
(***************************************************************************)
(* net/eventLoop.cpp: one loop thread and the threads that call into it.   *)
(*                                                                         *)
(* The loop thread polls, handles events, swaps the queue of functors and  *)
(* runs the batch.  Other threads push functors under mutex_ and then      *)
(* write 8 bytes to a loopback socket pair; the push and the write are two *)
(* steps, and the write blocks when the pair is full, because the sockets  *)
(* of sockets::pipe() are never made non-blocking.                         *)
(***************************************************************************)
EXTENDS Integers, Sequences

CONSTANTS
    Callers,    \* the threads other than the loop thread
    Quota,      \* bound: how many functors each context may queue
    MaxQuits,   \* bound: how many quit() calls the other threads make
    PipeCap     \* how many 8-byte wake-ups the socket pair holds

(* Where the loop thread is when it calls queueInLoop itself: before       *)
(* loop(), in an event handler, or in a functor of doPendingFunctors.      *)
LoopContexts == {"prior", "handler", "functor"}
Contexts     == Callers \cup LoopContexts

ASSUME CallersAssumption == Callers \cap LoopContexts = {}
ASSUME QuotaAssumption   == Quota \in [Contexts -> Nat]
ASSUME BoundsAssumption  == PipeCap \in Nat \ {0} /\ MaxQuits \in Nat

(* A functor is known by who queued it and the how-manieth of theirs it is *)
FunctorsUpTo(m) ==
    UNION {{[by |-> x, n |-> k] : k \in 1 .. m[x]} : x \in Contexts}
Functor == FunctorsUpTo(Quota)

VARIABLES
    loopPc,     \* where the loop thread is
    callerPc,   \* "idle", or "wakeup": pushed or set quit_, not yet written
    quit,       \* quit_
    callingPendingFunctors,
    pendingFunctors,
    functors,   \* the local batch of doPendingFunctors, what is left of it
    pipe,       \* wake-ups written and not yet read
    readable,   \* wakeupChannel_ is in activeChannels_, not yet handled
    issued,     \* how many functors each context has queued
    ran,        \* the functors that have run, in order (history)
    quits       \* quit() calls made by other threads

queueVars == <<callingPendingFunctors, pendingFunctors, functors, issued, ran>>
pipeVars  == <<pipe, readable>>
quitVars  == <<quit, quits>>
vars      == <<loopPc, callerPc, queueVars, pipeVars, quitVars>>

LoopPcs == {"start", "test", "poll", "handle", "swap", "run", "body",
            "wakeup", "done"}

Init == /\ loopPc = "start"
        /\ callerPc = [c \in Callers |-> "idle"]
        /\ quit = FALSE
        /\ callingPendingFunctors = FALSE
        /\ pendingFunctors = <<>>
        /\ functors = <<>>
        /\ pipe = 0
        /\ readable = FALSE
        /\ issued = [x \in Contexts |-> 0]
        /\ ran = <<>>
        /\ quits = 0

----------------------------------------------------------------------------
(* The locked part of queueInLoop, called from context x.                  *)
Push(x) ==
    /\ issued[x] < Quota[x]
    /\ issued' = [issued EXCEPT ![x] = @ + 1]
    /\ pendingFunctors' = Append(pendingFunctors, [by |-> x, n |-> issued[x] + 1])
    /\ UNCHANGED <<callingPendingFunctors, functors, ran>>

(* wakeup(): a blocking write, which waits for room in the socket pair.    *)
WriteWakeup == /\ pipe < PipeCap
               /\ pipe' = pipe + 1
               /\ UNCHANGED readable

(* Faulty variant (mutation runs only): no wake-up follows.              *)
CallerQueuesSilently(c) ==
    /\ callerPc[c] = "idle"
    /\ Push(c)
    /\ UNCHANGED <<loopPc, callerPc, pipeVars, quitVars>>

(* queueInLoop, and runInLoop of a thread that is not the loop's: push...  *)
CallerQueues(c) ==
    /\ callerPc[c] = "idle"
    /\ Push(c)
    /\ callerPc' = [callerPc EXCEPT ![c] = "wakeup"]
    /\ UNCHANGED <<loopPc, pipeVars, quitVars>>

(* Faulty variant (mutation runs only): no wake-up follows.              *)
CallerQuitsSilently(c) ==
    /\ callerPc[c] = "idle"
    /\ quits < MaxQuits
    /\ quits' = quits + 1
    /\ quit' = TRUE
    /\ UNCHANGED <<loopPc, callerPc, queueVars, pipeVars>>

(* quit() of another thread sets the flag...                               *)
CallerQuits(c) ==
    /\ callerPc[c] = "idle"
    /\ quits < MaxQuits
    /\ quits' = quits + 1
    /\ quit' = TRUE
    /\ callerPc' = [callerPc EXCEPT ![c] = "wakeup"]
    /\ UNCHANGED <<loopPc, queueVars, pipeVars>>

(* ... and both then write the wake-up.                                    *)
CallerWakeup(c) ==
    /\ callerPc[c] = "wakeup"
    /\ WriteWakeup
    /\ callerPc' = [callerPc EXCEPT ![c] = "idle"]
    /\ UNCHANGED <<loopPc, queueVars, quitVars>>

----------------------------------------------------------------------------
(* The loop thread.  Entering loop() clears quit_.                         *)
EnterLoop ==
    /\ loopPc = "start"
    /\ quit' = FALSE
    /\ loopPc' = "test"
    /\ UNCHANGED <<callerPc, queueVars, pipeVars, quits>>

EnterPoll ==
    /\ loopPc = "test"
    /\ ~quit
    /\ loopPc' = "poll"
    /\ UNCHANGED <<callerPc, queueVars, pipeVars, quitVars>>

LeaveLoop ==
    /\ loopPc = "test"
    /\ quit
    /\ loopPc' = "done"
    /\ UNCHANGED <<callerPc, queueVars, pipeVars, quitVars>>

(* poll() returns: with the wake-up channel active, or, the pipe being     *)
(* empty, for another event, a timer or the 10 s timeout.                  *)
PollWakeup ==
    /\ loopPc = "poll"
    /\ pipe > 0
    /\ readable' = TRUE
    /\ loopPc' = "handle"
    /\ UNCHANGED <<callerPc, queueVars, pipe, quitVars>>

PollOther ==
    /\ loopPc = "poll"
    /\ pipe = 0
    /\ loopPc' = "handle"
    /\ UNCHANGED <<callerPc, queueVars, pipeVars, quitVars>>

(* Faulty variant (mutation runs only): the channel stays active.        *)
HandleReadStaysActive ==
    /\ loopPc = "handle"
    /\ readable
    /\ pipe' = pipe - 1
    /\ UNCHANGED <<loopPc, callerPc, queueVars, readable, quitVars>>

(* handleRead takes 8 bytes: one wake-up, not all of them.                 *)
HandleRead ==
    /\ loopPc = "handle"
    /\ readable
    /\ pipe' = pipe - 1
    /\ readable' = FALSE
    /\ UNCHANGED <<loopPc, callerPc, queueVars, quitVars>>

(* Every active channel handled; doPendingFunctors sets its flag before it *)
(* takes the lock.                                                         *)
EndHandlers ==
    /\ loopPc = "handle"
    /\ ~readable
    /\ callingPendingFunctors' = TRUE
    /\ loopPc' = "swap"
    /\ UNCHANGED <<callerPc, pendingFunctors, functors, issued, ran,
                   pipeVars, quitVars>>

(* Faulty variant (mutation runs only): the batch is copied, not swapped out.*)
CopyFunctors ==
    /\ loopPc = "swap"
    /\ functors' = pendingFunctors
    /\ loopPc' = "run"
    /\ UNCHANGED <<callerPc, callingPendingFunctors, pendingFunctors, issued, ran,
                   pipeVars, quitVars>>

SwapFunctors ==
    /\ loopPc = "swap"
    /\ functors' = pendingFunctors
    /\ pendingFunctors' = functors
    /\ loopPc' = "run"
    /\ UNCHANGED <<callerPc, callingPendingFunctors, issued, ran, pipeVars,
                   quitVars>>

BeginFunctor ==
    /\ loopPc = "run"
    /\ functors # <<>>
    /\ ran' = Append(ran, Head(functors))
    /\ functors' = Tail(functors)
    /\ loopPc' = "body"
    /\ UNCHANGED <<callerPc, callingPendingFunctors, pendingFunctors, issued,
                   pipeVars, quitVars>>

EndFunctor ==
    /\ loopPc = "body"
    /\ loopPc' = "run"
    /\ UNCHANGED <<callerPc, queueVars, pipeVars, quitVars>>

EndBatch ==
    /\ loopPc = "run"
    /\ functors = <<>>
    /\ callingPendingFunctors' = FALSE
    /\ loopPc' = "test"
    /\ UNCHANGED <<callerPc, pendingFunctors, functors, issued, ran, pipeVars,
                   quitVars>>

(* The loop thread itself calls queueInLoop.  It writes a wake-up only     *)
(* while it runs pending functors: after a handler the swap follows, and   *)
(* before loop() nobody is polling yet.                                    *)
(* Faulty variant (mutation runs only): the flag is not looked at.       *)
NeverWakeup     == FALSE
WakeupAfterPush == callingPendingFunctors

LoopQueues(at, x) ==
    /\ loopPc = at
    /\ Push(x)
    /\ loopPc' = IF WakeupAfterPush THEN "wakeup" ELSE at
    /\ UNCHANGED <<callerPc, pipeVars, quitVars>>

LoopWakeup ==
    /\ loopPc = "wakeup"
    /\ WriteWakeup
    /\ loopPc' = "body"
    /\ UNCHANGED <<callerPc, queueVars, quitVars>>

(* quit() in the loop thread: before loop(), in a handler or in a functor. *)
LoopQuits ==
    /\ loopPc \in {"start", "handle", "body"}
    /\ quit' = TRUE
    /\ UNCHANGED <<loopPc, callerPc, queueVars, pipeVars, quits>>

(* loop() has returned and every caller has returned from its call.        *)
Stopped ==
    /\ loopPc = "done"
    /\ \A c \in Callers : callerPc[c] = "idle"
    /\ UNCHANGED vars

LoopStep == \/ EnterLoop \/ EnterPoll \/ LeaveLoop
            \/ PollWakeup \/ HandleRead \/ EndHandlers
            \/ SwapFunctors \/ BeginFunctor \/ EndFunctor \/ EndBatch
            \/ LoopWakeup

LoopCalls == \/ LoopQueues("start", "prior")
             \/ LoopQueues("handle", "handler")
             \/ LoopQueues("body", "functor")
             \/ LoopQuits

Next == \/ LoopStep
        \/ LoopCalls
        \/ PollOther
        \/ \E c \in Callers : CallerQueues(c) \/ CallerQuits(c) \/ CallerWakeup(c)
        \/ Stopped

(* Both kinds of thread are scheduled fairly.  Nothing is assumed of       *)
(* PollOther: no property may lean on unrelated traffic, or on the 10 s    *)
(* timeout, to get the loop out of poll.  Nobody has to call anything.     *)
Fairness == /\ WF_vars(LoopStep)
            /\ \A c \in Callers : WF_vars(CallerWakeup(c))

Spec == Init /\ [][Next]_vars /\ Fairness

----------------------------------------------------------------------------
TypeOK ==
    /\ loopPc \in LoopPcs
    /\ callerPc \in [Callers -> {"idle", "wakeup"}]
    /\ quit \in BOOLEAN
    /\ callingPendingFunctors \in BOOLEAN
    /\ pendingFunctors \in Seq(Functor)
    /\ functors \in Seq(Functor)
    /\ pipe \in 0 .. PipeCap
    /\ readable \in BOOLEAN
    /\ issued \in [Contexts -> Nat]
    /\ ran \in Seq(Functor)
    /\ quits \in 0 .. MaxQuits

(* A wake-up is in the pipe, or some thread is about to write one.         *)
WakeupComing == \/ pipe > 0
                \/ loopPc = "wakeup"
                \/ \E c \in Callers : callerPc[c] = "wakeup"

(* From the moment doPendingFunctors has taken its batch until the next    *)
(* poll returns, a functor waiting in pendingFunctors_ has a wake-up that  *)
(* will end that poll -- even though wake-ups of earlier functors were     *)
(* consumed one per iteration.  The same holds while loop() has not been   *)
(* called.  Functors queued by the loop thread itself before loop() are    *)
(* the exception: queueInLoop writes nothing for them.                     *)
NoLostWakeup ==
    /\ loopPc \in {"start", "run", "body", "wakeup", "test", "poll"}
    /\ \E i \in DOMAIN pendingFunctors : pendingFunctors[i].by # "prior"
    => WakeupComing

(* The loop never polls on a quit() made after loop() began without a      *)
(* wake-up that will bring it back to while (!quit_).                      *)
NoLostQuit == loopPc = "poll" /\ quit => WakeupComing

(* The loop and its pipe behave as one queue: everything queued is run at  *)
(* most once, in the order of the pushes, across the swap of the batch.    *)
Q == INSTANCE TaskQueue WITH
        Task      <- Functor,
        submitted <- FunctorsUpTo(issued),
        queue     <- functors \o pendingFunctors,
        ran       <- ran
TaskQueueSafety == Q!Spec

(* Every functor queued by another thread, a handler or a functor is run   *)
(* unless the loop is left first.  (What it takes: room in the pipe.)      *)
QueuedIsRun ==
    \A x \in Contexts \ {"prior"} : \A k \in 1 .. Quota[x] :
        (issued[x] >= k) ~> (loopPc = "done" \/ \E i \in DOMAIN ran : ran[i] = [by |-> x, n |-> k])

(* quit() called while loop() is running ends it, whatever is queued.      *)
QuitEndsLoop == (quit /\ loopPc # "start") ~> (loopPc = "done")

(* Both: the loop answers to whatever it is asked (eventLoop.cpp:60-124).  *)
LoopAnswers == QueuedIsRun /\ QuitEndsLoop
=============================================================================
