--------------------------- MODULE EventLoopProof ---------------------------
(***************************************************************************)
(* Theorems of EventLoop, for any callers, any quotas and any capacity of  *)
(* the pipe, and of EventLoopThread, whose owner is one of the callers.    *)
(***************************************************************************)
EXTENDS EventLoopThread, SequenceTheorems, TLAPS

----------------------------------------------------------------------------
(* The event loop.                                                         *)

(* What the control flow keeps: the flag of doPendingFunctors is up exactly *)
(* while it runs, a batch exists only then, and a wake-up channel reported  *)
(* readable still has its wake-up.                                          *)
Control ==
    /\ callingPendingFunctors <=> loopPc \in {"swap", "run", "body", "wakeup"}
    /\ loopPc \notin {"run", "body", "wakeup"} => functors = <<>>
    /\ readable => loopPc = "handle" /\ pipe > 0
    /\ \A x \in Contexts : issued[x] <= Quota[x]

IInv == TypeOK /\ Control /\ NoLostWakeup /\ NoLostQuit

(* A context below its quota queues one of the functors of Functor.        *)
LEMMA PushedIsFunctor ==
    ASSUME NEW x \in Contexts, issued \in [Contexts -> Nat], issued[x] < Quota[x]
    PROVE  [by |-> x, n |-> issued[x] + 1] \in Functor
  <1>1. Quota[x] \in Nat /\ issued[x] \in Nat
    BY QuotaAssumption
  <1>2. issued[x] + 1 \in 1 .. Quota[x]
    BY <1>1
  <1> QED BY <1>2 DEF Functor, FunctorsUpTo

(* queueInLoop under the lock keeps the types of the queue's variables.    *)
LEMMA PushType ==
    ASSUME TypeOK, NEW x \in Contexts, Push(x)
    PROVE  /\ callingPendingFunctors' \in BOOLEAN
           /\ pendingFunctors' \in Seq(Functor)
           /\ functors' \in Seq(Functor)
           /\ issued' \in [Contexts -> Nat]
           /\ ran' \in Seq(Functor)
  <1>1. [by |-> x, n |-> issued[x] + 1] \in Functor
    BY PushedIsFunctor DEF TypeOK, Push
  <1>2. pendingFunctors' \in Seq(Functor)
    BY <1>1 DEF TypeOK, Push
  <1>3. issued' \in [Contexts -> Nat]
    BY DEF TypeOK, Push
  <1> QED BY <1>2, <1>3 DEF TypeOK, Push

(* ... and the quota.                                                      *)
LEMMA PushQuota ==
    ASSUME TypeOK, Control, NEW x \in Contexts, Push(x)
    PROVE  \A y \in Contexts : issued'[y] <= Quota[y]
  <1> SUFFICES ASSUME NEW y \in Contexts PROVE issued'[y] <= Quota[y]
    OBVIOUS
  <1>1. /\ issued[x] \in Nat /\ issued[y] \in Nat
        /\ Quota[x] \in Nat /\ Quota[y] \in Nat
    BY QuotaAssumption DEF TypeOK
  <1>2. issued'[y] = IF y = x THEN issued[x] + 1 ELSE issued[y]
    BY DEF TypeOK, Push
  <1>3. issued[x] < Quota[x] /\ issued[y] <= Quota[y]
    BY DEF Control, Push
  <1> QED BY <1>1, <1>2, <1>3

LEMMA InitIInv == Init => IInv
  <1> SUFFICES ASSUME Init PROVE IInv
    OBVIOUS
  <1> USE QuotaAssumption, BoundsAssumption DEF Init
  <1>a. pipe \in 0 .. PipeCap /\ quits \in 0 .. MaxQuits
    OBVIOUS
  <1>b. <<>> \in Seq(Functor)
    BY EmptySeq
  <1>1. TypeOK
    BY <1>a, <1>b DEF TypeOK, LoopPcs
  <1>2. Control
    BY DEF Control
  <1>3. NoLostWakeup
    BY DEF NoLostWakeup
  <1>4. NoLostQuit
    BY DEF NoLostQuit
  <1> QED BY <1>1, <1>2, <1>3, <1>4 DEF IInv

(* Every step keeps the inductive invariant: one step of the proof for     *)
(* each action.                                                            *)
LEMMA NextIInv == IInv /\ [Next]_vars => IInv'
  <1> SUFFICES ASSUME IInv, [Next]_vars PROVE IInv'
    OBVIOUS
  <1> USE BoundsAssumption
  <1> USE DEF IInv, queueVars, pipeVars, quitVars
  <1>1. CASE EnterLoop
    <2>1. TypeOK'
      BY <1>1 DEF EnterLoop, TypeOK, LoopPcs
    <2>2. Control'
      BY <1>1 DEF EnterLoop, TypeOK, Control
    <2>3. NoLostWakeup'
      BY <1>1 DEF EnterLoop, TypeOK, Control, NoLostWakeup, WakeupComing
    <2>4. NoLostQuit'
      BY <1>1 DEF EnterLoop, TypeOK, Control, NoLostQuit, WakeupComing
    <2> QED BY <2>1, <2>2, <2>3, <2>4
  <1>2. CASE EnterPoll
    <2>1. TypeOK'
      BY <1>2 DEF EnterPoll, TypeOK, LoopPcs
    <2>2. Control'
      BY <1>2 DEF EnterPoll, TypeOK, Control
    <2>3. NoLostWakeup'
      BY <1>2 DEF EnterPoll, TypeOK, Control, NoLostWakeup, WakeupComing
    <2>4. NoLostQuit'
      BY <1>2 DEF EnterPoll, TypeOK, Control, NoLostQuit, WakeupComing
    <2> QED BY <2>1, <2>2, <2>3, <2>4
  <1>3. CASE LeaveLoop
    <2>1. TypeOK'
      BY <1>3 DEF LeaveLoop, TypeOK, LoopPcs
    <2>2. Control'
      BY <1>3 DEF LeaveLoop, TypeOK, Control
    <2>3. NoLostWakeup'
      BY <1>3 DEF LeaveLoop, TypeOK, Control, NoLostWakeup, WakeupComing
    <2>4. NoLostQuit'
      BY <1>3 DEF LeaveLoop, TypeOK, Control, NoLostQuit, WakeupComing
    <2> QED BY <2>1, <2>2, <2>3, <2>4
  <1>4. CASE PollWakeup
    <2>1. TypeOK'
      BY <1>4 DEF PollWakeup, TypeOK, LoopPcs
    <2>2. Control'
      BY <1>4 DEF PollWakeup, TypeOK, Control
    <2>3. NoLostWakeup'
      BY <1>4 DEF PollWakeup, TypeOK, Control, NoLostWakeup, WakeupComing
    <2>4. NoLostQuit'
      BY <1>4 DEF PollWakeup, TypeOK, Control, NoLostQuit, WakeupComing
    <2> QED BY <2>1, <2>2, <2>3, <2>4
  <1>5. CASE PollOther
    <2>1. TypeOK'
      BY <1>5 DEF PollOther, TypeOK, LoopPcs
    <2>2. Control'
      BY <1>5 DEF PollOther, TypeOK, Control
    <2>3. NoLostWakeup'
      BY <1>5 DEF PollOther, TypeOK, Control, NoLostWakeup, WakeupComing
    <2>4. NoLostQuit'
      BY <1>5 DEF PollOther, TypeOK, Control, NoLostQuit, WakeupComing
    <2> QED BY <2>1, <2>2, <2>3, <2>4
  <1>6. CASE HandleRead
    <2>a. pipe' \in 0 .. PipeCap
      BY <1>6 DEF HandleRead, TypeOK, Control
    <2>1. TypeOK'
      BY <1>6, <2>a DEF HandleRead, TypeOK, LoopPcs
    <2>2. Control'
      BY <1>6 DEF HandleRead, TypeOK, Control
    <2>3. NoLostWakeup'
      BY <1>6 DEF HandleRead, TypeOK, Control, NoLostWakeup, WakeupComing
    <2>4. NoLostQuit'
      BY <1>6 DEF HandleRead, TypeOK, Control, NoLostQuit, WakeupComing
    <2> QED BY <2>1, <2>2, <2>3, <2>4
  <1>7. CASE EndHandlers
    <2>1. TypeOK'
      BY <1>7 DEF EndHandlers, TypeOK, LoopPcs
    <2>2. Control'
      BY <1>7 DEF EndHandlers, TypeOK, Control
    <2>3. NoLostWakeup'
      BY <1>7 DEF EndHandlers, TypeOK, Control, NoLostWakeup, WakeupComing
    <2>4. NoLostQuit'
      BY <1>7 DEF EndHandlers, TypeOK, Control, NoLostQuit, WakeupComing
    <2> QED BY <2>1, <2>2, <2>3, <2>4
  <1>8. CASE SwapFunctors
    <2>1. TypeOK'
      BY <1>8 DEF SwapFunctors, TypeOK, LoopPcs
    <2>2. Control'
      BY <1>8 DEF SwapFunctors, TypeOK, Control
    <2>3. NoLostWakeup'
      BY <1>8 DEF SwapFunctors, TypeOK, Control, NoLostWakeup, WakeupComing
    <2>4. NoLostQuit'
      BY <1>8 DEF SwapFunctors, TypeOK, Control, NoLostQuit, WakeupComing
    <2> QED BY <2>1, <2>2, <2>3, <2>4
  <1>9. CASE BeginFunctor
    <2>1. TypeOK'
      BY <1>9, HeadTailProperties, AppendProperties DEF BeginFunctor, TypeOK, LoopPcs
    <2>2. Control'
      BY <1>9 DEF BeginFunctor, TypeOK, Control
    <2>3. NoLostWakeup'
      BY <1>9 DEF BeginFunctor, TypeOK, Control, NoLostWakeup, WakeupComing
    <2>4. NoLostQuit'
      BY <1>9 DEF BeginFunctor, TypeOK, Control, NoLostQuit, WakeupComing
    <2> QED BY <2>1, <2>2, <2>3, <2>4
  <1>10. CASE EndFunctor
    <2>1. TypeOK'
      BY <1>10 DEF EndFunctor, TypeOK, LoopPcs
    <2>2. Control'
      BY <1>10 DEF EndFunctor, TypeOK, Control
    <2>3. NoLostWakeup'
      BY <1>10 DEF EndFunctor, TypeOK, Control, NoLostWakeup, WakeupComing
    <2>4. NoLostQuit'
      BY <1>10 DEF EndFunctor, TypeOK, Control, NoLostQuit, WakeupComing
    <2> QED BY <2>1, <2>2, <2>3, <2>4
  <1>11. CASE EndBatch
    <2>1. TypeOK'
      BY <1>11 DEF EndBatch, TypeOK, LoopPcs
    <2>2. Control'
      BY <1>11 DEF EndBatch, TypeOK, Control
    <2>3. NoLostWakeup'
      BY <1>11 DEF EndBatch, TypeOK, Control, NoLostWakeup, WakeupComing
    <2>4. NoLostQuit'
      BY <1>11 DEF EndBatch, TypeOK, Control, NoLostQuit, WakeupComing
    <2> QED BY <2>1, <2>2, <2>3, <2>4
  <1>12. CASE LoopWakeup
    <2>1. TypeOK'
      BY <1>12 DEF LoopWakeup, WriteWakeup, TypeOK, LoopPcs
    <2>2. Control'
      BY <1>12 DEF LoopWakeup, WriteWakeup, TypeOK, Control
    <2>3. NoLostWakeup'
      BY <1>12 DEF LoopWakeup, WriteWakeup, TypeOK, Control, NoLostWakeup, WakeupComing
    <2>4. NoLostQuit'
      BY <1>12 DEF LoopWakeup, WriteWakeup, TypeOK, Control, NoLostQuit, WakeupComing
    <2> QED BY <2>1, <2>2, <2>3, <2>4
  <1>13. CASE LoopQuits
    <2>1. TypeOK'
      BY <1>13 DEF LoopQuits, TypeOK, LoopPcs
    <2>2. Control'
      BY <1>13 DEF LoopQuits, TypeOK, Control
    <2>3. NoLostWakeup'
      BY <1>13 DEF LoopQuits, TypeOK, Control, NoLostWakeup, WakeupComing
    <2>4. NoLostQuit'
      BY <1>13 DEF LoopQuits, TypeOK, Control, NoLostQuit, WakeupComing
    <2> QED BY <2>1, <2>2, <2>3, <2>4
  <1>14. CASE Stopped
    <2>1. TypeOK'
      BY <1>14 DEF Stopped, vars, TypeOK, LoopPcs
    <2>2. Control'
      BY <1>14 DEF Stopped, vars, TypeOK, Control
    <2>3. NoLostWakeup'
      BY <1>14 DEF Stopped, vars, TypeOK, Control, NoLostWakeup, WakeupComing
    <2>4. NoLostQuit'
      BY <1>14 DEF Stopped, vars, TypeOK, Control, NoLostQuit, WakeupComing
    <2> QED BY <2>1, <2>2, <2>3, <2>4
  <1>15. CASE LoopQueues("start", "prior")
    <2>0. "prior" \in Contexts /\ Push("prior") /\ loopPc = "start"
      BY <1>15 DEF LoopQueues, Contexts, LoopContexts
    <2>1. TypeOK'
      BY <1>15, <2>0, PushType DEF LoopQueues, TypeOK, LoopPcs
    <2>b. \A y \in Contexts : issued'[y] <= Quota[y]
      BY <2>0, PushQuota
    <2>2. Control'
      BY <1>15, <2>0, <2>b DEF LoopQueues, WakeupAfterPush, Push, TypeOK, Control
    <2>3. NoLostWakeup'
      BY <1>15, <2>0 DEF LoopQueues, WakeupAfterPush, Push, TypeOK, Control, NoLostWakeup, WakeupComing
    <2>4. NoLostQuit'
      BY <1>15, <2>0 DEF LoopQueues, WakeupAfterPush, Push, TypeOK, Control, NoLostQuit, WakeupComing
    <2> QED BY <2>1, <2>2, <2>3, <2>4
  <1>16. CASE LoopQueues("handle", "handler")
    <2>0. "handler" \in Contexts /\ Push("handler") /\ loopPc = "handle"
      BY <1>16 DEF LoopQueues, Contexts, LoopContexts
    <2>1. TypeOK'
      BY <1>16, <2>0, PushType DEF LoopQueues, TypeOK, LoopPcs
    <2>b. \A y \in Contexts : issued'[y] <= Quota[y]
      BY <2>0, PushQuota
    <2>2. Control'
      BY <1>16, <2>0, <2>b DEF LoopQueues, WakeupAfterPush, Push, TypeOK, Control
    <2>3. NoLostWakeup'
      BY <1>16, <2>0 DEF LoopQueues, WakeupAfterPush, Push, TypeOK, Control, NoLostWakeup, WakeupComing
    <2>4. NoLostQuit'
      BY <1>16, <2>0 DEF LoopQueues, WakeupAfterPush, Push, TypeOK, Control, NoLostQuit, WakeupComing
    <2> QED BY <2>1, <2>2, <2>3, <2>4
  <1>17. CASE LoopQueues("body", "functor")
    <2>0. "functor" \in Contexts /\ Push("functor") /\ loopPc = "body"
      BY <1>17 DEF LoopQueues, Contexts, LoopContexts
    <2>1. TypeOK'
      BY <1>17, <2>0, PushType DEF LoopQueues, TypeOK, LoopPcs
    <2>b. \A y \in Contexts : issued'[y] <= Quota[y]
      BY <2>0, PushQuota
    <2>2. Control'
      BY <1>17, <2>0, <2>b DEF LoopQueues, WakeupAfterPush, Push, TypeOK, Control
    <2>3. NoLostWakeup'
      BY <1>17, <2>0 DEF LoopQueues, WakeupAfterPush, Push, TypeOK, Control, NoLostWakeup, WakeupComing
    <2>4. NoLostQuit'
      BY <1>17, <2>0 DEF LoopQueues, WakeupAfterPush, Push, TypeOK, Control, NoLostQuit, WakeupComing
    <2> QED BY <2>1, <2>2, <2>3, <2>4
  <1>18. ASSUME NEW c \in Callers, CallerQueues(c) PROVE IInv'
    <2>0. c \in Contexts /\ Push(c)
      BY <1>18 DEF CallerQueues, Contexts
    <2>1. TypeOK'
      BY <1>18, <2>0, PushType DEF CallerQueues, TypeOK
    <2>b. \A y \in Contexts : issued'[y] <= Quota[y]
      BY <2>0, PushQuota
    <2>2. Control'
      BY <1>18, <2>0, <2>b DEF CallerQueues, Push, TypeOK, Control
    <2>a. WakeupComing'
      BY <1>18 DEF CallerQueues, TypeOK, WakeupComing
    <2>3. NoLostWakeup'
      BY <2>a DEF NoLostWakeup
    <2>4. NoLostQuit'
      BY <2>a DEF NoLostQuit
    <2> QED BY <2>1, <2>2, <2>3, <2>4
  <1>19. ASSUME NEW c \in Callers, CallerQuits(c) PROVE IInv'
    <2>1. TypeOK'
      BY <1>19 DEF CallerQuits, TypeOK
    <2>2. Control'
      BY <1>19 DEF CallerQuits, TypeOK, Control
    <2>a. WakeupComing'
      BY <1>19 DEF CallerQuits, TypeOK, WakeupComing
    <2>3. NoLostWakeup'
      BY <2>a DEF NoLostWakeup
    <2>4. NoLostQuit'
      BY <2>a DEF NoLostQuit
    <2> QED BY <2>1, <2>2, <2>3, <2>4
  <1>20. ASSUME NEW c \in Callers, CallerWakeup(c) PROVE IInv'
    <2>1. TypeOK'
      BY <1>20 DEF CallerWakeup, WriteWakeup, TypeOK
    <2>2. Control'
      BY <1>20 DEF CallerWakeup, WriteWakeup, TypeOK, Control
    <2>a. WakeupComing'
      BY <1>20 DEF CallerWakeup, WriteWakeup, TypeOK, WakeupComing
    <2>3. NoLostWakeup'
      BY <2>a DEF NoLostWakeup
    <2>4. NoLostQuit'
      BY <2>a DEF NoLostQuit
    <2> QED BY <2>1, <2>2, <2>3, <2>4
  <1>21. CASE UNCHANGED vars
    BY <1>21 DEF vars, TypeOK, Control, NoLostWakeup, NoLostQuit, WakeupComing
  <1> QED
    BY <1>1, <1>2, <1>3, <1>4, <1>5, <1>6, <1>7, <1>8, <1>9, <1>10, <1>11, <1>12, <1>13, <1>14, <1>15, <1>16, <1>17, <1>18, <1>19, <1>20, <1>21
    DEF Next, LoopStep, LoopCalls

LEMMA AlwaysIInv == Spec => []IInv
  <1>1. Init => IInv
    BY InitIInv
  <1>2. IInv /\ [Next]_vars => IInv'
    BY NextIInv
  <1> QED BY <1>1, <1>2, PTL DEF Spec

(* Type correctness of the loop, its queue and its pipe (the pipe never    *)
(* holds more than it can, nor less than nothing).                         *)
THEOREM TypeCorrect == Spec => []TypeOK
  <1>1. IInv => TypeOK
    BY DEF IInv
  <1> QED BY <1>1, AlwaysIInv, PTL

(* queueInLoop never leaves a functor waiting behind a poll that nothing   *)
(* will end, for any number of threads.                                    *)
THEOREM WakeupNeverLost == Spec => []NoLostWakeup
  <1>1. IInv => NoLostWakeup
    BY DEF IInv
  <1> QED BY <1>1, AlwaysIInv, PTL

(* The same for quit().                                                    *)
THEOREM QuitNeverLost == Spec => []NoLostQuit
  <1>1. IInv => NoLostQuit
    BY DEF IInv
  <1> QED BY <1>1, AlwaysIInv, PTL

----------------------------------------------------------------------------
(* The refinement.  Pushing submits, starting a functor runs the head, and *)
(* everything else, the swap of the batch included, leaves the queue be.   *)
LEMMA QInit == Init => Q!Init
  <1> SUFFICES ASSUME Init PROVE Q!Init
    OBVIOUS
  <1>1. FunctorsUpTo(issued) = {}
    BY DEF Init, FunctorsUpTo
  <1>2. functors \o pendingFunctors = <<>>
    BY EmptySeq, ConcatEmptySeq DEF Init
  <1> QED BY <1>1, <1>2 DEF Init, Q!Init

LEMMA QPush ==
    ASSUME IInv, NEW x \in Contexts, Push(x)
    PROVE  \E t \in Functor : Q!Submit(t)
  <1> DEFINE t == [by |-> x, n |-> issued[x] + 1]
  <1>1. t \in Functor
    BY PushedIsFunctor DEF IInv, TypeOK, Push
  <1>2. issued \in [Contexts -> Nat] /\ issued' = [issued EXCEPT ![x] = @ + 1]
    BY DEF IInv, TypeOK, Push
  <1>3. t \notin FunctorsUpTo(issued)
    <2> SUFFICES ASSUME t \in FunctorsUpTo(issued) PROVE FALSE
      OBVIOUS
    <2>1. PICK y \in Contexts : \E k \in 1 .. issued[y] : t = [by |-> y, n |-> k]
      BY DEF FunctorsUpTo
    <2>2. PICK k \in 1 .. issued[y] : t = [by |-> y, n |-> k]
      BY <2>1
    <2>3. t.by = x /\ t.n = issued[x] + 1 /\ t.by = y /\ t.n = k
      BY <2>2
    <2> HIDE DEF t
    <2> QED BY <1>2, <2>2, <2>3
  <1>4. FunctorsUpTo(issued') = FunctorsUpTo(issued) \cup {t}
    <2>1. ASSUME NEW f \in FunctorsUpTo(issued') PROVE f \in FunctorsUpTo(issued) \cup {t}
      <3>1. PICK y \in Contexts : \E k \in 1 .. issued'[y] : f = [by |-> y, n |-> k]
        BY DEF FunctorsUpTo
      <3>2. PICK k \in 1 .. issued'[y] : f = [by |-> y, n |-> k]
        BY <3>1
      <3>3. k \in 1 .. issued[y] \/ (y = x /\ k = issued[x] + 1)
        BY <1>2, <3>2
      <3> QED BY <3>2, <3>3 DEF FunctorsUpTo
    <2>2. ASSUME NEW f \in FunctorsUpTo(issued) PROVE f \in FunctorsUpTo(issued')
      <3>1. PICK y \in Contexts : \E k \in 1 .. issued[y] : f = [by |-> y, n |-> k]
        BY DEF FunctorsUpTo
      <3>2. PICK k \in 1 .. issued[y] : f = [by |-> y, n |-> k]
        BY <3>1
      <3>3. k \in 1 .. issued'[y]
        BY <1>2, <3>2
      <3> QED BY <3>2, <3>3 DEF FunctorsUpTo
    <2>3. t \in FunctorsUpTo(issued')
      <3>1. issued[x] + 1 \in 1 .. issued'[x]
        BY <1>2
      <3> QED BY <3>1 DEF FunctorsUpTo
    <2> QED BY <2>1, <2>2, <2>3
  <1>5. (functors \o pendingFunctors)' = Append(functors \o pendingFunctors, t)
    <2>1. functors' = functors /\ pendingFunctors' = Append(pendingFunctors, t)
      BY DEF Push
    <2>2. functors \in Seq(Functor) /\ pendingFunctors \in Seq(Functor)
      BY DEF IInv, TypeOK
    <2> QED BY <1>1, <2>1, <2>2
  <1>6. ran' = ran
    BY DEF Push
  <1>7. Q!Submit(t)
    BY <1>3, <1>4, <1>5, <1>6 DEF Q!Submit
  <1> QED BY <1>1, <1>7

LEMMA QRun == IInv /\ BeginFunctor => Q!Run
  <1> SUFFICES ASSUME IInv, BeginFunctor PROVE Q!Run
    OBVIOUS
  <1>1. functors \in Seq(Functor) /\ pendingFunctors \in Seq(Functor) /\ functors # <<>>
    BY DEF IInv, TypeOK, BeginFunctor
  <1>2. /\ functors \o pendingFunctors # <<>>
        /\ Head(functors \o pendingFunctors) = Head(functors)
        /\ Tail(functors \o pendingFunctors) = Tail(functors) \o pendingFunctors
    BY <1>1
  <1>3. /\ ran' = Append(ran, Head(functors))
        /\ functors' = Tail(functors)
        /\ pendingFunctors' = pendingFunctors
        /\ FunctorsUpTo(issued') = FunctorsUpTo(issued)
    BY DEF BeginFunctor
  <1> QED BY <1>2, <1>3 DEF Q!Run

LEMMA QSwap == IInv /\ SwapFunctors => UNCHANGED Q!tqVars
  <1> SUFFICES ASSUME IInv, SwapFunctors PROVE UNCHANGED Q!tqVars
    OBVIOUS
  <1>1. functors = <<>> /\ pendingFunctors \in Seq(Functor)
    BY DEF IInv, TypeOK, Control, SwapFunctors
  <1>2. (functors \o pendingFunctors)' = functors \o pendingFunctors
    BY <1>1, ConcatEmptySeq DEF SwapFunctors
  <1>3. issued' = issued /\ ran' = ran
    BY DEF SwapFunctors
  <1> QED BY <1>2, <1>3 DEF Q!tqVars

LEMMA QStep == IInv /\ [Next]_vars => [Q!Next]_(Q!tqVars)
  <1> SUFFICES ASSUME IInv, [Next]_vars PROVE Q!Next \/ UNCHANGED Q!tqVars
    OBVIOUS
  <1>1. CASE BeginFunctor
    BY <1>1, QRun DEF Q!Next
  <1>2. CASE SwapFunctors
    BY <1>2, QSwap
  <1>3. ASSUME NEW x \in Contexts, Push(x) PROVE Q!Next
    BY <1>3, QPush DEF Q!Next
  <1>4. CASE LoopQueues("start", "prior")
    BY <1>3, <1>4 DEF LoopQueues, Contexts, LoopContexts
  <1>5. CASE LoopQueues("handle", "handler")
    BY <1>3, <1>5 DEF LoopQueues, Contexts, LoopContexts
  <1>6. CASE LoopQueues("body", "functor")
    BY <1>3, <1>6 DEF LoopQueues, Contexts, LoopContexts
  <1>7. ASSUME NEW c \in Callers, CallerQueues(c) PROVE Q!Next
    BY <1>3, <1>7 DEF CallerQueues, Contexts
  <1>8. ASSUME UNCHANGED <<pendingFunctors, functors, issued, ran>>
        PROVE  UNCHANGED Q!tqVars
    BY <1>8 DEF Q!tqVars
  <1>9. CASE \/ EnterLoop \/ EnterPoll \/ LeaveLoop \/ PollWakeup \/ PollOther
            \/ HandleRead \/ EndHandlers \/ EndFunctor \/ EndBatch
            \/ LoopWakeup \/ LoopQuits \/ Stopped \/ UNCHANGED vars
    BY <1>8, <1>9 DEF EnterLoop, EnterPoll, LeaveLoop, PollWakeup, PollOther,
       HandleRead, EndHandlers, EndFunctor, EndBatch, LoopWakeup, LoopQuits,
       Stopped, vars, queueVars
  <1>10. ASSUME NEW c \in Callers, CallerQuits(c) \/ CallerWakeup(c)
         PROVE  UNCHANGED Q!tqVars
    BY <1>8, <1>10 DEF CallerQuits, CallerWakeup, queueVars
  <1> QED
    BY <1>1, <1>2, <1>4, <1>5, <1>6, <1>7, <1>9, <1>10
    DEF Next, LoopStep, LoopCalls

(* The event loop implements the task queue: whatever the threads do, each *)
(* functor is taken once and in the order the functors were queued.        *)
THEOREM ImplementsTaskQueue == Spec => TaskQueueSafety
  <1>1. Init => Q!Init
    BY QInit
  <1>2. IInv /\ [Next]_vars => [Q!Next]_(Q!tqVars)
    BY QStep
  <1> QED BY <1>1, <1>2, AlwaysIInv, PTL DEF Spec, TaskQueueSafety, Q!Spec

----------------------------------------------------------------------------
(* The abstract task queue keeps what it was given: nothing is lost, and   *)
(* nothing is run twice.                                                   *)
Queue     == functors \o pendingFunctors
Submitted == FunctorsUpTo(issued)
QueueInv  == Queue \in Seq(Functor) /\ ran \in Seq(Functor) /\ Q!ExactlyOnce

(* Appending adds one element, at the end.                                 *)
LEMMA ElementsAppend ==
    ASSUME NEW S, NEW s \in Seq(S), NEW e \in S
    PROVE  /\ Q!Elements(Append(s, e)) = Q!Elements(s) \cup {e}
           /\ Append(s, e) \in Seq(S)
  <1> DEFINE a == Append(s, e)
  <1>1. /\ Len(s) \in Nat /\ DOMAIN s = 1 .. Len(s)
        /\ a \in Seq(S) /\ DOMAIN a = 1 .. Len(s) + 1
        /\ \A i \in 1 .. Len(s) : a[i] = s[i]
        /\ a[Len(s) + 1] = e
    BY LenProperties, AppendProperties
  <1> HIDE DEF a
  <1>2. Q!Elements(a) \subseteq Q!Elements(s) \cup {e}
    BY <1>1 DEF Q!Elements
  <1>3. Q!Elements(s) \subseteq Q!Elements(a)
    BY <1>1 DEF Q!Elements
  <1>4. e \in Q!Elements(a)
    BY <1>1 DEF Q!Elements
  <1> QED BY <1>1, <1>2, <1>3, <1>4 DEF a

(* Appending something new keeps a sequence free of duplicates.            *)
LEMMA DistinctAppend ==
    ASSUME NEW S, NEW s \in Seq(S), NEW e \in S, e \notin Q!Elements(s),
           \A i, j \in DOMAIN s : s[i] = s[j] => i = j
    PROVE  \A i, j \in DOMAIN Append(s, e) :
              Append(s, e)[i] = Append(s, e)[j] => i = j
  BY DEF Q!Elements

(* Without duplicates, taking the head removes exactly that element.       *)
LEMMA ElementsTail ==
    ASSUME NEW S, NEW s \in Seq(S), s # <<>>,
           \A i, j \in DOMAIN s : s[i] = s[j] => i = j
    PROVE  /\ Q!Elements(Tail(s)) = Q!Elements(s) \ {Head(s)}
           /\ Head(s) \in Q!Elements(s)
           /\ Tail(s) \in Seq(S)
           /\ \A i, j \in DOMAIN Tail(s) : Tail(s)[i] = Tail(s)[j] => i = j
  <1>1. /\ Head(s) = s[1] /\ 1 \in DOMAIN s /\ Head(s) \in S
        /\ Tail(s) \in Seq(S)
        /\ DOMAIN Tail(s) = 1 .. Len(s) - 1
        /\ \A i \in 1 .. Len(s) - 1 : Tail(s)[i] = s[i + 1]
    BY HeadTailProperties
  <1>2. DOMAIN s = 1 .. Len(s) /\ Len(s) \in Nat
    BY LenProperties
  <1>3. Q!Elements(Tail(s)) \subseteq Q!Elements(s) \ {Head(s)}
    BY <1>1, <1>2 DEF Q!Elements
  <1>4. ASSUME NEW e \in Q!Elements(s), e # Head(s) PROVE e \in Q!Elements(Tail(s))
    <2>1. PICK i \in DOMAIN s : e = s[i]
      BY DEF Q!Elements
    <2>2. i # 1
      BY <1>1, <1>4, <2>1
    <2>3. i - 1 \in 1 .. Len(s) - 1 /\ i = (i - 1) + 1
      BY <1>2, <2>2
    <2> QED BY <1>1, <2>1, <2>3 DEF Q!Elements
  <1>5. \A i, j \in DOMAIN Tail(s) : Tail(s)[i] = Tail(s)[j] => i = j
    BY <1>1, <1>2
  <1> QED BY <1>1, <1>3, <1>4, <1>5 DEF Q!Elements

(* Each step of the abstract queue keeps all that was submitted.            *)
LEMMA QueueKept == QueueInv /\ [Q!Next]_(Q!tqVars) => QueueInv'
  <1> SUFFICES ASSUME QueueInv, [Q!Next]_(Q!tqVars) PROVE QueueInv'
    OBVIOUS
  <1>i. /\ Queue \in Seq(Functor) /\ ran \in Seq(Functor)
        /\ Q!Elements(Queue) \cup Q!Elements(ran) = Submitted
        /\ Q!Elements(Queue) \cap Q!Elements(ran) = {}
        /\ \A i, j \in DOMAIN Queue : Queue[i] = Queue[j] => i = j
        /\ \A i, j \in DOMAIN ran : ran[i] = ran[j] => i = j
    BY DEF QueueInv, Q!ExactlyOnce, Queue, Submitted
  <1>p. ASSUME Queue' \in Seq(Functor), ran' \in Seq(Functor),
               Q!Elements(Queue') \cup Q!Elements(ran') = Submitted',
               Q!Elements(Queue') \cap Q!Elements(ran') = {},
               \A i, j \in DOMAIN Queue' : Queue'[i] = Queue'[j] => i = j,
               \A i, j \in DOMAIN ran' : ran'[i] = ran'[j] => i = j
        PROVE  QueueInv'
    BY <1>p DEF QueueInv, Q!ExactlyOnce, Queue, Submitted
  <1>1. ASSUME NEW t \in Functor, Q!Submit(t) PROVE QueueInv'
    <2>1. /\ t \notin Submitted
          /\ Submitted' = Submitted \cup {t}
          /\ Queue' = Append(Queue, t)
          /\ ran' = ran
      BY <1>1 DEF Q!Submit, Queue, Submitted
    <2>2. t \notin Q!Elements(Queue) /\ t \notin Q!Elements(ran)
      BY <1>i, <2>1
    <2>3. /\ Q!Elements(Queue') = Q!Elements(Queue) \cup {t}
          /\ Queue' \in Seq(Functor)
      BY <1>i, <2>1, ElementsAppend
    <2>4. \A i, j \in DOMAIN Queue' : Queue'[i] = Queue'[j] => i = j
      BY <1>i, <2>1, <2>2, DistinctAppend
    <2>5. Q!Elements(ran') = Q!Elements(ran)
      BY <2>1
    <2>6. \A i, j \in DOMAIN ran' : ran'[i] = ran'[j] => i = j
      BY <1>i, <2>1
    <2> QED BY <1>i, <1>p, <2>1, <2>2, <2>3, <2>4, <2>5, <2>6
  <1>2. CASE Q!Run
    <2> DEFINE t == Head(Queue)
    <2>1. /\ Queue # <<>>
          /\ ran' = Append(ran, t)
          /\ Queue' = Tail(Queue)
          /\ Submitted' = Submitted
      BY <1>2 DEF Q!Run, Queue, Submitted
    <2>2. /\ Q!Elements(Queue') = Q!Elements(Queue) \ {t}
          /\ t \in Q!Elements(Queue)
          /\ Queue' \in Seq(Functor)
          /\ \A i, j \in DOMAIN Queue' : Queue'[i] = Queue'[j] => i = j
      BY <1>i, <2>1, ElementsTail
    <2>3. t \in Functor /\ t \notin Q!Elements(ran)
      BY <1>i, <2>1, <2>2, HeadTailProperties
    <2>4. Q!Elements(ran') = Q!Elements(ran) \cup {t} /\ ran' \in Seq(Functor)
      BY <1>i, <2>1, <2>3, ElementsAppend
    <2>5. \A i, j \in DOMAIN ran' : ran'[i] = ran'[j] => i = j
      BY <1>i, <2>1, <2>3, DistinctAppend
    <2> HIDE DEF t
    <2> QED BY <1>i, <1>p, <2>1, <2>2, <2>3, <2>4, <2>5
  <1>3. CASE UNCHANGED Q!tqVars
    <2>1. Queue' = Queue /\ Submitted' = Submitted /\ ran' = ran
      BY <1>3 DEF Q!tqVars, Queue, Submitted
    <2> QED BY <1>i, <1>p, <2>1
  <1> QED BY <1>1, <1>2, <1>3 DEF Q!Next

(* And so, in the event loop, every functor queued so far has run or still *)
(* waits in the batch or in pendingFunctors_, and none of them occurs      *)
(* twice: what the abstract queue is for, along the refinement.            *)
THEOREM FunctorsExactlyOnce == Spec => []Q!ExactlyOnce
  <1>1. Q!Init => QueueInv
    <2>1. ASSUME Q!Init PROVE Queue = <<>> /\ Submitted = {} /\ ran = <<>>
      BY <2>1 DEF Q!Init, Queue, Submitted
    <2> QED BY <2>1, EmptySeq DEF QueueInv, Q!ExactlyOnce, Q!Elements, Queue, Submitted
  <1>2. QueueInv /\ [Q!Next]_(Q!tqVars) => QueueInv'
    BY QueueKept
  <1>3. QueueInv => Q!ExactlyOnce
    BY DEF QueueInv
  <1>4. Q!Spec => []Q!ExactlyOnce
    BY <1>1, <1>2, <1>3, PTL DEF Q!Spec
  <1> QED BY <1>4, ImplementsTaskQueue, PTL DEF TaskQueueSafety

----------------------------------------------------------------------------
(* The event loop in its thread.  The invariant of the loop, IInv, is      *)
(* carried through every step of the owner and of the thread; on top of it *)
(* stands what the two know of each other.                                 *)

(* Where the two threads can be: the loop is entered after the callback    *)
(* and left before the lock, loop_ is set exactly in between, and a half   *)
(* done wake-up belongs to a call through the pointer or to the destructor.*)
Places ==
    /\ ownerPc = "new" => threadPc = "none"
    /\ threadPc = "none" => ownerPc \in {"new", "gone"}
    /\ threadPc \in {"none", "callback"} => loopPc = "start"
    /\ threadPc \in {"locked", "unlocked", "dead"} => loopPc = "done"
    /\ loopPtr <=> threadPc = "loop"
    /\ callerPc[Owner] = "wakeup" => ownerPc \in {"using", "join"}

(* Unless the loop thread quits by itself, quit_ is set, and the loop is   *)
(* left, only once the destructor is on its way to the join.               *)
QuitByOwner ==
    ~selfQuit =>
        /\ quit => ownerPc \in {"join", "gone"}
        /\ loopPc = "done" => ownerPc \in {"join", "gone"}

ThreadInv == IInv /\ OwnershipHolds /\ Places /\ QuitByOwner

(* The first state.                                                        *)
LEMMA InitThread == ThreadInit => ThreadInv
  <1> SUFFICES ASSUME ThreadInit PROVE ThreadInv
    OBVIOUS
  <1>1. IInv
    BY InitIInv DEF ThreadInit
  <1>2. loopPc = "start" /\ ~quit /\ callerPc[Owner] = "idle"
    BY OwnerAssumption DEF ThreadInit, Init
  <1> QED
    BY <1>1, <1>2 DEF ThreadInit, ThreadInv, OwnershipHolds, ThreadTypeOK, IInv,
       Places, QuitByOwner

(* A step that is one of the event loop's, or none of its business, keeps  *)
(* the event loop's invariant.                                             *)
LEMMA LoopKept == ASSUME IInv, [Next]_vars PROVE IInv'
  BY NextIInv

(* So does the wake-up that finds the pipe closed: the loop is done, and   *)
(* waits for nothing any more.                                             *)
LEMMA LateWakeup ==
    ASSUME IInv, loopPc = "done", callerPc' = [callerPc EXCEPT ![Owner] = "idle"],
           UNCHANGED <<loopPc, queueVars, pipeVars, quitVars>>
    PROVE  IInv'
  <1>1. TypeOK'
    BY DEF IInv, TypeOK, queueVars, pipeVars, quitVars
  <1>2. Control'
    BY DEF IInv, Control, queueVars, pipeVars
  <1> QED
    BY <1>1, <1>2 DEF IInv, NoLostWakeup, NoLostQuit

(* Every step of the owner and of the thread.                              *)
LEMMA NextThread == ThreadInv /\ [ThreadNext]_allVars => ThreadInv'
  <1> SUFFICES ASSUME ThreadInv, [ThreadNext]_allVars PROVE ThreadInv'
    OBVIOUS
  <1> USE DEF ThreadInv
  <1>0. IInv /\ TypeOK /\ Owner \in Callers
    BY OwnerAssumption DEF IInv
  <1>1. CASE StartThread
    <2>1. UNCHANGED vars
      BY <1>1 DEF StartThread
    <2>2. IInv' /\ TypeOK'
      BY <1>0, <2>1, LoopKept DEF IInv
    <2>3. loopPc' = loopPc /\ quit' = quit /\ callerPc' = callerPc
      BY <2>1 DEF vars, quitVars
    <2> QED
      BY <1>1, <2>2, <2>3
      DEF StartThread, OwnershipHolds, ThreadTypeOK, Places, QuitByOwner
  <1>2. CASE StartReturns
    <2>1. UNCHANGED vars
      BY <1>2 DEF StartReturns
    <2>2. IInv' /\ TypeOK'
      BY <1>0, <2>1, LoopKept DEF IInv
    <2>3. loopPc' = loopPc /\ quit' = quit /\ callerPc' = callerPc
      BY <2>1 DEF vars, quitVars
    <2> QED
      BY <1>2, <2>2, <2>3
      DEF StartReturns, OwnershipHolds, ThreadTypeOK, Places, QuitByOwner
  <1>3. CASE DtorTests
    <2>1. UNCHANGED vars
      BY <1>3 DEF DtorTests
    <2>2. IInv' /\ TypeOK'
      BY <1>0, <2>1, LoopKept DEF IInv
    <2>3. loopPc' = loopPc /\ quit' = quit /\ callerPc' = callerPc
      BY <2>1 DEF vars, quitVars
    <2> QED
      BY <1>3, <2>2, <2>3
      DEF DtorTests, OwnershipHolds, ThreadTypeOK, Places, QuitByOwner
  <1>4. CASE DtorJoins
    <2>1. UNCHANGED vars
      BY <1>4 DEF DtorJoins
    <2>2. IInv' /\ TypeOK'
      BY <1>0, <2>1, LoopKept DEF IInv
    <2>3. loopPc' = loopPc /\ quit' = quit /\ callerPc' = callerPc
      BY <2>1 DEF vars, quitVars
    <2> QED
      BY <1>4, <2>2, <2>3
      DEF DtorJoins, OwnershipHolds, ThreadTypeOK, Places, QuitByOwner
  <1>5. CASE Publish
    <2>1. UNCHANGED vars
      BY <1>5 DEF Publish
    <2>2. IInv' /\ TypeOK'
      BY <1>0, <2>1, LoopKept DEF IInv
    <2>3. loopPc' = loopPc /\ quit' = quit /\ callerPc' = callerPc
      BY <2>1 DEF vars, quitVars
    <2> QED
      BY <1>5, <2>2, <2>3
      DEF Publish, OwnershipHolds, ThreadTypeOK, Places, QuitByOwner
  <1>6. CASE Unpublish
    <2>1. UNCHANGED vars
      BY <1>6 DEF Unpublish
    <2>2. IInv' /\ TypeOK'
      BY <1>0, <2>1, LoopKept DEF IInv
    <2>3. loopPc' = loopPc /\ quit' = quit /\ callerPc' = callerPc
      BY <2>1 DEF vars, quitVars
    <2> QED
      BY <1>6, <2>2, <2>3
      DEF Unpublish, OwnershipHolds, ThreadTypeOK, Places, QuitByOwner
  <1>7. CASE Unlock
    <2>1. UNCHANGED vars
      BY <1>7 DEF Unlock
    <2>2. IInv' /\ TypeOK'
      BY <1>0, <2>1, LoopKept DEF IInv
    <2>3. loopPc' = loopPc /\ quit' = quit /\ callerPc' = callerPc
      BY <2>1 DEF vars, quitVars
    <2> QED
      BY <1>7, <2>2, <2>3
      DEF Unlock, OwnershipHolds, ThreadTypeOK, Places, QuitByOwner
  <1>8. CASE DestroyLoop
    <2>1. UNCHANGED vars
      BY <1>8 DEF DestroyLoop
    <2>2. IInv' /\ TypeOK'
      BY <1>0, <2>1, LoopKept DEF IInv
    <2>3. loopPc' = loopPc /\ quit' = quit /\ callerPc' = callerPc
      BY <2>1 DEF vars, quitVars
    <2> QED
      BY <1>8, <2>2, <2>3
      DEF DestroyLoop, OwnershipHolds, ThreadTypeOK, Places, QuitByOwner
  <1>9. CASE ThreadStopped
    <2>1. UNCHANGED vars
      BY <1>9 DEF ThreadStopped, allVars
    <2>2. IInv' /\ TypeOK'
      BY <1>0, <2>1, LoopKept DEF IInv
    <2>3. loopPc' = loopPc /\ quit' = quit /\ callerPc' = callerPc
      BY <2>1 DEF vars, quitVars
    <2> QED
      BY <1>9, <2>2, <2>3
      DEF ThreadStopped, allVars, threadVars, OwnershipHolds, ThreadTypeOK, Places, QuitByOwner
  <1>10. CASE OwnerQueues
    <2>1. CASE LoopAlive /\ CallerQueues(Owner) /\ UNCHANGED misuse
      <3>1. IInv' /\ TypeOK'
        BY <1>0, <2>1, LoopKept DEF IInv, Next
      <3>2. /\ loopPc' = loopPc /\ quit' = quit
            /\ callerPc' = [callerPc EXCEPT ![Owner] = "wakeup"]
        BY <2>1 DEF CallerQueues, quitVars
      <3> QED
        BY <1>0, <1>10, <2>1, <3>1, <3>2
        DEF OwnerQueues, TypeOK, OwnershipHolds, ThreadTypeOK, Places, QuitByOwner
    <2>2. CASE ~LoopAlive /\ misuse' = misuse \cup {"queueInLoop"} /\ UNCHANGED vars
      <3>1. IInv' /\ TypeOK'
        BY <1>0, <2>2, LoopKept DEF IInv
      <3>2. loopPc' = loopPc /\ quit' = quit /\ callerPc' = callerPc
        BY <2>2 DEF vars, quitVars
      <3> QED
        BY <1>10, <2>2, <3>1, <3>2
        DEF OwnerQueues, LoopAlive, OwnershipHolds, ThreadTypeOK, Places, QuitByOwner
    <2> QED
      BY <1>10, <2>1, <2>2 DEF OwnerQueues
  <1>11. CASE OwnerWakeup
    <2>1. CASE LoopAlive /\ CallerWakeup(Owner) /\ UNCHANGED misuse
      <3>1. IInv' /\ TypeOK'
        BY <1>0, <2>1, LoopKept DEF IInv, Next
      <3>2. /\ loopPc' = loopPc /\ quit' = quit
            /\ callerPc' = [callerPc EXCEPT ![Owner] = "idle"]
        BY <2>1 DEF CallerWakeup, quitVars
      <3> QED
        BY <1>0, <1>11, <2>1, <3>1, <3>2
        DEF OwnerWakeup, TypeOK, OwnershipHolds, ThreadTypeOK, Places, QuitByOwner
    <2>2. CASE /\ ~LoopAlive
               /\ callerPc[Owner] = "wakeup"
               /\ callerPc' = [callerPc EXCEPT ![Owner] = "idle"]
               /\ misuse' = misuse \cup {"wakeup"}
               /\ UNCHANGED <<loopPc, queueVars, pipeVars, quitVars>>
      <3>1. loopPc = "done"
        BY <2>2 DEF LoopAlive, Places
      <3>2. IInv' /\ TypeOK'
        BY <1>0, <2>2, <3>1, LateWakeup DEF IInv
      <3>3. loopPc' = loopPc /\ quit' = quit
        BY <2>2 DEF quitVars
      <3> QED
        BY <1>0, <1>11, <2>2, <3>2, <3>3
        DEF OwnerWakeup, TypeOK, OwnershipHolds, ThreadTypeOK, Places, QuitByOwner
    <2> QED
      BY <1>11, <2>1, <2>2 DEF OwnerWakeup
  <1>12. CASE DtorQuits
    <2>1. CASE loopPtr /\ CallerQuits(Owner) /\ UNCHANGED misuse
      <3>1. IInv' /\ TypeOK'
        BY <1>0, <2>1, LoopKept DEF IInv, Next
      <3>2. loopPc' = loopPc /\ callerPc' = [callerPc EXCEPT ![Owner] = "wakeup"]
        BY <2>1 DEF CallerQuits
      <3> QED
        BY <1>0, <1>12, <2>1, <3>1, <3>2
        DEF DtorQuits, TypeOK, OwnershipHolds, ThreadTypeOK, Places, QuitByOwner
    <2>2. CASE ~loopPtr /\ misuse' = misuse \cup {"quit"} /\ UNCHANGED vars
      <3>1. IInv' /\ TypeOK'
        BY <1>0, <2>2, LoopKept DEF IInv
      <3>2. loopPc' = loopPc /\ quit' = quit /\ callerPc' = callerPc
        BY <2>2 DEF vars, quitVars
      <3> QED
        BY <1>12, <2>2, <3>1, <3>2
        DEF DtorQuits, OwnershipHolds, ThreadTypeOK, Places, QuitByOwner
    <2> QED
      BY <1>12, <2>1, <2>2 DEF DtorQuits
  <1>13. CASE InitCallbackCalls
    <2>1. CASE LoopQueues("start", "prior") /\ UNCHANGED selfQuit
      <3>1. IInv' /\ TypeOK' /\ Control
        BY <1>0, <2>1, LoopKept DEF IInv, Next, LoopCalls
      <3>2. loopPc' = loopPc /\ quit' = quit /\ callerPc' = callerPc
        BY <2>1, <3>1 DEF LoopQueues, WakeupAfterPush, Control, quitVars
      <3> QED
        BY <1>13, <2>1, <3>1, <3>2
        DEF InitCallbackCalls, OwnershipHolds, ThreadTypeOK, Places, QuitByOwner
    <2>2. CASE LoopQuits /\ selfQuit' = TRUE
      <3>1. IInv' /\ TypeOK'
        BY <1>0, <2>2, LoopKept DEF IInv, Next, LoopCalls
      <3>2. loopPc' = loopPc /\ callerPc' = callerPc
        BY <2>2 DEF LoopQuits
      <3> QED
        BY <1>13, <2>2, <3>1, <3>2
        DEF InitCallbackCalls, OwnershipHolds, ThreadTypeOK, Places, QuitByOwner
    <2> QED
      BY <1>13, <2>1, <2>2 DEF InitCallbackCalls
  <1>14. CASE RunLoop
    <2>1. IInv' /\ TypeOK'
      BY <1>0, <1>14, LoopKept DEF RunLoop, IInv, Next
    <2>2. /\ callerPc' = callerPc \/ callerPc'[Owner] = callerPc[Owner]
          /\ quit' => quit
          /\ loopPc' = "done" => quit
      BY <1>14 DEF RunLoop, LoopStep, EnterLoop, EnterPoll, LeaveLoop, PollWakeup,
         HandleRead, EndHandlers, SwapFunctors, BeginFunctor, EndFunctor, EndBatch,
         LoopWakeup, quitVars
    <2>3. quitLost' \in BOOLEAN
      BY <1>0, <1>14 DEF RunLoop, TypeOK, OwnershipHolds, ThreadTypeOK
    <2> QED
      BY <1>14, <2>1, <2>2, <2>3
      DEF RunLoop, OwnershipHolds, ThreadTypeOK, Places, QuitByOwner
  <1>15. CASE LoopEvent
    <2>1. IInv' /\ TypeOK'
      BY <1>0, <1>15, LoopKept DEF LoopEvent, IInv, Next, LoopCalls
    <2>2. callerPc' = callerPc /\ quit' = quit /\ loopPc' # "done"
      BY <1>15 DEF LoopEvent, PollOther, LoopQueues, quitVars
    <2> QED
      BY <1>15, <2>1, <2>2
      DEF LoopEvent, threadVars, OwnershipHolds, ThreadTypeOK, Places, QuitByOwner
  <1>16. CASE QuitFromLoop
    <2>1. IInv' /\ TypeOK'
      BY <1>0, <1>16, LoopKept DEF QuitFromLoop, IInv, Next, LoopCalls
    <2>2. callerPc' = callerPc /\ loopPc' = loopPc
      BY <1>16 DEF QuitFromLoop, LoopQuits
    <2> QED
      BY <1>16, <2>1, <2>2
      DEF QuitFromLoop, OwnershipHolds, ThreadTypeOK, Places, QuitByOwner
  <1>17. CASE UNCHANGED allVars
    <2>1. UNCHANGED vars
      BY <1>17 DEF allVars
    <2>2. IInv' /\ TypeOK'
      BY <1>0, <2>1, LoopKept DEF IInv
    <2>3. loopPc' = loopPc /\ quit' = quit /\ callerPc' = callerPc
      BY <2>1 DEF vars, quitVars
    <2> QED
      BY <1>17, <2>2, <2>3
      DEF allVars, threadVars, OwnershipHolds, ThreadTypeOK, Places, QuitByOwner
  <1> QED
    BY <1>1, <1>2, <1>3, <1>4, <1>5, <1>6, <1>7, <1>8, <1>9, <1>10, <1>11,
       <1>12, <1>13, <1>14, <1>15, <1>16, <1>17
    DEF ThreadNext, OwnerStep, ThreadStep

(* So the invariant always holds.                                          *)
LEMMA AlwaysThreadInv == ThreadSpec => []ThreadInv
  <1>1. ThreadInit => ThreadInv
    BY InitThread
  <1>2. ThreadInv /\ [ThreadNext]_allVars => ThreadInv'
    BY NextThread
  <1> QED BY <1>1, <1>2, PTL DEF ThreadSpec

(* startLoop() to ~EventLoopThread: as long as the loop thread does not    *)
(* quit by itself, the owner's pointer stays good until the destructor has *)
(* set quit_, no thread survives a finished destructor, and no destroyed   *)
(* object is touched but the pipe, by the wake-up of that last quit().     *)
THEOREM OwnershipKept == ThreadSpec => []OwnershipHolds
  <1>1. ThreadInv => OwnershipHolds
    BY DEF ThreadInv
  <1> QED BY <1>1, AlwaysThreadInv, PTL

(* What EventLoop promises a fixed set of callers survives an owner that   *)
(* comes before the loop and stays after it: no functor and no quit() of   *)
(* the owner is ever left behind a poll without a wake-up.                 *)
THEOREM WakeupsSurviveOwnership == ThreadSpec => [](NoLostWakeup /\ NoLostQuit)
  <1>1. ThreadInv => NoLostWakeup /\ NoLostQuit
    BY DEF ThreadInv, IInv
  <1> QED BY <1>1, AlwaysThreadInv, PTL
=============================================================================
