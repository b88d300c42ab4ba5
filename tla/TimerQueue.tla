----------------------------- MODULE TimerQueue -----------------------------
(***************************************************************************)
(* net/timerQueue.cpp and net/timer.cpp in their event loop: the loop      *)
(* thread runs expired timers after each poll, callbacks and handlers add  *)
(* and cancel timers at once, and other threads do so through functors     *)
(* that doPendingFunctors runs later, in order.                            *)
(***************************************************************************)
EXTENDS TimerHeap, Sequences

CONSTANTS
    Repeating,  \* the timers made by runEvery
    MaxTime,    \* bound: the clock stops here
    Careless    \* what the users do without care: "cancel" any timer at any
                \* time, set a timer for a time already "past"

ASSUME RepeatingAssumption == Repeating \subseteq Timer
ASSUME MaxTimeAssumption   == MaxTime \in Nat
ASSUME CarelessAssumption  == Careless \subseteq {"cancel", "past"}

VARIABLES
    pc,         \* the loop thread: "poll", "expire" and "callback" (timers),
                \* "handle" (channels) or "functors" (doPendingFunctors)
    now,        \* the clock
    until,      \* when the poll ends at the latest; 0 outside of it
    pollTime,   \* pollReturnTime_
    heap,       \* timeMinHeap_
    exp,        \* expiration_ of every timer
    ops,        \* addTimerInLoop / cancelInLoop functors not yet run
    batch,      \* how many of ops doPendingFunctors has swapped out to run
    cur,        \* the timer whose callback runs
    status,     \* history: what the users of the timers are entitled to expect
    undef       \* history: an operation undefined in C++ was reached

vars == <<pc, now, until, pollTime, heap, exp, ops, batch, cur, status, undef>>

Interval == 1

(* earliestExpiredTime(), in milliseconds, of which a tick of the clock    *)
(* has Tick_ms: what is left until the first timer is in seconds, and a    *)
(* timer that is overdue waits for another 100 ms.                         *)
Tick_ms == 100
defaultTimeout == 10000
defaultOuttime == 100

earliestExpiredTime(h, times) ==
    CASE HeapTop(h) = NoTimer      -> defaultTimeout
      [] HeapTop(h) # NoTimer /\ times[HeapTop(h)] > now
                                   -> ((times[HeapTop(h)] - now) * Tick_ms) \div 1000
      [] OTHER                     -> defaultOuttime

PollEnd(h, times) == now + earliestExpiredTime(h, times) \div Tick_ms

Init ==
    /\ pc = "poll"
    /\ now = 0
    /\ until = defaultTimeout \div Tick_ms
    /\ pollTime = 0
    /\ heap = EmptyHeap
    /\ exp = [t \in Timer |-> 0]
    /\ ops = <<>>
    /\ batch = 0
    /\ cur = NoTimer
    /\ status = [t \in Timer |-> "new"]
    /\ undef = FALSE

----------------------------------------------------------------------------
(* The times a timer is set for: runAfter and runEvery count from now,     *)
(* runAt may name any time.                                                *)
WhenSet == {w \in 0 .. MaxTime : w \in {now, now + 1} \/ ("past" \in Careless /\ w < now)}

(* When is it safe to cancel?  Never the timer whose callback is running,  *)
(* never one that may have fired: for another thread, whose cancel is only *)
(* queued, that leaves the repeating ones.                                 *)
LoopMayCancel(t)  == "cancel" \in Careless \/ (t # cur /\ status[t] \in {"armed", "cancelled"})
OtherMayCancel(t) == "cancel" \in Careless \/ t \in Repeating

(* Faulty variant (mutation runs only): a time already reached is ignored.*)
AddUnlessDue(t, when) ==
    heap' = IF when <= now THEN heap ELSE HeapPush(heap, [exp EXCEPT ![t] = when], t)
AddTimerInLoop(t, when) == heap' = HeapPush(heap, [exp EXCEPT ![t] = when], t)

CancelInLoop(t) ==
    IF EraseUndefined(heap, t)
    THEN undef' = TRUE /\ UNCHANGED heap
    ELSE heap' = HeapErase(heap, exp, t) /\ UNCHANGED undef

(* What is expected after cancel(t): a timer that has not fired will not.  *)
Cancelled(t) == [status EXCEPT ![t] = IF @ \in {"armed", "queued"} THEN "cancelled" ELSE @]

(* Other threads: TimerQueue::addTimer allocates the timer and queues the  *)
(* rest; cancel queues everything.                                         *)
OtherAdds(t, when) ==
    /\ ~undef
    /\ status[t] = "new"
    /\ status' = [status EXCEPT ![t] = "queued"]
    /\ exp' = [exp EXCEPT ![t] = when]
    /\ ops' = Append(ops, [op |-> "add", timer |-> t])
    /\ UNCHANGED <<pc, now, until, pollTime, heap, batch, cur, undef>>

OtherCancels(t) ==
    /\ ~undef
    /\ status[t] # "new"
    /\ OtherMayCancel(t)
    /\ [op |-> "cancel", timer |-> t] \notin {ops[i] : i \in DOMAIN ops}
    /\ ops' = Append(ops, [op |-> "cancel", timer |-> t])
    /\ UNCHANGED <<pc, now, until, pollTime, heap, exp, batch, cur, status, undef>>

(* The loop thread, in a callback or a handler: runInLoop acts at once.    *)
LoopAdds(t, when) ==
    /\ ~undef
    /\ pc \in {"callback", "handle", "functors"}
    /\ status[t] = "new"
    /\ status' = [status EXCEPT ![t] = "armed"]
    /\ exp' = [exp EXCEPT ![t] = when]
    /\ AddTimerInLoop(t, when)
    /\ UNCHANGED <<pc, now, until, pollTime, ops, batch, cur, undef>>

LoopCancels(t) ==
    /\ ~undef
    /\ pc \in {"callback", "handle", "functors"}
    /\ status[t] # "new"
    /\ LoopMayCancel(t)
    /\ status' = Cancelled(t)
    /\ CancelInLoop(t)
    /\ UNCHANGED <<pc, now, until, pollTime, exp, ops, batch, cur>>

(* doPendingFunctors runs the queued operations, oldest first.             *)
RunAdd ==
    /\ ~undef
    /\ pc = "functors"
    /\ batch > 0
    /\ batch' = batch - 1
    /\ Head(ops).op = "add"
    /\ LET t == Head(ops).timer
       IN  /\ AddTimerInLoop(t, exp[t])
           /\ status' = [status EXCEPT ![t] = IF @ = "queued" THEN "armed" ELSE @]
    /\ ops' = Tail(ops)
    /\ UNCHANGED <<pc, now, until, pollTime, exp, cur, undef>>

RunCancel ==
    /\ ~undef
    /\ pc = "functors"
    /\ batch > 0
    /\ batch' = batch - 1
    /\ Head(ops).op = "cancel"
    /\ CancelInLoop(Head(ops).timer)
    /\ status' = Cancelled(Head(ops).timer)
    /\ ops' = Tail(ops)
    /\ UNCHANGED <<pc, now, until, pollTime, exp, cur>>

----------------------------------------------------------------------------
(* Time passes; a poll ends in time, and when a functor wakes it.          *)
Tick ==
    /\ now < MaxTime
    /\ pc = "poll" => now < until /\ ops = <<>>
    /\ now' = now + 1
    /\ UNCHANGED <<pc, until, pollTime, heap, exp, ops, batch, cur, status, undef>>

PollReturns ==
    /\ ~undef
    /\ pc = "poll"
    /\ pollTime' = now
    /\ until' = 0
    /\ pc' = "expire"
    /\ UNCHANGED <<now, heap, exp, ops, batch, cur, status, undef>>

(* expiredProcess, one round: run the top timer if it is due...            *)
TopIsDue == heap.size > 0 /\ exp[HeapTop(heap)] <= pollTime

RunTimer ==
    /\ ~undef
    /\ pc = "expire"
    /\ TopIsDue
    /\ cur' = HeapTop(heap)
    /\ status' = [status EXCEPT ![cur'] = IF @ = "armed" /\ cur' \notin Repeating
                                          THEN "fired" ELSE @]
    /\ pc' = "callback"
    /\ UNCHANGED <<now, until, pollTime, heap, exp, ops, batch, undef>>

(* ... then pop whatever is on top, and push the timer again if it repeats.*)
PopAndRestart(restarted) ==
    LET popped == HeapPop(heap, exp)
    IN  IF cur \in Repeating THEN HeapPush(popped, restarted, cur) ELSE popped

CallbackReturns ==
    /\ ~undef
    /\ pc = "callback"
    /\ exp' = IF cur \in Repeating THEN [exp EXCEPT ![cur] = pollTime + Interval] ELSE exp
    /\ heap' = PopAndRestart(exp')
    /\ cur' = NoTimer
    /\ pc' = "expire"
    /\ UNCHANGED <<now, until, pollTime, ops, batch, status, undef>>

NoMoreDue ==
    /\ ~undef
    /\ pc = "expire"
    /\ ~TopIsDue
    /\ pc' = "handle"
    /\ UNCHANGED <<now, until, pollTime, heap, exp, ops, batch, cur, status, undef>>

SwapFunctors ==
    /\ ~undef
    /\ pc = "handle"
    /\ batch' = Len(ops)
    /\ pc' = "functors"
    /\ UNCHANGED <<now, until, pollTime, heap, exp, ops, cur, status, undef>>

EndIteration ==
    /\ ~undef
    /\ pc = "functors"
    /\ batch = 0
    /\ pc' = "poll"
    /\ until' = PollEnd(heap, exp)
    /\ UNCHANGED <<now, pollTime, heap, exp, ops, batch, cur, status, undef>>

LoopStep == \/ PollReturns \/ RunTimer \/ CallbackReturns \/ NoMoreDue
            \/ SwapFunctors \/ RunAdd \/ RunCancel \/ EndIteration

Next == \/ LoopStep
        \/ Tick
        \/ \E t \in Timer, w \in WhenSet : OtherAdds(t, w) \/ LoopAdds(t, w)
        \/ \E t \in Timer : OtherCancels(t) \/ LoopCancels(t)

(* The loop thread runs and time passes, even while polls of no length     *)
(* follow each other; nobody has to set a timer.                           *)
Spec == Init /\ [][Next]_vars /\ WF_vars(LoopStep) /\ SF_vars(Tick)

----------------------------------------------------------------------------
TypeOK ==
    /\ pc \in {"poll", "expire", "callback", "handle", "functors"}
    /\ now \in 0 .. MaxTime
    /\ {until, pollTime} \subseteq Nat
    /\ heap \in [event : [Slots -> Timer \cup {NoTimer}],
                 size  : 0 .. Cardinality(Timer),
                 idx   : [Timer -> Slots \cup {NotInHeap, Unset}]]
    /\ exp \in [Timer -> 0 .. MaxTime + Interval]
    /\ ops \in Seq([op : {"add", "cancel"}, timer : Timer])
    /\ batch \in 0 .. Len(ops)
    /\ cur \in Timer \cup {NoTimer}
    /\ status \in [Timer -> {"new", "queued", "armed", "cancelled", "fired"}]
    /\ undef \in BOOLEAN

(* The heap never loses a timer and keeps none it should not: its members  *)
(* are the armed timers, and the one-shot timer whose callback runs, and   *)
(* every min_heap_idx that cancel will trust is right.                     *)
HeapMatchesTimers ==
    /\ TypeOK
    /\ ~undef
    /\ IsHeap(heap, exp)
    /\ Members(heap) = {t \in Timer : status[t] = "armed"}
                          \cup (IF pc = "callback" THEN {cur} ELSE {})

(* A callback starts only for a timer that is set, due and not cancelled,  *)
(* and no other timer in the heap was due before it; and no poll keeps a   *)
(* timer waiting for more than 100 ms, past the time it is set for or past *)
(* the beginning of the poll (timerQueue.cpp:63-91).                       *)
RunsEarliestArmed ==
    [][/\ pc' = "callback" /\ pc # "callback" =>
             /\ status[cur'] = "armed"
             /\ exp[cur'] <= pollTime
             /\ \A t \in Timer : status[t] = "armed" => exp[cur'] <= exp[t]
       /\ pc' = "poll" /\ pc # "poll" =>
             \A t \in Timer : status[t] = "armed" => until' <= Max({exp[t], now}) + 1]_vars

(* "Runs callback at 'time'": a timer that is set is run unless cancelled. *)
TimerFires ==
    \A t \in Timer \ Repeating :
        (status[t] = "armed" /\ exp[t] <= MaxTime) ~> (status[t] \in {"fired", "cancelled"})

(* The same as an invariant of the state between two iterations.           *)
NoTimerLost ==
    pc = "poll" /\ ~undef => \A t \in Timer : status[t] = "armed" => t \in Members(heap)
=============================================================================
