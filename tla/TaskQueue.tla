----------------------------- MODULE TaskQueue -----------------------------
(***************************************************************************)
(* What EventLoop::queueInLoop promises, with no threads, no pipe and no   *)
(* lock: tasks are submitted once, wait in one queue, and leave it from    *)
(* the front by being run.  EventLoop is shown to implement this.          *)
(***************************************************************************)
EXTENDS Integers, Sequences

CONSTANT Task           \* the tasks that may ever be submitted

VARIABLES submitted,    \* the tasks submitted so far
          queue,        \* submitted and not yet run, oldest first
          ran           \* run, in the order they ran

tqVars == <<submitted, queue, ran>>

Init == /\ submitted = {}
        /\ queue = <<>>
        /\ ran = <<>>

Submit(t) == /\ t \notin submitted
             /\ submitted' = submitted \cup {t}
             /\ queue' = Append(queue, t)
             /\ UNCHANGED ran

Run == /\ queue # <<>>
       /\ ran' = Append(ran, Head(queue))
       /\ queue' = Tail(queue)
       /\ UNCHANGED submitted

Next == Run \/ \E t \in Task : Submit(t)

Spec == Init /\ [][Next]_tqVars

----------------------------------------------------------------------------
Elements(s) == {s[i] : i \in DOMAIN s}

(* What the queue is for, in one state predicate: what was submitted is    *)
(* either still queued or has run, and nothing occurs twice.               *)
ExactlyOnce ==
    /\ Elements(queue) \cup Elements(ran) = submitted
    /\ Elements(queue) \cap Elements(ran) = {}
    /\ \A i, j \in DOMAIN queue : queue[i] = queue[j] => i = j
    /\ \A i, j \in DOMAIN ran : ran[i] = ran[j] => i = j
=============================================================================
