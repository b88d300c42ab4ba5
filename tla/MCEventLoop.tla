---------------------------- MODULE MCEventLoop ----------------------------
(* EventLoop for TLC: two callers, every context queues something.         *)
EXTENDS EventLoop

CONSTANTS c1, c2

MCQuota == [x \in {c1, c2} \cup LoopContexts |-> 1]
=============================================================================
