------------------------- MODULE MCEventLoopThread -------------------------
(* EventLoopThread for TLC: the owner queues two functors, and the pipe    *)
(* holds one wake-up, so that the owner's writes block.  Functors queue    *)
(* nothing here: under so small a pipe the loop would block itself.        *)
EXTENDS EventLoopThread

MCQuota == [x \in {Owner} \cup LoopContexts |->
               CASE x = Owner -> 2 [] x = "functor" -> 0 [] OTHER -> 1]
=============================================================================
