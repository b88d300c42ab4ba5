-------------------------------- MODULE Fifo --------------------------------
(***************************************************************************)
(* What a queue between threads promises: items leave in the order they    *)
(* came, each once, and at most capacity of them wait.  BlockingQueue and  *)
(* BoundedBlockingQueue are shown to implement this.                       *)
(***************************************************************************)
EXTENDS Integers, Sequences

CONSTANT Item

VARIABLES items,    \* the items waiting
          taken,    \* the items taken, in order
          capacity  \* stays what it is

Init == items = <<>> /\ taken = <<>> /\ capacity \in Nat

Put(x) == /\ Len(items) < capacity
          /\ items' = Append(items, x)
          /\ UNCHANGED <<taken, capacity>>

Take == /\ items # <<>>
        /\ items' = Tail(items)
        /\ taken' = Append(taken, Head(items))
        /\ UNCHANGED capacity

Drain == /\ items' = <<>>
         /\ taken' = taken \o items
         /\ UNCHANGED capacity

Next == Take \/ Drain \/ \E x \in Item : Put(x)

Spec == Init /\ [][Next]_<<items, taken, capacity>>
=============================================================================
