----------------------------- MODULE TimerHeap -----------------------------
(***************************************************************************)
(* net/timeMinHeap.h: a binary heap of Timer* ordered by expiration, in an *)
(* array, where every timer records its own slot in min_heap_idx.          *)
(*                                                                         *)
(* A heap is a record [event, size, idx].  event keeps what the array      *)
(* holds, the slots past size included; idx[t] is t->min_heap_idx, and     *)
(* Unset before the first push, since no constructor initialises it.       *)
(* The two sift loops are given by the slots the hole visits.              *)
(***************************************************************************)
EXTENDS Integers, FiniteSets, FiniteSetsExt

CONSTANTS Timer,        \* the Timer objects that may be allocated
          NoTimer       \* what an unused slot holds

ASSUME TimerAssumption == IsFiniteSet(Timer) /\ NoTimer \notin Timer

Slots == 0 .. Cardinality(Timer) - 1
Unset == -2
NotInHeap == -1

EmptyHeap == [event |-> [i \in Slots |-> NoTimer],
              size  |-> 0,
              idx   |-> [t \in Timer |-> Unset]]

Greater(exp, t, u) == exp[t] > exp[u]
Parent(i)          == (i - 1) \div 2

(* The slots that the hole visits, when from slot i it moves on to to[i],  *)
(* or stays if that is i.                                                  *)
Visited(to, hole) ==
    LET chain[i \in DOMAIN to] == IF to[i] = i THEN {i} ELSE {i} \cup chain[to[i]]
    IN  chain[hole]

(* Either sift loop: a slot gets what is in the one the hole moves to, the *)
(* last one gets e, and idx is kept in step; of a timer stored twice, it   *)
(* is the slot stored last.                                                *)
Sift(h, to, hole, e, towardsRoot) ==
    LET value(i) == IF to[i] = i THEN e ELSE h.event[to[i]]
        stored   == [i \in Visited(to, hole) |-> value(i)]
        at(t)    == {i \in DOMAIN stored : stored[i] = t}
    IN  [h EXCEPT !.event = [i \in Slots |-> IF i \in DOMAIN stored THEN stored[i] ELSE @[i]],
                  !.idx   = [t \in Timer |-> IF at(t) = {} THEN @[t]
                                             ELSE IF towardsRoot THEN Min(at(t))
                                             ELSE Max(at(t))]]

(* min_heap_shift_up_: the hole moves towards the root.                    *)
UpFrom(h, exp, hole, e) ==
    [i \in 0 .. hole |-> IF i = 0 \/ ~Greater(exp, h.event[Parent(i)], e)
                         THEN i ELSE Parent(i)]

ShiftUp(h, exp, hole, e) == Sift(h, UpFrom(h, exp, hole, e), hole, e, TRUE)

(* Faulty variant (mutation runs only): off by one.                      *)
AtEnd(h, right)   == right >= h.size
PastEnd(h, right) == right > h.size

(* min_heap_shift_down_: the hole moves towards the lesser child.          *)
RightChild(i) == 2 * (i + 1)

LesserChild(h, exp, i) ==
    LET right == RightChild(i)
    IN  IF right = h.size \/ Greater(exp, h.event[right], h.event[right - 1])
        THEN right - 1 ELSE right

DownFrom(h, exp, e) ==
    [i \in Slots |-> IF \/ PastEnd(h, RightChild(i))
                       \/ ~Greater(exp, e, h.event[LesserChild(h, exp, i)])
                     THEN i ELSE LesserChild(h, exp, i)]

ShiftDown(h, exp, hole, e) == Sift(h, DownFrom(h, exp, e), hole, e, FALSE)

HeapPush(h, exp, t) == ShiftUp([h EXCEPT !.size = @ + 1], exp, h.size, t)

(* min_heap_pop removes the root, whatever that is by now, and does not    *)
(* touch the min_heap_idx of what it removed.                              *)
HeapPop(h, exp) ==
    IF h.size = 0 THEN h
    ELSE ShiftDown([h EXCEPT !.size = @ - 1], exp, 0, h.event[h.size - 1])

HeapTop(h) == IF h.size = 0 THEN NoTimer ELSE h.event[0]

(* Faulty variant (mutation runs only): min_heap_idx is not reset.       *)
KeepSlot(h, t)   == h
ForgetSlot(h, t) == [h EXCEPT !.idx[t] = NotInHeap]

(* min_heap_erase trusts min_heap_idx.  It is undefined when that was      *)
(* never set, or when there is nothing to erase (size wraps below 0).      *)
HeapErase(h, exp, t) ==
    LET last == h.event[h.size - 1]
        cut  == [h EXCEPT !.size = @ - 1]
        at   == h.idx[t]
        new  == IF at > 0 /\ Greater(exp, h.event[Parent(at)], last)
                THEN ShiftUp(cut, exp, at, last)
                ELSE ShiftDown(cut, exp, at, last)
    IN  IF at = NotInHeap THEN h
        ELSE ForgetSlot(new, t)

EraseUndefined(h, t) == h.idx[t] = Unset \/ (h.idx[t] # NotInHeap /\ h.size = 0)

----------------------------------------------------------------------------
Members(h) == {h.event[i] : i \in 0 .. h.size - 1}

(* A heap: ordered, without duplicates, every member knowing its slot.     *)
IsHeap(h, exp) ==
    \A i \in 0 .. h.size - 1 :
        /\ h.idx[h.event[i]] = i
        /\ i > 0 => ~Greater(exp, h.event[Parent(i)], h.event[i])
=============================================================================
