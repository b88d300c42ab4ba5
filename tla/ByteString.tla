----------------------------- MODULE ByteString -----------------------------
(***************************************************************************)
(* What a net/buffer.h Buffer promises: a string of bytes to which one can *)
(* add at both ends, from which one can take at both ends, and in which    *)
(* one can look.  A call is what was asked and, of those that look, what   *)
(* was answered; 0 stands for a null pointer.                              *)
(***************************************************************************)
EXTENDS Integers, Sequences

CONSTANTS CR, LF,                   \* bytes
          ToInt(_)                  \* the number that bytes stand for

VARIABLES bytes, call

Init == bytes = <<>> /\ call = [op |-> "new"]

Asks(op) == call'.op = op

Appended == /\ Asks("append")
          /\ bytes' = bytes \o call'.str

Prepended == /\ Asks("prepend")
           /\ bytes' = call'.str \o bytes

Retrieve == /\ Asks("retrieve")
            /\ call'.str = SubSeq(bytes, 1, Len(call'.str))
            /\ bytes' = SubSeq(bytes, Len(call'.str) + 1, Len(bytes))

Unwrite == /\ Asks("unwrite")
           /\ bytes' = SubSeq(bytes, 1, Len(bytes) - call'.len)

Shrink == /\ Asks("shrink")
          /\ bytes' = bytes

(* The first position at or after start where the string has what is       *)
(* looked for.                                                             *)
IsCRLF(i) == i < Len(bytes) /\ bytes[i] = CR /\ bytes[i + 1] = LF
IsLF(i) == bytes[i] = LF

Finds(op, Is(_)) ==
    /\ Asks(op)
    /\ LET found == {i \in call'.start .. Len(bytes) : Is(i)}
       IN  IF found = {} THEN call'.at = 0
           ELSE call'.at \in found /\ \A i \in found : call'.at <= i
    /\ bytes' = bytes

PeekInt == /\ Asks("peek")
           /\ call'.value = ToInt(SubSeq(bytes, 1, call'.width))
           /\ bytes' = bytes

Next == \/ Appended \/ Prepended \/ Retrieve \/ Unwrite \/ Shrink \/ PeekInt
        \/ Finds("findCRLF", IsCRLF) \/ Finds("findEOL", IsLF)

Spec == Init /\ [][Next]_<<bytes, call>>
=============================================================================
