----------------------------- MODULE StringPiece -----------------------------
(***************************************************************************)
(* The comparisons of base/stringPiece.h.  A piece is the sequence of the  *)
(* characters it points at; remove_prefix and remove_suffix move its ends. *)
(***************************************************************************)
EXTENDS Integers, SequencesExt

CONSTANTS Char,             \* characters, as memcmp orders them
          MaxLength         \* bound: the length of a piece

ASSUME PieceAssumption ==
    /\ Char \subseteq 0 .. 255
    /\ MaxLength \in Nat

VARIABLE pieces             \* three pieces

Piece == BoundedSeq(Char, MaxLength)

(* The first n characters, all of which both pieces have.                  *)
memcmp(x, y, n) ==
    LET different == {i \in 1 .. n : x[i] # y[i]}
    IN  IF different = {} THEN 0 ELSE x[Min(different)] - y[Min(different)]

Common(x, y) == Min({Len(x), Len(y)})
Differ(x, y) == memcmp(x, y, Common(x, y))

equal(x, y) == Len(x) = Len(y) /\ memcmp(x, y, Len(x)) = 0

less(x, y) == Differ(x, y) < 0 \/ (Differ(x, y) = 0 /\ Len(x) < Len(y))
atMost(x, y) == Differ(x, y) < 0 \/ (Differ(x, y) = 0 /\ Len(x) <= Len(y))
atLeast(x, y) == Differ(x, y) > 0 \/ (Differ(x, y) = 0 /\ Len(x) >= Len(y))
greater(x, y) == Differ(x, y) > 0 \/ (Differ(x, y) = 0 /\ Len(x) > Len(y))

compare(x, y) ==
    IF Differ(x, y) # 0 THEN Differ(x, y)
    ELSE IF Len(x) < Len(y) THEN -1
    ELSE IF Len(x) > Len(y) THEN 1 ELSE 0

starts_with(x, y) == Len(x) >= Len(y) /\ memcmp(x, y, Len(y)) = 0

remove_prefix(x, n) == SubSeq(x, n + 1, Len(x))
remove_suffix(x, n) == SubSeq(x, 1, Len(x) - n)

----------------------------------------------------------------------------
PiecesInit == pieces \in Piece \X Piece \X Piece
PiecesNext == UNCHANGED pieces

(* The five comparisons and compare() agree and order the pieces: exactly  *)
(* one of <, == and > holds, <= and >= are these with ==, < is transitive  *)
(* and a piece starts with another one just when what remains after some   *)
(* suffix is removed equals it (stringPiece.h:111-159).                    *)
PiecesOrdered ==
    LET x == pieces[1]  y == pieces[2]  z == pieces[3]
    IN  /\ equal(x, y) <=> x = y
        /\ less(x, y) => ~greater(x, y) /\ ~equal(x, y)
        /\ less(x, y) \/ greater(x, y) \/ equal(x, y)
        /\ less(x, y) <=> greater(y, x)
        /\ less(x, y) /\ less(y, z) => less(x, z)
        /\ atMost(x, y) <=> ~greater(x, y)
        /\ atLeast(x, y) <=> ~less(x, y)
        /\ compare(x, y) < 0 <=> less(x, y)
        /\ compare(x, y) > 0 <=> greater(x, y)
        /\ starts_with(x, y) <=> \E n \in 0 .. Len(x) : equal(remove_suffix(x, n), y)
        /\ starts_with(x, y) => equal(y \o remove_prefix(x, Len(y)), x)
=============================================================================
