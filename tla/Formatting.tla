----------------------------- MODULE Formatting -----------------------------
(***************************************************************************)
(* The conversions of base/logStream.cpp: integers to decimal and to       *)
(* hexadecimal digits, and quantities to a few digits and a unit.  A text  *)
(* is a sequence of digits and signs; of a quantity, it is the number in   *)
(* front of the unit, in units of its last digit, and which unit.          *)
(***************************************************************************)
EXTENDS Integers, SequencesExt

CONSTANTS Numbers,          \* integers that are converted
          Quantities,       \* quantities, at least 0
          kMaxNumericSize   \* the room that a converted integer must have

(* An integer of 64 bits; one that a double holds with half a unit more,   *)
(* below 2^52, so that the doubles of formatSI and formatIEC are exact     *)
(* enough for its limits; and the sign and digits of 64 bits and the end.  *)
InInt64(i) == LET m == IF i < 0 THEN -(i + 1) ELSE i
              IN  (m \div 1073741824) \div 1073741824 < 8
InDouble(n) == n \div 1073741824 < 4194304

ASSUME FormattingAssumption ==
    /\ \A i \in Numbers : i \in Int /\ InInt64(i)
    /\ \A n \in Quantities : n \in Nat /\ InDouble(n)
    /\ kMaxNumericSize \in Nat /\ kMaxNumericSize > 20

VARIABLE number             \* the one converted, and whether as a quantity

----------------------------------------------------------------------------
(* convert(): i % 10 is negative where i is, so that the table has the     *)
(* digits on both sides of zero and the smallest integer, which has no     *)
(* opposite, is converted too.                                             *)
digits == <<9, 8, 7, 6, 5, 4, 3, 2, 1, 0, 1, 2, 3, 4, 5, 6, 7, 8, 9>>
zero(lsd) == digits[10 + lsd]

(* C++ division rounds towards zero.                                       *)
Half(i, base) == IF i >= 0 THEN i \div base ELSE -((-i) \div base)
LastDigit(i, base) == i - base * Half(i, base)

LowToHigh[i \in Int] ==
    <<zero(LastDigit(i, 10))>>
        \o (IF Half(i, 10) = 0 THEN <<>> ELSE LowToHigh[Half(i, 10)])
Digits(value) == LowToHigh[value]

Minus == -1                 \* no digit
convert(value) ==
    Reverse(Digits(value) \o (IF value < 0 THEN <<Minus>> ELSE <<>>))

HexLowToHigh[i \in Nat] ==
    <<i % 16>> \o (IF i \div 16 = 0 THEN <<>> ELSE HexLowToHigh[i \div 16])

convertHex(value) == Reverse(HexLowToHigh[value])

(* Not the code: what digits and a text stand for.                         *)
Stands(ds, base) ==
    LET v[k \in 0 .. Len(ds)] == IF k = 0 THEN 0 ELSE v[k - 1] * base + ds[k]
    IN  v[Len(ds)]

ValueOf(text, base) == IF Head(text) = Minus THEN -Stands(Tail(text), base)
                       ELSE Stands(text, base)

----------------------------------------------------------------------------
(* n < (whole + num / den) * unit, and n / unit with so many decimals; the *)
(* C library may round a number half-way between two either way.           *)
Below(n, unit, whole, num, den) ==
    \/ n \div unit < whole
    \/ n \div unit = whole /\ (n % unit) * den < num * unit

Power(b, n) == LET p[k \in 0 .. n] == IF k = 0 THEN 1 ELSE b * p[k - 1]
               IN  p[n]

Nearest(twiceN, unit, places) ==
    LET scaled == Power(10, places)
        whole == twiceN \div (2 * unit)
        rest == (twiceN % (2 * unit)) * scaled
        low == rest \div (2 * unit)
        over == rest % (2 * unit)
    IN  {whole * scaled + q :
            q \in {q \in {low, low + 1} : IF q = low THEN over <= unit ELSE over >= unit}}

(* How many decimals, by how large n is in units; 2 for the largest unit.  *)
SIPlaces(n, unit) == IF Below(n, unit, 9, 995, 1000) THEN 2
                     ELSE IF Below(n, unit, 99, 950, 1000) THEN 1 ELSE 0

(* What rounds to a thousand units is shown in the next one.               *)
PastUnit(n, unit) == ~Below(n, unit, 999, 500, 1000)

SIUnit(n) == CHOOSE k \in 1 .. 6 : /\ k = 6 \/ ~PastUnit(n, Power(1000, k))
                                  /\ \A j \in 1 .. k - 1 : PastUnit(n, Power(1000, j))

(* Half a unit of the input is added before the division.                  *)
formatSI(n) ==
    IF n < 1000 THEN [unit |-> 0, places |-> 0, shown |-> {n}]
    ELSE LET k == SIUnit(n)
             unit == Power(1000, k)
             places == IF k = 6 THEN 2 ELSE SIPlaces(n, unit)
         IN  [unit |-> k, places |-> places, shown |-> Nearest(2 * n + 1, unit, places)]

IECPlaces(n, unit) == IF Below(n, unit, 9, 995, 1000) THEN 2
                      ELSE IF Below(n, unit, 99, 95, 100) THEN 1 ELSE 0

BelowNext(n, unit) == Below(n, unit, 1023, 1, 2)

IECUnit(n) == CHOOSE k \in 1 .. 6 : /\ k = 6 \/ BelowNext(n, Power(1024, k))
                                   /\ \A j \in 1 .. k - 1 : ~BelowNext(n, Power(1024, j))

formatIEC(n) ==
    IF n < 1024 THEN [unit |-> 0, places |-> 0, shown |-> {n}]
    ELSE LET k == IECUnit(n)
             unit == Power(1024, k)
             places == IF k < 6 THEN IECPlaces(n, unit)
                       ELSE IF Below(n, unit, 9, 995, 1000) THEN 2 ELSE 1
         IN  [unit |-> k, places |-> places, shown |-> Nearest(2 * n, unit, places)]

(* The characters: digits, at least one before the point, and the unit.    *)
DigitsOf(q) == Len(convert(q))
Length(f, q, suffix) == DigitsOf(q) + (IF f.places > 0 THEN 1 ELSE 0)
                            + (IF f.unit > 0 THEN suffix ELSE 0)

----------------------------------------------------------------------------
FormattingInit == number \in [value : Numbers, quantity : {FALSE}]
                               \cup [value : Quantities, quantity : {TRUE}]
FormattingNext == UNCHANGED number

(* A converted integer stands for that integer, has no zeros in front and  *)
(* fits the room that is asked for with its end; a quantity is short, as   *)
(* logStream.h:115-122 says, has three digits or more where it is rounded, *)
(* whatever side of a limit it is on, and the limits leave no number that  *)
(* is shown as a thousand (logStream.cpp:23-58 and 205-305).               *)
NumbersRight ==
    LET n == number.value
        text == convert(n)
        hex == convertHex(n)
    IN  /\ text # <<>> /\ ValueOf(text, 10) = n
        /\ Head(text) = 0 => Len(text) = 1
        /\ Len(text) < kMaxNumericSize
        /\ n >= 0 => ValueOf(hex, 16) = n /\ Len(hex) + 2 < kMaxNumericSize
        /\ number.quantity =>
            /\ \A q \in formatSI(n).shown :
                /\ Length(formatSI(n), q, 1) <= 5
                /\ n >= 1000 => DigitsOf(q) = 3
            /\ \A q \in formatIEC(n).shown :
                /\ Length(formatIEC(n), q, 2) <= 6
                /\ n >= 1024 => DigitsOf(q) \in {3, 4}
=============================================================================
