------------------------------- MODULE Number -------------------------------
(***************************************************************************)
(* The decimal floating point type every vault, broker and loan amount is *)
(* computed with (include/xrpl/basics/Number.h, Number.cpp).               *)
(*                                                                         *)
(* A number is a record [m, e] standing for m * 10^e, whose mantissa has   *)
(* exactly P decimal digits.  The code has P = 16; the number of digits is *)
(* a parameter here because nothing in the algorithms depends on it, and   *)
(* with few digits the rounding cases that need sixteen-digit inputs in    *)
(* the program are met by inputs a model checker can enumerate.            *)
(***************************************************************************)
EXTENDS Integers

CONSTANTS P,            \* decimal digits of a mantissa, 16 in the code
          MinExponent,  \* -32768 in the code
          MaxExponent   \*  32768 in the code

ASSUME NumberAssumption ==
    /\ P \in Nat \ {0}
    /\ MinExponent \in Int /\ MaxExponent \in Int
    /\ MinExponent < 0 /\ MaxExponent > 0

(* enum rounding_mode. *)
RoundingModes == {"to_nearest", "towards_zero", "downward", "upward"}

minMantissa == 10^(P - 1)
maxMantissa == 10^P - 1

(* Number{}: the code's exponent for zero is INT_MIN, a value no normal    *)
(* number has and that no operation below reads.                           *)
Zero == [m |-> 0, e |-> MinExponent - 1]

(* Stands for the std::overflow_error an operation throws. *)
Overflow == [m |-> 0, e |-> MaxExponent + 1]

One == [m |-> minMantissa, e |-> 1 - P]

Abs(i) == IF i < 0 THEN -i ELSE i

isnormal(x) ==
    /\ minMantissa <= Abs(x.m) /\ Abs(x.m) <= maxMantissa
    /\ MinExponent <= x.e /\ x.e <= MaxExponent

-----------------------------------------------------------------------------
(***************************************************************************)
(* The guard digits.  The code pushes the digits it shifts out of a        *)
(* mantissa into Guard; here they are the fraction rem / unit of one unit  *)
(* in the last place.  neg is the guard's sign bit.                        *)
(***************************************************************************)

(* Mutant: round half up instead of half even. *)
GuardRoundsHalfUp(mode, neg, m, rem, unit) ==
    \/ mode = "downward" /\ neg /\ rem > 0
    \/ mode = "upward" /\ ~neg /\ rem > 0
    \/ mode = "to_nearest" /\ 2 * rem >= unit

(* Guard::round, as the callers use it: does the mantissa m move by one? *)
GuardRounds(mode, neg, m, rem, unit) ==
    \/ mode = "downward" /\ neg /\ rem > 0
    \/ mode = "upward" /\ ~neg /\ rem > 0
    \/ /\ mode = "to_nearest"
       /\ \/ 2 * rem > unit
          \/ 2 * rem = unit /\ m % 2 = 1

(* By how much the guard digits move the mantissa. *)
GuardUnit(mode, neg, m, rem, unit) ==
    IF GuardRounds(mode, neg, m, rem, unit) THEN 1 ELSE 0

Signed(neg, m, e) == [m |-> IF neg THEN -m ELSE m, e |-> e]

(* The result in range, or zero on underflow, or the exception. *)
InRange(neg, m, e) ==
    IF e < MinExponent THEN Zero
    ELSE IF e > MaxExponent THEN Overflow ELSE Signed(neg, m, e)

(* Mutant: a mantissa rounded up to one more digit stays. *)
CarryForgotten(neg, m, e) == InRange(neg, m, e)

(* A mantissa that rounding made one digit too long, or too short. *)
Carry(neg, m, e) ==
    IF m > maxMantissa THEN InRange(neg, m \div 10, e + 1) ELSE InRange(neg, m, e)

Borrow(neg, m, e) ==
    IF m < minMantissa THEN InRange(neg, m * 10, e - 1) ELSE InRange(neg, m, e)

(* Guard::doRoundUp: the guard digits belong to the magnitude m. *)
doRoundUp(mode, neg, m, e, rem, unit) ==
    Carry(neg, m + GuardUnit(mode, neg, m, rem, unit), e)

(* Guard::doRoundDown: the guard digits are to be taken off the magnitude  *)
(* m; gneg is the sign of the operand they came from and neg that of m.    *)
doRoundDown(mode, gneg, neg, m, e, rem, unit) ==
    Borrow(neg, m - GuardUnit(mode, gneg, m, rem, unit), e)

(* How many digits the loop "while (m > maxMantissa)" shifts out. *)
ExcessDigits(m) ==
    CHOOSE k \in 0..(P + 2) :
        /\ m \div 10^k <= maxMantissa
        /\ k = 0 \/ m \div 10^(k - 1) > maxMantissa

(* How many zeros the loop "while (m < minMantissa)" appends. *)
MissingDigits(m) ==
    CHOOSE k \in 0..P :
        /\ m * 10^k >= minMantissa
        /\ k = 0 \/ m * 10^(k - 1) < minMantissa

Lengthen(neg, m, e, k) ==
    IF e - k < MinExponent THEN Zero ELSE InRange(neg, m * 10^k, e - k)

ShiftOut(mode, neg, m, e, k) ==
    doRoundUp(mode, neg, m \div 10^k, e + k, m % 10^k, 10^k)

Shorten(mode, neg, m, e, k) ==
    IF e + k > MaxExponent THEN Overflow
    ELSE IF e + k < MinExponent THEN Zero
    ELSE ShiftOut(mode, neg, m, e, k)

(* Number::normalize. *)
normalize(mode, m, e) ==
    IF m = 0 THEN Zero
    ELSE IF Abs(m) < minMantissa
         THEN Lengthen(m < 0, Abs(m), e, MissingDigits(Abs(m)))
         ELSE Shorten(mode, m < 0, Abs(m), e, ExcessDigits(Abs(m)))

(* Number{i} for an integer i. *)
FromInt(mode, i) == normalize(mode, i, 0)

Neg(x) == [x EXCEPT !.m = -x.m]

(* A mantissa shifted right by k digits: what is left, and the digits that *)
(* went to the guard.  Beyond P + 1 digits nothing is left and the guard   *)
(* only says that something non-zero was shifted out (the xbit).           *)
Shift(m, k) ==
    IF k <= P + 1 THEN [m |-> m \div 10^k, rem |-> m % 10^k, unit |-> 10^k]
                  ELSE [m |-> 0, rem |-> 1, unit |-> 10^(P + 1)]

(* Same signs: the magnitudes add up, and may carry into one more digit.   *)
(* s is the shifted mantissa of the operand with the smaller exponent.     *)
AddMagnitudes(mode, neg, e, sum, s) ==
    IF sum > maxMantissa
    THEN doRoundUp(mode, neg, sum \div 10, e + 1,
                   (sum % 10) * s.unit + s.rem, 10 * s.unit)
    ELSE doRoundUp(mode, neg, sum, e, s.rem, s.unit)

(* Mutant: popped guard digits are added, not taken off. *)
PoppedAdded(d, s, k) == d * 10^k + (s.rem * 10^k) \div s.unit

(* Opposite signs: the difference d of the aligned mantissas, lengthened   *)
(* with n digits popped from the guard until it is normal again.           *)
Popped(d, s, k) == d * 10^k - (s.rem * 10^k) \div s.unit

DigitsToPop(d, s) ==
    CHOOSE k \in 0..P :
        /\ Popped(d, s, k) >= minMantissa
        /\ k = 0 \/ Popped(d, s, k - 1) < minMantissa

SubMagnitudes(mode, gneg, neg, e, d, s, n) ==
    doRoundDown(mode, gneg, neg, Popped(d, s, n), e - n,
                (s.rem * 10^n) % s.unit, s.unit)

(* Mutant: the larger exponent decides the sign. *)
AddAlignedSign(mode, big, small, s) ==
    IF (big.m < 0) = (small.m < 0)
    THEN AddMagnitudes(mode, big.m < 0, big.e, Abs(big.m) + s.m, s)
    ELSE SubMagnitudes(mode, small.m < 0, big.m < 0, big.e, Abs(Abs(big.m) - s.m), s,
                       DigitsToPop(Abs(Abs(big.m) - s.m), s))

(* The sum of two numbers that are not zero and not opposite; big has the  *)
(* larger exponent, but when the exponents are equal its mantissa may be   *)
(* the smaller one.                                                        *)
AddAligned(mode, big, small, s) ==
    IF (big.m < 0) = (small.m < 0)
    THEN AddMagnitudes(mode, big.m < 0, big.e, Abs(big.m) + s.m, s)
    ELSE SubMagnitudes(mode, small.m < 0,
                       IF Abs(big.m) > s.m THEN big.m < 0 ELSE small.m < 0,
                       big.e, Abs(Abs(big.m) - s.m), s,
                       DigitsToPop(Abs(Abs(big.m) - s.m), s))

AddOrdered(mode, big, small) ==
    AddAligned(mode, big, small, Shift(Abs(small.m), big.e - small.e))

(* Number::operator+=. *)
Add(mode, x, y) ==
    IF y.m = 0 THEN x
    ELSE IF x.m = 0 THEN y
    ELSE IF x = Neg(y) THEN Zero
    ELSE AddOrdered(mode, IF x.e >= y.e THEN x ELSE y, IF x.e >= y.e THEN y ELSE x)

(* Number::operator-=. *)
Sub(mode, x, y) == Add(mode, x, Neg(y))

(* Number::operator*=. *)
MulMagnitudes(mode, neg, m, e) == ShiftOut(mode, neg, m, e, ExcessDigits(m))

Mul(mode, x, y) ==
    IF x.m = 0 \/ y.m = 0 THEN Zero
    ELSE MulMagnitudes(mode, (x.m < 0) # (y.m < 0), Abs(x.m) * Abs(y.m), x.e + y.e)

(* Mutant: the quotient is cut off after P - 1 digits. *)
QuotientShort(x, y) ==
    (IF (x.m < 0) = (y.m < 0) THEN 100 ELSE -100)
        * ((Abs(x.m) * 10^(P - 1)) \div Abs(y.m))

(* Number::operator/=: the quotient to P + 1 more digits, cut off there    *)
(* whatever the rounding mode, and then rounded by normalize.              *)
Quotient(x, y) ==
    IF (x.m < 0) = (y.m < 0) THEN (Abs(x.m) * 10^(P + 1)) \div Abs(y.m)
                             ELSE -((Abs(x.m) * 10^(P + 1)) \div Abs(y.m))

Div(mode, x, y) ==
    IF y.m = 0 THEN Overflow
    ELSE IF x.m = 0 THEN Zero
    ELSE normalize(mode, Quotient(x, y), x.e - y.e - (P + 1))

(* operator<, by sign, then exponent, then mantissa. *)
Lt(x, y) ==
    IF (x.m < 0) # (y.m < 0) THEN x.m < 0
    ELSE IF x.m = 0 THEN y.m > 0
    ELSE IF y.m = 0 THEN FALSE
    ELSE IF x.e # y.e THEN IF x.e > y.e THEN x.m < 0 ELSE x.m >= 0
    ELSE x.m < y.m

Le(x, y) == ~Lt(y, x)

MinNumber(x, y) == IF Lt(y, x) THEN y ELSE x
MaxNumber(x, y) == IF Lt(x, y) THEN y ELSE x

(* Number::truncate: towards zero, in every rounding mode. *)
Truncate(x) ==
    IF x.e >= 0 \/ x.m = 0 THEN x
    ELSE IF -x.e >= P THEN Zero
    ELSE normalize("to_nearest", (IF x.m < 0 THEN -1 ELSE 1)
                                    * (Abs(x.m) \div 10^(-x.e)), 0)

(* Mutant: the guard does not know the sign. *)
RoundedUnsigned(mode, neg, s) ==
    (IF neg THEN -1 ELSE 1) * (s.m + GuardUnit(mode, FALSE, s.m, s.rem, s.unit))

(* Number::operator rep(): the integer an amount of drops or MPT units is  *)
(* made of, in the rounding mode in force.                                 *)
Rounded(mode, neg, s) ==
    (IF neg THEN -1 ELSE 1) * (s.m + GuardUnit(mode, neg, s.m, s.rem, s.unit))

ToInt(mode, x) ==
    IF x.m = 0 THEN 0
    ELSE IF x.e >= 0 THEN x.m * 10^x.e
    ELSE Rounded(mode, x.m < 0, Shift(Abs(x.m), -x.e))

(* power(f, n), by repeated squaring. *)
Square(mode, x) == Mul(mode, x, x)

Power(mode, f, n) ==
    LET pw[k \in 0..n] ==
          IF k = 0 THEN One
          ELSE IF k = 1 THEN f
          ELSE IF k % 2 = 0 THEN Square(mode, pw[k \div 2])
          ELSE Mul(mode, Square(mode, pw[k \div 2]), f)
    IN  pw[n]
=============================================================================
