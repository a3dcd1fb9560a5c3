--------------------------- MODULE NumberRounding ---------------------------
(***************************************************************************)
(* One arithmetic operation of Number on every pair of operands and in     *)
(* every rounding mode, compared with a reference that rounds the exact    *)
(* rational result.  The reference knows nothing of guard digits: it only  *)
(* uses the order of the rationals and the neighbours of a number.         *)
(***************************************************************************)
EXTENDS Number

CONSTANTS Mantissas,    \* magnitudes of the operands' mantissas
          Exponents     \* exponents of the second operand; the first has 0

ASSUME OperandAssumption ==
    /\ Mantissas \subseteq minMantissa..maxMantissa
    /\ Exponents \subseteq MinExponent..0

VARIABLES x, y,   \* the operands
          mode,   \* the thread's rounding mode
          op,     \* the operation that was applied, or "none"
          res     \* its result

vars == <<x, y, mode, op, res>>

Operands(es) == {[m |-> s * a, e |-> e] : s \in {1, -1}, a \in Mantissas, e \in es}

Init ==
    /\ x \in Operands({0}) \cup {Zero}
    /\ y \in Operands(Exponents) \cup {Zero}
    /\ mode \in RoundingModes
    /\ op = "none"
    /\ res = Zero

Apply(name, r) ==
    /\ op = "none"
    /\ op' = name
    /\ res' = r
    /\ UNCHANGED <<x, y, mode>>

DoAdd == Apply("add", Add(mode, x, y))
DoMul == Apply("mul", Mul(mode, x, y))
DoDiv == y.m # 0 /\ Apply("div", Div(mode, x, y))
DoToInt == Apply("rep", FromInt(mode, ToInt(mode, y)))

Next == DoAdd \/ DoMul \/ DoDiv \/ DoToInt

Spec == Init /\ [][Next]_vars

-----------------------------------------------------------------------------
(* Rationals (n / d) * 10^s, d > 0, and their order. *)
MinInt(a, b) == IF a < b THEN a ELSE b

LeQ(a, b) ==
    LET low == MinInt(a.s, b.s)
    IN  a.n * b.d * 10^(a.s - low) <= b.n * a.d * 10^(b.s - low)

LtQ(a, b) == ~LeQ(b, a)

Q(v) == IF v.m = 0 THEN [n |-> 0, d |-> 1, s |-> 0]
                   ELSE [n |-> v.m, d |-> 1, s |-> v.e]

Mid(a, b) ==
    LET low == MinInt(a.s, b.s)
    IN  [n |-> a.n * 10^(a.s - low) + b.n * 10^(b.s - low), d |-> 2, s |-> low]

(* The next number above and below v # 0. *)
Away(v) ==  \* the next one away from zero
    LET a == Abs(v.m)
    IN  IF a = maxMantissa THEN Signed(v.m < 0, minMantissa, v.e + 1)
                           ELSE Signed(v.m < 0, a + 1, v.e)
Towards(v) ==  \* the next one towards zero
    LET a == Abs(v.m)
    IN  IF a = minMantissa THEN Signed(v.m < 0, maxMantissa, v.e - 1)
                           ELSE Signed(v.m < 0, a - 1, v.e)
Above(v) == IF v.m > 0 THEN Away(v) ELSE Towards(v)
Below(v) == IF v.m > 0 THEN Towards(v) ELSE Away(v)

(* The exact results. *)
ExactSum ==
    LET a == Q(x)
        b == Q(y)
        low == MinInt(a.s, b.s)
    IN  [n |-> a.n * 10^(a.s - low) + b.n * 10^(b.s - low), d |-> 1, s |-> low]
ExactProduct == [n |-> x.m * y.m, d |-> 1, s |-> Q(x).s + Q(y).s]
ExactQuotient ==
    [n |-> IF y.m < 0 THEN -x.m ELSE x.m, d |-> Abs(y.m), s |-> Q(x).s - Q(y).s]

(* r is what IEEE-style rounding of the exact value q gives. *)
CorrectlyRounded(r, q) ==
    IF q.n = 0 THEN r = Zero
    ELSE /\ isnormal(r)
         /\ CASE mode = "downward" -> LeQ(Q(r), q) /\ LtQ(q, Q(Above(r)))
              [] mode = "upward"   -> LeQ(q, Q(r)) /\ LtQ(Q(Below(r)), q)
              [] mode = "towards_zero" ->
                   IF q.n > 0 THEN LeQ(Q(r), q) /\ LtQ(q, Q(Away(r)))
                              ELSE LeQ(q, Q(r)) /\ LtQ(Q(Away(r)), q)
              [] mode = "to_nearest" ->
                   LET lo == Mid(Q(Below(r)), Q(r))
                       hi == Mid(Q(r), Q(Above(r)))
                   IN  /\ LeQ(lo, q) /\ LeQ(q, hi)
                       /\ (LeQ(q, lo) \/ LeQ(hi, q)) => r.m % 2 = 0

-----------------------------------------------------------------------------
SameSign == (x.m < 0) = (y.m < 0)

(***************************************************************************)
(* Type invariant: every result is a normal number or zero; with these     *)
(* exponents no operation throws.                                          *)
(***************************************************************************)
TypeOK == op # "none" => isnormal(res) \/ res = Zero

(***************************************************************************)
(* operator/= cuts the quotient off after P + 1 extra digits, so it does   *)
(* not always round correctly, but the result is one of the two numbers    *)
(* that enclose the exact quotient, and downward and towards_zero never    *)
(* return more than the exact magnitude of a positive quotient.            *)
(***************************************************************************)
QuotientsAreFaithful ==
    op = "div" =>
        IF x.m = 0 THEN res = Zero
        ELSE /\ LtQ(Q(Below(res)), ExactQuotient)
             /\ LtQ(ExactQuotient, Q(Above(res)))
             /\ mode \in {"downward", "towards_zero"} /\ ExactQuotient.n > 0
                   => LeQ(Q(res), ExactQuotient)

IsInteger(v) == v.m = 0 \/ v.e >= 0 \/ (v.e > -P /\ v.m % 10^(-v.e) = 0)

Whole(i) == [n |-> i, d |-> 1, s |-> 0]
WholeValue(v) ==
    IF v.m = 0 THEN 0 ELSE IF v.e >= 0 THEN v.m * 10^v.e ELSE v.m \div 10^(-v.e)

RoundedTo(i, q) ==
    CASE mode = "downward" -> LeQ(Whole(i), q) /\ LtQ(q, Whole(i + 1))
      [] mode = "upward"   -> LeQ(q, Whole(i)) /\ LtQ(Whole(i - 1), q)
      [] mode = "towards_zero" ->
           IF q.n >= 0 THEN LeQ(Whole(i), q) /\ LtQ(q, Whole(i + 1))
                       ELSE LeQ(q, Whole(i)) /\ LtQ(Whole(i - 1), q)
      [] mode = "to_nearest" ->
           LET lo == Mid(Whole(i - 1), Whole(i))
               hi == Mid(Whole(i), Whole(i + 1))
           IN  /\ LeQ(lo, q) /\ LeQ(q, hi)
               /\ (LeQ(q, lo) \/ LeQ(hi, q)) => i % 2 = 0

(***************************************************************************)
(* operator*=, the addition of numbers of the same sign and operator rep() *)
(* (which turns a Number into whole units of an asset) round correctly in  *)
(* all four modes: the guard digits, the carry into a new digit and the    *)
(* round-half-even rule lose nothing.                                      *)
(***************************************************************************)
ResultsRoundCorrectly ==
    /\ TypeOK
    /\ op = "mul" => CorrectlyRounded(res, ExactProduct)
    /\ op = "add" /\ SameSign => CorrectlyRounded(res, ExactSum)
    /\ op = "rep" => RoundedTo(WholeValue(res), Q(y))

Difference(p, q) ==
    LET low == MinInt(p.s, q.s)
    IN  [n |-> Abs(p.n * 10^(p.s - low) - q.n * 10^(q.s - low)), d |-> 1, s |-> low]

(***************************************************************************)
(* A difference is off by less than one unit in the last place of the      *)
(* larger operand, even where it is not correctly rounded; and, what the   *)
(* whole amounts of the ledger rest on, the sum or difference of integers  *)
(* is exact whenever it has at most P digits, in every mode.               *)
(***************************************************************************)
DifferencesAreClose ==
    op = "add" =>
        LET err == Difference(Q(res), ExactSum) IN
        /\ ~SameSign /\ x.m # 0 /\ y.m # 0 => LtQ(err, Whole(1))
        /\ IsInteger(x) /\ IsInteger(y)
             /\ LeQ([ExactSum EXCEPT !.n = Abs(ExactSum.n)], Whole(maxMantissa))
             => err.n = 0
=============================================================================
