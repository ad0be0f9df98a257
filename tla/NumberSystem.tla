---------------------------- MODULE NumberSystem ----------------------------
(***************************************************************************)
(* A program that does one operation of Numbers on operands taken from the *)
(* corners of the representation, in every build and with or without room  *)
(* on the stack, and what the result has to be.                            *)
(*                                                                         *)
(* The operations have no state: a step calls one with its operands, the   *)
(* Answer is what the runtime computes, and when the call returns the      *)
(* properties compare it with what the operands mean.                      *)
(***************************************************************************)
EXTENDS Numbers

CONSTANTS
    Builds,             \* pairs of a word length and a DBL_MANT_DIG
    Long(_), Short(_),  \* integers, for a word length: operands, second operands
    Ratios(_),          \* fractions in lowest terms
    Doubles,            \* pairs of an odd integer and an exponent
    Chained(_),         \* what is compared in a chain
    Radixes, Shifts, Indices

VARIABLES op, x, y
vars == <<W, wide, roomy, mant, op, x, y>>

-----------------------------------------------------------------------------
(* The numbers meant by the representations, and back.                     *)

RECURSIVE DigitsValue(_)
DigitsValue(d) == IF d = <<>> THEN 0 ELSE Head(d) + B * DigitsValue(Tail(d))
IntValue(n) == IF IsFix(n) THEN n.v
               ELSE IF n.neg THEN -DigitsValue(n.d) ELSE DigitsValue(n.d)

RECURSIVE Digits(_)
Digits(n) == IF n = 0 THEN <<>> ELSE <<n % B>> \o Digits(n \div B)
Number(n) == IF FitsFixnum(n) THEN Fix(n) ELSE Big(n < 0, Digits(Abs(n)))

\* The value of a number as a fraction.
Ratio(n) ==
    CASE IsInt(n) -> [n |-> IntValue(n), d |-> 1]
      [] IsKind(n, "rat") -> [n |-> IntValue(n.num), d |-> IntValue(n.den)]
      [] OTHER -> [n |-> n.n * Scale(n.e), d |-> Scale(-n.e)]
IsExact(n) == IsInt(n) \/ IsKind(n, "rat")
\* The bits of both parts of the fraction, to stay within TLC's integers.
Magnitude(n) ==
    IF IsKind(n, "nan") THEN 0 ELSE BitLength(Ratio(n).n) + BitLength(Ratio(n).d)
Nums(S) == {Number(n) : n \in S}
Rats == {Rat(Number(r[1]), Number(r[2])) : r \in Ratios(W)}
Flos == {Flo(f[1], f[2]) : f \in {g \in Doubles : Abs(g[1]) < 2^mant /\ g[2] >= MinExp - mant}}
Operands == Nums(Short(W)) \cup Rats \cup Flos

-----------------------------------------------------------------------------
Init ==
    /\ \E b \in Builds : W = b[1] /\ mant = b[2]
    /\ wide \in BOOLEAN /\ roomy \in BOOLEAN
    /\ op = "none" /\ x = Fix(0) /\ y = Fix(0)

Call(o, a, b) ==
    /\ op' = o /\ x' = a /\ y' = b
    /\ UNCHANGED <<W, wide, roomy, mant>>

Add == \E a \in Nums(Long(W)), b \in Nums(Short(W)) : Call("plus", a, b)
Subtract == \E a \in Nums(Short(W)), b \in Nums(Long(W)) : Call("minus", a, b)
Multiply ==
    \E a, b \in Nums(Short(W)) :
        BitLength(IntValue(a)) + BitLength(IntValue(b)) < 30 /\ Call("times", a, b)
Divide == \E a \in Nums(Long(W)), b \in Nums(Short(W)) \ {Fix(0)} : Call("divide", a, b)
Remainder == \E a, b \in Nums(Short(W)) : b # Fix(0) /\ Call("remainder", a, b)
Modulo == \E a, b \in Nums(Short(W)) : b # Fix(0) /\ Call("modulo", a, b)
Gcd == \E a \in Nums(Long(W)), b \in Nums(Short(W)) : Call("gcd", a, b)
ComputeReals ==
    \E o \in {"plus", "minus", "times"}, a, b \in Operands :
        ~(IsInt(a) /\ IsInt(b)) /\ Magnitude(a) + Magnitude(b) < 24 /\ Call(o, a, b)
CompareNumbers ==
    \E a, b \in Operands \cup {NaN} : Magnitude(a) + Magnitude(b) < 28 /\ Call("compare", a, b)
CompareChain ==
    \E rel \in Relations, a \in Chained(W), b \in Chained(W), c \in Chained(W) :
        Call("chain", <<a, b, c>>, rel)
CompareIntegersOnly ==
    \E rel \in {"=", "<=", ">="}, a, b \in Nums(Short(W)) : Call("relation", <<a, b>>, rel)
DivideWhole ==
    \E a, b \in Operands : (IsKind(a, "flo") \/ IsKind(b, "flo")) /\ Call("whole", a, b)
RoundFlonum == \E f \in Flos : Call("round", f, f)
GcdFlonums == \E f, g \in {h \in Flos : IsWhole(h)} : Call("float gcd", f, g)
CheckFixnums == \E name \in CheckedOps, a, b \in Nums(Short(W)) : Call("checked", <<a, b>>, name)
ToInexact == \E a \in Nums(Long(W)) \cup Rats : Call("inexact", a, a)
ToExact == \E f \in Flos : f.e >= 0 /\ Call("exact", f, f)
CombineBits == \E o \in {"and", "ior", "xor"}, a, b \in Nums(Short(W)) : Call(o, a, b)
Unary == \E o \in {"not", "length", "negate", "abs"}, a \in Nums(Long(W)) : Call(o, a, a)
ShiftBits ==
    \E a \in Nums(Long(W)), n \in Shifts : BitLength(IntValue(a)) + n < 30 /\ Call("shift", a, n)
TestBit == \E a \in Nums(Long(W)), i \in Indices : Call("bit", a, i)
Random == \E a \in Nums(Short(W)) : ~IsFix(a) /\ ~a.neg /\ Size(a) < 3 /\ Call("random", a, a)
Convert ==
    \E o \in {"string", "read"}, a \in Nums(Long(W)), radix \in Radixes :
        (PowerOfTwo(radix) \/ IsHalfDigit(radix)) /\ Call(o, a, radix)

Operation ==
    \/ Add \/ Subtract \/ Multiply \/ Divide \/ Remainder \/ Modulo \/ Gcd \/ ComputeReals
    \/ CompareNumbers \/ CompareChain \/ CompareIntegersOnly \/ DivideWhole \/ RoundFlonum
    \/ GcdFlonums \/ CheckFixnums \/ ToInexact \/ ToExact \/ CombineBits \/ Unary \/ ShiftBits
    \/ TestBit \/ Random \/ Convert

Return ==
    /\ op # "none" /\ op' = "none" /\ x' = Fix(0) /\ y' = Fix(0)
    /\ UNCHANGED <<W, wide, roomy, mant>>

Next == (op = "none" /\ Operation) \/ Return

Spec == Init /\ [][Next]_vars

\* number->string and then string->number, the sign being the reader's business
ReadBack(s, radix) == DigitsToInteger(<<0>> \o SelectSeq(s, LAMBDA c : c # Dash), radix, s[1] = Dash)

Answer ==
    CASE op = "plus" -> Plus(x, y)
      [] op = "minus" -> Minus(x, y)
      [] op = "times" -> Times(x, y)
      [] op = "divide" -> IntegerDivRem(x, y, TRUE)
      [] op = "remainder" -> IntegerRemainder(x, y)
      [] op = "modulo" -> IntegerModulo(x, y)
      [] op = "gcd" -> IntegerGcd(x, y)
      [] op = "compare" -> Compare(x, y)
      [] op = "chain" -> Chain(y, x)
      [] op = "relation" -> IntegerRelated(y, x[1], x[2])
      [] op = "whole" -> [both |-> QuotientAndRemainder(x, y), m |-> WholeModulo(x, y)]
      [] op = "round" -> FloRound(x)
      [] op = "float gcd" -> FloGcd(x, y)
      [] op = "checked" -> Checked(y, x[1], x[2])
      [] op = "inexact" -> ExactToInexact(x)
      [] op = "exact" -> FloToInt(x)
      [] op = "and" -> BitwiseAnd(x, y)
      [] op = "ior" -> BitwiseIor(x, y)
      [] op = "xor" -> BitwiseXor(x, y)
      [] op = "not" -> BitwiseNot(x)
      [] op = "shift" -> ArithmeticShift(x, y)
      [] op = "bit" -> BitToBool(x, y)
      [] op = "length" -> IntegerLength(x)
      [] op = "negate" -> IntegerNegate(x)
      [] op = "abs" -> IntegerAbs(x)
      [] op = "random" -> RandomIntegers(x)
      [] op = "string" -> IntegerToString(x, y)
      [] op = "read" -> ReadBack(IntegerToString(x, y).s, y)

-----------------------------------------------------------------------------
(* What the results are.                                                   *)

Quo(a, b) == Sign(a) * Sign(b) * (Abs(a) \div Abs(b))
RECURSIVE Euclid(_, _)
Euclid(a, b) == IF b = 0 THEN a ELSE Euclid(b, a % b)
SameRatio(r, n, d) == r.n * d = n * r.d
Representable(r) == LET f == Nearest(r.n, r.d) IN SameRatio(Ratio(f), r.n, r.d)

\* An exact number is stored in the one way the predicates and eqv? expect:
\* no bignum that a fixnum could hold, no leading zero digit, no fraction that
\* could be reduced (the tails of every operation: C_bignum_simplify and the
\* gcds of Knuth's fraction arithmetic).
IsCanonical(n) ==
    CASE IsFix(n) -> FitsFixnum(n.v)
      [] IsKind(n, "big") ->
             /\ \A i \in 1 .. Size(n) : n.d[i] \in 0 .. B - 1
             /\ n = Number(IntValue(n))
      [] IsKind(n, "rat") ->
             /\ IsInt(n.num) /\ IsInt(n.den)
             /\ n.num = Number(IntValue(n.num)) /\ n.den = Number(IntValue(n.den))
             /\ IntValue(n.den) > 1 /\ Euclid(IntValue(n.den), Abs(IntValue(n.num))) = 1
      [] OTHER -> TRUE
Canonical(result) ==
    /\ op \in {"plus", "minus", "times", "remainder", "modulo", "gcd", "exact", "and", "ior",
               "xor", "not", "shift", "negate", "abs"} => IsCanonical(result)
    /\ op = "divide" => IsCanonical(result.q) /\ IsCanonical(result.r)
    /\ op = "read" => IsCanonical(result.int)

\* Sums, differences, products and negations of exact numbers are exact, and
\* with a flonum the double nearest to the exact result, whatever mixture of
\* fixnums, bignums and ratnums the operands are and whichever kernel is used.
Arithmetic(result) ==
    LET a == Ratio(x)
        b == Ratio(y)
        n == CASE op = "plus" -> a.n * b.d + b.n * a.d
               [] op = "minus" -> a.n * b.d - b.n * a.d
               [] op = "times" -> a.n * b.n
               [] OTHER -> 0
    IN  /\ op \in {"plus", "minus", "times"} =>
               IF IsExact(x) /\ IsExact(y) THEN SameRatio(Ratio(result), n, a.d * b.d)
               ELSE IF result = Fix(0) THEN op = "times" /\ n = 0
               ELSE Representable(a) /\ Representable(b) => result = Nearest(n, a.d * b.d)
        /\ op = "negate" => IntValue(result) = -IntValue(x)
        /\ op = "abs" => IntValue(result) = Abs(IntValue(x))

\* Quotient, remainder and modulo are those of the integers, the remainder
\* has the sign of the dividend and the modulo that of the divisor, in the
\* schoolbook kernels and in the recursive division, and gcd is the greatest
\* common divisor.
Division(result) ==
    LET a == IntValue(x)
        b == IntValue(y)
    IN  /\ op = "divide" => /\ IntValue(result.q) = Quo(a, b)
                            /\ IntValue(result.r) = a - Quo(a, b) * b
        /\ op = "remainder" => IntValue(result) = a - Quo(a, b) * b
        /\ op = "modulo" => /\ (IntValue(result) - a) % Abs(b) = 0
                            /\ Abs(IntValue(result)) < Abs(b)
                            /\ Sign(IntValue(result)) \in {0, Sign(b)}
        /\ op = "gcd" => IntValue(result) = Euclid(Abs(a), Abs(b))

\* The bitwise operations treat an integer as an infinite two's complement.
Bit(n, i) == (n \div 2^i) % 2
Bitwise(result) ==
    LET a == IntValue(x)
        b == IntValue(y)
        r == IntValue(result)
    IN  /\ op \in {"and", "ior", "xor"} =>
               \A i \in 0 .. 29 :
                   Bit(r, i) = CASE op = "and" -> Bit(a, i) * Bit(b, i)
                                 [] op = "ior" -> Larger(Bit(a, i), Bit(b, i))
                                 [] op = "xor" -> (Bit(a, i) + Bit(b, i)) % 2
        /\ op = "not" => r = -a - 1
        /\ op = "bit" => result = (Bit(IntValue(x), y) = 1)
        /\ op = "length" => result = BitLength(IF a < 0 THEN -a - 1 ELSE a)

\* A shift multiplies or divides by a power of two, rounding down, but for
\* the quotients that need one digit more than the digits that are kept: those
\* are minus a power of the digit base, and come out as 0 (see ShiftsRight).
Floor(n, k) == IF k >= 0 THEN n * 2^k ELSE n \div 2^(-k)
OneDigitShort(n, k) ==
    /\ ~IsFix(n) /\ k < 0 /\ -k < Size(n) * W
    /\ Floor(IntValue(n), k) = -(B^(Size(n) - (-k) \div W))
Shifting(result) ==
    op = "shift" =>
        IntValue(result) = IF OneDigitShort(x, y) THEN 0 ELSE Floor(IntValue(x), y)

\* What the manual says of arithmetic-shift: "shifts the argument N1 by N2 bits
\* to the left.  If N2 is negative, then N1 is shifted to the right."
ShiftsRight == op = "shift" => IntValue(Answer) = Floor(IntValue(x), y)

\* The order of the numbers is that of their values, however they are stored,
\* a flonum is never rounded to be compared, and NaN is not comparable.
Order(result) ==
    LET a == Ratio(x)
        b == Ratio(y)
    IN  op = "compare" =>
            result = IF IsKind(x, "nan") \/ IsKind(y, "nan") THEN Mu
                     ELSE Sign(a.n * b.d - b.n * a.d)

\* A chain of comparisons says how each number is related to all behind it,
\* whatever the representations.
Chains(result) ==
    /\ op = "chain" =>
           result = \A i, j \in 1 .. 3 : i < j =>
               LET a == Ratio(x[i])
                   b == Ratio(x[j])
               IN  ~IsKind(x[i], "nan") /\ ~IsKind(x[j], "nan") /\ Related(y, Sign(a.n * b.d - b.n * a.d))
    /\ op = "relation" => result = Related(y, Sign(IntValue(x[1]) - IntValue(x[2])))

\* Quotient, remainder and modulo are those of the integers when one of them
\* is a flonum, and when both are and the dividend takes no more bits than a
\* flonum has; anything but two integers, or 0 as the divisor, is an error.
RightWhole(r, n) == (IsKind(r, "flo") \/ r = Fix(0)) /\ (Representable([n |-> n, d |-> 1]) => Ratio(r) = Ratio(Nearest(n, 1)))
Wholes(result) ==
    op = "whole" =>
        IF ~IsWhole(x) \/ ~IsWhole(y) \/ IsZero(y)
        THEN result.both.q = Refused /\ result.both.r = Refused /\ result.m = Refused
        ELSE LET a == Ratio(x).n
                 b == Ratio(y).n
             IN  IsInt(x) \/ IsInt(y) \/ Abs(a) < 2^mant =>
                     /\ RightWhole(result.both.q, Quo(a, b))
                     /\ RightWhole(result.both.r, a - Quo(a, b) * b)
                     /\ RightWhole(result.m, IF a - Quo(a, b) * b # 0 /\ (a > 0) # (b > 0)
                                              THEN a - Quo(a, b) * b + b ELSE a - Quo(a, b) * b)

\* Operations of fixnums answer with the result, or #f if it is no fixnum.
CheckedRight(result) ==
    op = "checked" =>
        LET m == x[1].v
            n == x[2].v
            Bits(Op(_, _)) == FoldRight(LAMBDA i, acc : acc + Op(Bit(m, i), Bit(n, i)) * 2^i,
                                        [i \in 1 .. W |-> i - 1], 0)
            r == CASE y = "plus" -> m + n [] y = "minus" -> m - n [] y = "times" -> m * n
                   [] y = "quotient" -> Quo(m, n)
                   [] y = "and" -> Bits(LAMBDA a, b : a * b)
                   [] y = "ior" -> Bits(Larger)
                   [] y = "xor" -> Bits(LAMBDA a, b : (a + b) % 2)
        IN  IF ~IsFix(x[1]) \/ ~IsFix(x[2]) THEN result = False
            ELSE IF y = "quotient" /\ n = 0 THEN result = Refused
            ELSE LET value == IF y \in {"and", "ior", "xor"} THEN OfBits(r) ELSE r
                 IN  result = IF FitsFixnum(value) THEN Number(value) ELSE False

\* Flonums are rounded to the nearest integer, halfway to the even one.
RoundedRight(result) ==
    /\ op = "round" =>
           LET a == Ratio(x)
               r == Ratio(result)
               off == Abs(2 * (a.n - r.n * a.d))
           IN  r.d = 1 /\ off <= a.d /\ (off = a.d => r.n % 2 = 0)
    /\ op = "float gcd" => Ratio(result).n = Euclid(Abs(Ratio(x).n), Abs(Ratio(y).n))

\* Going from exact to inexact gives the nearest double of a fixnum or of a
\* nonnegative ratnum, and for a bignum one of the two doubles around it; a
\* value a double can hold survives the way there and back.
Ulp(f) == Larger(BitLength(f.n) + f.e - mant, MinExp - mant)
Rounding(result) ==
    /\ op = "inexact" =>
           LET a == Ratio(x)
           IN  /\ IsFix(x) \/ Representable(a) \/ (IsKind(x, "rat") /\ a.n > 0) =>
                      result = Nearest(a.n, a.d)
               /\ IsKind(x, "big") =>
                      Abs(Ratio(result).n - a.n) < Scale(Ulp(Nearest(a.n, 1)))
    /\ op = "exact" => IntValue(result) = Ratio(x).n
RoundsAlike ==
    op = "inexact" /\ IsKind(x, "rat") =>
        Answer = FloNegate(RatToDouble(Rat(IntegerNegate(x.num), x.den)))

\* What is written of an integer in a radix is its shortest numeral, it fits
\* the buffer that was computed for it, and reading it gives the integer back
\* in the digits that were allocated.
RECURSIVE NumeralValue(_, _)
NumeralValue(s, radix) ==
    IF s = <<>> THEN 0 ELSE Last(s) + radix * NumeralValue(Front(s), radix)
Conversions(result) ==
    /\ op = "string" =>
           LET neg == IntValue(x) < 0
               s == IF neg THEN Tail(result.s) ELSE result.s
           IN  /\ neg => Head(result.s) = Dash
               /\ \A i \in 1 .. Len(s) : s[i] \in 0 .. y - 1
               /\ s[1] # 0 \/ Len(s) = 1
               /\ NumeralValue(s, y) = Abs(IntValue(x))
               /\ result.exact
    /\ op = "read" => IntValue(result.int) = IntValue(x) /\ result.fits

\* A random integer is below its bound; that all of them can come up is
\* what the manual says.
RandomBelow(result) == op = "random" => \A r \in result : IntValue(r) \in 0 .. IntValue(x) - 1
RandomReaches == op = "random" => Number(IntValue(x) - 1) \in Answer

Exact ==
    LET result == Answer
    IN  /\ Canonical(result) /\ Arithmetic(result) /\ Division(result)
        /\ Order(result) /\ Chains(result) /\ Wholes(result) /\ CheckedRight(result)
Bits == LET result == Answer IN Bitwise(result) /\ Shifting(result)
Converted ==
    LET result == Answer
    IN  Rounding(result) /\ RoundedRight(result) /\ Conversions(result) /\ RandomBelow(result)

\* Results are stored in the one way they should, and they are the sums,
\* products, quotients and comparisons of the numbers that the operands stand for.
ExactlyRight == [][Return => Exact]_vars

\* Integers as rows of bits: shifted, joined and complemented.
BitsRight == [][Return => Bits]_vars

\* Numbers as doubles, as numerals, and as bounds of random ones.
ConversionsRight == [][Return => Converted]_vars
=============================================================================
