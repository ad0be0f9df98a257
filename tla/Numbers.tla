------------------------------ MODULE Numbers ------------------------------
(***************************************************************************)
(* The numeric tower of runtime.c over the exact integers of Bignums:      *)
(* greatest common divisors, conversions to and from digit strings,        *)
(* flonums, ratnums and the generic operators that dispatch on them.       *)
(*                                                                         *)
(* A flonum is an integer times a power of two, rounded to "mant" bits and *)
(* to the spacing of the subnormals as the C double is; infinities and     *)
(* negative zeros are left out, NaN is kept for the comparisons.  A ratnum *)
(* is two exact integers.  Compnums are left out.  A string is a sequence  *)
(* of digit values and the mark Dash for a minus sign.                     *)
(***************************************************************************)
EXTENDS Bignums, SequencesExt

CONSTANT MinExp     \* DBL_MIN_EXP: below 2^(MinExp - 1) a double loses bits
VARIABLE mant       \* DBL_MANT_DIG, which a word exceeds or not

Abs(n) == AbsValue(n)
Sign(n) == IF n < 0 THEN -1 ELSE IF n > 0 THEN 1 ELSE 0
BitLength(n) == CHOOSE k \in 0 .. 30 : Abs(n) < 2^k /\ (k = 0 \/ Abs(n) >= 2^(k - 1))

-----------------------------------------------------------------------------
(* Integers: modulo and the greatest common divisor.                       *)

IntegerPositive(x) == IF IsFix(x) THEN x.v > 0 ELSE ~x.neg

\* C_s_a_u_i_integer_modulo: the sign follows y
IntegerModulo(x, y) ==
    LET r == IntegerRemainder(x, y)
    IN  IF IntegerPositive(y) # IntegerPositive(r) /\ r # Fix(0)
        THEN IntegerPlus(r, y) ELSE r

\* C_i_fixnum_gcd
RECURSIVE FixnumGcd(_, _)
FixnumGcd(x, y) == IF y = 0 THEN OfWord(Abs(x)) ELSE FixnumGcd(Abs(y), Abs(x) % Abs(y))

\* The loop of lehmer_gcd on the leading bits, with Jebelean's test: it
\* stops before a quotient that the bits cut off could change.
RECURSIVE LehmerLoop(_, _, _, _, _)
LehmerLoop(uhat, vhat, prev, curr, even) ==
    LET qhat == uhat \div vhat
        next == [x |-> prev.x - qhat * curr.x, y |-> prev.y - qhat * curr.y]
        rest == uhat - qhat * vhat
        done == IF ~even THEN rest < -next.x \/ vhat - rest < next.y - curr.y
                ELSE rest < -next.y \/ vhat - rest < next.x - curr.x
    IN  IF done THEN [prev |-> prev, curr |-> curr]
        ELSE LehmerLoop(vhat, rest, curr, next, ~even)

\* lehmer_gcd: the two remainders the quotients found lead to
Lehmer(u, v) ==
    LET shift == IntegerLengthAbs(u) - (W - 2)
        f == LehmerLoop(ArithmeticShift(u, -shift).v, ArithmeticShift(v, -shift).v,
                        [x |-> 1, y |-> 0], [x |-> 0, y |-> 1], TRUE)
        Combined(c) == IntegerPlus(IntegerTimes(Fix(c.x), u), IntegerTimes(Fix(c.y), v))
    IN  [x |-> Combined(f.prev), y |-> Combined(f.curr)]

\* The loop of C_s_a_u_i_integer_gcd
RECURSIVE GcdLoop(_, _)
GcdLoop(x, y) ==
    LET close == IntegerLengthAbs(x) - IntegerLengthAbs(y) < W \div 2
        p == IF close THEN Lehmer(x, y) ELSE [x |-> x, y |-> y]
    IN  CASE y = Fix(0) -> IntegerAbs(x)
          [] IsFix(x) /\ y # Fix(0) -> FixnumGcd(x.v, y.v)
          [] OTHER -> GcdLoop(p.y, IntegerRemainder(p.x, p.y))

\* C_s_a_u_i_integer_gcd
IntegerGcd(x, y) ==
    LET ax == IntegerAbs(x)
        ay == IntegerAbs(y)
    IN  IF IsFix(x) /\ IsFix(y) THEN FixnumGcd(x.v, y.v)
        ELSE IF IntegerGreater(ax, ay) THEN GcdLoop(ax, ay) ELSE GcdLoop(ay, ax)

\* C_s_a_u_i_random_int, of a positive bignum: the digits below the highest
\* are any words (the extreme ones here), the highest is random_uniform's,
\* below that of x.  The set of the outcomes.
RandomIntegers(x) ==
    LET top == x.d[Size(x)]
    IN  {Simplify(FALSE, Append(low, high)) :
            low \in [1 .. Size(x) - 1 -> {0, B - 1}],
            high \in {0, IF top < 2 THEN 0 ELSE top - 1}}

-----------------------------------------------------------------------------
(* Strings of digits.                                                      *)

DigitsFor(bits) == (bits + W - 1) \div W        \* C_BIGNUM_BITS_TO_DIGITS
Dash == -1
Shift(radix) == Ilen(radix) - 1

\* The largest power of radix that fits a halfdigit, and its exponent.
Steps(radix) == CHOOSE k \in 1 .. W : IsHalfDigit(radix^k) /\ ~IsHalfDigit(radix^(k + 1))

\* str_to_bignum for a power of two: bits are collected from the last
\* character on, a digit that is full is stored and the rest carried over.
RECURSIVE BitsToDigits(_, _, _, _)
BitsToDigits(s, big, n, shift) ==
    IF s = <<>> THEN IF n > 0 THEN <<big>> ELSE <<>>
    ELSE LET digit == Last(s)
             full == (big | ((digit * 2^n) % B))
             over == n + shift - W
         IN  IF over < 0 THEN BitsToDigits(Front(s), full, n + shift, shift)
             ELSE <<full>> \o BitsToDigits(Front(s), digit \div 2^(shift - over), over, shift)

\* str_to_bignum otherwise: as many characters as fit a halfdigit are
\* gathered, the digits so far scaled up, and a carry appended.
RECURSIVE CharsToDigits(_, _, _)
CharsToDigits(s, digits, radix) ==
    LET taken == Smaller(Steps(radix), Len(s))
        big == FoldLeft(LAMBDA acc, c : radix * acc + c, 0, SubSeq(s, 1, taken))
        up == ScaleUp(digits, radix^taken, big)
        grown == IF Last(up) = 0 THEN Front(up) ELSE up
    IN  IF Len(s) = taken THEN grown
        ELSE CharsToDigits(SubSeq(s, taken + 1, Len(s)), grown, radix)

\* C_s_a_i_digits_to_integer: the digits, and the number of digits allocated
DigitsToInteger(s, radix, neg) ==
    LET size == DigitsFor(Len(s) * Ilen(radix - 1))
        digits == IF PowerOfTwo(radix) THEN BitsToDigits(s, 0, 0, Shift(radix))
                  ELSE CharsToDigits(s, <<>>, radix)
    IN  [int |-> Simplify(neg, digits), fits |-> Len(digits) <= size]

\* to_n_nary: a fixnum, by C_fixnum_to_string
RECURSIVE ToNary(_, _)
ToNary(n, radix) ==
    (IF n < radix THEN <<>> ELSE ToNary(n \div radix, radix)) \o <<n % radix>>

\* The fast path of bignum_to_str_2, for powers of two.  "s" is what has been
\* written, back to front, into "room" characters; a character may straddle
\* two digits.
RECURSIVE BitsToChars(_, _, _, _, _, _)
BitsToChars(d, big, len, s, room, shift) ==
    LET mask == 2^shift
        low == big | ((Head(d) * 2^len) % mask)
    IN  CASE len >= shift /\ Len(s) < room ->
               BitsToChars(d, big \div mask, len - shift, <<big % mask>> \o s, room, shift)
          [] ~(len >= shift /\ Len(s) < room) /\ d = <<>> ->
               IF big = 0 THEN s ELSE <<big>> \o s
          [] ~(len >= shift /\ Len(s) < room) /\ d # <<>> /\ len = 0 ->
               BitsToChars(Tail(d), Head(d), W, s, room, shift)
          [] OTHER ->
               BitsToChars(Tail(d), Head(d) \div 2^(shift - len), W - (shift - len),
                           <<low>> \o s, room, shift)

\* The sign goes before what was written.
SignedAfter(s, neg) == IF neg THEN <<Dash>> \o s ELSE s

\* The sign goes over a leading zero of the loop, or before the digits.
Signed(s, neg) ==
    IF ~neg THEN s ELSE IF Head(s) = 0 THEN <<Dash>> \o Tail(s) ELSE <<Dash>> \o s

\* The other path: divide by the power of radix that fits a halfdigit, and
\* write so many characters of the remainder as there is room for.
RECURSIVE ScaledToChars(_, _, _, _)
ScaledToChars(d, s, room, radix) ==
    LET down == ScaleDown(d, radix^Steps(radix))
        count == Smaller(Steps(radix), room - Len(s))
        chars == [i \in 1 .. count |-> (down.r \div radix^(count - i)) % radix]
        rest == IF Last(down.d) = 0 THEN Front(down.d) ELSE down.d
    IN  IF d = <<>> THEN s ELSE ScaledToChars(rest, chars \o s, room, radix)

RECURSIVE WithoutZeroes(_)
WithoutZeroes(s) == IF Head(s) = 0 THEN WithoutZeroes(Tail(s)) ELSE s

\* C_integer_to_string and bignum_to_str_2: the string, and its room
IntegerToString(x, radix) ==
    LET len == (IntegerLengthAbs(x) + Shift(radix) - 1) \div Shift(radix)
        room == len + (IF ~IsFix(x) /\ x.neg THEN 1 ELSE 0)
        written == IF PowerOfTwo(radix)
                   THEN Signed(BitsToChars(x.d, 0, 0, <<>>, room, Shift(radix)), x.neg)
                   ELSE LET s == WithoutZeroes(ScaledToChars(x.d, <<>>, room, radix))
                        IN  IF x.neg THEN <<Dash>> \o s ELSE s
    IN  IF IsFix(x) THEN [s |-> (IF x.v < 0 THEN <<Dash>> ELSE <<>>) \o ToNary(Abs(x.v), radix),
                          exact |-> TRUE]
        ELSE [s |-> written,
              exact |-> IF PowerOfTwo(radix) THEN Len(written) = room
                        ELSE Len(written) <= room]
-----------------------------------------------------------------------------
(* Flonums.                                                                *)

Scale(k) == IF k > 0 THEN 2^k ELSE 1
IsKind(x, k) == x.kind = k
IsInt(x) == x.kind \in {"fix", "big"}
NaN == [kind |-> "nan"]

\* n times 2^e, with n odd unless it is zero
Flo(n, e) ==
    LET k == CHOOSE i \in 0 .. 30 : Abs(n) % 2^i = 0 /\ (n = 0 \/ (Abs(n) \div 2^i) % 2 = 1)
    IN  [kind |-> "flo", n |-> IF n = 0 THEN 0 ELSE Sign(n) * (Abs(n) \div 2^k),
         e |-> IF n = 0 THEN 0 ELSE e + k]

\* The double nearest to n / d, ties to even; d > 0
Nearest(n, d) ==
    LET e0 == BitLength(n) - BitLength(d)
        e == IF Abs(n) * Scale(-e0) >= d * Scale(e0) THEN e0 ELSE e0 - 1
        unit == Larger(e - (mant - 1), MinExp - mant)
        num == Abs(n) * Scale(-unit)
        den == d * Scale(unit)
        q == num \div den
        twice == 2 * (num % den)
        up == twice > den \/ (twice = den /\ q % 2 = 1)
    IN  Flo(Sign(n) * (IF up THEN q + 1 ELSE q), unit)

FloPlus(f, g) ==
    LET m == Smaller(f.e, g.e)
    IN  Nearest((f.n * 2^(f.e - m) + g.n * 2^(g.e - m)) * Scale(m), Scale(-m))
FloNegate(f) == [f EXCEPT !.n = -f.n]
FloTimes(f, g) == Nearest(f.n * g.n * Scale(f.e + g.e), Scale(-(f.e + g.e)))
WithNaN(f, g, r) == IF IsKind(f, "nan") \/ IsKind(g, "nan") THEN NaN ELSE r

\* C_bignum_to_double: every digit is rounded in turn
BignumToDouble(x) ==
    LET Step(digit, acc) == FloPlus(Flo(acc.n, IF acc.n = 0 THEN 0 ELSE acc.e + W),
                                    Nearest(digit, 1))
        f == FoldRight(Step, x.d, Flo(0, 0))
    IN  IF x.neg THEN FloNegate(f) ELSE f

\* C_s_a_u_i_flo_to_int and fabs_frexp_to_digits, for an integral flonum
FloToInt(f) ==
    LET exponent == BitLength(f.n) + f.e
        value == Abs(f.n) * Scale(f.e)
    IN  CASE f.n = 0 -> Fix(0)
          [] f.n # 0 /\ exponent = 1 -> Fix(Sign(f.n))
          [] OTHER -> Simplify(f.n < 0, [i \in 1 .. DigitsFor(exponent) |->
                                            (value \div B^(i - 1)) % B])

-----------------------------------------------------------------------------
(* Comparison: -1, 0 or 1, and Mu when there is no answer.               *)

Rat(n, d) == [kind |-> "rat", num |-> n, den |-> d]
Mu == 2
Opposite(c) == IF c \in {-1, 1} THEN -c ELSE c

CompareIntegers(x, y) ==
    IF IsFix(x) /\ IsFix(y) THEN Sign(x.v - y.v) ELSE BignumCompare(AsBig(x), AsBig(y))

\* int_flo_cmp: the whole parts, then the fraction breaks the tie
IntFloCompare(x, f) ==
    LET whole == IF f.e >= 0 THEN f ELSE Flo(Sign(f.n) * (Abs(f.n) \div 2^(-f.e)), 0)
        c == CompareIntegers(x, FloToInt(whole))
    IN  CASE IsKind(f, "nan") -> Mu
          [] IsKind(f, "flo") /\ c = 0 /\ f.e < 0 -> -Sign(f.n)
          [] OTHER -> c

\* rat_flo_cmp: the flonum is scaled up to a whole number
RatFloCompare(x, f) ==
    LET up == IF IsKind(f, "nan") \/ f.e >= 0 THEN 0 ELSE -f.e
        whole == Flo(f.n, f.e + up)
        neg == IntegerNegative(x.num)
    IN  CASE IsKind(f, "nan") -> Mu
          [] IsKind(f, "flo") /\ neg /\ f.n >= 0 -> -1
          [] IsKind(f, "flo") /\ ~neg /\ f.n <= 0 -> 1
          [] OTHER -> CompareIntegers(ArithmeticShift(x.num, up),
                                      IntegerTimes(FloToInt(whole), x.den))

\* rat_cmp: by the signs when one is 0 or 1, else by schoolbook products
RatCompare(x, y) ==
    LET x1 == AsBig(IF IsInt(x) THEN x ELSE x.num)
        x2 == AsBig(IF IsInt(x) THEN Fix(1) ELSE x.den)
        y1 == AsBig(IF IsInt(y) THEN y ELSE y.num)
        y2 == AsBig(IF IsInt(y) THEN Fix(1) ELSE y.den)
        Shorten(d) == SubSeq(d, 1, CHOOSE n \in 1 .. Len(d) :
                                       d[n] # 0 /\ \A i \in n + 1 .. Len(d) : d[i] = 0)
        s == Big(x1.neg, Shorten(MultiplyDigits(x1.d, y2.d)))
        t == Big(y1.neg, Shorten(MultiplyDigits(y1.d, x2.d)))
    IN  CASE x = Fix(0) -> CompareIntegers(x, y.num)
          [] x = Fix(1) -> CompareIntegers(y.den, y.num)
          [] y = Fix(0) -> CompareIntegers(x.num, y)
          [] y = Fix(1) -> CompareIntegers(x.num, x.den)
          [] OTHER -> BignumCompare(s, t)

\* basic_cmp
Compare(x, y) ==
    CASE IsInt(x) /\ IsInt(y) -> CompareIntegers(x, y)
      [] IsInt(x) /\ y.kind \in {"flo", "nan"} -> IntFloCompare(x, y)
      [] x.kind \in {"flo", "nan"} /\ IsInt(y) -> Opposite(IntFloCompare(y, x))
      [] IsKind(x, "nan") /\ y.kind \in {"flo", "nan"} -> Mu
      [] IsKind(x, "flo") /\ IsKind(y, "nan") -> Mu
      [] IsKind(x, "flo") /\ IsKind(y, "flo") ->
             Sign(x.n * Scale(x.e - y.e) - y.n * Scale(y.e - x.e))
      [] x.kind \in {"flo", "nan"} /\ IsKind(y, "rat") -> Opposite(RatFloCompare(y, x))
      [] IsKind(x, "rat") /\ y.kind \in {"flo", "nan"} -> RatFloCompare(x, y)
      [] OTHER -> RatCompare(x, y)

-----------------------------------------------------------------------------
(* From exact to inexact, and the generic operators.                       *)

IntToDouble(x) == IF IsFix(x) THEN Nearest(x.v, 1) ELSE BignumToDouble(x)
IsOdd(x) == IF IsFix(x) THEN x.v % 2 = 1 ELSE x.d[1] % 2 = 1

\* The ratnums of C_a_i_exact_to_inexact [Knuth, 4.2.1]
RatToDouble(x) ==
    LET e0 == IntegerLengthAbs(x.num) - IntegerLengthAbs(x.den)
        num0 == IF e0 < 0 THEN ArithmeticShift(x.num, -e0) ELSE x.num
        den == IF e0 > 0 THEN ArithmeticShift(x.den, e0) ELSE x.den
        less == IntegerLess(num0, den)
        num1 == IF less THEN ArithmeticShift(num0, 1) ELSE num0
        e == IF less THEN e0 - 1 ELSE e0
        shift == Smaller(mant - 1, e - (MinExp - mant))
        d == IntegerDivRem(ArithmeticShift(num1, shift), den, TRUE)
        exact == d.q \in {Fix(1), Fix(-1)} /\ d.r = Fix(0)
        twice == IF exact THEN d.r ELSE ArithmeticShift(d.r, 1)
        c == Compare(twice, den)
        q == IntToDouble(IntegerAbs(d.q))
        up == c = 1 \/ (c = 0 /\ IsOdd(d.q))
        fraction == IF up THEN FloPlus(q, Flo(1, 0)) ELSE q
        f == Flo(fraction.n, fraction.e + e - shift)
    IN  IF IntegerNegative(x.num) THEN FloNegate(f) ELSE f

\* C_a_i_exact_to_inexact
ExactToInexact(x) ==
    CASE IsInt(x) -> IntToDouble(x)
      [] IsKind(x, "rat") -> RatToDouble(x)
      [] OTHER -> x

\* C_ratnum, or what stands for it when the denominator is 1
RatOrInt(n, d) == IF d = Fix(1) THEN n ELSE Rat(n, d)

\* rat_plusmin_integer and integer_minus_rat
RatPlusInteger(x, i) ==
    IF i = Fix(0) THEN x ELSE Rat(IntegerPlus(x.num, IntegerTimes(x.den, i)), x.den)
RatMinusInteger(x, i) ==
    IF i = Fix(0) THEN x ELSE Rat(IntegerMinus(x.num, IntegerTimes(x.den, i)), x.den)
IntegerMinusRat(i, x) ==
    Rat(IF i = Fix(0) THEN IntegerNegate(x.num)
        ELSE IntegerMinus(IntegerTimes(x.den, i), x.num), x.den)

\* rat_plusmin_rat [Knuth, 4.5.1]
RatPlusMinusRat(x, y, minus) ==
    LET Op(a, b) == IF minus THEN IntegerMinus(a, b) ELSE IntegerPlus(a, b)
        g1 == IntegerGcd(x.den, y.den)
        yd == IntegerQuotient(y.den, g1)
        xd == IntegerQuotient(x.den, g1)
        sum == Op(IntegerTimes(x.num, yd), IntegerTimes(y.num, xd))
        g2 == IntegerGcd(sum, g1)
        num == IntegerQuotient(sum, g2)
    IN  IF num = Fix(0) THEN Fix(0)
        ELSE RatOrInt(num, IntegerTimes(xd, IntegerQuotient(y.den, g2)))

\* rat_times_integer
RatTimesInteger(x, i) ==
    LET g == IntegerGcd(i, x.den)
        a == IntegerQuotient(i, g)
    IN  CASE i = Fix(0) -> Fix(0)
          [] i = Fix(1) -> x
          [] i = Fix(-1) -> Rat(IntegerNegate(x.num), x.den)
          [] OTHER -> RatOrInt(IntegerTimes(a, x.num), IntegerQuotient(x.den, g))

\* rat_times_rat
RatTimesRat(x, y) ==
    LET g1 == IntegerGcd(x.num, y.den)
        g2 == IntegerGcd(y.num, x.den)
    IN  RatOrInt(IntegerTimes(IntegerQuotient(x.num, g1), IntegerQuotient(y.num, g2)),
                 IntegerTimes(IntegerQuotient(x.den, g2), IntegerQuotient(y.den, g1)))

\* C_s_a_i_plus
Plus(x, y) ==
    CASE IsInt(x) /\ IsInt(y) -> IntegerPlus(x, y)
      [] IsInt(x) /\ IsKind(y, "rat") -> RatPlusInteger(y, x)
      [] IsKind(x, "rat") /\ IsInt(y) -> RatPlusInteger(x, y)
      [] IsKind(x, "rat") /\ IsKind(y, "rat") -> RatPlusMinusRat(x, y, FALSE)
      [] OTHER -> WithNaN(x, y, FloPlus(ExactToInexact(x), ExactToInexact(y)))

\* C_s_a_i_minus
Minus(x, y) ==
    CASE IsInt(x) /\ IsInt(y) -> IntegerMinus(x, y)
      [] IsInt(x) /\ IsKind(y, "rat") -> IntegerMinusRat(x, y)
      [] IsKind(x, "rat") /\ IsInt(y) -> RatMinusInteger(x, y)
      [] IsKind(x, "rat") /\ IsKind(y, "rat") -> RatPlusMinusRat(x, y, TRUE)
      [] OTHER -> WithNaN(x, y, FloPlus(ExactToInexact(x), FloNegate(ExactToInexact(y))))

\* C_s_a_i_times
Times(x, y) ==
    CASE x = Fix(0) \/ y = Fix(0) -> Fix(0)
      [] x # Fix(0) /\ y # Fix(0) /\ IsInt(x) /\ IsInt(y) -> IntegerTimes(x, y)
      [] y # Fix(0) /\ IsInt(y) /\ IsKind(x, "rat") -> RatTimesInteger(x, y)
      [] x # Fix(0) /\ IsInt(x) /\ IsKind(y, "rat") -> RatTimesInteger(y, x)
      [] IsKind(x, "rat") /\ IsKind(y, "rat") -> RatTimesRat(x, y)
      [] OTHER -> WithNaN(x, y, FloTimes(ExactToInexact(x), ExactToInexact(y)))

-----------------------------------------------------------------------------
(* Chains of comparisons: (= x y ...), (< x y ...) and their kin.          *)

Relations == {"=", "<", ">", "<=", ">="}
Related(rel, c) ==
    c \in CASE rel = "=" -> {0} [] rel = ">" -> {1} [] rel = "<" -> {-1}
            [] rel = ">=" -> {0, 1} [] rel = "<=" -> {0, -1}

\* C_nequalp compares all with the first of them,
AllEqual(s) == \A i \in 2 .. Len(s) : Related("=", Compare(s[1], s[i]))
\* C_greaterp, C_lessp, C_greater_or_equal_p and C_less_or_equal_p each with the next.
Ordered(rel, s) == \A i \in 2 .. Len(s) : Related(rel, Compare(s[i - 1], s[i]))
Chain(rel, s) == IF rel = "=" THEN AllEqual(s) ELSE Ordered(rel, s)

\* What compiled code calls when it knows that both are integers:
\* C_i_integer_equalp, C_i_integer_greater_or_equalp, C_i_integer_less_or_equalp
IntegerRelated(rel, x, y) ==
    CASE IsFix(x) /\ IsFix(y) -> Related(rel, Sign(x.v - y.v))
      [] IsFix(x) /\ ~IsFix(y) -> IF y.neg THEN rel = ">=" ELSE rel = "<="
      [] ~IsFix(x) /\ IsFix(y) -> IF x.neg THEN rel = "<=" ELSE rel = ">="
      [] OTHER -> Related(rel, BignumCompare(x, y))

-----------------------------------------------------------------------------
(* Division of integers that may be flonums.                               *)

Refused == [kind |-> "refused"]                 \* an error instead
IsWhole(x) == IsInt(x) \/ (IsKind(x, "flo") /\ x.e >= 0)
IsZero(x) == x = Fix(0) \/ (IsKind(x, "flo") /\ x.n = 0)
Exactly(x) == IF IsKind(x, "flo") THEN FloToInt(x) ELSE x
Truncated(f) == IF f.e >= 0 THEN f ELSE Flo(Sign(f.n) * (Abs(f.n) \div 2^(-f.e)), 0)

\* modf of the quotient of the doubles
FloQuotient(f, g) ==
    Truncated(Nearest(Sign(g.n) * f.n * Scale(f.e - g.e), Abs(g.n) * Scale(g.e - f.e)))
FloRemainder(f, g) == FloPlus(f, FloNegate(FloTimes(FloQuotient(f, g), g)))
FloModulo(f, g) ==
    LET r == FloRemainder(f, g)
    IN  IF (f.n > 0) # (g.n > 0) /\ r.n # 0 THEN FloPlus(r, g) ELSE r

\* Two doubles are divided as doubles, a double and an exact integer exactly.
Divided(how, x, y) ==
    LET Exact(a, b) == CASE how = "quotient" -> IntegerQuotient(a, b)
                         [] how = "remainder" -> IntegerRemainder(a, b)
                         [] how = "modulo" -> IntegerModulo(a, b)
        Double(f, g) == CASE how = "quotient" -> FloQuotient(f, g)
                          [] how = "remainder" -> FloRemainder(f, g)
                          [] how = "modulo" -> FloModulo(f, g)
        floats == {IsKind(x, "flo"), IsKind(y, "flo")}
    IN  CASE ~IsWhole(x) \/ ~IsWhole(y) \/ IsZero(y) -> Refused
          [] IsWhole(x) /\ IsWhole(y) /\ ~IsZero(y) /\ floats = {TRUE} -> Double(x, y)
          [] OTHER -> LET r == Exact(Exactly(x), Exactly(y))
                      IN  IF TRUE \in floats THEN ExactToInexact(r) ELSE r
Quotient(x, y) == Divided("quotient", x, y)             \* C_s_a_i_quotient
WholeRemainder(x, y) == Divided("remainder", x, y)      \* C_s_a_i_remainder
WholeModulo(x, y) == Divided("modulo", x, y)            \* C_s_a_i_modulo
\* C_quotient_and_remainder
QuotientAndRemainder(x, y) ==
    [kind |-> "two", q |-> Quotient(x, y), r |-> WholeRemainder(x, y)]

\* C_a_i_flonum_gcd, by fmod
FloGcd(f, g) ==
    LET Gcd[a \in Nat, b \in Nat] == IF b = 0 THEN a ELSE Gcd[b, a % b]
    IN  Flo(Gcd[Abs(f.n) * 2^f.e, Abs(g.n) * 2^g.e], 0)

\* C_a_i_flonum_round_proper: halfway to the even one
FloRound(f) ==
    LET i == Abs(Truncated(f).n) * 2^Truncated(f).e
        twice == 2 * (Abs(f.n) - i * 2^(-f.e))
        down == twice < 2^(-f.e) \/ (twice = 2^(-f.e) /\ i % 2 = 0)
    IN  IF f.e >= 0 THEN f ELSE Flo(Sign(f.n) * (IF down THEN i ELSE i + 1), 0)

-----------------------------------------------------------------------------
(* Fixnums with overflow detection: fx+? and its kin.                      *)

False == [kind |-> "false"]
Word(n) == n % B                                \* of W bits, with and without a sign
OfBits(u) == IF u >= B \div 2 THEN u - B ELSE u
IfFits(n) == IF FitsFixnum(n) THEN Fix(n) ELSE False

\* C_i_o_fixnum_plus and C_i_o_fixnum_difference look at the two highest bits.
TopDiffers(u) == u \div 2^(W - 2) # 0
CheckedPlus(m, n) ==
    IF TopDiffers((Word(m + n) ^^ Word(m)) & (Word(m + n) ^^ Word(n))) THEN False ELSE Fix(m + n)
CheckedMinus(m, n) ==
    IF TopDiffers((Word(m - n) ^^ Word(m)) & Word(-1 - OfBits(Word(m - n) ^^ Word(n)))) THEN False
    ELSE Fix(m - n)
\* C_i_o_fixnum_times: the product is computed only if it fits a word.
CheckedTimes(m, n) ==
    LET c == IF (m < 0) = (n < 0) THEN B \div 2 - 1 ELSE B \div 2
    IN  IF n # 0 /\ Abs(m) > c \div Abs(n) THEN False ELSE IfFits(OfBits(Word(m * n)))
\* C_i_o_fixnum_quotient
CheckedQuotient(m, n) ==
    IF n = 0 THEN Refused ELSE IfFits(Sign(m) * Sign(n) * (Abs(m) \div Abs(n)))
\* C_i_o_fixnum_and, C_i_o_fixnum_ior, C_i_o_fixnum_xor
CheckedBits(name, m, n) ==
    IfFits(OfBits(CASE name = "and" -> Word(m) & Word(n)
                    [] name = "ior" -> (Word(m) | Word(n))
                    [] name = "xor" -> Word(m) ^^ Word(n)))
CheckedOps == {"plus", "minus", "times", "quotient", "and", "ior", "xor"}
Checked(name, x, y) ==
    IF ~IsFix(x) \/ ~IsFix(y) THEN False
    ELSE CASE name = "plus" -> CheckedPlus(x.v, y.v)
           [] name = "minus" -> CheckedMinus(x.v, y.v)
           [] name = "times" -> CheckedTimes(x.v, y.v)
           [] name = "quotient" -> CheckedQuotient(x.v, y.v)
           [] OTHER -> CheckedBits(name, x.v, y.v)
=============================================================================
