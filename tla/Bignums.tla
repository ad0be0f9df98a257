------------------------------- MODULE Bignums -------------------------------
(***************************************************************************)
(* Exact integers of runtime.c: the digit kernels and the operations on    *)
(* fixnums and bignums that are built from them.                           *)
(*                                                                         *)
(* A fixnum carries its value; a bignum its sign and its digits, least     *)
(* significant first, base 2^W, as in the bytevector of the runtime.       *)
(* Every digit operation is done modulo 2^W, like the C_uword it models.   *)
(* The buffers the results move through are not modelled (Collector has    *)
(* the scratch space).                                                     *)
(***************************************************************************)
EXTENDS Integers, Sequences, Bitwise

CONSTANTS
    KaratsubaThreshold,         \* C_KARATSUBA_THRESHOLD
    BurnikelZieglerThreshold    \* C_BURNIKEL_ZIEGLER_THRESHOLD

VARIABLES
    W,          \* bits of a word, and of a bignum digit: 32 or 64
    wide,       \* C_BIGNUM_HAVE_WIDE_DIGITS: the build has double-digit words
    roomy       \* C_stack_check1 finds room for the recursive algorithms

ASSUME ThresholdAssumption ==
    KaratsubaThreshold \in Nat \ {0} /\ BurnikelZieglerThreshold \in Nat \ {0}

B == 2^W                        \* one more than the largest digit
Half == 2^(W \div 2)            \* and than the largest halfdigit
MostPositive == 2^(W - 2) - 1
MostNegative == -(2^(W - 2))

Lo(d) == d % Half
Hi(d) == d \div Half
Combine(h, l) == (h * Half + l) % B
FitsFixnum(n) == n \in MostNegative .. MostPositive
IsHalfDigit(n) == n < Half
AbsValue(n) == IF n < 0 THEN -n ELSE n
Larger(m, n) == IF m > n THEN m ELSE n
Smaller(m, n) == IF m < n THEN m ELSE n
Zeroes(n) == [i \in 1 .. n |-> 0]

\* C_ilen: the bits a word needs.
Ilen(n) == CHOOSE k \in 0 .. W : n < 2^k /\ (k = 0 \/ n >= 2^(k - 1))
PowerOfTwo(n) == 2^(Ilen(n) - 1) = n

Fix(n) == [kind |-> "fix", v |-> n]
Big(neg, d) == [kind |-> "big", neg |-> neg, d |-> d]
IsFix(x) == x.kind = "fix"
Size(x) == Len(x.d)
DigitAt(d, i) == IF i \in 1 .. Len(d) THEN d[i] ELSE 0

\* C_a_u_i_fix_to_big
FixToBig(x) == IF x.v = 0 THEN Big(FALSE, <<>>) ELSE Big(x.v < 0, <<AbsValue(x.v)>>)
AsBig(x) == IF IsFix(x) THEN FixToBig(x) ELSE x

\* C_bignum1 or a fixnum, whichever holds n
OfWord(n) == IF FitsFixnum(n) THEN Fix(n) ELSE Big(n < 0, <<AbsValue(n)>>)

\* C_bignum_simplify: no leading zero digits, and a fixnum when it fits.
Simplify(neg, d) ==
    LET length == CHOOSE n \in 0 .. Len(d) :
                      /\ n > 0 => d[n] # 0
                      /\ \A i \in n + 1 .. Len(d) : d[i] = 0
    IN  CASE length = 0 -> Fix(0)
          [] length = 1 /\ FitsFixnum(IF neg THEN -d[1] ELSE d[1]) ->
                 Fix(IF neg THEN -d[1] ELSE d[1])
          [] OTHER -> Big(neg, SubSeq(d, 1, length))

-----------------------------------------------------------------------------
(* Loops over digits.                                                      *)

\* bignum_digits_destructive_negate: two's complement in place
RECURSIVE NegateDigits(_)
NegateDigits(d) ==
    LET sum == (B - Head(d)) % B
        rest == Tail(d)
    IN  <<sum>> \o (IF rest = <<>> THEN <<>>
                    ELSE IF sum = 0 THEN NegateDigits(rest)
                    ELSE [i \in 1 .. Len(rest) |-> B - 1 - rest[i]])

\* bignum_digits_destructive_shift_left: the digits and what is pushed out
ShiftDigitsLeft(d, n) ==
    LET out(i) == IF i = 0 THEN 0 ELSE d[i] \div 2^(W - n)
    IN  [d |-> [i \in 1 .. Len(d) |-> ((d[i] * 2^n) % B) + out(i - 1)],
         carry |-> out(Len(d))]

\* bignum_digits_destructive_shift_right, with ones coming in for a negative
ShiftDigitsRight(d, n, negp) ==
    LET in(i) == IF i > Len(d) THEN IF negp THEN B - 2^(W - n) ELSE 0
                 ELSE (d[i] * 2^(W - n)) % B
    IN  [d |-> [i \in 1 .. Len(d) |-> (d[i] \div 2^n) + in(i + 1)],
         carry |-> d[1] % 2^n]

\* A digit that becomes zero through a carry does not carry.
RECURSIVE AddDigitsForgetful(_, _, _)
AddDigitsForgetful(r, y, carry) ==
    IF y = <<>> /\ carry = 0 THEN r
    ELSE LET digit == Head(r)
             sum == (digit + (IF y = <<>> THEN 0 ELSE Head(y)) + carry) % B
         IN  <<sum>> \o AddDigitsForgetful(Tail(r), IF y = <<>> THEN y ELSE Tail(y),
                                           IF sum < digit THEN 1 ELSE 0)

\* bignum_plus_unsigned: y is added into a copy of x, then the carry runs on
RECURSIVE AddDigits(_, _, _)
AddDigits(r, y, carry) ==
    IF y = <<>> /\ carry = 0 THEN r
    ELSE LET digit == Head(r)
             sum == (digit + (IF y = <<>> THEN 0 ELSE Head(y)) + carry) % B
             over == IF carry = 1 THEN sum <= digit ELSE sum < digit
         IN  <<sum>> \o AddDigits(Tail(r), IF y = <<>> THEN y ELSE Tail(y),
                                  IF over THEN 1 ELSE 0)

\* the loops of bignum_minus_unsigned, which borrow
RECURSIVE SubtractDigits(_, _, _)
SubtractDigits(r, y, borrow) ==
    IF y = <<>> /\ borrow = 0 THEN r
    ELSE LET digit == Head(r)
             difference == (digit - (IF y = <<>> THEN 0 ELSE Head(y)) - borrow) % B
             under == IF borrow = 1 THEN difference >= digit ELSE difference > digit
         IN  <<difference>> \o SubtractDigits(Tail(r), IF y = <<>> THEN y ELSE Tail(y),
                                              IF under THEN 1 ELSE 0)

\* bignum_digits_destructive_scale_up_with_carry, for a halfdigit factor
RECURSIVE ScaleUp(_, _, _)
ScaleUp(d, factor, carry) ==
    IF d = <<>> THEN <<carry>>
    ELSE LET low == factor * Lo(Head(d)) + carry
             high == factor * Hi(Head(d)) + Hi(low)
         IN  <<Combine(Lo(high), Lo(low))>> \o ScaleUp(Tail(d), factor, Hi(high))

\* bignum_cmp_unsigned
RECURSIVE CompareDigits(_, _)
CompareDigits(xd, yd) ==
    LET n == Len(xd)
    IN  CASE n < Len(yd) -> -1
          [] n > Len(yd) -> 1
          [] n = 0 -> 0
          [] xd[n] < yd[n] -> -1
          [] xd[n] > yd[n] -> 1
          [] OTHER -> CompareDigits(SubSeq(xd, 1, n - 1), SubSeq(yd, 1, n - 1))

\* C_i_bignum_cmp
BignumCompare(x, y) ==
    CASE x.neg /\ y.neg -> CompareDigits(y.d, x.d)
      [] x.neg /\ ~y.neg -> -1
      [] ~x.neg /\ y.neg -> 1
      [] OTHER -> CompareDigits(x.d, y.d)

\* C_i_integer_lessp and C_i_integer_greaterp
IntegerLess(x, y) ==
    CASE IsFix(x) /\ IsFix(y) -> x.v < y.v
      [] IsFix(x) /\ ~IsFix(y) -> ~y.neg
      [] ~IsFix(x) /\ IsFix(y) -> x.neg
      [] OTHER -> BignumCompare(x, y) = -1
IntegerGreater(x, y) ==
    CASE IsFix(x) /\ IsFix(y) -> x.v > y.v
      [] IsFix(x) /\ ~IsFix(y) -> y.neg
      [] ~IsFix(x) /\ IsFix(y) -> ~x.neg
      [] OTHER -> BignumCompare(x, y) = 1
IntegerNegative(x) == IF IsFix(x) THEN x.v < 0 ELSE x.neg

-----------------------------------------------------------------------------
(* Sums.                                                                   *)

\* C_s_a_u_i_integer_negate: a fixnum only for the most negative one
IntegerNegate(x) ==
    IF IsFix(x) THEN OfWord(-x.v)
    ELSE IF Size(x) = 1 /\ ~x.neg /\ x.d[1] = -MostNegative THEN Fix(MostNegative)
    ELSE Simplify(~x.neg, x.d)

\* C_s_a_u_i_integer_abs
IntegerAbs(x) == IF IntegerNegative(x) THEN IntegerNegate(x) ELSE x

\* bignum_plus_unsigned
PlusUnsigned(x, y, negp) ==
    LET long == IF Size(y) > Size(x) THEN y ELSE x
        short == IF Size(y) > Size(x) THEN x ELSE y
    IN  Simplify(negp, AddDigits(long.d \o <<0>>, short.d, 0))

\* bignum_minus_unsigned
MinusUnsigned(x, y) ==
    CASE CompareDigits(x.d, y.d) = 0 -> Fix(0)
      [] CompareDigits(x.d, y.d) = -1 -> Simplify(TRUE, SubtractDigits(y.d, x.d, 0))
      [] OTHER -> Simplify(FALSE, SubtractDigits(x.d, y.d, 0))

\* C_s_a_u_i_integer_plus, with C_a_i_fixnum_plus
IntegerPlus(x, y) ==
    LET a == AsBig(x)
        b == AsBig(y)
    IN  CASE IsFix(x) /\ IsFix(y) -> OfWord(x.v + y.v)
          [] a.neg /\ b.neg -> PlusUnsigned(a, b, TRUE)
          [] a.neg /\ ~b.neg -> MinusUnsigned(b, a)
          [] ~a.neg /\ b.neg -> MinusUnsigned(a, b)
          [] OTHER -> PlusUnsigned(a, b, FALSE)

\* C_s_a_u_i_integer_minus, with C_a_i_fixnum_difference
IntegerMinus(x, y) ==
    LET a == AsBig(x)
        b == AsBig(y)
    IN  CASE IsFix(x) /\ IsFix(y) -> OfWord(x.v - y.v)
          [] a.neg /\ b.neg -> MinusUnsigned(b, a)
          [] a.neg /\ ~b.neg -> PlusUnsigned(a, b, TRUE)
          [] ~a.neg /\ b.neg -> PlusUnsigned(a, b, FALSE)
          [] OTHER -> MinusUnsigned(a, b)

-----------------------------------------------------------------------------
(* Bits.                                                                   *)

\* Only the digits there are are negated.
TwosComplementShort(x, size) == IF x.neg THEN NegateDigits(x.d) ELSE x.d

\* maybe_negate_bignum_for_bitwise_op: the low "size" digits in two's complement
TwosComplement(x, size) ==
    IF x.neg THEN NegateDigits([i \in 1 .. size |-> DigitAt(x.d, i)]) ELSE x.d

\* C_s_a_i_bitwise_and
BitwiseAnd(x, y) ==
    LET a == AsBig(x)
        b == AsBig(y)
        size == IF a.neg \/ b.neg THEN Larger(Size(a), Size(b)) + 1
                ELSE Smaller(Size(a), Size(b))
        xd == TwosComplement(a, size)
        yd == TwosComplement(b, size)
        both == Smaller(Len(xd), Len(yd))
        r == [i \in 1 .. size |-> IF i <= both THEN xd[i] & yd[i] ELSE 0]
    IN  IF IsFix(x) /\ IsFix(y) THEN Fix(((x.v % B) & (y.v % B)) -
                                         (IF x.v < 0 /\ y.v < 0 THEN B ELSE 0))
        ELSE Simplify(a.neg /\ b.neg, IF a.neg /\ b.neg THEN NegateDigits(r) ELSE r)

\* C_s_a_i_bitwise_ior: the longer operand supplies the digits the other lacks
BitwiseIor(x, y) ==
    LET a == AsBig(x)
        b == AsBig(y)
        size == Larger(Size(a), Size(b)) + 1
        xd == TwosComplement(a, size)
        yd == TwosComplement(b, size)
        r == [i \in 1 .. size |-> DigitAt(xd, i) | DigitAt(yd, i)]
    IN  IF IsFix(x) /\ IsFix(y) THEN Fix(((x.v % B) | (y.v % B)) -
                                         (IF x.v < 0 \/ y.v < 0 THEN B ELSE 0))
        ELSE Simplify(a.neg \/ b.neg, IF a.neg \/ b.neg THEN NegateDigits(r) ELSE r)

\* C_s_a_i_bitwise_xor
BitwiseXor(x, y) ==
    LET a == AsBig(x)
        b == AsBig(y)
        size == Larger(Size(a), Size(b)) + 1
        xd == TwosComplement(a, size)
        yd == TwosComplement(b, size)
        r == [i \in 1 .. size |-> DigitAt(xd, i) ^^ DigitAt(yd, i)]
    IN  IF IsFix(x) /\ IsFix(y) THEN Fix(((x.v % B) ^^ (y.v % B)) -
                                         (IF (x.v < 0) # (y.v < 0) THEN B ELSE 0))
        ELSE Simplify(a.neg # b.neg, IF a.neg # b.neg THEN NegateDigits(r) ELSE r)

\* C_s_a_i_bitwise_not
BitwiseNot(x) == IntegerMinus(Fix(-1), x)

\* C_s_a_i_arithmetic_shift, to the left
ShiftLeft(x, n) ==
    Simplify(x.neg, Zeroes(n \div W) \o ShiftDigitsLeft(x.d \o <<0>>, n % W).d)

\* C_s_a_i_arithmetic_shift, to the right: the result has the digits of x
\* above the shift and no room for a carry out of its two's complement
ShiftRight(x, n) ==
    LET size == Size(x) - n \div W
        xd == TwosComplement(x, Size(x) + 1)
        r == ShiftDigitsRight(SubSeq(xd, n \div W + 1, n \div W + size),
                              n % W, x.neg).d
    IN  Simplify(x.neg, IF x.neg THEN NegateDigits(r) ELSE r)

\* C_s_a_i_arithmetic_shift
ArithmeticShift(x, n) ==
    CASE n = 0 \/ x = Fix(0) -> x
      [] IsFix(x) /\ n < 0 ->
             Fix(IF -n < W THEN x.v \div 2^(-n) ELSE IF x.v < 0 THEN -1 ELSE 0)
      [] IsFix(x) /\ n > 0 /\ n < W - 2 /\ x.v >= 0 /\ Ilen(x.v) + n < W - 2 ->
             Fix(x.v * 2^n)
      [] n > 0 -> ShiftLeft(AsBig(x), n)
      [] -n >= Size(x) * W -> IF x.neg THEN Fix(-1) ELSE Fix(0)
      [] OTHER -> ShiftRight(x, -n)

\* integer_length_abs
IntegerLengthAbs(x) ==
    IF IsFix(x) THEN Ilen(AbsValue(x.v)) ELSE (Size(x) - 1) * W + Ilen(x.d[Size(x)])

\* C_i_integer_length, for integers in two's complement
IntegerLength(x) ==
    LET last == x.d[Size(x)]
        single == /\ PowerOfTwo(last)
                  /\ \A i \in 1 .. Size(x) - 1 : x.d[i] = 0
    IN  IF IsFix(x) THEN Ilen(IF x.v < 0 THEN -x.v - 1 ELSE x.v)
        ELSE (Size(x) - 1) * W + Ilen(last) - (IF x.neg /\ single THEN 1 ELSE 0)

\* C_i_bit_to_bool, for a fixnum index
BitToBool(x, i) ==
    LET place == i \div W + 1
    IN  IF IsFix(x) THEN IF i >= W THEN x.v < 0 ELSE ((x.v % B) \div 2^i) % 2 = 1
        ELSE IF place > Size(x) THEN x.neg
        ELSE (TwosComplement(x, place)[place] \div 2^(i % W)) % 2 = 1

-----------------------------------------------------------------------------
(* Products.                                                               *)

\* A digit sequence as halfdigits, and back.
Halves(d) == [i \in 1 .. 2 * Len(d) |->
                  IF i % 2 = 1 THEN Lo(d[(i + 1) \div 2]) ELSE Hi(d[i \div 2])]
Whole(h) == [i \in 1 .. Len(h) \div 2 |-> Combine(h[2 * i], h[2 * i - 1])]

\* One row of bignum_digits_multiply in base b: xd times yj added to the
\* digits of r, and the carry stored above them.
RECURSIVE MultiplyRow(_, _, _, _, _)
MultiplyRow(xd, yj, r, carry, b) ==
    IF xd = <<>> THEN <<carry>> \o Tail(r)
    ELSE LET product == Head(xd) * yj + Head(r) + carry
         IN  <<product % b>> \o MultiplyRow(Tail(xd), yj, Tail(r), product \div b, b)

\* The rows, from digit j of yd on.
RECURSIVE MultiplyRows(_, _, _, _)
MultiplyRows(xd, yd, r, b) ==
    IF yd = <<>> THEN r
    ELSE LET row == IF Head(yd) = 0 THEN r ELSE MultiplyRow(xd, Head(yd), r, 0, b)
         IN  <<Head(row)>> \o MultiplyRows(xd, Tail(yd), Tail(row), b)

\* bignum_digits_multiply
MultiplyDigits(xd, yd) ==
    IF wide THEN MultiplyRows(xd, yd, Zeroes(Len(xd) + Len(yd)), B)
    ELSE Whole(MultiplyRows(Halves(xd), Halves(yd), Zeroes(2 * (Len(xd) + Len(yd))), Half))

\* C_a_i_fixnum_times: the same on 2x2 halfdigits
FixnumTimes(x, y) ==
    LET a == AbsValue(x.v)
        b == AbsValue(y.v)
        p1 == Lo(a) * Lo(b)
        p2 == Hi(a) * Lo(b) + Hi(p1)
        p3 == Lo(a) * Hi(b) + Lo(p2)
        rlo == Combine(Lo(p3), Lo(p1))
        rhi == Hi(a) * Hi(b) + Hi(p3) + Hi(p2)
        negp == (x.v < 0) # (y.v < 0)
    IN  IF rhi # 0 THEN Big(negp, <<rlo, rhi>>) ELSE Simplify(negp, <<rlo>>)

\* bignum_extract_digits: the digits from start up to end, counted from 0
ExtractDigits(x, start, end) ==
    IF IsFix(x) THEN IF start = 0 /\ end > 0 THEN x ELSE Fix(0)
    ELSE LET last == Smaller(end, Size(x))
         IN  IF last = start \/ start >= Size(x) THEN Fix(0)
             ELSE Simplify(FALSE, SubSeq(x.d, start + 1, last))
ExtractFrom(x, start) == ExtractDigits(x, start, IF IsFix(x) THEN 1 ELSE Size(x))

\* C_s_a_u_i_integer_times by a fixnum that is a halfdigit or a power of two
TimesSmall(x, y) ==
    LET absy == AbsValue(y.v)
        shift == Ilen(absy) - 1
        shifted == ShiftDigitsLeft(x.d, shift)
    IN  Simplify((y.v < 0) # x.neg,
                 IF PowerOfTwo(absy) THEN Append(shifted.d, shifted.carry)
                 ELSE ScaleUp(x.d, absy, 0))

RECURSIVE IntegerTimes(_, _)

\* bignum_times_bignum_karatsuba, with Size(x) <= Size(y)
Karatsuba(x, y, negp) ==
    LET n == Size(y) \div 2
        xhi == ExtractFrom(IntegerAbs(x), n)
        xlo == ExtractDigits(IntegerAbs(x), 0, n)
        yhi == ExtractFrom(IntegerAbs(y), n)
        ylo == ExtractDigits(IntegerAbs(y), 0, n)
        a == IntegerTimes(xhi, yhi)
        b == IntegerTimes(xlo, ylo)
        c == IntegerTimes(IntegerMinus(xhi, xlo), IntegerMinus(yhi, ylo))
        top == ArithmeticShift(a, 2 * n * W)
        middle == ArithmeticShift(IntegerPlus(b, IntegerMinus(a, c)), n * W)
        product == IntegerPlus(top, IntegerPlus(middle, b))
    IN  IF negp THEN IntegerNegate(product) ELSE product

\* bignum_times_bignum_unsigned
TimesUnsigned(x, y, negp) ==
    LET short == IF Size(y) < Size(x) THEN y ELSE x
        long == IF Size(y) < Size(x) THEN x ELSE y
    IN  IF Size(short) >= KaratsubaThreshold /\ roomy THEN Karatsuba(short, long, negp)
        ELSE Simplify(negp, MultiplyDigits(short.d, long.d))

\* C_s_a_u_i_integer_times
IntegerTimes(x, y) ==
    CASE IsFix(x) /\ IsFix(y) -> FixnumTimes(x, y)
      [] IsFix(x) /\ ~IsFix(y) -> IntegerTimes(y, x)
      [] y = Fix(0) -> Fix(0)
      [] y = Fix(1) -> x
      [] y = Fix(-1) -> IntegerNegate(x)
      [] IsFix(y) /\ y.v \notin {0, 1, -1} /\
           (\/ IsHalfDigit(AbsValue(y.v))
            \/ PowerOfTwo(AbsValue(y.v)) /\ FitsFixnum(AbsValue(y.v))) ->
             TimesSmall(x, y)
      [] OTHER -> TimesUnsigned(x, AsBig(y), AsBig(y).neg # x.neg)

-----------------------------------------------------------------------------
(* Quotients and remainders.                                               *)

\* bignum_digit_reciprocal, for a digit with its top bit set
Reciprocal(d) == ((B * B - 1) \div d) % B

\* bignum_divide_2_by_1: (u1:u0) by d, v being d's reciprocal
DivideTwoByOne(u1, u0, d, v) ==
    LET t == (v * u1 + ((u1 + 1) % B) * B + u0) % (B * B)
        q1 == t \div B
        q0 == t % B
        r == (u0 - q1 * d) % B
        q2 == IF r > q0 THEN (q1 - 1) % B ELSE q1
        r2 == IF r > q0 THEN (r + d) % B ELSE r
    IN  IF r2 >= d THEN [q |-> (q2 + 1) % B, r |-> r2 - d] ELSE [q |-> q2, r |-> r2]

\* The digits of d divided by the normalised digit "by", from the top down,
\* the remainder r of the digit above going into the next.
RECURSIVE DivideEach(_, _, _, _)
DivideEach(d, r, by, v) ==
    IF d = <<>> THEN [d |-> <<>>, r |-> r]
    ELSE LET top == DivideTwoByOne(r, d[Len(d)], by, v)
             rest == DivideEach(SubSeq(d, 1, Len(d) - 1), top.r, by, v)
         IN  [d |-> Append(rest.d, top.q), r |-> rest.r]

\* The halfdigit loop of bignum_digits_destructive_scale_down
RECURSIVE ScaleDownHalves(_, _, _)
ScaleDownHalves(d, k, by) ==
    IF d = <<>> THEN [d |-> <<>>, r |-> k]
    ELSE LET digit == d[Len(d)]
             high == Combine(k, Hi(digit))
             low == Combine(high % by, Lo(digit))
             rest == ScaleDownHalves(SubSeq(d, 1, Len(d) - 1), low % by, by)
         IN  [d |-> Append(rest.d, Combine(high \div by, low \div by)), r |-> rest.r]

\* bignum_digits_destructive_scale_down: by a halfdigit
ScaleDown(d, by) ==
    LET cnt == W - Ilen(by)
        norm == (by * 2^cnt) % B
        shifted == ShiftDigitsLeft(d, cnt)
        divided == DivideEach(shifted.d, shifted.carry, norm, Reciprocal(norm))
    IN  IF wide THEN [divided EXCEPT !.r = @ \div 2^cnt] ELSE ScaleDownHalves(d, 0, by)

\* bignum_remainder_unsigned_halfdigit
RECURSIVE RemainderHalfDigit(_, _, _)
RemainderHalfDigit(d, rem, by) ==
    IF d = <<>> THEN rem
    ELSE LET digit == d[Len(d)]
             high == Combine(rem, Hi(digit)) % by
         IN  RemainderHalfDigit(SubSeq(d, 1, Len(d) - 1), Combine(high, Lo(digit)) % by, by)

\* The refinement loop of the wide bignum_destructive_divide_normalized
RECURSIVE RefineWide(_, _, _, _, _)
RefineWide(qhat, rhat, vn1, vn2, next) ==
    IF qhat * vn2 <= rhat * B + next THEN qhat
    ELSE IF (rhat + vn1) % B < vn1 THEN qhat - 1
    ELSE RefineWide(qhat - 1, (rhat + vn1) % B, vn1, vn2, next)

\* The estimate of a quotient digit: u has one digit more than v, at its top.
EstimateWide(u, v) ==
    LET n == Len(v)
        ratio == DivideTwoByOne(u[n + 1], u[n], v[n], Reciprocal(v[n]))
        rhat == (u[n] + v[n]) % B
        high == (u[n + 1] - v[n] + (IF rhat < u[n] THEN 1 ELSE 0)) % B
    IN  CASE u[n + 1] >= v[n] /\ high # 0 -> B - 1
          [] u[n + 1] >= v[n] /\ high = 0 -> RefineWide(B - 1, rhat, v[n], v[n - 1], u[n - 1])
          [] OTHER -> RefineWide(ratio.q, ratio.r, v[n], v[n - 1], u[n - 1])

\* The two loops that refine the estimate of the halfdigit kernel
RECURSIVE RefineHalf(_, _, _, _, _)
RefineHalf(qhat, rhat, vn1, vn2, next) ==
    IF qhat >= Half \/ (qhat * vn2 > Combine(rhat, next) /\ rhat < Half)
    THEN RefineHalf(qhat - 1, rhat + vn1, vn1, vn2, next)
    ELSE qhat
EstimateHalf(u, v) ==
    LET n == Len(v)
        hat == Combine(u[n + 1], u[n])
    IN  RefineHalf(hat \div v[n], hat % v[n], v[n], v[n - 1], u[n - 1])

\* Multiply and subtract: u - qhat * v in base b, modulo the digits of u
RECURSIVE MultiplySubtract(_, _, _, _, _)
MultiplySubtract(u, v, qhat, carry, b) ==
    LET p == (IF v = <<>> THEN 0 ELSE qhat * Head(v)) + carry
        rl == (Head(u) - (p % b)) % b
    IN  IF v = <<>> THEN [d |-> <<rl>>, borrow |-> rl > Head(u)]
        ELSE LET rest == MultiplySubtract(Tail(u), Tail(v), qhat,
                             p \div b + (IF rl > Head(u) THEN 1 ELSE 0), b)
             IN  [rest EXCEPT !.d = <<rl>> \o @]

\* The carry of the top digit is lost.
RECURSIVE AddBackShort(_, _, _, _)
AddBackShort(u, v, carry, b) ==
    IF v = <<>> THEN u
    ELSE LET t == Head(u) + Head(v) + carry
         IN  <<t % b>> \o AddBackShort(Tail(u), Tail(v), t \div b, b)

\* Subtracted too much: add the divisor back, the carry cancels the borrow.
RECURSIVE AddBack(_, _, _, _)
AddBack(u, v, carry, b) ==
    IF v = <<>> THEN <<(Head(u) + carry) % b>>
    ELSE LET t == Head(u) + Head(v) + carry
         IN  <<t % b>> \o AddBack(Tail(u), Tail(v), t \div b, b)

\* The loop of bignum_destructive_divide_normalized: [q, r], r with the
\* length of u, which has at least one digit more than v.
RECURSIVE DivideNormalized(_, _, _)
DivideNormalized(u, v, b) ==
    IF Len(u) = Len(v) THEN [q |-> <<>>, r |-> u]
    ELSE LET j == Len(u) - Len(v)
             n == Len(v)
             window == SubSeq(u, j, Len(u))
             skip == window[n + 1] = 0 /\ window[n] = 0
             qhat == IF skip THEN 0
                     ELSE IF b = B THEN EstimateWide(window, v) ELSE EstimateHalf(window, v)
             sub == MultiplySubtract(window, v, qhat, 0, b)
             left == IF sub.borrow THEN AddBack(sub.d, v, 0, b) ELSE sub.d
             rest == DivideNormalized(SubSeq(u, 1, j - 1) \o SubSeq(left, 1, n), v, b)
         IN  [q |-> Append(rest.q, IF sub.borrow THEN qhat - 1 ELSE qhat),
              r |-> Append(rest.r, left[n + 1])]

\* The case of a single digit divisor: every estimate is exact
DivideByDigit(u, d) ==
    LET m == Len(u) - 1
        r == DivideEach(SubSeq(u, 1, m), u[m + 1], d, Reciprocal(d))
    IN  [q |-> r.d, r |-> <<r.r>> \o Zeroes(m)]

\* The halfdigit kernel, whose divisor may have lost its top halfdigit
DivideHalves(u, v) ==
    LET vh == Halves(v)
        n == IF vh[2 * Len(v)] = 0 THEN 2 * Len(v) - 1 ELSE 2 * Len(v)
        m == 2 * Len(u) - 2
        r == DivideNormalized(SubSeq(Halves(u), 1, m + 1), SubSeq(vh, 1, n), Half)
    IN  [q |-> Whole(r.q \o Zeroes((m + 1 - n) % 2)), r |-> Whole(Append(r.r, 0))]

\* bignum_divide_unsigned and bignum_destructive_divide_full
DivideUnsigned(nd, dd) ==
    LET nlz == W - Ilen(dd[Len(dd)])
        shift == IF ~wide /\ nlz >= W \div 2 THEN nlz - W \div 2 ELSE nlz
        u == ShiftDigitsLeft(nd \o <<0>>, shift).d
        v == ShiftDigitsLeft(dd, shift).d
        r == CASE wide /\ Len(v) = 1 -> DivideByDigit(u, v[1])
               [] wide /\ Len(v) > 1 -> DivideNormalized(u, v, B)
               [] OTHER -> DivideHalves(u, v)
    IN  [r EXCEPT !.r = ShiftDigitsRight(@, shift, FALSE).d]

\* bignum_destructive_divide_unsigned_small: by a halfdigit or a power of two
DivideSmall(x, y) ==
    LET absy == AbsValue(y.v)
        shift == Ilen(absy) - 1
        shifted == ShiftDigitsRight(x.d, shift, FALSE)
        scaled == ScaleDown(x.d, absy)
        r == IF PowerOfTwo(absy) THEN shifted.carry ELSE scaled.r
    IN  [q |-> Simplify((y.v < 0) # x.neg, IF PowerOfTwo(absy) THEN shifted.d ELSE scaled.d),
         r |-> Fix(IF x.neg THEN -r ELSE r)]

\* The remainder alone, of a bignum by such a fixnum
RemainderSmall(x, y) ==
    LET absy == AbsValue(y.v)
        r == IF PowerOfTwo(absy) THEN x.d[1] % absy ELSE RemainderHalfDigit(x.d, 0, absy)
    IN  Fix(IF x.neg THEN -r ELSE r)

RECURSIVE BignumDivRem(_, _), TwoByOne(_, _, _)

\* integer_divrem; wantq is FALSE when the caller passes NULL for q
IntegerDivRem(x, y, wantq) ==
    LET absy == AbsValue(y.v)
        small == IsHalfDigit(absy) \/ (PowerOfTwo(absy) /\ FitsFixnum(absy))
    IN  CASE IsFix(x) /\ ~IsFix(y) ->
               IF x.v = MostNegative /\ IntegerNegate(y) = x
               THEN [q |-> Fix(-1), r |-> Fix(0)]
               ELSE [q |-> Fix(0), r |-> x]
          [] ~IsFix(x) /\ ~IsFix(y) -> BignumDivRem(x, y)
          [] IsFix(x) /\ IsFix(y) ->
               LET q == (AbsValue(x.v) \div absy) * (IF (x.v < 0) # (y.v < 0) THEN -1 ELSE 1)
               IN  [q |-> OfWord(q), r |-> Fix(x.v - q * y.v)]
          [] OTHER ->
               CASE y.v = 1 -> [q |-> x, r |-> Fix(0)]
                 [] y.v = -1 -> [q |-> IntegerNegate(x), r |-> Fix(0)]
                 [] absy > 1 /\ small /\ wantq -> DivideSmall(x, y)
                 [] absy > 1 /\ small /\ ~wantq -> [q |-> Fix(0), r |-> RemainderSmall(x, y)]
                 [] OTHER -> BignumDivRem(x, FixToBig(y))

\* burnikel_ziegler_3n_div_2n: a12 and a3 by b = (b1:b2), all nonnegative
ThreeByTwo(a12, a3, b, b1, b2, n) ==
    LET size == n * W
        less == IntegerLess(ArithmeticShift(a12, -size), b1)
        clamped == IntegerMinus(ArithmeticShift(Fix(1), size), Fix(1))
        first == IF less THEN TwoByOne(a12, b1, n)
                 ELSE [q |-> clamped,
                       r |-> IntegerPlus(IntegerMinus(a12, ArithmeticShift(b1, size)), b1)]
        r1a3 == IntegerPlus(ArithmeticShift(first.r, size), a3)
        RECURSIVE Correct(_, _)
        Correct(qhat, rhat) ==
            IF IntegerNegative(rhat)
            THEN Correct(IntegerMinus(qhat, Fix(1)), IntegerPlus(rhat, b))
            ELSE [q |-> qhat, r |-> rhat]
    IN  Correct(first.q, IntegerMinus(r1a3, IntegerTimes(first.q, b2)))

\* burnikel_ziegler_2n_div_1n; b1 and b2 are the halves of b
TwoByOne(a, b, n) ==
    LET half == n \div 2
        b1 == ExtractFrom(b, half)
        b2 == ExtractDigits(b, 0, half)
        high == ThreeByTwo(ExtractFrom(a, n), ExtractDigits(a, half, n), b, b1, b2, half)
        low == ThreeByTwo(high.r, ExtractDigits(a, 0, half), b, b1, b2, half)
    IN  IF n % 2 = 1 \/ n < BurnikelZieglerThreshold \/ ~roomy THEN IntegerDivRem(a, b, TRUE)
        ELSE [q |-> IntegerPlus(ArithmeticShift(high.q, half * W), low.q), r |-> low.r]

\* bignum_divide_burnikel_ziegler: the blocks of x, from the top, by y
BurnikelZiegler(x, y) ==
    LET m == 2^Ilen(Size(y) \div BurnikelZieglerThreshold)
        n == ((Size(y) + m - 1) \div m) * m
        shift == W * n - IntegerLengthAbs(y)
        ax == ArithmeticShift(IntegerAbs(x), shift)
        ay == ArithmeticShift(IntegerAbs(y), shift)
        l0 == (Size(ax) + n) \div n
        l == Larger(IF W * l0 = IntegerLengthAbs(ax) THEN l0 + 1 ELSE l0, 2)
        RECURSIVE Blocks(_, _, _)
        Blocks(zi, quot, i) ==
            LET d == TwoByOne(zi, ay, n)
                q == IntegerPlus(ArithmeticShift(quot, n * W), d.q)
            IN  IF i = 0 THEN [q |-> q, r |-> d.r]
                ELSE Blocks(IntegerPlus(ExtractDigits(ax, n * (i - 1), n * i),
                                        ArithmeticShift(d.r, n * W)), q, i - 1)
        all == Blocks(ArithmeticShift(ax, -((l - 2) * n * W)), Fix(0), l - 2)
        rem == ArithmeticShift(all.r, -shift)
    IN  [q |-> IF x.neg # y.neg THEN IntegerNegate(all.q) ELSE all.q,
         r |-> IF x.neg THEN IntegerNegate(rem) ELSE rem]

\* bignum_divrem
BignumDivRem(x, y) ==
    LET d == DivideUnsigned(x.d, y.d)
    IN  CASE CompareDigits(x.d, y.d) = 0 ->
               [q |-> IF x.neg # y.neg THEN Fix(-1) ELSE Fix(1), r |-> Fix(0)]
          [] CompareDigits(x.d, y.d) = -1 -> [q |-> Fix(0), r |-> x]
          [] OTHER ->
               IF /\ roomy
                  /\ Size(y) > BurnikelZieglerThreshold
                  /\ Size(x) - Size(y) > BurnikelZieglerThreshold
               THEN BurnikelZiegler(x, y)
               ELSE [q |-> Simplify(x.neg # y.neg, d.q), r |-> Simplify(x.neg, d.r)]

\* C_s_a_u_i_integer_quotient and C_s_a_u_i_integer_remainder
IntegerQuotient(x, y) == IntegerDivRem(x, y, TRUE).q
IntegerRemainder(x, y) == IntegerDivRem(x, y, FALSE).r
=============================================================================
