--------------------------------- MODULE Utf8 ---------------------------------
(***************************************************************************)
(* The encoding of utf.c.  A byte that is part of no valid sequence is a   *)
(* character too, the trailing surrogate 16#DC00 + byte, and is written    *)
(* back as the byte it was.  Bytes are sequences of numbers, positions     *)
(* count from 0, and what is read behind the end is zero.                  *)
(***************************************************************************)
EXTENDS Integers, Sequences, SequencesExt

CONSTANTS
    Lowermap, Uppermap,     \* the tables of one to one mappings: code to code
    Fold1, Fold2            \* foldings to one code, and to two or three codes

InvalidByte == 56320                            \* 16#DC00
Byte(bs, p) == IF p < Len(bs) THEN bs[p + 1] ELSE 0
Slice(bs, from, to) == SubSeq(bs, from + 1, to)
Tail80(b) == b \in 128 .. 191                   \* (b & 16#c0) == 16#80

\* The table "lengths", by the five high bits of the first byte.
Lengths(b) ==
    CASE b < 128 -> 1
      [] b \in 192 .. 223 -> 2
      [] b \in 224 .. 239 -> 3
      [] b \in 240 .. 247 -> 4
      [] OTHER -> 0
Mins == <<0, 128, 2048, 65536>>

\* utf8_decode: the code, the position behind it, and whether it was invalid.
Low6(b) == b % 64
Combined(bs, p, len) ==
    CASE len = 1 -> Byte(bs, p)
      [] len = 2 -> 64 * (Byte(bs, p) % 32) + Low6(Byte(bs, p + 1))
      [] len = 3 -> 4096 * (Byte(bs, p) % 16) + 64 * Low6(Byte(bs, p + 1)) + Low6(Byte(bs, p + 2))
      [] len = 4 -> 262144 * (Byte(bs, p) % 8) + 4096 * Low6(Byte(bs, p + 1))
                        + 64 * Low6(Byte(bs, p + 2)) + Low6(Byte(bs, p + 3))
Decode(bs, p) ==
    LET len == Lengths(Byte(bs, p))
        c == Combined(bs, p, len)
        valid == /\ len > 0
                 /\ c >= Mins[len] /\ c \div 2048 # 27 /\ c <= 1114111
                 /\ \A i \in 1 .. len - 1 : Tail80(Byte(bs, p + i))
    IN  IF valid THEN [code |-> c, next |-> p + len, err |-> FALSE]
        ELSE [code |-> InvalidByte + Byte(bs, p), next |-> p + 1, err |-> TRUE]

\* utf8_encode.  The test for the surrogates looks at 16 bits of the code only.
EncodeExact(u) ==               \* as it would be if it looked at all of them
    CASE u < 128 -> <<u>>
      [] u \div 256 = 220 -> <<u % 256>>
      [] u >= 128 /\ u < 2048 -> <<192 + u \div 64, 128 + Low6(u)>>
      [] u >= 2048 /\ u < 65536 /\ u \div 256 # 220 ->
             <<224 + u \div 4096, 128 + Low6(u \div 64), 128 + Low6(u)>>
      [] u >= 65536 /\ u < 1114112 ->
             <<240 + u \div 262144, 128 + Low6(u \div 4096), 128 + Low6(u \div 64), 128 + Low6(u)>>
      [] OTHER -> <<>>
Encode(u) == IF (u \div 256) % 256 = 220 THEN <<u % 256>> ELSE EncodeExact(u)

DecodeUntil[bs \in Seq(Nat), p \in Nat, end \in Nat] ==
    IF p >= end THEN <<>>
    ELSE LET d == Decode(bs, p) IN <<d.code>> \o DecodeUntil[bs, d.next, end]
DecodeAll(bs) == DecodeUntil[bs, 0, Len(bs)]
EncodeAll(codes) == FlattenSeq([i \in DOMAIN codes |-> Encode(codes[i])])

-----------------------------------------------------------------------------
(* Counting, which does not decode.                                        *)

\* The advance of C_utf_count, by the conditions that its comment derives.
AdvanceLoose(bs, p) ==          \* a mutant: the lead byte alone decides
    IF Lengths(Byte(bs, p)) = 0 THEN 1 ELSE Lengths(Byte(bs, p))
Advance(bs, p) ==
    LET b == Byte(bs, p)
        s1 == Byte(bs, p + 1)
        n == Lengths(b)
        short == CASE n = 2 -> b < 194 \/ ~Tail80(s1)
                   [] n = 3 -> ~Tail80(s1) \/ ~Tail80(Byte(bs, p + 2))
                                   \/ (b = 224 /\ s1 < 160) \/ (b = 237 /\ s1 >= 160)
                   [] n = 4 -> ~Tail80(s1) \/ ~Tail80(Byte(bs, p + 2)) \/ ~Tail80(Byte(bs, p + 3))
                                   \/ (b = 240 /\ s1 < 144) \/ b > 244 \/ (b = 244 /\ s1 >= 144)
                   [] OTHER -> TRUE
    IN  IF b < 128 \/ short THEN 1 ELSE n

Count[bs \in Seq(Nat), p \in Nat, end \in Nat] ==
    IF p >= end THEN 0 ELSE 1 + Count[bs, p + Advance(bs, p), end]

\* C_utf_validate, -1 for #f
Validate[bs \in Seq(Nat), p \in Nat, end \in Nat, n \in Nat] ==
    IF p >= end THEN n
    ELSE IF Tail80(Byte(bs, p)) \/ Lengths(Byte(bs, p)) > end - p \/ Decode(bs, p).err THEN -1
    ELSE Validate[bs, Decode(bs, p).next, end, n + 1]

\* C_utf_fast_count, which trusts the string
FastCount(bs) == Len(SelectSeq(bs, LAMBDA b : ~Tail80(b)))

\* C_utf_fragment_counts: whole characters, and the bytes the last one lacks.
Expect(b) == IF Lengths(b) = 0 THEN 1 ELSE Lengths(b)
Fragments[bs \in Seq(Nat), p \in Nat, count \in Nat, full \in Nat] ==
    LET n == Expect(Byte(bs, p))
    IN  IF count = 0 THEN [full |-> full, left |-> 0]
        ELSE IF count >= n THEN Fragments[bs, p + n, count - n, full + 1]
        ELSE [full |-> full, left |-> n - count]

\* C_utf_char_position: how many characters a decoder meets in so many bytes.
CharPosition(bs, pos) ==
    LET DecodedTo[p \in Nat, n \in Nat] ==
            IF p >= pos THEN n ELSE DecodedTo[Decode(bs, p).next, n + 1]
    IN  DecodedTo[0, 0]

\* C_utf_list_size, and C_utf_fill of a fresh buffer of so many bytes
ListSize(codes) == FoldLeft(LAMBDA n, c : n + Len(Encode(c)), 0, codes)
FillBytes(size, code) ==
    FlattenSeq([k \in 1 .. size \div Len(Encode(code)) |-> Encode(code)])

-----------------------------------------------------------------------------
(* Case, and Latin-1.                                                      *)

Mapped(code, map) == IF code \in DOMAIN map THEN map[code] ELSE code
MapValid(bs, map) ==            \* C_utf_string_upcase, C_utf_string_downcase
    LET codes == DecodeAll(bs) IN EncodeAll([i \in DOMAIN codes |-> Mapped(codes[i], map)])
UpcaseBytes(bs) == MapValid(bs, Uppermap)
DowncaseBytes(bs) == MapValid(bs, Lowermap)

Foldings(code) ==               \* the row of fold2, or of fold1, or the code
    IF code \in DOMAIN Fold2 THEN Fold2[code] ELSE <<Mapped(code, Fold1)>>
FoldcaseBytes(bs) ==            \* C_utf_string_foldcase
    LET codes == DecodeAll(bs)
    IN  EncodeAll(FlattenSeq([i \in DOMAIN codes |-> Foldings(codes[i])]))

LatinToUtf(bs) == EncodeAll(bs)
UtfToLatin(bs) ==               \* <<>> for the error C_encoding_error raises
    LET codes == DecodeAll(bs)
    IN  IF \E i \in DOMAIN codes : codes[i] > 255 THEN <<-1>> ELSE codes

(***************************************************************************)
(* C_utf_compare_ci: every string has a buffer of the foldings of its      *)
(* next character, refilled when it is empty; where both are empty and     *)
(* both next bytes are ASCII, these are compared at once.                  *)
(***************************************************************************)
Lookahead(bs, p, n) == [bs |-> bs, p |-> p, n |-> n, b |-> <<>>]
MoreToCome(f) == f.n > 0 \/ f.b # <<>>
AsciiLower(b) == IF b \in 65 .. 90 THEN b + 32 ELSE b
Refilled(f) ==
    IF f.b # <<>> THEN f
    ELSE LET d == Decode(f.bs, f.p)
         IN  [f EXCEPT !.p = d.next, !.n = @ - 1, !.b = Foldings(d.code)]

RECURSIVE CompareFolded(_, _)
CompareFolded(f, g) ==
    LET r1 == Byte(f.bs, f.p)
        r2 == Byte(g.bs, g.p)
        x == Refilled(f)
        y == Refilled(g)
        skip(h) == [h EXCEPT !.p = @ + 1, !.n = @ - 1]
        popped(h) == [h EXCEPT !.b = Tail(@)]
    IN  IF ~(MoreToCome(f) /\ MoreToCome(g)) THEN (f.n + Len(f.b)) - (g.n + Len(g.b))
        ELSE IF r1 < 128 /\ r2 < 128 /\ f.b = <<>> /\ g.b = <<>>
             THEN IF AsciiLower(r1) # AsciiLower(r2) THEN AsciiLower(r1) - AsciiLower(r2)
                  ELSE CompareFolded(skip(f), skip(g))
        ELSE IF Head(x.b) # Head(y.b) THEN Head(x.b) - Head(y.b)
        ELSE CompareFolded(popped(x), popped(y))

\* The first loop of C_utf_compare, over bytes, and the second, over codes.
RECURSIVE CompareCodes(_, _, _, _, _)
CompareCodes(bs, p, cs, q, n) ==
    LET c == Decode(bs, p)
        d == Decode(cs, q)
    IN  IF n = 0 THEN 0
        ELSE IF c.code # d.code THEN c.code - d.code
        ELSE CompareCodes(bs, c.next, cs, d.next, n - 1)
RECURSIVE CompareBytes(_, _, _, _, _)
CompareBytes(bs, p, cs, q, n) ==
    LET b == Byte(bs, p)
        c == Byte(cs, q)
    IN  IF n <= 0 \/ b >= 128 \/ c >= 128 THEN CompareCodes(bs, p, cs, q, n)
        ELSE IF b # c THEN b - c
        ELSE CompareBytes(bs, p + 1, cs, q + 1, n - 1)
=============================================================================
