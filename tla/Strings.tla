-------------------------------- MODULE Strings --------------------------------
(***************************************************************************)
(* Strings of utf.c and library.scm: a bytevector, the number of its       *)
(* characters, and the index and byte offset of the character that was     *)
(* looked up last, from which the next lookup goes on when it can.         *)
(***************************************************************************)
EXTENDS Utf8

Ustring(bs, count) == [bs |-> bs, count |-> count, index |-> 0, offset |-> 0]   \* C_a_ustring
Remember(s, i, p) == [s EXCEPT !.index = i, !.offset = p]
Found(s, i, p) == [s |-> Remember(s, i, p), p |-> p]

\* utf_index1: a scan from what is remembered, or from the start; p = -1 is NULL.
RECURSIVE Scan(_, _, _, _)
Scan(s, i, index, p) ==
    IF index > s.count THEN [s |-> s, p |-> -1]
    ELSE IF index = i THEN Found(s, i, p)
    ELSE Scan(s, i, index + 1, Decode(s.bs, p).next)
Index(s, i) ==
    IF i = 0 THEN Found(s, 0, 0)
    ELSE IF Len(s.bs) = s.count THEN Found(s, i, i)
    ELSE IF i >= s.index THEN Scan(s, i, s.index, s.offset) ELSE Scan(s, i, 0, 0)

\* C_utf_subchar, C_utf_position
SubChar(s, i) == LET at == Index(s, i) IN [s |-> at.s, code |-> Decode(s.bs, at.p).code]
Position(s, i) == Index(s, i).p

Spliced(s, from, to, bs) ==
    [s EXCEPT !.bs = Slice(@, 0, from) \o bs \o Slice(@, to, Len(@))]

\* C_utf_setsubchar: a longer buffer, a shorter one, or the same.
SetSubCharNext(s, i, code) ==   \* a mutant: it remembers the character behind
    LET at == Index(s, i)
        old == Decode(s.bs, at.p)
    IN  Remember(Spliced(at.s, at.s.offset, old.next, Encode(code)), i + 1, old.next)
SetSubChar(s, i, code) ==
    LET at == Index(s, i)
        old == Decode(s.bs, at.p)
    IN  Spliced(at.s, at.s.offset, old.next, Encode(code))

\* C_utf_overwrite: len characters from i on become the bytes bs, if there are any.
Overwrite(s, i, len, bs) ==
    LET from == Index(s, i)
        to == Index(from.s, i + len)
    IN  IF bs = <<>> THEN to.s ELSE Spliced(to.s, from.p, to.p, bs)

\* C_utf_range, which remembers start, and what ##sys#substring makes of it.
Range2(s, start, end) ==
    LET from == Index(s, start)
        to == Index(from.s, end)
    IN  [s |-> Remember(to.s, from.s.index, from.s.offset), bytes |-> to.p - from.p]
Substring(s, start, end) ==
    LET range == Range2(s, start, end)
        from == Index(range.s, start)                       \* C_utf_copy
        to == Index(from.s, end)
    IN  [s |-> to.s, sub |-> Ustring(Slice(s.bs, from.p, to.p), end - start), room |-> range.bytes]

CompareStrings(s, t, i, j, n) ==                            \* C_utf_compare
    CompareBytes(s.bs, Position(s, i), t.bs, Position(t, j), n)
CompareStringsCi(s, t) ==                                   \* C_utf_compare_ci
    CompareFolded(Lookahead(s.bs, 0, s.count), Lookahead(t.bs, 0, t.count))

-----------------------------------------------------------------------------
(* library.scm                                                             *)

EqualStrings(s, t) == s.bs = t.bs                           \* C_utf_equal
EqualStringsCi(s, t) == CompareStringsCi(s, t) = 0          \* C_utf_equal_ci
MakeString(size, code) == Ustring(FillBytes(size * Len(Encode(code)), code), size)
ListToString(codes) == Ustring(EncodeAll(codes), Len(codes))
BufferToString(bs) == Ustring(bs, Count[bs, 0, Len(bs)])
Append2(s, t) == Ustring(s.bs \o t.bs, s.count + t.count)

RECURSIVE SetEach(_, _, _)
SetEach(s, is, codes) ==
    IF is = <<>> THEN s ELSE SetEach(SetSubChar(s, Head(is), Head(codes)), Tail(is), Tail(codes))
Upto(start, end) == [k \in 1 .. (IF end > start THEN end - start ELSE 0) |-> start + k - 1]

\* string-fill!
Fill(s, code, start, end) ==
    LET n == IF end > start THEN end - start ELSE 0
    IN  IF Len(s.bs) = s.count /\ code < 128
        THEN Spliced(s, start, start + n, [k \in 1 .. n |-> code])
        ELSE SetEach(s, Upto(start, end), [k \in 1 .. n |-> code])

\* string-copy! of a string onto itself, from the end when it moves up
RECURSIVE MoveEach(_, _, _)
MoveEach(s, to, from) ==
    IF to = <<>> THEN s
    ELSE LET got == SubChar(s, Head(from))
         IN  MoveEach(SetSubChar(got.s, Head(to), got.code), Tail(to), Tail(from))
MoveWithin(s, at, start, end) ==
    LET to == Upto(at, at + end - start)
        from == Upto(start, end)
    IN  IF start < at THEN MoveEach(s, Reverse(to), Reverse(from)) ELSE MoveEach(s, to, from)

(***************************************************************************)
(* read-string!/port in UTF-8, from a port that has the bytes "in" and     *)
(* then ends: n characters wanted, and of the bytes read so far "un"       *)
(* characters and "bn" bytes counted.                                      *)
(***************************************************************************)
RECURSIVE ReadLoop(_, _, _, _, _)
RECURSIVE Recount(_, _, _, _, _, _)
ReadLoop(in, p, n, un, bn) ==
    LET bytes == IF n < Len(in) - p THEN n ELSE Len(in) - p
    IN  IF bytes = 0 THEN [chars |-> un, bytes |-> bn] ELSE Recount(in, p, n, un, bn, bytes)
Recount(in, p, n, un, bn, bytes) ==
    LET fc == Fragments[in, p, bytes, 0]
        rest == Len(in) - p - bytes
    IN  IF fc.left > rest THEN [chars |-> un + fc.full, bytes |-> bn + bytes]
        ELSE IF fc.left > 0 THEN Recount(in, p, n, un, bn, bytes + fc.left)
        ELSE IF n = fc.full THEN [chars |-> un + fc.full, bytes |-> bn + bytes]
        ELSE ReadLoop(in, p + bytes, n - fc.full, un + fc.full, bn + bytes)

ReadString(s, n, start, in) ==
    LET read == ReadLoop(in, 0, n, 0, 0)
    IN  [s |-> Overwrite(s, start, read.chars, Slice(in, 0, read.bytes)),
         chars |-> read.chars, bytes |-> read.bytes]
=============================================================================
