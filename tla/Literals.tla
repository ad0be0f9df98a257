-------------------------------- MODULE Literals --------------------------------
(***************************************************************************)
(* Constants of compiled code: encode-literal of c-backend.scm writes an   *)
(* object down as a row of bytes, C_decode_literal of runtime.c builds it  *)
(* again when the unit is entered, in the words that literal-size has      *)
(* reserved.  Sizes have three digits of base Base, fixnums four (the      *)
(* code: 256); what a number's digits mean is modelled in Bignums.         *)
(*                                                                         *)
(* An object is [kind, n, parts]: n is the value of an immediate or the    *)
(* row of bytes of a byteblock, parts are the slots of a block.            *)
(***************************************************************************)
EXTENDS Integers, Sequences, SequencesExt, TLC

CONSTANTS Base, WordsPerFlonum
ASSUME LiteralAssumption == Base \in Nat \ {0, 1} /\ WordsPerFlonum \in Nat

\* The byte of the header that says what a block is, and the marks of the format.
Bits == [symbol |-> 1, keyword |-> 1, string |-> 2, pair |-> 3, structure |-> 8, vector |-> 0,
         bytevector |-> 80, flonum |-> 85, lambdainfo |-> 77, integer |-> 208, ratnum |-> 12,
         cplxnum |-> 14]
Marks == [boolean |-> 6, char |-> 10, null |-> 14, void |-> 30, eof |-> 62, fixnum |-> 1]
Magic == 254
Special == 255
\* The numbers that are written as a block of two others.
Fractions == {"ratnum", "cplxnum"}
Blocks == {"pair", "structure", "vector"} \cup Fractions
Constants == {"null", "void", "eof"}

Digit(n, i) == (n \div Base^i) % Base
BigFixnum(n) == n >= Base^4 \div 4 \/ n < -(Base^4 \div 4)

\* encode-literal; the size of a block must have three digits, or the compiler quits.
Refused == <<"refused">>
EncodedSize(n) == <<Digit(n, 2), Digit(n, 1), Digit(n, 0)>>
Fits(n) == n < Base^3
HexDigits(n) == LET size == CHOOSE i \in 1 .. 8 : 16^i > n /\ (i = 1 \/ 16^(i - 1) <= n)
                IN  [i \in 1 .. size |-> (n \div 16^(size - i)) % 16]
Minus == 45
HexText(n) == IF n < 0 THEN <<Minus>> \o HexDigits(-n) ELSE HexDigits(n)
Sized(kind, bytes, mark) ==
    IF Fits(Len(bytes)) THEN <<Magic, Bits[kind]>> \o EncodedSize(Len(bytes)) \o mark \o bytes ELSE Refused
RECURSIVE Encode(_)
Encode(lit) ==
    CASE lit.kind = "fixnum" /\ ~BigFixnum(lit.n[1]) ->
             <<Magic, Special, Marks.fixnum>> \o [i \in 1 .. 4 |-> Digit(lit.n[1], 4 - i)]
      [] lit.kind = "boolean" -> <<Magic, Special, Marks.boolean>> \o lit.n
      [] lit.kind = "char" ->
             IF Fits(lit.n[1]) THEN <<Magic, Special, Marks.char>> \o EncodedSize(lit.n[1]) ELSE Refused
      [] lit.kind \in Constants -> <<Magic, Special, Marks[lit.kind]>>
      [] lit.kind = "integer" \/ (lit.kind = "fixnum" /\ BigFixnum(lit.n[1])) ->
             Sized("integer", HexText(lit.n[1]), <<>>)
      [] lit.kind = "flonum" -> <<Magic, Bits.flonum>> \o lit.n \o <<0>>
      [] lit.kind = "symbol" -> Sized("symbol", lit.n, <<1>>)
      [] lit.kind = "keyword" -> Sized("keyword", lit.n, <<2>>)
      [] lit.kind = "string" -> Sized("string", lit.n \o <<0>>, <<>>)
      [] lit.kind \in {"bytevector", "lambdainfo"} -> Sized(lit.kind, lit.n, <<>>)
      [] lit.kind \in Blocks ->
             LET codes == [i \in DOMAIN lit.parts |-> Encode(lit.parts[i])]
             IN  IF Fits(Len(codes)) /\ \A i \in DOMAIN codes : codes[i] # Refused
                 THEN <<Magic, Bits[lit.kind]>> \o EncodedSize(Len(codes)) \o FlattenSeq(codes)
                 ELSE Refused

\* literal-size: words to reserve.  Of a ratnum or a cplxnum the header is not
\* counted.
RECURSIVE LiteralSize(_)
LiteralSize(lit) ==
    LET OfParts == FoldLeft(LAMBDA n, part : n + LiteralSize(part), 0, lit.parts)
    IN  CASE lit.kind = "fixnum" -> IF BigFixnum(lit.n[1]) THEN 2 ELSE 0
          [] lit.kind \in {"boolean", "char", "lambdainfo"} \cup Constants -> 0
          [] lit.kind = "integer" -> 2
          [] lit.kind = "flonum" -> WordsPerFlonum
          [] lit.kind = "string" -> 5
          [] lit.kind \in {"symbol", "keyword"} -> 7
          [] lit.kind = "bytevector" -> 2 + (Len(lit.n) + 7) \div 8
          [] lit.kind \in Fractions -> Len(lit.parts) + OfParts
          [] lit.kind = "pair" -> 3 + OfParts
          [] lit.kind = "vector" -> 1 + Len(lit.parts) + OfParts
          [] lit.kind = "structure" -> 2 + Len(lit.parts) + OfParts

-----------------------------------------------------------------------------
\* C_decode_literal.  A decoder is at byte pos, has used words of the heap,
\* and has filled the slots of blocks; val is the object just decoded and
\* last the slot of it that is still empty, or 0.
Leaf(kind, n) == [kind |-> kind, n |-> n, parts |-> <<>>]
Panic == [kind |-> "panic", n |-> <<>>, parts |-> <<>>]
DecodeSize(code, pos) == code[pos] * Base^2 + code[pos + 1] * Base + code[pos + 2]
SignedCharLoose(digit) == digit     \* a mutant: an unsigned char
SignedChar(digit) == IF digit >= Base \div 2 THEN digit - Base ELSE digit
KindOf(bits) == CHOOSE k \in DOMAIN Bits : Bits[k] = bits /\ k # "keyword"
ConstantOf(mark) == CHOOSE k \in Constants : Marks[k] = mark
FromHex(text) ==
    LET digits == SelectSeq(text, LAMBDA d : d # Minus)
        n == FoldLeft(LAMBDA m, d : 16 * m + d, 0, digits)
    IN  IF text # <<>> /\ text[1] = Minus THEN -n ELSE n
Simplified(n) == IF n \in -(2^12) .. 2^12 - 1 THEN Leaf("fixnum", <<n>>) ELSE Leaf("integer", <<n>>)

\* A slot is <<address of the block, index>>; toplevel is decoded into none.
NoSlot == <<0, 0>>
Done(d, val, pos, words) == [d EXCEPT !.val = val, !.pos = pos, !.words = @ + words, !.last = NoSlot]
DecodeSpecial(code, d) ==
    LET mark == code[d.pos + 2]
        at == d.pos + 3
    IN  CASE mark = Marks.boolean -> Done(d, Leaf("boolean", <<code[at]>>), at + 1, 0)
          [] mark = Marks.char -> Done(d, Leaf("char", <<DecodeSize(code, at)>>), at + 3, 0)
          [] mark = Marks.fixnum ->
                 LET n == SignedChar(code[at]) * Base^3 + DecodeSize(code, at + 1)
                 IN  Done(d, Leaf("fixnum", <<n>>), at + 4, 0)
          [] mark \in {Marks[k] : k \in Constants} -> Done(d, Leaf(ConstantOf(mark), <<>>), at, 0)
DecodeFlonum(code, d) ==
    LET end == CHOOSE i \in d.pos + 2 .. Len(code) : code[i] = 0 /\ \A j \in d.pos + 2 .. i - 1 : code[j] # 0
    IN  Done(d, Leaf("flonum", SubSeq(code, d.pos + 2, end - 1)), end + 1, WordsPerFlonum)
DecodeBytes(code, d, kind, dest) ==
    LET size == DecodeSize(code, d.pos + 2)
        at == d.pos + 5
        text == SubSeq(code, at, at + size - 1)
    IN  CASE kind = "integer" -> Done(d, Simplified(FromHex(text)), at + size, 2)
          [] kind = "string" -> Done(d, Leaf("string", SubSeq(text, 1, size - 1)), at + size, 5)
          [] kind \in {"bytevector", "lambdainfo"} -> Done(d, Leaf(kind, text), at + size, 0)
          [] kind = "symbol" ->
                 IF dest = NoSlot THEN Done(d, Panic, at, 0)
                 ELSE Done(d, Leaf(IF code[at] = 1 THEN "symbol" ELSE "keyword",
                                   SubSeq(code, at + 1, at + size)), at + 1 + size, 7)

\* decode_literal1 leaves the last slot of a block to its caller, decode_literal2.
RECURSIVE Decode1(_, _, _), Decode2(_, _, _), Remaining(_, _), Slots(_, _, _, _)
Decode2(code, d, dest) == Remaining(code, Decode1(code, d, dest))
Remaining(code, d) ==
    IF d.last = NoSlot THEN d
    ELSE LET next == Decode1(code, d, d.last)
         IN  [Remaining(code, [next EXCEPT !.slots = (d.last :> next.val) @@ @]) EXCEPT !.val = d.val]
Slots(code, d, block, rest) ==
    IF \A i, j \in rest : i = j
    THEN [d EXCEPT !.last = IF rest = {} THEN NoSlot ELSE <<block, CHOOSE i \in rest : TRUE>>]
    ELSE LET i == CHOOSE i \in rest : \A j \in rest : i <= j
             next == Decode2(code, d, <<block, i>>)
         IN  Slots(code, [next EXCEPT !.slots = (<<block, i>> :> next.val) @@ @], block, rest \ {i})
Decode1(code, d, dest) ==
    IF code[d.pos] # Magic THEN Done(d, Panic, d.pos, 0)
    ELSE IF code[d.pos + 1] = Special THEN DecodeSpecial(code, d)
    ELSE LET kind == KindOf(code[d.pos + 1])
             size == DecodeSize(code, d.pos + 2)
             address == d.words + 1
             block == [kind |-> kind, n |-> <<address, size>>, parts |-> <<>>]
         IN  IF kind = "flonum" THEN DecodeFlonum(code, d)
             ELSE IF kind \in Blocks
             THEN [Slots(code, Done(d, block, d.pos + 5, size + 1), address, 1 .. size) EXCEPT !.val = block]
             ELSE DecodeBytes(code, d, kind, dest)

\* What the words of the heap say the object is.
RECURSIVE Built(_, _)
Built(slots, val) ==
    IF val.kind \notin Blocks THEN val
    ELSE [kind |-> val.kind, n |-> <<>>,
          parts |-> [i \in 1 .. val.n[2] |-> Built(slots, slots[<<val.n[1], i>>])]]
Decode(code) ==
    LET d == Decode2(code, [pos |-> 1, words |-> 0, slots |-> <<>>, val |-> Panic, last |-> NoSlot], NoSlot)
    IN  [object |-> Built(d.slots, d.val), pos |-> d.pos, words |-> d.words]
=============================================================================
