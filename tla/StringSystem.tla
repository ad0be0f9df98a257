----------------------------- MODULE StringSystem -----------------------------
(***************************************************************************)
(* A program that works on one string with every operation of Strings, in  *)
(* any order, and a sequence of bytes that grows, for what Utf8 says of    *)
(* all of them.  text is the string as the program means it.               *)
(***************************************************************************)
EXTENDS Strings

CONSTANTS
    Codes,          \* characters of the strings
    Others,         \* texts that are appended, compared with and read
    MaxText,        \* bound of the length of the text
    RawBytes, MaxRaw,   \* bytes, and how many, of the sequence
    Oddities        \* codes that are only encoded and decoded

VARIABLES s, text, clean, raw
stringVars == <<s, text, clean, raw>>

Empty == ListToString(<<>>)
StringInit == s = Empty /\ text = <<>> /\ clean = TRUE /\ raw = <<>>

\* Invalid bytes that may come to stand next to each other such that they are valid.
Invalid(codes, bs) == \E i \in DOMAIN codes : codes[i] - InvalidByte \in bs
Joinable(codes) == Invalid(codes, 128 .. 191) /\ Invalid(codes, 192 .. 255)
Part(i, j) == SubSeq(text, i + 1, j)

\* The string becomes t, and should be the text new; with bytes that may join
\* it cannot be, and the program stops.
Becomes(t, new) ==
    /\ Len(new) <= MaxText
    /\ s' = t /\ text' = new /\ clean' = ~Joinable(text \o new) /\ UNCHANGED raw

Places == 0 .. Len(text) - 1
Make ==
    /\ text = <<>>
    /\ \/ \E codes \in Others : Becomes(ListToString(codes), codes)
       \/ \E size \in 0 .. MaxText, c \in Codes : Becomes(MakeString(size, c), [k \in 1 .. size |-> c])
Ref == \E i \in Places : Becomes(SubChar(s, i).s, text)
Set == \E i \in Places, c \in Codes :
           Becomes(SetSubChar(s, i, c), [text EXCEPT ![i + 1] = c])
FillPart == \E i \in 0 .. Len(text), j \in 0 .. Len(text), c \in Codes :
           (i <= j \/ j = 0) /\ Becomes(Fill(s, c, i, j), [k \in DOMAIN text |-> IF k > i /\ k <= j THEN c ELSE text[k]])
Cut == \E i \in 0 .. Len(text), j \in 0 .. Len(text) :
           /\ i <= j
           /\ LET cut == Substring(s, i, j) IN Becomes(cut.s, text) \/ Becomes(cut.sub, Part(i, j))
Extend == \E codes \in Others : Becomes(Append2(s, ListToString(codes)), text \o codes)
Move == \E at \in Places, i \in 0 .. Len(text), j \in 0 .. Len(text) :
            /\ i <= j /\ at + j - i <= Len(text)
            /\ Becomes(MoveWithin(s, at, i, j),
                       [k \in DOMAIN text |-> IF k > at /\ k <= at + j - i THEN text[i + k - at] ELSE text[k]])
Recode == Becomes(BufferToString(s.bs), text)
Refold == Becomes(BufferToString(FoldcaseBytes(s.bs)), FlattenSeq([k \in DOMAIN text |-> Foldings(text[k])]))

\* read-string!.  What is remembered is wrong after bytes of another number
\* have replaced the characters before it.
Read ==
    \E codes \in Others, n \in 1 .. Len(text), i \in Places :
        LET in == EncodeAll(codes)
            read == ReadString(s, n, i, in)
            new == SubSeq(text, 1, i) \o SubSeq(codes, 1, read.chars)
                       \o SubSeq(text, i + read.chars + 1, Len(text))
        IN  /\ i + n <= Len(text)
            /\ s' = read.s /\ text' = new /\ UNCHANGED raw
            /\ clean' = /\ ~Joinable(text \o new) /\ ~Invalid(codes, 128 .. 255)
                        /\ Len(EncodeAll(new)) = Len(EncodeAll(text))

MoreBytes ==
    /\ s = Empty /\ Len(raw) < MaxRaw
    /\ \E b \in RawBytes : raw' = Append(raw, b)
    /\ UNCHANGED <<s, text, clean>>

StringStep ==
    \/ Make \/ Ref \/ Set \/ FillPart \/ Cut \/ Extend \/ Move \/ Recode \/ Refold \/ Read
StringNext == (raw = <<>> /\ clean /\ StringStep) \/ MoreBytes

-----------------------------------------------------------------------------
\* A string holds the characters the program has put into it, it knows how
\* many, and what it remembers of the last lookup is where that character is.
HoldsText ==
    /\ DecodeAll(s.bs) = text /\ s.count = Len(text)
    /\ s.index <= Len(text) /\ s.offset = Len(EncodeAll(SubSeq(text, 1, s.index)))
TextKept == clean => HoldsText

\* Every character and every part is found, wherever the last lookup was.
QueriesRight ==
    clean => /\ \A i \in Places :
                    SubChar(s, i).code = text[i + 1] /\ CharPosition(s.bs, Position(s, i)) = i
             /\ ListSize(text) = Len(s.bs)
             /\ \A i, j \in 0 .. Len(text) :
                    i <= j => LET cut == Substring(s, i, j)
                              IN  /\ DecodeAll(cut.sub.bs) = Part(i, j)
                                  /\ cut.room = Len(cut.sub.bs)

\* Comparing strings orders them as their codes are ordered, and comparing
\* them without case as string-foldcase of them is, also where one character
\* is folded to several.
Sign(n) == IF n = 0 THEN 0 ELSE IF n < 0 THEN -1 ELSE 1
RECURSIVE Order(_, _)
Order(x, y) ==
    IF x = <<>> \/ y = <<>> THEN Sign(Len(x) - Len(y))
    ELSE IF Head(x) # Head(y) THEN Sign(Head(x) - Head(y)) ELSE Order(Tail(x), Tail(y))
ComparisonsRight ==
    clean => \A codes \in Others :
        LET t == ListToString(codes)
            n == IF Len(codes) < Len(text) THEN Len(codes) ELSE Len(text)
        IN  /\ Sign(CompareStrings(s, t, 0, 0, n)) = Order(SubSeq(text, 1, n), SubSeq(codes, 1, n))
            /\ \A i \in Places :
                   codes # <<>> => Sign(CompareStrings(s, t, i, 0, 1)) = Sign(text[i + 1] - codes[1])
            /\ EqualStrings(s, t) <=> text = codes
            /\ EqualStringsCi(s, t) <=> DecodeAll(FoldcaseBytes(s.bs)) = DecodeAll(FoldcaseBytes(t.bs))
            /\ Sign(CompareStringsCi(s, t)) = Order(DecodeAll(FoldcaseBytes(s.bs)), DecodeAll(FoldcaseBytes(t.bs)))

\* What the buffers of string-upcase, -downcase and -foldcase have room for.
CaseFits ==
    LET n == Len(s.bs)
    IN  clean => /\ Len(UpcaseBytes(s.bs)) <= 2 * n /\ Len(DowncaseBytes(s.bs)) <= 2 * n
                 /\ Len(FoldcaseBytes(s.bs)) <= 3 * n

\* The counters that look at bytes agree with the decoder on any bytes, and
\* decoding and encoding any bytes gives the same bytes again.
CountersAgree ==
    LET codes == DecodeAll(raw)
        n == Len(raw)
        valid == \A i \in DOMAIN codes : codes[i] \notin InvalidByte .. InvalidByte + 255
        fc == Fragments[raw, 0, n, 0]
    IN  /\ EncodeAll(codes) = raw
        /\ Count[raw, 0, n] = Len(codes)
        /\ Validate[raw, 0, n, 0] = IF valid THEN Len(codes) ELSE -1
        /\ valid => FastCount(raw) = Len(codes) /\ fc = [full |-> Len(codes), left |-> 0]
        /\ \A m \in 0 .. n : valid /\ Validate[raw, 0, m, 0] = -1 =>
               Fragments[raw, 0, m, 0].left \in 1 .. n - m
        /\ UtfToLatin(LatinToUtf(raw)) = raw

\* The manual: "Code points from 0xDC80 to 0xDCFF are not allowed and used to
\* mark invalid UTF-8 bytes in strings": others are what they are.
EveryCodeIsKept == \A c \in Oddities : DecodeAll(Encode(c)) = <<c>>

\* The manual of read-string!: "the read characters are stored starting at
\* that position", and nothing else is changed.
ReadKeepsText == HoldsText \/ Invalid(text, 128 .. 255)
=============================================================================
