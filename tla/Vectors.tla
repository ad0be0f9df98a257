-------------------------------- MODULE Vectors --------------------------------
(***************************************************************************)
(* Vectors of machine integers over one buffer of bytes, vectors of slots, *)
(* and locatives, which point into either.  A byte has ByteBits bits, and  *)
(* everything else follows in proportion: a word is eight bytes, a fixnum  *)
(* has a bit less than a word and its sign.                                *)
(***************************************************************************)
EXTENDS Integers, Sequences, FiniteSets

CONSTANTS
    ByteBits,           \* of a byte, 8 in the machine
    Floating            \* an argument that is no exact integer

Header == 8                                     \* sizeof(C_header)
Kinds == {"u8", "s8", "u16", "s16", "u32", "s32", "u64", "s64"}
Signed(kind) == kind \in {"s8", "s16", "s32", "s64"}
Width(kind) ==
    CASE kind \in {"u8", "s8"} -> 1
      [] kind \in {"u16", "s16"} -> 2
      [] kind \in {"u32", "s32"} -> 4
      [] kind \in {"u64", "s64", "slot"} -> 8
Power(bits) == 2 ^ bits
Bits(kind) == ByteBits * Width(kind)
WordBits == 8 * ByteBits

IsFixnum(x) == x # Floating /\ x \in -Power(WordBits - 2) .. Power(WordBits - 2) - 1
IsExact(x) == x # Floating

\* C_ilen of a number and of the complement of a negative one
ILen(n) == CHOOSE k \in 0 .. WordBits + 1 : n < Power(k) /\ (k = 0 \/ n >= Power(k - 1))
IntegerLength(n) == IF n < 0 THEN ILen(-1 - n) ELSE ILen(n)

\* Little-endian, and two's complement where the kind is signed.
ToBytes(n, width) == [k \in 1 .. width |-> (n \div Power(ByteBits * (k - 1))) % Power(ByteBits)]
RECURSIVE FromBytes(_)
FromBytes(bs) == IF bs = <<>> THEN 0 ELSE Head(bs) + Power(ByteBits) * FromBytes(Tail(bs))
Load(kind, bytes, at) ==
    LET n == FromBytes(SubSeq(bytes, at + 1, at + Width(kind)))
    IN  IF Signed(kind) /\ n >= Power(Bits(kind) - 1) THEN n - Power(Bits(kind)) ELSE n
Store(kind, bytes, at, n) ==
    SubSeq(bytes, 1, at) \o ToBytes(n, Width(kind)) \o SubSeq(bytes, at + Width(kind) + 1, Len(bytes))

\* What an operation answers: no error and a value, or an error and nothing done.
Reads(n) == [error |-> "none", value |-> n]
Error(kind) == [error |-> kind, value |-> 0]
Done(bytes) == [error |-> "none", bytes |-> bytes]
Failed(kind, bytes) == [error |-> kind, bytes |-> bytes]

\* The length is in whole elements: C_header_size(...) >> 1, 2 or 3.
Length(kind, bytes) == Len(bytes) \div Width(kind)
InVector(kind, bytes, i) == i >= 0 /\ i < Length(kind, bytes)

\* C_i_..vector_ref: the kind of the vector, the index, its range.
Ref(kind, of, bytes, i) ==
    CASE of # kind -> Error("type")
      [] of = kind /\ ~IsFixnum(i) -> Error("type")
      [] of = kind /\ IsFixnum(i) /\ ~InVector(kind, bytes, i) -> Error("bounds")
      [] OTHER -> Reads(Load(kind, bytes, i * Width(kind)))
NarrowRef(kind, of, bytes, i) == Ref(kind, of, bytes, i)    \* u8 s8 u16 s16
WideRef(kind, of, bytes, i) == Ref(kind, of, bytes, i)      \* u32 s32 u64 s64

\* The test before a number is stored.
InRange(kind, x) ==
    IF Signed(kind) THEN IntegerLength(x) <= Bits(kind) - 1 ELSE x >= 0 /\ ILen(x) <= Bits(kind)

\* C_i_..vector_set: the narrow ones take fixnums, the others exact integers.
Set(kind, of, bytes, i, x, accepted) ==
    CASE of # kind \/ ~IsFixnum(i) -> Failed("type", bytes)
      [] of = kind /\ IsFixnum(i) /\ ~InVector(kind, bytes, i) -> Failed("bounds", bytes)
      [] of = kind /\ IsFixnum(i) /\ InVector(kind, bytes, i) /\ ~accepted -> Failed("type", bytes)
      [] OTHER -> IF InRange(kind, x) THEN Done(Store(kind, bytes, i * Width(kind), x))
                  ELSE Failed("range", bytes)
NarrowSet(kind, of, bytes, i, x) == Set(kind, of, bytes, i, x, IsFixnum(x))
WideSet(kind, of, bytes, i, x) == Set(kind, of, bytes, i, x, IsExact(x))

VectorRef(kind, of, bytes, i) ==
    IF Width(kind) <= 2 THEN NarrowRef(kind, of, bytes, i) ELSE WideRef(kind, of, bytes, i)
VectorSet(kind, of, bytes, i, x) ==
    IF Width(kind) <= 2 THEN NarrowSet(kind, of, bytes, i, x) ELSE WideSet(kind, of, bytes, i, x)

\* C_i_vector_ref and C_i_vector_set; only the bytes are changed by the others
SlotRef(slots, i) ==
    CASE ~IsFixnum(i) -> Error("type")
      [] IsFixnum(i) /\ ~(i >= 0 /\ i < Len(slots)) -> Error("bounds")
      [] OTHER -> Reads(slots[i + 1])
SlotSet(slots, i, x) ==
    IF SlotRef(slots, i).error # "none" THEN Failed(SlotRef(slots, i).error, slots)
    ELSE Done([slots EXCEPT ![i + 1] = x])

\* Arguments of foreign functions: what fits in so many bits, C_unfix and all.
ForeignRanged(x, bits) ==
    CASE ~IsExact(x) -> "integer"
      [] IsExact(x) /\ IntegerLength(x) < bits -> "none"
      [] OTHER -> "limitation"
ForeignUnsigned(x, bits) ==
    CASE ~IsExact(x) -> "uinteger"
      [] IsExact(x) /\ x < 0 -> "uinteger"
      [] OTHER -> IF ILen(x) <= bits THEN "none" ELSE "limitation"

\* C_i_check_range_2
CheckRange(i, from, to) ==
    CASE ~IsFixnum(i) -> "type"
      [] IsFixnum(i) /\ (i < from \/ i >= to) -> "bounds"
      [] OTHER -> "none"

-----------------------------------------------------------------------------
(* A locative is a raw address, the offset of it in the object, and what   *)
(* it points to.  The address is 0 when a weak one has lost its object.    *)

MakeLocative(type, object, index, weak) ==
    LET offset == index * Width(type) + Header
    IN  [pointer |-> object + offset, offset |-> offset, type |-> type, weak |-> weak]
Lost(loc) == loc.pointer = 0

LocativeObject(loc) == IF Lost(loc) THEN 0 ELSE loc.pointer - loc.offset
LocativeIndex(loc) == (loc.offset - Header) \div Width(loc.type)

\* What a number is as a machine word: a negative bignum has no sign here.
Word(kind, x) == IF Signed(kind) \/ IsFixnum(x) \/ x >= 0 THEN x ELSE -x

\* The object at the address "object" has the slots or the bytes "data".
LocativeRef(loc, data, object) ==
    LET at == loc.pointer - object - Header
    IN  CASE Lost(loc) -> Error("lost")
          [] ~Lost(loc) /\ loc.type = "slot" -> Reads(data[at \div 8 + 1])
          [] OTHER -> Reads(Load(loc.type, data, at))
LocativeSet(loc, data, object, x) ==
    LET at == loc.pointer - object - Header
        accepted == IF Width(loc.type) <= 2 THEN IsFixnum(x) ELSE IsExact(x)
    IN  CASE Lost(loc) -> Failed("lost", data)
          [] ~Lost(loc) /\ loc.type = "slot" -> Done([data EXCEPT ![at \div 8 + 1] = x])
          [] ~Lost(loc) /\ loc.type # "slot" /\ ~accepted -> Failed("type", data)
          [] OTHER -> Done(Store(loc.type, data, at, Word(loc.type, x)))

\* update_locatives, for one whose object is now at another place, or is dead
UpdatedSame(loc, object) ==     \* a mutant: the offset is forgotten
    IF Lost(loc) THEN loc ELSE IF object = 0 THEN [loc EXCEPT !.pointer = 0]
    ELSE [loc EXCEPT !.pointer = object + Header]
Updated(loc, object) ==
    IF Lost(loc) THEN loc ELSE IF object = 0 THEN [loc EXCEPT !.pointer = 0]
    ELSE [loc EXCEPT !.pointer = object + loc.offset]
=============================================================================
