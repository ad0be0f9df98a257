----------------------------- MODULE VectorSystem -----------------------------
(***************************************************************************)
(* A program with a buffer of bytes, seen as a vector of every kind (the   *)
(* .../shared conversions of srfi-4.scm), a vector of slots, and one       *)
(* locative, while the collector moves things.                             *)
(***************************************************************************)
EXTENDS Vectors

CONSTANTS
    Bytes,              \* the buffer at the start
    Numbers,            \* arguments
    Addresses,          \* where the two objects can be
    MaxWrites           \* bound of the writes

VARIABLES buffer, slots, where, loc, aim, writes
vectorVars == <<buffer, slots, where, loc, aim, writes>>

NoLocative == [pointer |-> 0, offset |-> Header, type |-> "u8", weak |-> FALSE]
NoAim == [type |-> "none", index |-> 0]         \* what the locative is meant to be
VectorInit ==
    /\ buffer = Bytes /\ slots = <<Floating, 0>> /\ writes = 0
    /\ where = [buffer |-> CHOOSE a \in Addresses : TRUE,
                slots |-> CHOOSE a \in Addresses : a # CHOOSE b \in Addresses : TRUE]
    /\ loc = NoLocative /\ aim = NoAim

Object(type) == IF type = "slot" THEN where.slots ELSE where.buffer
Contents(type) == IF type = "slot" THEN slots ELSE buffer
Indices == -1 .. Len(Bytes) + 1

Write ==
    /\ writes < MaxWrites
    /\ \E kind \in Kinds, i \in Indices, x \in Numbers :
           LET r == VectorSet(kind, kind, buffer, i, x)
           IN  r.error = "none" /\ buffer' = r.bytes
    /\ writes' = writes + 1 /\ UNCHANGED <<slots, where, loc, aim>>
WriteSlot ==
    /\ writes < MaxWrites
    /\ \E i \in Indices, x \in {1, Floating} :
           LET r == SlotSet(slots, i, x) IN r.error = "none" /\ slots' = r.bytes
    /\ writes' = writes + 1 /\ UNCHANGED <<buffer, where, loc, aim>>
Point ==                \* make-locative, make-weak-locative
    /\ aim = NoAim
    /\ \E type \in Kinds \cup {"slot"}, weak \in BOOLEAN, i \in 0 .. Len(Bytes) :
           LET size == IF type = "slot" THEN Len(slots) ELSE Length(type, buffer)
           IN  /\ CheckRange(i, 0, size) = "none"
               /\ loc' = MakeLocative(type, Object(type), i, weak)
               /\ aim' = [type |-> type, index |-> i]
    /\ UNCHANGED <<buffer, slots, where, writes>>
Poke ==                 \* locative-set!
    /\ aim # NoAim /\ writes < MaxWrites
    /\ \E x \in Numbers :
           LET r == LocativeSet(loc, Contents(aim.type), Object(aim.type), x)
           IN  /\ r.error = "none"
               /\ IF aim.type = "slot" THEN slots' = r.bytes /\ UNCHANGED buffer
                  ELSE buffer' = r.bytes /\ UNCHANGED slots
    /\ writes' = writes + 1 /\ UNCHANGED <<where, loc, aim>>
Collect ==              \* the two objects move, and the locative with its own
    /\ \E to \in [{"buffer", "slots"} -> Addresses] :
           /\ to.buffer # to.slots /\ where' = to
           /\ loc' = Updated(loc, IF aim.type = "slot" THEN to.slots ELSE to.buffer)
    /\ UNCHANGED <<buffer, slots, aim, writes>>
Forget ==               \* only a weak locative knows the object any more
    /\ aim # NoAim /\ loc.weak /\ ~Lost(loc)
    /\ loc' = Updated(loc, 0)
    /\ IF aim.type = "slot" THEN slots' = <<0, 0>> /\ UNCHANGED buffer
       ELSE buffer' = [k \in DOMAIN Bytes |-> 0] /\ UNCHANGED slots
    /\ UNCHANGED <<where, aim, writes>>
VectorNext == Write \/ WriteSlot \/ Point \/ Poke \/ Collect \/ Forget

-----------------------------------------------------------------------------
Representable(kind, x) ==
    /\ IsExact(x)
    /\ IF Signed(kind) THEN x \in -Power(Bits(kind) - 1) .. Power(Bits(kind) - 1) - 1
       ELSE x \in 0 .. Power(Bits(kind)) - 1

\* A store succeeds exactly for an index and a number that fit; the element
\* is then that number and no other byte has changed, and a store that fails
\* has changed nothing.  The same numbers are accepted as arguments of
\* foreign functions with that many bits.
StoresOne(kind, i, x) ==
    LET r == VectorSet(kind, kind, buffer, i, x)
        from == i * Width(kind)
    IN  /\ (r.error = "none") <=> (from >= 0 /\ from + Width(kind) <= Len(buffer) /\ Representable(kind, x))
        /\ IF r.error = "none"
           THEN /\ Len(r.bytes) = Len(buffer) /\ VectorRef(kind, kind, r.bytes, i) = Reads(x)
                /\ \A k \in DOMAIN buffer : r.bytes[k] = buffer[k] \/ k \in from + 1 .. from + Width(kind)
           ELSE r.bytes = buffer
StoresExactly ==
    aim = NoAim =>
        \A kind \in Kinds, x \in Numbers :
            /\ \A i \in Indices : StoresOne(kind, i, x)
            /\ LET check == IF Signed(kind) THEN ForeignRanged(x, Bits(kind)) ELSE ForeignUnsigned(x, Bits(kind))
               IN  (check = "none") <=> Representable(kind, x)

\* A locative reads and writes the element it was made for, wherever the
\* collector has put the object; one that has lost its object says so.
LocativesAgree ==
    LET object == Object(aim.type)
        data == Contents(aim.type)
        ref == LocativeRef(loc, data, object)
        set(x) == LocativeSet(loc, data, object, x)
    IN  aim # NoAim =>
            IF Lost(loc) THEN LocativeObject(loc) = 0 /\ ref.error = "lost" /\ set(0) = Failed("lost", data)
            ELSE /\ LocativeObject(loc) = object /\ LocativeIndex(loc) = aim.index
                 /\ IF aim.type = "slot"
                    THEN ref = SlotRef(slots, aim.index) /\ set(1) = SlotSet(slots, aim.index, 1)
                    ELSE /\ ref = VectorRef(aim.type, aim.type, buffer, aim.index)
                         /\ \A x \in Numbers : Representable(aim.type, x) =>
                                set(x) = VectorSet(aim.type, aim.type, buffer, aim.index, x)
=============================================================================
