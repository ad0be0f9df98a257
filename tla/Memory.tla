------------------------------- MODULE Memory -------------------------------
(***************************************************************************)
(* The memory of runtime.c between collections: the nursery on the C       *)
(* stack, the two halves of the heap, the scratch space of the digits of   *)
(* bignums, and what the mutator does to them.                             *)
(*                                                                         *)
(* The globals of the runtime are the fields of one record, r below, that  *)
(* the operators take and return.  An address is <<space, offset>>, in     *)
(* words; a slot is <<address, index>>.  The static roots are objects too. *)
(***************************************************************************)
EXTENDS Integers, Sequences, FiniteSets, SequencesExt

CONSTANTS
    StackSize,      \* stack_size, in words
    MinScratch      \* DEFAULT_SCRATCH_SPACE_SIZE

ASSUME SizeAssumption == StackSize \in Nat \ {0} /\ MinScratch \in Nat \ {0}

(* The spaces, and the spaces of the heap that follow them.                *)
Immediate == 0
Static == 1
Stack == 2
Scratch == 3
FirstHeap == 4

Nil == <<Immediate, 0>>         \* an immediate, standing for all of them
Broken == <<Immediate, 1>>      \* C_SCHEME_BROKEN_WEAK_PTR
Unbound == <<Immediate, 2>>     \* C_SCHEME_UNBOUND
NoSlot == <<Nil, 0>>            \* NULL in the place of a slot

(* The static roots.                                                       *)
Live == <<Static, 1>>           \* C_temporary_stack: what the next closure gets
Globals == <<Static, 2>>        \* literal frames, symbol values, GC roots
Pending == <<Static, 3>>        \* the vector of ##sys#pending-finalizers
LateRoot == <<Static, 4>>       \* a finalizable GC root
Become == <<Static, 5>>         \* the new objects of forwarding_table
Node(i) == <<Static, 5 + i>>    \* a FINALIZER_NODE: item, finalizer

Object(kind, size, slots) ==
    [kind |-> kind, size |-> size, slots |-> slots, fwd |-> Nil, back |-> NoSlot, words |-> size,
     id |-> 0]                  \* id: who it is, for the properties
IsHusk(o) == o.fwd # Nil        \* is_fptr of the header
\* C_SPECIALBLOCK_BIT and C_BYTEBLOCK_BIT: what the collector follows.
Traced(o) == CASE o.kind = "bytes" -> {}
               [] o.kind \in {"weak", "locative"} -> 2 .. Len(o.slots)
               [] OTHER -> 1 .. Len(o.slots)

Fetch(r, slot) == r.obj[slot[1]].slots[slot[2]]
Store(r, slot, val) == [r EXCEPT !.obj[slot[1]].slots[slot[2]] = val]
Place(r, addr, o) == [r EXCEPT !.obj = [a \in DOMAIN @ \cup {addr} |-> IF a = addr THEN o ELSE @[a]]]
New(r, addr, o) == Place([r EXCEPT !.made = @ + 1], addr, [o EXCEPT !.id = r.made + 1])
Discard(r, spaces) ==
    [r EXCEPT !.obj = [a \in {b \in DOMAIN @ : b[1] \notin spaces} |-> @[a]]]

InStack(val) == val[1] = Stack
InScratch(val) == val[1] = Scratch
InFromspace(r, val) == val[1] = r.from.id
InHeap(r, val) == val[1] \in {r.from.id, r.to.id}

-----------------------------------------------------------------------------
(* The nursery and the remembered set.                                     *)

\* C_demand: room for n words in the nursery, and for the scratch space there.
Demand(r, n) == StackSize - r.stack > n + r.usage

\* C_alloc
StackAlloc(r, o) == New([r EXCEPT !.stack = @ + o.size], <<Stack, r.stack>>, o)

\* A mutant: only the slots of the heap are remembered.
MutateSlotOfHeap(r, slot, val) ==
    IF slot[1][1] < FirstHeap \/ (~InStack(val) /\ ~InScratch(val)) THEN Store(r, slot, val)
    ELSE Store([r EXCEPT !.mutations = Append(@, slot)], slot, val)

\* C_mutate_slot: remember the slots outside that come to point to the nursery.
MutateSlot(r, slot, val) ==
    IF InStack(slot[1]) \/ (~InStack(val) /\ ~InScratch(val)) THEN Store(r, slot, val)
    ELSE Store([r EXCEPT !.mutations = Append(@, slot)], slot, val)

-----------------------------------------------------------------------------
(* The scratch space.  Before every object stand its size and the slot     *)
(* that points to it, if any.                                              *)

RECURSIVE Ilen(_)
Ilen(n) == IF n = 0 THEN 0 ELSE 1 + Ilen(n \div 2)
Greater(m, n) == IF m > n THEN m ELSE n

ScratchObjects(r) == {a \in DOMAIN r.obj : InScratch(a)}

\* One object of the old scratch space in the resizing loop of C_scratch_alloc:
\* it is copied if a slot still points to it, and the slot follows.
MoveScratch(r, p) ==
    LET q == <<Scratch, r.top + 2>>
    IN  IF IsHusk(p)
        THEN [r EXCEPT !.panic = "Unexpected forwarding pointer in scratch space"]
        ELSE IF p.back = NoSlot \/ r.panic # "" THEN r
        ELSE Store(Place([r EXCEPT !.top = @ + p.size + 2], q, [p EXCEPT !.words = p.size]),
                   p.back, q)

NewLimit(r, needed) ==
    LET grown == Greater(2 * r.limit, 2 * 2^Ilen(needed))
    IN  Greater(IF needed < grown \div 16 THEN grown \div 2 ELSE grown, MinScratch)
MoveAll(r, size, objects) ==
    [FoldLeft(LAMBDA s, a : MoveScratch(s, r.obj[a]), [Discard(r, {Scratch}) EXCEPT !.top = 0],
              SetToSortSeq(objects, LAMBDA a, b : a[2] < b[2]))
         EXCEPT !.limit = NewLimit(r, r.usage + size + 2)]
CountUsed(r) == [r EXCEPT !.usage = r.top]
ResizeScratch(r, size) == CountUsed(MoveAll(r, size, ScratchObjects(r)))

\* C_scratch_alloc: the object is not in use until a slot claims it.
AllocScratch(r, a, size) ==
    [r |-> New([r EXCEPT !.top = @ + size + 2], a, Object("bytes", size, <<>>)), at |-> a]
TakeScratch(r, size) == AllocScratch(r, <<Scratch, r.top + 2>>, size)
ScratchAlloc(r, size) ==
    TakeScratch(IF r.top + size + 2 >= r.limit THEN ResizeScratch(r, size) ELSE r, size)

\* C_mutate_scratch_slot: the one slot that points to a scratch object changes.
MutateScratchSlot(r, slot, val) ==
    LET o == r.obj[val]
        gain == CASE o.back = NoSlot /\ slot # NoSlot -> o.words + 2
                  [] o.back # NoSlot /\ slot = NoSlot -> -(o.words + 2)
                  [] OTHER -> 0
        s == [r EXCEPT !.obj[val].back = slot, !.usage = @ + gain]
    IN  IF slot = NoSlot THEN s ELSE Store(s, slot, val)

\* C_allocate_scratch_bignum: the wrapper at addr, the digits in scratch space.
Wrap(m, addr) ==
    MutateScratchSlot(New(m.r, addr, Object("bignum", 2, <<m.at>>)), <<addr, 1>>, m.at)
ScratchBignum(r, addr, size) == Wrap(ScratchAlloc(r, size), addr)

\* C_bignum_simplify of a number that turns out to have n words, or to be a fixnum.
Simplify(r, big, n) ==
    LET digits == r.obj[big].slots[1]
    IN  IF n > 0 THEN [r EXCEPT !.obj[digits].size = n]
        ELSE IF InScratch(digits) THEN MutateScratchSlot(r, NoSlot, digits)
        ELSE r

(***************************************************************************)
(* C_migrate_buffer_object for an object of the buffer of addresses buf:   *)
(* moved to the address "to" (move_buffer_object), or, when that is Nil,   *)
(* its digits given up (clear_buffer_object).  Objects elsewhere are left  *)
(* alone, but their parts are looked at.  m is the memory, and the address *)
(* the next moved object gets.                                             *)
(***************************************************************************)
RECURSIVE Migrate(_, _, _)

MigrateSlot(m, buf, a, moved, i) ==
    LET val == m.r.obj[a].slots[i]
        o == m.r.obj[val]
        sub == Migrate(m, buf, val)
        put(n, v) == [n EXCEPT !.r = Store(@, <<IF moved = Nil THEN a ELSE moved, i>>, v)]
        freed == IF o.back = NoSlot THEN 0 ELSE o.words + 2
    IN  CASE val[1] = Immediate -> m
          [] val[1] # Immediate /\ ~InScratch(val) -> put(sub, sub.at)
          [] InScratch(val) /\ a \notin buf -> m
          [] InScratch(val) /\ a \in buf /\ moved = Nil ->
                 [m EXCEPT !.r.obj[val].back = NoSlot, !.r.usage = @ - freed]
          [] InScratch(val) /\ a \in buf /\ moved # Nil ->
                 put([m EXCEPT !.r = Store([@ EXCEPT !.obj[val].back = <<moved, i>>],
                                           <<a, i>>, Unbound)], val)
Migrate(m, buf, a) ==
    IF a[1] = Immediate THEN [m EXCEPT !.at = a]
    ELSE LET o == m.r.obj[a]
             moves == m.next # Nil /\ a \in buf
             new == IF moves THEN m.next ELSE Nil
             n == IF moves THEN [m EXCEPT !.r = Place(@, new, o), !.next[2] = @ + o.size] ELSE m
         IN  [FoldLeft(LAMBDA s, i : MigrateSlot(s, buf, a, new, i), n,
                       [i \in DOMAIN o.slots |-> i])
                  EXCEPT !.at = IF moves THEN new ELSE a]

MoveBufferObject(r, buf, to, a) == Migrate([r |-> r, next |-> to, at |-> a], buf, a)
ClearBufferObject(r, buf, a) == Migrate([r |-> r, next |-> Nil, at |-> a], buf, a).r
=============================================================================
