------------------------------ MODULE Collector ------------------------------
(***************************************************************************)
(* The garbage collector of runtime.c: the nursery is copied into the      *)
(* heap, or everything into the other half of the heap, or into a new heap *)
(* of another size.  A copy that finds its space full jumps out of the     *)
(* collection, which starts again one mode further (C_longjmp): jump is    *)
(* then set, and the operators leave the memory alone until it is caught.  *)
(***************************************************************************)
EXTENDS Memory

CONSTANTS
    MinHeap, MaxHeap,   \* MINIMAL_HEAP_SIZE, C_maximal_heap_size: both halves
    MinFree,            \* C_heap_half_min_free
    Growth, Shrinkage, ShrinkageUsed,   \* percentages
    ShrinkCounts,       \* HEAP_SHRINK_COUNTS
    MaxPending          \* C_max_pending_finalizers

ASSUME HeapAssumption ==
    /\ MinHeap \in Nat /\ MaxHeap \in Nat /\ 0 < MinHeap /\ MinHeap <= MaxHeap
    /\ {MinFree, Growth, Shrinkage, ShrinkageUsed, ShrinkCounts, MaxPending} \subseteq Nat

(* The modes of a collection, gc_mode.                                     *)
Minor == 0
Major == 1
Realloc == 2

Percentage(n, p) == (n * p) \div 100
Panic(r, why) == [r EXCEPT !.panic = why, !.jump = TRUE]
Halted(r) == r.panic # ""

RECURSIVE Chase(_, _)
Chase(r, val) == IF IsHusk(r.obj[val]) THEN Chase(r, r.obj[val].fwd) ELSE val

-----------------------------------------------------------------------------
(* Marking.  t is the field of the space the objects are copied to.        *)

\* The space is full: the collection starts again in a mode that needs less room.
\* A new space that is given up is not freed.
Overflow(r, t) ==
    IF r.mode = Major /\ r.fixed THEN Panic(r, "heap full")
    ELSE IF r.mode = Realloc /\ r.new.top > r.new.limit THEN Panic(r, "heap full while resizing")
    ELSE [r EXCEPT !.jump = TRUE, !.lost = IF t = "new" THEN @ \cup {r.new.id} ELSE @,
                   !.mode = IF @ = Major THEN Realloc ELSE @]

\* The copy of the object p, and the husk it leaves, which the chain of the
\* weak pairs, or of the locatives, is threaded through.
Copy(r, t, slot, p, o, q) ==
    Store(Place([r EXCEPT ![t].top = @ + o.size, !.obj[p].fwd = q,
                          !.weaks = IF o.kind = "weak" /\ o.slots[1][1] # Immediate
                                    THEN <<p>> \o @ ELSE @,
                          !.locs = IF o.kind = "locative" THEN <<p>> \o @ ELSE @],
                q, [o EXCEPT !.words = o.size, !.back = NoSlot]),
          slot, q)

\* really_mark: p is where the object that the slot points to is by now.
MarkObject(r, t, slot, p) ==
    IF p[1] = r[t].id THEN Store(r, slot, p)
    ELSE IF r[t].top + r.obj[p].size > r[t].limit THEN Overflow(r, t)
    ELSE Copy(r, t, slot, p, r.obj[p], <<r[t].id, r[t].top>>)
Moves(r, val) == InStack(val) \/ InHeap(r, val) \/ InScratch(val)
Mark(r, t, slot) ==
    IF r.jump \/ ~Moves(r, Fetch(r, slot)) THEN r
    ELSE MarkObject(r, t, slot, Chase(r, Fetch(r, slot)))

MarkAll(r, t, slots) == FoldLeft(LAMBDA s, x : Mark(s, t, x), r, slots)
SlotsOf(r, a) == [i \in DOMAIN r.obj[a].slots |-> <<a, i>>]

\* mark_live_objects, which also forgets the mutations.
Forget(r) == IF r.jump THEN r ELSE [r EXCEPT !.mutations = <<>>]
MarkLive(r, t) == Forget(MarkAll(r, t, SlotsOf(r, Live)))

\* mark_live_heap_only_objects: the forwarding table of object-become!, where
\* the old objects become husks of the new ones, and the static roots.
MakeHusk(r, old, new) == IF r.jump THEN r ELSE [r EXCEPT !.obj[old].fwd = r.obj[new].fwd]
MarkBecome(r, t, i) ==
    MakeHusk(Mark(r, t, <<Become, i>>), r.olds[i], Fetch(r, <<Become, i>>))
MarkHeapOnly(r, t) ==
    MarkAll(FoldLeft(LAMBDA q, i : MarkBecome(q, t, i), r, [i \in DOMAIN r.olds |-> i]),
            t, SlotsOf(r, Globals) \o SlotsOf(r, Pending))

MarkNodes(r, t) ==
    MarkAll(r, t, FoldLeft(LAMBDA xs, a : xs \o <<<<a, 1>>, <<a, 2>>>>, <<>>, r.finalizers))

\* mark_nested_objects: Cheney's scan of what was copied.
RECURSIVE MarkNested(_, _, _)
MarkNested(r, t, scan) ==
    LET a == <<r[t].id, scan>>
        o == r.obj[a]
    IN  IF r.jump \/ scan >= r[t].top THEN r
        ELSE MarkNested(MarkAll(r, t, SelectSeq(SlotsOf(r, a), LAMBDA x : x[2] \in Traced(o))),
                        t, scan + o.size)

(***************************************************************************)
(* update_weak_pairs and update_locatives: an object that was not copied,  *)
(* or only because a finalizer brought it back (from "undead" on), is lost *)
(* to the weak pairs and the weak locatives.                               *)
(***************************************************************************)
GoneNotUndead(r, t, mode, undead, val) ==       \* a mutant: what was brought back is not lost
    CASE mode = Minor -> InStack(val)
      [] mode = Major -> InStack(val) \/ InFromspace(r, val)
      [] mode = Realloc -> InStack(val) \/ InHeap(r, val)
Gone(r, t, mode, undead, val) ==
    CASE mode = Minor -> InStack(val)
      [] mode = Major -> InStack(val) \/ InFromspace(r, val) \/ (val[1] = r[t].id /\ val[2] >= undead)
      [] mode = Realloc -> InStack(val) \/ InHeap(r, val)

UpdatePointer(r, t, mode, undead, husk, lost) ==
    LET slot == <<r.obj[husk].fwd, 1>>
        val == Chase(r, Fetch(r, slot))
    IN  IF Fetch(r, slot)[1] = Immediate THEN r
        ELSE Store(r, slot, IF Gone(r, t, mode, undead, val) THEN lost ELSE val)

UpdateAll(r, t, mode, undead, husks, lost) ==
    FoldLeft(LAMBDA s, p : UpdatePointer(s, t, mode, undead, p, lost), r, husks)
UpdateLocatives(r, t, mode, undead) ==
    [UpdateAll(r, t, mode, undead, r.locs, Nil) EXCEPT !.locs = <<>>]
UpdateWeakPairs(r, t, mode, undead) ==
    [UpdateAll(r, t, mode, undead, r.weaks, Broken) EXCEPT !.weaks = <<>>]
Update(r, t, mode, undead) == UpdateWeakPairs(UpdateLocatives(r, t, mode, undead), t, mode, undead)

-----------------------------------------------------------------------------
(* The three modes.                                                        *)

NewSpace(r, avoid) == CHOOSE n \in FirstHeap .. FirstHeap + 9 :
                          /\ n \notin avoid \cup r.lost
                          /\ \A m \in FirstHeap .. n - 1 : m \in avoid \cup r.lost

\* C_rereclaim2: everything is copied into a new heap of "want" words.
NewHeapSize(r, want) ==
    LET least == Greater(want, MinHeap)
    IN  IF least > r.heap /\ least - r.heap < 2 * StackSize THEN r.heap + 2 * StackSize ELSE least

Install(r) ==
    [Discard(r, {r.from.id, r.to.id}) EXCEPT
        !.from = r.new, !.to = [id |-> NewSpace(r, {r.new.id}), top |-> 0, limit |-> r.new.limit]]
InstallNew(r) == IF r.jump THEN r ELSE Install(Update(r, "new", Realloc, r.new.top))
MarkNew(r) ==
    MarkNested(MarkAll(MarkNodes(MarkHeapOnly(MarkLive(r, "new"), "new"), "new"),
                       "new", <<<<LateRoot, 1>>>>), "new", 0)
Rereclaim2(r, want) ==
    LET size == NewHeapSize(r, want)
        heap == IF size > MaxHeap THEN MaxHeap ELSE size
        id == NewSpace(r, {r.from.id, r.to.id})
    IN  IF size > r.heap /\ r.heap >= MaxHeap THEN Panic(r, "maximum size")
        ELSE InstallNew(MarkNew(
                 [r EXCEPT !.heap = heap, !.weaks = <<>>, !.locs = <<>>,
                           !.new = [id |-> id, top |-> 0, limit |-> heap \div 2]]))

\* The entry point of a collection that resizes the heap.  When the new space
\* is full too, the collection starts again from what the roots hold by now.
RECURSIVE Resize(_)
Resize(r) ==
    IF ~r.jump \/ Halted(r) THEN r
    ELSE Resize(Rereclaim2([r EXCEPT !.jump = FALSE], Percentage(r.heap, Growth)))

\* The finalizers of objects that nothing else refers to are queued, unless
\* some of an earlier collection are still pending.
Dead(r) ==
    LET dead == SelectSeq(r.finalizers, LAMBDA a : ~IsHusk(r.obj[Fetch(r, <<a, 1>>)]))
    IN  IF r.obj[Pending].slots # <<>> THEN <<>>
        ELSE SubSeq(dead, 1, IF Len(dead) < MaxPending THEN Len(dead) ELSE MaxPending)
Queue(r, nodes) ==
    [r EXCEPT !.obj[Pending].slots = FoldLeft(LAMBDA xs, a : xs \o r.obj[a].slots, @, nodes),
              !.finalizers = SelectSeq(@, LAMBDA a : a \notin ToSet(nodes))]

\* Shrink the heap that was mostly empty for a while, grow the one that is
\* nearly full, or swap the halves.
Settle(r) ==
    LET count == r.to.top
        least == count + MinFree
        idle == IF count < Percentage(r.heap \div 2, ShrinkageUsed) THEN r.idle + 1 ELSE 0
        shrunk == Percentage(r.heap, Shrinkage)
        shrinks == /\ ~r.fixed /\ Shrinkage > 0 /\ ShrinkCounts < idle
                   /\ 2 * least <= shrunk /\ r.heap > MinHeap
        grows == ~r.fixed /\ r.heap \div 2 < least
    IN  IF shrinks \/ grows
        THEN Rereclaim2([r EXCEPT !.idle = 0],
                        IF shrinks THEN shrunk ELSE Percentage(r.heap, Growth))
        ELSE [Discard(r, {r.from.id}) EXCEPT
                  !.idle = idle, !.from = r.to, !.to = [r.from EXCEPT !.top = 0]]

\* The second level: everything that lives goes to the other half, then what
\* the finalizers and the finalizable roots hold.
MarkUndead(live) ==
    IF live.jump THEN live
    ELSE MarkNested(MarkAll(MarkNodes(live, "to"), "to", <<<<LateRoot, 1>>>>), "to", live.to.top)
Conclude(r, dead, undead) ==
    IF r.jump THEN r ELSE Settle(Update(Queue(r, dead), "to", Major, undead))
FinishMajor(live) == Conclude(MarkUndead(live), Dead(live), live.to.top)
MajorCollection(r) ==
    Resize(FinishMajor(MarkNested(
        MarkLive(MarkHeapOnly([r EXCEPT !.jump = FALSE, !.mode = Major, !.weaks = <<>>, !.locs = <<>>],
                              "to"), "to"), "to", 0)))

\* The first level: what the nursery holds goes to the end of the fromspace.
Escalate(r) == IF r.jump THEN MajorCollection(r) ELSE Update(r, "from", Minor, 0)
MarkMutated(r) == MarkLive(MarkAll(r, "from", r.mutations), "from")

\* A mutant: the scan starts behind what the mutated slots led to.
MarkMinorShort(r) == MarkNested(MarkMutated(r), "from", MarkAll(r, "from", r.mutations).from.top)
MarkMinor(r) == MarkNested(MarkMutated(r), "from", r.from.top)
MinorCollection(r) ==
    Escalate(IF r.from.top >= r.from.limit THEN [r EXCEPT !.jump = TRUE]
             ELSE MarkMinor([r EXCEPT !.mode = Minor, !.weaks = <<>>, !.locs = <<>>]))

\* C_reclaim: the stack is unwound, and the scratch space is cleared, or given
\* back after more than a minor collection.
Unwind(r) ==
    IF Halted(r) THEN r
    ELSE [Discard(r, {Stack, Scratch}) EXCEPT
              !.stack = 0, !.top = 0, !.usage = IF r.top > 0 THEN 0 ELSE @, !.jump = FALSE,
              !.limit = IF r.mode # Minor /\ r.top > 0 THEN 0 ELSE @,
              !.mode = IF @ = Realloc THEN Major ELSE @]
Reclaim(r) == Unwind(MinorCollection(r))
=============================================================================
