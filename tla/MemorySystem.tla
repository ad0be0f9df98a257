---------------------------- MODULE MemorySystem ----------------------------
(***************************************************************************)
(* A program on the memory of Collector: it has two values in hand, makes  *)
(* objects of every kind the collector treats in its own way, and mutates  *)
(* them, and collections of every kind come whenever they may.             *)
(***************************************************************************)
EXTENDS Collector

CONSTANTS
    Half,           \* words of each half of the heap at the start
    Digits,         \* sizes of the bytevectors of the bignums that are made
    HeapFixed,      \* values of C_heap_size_is_fixed
    MaxObjects, MaxSteps

VARIABLES r, did, steps
vars == <<r, did, steps>>

Hand(i) == Fetch(r, <<Live, i>>)
Take(s, i, val) == Store(s, <<Live, i>>, val)
Push(s, val) == Take(Take(s, 2, Fetch(s, <<Live, 1>>)), 1, val)
Kind(val) == IF val[1] = Immediate THEN "immediate" ELSE r.obj[val].kind

Init ==
    /\ \E fixed \in HeapFixed :
        r = [obj |-> [a \in {Live, Globals, Pending, LateRoot, Become, Node(1), Node(2)} |->
                          Object("vector", 0, CASE a = Live -> <<Nil, Nil>>
                                                [] a \in {Globals, LateRoot} -> <<Nil>>
                                                [] a \in {Pending, Become} -> <<>>
                                                [] OTHER -> <<Nil, Nil>>)],
             stack |-> 0, mutations |-> <<>>, top |-> 0, limit |-> 0, usage |-> 0,
             from |-> [id |-> FirstHeap, top |-> 0, limit |-> Half],
             to |-> [id |-> FirstHeap + 1, top |-> 0, limit |-> Half],
             new |-> [id |-> FirstHeap, top |-> 0, limit |-> 0],
             heap |-> 2 * Half, fixed |-> fixed, idle |-> 0, mode |-> Minor, jump |-> FALSE,
             weaks |-> <<>>, locs |-> <<>>, finalizers |-> <<>>, olds |-> <<>>,
             lost |-> {}, panic |-> "", made |-> 0]
    /\ did = "start" /\ steps = 0

\* The program goes on; room is what it makes.
Goes(what, made) ==
    /\ ~Halted(r) /\ r.lost = {} /\ steps < MaxSteps /\ r.made + made <= MaxObjects
    /\ did' = what /\ steps' = steps + 1

Make(o) ==
    /\ Goes("make", 1) /\ Demand(r, o.size)
    /\ r' = Push(StackAlloc(r, o), <<Stack, r.stack>>)

MakeVector == \E val \in {Hand(1), Nil} : Make(Object("vector", 2, <<val>>))
MakeWeakPair == Hand(1)[1] # Immediate /\ Make(Object("weak", 3, <<Hand(1), Nil>>))
MakeLocative ==
    \E strong \in {Hand(1), Nil} :
        Hand(1)[1] # Immediate /\ Make(Object("locative", 5, <<Hand(1), strong>>))

\* The value of an operation that may have halted the program.
Result(m) == IF Halted(m.r) THEN m.r ELSE Push(m.r, m.at)

\* A result in scratch space, and what simplifying leaves of it.
MakeBignum ==
    \E n \in Digits : \E left \in {0, n - 2} :
        /\ Goes("make", 2) /\ Demand(r, 2)
        /\ LET a == <<Stack, r.stack>>
           IN  r' = Result([r |-> Simplify(ScratchBignum([r EXCEPT !.stack = @ + 2], a, n), a, left),
                            at |-> IF left = 0 THEN Nil ELSE a])

(***************************************************************************)
(* The loop of C_times and its like: of two buffers in turn, one holds the *)
(* previous result and the other gets the next, a new number or the same.  *)
(***************************************************************************)
Buffer(b) == {<<Stack, n>> : n \in b .. b + 1}
\* One round: C_s_a_i_times puts its result into buf, or it is the previous
\* one; the result is moved to buf, and the digits left in "other" given up.
Produced(s, fresh, buf, prev) ==
    IF fresh THEN [r |-> ScratchBignum(s, buf, CHOOSE n \in Digits : TRUE), at |-> buf]
    ELSE [r |-> s, at |-> prev]
Clear(m, other, prev) == [m EXCEPT !.r = ClearBufferObject(@, Buffer(other[2]), prev)]
Round(m, buf, other, prev) ==
    IF Halted(m.r) THEN m
    ELSE Clear(MoveBufferObject(m.r, Buffer(other[2]), buf, m.at), other, prev)
RECURSIVE Rounds(_, _, _, _)
Rounds(m, fresh, buf, other) ==
    IF fresh = <<>> \/ Halted(m.r) THEN m
    ELSE Rounds(Round(Produced(m.r, Head(fresh), buf, m.at), buf, other, m.at),
                Tail(fresh), other, buf)
Compute ==
    \E fresh \in {<<TRUE, FALSE>>, <<TRUE, FALSE, TRUE>>} :
        /\ Goes("make", 2 * Cardinality({k \in DOMAIN fresh : fresh[k]})) /\ Demand(r, 4)
        /\ r' = Result(Rounds([r |-> [r EXCEPT !.stack = @ + 4], at |-> Nil], fresh,
                              <<Stack, r.stack>>, <<Stack, r.stack + 2>>))

Read ==
    /\ Goes("read", 0) /\ Kind(Hand(1)) \in {"vector", "weak"}
    /\ r' = Take(r, 1, Fetch(r, <<Hand(1), 1>>))
Swap == Goes("swap", 0) /\ Hand(1) # Hand(2) /\ r' = Take(Take(r, 1, Hand(2)), 2, Hand(1))
Drop == Goes("drop", 0) /\ Hand(1) # Nil /\ r' = Take(r, 1, Nil)
Write ==
    \E val \in {Hand(1), Nil}, a \in {Hand(2), Globals, LateRoot} :
        /\ Goes("write", 0) /\ Kind(a) = "vector" /\ Fetch(r, <<a, 1>>) # val
        /\ r' = MutateSlot(r, <<a, 1>>, val)

\* C_do_register_finalizer, for values in the nursery or the heap
RegisterFinalizer ==
    \E k \in 1 .. 2 :
        LET node == Node(k)
            s == [r EXCEPT !.finalizers = <<node>> \o @]
        IN  /\ Goes("register", 0) /\ Hand(1)[1] # Immediate
            /\ node \notin ToSet(r.finalizers) /\ (k = 1 \/ Node(1) \in ToSet(r.finalizers))
            /\ r' = IF InStack(Hand(1)) THEN MutateSlot(s, <<node, 1>>, Hand(1))
                    ELSE Store(s, <<node, 1>>, Hand(1))

\* ##sys#run-pending-finalizers hands the items to the finalizers.
RunFinalizers ==
    /\ Goes("run", 0) /\ r.obj[Pending].slots # <<>>
    /\ r' = Take([r EXCEPT !.obj[Pending].slots = <<>>], 1, r.obj[Pending].slots[1])

\* A collection because the nursery is full or because an interrupt was handled,
\* and C_gc, which makes it a major one by filling the fromspace.
Full(s) == [s EXCEPT !.from.top = s.from.limit]
Collect == Goes("collect", 0) /\ r.stack > 0 /\ r' = Reclaim(r)
CollectAll == Goes("collect", 0) /\ r' = Reclaim(Full(r))

\* C_gc with an empty list resizes the heap; the stack is not unwound, and
\* a copy that finds no room jumps to where an earlier collection began.
Unrestarted(s) == IF s.jump THEN [s EXCEPT !.panic = "gc_restart"] ELSE s
Grow ==
    /\ Goes("collect", 0) /\ ~r.fixed
    /\ r' = Unrestarted(Rereclaim2(r, Percentage(r.heap, Growth)))

\* C_allocate_vector of n words that do not fit the nursery.
RECURSIVE MakeRoom(_, _)
MakeRoom(s, n) ==
    IF Halted(s) \/ s.from.limit - s.from.top >= n + StackSize THEN s
    ELSE IF s.fixed THEN Panic(s, "heap resizing disabled")
    ELSE MakeRoom(Rereclaim2(s, Percentage(s.heap, Growth) + n), n)
AllocateHere(s, n) ==
    LET a == <<s.from.id, s.from.top>>
    IN  IF Halted(s) THEN s
        ELSE Push(New([s EXCEPT !.from.top = @ + n], a, Object("vector", n, <<Fetch(s, <<Live, 1>>)>>)), a)
AllocateVector ==
    LET n == StackSize - r.stack
        tight == r.from.limit - r.from.top < n + 2 * StackSize
    IN  /\ Goes("allocate", 1) /\ n > 1 /\ ~Demand(r, n)
        /\ r' = AllocateHere(MakeRoom(Reclaim(IF tight THEN Full(r) ELSE r), n), n)

\* C_become and become_2
BecomeOther ==
    /\ Goes("become", 0) /\ Hand(1) # Hand(2) /\ Immediate \notin {Hand(1)[1], Hand(2)[1]}
    /\ r' = [Reclaim([Full(r) EXCEPT !.olds = <<Hand(1)>>, !.obj[Become].slots = <<Hand(2)>>])
                 EXCEPT !.olds = <<>>, !.obj[Become].slots = <<>>]

Next ==
    \/ MakeVector \/ MakeWeakPair \/ MakeLocative \/ MakeBignum \/ Compute
    \/ Read \/ Swap \/ Drop \/ Write \/ RegisterFinalizer \/ RunFinalizers
    \/ Collect \/ CollectAll \/ Grow \/ AllocateVector \/ BecomeOther

Spec == Init /\ [][Next]_vars

-----------------------------------------------------------------------------
(* The graph of the objects, as the program sees it.                       *)

Name(s, val) ==
    IF val[1] = Immediate THEN -val[2]
    ELSE IF val \in DOMAIN s.obj /\ ~IsHusk(s.obj[val]) THEN s.obj[val].id
    ELSE -9
Names(s, a) == [i \in DOMAIN s.obj[a].slots |-> Name(s, s.obj[a].slots[i])]

Refs(s, a) == {s.obj[a].slots[i] : i \in Traced(s.obj[a])} \cap DOMAIN s.obj
RECURSIVE Reach(_, _)
Reach(s, seen) ==
    LET more == seen \cup UNION {Refs(s, a) : a \in seen}
    IN  IF more = seen THEN seen ELSE Reach(s, more)

Roots == {Live, Globals, Pending}
AllRoots(s) == Roots \cup {LateRoot} \cup ToSet(s.finalizers)
Strong(s) == Reach(s, Roots)                    \* what the program may still use
Kept(s) == Reach(s, AllRoots(s))                \* and what finalizers may bring back

Contents(s, a) == [i \in Traced(s.obj[a]) |-> Name(s, s.obj[a].slots[i])]
Objects(s) == {<<s.obj[a].id, s.obj[a].kind, s.obj[a].size, Contents(s, a)>> :
                   a \in {b \in Kept(s) : b[1] # Static}}
Items(s) == {Name(s, s.obj[a].slots[1]) : a \in ToSet(s.finalizers)}
                \cup {Names(s, Pending)[i] : i \in {k \in DOMAIN Names(s, Pending) : k % 2 = 1}}
Graph(s) == <<Names(s, Live), Names(s, Globals), Names(s, LateRoot), Items(s), Objects(s)>>

\* Every pointer of an object that is still in use leads to one object, in the
\* nursery, the scratch space or the fromspace, that is not a husk, also the
\* pointers that the collector does not follow; unless a resized heap was too
\* small as well (see SurvivesResizing).
Pointers(s) == UNION {{s.obj[a].slots[i] : i \in DOMAIN s.obj[a].slots} : a \in Kept(s)}
Intact(s) ==
    /\ \A val \in Pointers(s) :
           \/ val[1] = Immediate
           \/ /\ val \in DOMAIN s.obj /\ ~IsHusk(s.obj[val])
              /\ InStack(val) \/ InScratch(val) \/ InFromspace(s, val)
    /\ \A a, b \in Kept(s) : s.obj[a].id = s.obj[b].id => a = b \/ s.obj[a].id = 0
HeapIntact == ~Halted(r) /\ r.lost = {} => Intact(r)

\* What the error message of really_mark promises of a new space that is too
\* small: "out of memory - heap full while resizing".
SurvivesResizing == ~Halted(r) => Intact(r)

\* What the check of the resizing of the scratch space says: "Unexpected
\* forwarding pointer in scratch space".
ScratchNeverForwarded == r.panic # "Unexpected forwarding pointer in scratch space"

\* A collection, a change of the size of the heap and a vector that is put into
\* the heap change nothing of the graph the program sees, but for the vector.
GraphKept ==
    [][~Halted(r') /\ r'.lost = {} =>
          CASE did' = "collect" -> Graph(r') = Graph(r)
            [] did' = "allocate" -> \A o \in Objects(r') : o \in Objects(r) \/ o[1] = r'.made
            [] OTHER -> TRUE]_vars

\* A weak pair or weak locative loses its object only when the program cannot
\* reach it, and a major collection that need not resize the heap takes every
\* such object away, also those that wait for their finalizers.
WeakOf(s) == {a \in Kept(s) : s.obj[a].kind \in {"weak", "locative"}}
WeakExact ==
    [][did' = "collect" /\ ~Halted(r') /\ r'.lost = {} =>
          \A a \in WeakOf(r), b \in WeakOf(r') :
              LET old == r.obj[a].slots[1]
                  new == r'.obj[b].slots[1]
              IN  r.obj[a].id = r'.obj[b].id =>
                      /\ new[1] # Immediate => Name(r', new) = Name(r, old)
                      /\ old[1] # Immediate /\ old \in Strong(r) => new[1] # Immediate
                      /\ r'.mode = Major /\ r'.heap = r.heap /\ old \notin Strong(r) => new[1] = Immediate]_vars

\* Only items the program cannot reach are queued for their finalizers, each
\* once, and a major collection that finds none pending queues all it can.
Queued(s) == {Names(s, Pending)[i] : i \in {k \in DOMAIN Names(s, Pending) : k % 2 = 1}}
FinalizedOnce ==
    [][did' = "collect" /\ ~Halted(r') /\ r'.lost = {} =>
          /\ \A a \in Strong(r) : r.obj[a].id \in Queued(r') => r.obj[a].id \in Queued(r)
          /\ Len(r'.finalizers) + Len(r'.obj[Pending].slots) \div 2
                 = Len(r.finalizers) + Len(r.obj[Pending].slots) \div 2]_vars

\* The scratch space knows how much of it is in use, and every object of it
\* that is in use the one slot that points to it.
RECURSIVE Total(_, _)
Total(s, S) == IF S = {} THEN 0
               ELSE LET a == CHOOSE a \in S : TRUE IN s.obj[a].words + 2 + Total(s, S \ {a})
ScratchAccounted ==
    LET used == {a \in ScratchObjects(r) : r.obj[a].back # NoSlot}
    IN  ~Halted(r) /\ r.lost = {} =>
            /\ r.usage = Total(r, used)
            /\ \A a \in used : Fetch(r, r.obj[a].back) = a
            /\ \A val \in Pointers(r) : InScratch(val) => val \in used

\* object-become! turns every reference to the one object into the other.
BecomesOther ==
    [][did' = "become" /\ ~Halted(r') /\ r'.lost = {} =>
          LET old == Name(r, Hand(1))
              new == Name(r, Hand(2))
          IN  /\ Names(r', Live) = <<new, new>>
              /\ \A a \in Kept(r') : r'.obj[a].id # old]_vars

\* The heap is in order: no pointer leads astray, and the scratch space is
\* accounted for.
HeapInOrder == HeapIntact /\ ScratchAccounted

\* The program cannot see that objects move, unless it made one become another.
MovesUnseen == GraphKept /\ BecomesOther

\* What is only held weakly goes exactly when it is garbage, and finalizers know.
GarbageExact == WeakExact /\ FinalizedOnce
=============================================================================
