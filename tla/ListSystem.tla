------------------------------ MODULE ListSystem ------------------------------
(***************************************************************************)
(* Pairs that set-car! and set-cdr! join to any graph, and what the        *)
(* procedures of Lists say of it, against what the graph is.               *)
(***************************************************************************)
EXTENDS Lists

CONSTANTS Pairs, Keyword

VARIABLE heap
NonPairs == Flonums \cup {Nil}
Data == Pairs \cup NonPairs
ListInit == heap = [p \in Pairs |-> [car |-> Nil, cdr |-> Nil]]
ListNext ==
    \E p \in Pairs, x \in Data : heap' = SetCar(heap, p, x) \/ heap' = SetCdr(heap, p, x)

-----------------------------------------------------------------------------
(* What the graph is: the n-th tail, the spine, and what can be reached.   *)
Tails[n \in Nat, x \in Data] ==
    IF n = 0 THEN x ELSE IF x \in Pairs THEN Tails[n - 1, heap[x].cdr] ELSE "none"
Most == Cardinality(Pairs)
Spine(x) == {Tails[n, x] : n \in 0 .. Most} \cap Pairs
End(x) == IF Tails[Most + 1, x] \in Data THEN "circular"
          ELSE CHOOSE t \in NonPairs : \E n \in 0 .. Most : Tails[n, x] = t
Slots(x) == IF x \in Pairs THEN {heap[x].car, heap[x].cdr} ELSE {}
RECURSIVE Closure(_)
Closure(xs) == LET more == xs \cup UNION {Slots(x) : x \in xs} IN IF more = xs THEN xs ELSE Closure(more)
Finite(x) == \A p \in Closure({x}) \cap Pairs : p \notin Closure(Slots(p))

\* The trees that x and y unfold to are the same to the depth n.
Alike[n \in Nat, x \in Data, y \in Data] ==
    \/ n = 0
    \/ /\ x \in Pairs <=> y \in Pairs
       /\ IF x \in Pairs THEN Alike[n - 1, heap[x].car, heap[y].car] /\ Alike[n - 1, heap[x].cdr, heap[y].cdr]
          ELSE Eqv(x, y)

\* list? and length tell proper lists from improper and circular ones, and
\* count the pairs of the first, however the graph is tied together.
ListsAreMeasured ==
    \A x \in Data :
        /\ Listp(heap, x) = (End(x) = Nil)
        /\ ListLength(heap, x) = CASE End(x) = Nil -> Answer(Cardinality(Spine(x)))
                                   [] End(x) = "circular" -> Fails("circular")
                                   [] OTHER -> Fails("improper")
        /\ \A n \in 0 .. Most :
               LET tail == ListTail(heap, x, n)
               IN  IF Tails[n, x] \in Data /\ x \notin Flonums THEN tail = Answer(Tails[n, x])
                   ELSE tail = Fails(IF x \in Flonums THEN "type" ELSE "bounds")

\* equal? of data that are not circular is that they unfold to the same, and
\* what it answers of circular data, if it answers, is right too.
EqualIsSound ==
    \A x, y \in Data :
        LET e == Equal(heap, x, y)
        IN  /\ Finite(x) /\ Finite(y) => e \in {"yes", "no"}
            /\ e \in {"yes", "no"} => (e = "yes" <=> Alike[Most + 1, x, y])

\* memq and its kin find the first element that is the same; assq and its
\* kin do unless something before it is no pair; of a list in which there is
\* none they say so, and the end of the list decides how.  Only a circular
\* list without one keeps them from returning.
First(lst, P(_)) ==
    {n \in 0 .. Most : Tails[n, lst] \in Pairs /\ P(heap[Tails[n, lst]].car)}
LeastOf(ns) == CHOOSE n \in ns : \A m \in ns : n <= m
Ending(lst) == CASE End(lst) = Nil -> False [] End(lst) = "circular" -> Fails("loops") [] OTHER -> Fails("type")
FoundFirst ==
    \A how \in {"q", "v"}, x \in Data, lst \in Data :
        LET hits == First(lst, LAMBDA c : Same(how, heap, c, x) = "yes")
            entries == First(lst, LAMBDA c : c \notin Pairs \/ Same(how, heap, heap[c].car, x) = "yes")
            mem == Mem(how, heap, x, lst)
            ass == Ass(how, heap, x, lst)
        IN  /\ mem = IF hits = {} THEN Ending(lst) ELSE Answer(Tails[LeastOf(hits), lst])
            /\ ass = IF entries = {} THEN Ending(lst)
                     ELSE LET c == heap[Tails[LeastOf(entries), lst]].car
                          IN  IF c \in Pairs THEN Answer(c) ELSE Fails("type")
            /\ Finite(x) /\ Finite(lst) /\ mem.error = "none" /\ mem.value # "#f" =>
                   LET m == Mem("equal", heap, x, lst)
                   IN  m.value \in Spine(lst) /\ mem.value \in Spine(m.value)

\* get-keyword answers with an element of the list, the one behind an even
\* number of elements and the keyword, or with the default.  Two kinds of lists
\* without one keep it from returning: circular ones, and those of an even
\* number of elements that end in an atom on the heap.
KeywordsFound ==
    \A lst \in Data :
        LET even == {n \in 0 .. Most : Tails[2 * n + 1, lst] \in Pairs
                                          /\ heap[Tails[2 * n, lst]].car = Keyword}
            got == GetKeyword(heap, Keyword, lst, "default")
            endless == \/ End(lst) = "circular"
                       \/ End(lst) \in Flonums /\ Cardinality(Spine(lst)) % 2 = 0
        IN  got = CASE lst \in Flonums -> "type"
                    [] lst \notin Flonums /\ even # {} -> heap[Tails[2 * LeastOf(even) + 1, lst]].car
                    [] lst \notin Flonums /\ even = {} -> IF endless THEN "loops" ELSE "default"
=============================================================================
