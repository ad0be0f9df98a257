--------------------------------- MODULE Lists ---------------------------------
(***************************************************************************)
(* The list procedures of runtime.c, over pairs that may share structure   *)
(* and be circular.  heap[p] is the pair p; all other data are atoms.      *)
(* A loop of the code that comes to the same place with the same variables *)
(* never ends, and the answer is "loops".                                  *)
(***************************************************************************)
EXTENDS Integers, Sequences, FiniteSets

CONSTANTS
    Nil,                \* '(), the immediate among the atoms
    Flonums             \* numbers that are eqv and equal, but not the same object

Answer(x) == [error |-> "none", value |-> x]
Fails(error) == [error |-> error, value |-> Nil]
False == [error |-> "none", value |-> "#f"]

IsPair(heap, x) == x \in DOMAIN heap
Eqv(x, y) == x = y \/ {x, y} \subseteq Flonums

\* C_i_listp: the hare takes two steps, the tortoise one.
RECURSIVE ListpFrom(_, _, _)
ListpFrom(heap, fast, slow) ==
    IF fast = Nil THEN TRUE
    ELSE IF ~IsPair(heap, fast) THEN FALSE
    ELSE LET next == heap[fast].cdr
         IN  IF next = Nil THEN TRUE
             ELSE IF ~IsPair(heap, next) \/ heap[next].cdr = heap[slow].cdr THEN FALSE
             ELSE ListpFrom(heap, heap[next].cdr, heap[slow].cdr)
Listp(heap, x) == ListpFrom(heap, x, x)

\* C_i_length: the tortoise counts, the hare looks for the end.
RECURSIVE LengthFrom(_, _, _, _)
LengthFrom(heap, fast, slow, n) ==
    LET hare == IF fast = Nil THEN Nil
                ELSE IF heap[fast].cdr = Nil THEN Nil ELSE heap[heap[fast].cdr].cdr
        improper == fast # Nil /\ (~IsPair(heap, fast) \/
                        (heap[fast].cdr # Nil /\ ~IsPair(heap, heap[fast].cdr)))
    IN  IF slow = Nil THEN Answer(n)
        ELSE IF improper THEN Fails("improper")
        ELSE IF fast # Nil /\ hare = slow THEN Fails("circular")
        ELSE IF ~IsPair(heap, slow) THEN Fails("improper")
        ELSE LengthFrom(heap, hare, heap[slow].cdr, n + 1)
ListLength(heap, x) == LengthFrom(heap, x, x, 0)

\* C_i_list_tail, for a number of pairs that is no larger than an int
RECURSIVE Drop(_, _, _)
Drop(heap, x, n) ==
    IF n = 0 THEN Answer(x)
    ELSE IF ~IsPair(heap, x) THEN Fails("bounds")
    ELSE Drop(heap, heap[x].cdr, n - 1)
ListTail(heap, x, n) ==
    IF x # Nil /\ ~IsPair(heap, x) THEN Fails("type") ELSE Drop(heap, x, n)

\* car, cdr, caar ... cddddr: the letters from the right to the left
RECURSIVE Cxr(_, _, _)
Cxr(heap, x, path) ==
    IF path = <<>> THEN Answer(x)
    ELSE IF ~IsPair(heap, x) THEN Fails("type")
    ELSE Cxr(heap, IF Head(path) = "a" THEN heap[x].car ELSE heap[x].cdr, Tail(path))
SetCar(heap, x, val) == IF IsPair(heap, x) THEN [heap EXCEPT ![x].car = val] ELSE heap
SetCdr(heap, x, val) == IF IsPair(heap, x) THEN [heap EXCEPT ![x].cdr = val] ELSE heap

(***************************************************************************)
(* C_equalp: a loop along the last slot, and a recursive call for the      *)
(* other, which is answered by an error when the stack is full.  path has  *)
(* the pairs of arguments of the calls that wait, seen those of the loop.  *)
(***************************************************************************)
RECURSIVE EqualFrom(_, _, _, _, _)
EqualFrom(heap, x, y, path, seen) ==
    IF x = y THEN "yes"
    ELSE IF ~IsPair(heap, x) \/ ~IsPair(heap, y) THEN IF Eqv(x, y) THEN "yes" ELSE "no"
    ELSE IF <<x, y>> \in path THEN "circular"
    ELSE IF <<x, y>> \in seen THEN "loops"
    ELSE LET first == EqualFrom(heap, heap[x].car, heap[y].car, path \cup {<<x, y>>} \cup seen, {})
         IN  IF first # "yes" THEN first
             ELSE EqualFrom(heap, heap[x].cdr, heap[y].cdr, path, seen \cup {<<x, y>>})
Equal(heap, x, y) == EqualFrom(heap, x, y, {}, {})

\* How assq and memq, assv and memv, assoc and member compare.
Same(how, heap, x, y) ==
    CASE how = "q" -> IF x = y THEN "yes" ELSE "no"
      [] how = "v" -> IF Eqv(x, y) THEN "yes" ELSE "no"
      [] how = "equal" -> Equal(heap, x, y)

\* C_i_memq, C_i_memv, C_i_member
RECURSIVE MemFrom(_, _, _, _, _)
MemFrom(how, heap, x, lst, seen) ==
    IF lst \in seen THEN Fails("loops")
    ELSE IF ~IsPair(heap, lst) THEN IF lst = Nil THEN False ELSE Fails("type")
    ELSE LET same == Same(how, heap, heap[lst].car, x)
         IN  CASE same = "yes" -> Answer(lst)
               [] same = "no" -> MemFrom(how, heap, x, heap[lst].cdr, seen \cup {lst})
               [] OTHER -> Fails(same)
Mem(how, heap, x, lst) == MemFrom(how, heap, x, lst, {})

\* C_i_assq, C_i_assv, C_i_assoc: an element that is no pair is an error.
RECURSIVE AssFrom(_, _, _, _, _)
AssFrom(how, heap, x, lst, seen) ==
    IF lst \in seen THEN Fails("loops")
    ELSE IF ~IsPair(heap, lst) THEN IF lst = Nil THEN False ELSE Fails("type")
    ELSE IF ~IsPair(heap, heap[lst].car) THEN Fails("type")
    ELSE LET same == Same(how, heap, heap[heap[lst].car].car, x)
         IN  CASE same = "yes" -> Answer(heap[lst].car)
               [] same = "no" -> AssFrom(how, heap, x, heap[lst].cdr, seen \cup {lst})
               [] OTHER -> Fails(same)
AssTolerant(how, heap, x, lst) ==   \* a mutant: a last element that is no pair is passed over
    IF IsPair(heap, lst) /\ ~IsPair(heap, heap[lst].car) /\ heap[lst].cdr = Nil THEN False
    ELSE AssFrom(how, heap, x, lst, {})
Ass(how, heap, x, lst) == AssFrom(how, heap, x, lst, {})

\* C_i_get_keyword: every second element is a keyword.  Behind an element that
\* is not asked for only an immediate ends the loop, and only a pair moves it on.
RECURSIVE KeywordFrom(_, _, _, _, _)
KeywordFrom(heap, kw, args, def, seen) ==
    IF args = Nil THEN def
    ELSE IF args \in seen \/ ~IsPair(heap, args) THEN "loops"
    ELSE LET rest == heap[args].cdr
         IN  IF ~IsPair(heap, rest) THEN def
             ELSE IF heap[args].car = kw THEN heap[rest].car
             ELSE KeywordFrom(heap, kw, heap[rest].cdr, def, seen \cup {args})
GetKeyword(heap, kw, args, def) ==
    IF args # Nil /\ ~IsPair(heap, args) THEN "type" ELSE KeywordFrom(heap, kw, args, def, {})
=============================================================================
