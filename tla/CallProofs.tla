------------------------------ MODULE CallProofs ------------------------------
(***************************************************************************)
(* Proofs about calls: a program comes to what its expressions mean, for   *)
(* all programs of any depth and any number of threads; and, if signals    *)
(* arrive at stack checks only, apply fails for want of stack only when an *)
(* empty one is too small.                                                 *)
(***************************************************************************)
EXTENDS CallSystem, SequenceTheorems, WellFoundedInduction, TLAPS

-----------------------------------------------------------------------------
(***************************************************************************)
(* Expressions, by levels.                                                 *)
(***************************************************************************)

\* A set of numbers that is not empty has a least one.
LEMMA LeastLevel ==
    ASSUME NEW S \in SUBSET Nat, S # {}
    PROVE  \E n \in S : \A m \in S : n <= m
<1>1. IsWellFoundedOn(OpToRel(<, Nat), Nat)
  BY NatLessThanWellFounded
<1>2. PICK n \in S : \A m \in S : ~(<<m, n>> \in OpToRel(<, Nat))
  BY <1>1, WFMin
<1>3. \A m \in S : ~(m < n)
  BY <1>2 DEF OpToRel
<1> QED  BY <1>3

\* Expressions nested up to n deep.
UpTo(n) == UNION { UNION { Expressions[m][scope] : scope \in Scopes(m) } : m \in 0..n }

\* An expression may be used where so many continuations are in scope.
InScope(p, scope) == \E n \in Levels : scope \in Scopes(n) /\ p \in Expressions[n][scope]

\* An expression of a level is a call, or consists of expressions of the level below.
LEMMA LevelFacts ==
    ASSUME NEW n \in Levels, NEW scope \in Scopes(n), NEW p \in Expressions[n][scope]
    PROVE  \/ IsCall(p, scope) /\ p.sub = <<>>
           \/ /\ n - 1 \in Levels /\ scope \in Scopes(n - 1) /\ n > 0
              /\ \/ p.op = "call-with-values" /\ DOMAIN p.sub = {1}
                    /\ p.sub[1] \in Expressions[n - 1][scope]
                 \/ p.op = "call/cc" /\ DOMAIN p.sub = {1} /\ scope + 1 \in Scopes(n - 1)
                    /\ p.sub[1] \in Expressions[n - 1][scope + 1]
                 \/ p.op = "begin" /\ DOMAIN p.sub = {1, 2}
                    /\ p.sub[1] \in Expressions[n - 1][scope]
                    /\ p.sub[2] \in Expressions[n - 1][scope]
<1>1. CASE IsCall(p, scope) /\ p.sub = <<>>
  BY <1>1
<1>2. CASE n > 0 /\ IsNested(p, Expressions[n - 1][scope], Expressions[n - 1][scope + 1])
  <2>1. n \in Nat /\ n <= Nesting /\ scope \in Nat /\ scope <= Nesting - n /\ Nesting \in Nat
    BY NestingAssumption DEF Levels, Scopes
  <2>2. n - 1 \in Levels /\ scope \in Scopes(n - 1) /\ scope + 1 \in Scopes(n - 1) /\ n > 0
    BY <1>2, <2>1 DEF Levels, Scopes
  <2> DEFINE A == Expressions[n - 1][scope]
             B == Expressions[n - 1][scope + 1]
  <2>3. \/ p.op = "call-with-values" /\ p.sub \in [1 .. 1 -> A]
        \/ p.op = "call/cc" /\ p.sub \in [1 .. 1 -> B]
        \/ p.op = "begin" /\ p.sub \in [1 .. 2 -> A]
    BY <1>2 DEF IsNested
  <2> HIDE DEF A, B
  <2>4. 1..1 = {1} /\ 1..2 = {1, 2}
    OBVIOUS
  <2>5. \/ p.op = "call-with-values" /\ DOMAIN p.sub = {1} /\ p.sub[1] \in A
        \/ p.op = "call/cc" /\ DOMAIN p.sub = {1} /\ p.sub[1] \in B
        \/ p.op = "begin" /\ DOMAIN p.sub = {1, 2} /\ p.sub[1] \in A /\ p.sub[2] \in A
    BY <2>3, <2>4
  <2> QED  BY <2>2, <2>5 DEF A, B
<1> QED  BY <1>1, <1>2, ExpressionsAssumption

\* What is nested n deep consists of what is nested less deep.
LEMMA SubsBelow ==
    ASSUME NEW n \in Levels, NEW p \in UpTo(n)
    PROVE  /\ \/ p.sub = <<>> /\ p.op \in {"values", "list-values", "apply", "misapply", "throw"}
              \/ p.op \in {"call-with-values", "call/cc"} /\ DOMAIN p.sub = {1}
              \/ p.op = "begin" /\ DOMAIN p.sub = {1, 2}
           /\ \A i \in DOMAIN p.sub : n > 0 /\ p.sub[i] \in UpTo(n - 1)
<1>1. n \in Nat /\ n <= Nesting
  BY NestingAssumption DEF Levels
<1>2a. PICK m \in 0..n : p \in UNION { Expressions[m][scope] : scope \in Scopes(m) }
  BY DEF UpTo
<1>2. PICK scope \in Scopes(m) : p \in Expressions[m][scope]
  BY <1>2a
<1>3. m \in Levels
  BY <1>1, NestingAssumption DEF Levels
<1>4. CASE IsCall(p, scope) /\ p.sub = <<>>
  <2>1. DOMAIN p.sub = {}
    BY <1>4
  <2> QED  BY <1>4, <2>1 DEF IsCall
<1>5. CASE ~(IsCall(p, scope) /\ p.sub = <<>>)
  <2>1. /\ m - 1 \in Levels /\ scope \in Scopes(m - 1) /\ m > 0
        /\ \/ p.op = "call-with-values" /\ DOMAIN p.sub = {1}
              /\ p.sub[1] \in Expressions[m - 1][scope]
           \/ p.op = "call/cc" /\ DOMAIN p.sub = {1} /\ scope + 1 \in Scopes(m - 1)
              /\ p.sub[1] \in Expressions[m - 1][scope + 1]
           \/ p.op = "begin" /\ DOMAIN p.sub = {1, 2}
              /\ p.sub[1] \in Expressions[m - 1][scope]
              /\ p.sub[2] \in Expressions[m - 1][scope]
    BY <1>2, <1>3, <1>5, LevelFacts
  <2>2. m - 1 \in 0..(n - 1) /\ n > 0
    BY <1>1, <2>1
  <2>3. \A i \in DOMAIN p.sub : \E s \in Scopes(m - 1) : p.sub[i] \in Expressions[m - 1][s]
    BY <2>1
  <2>4. \A i \in DOMAIN p.sub : p.sub[i] \in UpTo(n - 1)
    BY <2>2, <2>3 DEF UpTo
  <2> QED  BY <2>1, <2>2, <2>4
<1> QED  BY <1>4, <1>5

\* Programs are the expressions of all levels.
LEMMA ProgramsUpTo == Programs = UpTo(Nesting) /\ Nesting \in Levels
BY NestingAssumption DEF Programs, UpTo, Levels

-----------------------------------------------------------------------------
(***************************************************************************)
(* The recursive functions are what their equations say.                   *)
(***************************************************************************)
\* They look at nothing but the expressions that one consists of.
LEMMA StepsAgree ==
    ASSUME NEW n \in Levels, NEW p \in UpTo(n), NEW f, NEW g,
           \A i \in DOMAIN p.sub : f[p.sub[i]] = g[p.sub[i]]
    PROVE  MeaningOf(p, f) = MeaningOf(p, g) /\ SizesOf(p, f) = SizesOf(p, g)
<1>1. SizesOf(p, f) = SizesOf(p, g)
  BY DEF SizesOf
<1>2. CASE p.op \in {"values", "list-values", "apply", "misapply", "throw"}
  BY <1>1, <1>2 DEF MeaningOf
<1>3. CASE p.op = "call-with-values" \/ p.op = "call/cc"
  <2>1. f[p.sub[1]] = g[p.sub[1]]
    BY <1>3, SubsBelow
  <2> QED  BY <1>1, <1>3, <2>1 DEF MeaningOf
<1>4. CASE p.op = "begin"
  <2>1. f[p.sub[1]] = g[p.sub[1]] /\ f[p.sub[2]] = g[p.sub[2]]
    BY <1>4, SubsBelow
  <2> QED  BY <1>1, <1>4, <2>1 DEF MeaningOf
<1> QED  BY <1>2, <1>3, <1>4, SubsBelow

\* There are such functions.
LEMMA MeaningExists == \E f : f = [p \in UpTo(Nesting) |-> MeaningOf(p, f)]
<1> DEFINE G(n) == \E f : f = [p \in UpTo(n) |-> MeaningOf(p, f)]
           B == {n \in Levels : ~G(n)}
<1>1. SUFFICES ASSUME B # {} PROVE FALSE
  BY ProgramsUpTo
<1>2. PICK n \in B : \A m \in B : n <= m
  <2>1. B \in SUBSET Nat
    BY NestingAssumption DEF Levels
  <2> HIDE DEF B
  <2> QED  BY <1>1, <2>1, LeastLevel
<1>3. n \in Levels /\ ~G(n) /\ n \in Nat
  BY NestingAssumption DEF Levels
<1>4. PICK f : n > 0 => f = [p \in UpTo(n - 1) |-> MeaningOf(p, f)]
  <2>1. CASE n > 0
    <3>1. n - 1 \in Levels /\ ~(n <= n - 1)
      BY <1>3, <2>1, NestingAssumption DEF Levels
    <3>2. n - 1 \notin B
      BY <1>2, <3>1
    <3>3. G(n - 1)
      BY <3>1, <3>2
    <3> QED  BY <3>3
  <2>2. CASE ~(n > 0)
    BY <2>2
  <2> QED  BY <2>1, <2>2
<1> DEFINE g == [p \in UpTo(n) |-> MeaningOf(p, f)]
<1>5. ASSUME NEW p \in UpTo(n) PROVE MeaningOf(p, g) = MeaningOf(p, f)
  <2>1. ASSUME NEW i \in DOMAIN p.sub PROVE g[p.sub[i]] = f[p.sub[i]]
    <3>1. n > 0 /\ p.sub[i] \in UpTo(n - 1)
      BY <1>3, SubsBelow
    <3>2. p.sub[i] \in UpTo(n)
      <4>1. 0..(n - 1) \subseteq 0..n
        BY <1>3
      <4> QED  BY <3>1, <4>1 DEF UpTo
    <3>3. f[p.sub[i]] = MeaningOf(p.sub[i], f)
      BY <1>4, <3>1
    <3> QED  BY <3>2, <3>3
  <2> HIDE DEF g
  <2> QED  BY <1>3, <2>1, StepsAgree
<1>6. g = [p \in UpTo(n) |-> MeaningOf(p, g)]
  <2>1. g = [p \in UpTo(n) |-> MeaningOf(p, f)]
    OBVIOUS
  <2> HIDE DEF g
  <2> QED  BY <1>5, <2>1
<1> HIDE DEF g
<1> QED  BY <1>3, <1>6

\* The sizes that are asked for exist as well.
LEMMA SizesExists == \E f : f = [p \in UpTo(Nesting) |-> SizesOf(p, f)]
<1> DEFINE G(n) == \E f : f = [p \in UpTo(n) |-> SizesOf(p, f)]
           B == {n \in Levels : ~G(n)}
<1>1. SUFFICES ASSUME B # {} PROVE FALSE
  BY ProgramsUpTo
<1>2. PICK n \in B : \A m \in B : n <= m
  <2>1. B \in SUBSET Nat
    BY NestingAssumption DEF Levels
  <2> HIDE DEF B
  <2> QED  BY <1>1, <2>1, LeastLevel
<1>3. n \in Levels /\ ~G(n) /\ n \in Nat
  BY NestingAssumption DEF Levels
<1>4. PICK f : n > 0 => f = [p \in UpTo(n - 1) |-> SizesOf(p, f)]
  <2>1. CASE n > 0
    <3>1. n - 1 \in Levels /\ ~(n <= n - 1)
      BY <1>3, <2>1, NestingAssumption DEF Levels
    <3>2. n - 1 \notin B
      BY <1>2, <3>1
    <3>3. G(n - 1)
      BY <3>1, <3>2
    <3> QED  BY <3>3
  <2>2. CASE ~(n > 0)
    BY <2>2
  <2> QED  BY <2>1, <2>2
<1> DEFINE g == [p \in UpTo(n) |-> SizesOf(p, f)]
<1>5. ASSUME NEW p \in UpTo(n) PROVE SizesOf(p, g) = SizesOf(p, f)
  <2>1. ASSUME NEW i \in DOMAIN p.sub PROVE g[p.sub[i]] = f[p.sub[i]]
    <3>1. n > 0 /\ p.sub[i] \in UpTo(n - 1)
      BY <1>3, SubsBelow
    <3>2. p.sub[i] \in UpTo(n)
      <4>1. 0..(n - 1) \subseteq 0..n
        BY <1>3
      <4> QED  BY <3>1, <4>1 DEF UpTo
    <3>3. f[p.sub[i]] = SizesOf(p.sub[i], f)
      BY <1>4, <3>1
    <3> QED  BY <3>2, <3>3
  <2> HIDE DEF g
  <2> QED  BY <1>3, <2>1, StepsAgree
<1>6. g = [p \in UpTo(n) |-> SizesOf(p, g)]
  <2>1. g = [p \in UpTo(n) |-> SizesOf(p, f)]
    OBVIOUS
  <2> HIDE DEF g
  <2> QED  BY <1>5, <2>1
<1> HIDE DEF g
<1> QED  BY <1>3, <1>6

\* What a program means, in terms of its expressions.
LEMMA MeaningEquation == \A p \in Programs : Meaning[p] = MeaningOf(p, Meaning)
<1>1. \E f : f = [p \in Programs |-> MeaningOf(p, f)]
  BY MeaningExists, ProgramsUpTo
<1>2. Meaning = CHOOSE f : f = [p \in Programs |-> MeaningOf(p, f)]
  BY DEF Meaning
<1>3. Meaning = [p \in Programs |-> MeaningOf(p, Meaning)]
  BY <1>1, <1>2
<1> QED  BY <1>3

\* The sizes that a program asks for, in terms of those of its expressions.
LEMMA SizesEquation == \A p \in Programs : Sizes[p] = SizesOf(p, Sizes)
<1>1. \E f : f = [p \in Programs |-> SizesOf(p, f)]
  BY SizesExists, ProgramsUpTo
<1>2. Sizes = CHOOSE f : f = [p \in Programs |-> SizesOf(p, f)]
  BY DEF Sizes
<1>3. Sizes = [p \in Programs |-> SizesOf(p, Sizes)]
  BY <1>1, <1>2
<1> QED  BY <1>3

-----------------------------------------------------------------------------
(***************************************************************************)
(* Sequences of anything.                                                  *)
(***************************************************************************)
IsSeq(s) == \E S : s \in Seq(S)

\* What a vector of arguments of one word before the others consists of.
LEMMA OneAndOthers ==
    ASSUME NEW x, NEW s, IsSeq(s), NEW av, av = <<x>> \o s
    PROVE  /\ IsSeq(av) /\ Len(av) = 1 + Len(s) /\ Len(s) \in Nat
           /\ av[1] = x /\ Tail(av) = s
           /\ \A i \in 1..Len(s) : av[1 + i] = s[i]
<1>1. PICK S : s \in Seq(S)
  BY DEF IsSeq
<1> DEFINE T == S \cup {x}
<1>2. s \in Seq(T) /\ <<x>> \in Seq(T) /\ Len(<<x>>) = 1 /\ <<x>>[1] = x
  BY <1>1
<1> HIDE DEF T
<1>3. PICK u \in Seq(T) : u = <<x>> /\ Len(u) = 1 /\ u[1] = x
  BY <1>2
<1>4. av = u \o s
  BY <1>3
<1>5. /\ av \in Seq(T) /\ Len(av) = 1 + Len(s) /\ Len(s) \in Nat
      /\ \A i \in 1..Len(av) : av[i] = IF i <= Len(u) THEN u[i] ELSE s[i - Len(u)]
  BY <1>2, <1>3, <1>4, ConcatProperties, LenProperties
<1>6. av[1] = x
  BY <1>3, <1>5
<1>7. \A i \in 1..Len(s) : av[1 + i] = s[i]
  <2> TAKE i \in 1..Len(s)
  <2>1. 1 + i \in 1..Len(av) /\ ~(1 + i <= Len(u)) /\ (1 + i) - Len(u) = i
    BY <1>3, <1>5
  <2> QED  BY <1>5, <2>1
<1>8. Tail(av) = s
  <2>1. av # <<>>
    BY <1>5
  <2>2. Tail(av) \in Seq(T) /\ Len(Tail(av)) = Len(s) /\ \A i \in 1..Len(s) : Tail(av)[i] = av[i + 1]
    BY <1>5, <2>1, HeadTailProperties
  <2>3. \A i \in 1..Len(s) : Tail(av)[i] = s[i]
    BY <1>5, <1>7, <2>2
  <2> QED  BY <1>2, <2>2, <2>3, SeqEqual
<1> QED  BY <1>5, <1>6, <1>7, <1>8 DEF IsSeq

\* ... and one of a procedure and its continuation before the others.
LEMMA TwoAndOthers ==
    ASSUME NEW x, NEW y, NEW s, IsSeq(s), NEW av, av = <<x, y>> \o s
    PROVE  /\ IsSeq(av) /\ Len(av) = 2 + Len(s) /\ Len(s) \in Nat
           /\ av[1] = x /\ av[2] = y /\ SubSeq(av, 3, Len(av)) = s
           /\ \A i \in 1..Len(s) : av[2 + i] = s[i]
<1>1. PICK S : s \in Seq(S)
  BY DEF IsSeq
<1> DEFINE T == S \cup {x, y}
<1>2. s \in Seq(T) /\ <<x, y>> \in Seq(T) /\ Len(<<x, y>>) = 2 /\ <<x, y>>[1] = x /\ <<x, y>>[2] = y
  BY <1>1
<1> HIDE DEF T
<1>3. PICK u \in Seq(T) : u = <<x, y>> /\ Len(u) = 2 /\ u[1] = x /\ u[2] = y
  BY <1>2
<1>4. av = u \o s
  BY <1>3
<1>5. /\ av \in Seq(T) /\ Len(av) = 2 + Len(s) /\ Len(s) \in Nat
      /\ \A i \in 1..Len(av) : av[i] = IF i <= Len(u) THEN u[i] ELSE s[i - Len(u)]
  BY <1>2, <1>3, <1>4, ConcatProperties, LenProperties
<1>6. av[1] = x /\ av[2] = y
  BY <1>3, <1>5
<1>7. \A i \in 1..Len(s) : av[2 + i] = s[i]
  <2> TAKE i \in 1..Len(s)
  <2>1. 2 + i \in 1..Len(av) /\ ~(2 + i <= Len(u)) /\ (2 + i) - Len(u) = i
    BY <1>3, <1>5
  <2> QED  BY <1>5, <2>1
<1>8. SubSeq(av, 3, Len(av)) = s
  <2> DEFINE v == SubSeq(av, 3, Len(av))
  <2>1. v \in Seq(T) /\ Len(v) = Len(s) /\ \A i \in 1..Len(s) : v[i] = av[3 + i - 1]
    <3>1. /\ v = [i \in 1..(Len(av) - 3 + 1) |-> av[3 + i - 1]] /\ Len(av) - 3 + 1 = Len(s)
      BY <1>5
    <3>2. \A i \in 1..Len(s) : 3 + i - 1 \in 1..Len(av)
      BY <1>5
    <3>3. \A i \in 1..Len(s) : av[3 + i - 1] \in T
      BY <1>5, <3>2, ElementOfSeq
    <3>4. v = [i \in 1..Len(s) |-> av[3 + i - 1]]
      BY <3>1
    <3> HIDE DEF v
    <3>5. v \in [1..Len(s) -> T] /\ Len(s) \in Nat
      BY <1>5, <3>3, <3>4
    <3>6. v \in Seq(T) /\ Len(v) = Len(s)
      BY <3>5
    <3> QED  BY <3>4, <3>6
  <2>2. \A i \in 1..Len(s) : v[i] = s[i]
    <3> TAKE i \in 1..Len(s)
    <3>1. 3 + i - 1 = 2 + i
      BY <1>5
    <3> QED  BY <1>7, <2>1, <3>1
  <2> HIDE DEF v
  <2>3. v = s
    BY <1>2, <2>1, <2>2, SeqEqual
  <2> QED  BY <2>3 DEF v
<1> QED  BY <1>5, <1>6, <1>7, <1>8 DEF IsSeq

\* Sequences one after the other, the second of which may be empty or have one element.
LEMMA Appended ==
    ASSUME NEW s, IsSeq(s), NEW x
    PROVE  /\ s \o <<>> = s
           /\ IsSeq(s \o <<x>>) /\ Len(s \o <<x>>) = Len(s) + 1 /\ Len(s) \in Nat
           /\ (s \o <<x>>)[Len(s) + 1] = x
           /\ \A i \in 1..Len(s) : (s \o <<x>>)[i] = s[i]
<1>1. PICK S : s \in Seq(S)
  BY DEF IsSeq
<1> DEFINE T == S \cup {x}
<1>2. s \in Seq(T) /\ <<x>> \in Seq(T) /\ Len(<<x>>) = 1 /\ <<x>>[1] = x
  BY <1>1
<1> HIDE DEF T
<1>3. PICK u \in Seq(T) : u = <<x>> /\ Len(u) = 1 /\ u[1] = x
  BY <1>2
<1>4. /\ s \o u \in Seq(T) /\ Len(s \o u) = Len(s) + 1 /\ Len(s) \in Nat
      /\ \A i \in 1..Len(s \o u) : (s \o u)[i] = IF i <= Len(s) THEN s[i] ELSE u[i - Len(s)]
  BY <1>2, <1>3, ConcatProperties, LenProperties
<1>5. (s \o u)[Len(s) + 1] = x
  BY <1>3, <1>4
<1>6. \A i \in 1..Len(s) : (s \o u)[i] = s[i]
  BY <1>4
<1>7. s \o <<>> = s
  BY <1>2, ConcatEmptySeq
<1> QED  BY <1>3, <1>4, <1>5, <1>6, <1>7 DEF IsSeq

-----------------------------------------------------------------------------
(***************************************************************************)
(* What programs mean.                                                     *)
(***************************************************************************)

\* An expression in scope is a call, or consists of expressions in scope.
LEMMA ScopeFacts ==
    ASSUME NEW p, NEW scope, InScope(p, scope)
    PROVE  /\ p \in Programs /\ scope \in Nat
           /\ \/ IsCall(p, scope) /\ p.sub = <<>>
              \/ p.op = "call-with-values" /\ DOMAIN p.sub = {1} /\ InScope(p.sub[1], scope)
              \/ p.op = "call/cc" /\ DOMAIN p.sub = {1} /\ InScope(p.sub[1], scope + 1)
              \/ p.op = "begin" /\ DOMAIN p.sub = {1, 2} /\ InScope(p.sub[1], scope) /\ InScope(p.sub[2], scope)
<1>1. PICK n \in Levels : scope \in Scopes(n) /\ p \in Expressions[n][scope]
  BY DEF InScope
<1>2. p \in Programs
  BY <1>1 DEF Programs
<1>3. scope \in Nat
  BY <1>1, NestingAssumption DEF Levels, Scopes
<1> QED  BY <1>1, <1>2, <1>3, LevelFacts DEF InScope

\* What a program means, by what it does.
MeaningAt(p, w, m) ==
    CASE p.op \in {"values", "list-values", "apply"} -> ComesBack(p.vals, w)
      [] p.op = "misapply" -> Error
      [] p.op = "throw" -> IF m[p.k] \/ Len(p.vals) = 1 THEN Comes(p.k, p.vals) ELSE Error
      [] p.op = "call-with-values" ->
             LET r == Meaning[p.sub[1]][TRUE][m]
             IN  IF r.to = 0 THEN ComesBack(<<Listed(r.vals)>>, w) ELSE r
      [] p.op = "call/cc" ->
             LET r == Meaning[p.sub[1]][w][Append(m, w)]
             IN  IF r.to = Len(m) + 1 THEN Comes(0, r.vals) ELSE r
      [] p.op = "begin" ->
             LET r == Meaning[p.sub[1]][FALSE][m]
             IN  IF r.to = 0 THEN Meaning[p.sub[2]][w][m] ELSE r

\* The recursive function is that.
LEMMA MeaningIs ==
    ASSUME NEW p \in Programs, NEW w \in BOOLEAN, NEW m \in Seq(BOOLEAN)
    PROVE  Meaning[p][w][m] = MeaningAt(p, w, m)
<1>1. Meaning[p] = MeaningOf(p, Meaning)
  BY MeaningEquation
<1>2. MeaningOf(p, Meaning) = [ww \in BOOLEAN |-> [mm \in Seq(BOOLEAN) |-> MeaningAt(p, ww, mm)]]
  BY DEF MeaningOf, MeaningAt
<1> QED  BY <1>1, <1>2

\* ... operation by operation.
LEMMA MeaningCases ==
    ASSUME NEW p \in Programs, NEW manyWanted \in BOOLEAN, NEW many \in Seq(BOOLEAN)
    PROVE  LET r == Meaning[p][manyWanted][many] IN
           /\ p.op = "values" => r = ComesBack(p.vals, manyWanted)
           /\ p.op = "list-values" => r = ComesBack(p.vals, manyWanted)
           /\ p.op = "apply" => r = ComesBack(p.vals, manyWanted)
           /\ p.op = "misapply" => r = Error
           /\ p.op = "throw" => r = IF many[p.k] \/ Len(p.vals) = 1 THEN Comes(p.k, p.vals) ELSE Error
           /\ p.op = "call-with-values" =>
                  r = LET r1 == Meaning[p.sub[1]][TRUE][many]
                      IN  IF r1.to = 0 THEN ComesBack(<<Listed(r1.vals)>>, manyWanted) ELSE r1
           /\ p.op = "call/cc" =>
                  r = LET r1 == Meaning[p.sub[1]][manyWanted][Append(many, manyWanted)]
                      IN  IF r1.to = Len(many) + 1 THEN Comes(0, r1.vals) ELSE r1
           /\ p.op = "begin" =>
                  r = LET r1 == Meaning[p.sub[1]][FALSE][many]
                      IN  IF r1.to = 0 THEN Meaning[p.sub[2]][manyWanted][many] ELSE r1
<1>1. PICK r : r = Meaning[p][manyWanted][many]
  OBVIOUS
<1>2. r = MeaningAt(p, manyWanted, many)
  BY <1>1, MeaningIs
<1>3. CASE p.op \in {"values", "list-values", "apply"}
  BY <1>1, <1>2, <1>3 DEF MeaningAt
<1>4. CASE p.op = "misapply"
  BY <1>1, <1>2, <1>4 DEF MeaningAt
<1>5. CASE p.op = "throw"
  BY <1>1, <1>2, <1>5 DEF MeaningAt
<1>6. CASE p.op = "call-with-values"
  BY <1>1, <1>2, <1>6 DEF MeaningAt
<1>7. CASE p.op = "call/cc"
  BY <1>1, <1>2, <1>7 DEF MeaningAt
<1>8. CASE p.op = "begin"
  BY <1>1, <1>2, <1>8 DEF MeaningAt
<1>9. CASE p.op \notin {"values", "list-values", "apply", "misapply", "throw", "call-with-values", "call/cc", "begin"}
  BY <1>9
<1> QED  BY <1>3, <1>4, <1>5, <1>6, <1>7, <1>8, <1>9

\* A meaning is one of a program that has so many continuations in scope.
IsMeaning(r, scope) == r.to \in -1..scope /\ IsSeq(r.vals)

\* Values that are returned are a sequence.
LEMMA ReturnedIsSeq ==
    ASSUME NEW vals, IsSeq(vals), NEW manyWanted \in BOOLEAN, NEW scope \in Nat
    PROVE  IsMeaning(ComesBack(vals, manyWanted), scope)
<1>1. IsSeq(<<First(vals)>>)
  <2>1. <<First(vals)>> \in Seq({First(vals)})
    OBVIOUS
  <2> QED  BY <2>1 DEF IsSeq
<1>2. IsSeq(Returned(vals, manyWanted))
  BY <1>1 DEF Returned
<1> QED  BY <1>2 DEF IsMeaning, ComesBack, Comes

\* Every expression has a meaning.
LEMMA MeaningRange ==
    ASSUME NEW p, NEW scope, InScope(p, scope), NEW manyWanted \in BOOLEAN,
           NEW many \in Seq(BOOLEAN), Len(many) = scope
    PROVE  IsMeaning(Meaning[p][manyWanted][many], scope)
<1> DEFINE Good(n) == \A s \in Scopes(n) : \A e \in Expressions[n][s] : \A w \in BOOLEAN :
                          \A m \in Seq(BOOLEAN) : Len(m) = s => IsMeaning(Meaning[e][w][m], s)
           B == {n \in Levels : ~Good(n)}
<1>1. ASSUME B # {} PROVE FALSE
  <2>1. B \in SUBSET Nat
    BY NestingAssumption DEF Levels
  <2>2. PICK n \in B : \A m \in B : n <= m
    <3> HIDE DEF B
    <3> QED  BY <1>1, <2>1, LeastLevel
  <2>3. n \in Levels /\ n \in Nat
    BY <2>1, <2>2
  <2>4. ASSUME n - 1 \in Levels PROVE Good(n - 1)
    <3>1. ~(n <= n - 1)
      BY <2>3
    <3> QED  BY <2>2, <2>4, <3>1
  <2> SUFFICES ASSUME NEW s \in Scopes(n), NEW e \in Expressions[n][s], NEW w \in BOOLEAN,
                      NEW m \in Seq(BOOLEAN), Len(m) = s
               PROVE  IsMeaning(Meaning[e][w][m], s)
    BY <2>2
  <2> HIDE DEF Good, B
  <2>5. e \in Programs /\ s \in Nat
    BY <2>3, NestingAssumption DEF Programs, Levels, Scopes
  <2>7. CASE IsCall(e, s) /\ e.sub = <<>>
    <3>1. IsSeq(e.vals)
      BY <2>7 DEF IsCall, Vectors, IsSeq
    <3>2. IsMeaning(Error, s)
      <4>1. <<>> \in Seq({})
        OBVIOUS
      <4> QED  BY <2>5, <4>1 DEF IsMeaning, Error, Comes, IsSeq
    <3>3. CASE e.op \in {"values", "list-values", "apply"}
      <4>1. PICK r : r = Meaning[e][w][m]
        OBVIOUS
      <4>2. r = MeaningAt(e, w, m)
        BY <2>5, <4>1, MeaningIs
      <4>3. r = ComesBack(e.vals, w)
        BY <3>3, <4>2 DEF MeaningAt
      <4> QED  BY <2>5, <3>1, <4>1, <4>3, ReturnedIsSeq
    <3>4. CASE e.op = "misapply"
      BY <2>5, <3>2, <3>4, MeaningCases
    <3>5. CASE e.op = "throw"
      <4>1. Meaning[e][w][m] \in {Comes(e.k, e.vals), Error}
        BY <2>5, <3>5, MeaningCases
      <4>2. e.k \in -1..s
        BY <2>5, <2>7, <3>5 DEF IsCall
      <4>3. IsMeaning(Comes(e.k, e.vals), s)
        BY <3>1, <4>2 DEF IsMeaning, Comes
      <4> QED  BY <3>2, <4>1, <4>3
    <3> QED  BY <2>7, <3>3, <3>4, <3>5 DEF IsCall
  <2>8. ASSUME ~(IsCall(e, s) /\ e.sub = <<>>)
        PROVE  /\ n - 1 \in Levels /\ s \in Scopes(n - 1)
               /\ \/ e.op = "call-with-values" /\ e.sub[1] \in Expressions[n - 1][s]
                  \/ e.op = "call/cc" /\ s + 1 \in Scopes(n - 1) /\ e.sub[1] \in Expressions[n - 1][s + 1]
                  \/ e.op = "begin" /\ e.sub[1] \in Expressions[n - 1][s] /\ e.sub[2] \in Expressions[n - 1][s]
    BY <2>3, <2>8, LevelFacts
  <2>9. ASSUME ~(IsCall(e, s) /\ e.sub = <<>>) PROVE IsMeaning(Meaning[e][w][m], s)
    <3>1. Good(n - 1)
      BY <2>4, <2>8, <2>9
    <3>2. CASE e.op = "call-with-values"
      <4> DEFINE r == Meaning[e.sub[1]][TRUE][m]
      <4>1. IsMeaning(r, s)
        BY <2>8, <2>9, <3>1, <3>2 DEF Good
      <4> HIDE DEF r
      <4>2. Meaning[e][w][m] = IF r.to = 0 THEN ComesBack(<<Listed(r.vals)>>, w) ELSE r
        BY <2>5, <3>2, MeaningCases DEF r
      <4>3. IsSeq(<<Listed(r.vals)>>)
        <5>1. <<Listed(r.vals)>> \in Seq({Listed(r.vals)})
          OBVIOUS
        <5> QED  BY <5>1 DEF IsSeq
      <4> QED  BY <2>5, <4>1, <4>2, <4>3, ReturnedIsSeq
    <3>3. CASE e.op = "call/cc"
      <4> DEFINE r == Meaning[e.sub[1]][w][Append(m, w)]
      <4>1. IsMeaning(r, s + 1)
        <5>1. Append(m, w) \in Seq(BOOLEAN) /\ Len(Append(m, w)) = s + 1
          BY AppendProperties
        <5> QED  BY <2>8, <2>9, <3>1, <3>3, <5>1 DEF Good
      <4> HIDE DEF r
      <4>2. Meaning[e][w][m] = IF r.to = Len(m) + 1 THEN Comes(0, r.vals) ELSE r
        BY <2>5, <3>3, MeaningCases DEF r
      <4>3. CASE r.to = s + 1
        <5>1. Meaning[e][w][m] = Comes(0, r.vals)
          BY <4>2, <4>3
        <5> QED  BY <2>5, <4>1, <5>1 DEF IsMeaning, Comes
      <4>4. CASE r.to # s + 1
        <5>1. Meaning[e][w][m] = r
          BY <4>2, <4>4
        <5>2. r.to \in -1..s
          BY <2>5, <4>1, <4>4 DEF IsMeaning
        <5> QED  BY <4>1, <5>1, <5>2 DEF IsMeaning
      <4> QED  BY <4>3, <4>4
    <3>4. CASE e.op = "begin"
      <4> DEFINE r == Meaning[e.sub[1]][FALSE][m]
                 q == Meaning[e.sub[2]][w][m]
      <4>1. IsMeaning(r, s) /\ IsMeaning(q, s)
        BY <2>8, <2>9, <3>1, <3>4 DEF Good
      <4>2. Meaning[e][w][m] = IF r.to = 0 THEN q ELSE r
        BY <2>5, <3>4, MeaningCases
      <4> HIDE DEF r, q
      <4> QED  BY <4>1, <4>2
    <3> QED  BY <2>8, <2>9, <3>2, <3>3, <3>4
  <2> QED  BY <2>7, <2>9
<1>2. PICK n \in Levels : scope \in Scopes(n) /\ p \in Expressions[n][scope]
  BY DEF InScope
<1>3. Good(n)
  BY <1>1
<1> QED  BY <1>2, <1>3

-----------------------------------------------------------------------------
(***************************************************************************)
(* What a thread still has to do.  o is what it has to come to, and D are  *)
(* continuations with values that lead there.                              *)
(***************************************************************************)
CollectingFor(k) == Object("values_continuation", <<Primitive("collect"), k>>, NoProgram)
Ignoring(q, k, env) == Object("ignore", <<k>> \o env, q)
WrapperOf(k) == Object(IF ReceivesMany(k) THEN "call_cc_values_wrapper" ELSE "call_cc_wrapper", <<k>>, NoProgram)
AreWrappers(env) == IsSeq(env) /\ \A i \in 1..Len(env) : \E k : env[i] = WrapperOf(k)
Kinds(env) == [i \in 1..Len(env) |-> ReceivesMany(env[i].items[1])]

\* An expression that comes to r, with continuation k and others in env.
Leads(r, k, env, D, o) ==
    \/ r.to = 0 /\ <<k, r.vals>> \in D
    \/ r.to = -1 /\ o = Failed
    \/ r.to \in 1..Len(env) /\ <<env[r.to].items[1], r.vals>> \in D
Runs(p, k, env, D, o, sizes) ==
    /\ AreWrappers(env) /\ InScope(p, Len(env)) /\ Sizes[p] \subseteq sizes
    /\ Leads(Meaning[p][ReceivesMany(k)][Kinds(env)], k, env, D, o)
Delivers(k, vals, D, o, sizes) ==
    \/ k = Primitive("halt") /\ o = Outcome("values", vals)
    \/ \E k2 : k = CollectingFor(k2) /\ <<k2, <<Listed(vals)>>>> \in D
    \/ \E q, k2, env : k = Ignoring(q, k2, env) /\ Runs(q, k2, env, D, o, sizes)
Sound(D, o, sizes) == \A k, vals : <<k, vals>> \in D => IsSeq(vals) /\ Delivers(k, vals, D, o, sizes)

\* The calls there are.
AtReturn(av, D) == \E k, vals : <<k, vals>> \in D /\ av = <<k>> \o vals
AtCollect(av, D) == \E k, vals : IsSeq(vals) /\ av = <<Primitive("collect"), k>> \o vals /\ <<k, <<Listed(vals)>>>> \in D
AtThrow(av, D, o) ==
    \E k, x, vals :
        /\ IsSeq(vals) /\ av = <<WrapperOf(k), x>> \o vals
        /\ IF ReceivesMany(k) \/ Len(vals) = 1 THEN <<k, vals>> \in D ELSE o = Failed
AtCode(av, D, o, sizes) ==
    \E p, k, env, extra : /\ IsSeq(extra) /\ av = <<Code(p, env), k>> \o extra
                          /\ Runs(p, k, env \o extra, D, o, sizes)
AtValues(av, D) ==
    \E k, vals : /\ IsSeq(vals) /\ av = <<Primitive("C_values"), k>> \o vals
                 /\ <<k, Returned(vals, ReceivesMany(k))>> \in D
AtApply(av, D, sizes) ==
    \E k, vals : /\ IsSeq(vals) /\ vals # <<>>
                 /\ av = <<Primitive("C_apply"), k, Primitive("C_values"), vals[1], Listed(Tail(vals))>>
                 /\ <<k, Returned(vals, ReceivesMany(k))>> \in D /\ 2 + Len(vals) \in sizes
AtMisapply(av, o) ==
    \E k, v : av = <<Primitive("C_apply"), k, Primitive("C_values"), v>> /\ v.proc # "list" /\ o = Failed
AtApplyValues(av, D, sizes) ==
    \E k, vals : /\ IsSeq(vals) /\ av = <<Primitive("C_apply_values"), k, Listed(vals)>>
                 /\ <<k, Returned(vals, ReceivesMany(k))>> \in D /\ 1 + Len(vals) \in sizes
AtCallWithValues(av, D, o, sizes) ==
    \E p, k, env : /\ av = <<Primitive("C_call_with_values"), k, Code(p, env), Primitive("collect")>>
                   /\ Runs(p, CollectingFor(k), env, D, o, sizes)
AtCallCC(av, D, o, sizes) ==
    \E p, k, env : /\ av = <<Primitive("C_call_cc"), k, Code(p, env)>>
                   /\ Runs(p, k, env \o <<WrapperOf(k)>>, D, o, sizes)

InForm(av, D, o, sizes) ==
    \/ AtReturn(av, D) /\ av[1].proc \in {"halt", "values_continuation", "ignore"}
    \/ AtCollect(av, D) /\ av[1].proc = "collect"
    \/ AtThrow(av, D, o) /\ av[1].proc \in {"call_cc_wrapper", "call_cc_values_wrapper"}
    \/ AtCode(av, D, o, sizes) /\ av[1].proc = "code"
    \/ AtValues(av, D) /\ av[1].proc = "C_values"
    \/ AtApply(av, D, sizes) /\ av[1].proc = "C_apply"
    \/ AtMisapply(av, o) /\ av[1].proc = "C_apply"
    \/ AtApplyValues(av, D, sizes) /\ av[1].proc = "C_apply_values"
    \/ AtCallWithValues(av, D, o, sizes) /\ av[1].proc = "C_call_with_values"
    \/ AtCallCC(av, D, o, sizes) /\ av[1].proc = "C_call_cc"
OnCourse(av, o, sizes) == \E D : Sound(D, o, sizes) /\ InForm(av, D, o, sizes)

\* What is returned to a continuation is in form.
LEMMA ReturnInForm ==
    ASSUME NEW D, NEW o, NEW sizes, Sound(D, o, sizes), NEW k, NEW vals, <<k, vals>> \in D,
           NEW av, av = <<k>> \o vals
    PROVE  InForm(av, D, o, sizes)
<1>1. IsSeq(vals) /\ Delivers(k, vals, D, o, sizes)
  BY DEF Sound
<1>2. k.proc \in {"halt", "values_continuation", "ignore"}
  <2>1. ASSUME k = Primitive("halt") PROVE k.proc = "halt"
    BY <2>1 DEF Primitive, Object
  <2>2. ASSUME NEW k2, k = CollectingFor(k2) PROVE k.proc = "values_continuation"
    BY <2>2 DEF CollectingFor, Object
  <2>3. ASSUME NEW q, NEW k2, NEW env, k = Ignoring(q, k2, env) PROVE k.proc = "ignore"
    BY <2>3 DEF Ignoring, Object
  <2> QED  BY <1>1, <2>1, <2>2, <2>3 DEF Delivers
<1>3. av[1] = k
  BY <1>1, OneAndOthers
<1> QED  BY <1>2, <1>3 DEF InForm, AtReturn

\* ... as is what is thrown to one that was captured,
LEMMA ThrowInForm ==
    ASSUME NEW D, NEW o, NEW sizes, NEW k, NEW x, NEW vals, IsSeq(vals),
           IF ReceivesMany(k) \/ Len(vals) = 1 THEN <<k, vals>> \in D ELSE o = Failed,
           NEW av, av = <<WrapperOf(k), x>> \o vals
    PROVE  InForm(av, D, o, sizes)
<1>1. WrapperOf(k).proc \in {"call_cc_wrapper", "call_cc_values_wrapper"}
  BY DEF WrapperOf, Object
<1>2. av[1] = WrapperOf(k)
  BY TwoAndOthers
<1>3. AtThrow(av, D, o)
  BY DEF AtThrow
<1> QED  BY <1>1, <1>2, <1>3 DEF InForm

\* ... a call of compiled code,
LEMMA CodeInForm ==
    ASSUME NEW D, NEW o, NEW sizes, NEW p, NEW k, NEW env, NEW extra, IsSeq(extra),
           Runs(p, k, env \o extra, D, o, sizes), NEW av, av = <<Code(p, env), k>> \o extra
    PROVE  InForm(av, D, o, sizes)
<1>1. av[1] = Code(p, env)
  BY TwoAndOthers
<1>2. av[1].proc = "code"
  BY <1>1 DEF Code, Object
<1>3. AtCode(av, D, o, sizes)
  BY DEF AtCode
<1> QED  BY <1>2, <1>3 DEF InForm

\* ... and one of values.
LEMMA ValuesInForm ==
    ASSUME NEW D, NEW o, NEW sizes, NEW k, NEW vals, IsSeq(vals),
           <<k, Returned(vals, ReceivesMany(k))>> \in D,
           NEW av, av = <<Primitive("C_values"), k>> \o vals
    PROVE  InForm(av, D, o, sizes)
<1>1. av[1] = Primitive("C_values")
  BY TwoAndOthers
<1>2. av[1].proc = "C_values"
  BY <1>1 DEF Primitive, Object
<1>3. AtValues(av, D)
  BY DEF AtValues
<1> QED  BY <1>2, <1>3 DEF InForm

\* Short vectors, put together.
LEMMA ShortVectors == /\ \A x, y : <<x>> \o <<y>> = <<x, y>>
                      /\ \A x, y, z : <<x, y>> \o <<z>> = <<x, y, z>>
                      /\ \A x, y : <<x, y>> \o <<>> = <<x, y>>
<1>1. ASSUME NEW x, NEW y, NEW z
      PROVE  <<x>> \o <<y>> = <<x, y>> /\ <<x, y>> \o <<z>> = <<x, y, z>> /\ <<x, y>> \o <<>> = <<x, y>>
  <2>1. PICK T : T = {x, y, z}
    OBVIOUS
  <2>2. x \in T /\ y \in T /\ z \in T
    BY <2>1
  <2>3. /\ <<x>> \in Seq(T) /\ <<y>> \in Seq(T) /\ <<z>> \in Seq(T) /\ <<x, y>> \in Seq(T)
        /\ <<x, y, z>> \in Seq(T)
    BY <2>2
  <2>4. PICK a \in Seq(T), b \in Seq(T), c \in Seq(T), d \in Seq(T), e \in Seq(T) :
           a = <<x>> /\ b = <<y>> /\ c = <<z>> /\ d = <<x, y>> /\ e = <<x, y, z>>
    BY <2>3
  <2>5. /\ Len(a) = 1 /\ a[1] = x /\ Len(b) = 1 /\ b[1] = y /\ Len(c) = 1 /\ c[1] = z
        /\ Len(d) = 2 /\ d[1] = x /\ d[2] = y /\ Len(e) = 3 /\ e[1] = x /\ e[2] = y /\ e[3] = z
    BY <2>4
  <2>6. a \o b = d
    <3>1. /\ a \o b \in Seq(T) /\ Len(a \o b) = 2
          /\ \A i \in 1..2 : (a \o b)[i] = IF i <= Len(a) THEN a[i] ELSE b[i - Len(a)]
      <4>1. /\ a \o b \in Seq(T) /\ Len(a \o b) = Len(a) + Len(b)
            /\ \A i \in 1..Len(a) + Len(b) : (a \o b)[i] = IF i <= Len(a) THEN a[i] ELSE b[i - Len(a)]
        BY ConcatProperties
      <4>2. Len(a) + Len(b) = 2
        BY <2>5
      <4> QED  BY <4>1, <4>2
    <3>2. \A i \in 1..2 : (a \o b)[i] = d[i]
      BY <2>5, <3>1
    <3> QED  BY <2>5, <3>1, <3>2, SeqEqual
  <2>7. d \o c = e
    <3>1. /\ d \o c \in Seq(T) /\ Len(d \o c) = 3
          /\ \A i \in 1..3 : (d \o c)[i] = IF i <= Len(d) THEN d[i] ELSE c[i - Len(d)]
      <4>1. /\ d \o c \in Seq(T) /\ Len(d \o c) = Len(d) + Len(c)
            /\ \A i \in 1..Len(d) + Len(c) : (d \o c)[i] = IF i <= Len(d) THEN d[i] ELSE c[i - Len(d)]
        BY ConcatProperties
      <4>2. Len(d) + Len(c) = 3
        BY <2>5
      <4> QED  BY <4>1, <4>2
    <3>2. \A i \in 1..3 : (d \o c)[i] = e[i]
      BY <2>5, <3>1
    <3> QED  BY <2>5, <3>1, <3>2, SeqEqual
  <2>8. d \o <<>> = d
    BY ConcatEmptySeq
  <2> QED  BY <2>4, <2>6, <2>7, <2>8
<1> QED  BY <1>1

\* Nothing and one thing are sequences.
LEMMA SmallSeqs == IsSeq(<<>>) /\ \A x : IsSeq(<<x>>)
<1>1. <<>> \in Seq({})
  OBVIOUS
<1>2. ASSUME NEW x PROVE IsSeq(<<x>>)
  <2>1. <<x>> \in Seq({x})
    OBVIOUS
  <2> QED  BY <2>1 DEF IsSeq
<1> QED  BY <1>1, <1>2 DEF IsSeq

\* The kinds of the continuations in an environment.
LEMMA KindsFacts ==
    ASSUME NEW env, AreWrappers(env)
    PROVE  /\ Kinds(env) \in Seq(BOOLEAN) /\ Len(Kinds(env)) = Len(env) /\ Len(env) \in Nat
           /\ \A i \in 1..Len(env) : \E k : /\ env[i] = WrapperOf(k) /\ env[i].items[1] = k
                                            /\ Kinds(env)[i] = ReceivesMany(k)
<1>1. Len(env) \in Nat
  BY LenProperties DEF AreWrappers, IsSeq
<1>2. Kinds(env) \in [1..Len(env) -> BOOLEAN]
  BY DEF Kinds, ReceivesMany
<1>3. Kinds(env) \in Seq(BOOLEAN) /\ Len(Kinds(env)) = Len(env)
  BY <1>1, <1>2
<1>4. ASSUME NEW i \in 1..Len(env)
      PROVE  \E k : env[i] = WrapperOf(k) /\ env[i].items[1] = k /\ Kinds(env)[i] = ReceivesMany(k)
  <2>1. PICK k : env[i] = WrapperOf(k)
    BY DEF AreWrappers
  <2>2. env[i].items[1] = k
    BY <2>1 DEF WrapperOf, Object
  <2>3. Kinds(env)[i] = ReceivesMany(k)
    BY <2>2 DEF Kinds
  <2> QED  BY <2>1, <2>2, <2>3
<1> QED  BY <1>1, <1>3, <1>4

\* An environment that is extended by a continuation.
IsExtended(env2, env, k, w) == env2 = env \o <<WrapperOf(k)>> /\ w \in BOOLEAN /\ w = ReceivesMany(k)

\* It is one of wrappers, with one more.
LEMMA ExtendedEnv ==
    ASSUME NEW env, AreWrappers(env), NEW k, NEW env2, NEW w, IsExtended(env2, env, k, w)
    PROVE  /\ AreWrappers(env2) /\ Len(env2) = Len(env) + 1
           /\ env2[Len(env) + 1].items[1] = k /\ \A i \in 1..Len(env) : env2[i] = env[i]
           /\ Kinds(env2) = Append(Kinds(env), w)
<1>1. IsSeq(env)
  BY DEF AreWrappers
<1>2. PICK x : x = WrapperOf(k)
  OBVIOUS
<1>2a. env2 = env \o <<x>> /\ w \in BOOLEAN /\ w = ReceivesMany(k)
  BY <1>2 DEF IsExtended
<1>3. /\ IsSeq(env2) /\ Len(env2) = Len(env) + 1 /\ Len(env) \in Nat /\ env2[Len(env) + 1] = x
      /\ \A i \in 1..Len(env) : env2[i] = env[i]
  BY <1>1, <1>2a, Appended
<1>4. AreWrappers(env2)
  <2>1. ASSUME NEW i \in 1..Len(env2) PROVE \E kk : env2[i] = WrapperOf(kk)
    <3>1. CASE i = Len(env) + 1
      BY <1>2, <1>3, <3>1
    <3>2. CASE i # Len(env) + 1
      <4>1. i \in 1..Len(env)
        BY <1>3, <3>2
      <4> QED  BY <1>3, <4>1 DEF AreWrappers
    <3> QED  BY <3>1, <3>2
  <2> QED  BY <1>3, <2>1 DEF AreWrappers
<1>5. env2[Len(env) + 1].items[1] = k
  BY <1>2, <1>3 DEF WrapperOf, Object
<1>6. Kinds(env2) = Append(Kinds(env), w)
  <2> DEFINE a == Kinds(env2)
             b == Append(Kinds(env), w)
  <2>1. Kinds(env) \in Seq(BOOLEAN) /\ Len(Kinds(env)) = Len(env)
    BY KindsFacts
  <2>2. b \in Seq(BOOLEAN) /\ Len(b) = Len(env) + 1 /\ b[Len(env) + 1] = w
        /\ \A i \in 1..Len(env) : b[i] = Kinds(env)[i]
    BY <1>2a, <2>1, AppendProperties
  <2>3. a \in Seq(BOOLEAN) /\ Len(a) = Len(env) + 1
    BY <1>3, <1>4, KindsFacts
  <2>4. ASSUME NEW i \in 1..Len(env) + 1 PROVE a[i] = b[i]
    <3>1. i \in 1..Len(env2)
      BY <1>3
    <3>2. a[i] = ReceivesMany(env2[i].items[1])
      BY <3>1 DEF Kinds
    <3>3. CASE i = Len(env) + 1
      <4>1. a[i] = ReceivesMany(k)
        BY <1>5, <3>2, <3>3
      <4>2. b[i] = w
        BY <2>2, <3>3
      <4> HIDE DEF a, b
      <4> QED  BY <1>2a, <4>1, <4>2
    <3>4. CASE i # Len(env) + 1
      <4>1. i \in 1..Len(env)
        BY <1>3, <3>4
      <4>2. b[i] = ReceivesMany(env[i].items[1])
        BY <2>2, <4>1 DEF Kinds
      <4>3. env2[i] = env[i]
        BY <1>3, <4>1
      <4> HIDE DEF a, b
      <4> QED  BY <3>2, <4>2, <4>3
    <3> QED  BY <3>3, <3>4
  <2> HIDE DEF a, b
  <2>5. a = b
    BY <1>3, <2>2, <2>3, <2>4, SeqEqual
  <2> QED  BY <2>5 DEF a, b
<1> QED  BY <1>3, <1>4, <1>5, <1>6

-----------------------------------------------------------------------------
(***************************************************************************)
(* What the procedures make of a call that is in form.                     *)
(***************************************************************************)

\* C_values
LEMMA ValuesStays ==
    ASSUME NEW av, NEW o, NEW sizes, OnCourse(av, o, sizes), av[1].proc = "C_values",
           NEW next, next = IF ReceivesMany(av[2]) THEN <<av[2]>> \o SubSeq(av, 3, Len(av))
                            ELSE <<av[2], First(SubSeq(av, 3, Len(av)))>>
    PROVE  OnCourse(next, o, sizes)
<1>1. PICK D : Sound(D, o, sizes) /\ InForm(av, D, o, sizes)
  BY DEF OnCourse
<1>2. AtValues(av, D)
  BY <1>1 DEF InForm
<1>3. PICK k, vals : /\ IsSeq(vals) /\ av = <<Primitive("C_values"), k>> \o vals
                     /\ <<k, Returned(vals, ReceivesMany(k))>> \in D
  BY <1>2 DEF AtValues
<1>4. av[2] = k /\ SubSeq(av, 3, Len(av)) = vals
  BY <1>3, TwoAndOthers
<1>5. PICK given : given = Returned(vals, ReceivesMany(k))
  OBVIOUS
<1>6. next = <<k>> \o given
  <2>1. CASE ReceivesMany(k)
    BY <1>4, <1>5, <2>1 DEF Returned
  <2>2. CASE ~ReceivesMany(k)
    <3>1. given = <<First(vals)>> /\ next = <<k, First(vals)>>
      BY <1>4, <1>5, <2>2 DEF Returned
    <3> QED  BY <3>1
  <2> QED  BY <2>1, <2>2
<1>7. <<k, given>> \in D
  BY <1>3, <1>5
<1>8. InForm(next, D, o, sizes)
  BY <1>1, <1>6, <1>7, ReturnInForm
<1> QED  BY <1>1, <1>8 DEF OnCourse

\* A procedure that is applied gets the arguments and those of the list.
Spreads(av, x, y, p, rest) == av = <<x, y>> \o <<p>> \o rest

\* They are those of the whole list.
LEMMA Spread ==
    ASSUME NEW x, NEW y, NEW vals, IsSeq(vals), vals # <<>>, NEW p, p = vals[1],
           NEW rest, rest = Tail(vals), NEW av, Spreads(av, x, y, p, rest)
    PROVE  av = <<x, y>> \o vals
<1>1. PICK S : vals \in Seq(S)
  BY DEF IsSeq
<1> DEFINE T == S \cup {x, y}
<1>2. vals \in Seq(T) /\ <<x, y>> \in Seq(T)
  BY <1>1
<1> HIDE DEF T
<1>3. vals[1] \in T /\ Tail(vals) \in Seq(T)
  BY <1>2, HeadTailProperties
<1>4. PICK a \in Seq(T), b \in Seq(T) : a = <<x, y>> /\ b = <<p>>
  <2>1. <<p>> \in Seq(T)
    BY <1>3
  <2> QED  BY <1>2, <2>1
<1>5. PICK c \in Seq(T) : c = rest
  BY <1>3
<1>6. (a \o b) \o c = a \o (b \o c)
  <2>1. a \in Seq(T) /\ b \in Seq(T) /\ c \in Seq(T)
    OBVIOUS
  <2> QED  BY ONLY <2>1, ConcatAssociative, SMTT(30)
<1>7. b \o c = vals
  <2>1. IsSeq(c) /\ Len(b \o c) = 1 + Len(c) /\ (b \o c)[1] = vals[1]
        /\ (\A i \in 1..Len(c) : (b \o c)[1 + i] = c[i]) /\ Len(c) \in Nat
    <3>1. IsSeq(c)
      BY DEF IsSeq
    <3> QED  BY <1>4, <3>1, OneAndOthers
  <2>2. Len(vals) \in Nat /\ Len(vals) >= 1 /\ Len(c) = Len(vals) - 1 /\ \A i \in 1..Len(c) : c[i] = vals[i + 1]
    BY <1>2, <1>5, HeadTailProperties, LenProperties, EmptySeq
  <2>3. ASSUME NEW i \in 1..Len(vals) PROVE (b \o c)[i] = vals[i]
    <3>1. CASE i = 1
      BY <2>1, <3>1
    <3>2. CASE i # 1
      <4>1. i - 1 \in 1..Len(c) /\ 1 + (i - 1) = i /\ (i - 1) + 1 = i
        BY <2>2, <3>2
      <4> QED  BY <2>1, <2>2, <4>1
    <3> QED  BY <3>1, <3>2
  <2>4. Len(b \o c) = Len(vals)
    BY <2>1, <2>2
  <2>5. b \o c \in Seq(T)
    BY ConcatProperties
  <2> QED  BY <1>2, <2>3, <2>4, <2>5, SeqEqual
<1> QED  BY <1>4, <1>5, <1>6, <1>7 DEF Spreads

\* C_apply: it fails where the program does, or asks for what the program asks for.
LEMMA ApplyStays ==
    ASSUME NEW av, NEW o, NEW sizes, OnCourse(av, o, sizes), av[1].proc = "C_apply",
           NEW av2, av2 = <<av[3], av[2]>> \o SubSeq(av, 4, Len(av) - 1) \o Last(av).items
    PROVE  IF ~IsClosure(av[3]) \/ Last(av).proc # "list" THEN o = Failed
           ELSE OnCourse(av2, o, sizes) /\ Len(av2) \in sizes /\ Len(av2) \in Nat
<1>1. PICK D : Sound(D, o, sizes) /\ InForm(av, D, o, sizes)
  BY DEF OnCourse
<1>2. AtApply(av, D, sizes) \/ AtMisapply(av, o)
  BY <1>1 DEF InForm
<1>3. CASE AtMisapply(av, o)
  <2>1. PICK k, v : av = <<Primitive("C_apply"), k, Primitive("C_values"), v>> /\ v.proc # "list" /\ o = Failed
    BY <1>3 DEF AtMisapply
  <2>2. Last(av) = v
    BY <2>1 DEF Last
  <2> QED  BY <2>1, <2>2
<1>4. CASE AtApply(av, D, sizes)
  <2>1. PICK k, vals :
           /\ IsSeq(vals) /\ vals # <<>>
           /\ av = <<Primitive("C_apply"), k, Primitive("C_values"), vals[1], Listed(Tail(vals))>>
           /\ <<k, Returned(vals, ReceivesMany(k))>> \in D /\ 2 + Len(vals) \in sizes
    BY <1>4 DEF AtApply
  <2>2. PICK l : l = Listed(Tail(vals))
    OBVIOUS
  <2>3. PICK x, y, p : x = Primitive("C_apply") /\ y = Primitive("C_values") /\ p = vals[1]
    OBVIOUS
  <2>4. av = <<x, k, y, p, l>>
    BY <2>1, <2>2, <2>3
  <2>5. /\ Len(av) = 5 /\ av[2] = k /\ av[3] = y /\ av[4] = p /\ av[5] = l
    BY <2>4
  <2>6. SubSeq(av, 4, Len(av) - 1) = <<p>>
    <3>1. SubSeq(av, 4, 4) = [i \in 1..(4 - 4 + 1) |-> av[4 + i - 1]]
      OBVIOUS
    <3>2. SubSeq(av, 4, 4) = [i \in 1..1 |-> p]
      BY <2>5, <3>1
    <3>3. Len(av) - 1 = 4
      BY <2>5
    <3>4. PICK a, b : a = [i \in 1..1 |-> p] /\ b = <<p>>
      OBVIOUS
    <3>5. a \in Seq({p}) /\ b \in Seq({p}) /\ Len(a) = 1 /\ Len(b) = 1 /\ a[1] = p /\ b[1] = p
      BY <3>4
    <3>6. \A i \in 1..Len(a) : a[i] = b[i]
      BY <3>5
    <3>7. a = b
      BY <3>5, <3>6, SeqEqual
    <3> QED  BY <3>2, <3>3, <3>4, <3>7
  <2>7. Last(av) = l
    BY <2>5 DEF Last
  <2>8. l.proc = "list" /\ l.items = Tail(vals) /\ IsClosure(y)
    BY <2>2, <2>3 DEF Listed, Object, Primitive, IsClosure, Closures
  <2>9. PICK rest : rest = Tail(vals) /\ av2 = <<y, k>> \o <<p>> \o rest
    BY <2>5, <2>6, <2>7, <2>8
  <2>10. av2 = <<y, k>> \o vals
    <3>1. Spreads(av2, y, k, p, rest)
      BY <2>9 DEF Spreads
    <3> QED  BY <2>1, <2>3, <2>9, <3>1, Spread
  <2>11. Len(av2) \in sizes /\ Len(av2) \in Nat
    BY <2>1, <2>10, TwoAndOthers
  <2>12. InForm(av2, D, o, sizes)
    BY <2>1, <2>3, <2>10, ValuesInForm
  <2>13. OnCourse(av2, o, sizes)
    BY <1>1, <2>12 DEF OnCourse
  <2> QED  BY <2>5, <2>7, <2>8, <2>11, <2>13
<1> QED  BY <1>2, <1>3, <1>4

\* C_apply_values
LEMMA ApplyValuesStays ==
    ASSUME NEW av, NEW o, NEW sizes, OnCourse(av, o, sizes), av[1].proc = "C_apply_values"
    PROVE  /\ ReceivesMany(av[2]) => /\ Len(av[3].items) + 1 \in sizes /\ Len(av[3].items) + 1 \in Nat
                                     /\ OnCourse(<<av[2]>> \o av[3].items, o, sizes)
           /\ ~ReceivesMany(av[2]) => OnCourse(<<av[2], First(av[3].items)>>, o, sizes)
<1>1. PICK D : Sound(D, o, sizes) /\ InForm(av, D, o, sizes)
  BY DEF OnCourse
<1>2. AtApplyValues(av, D, sizes)
  BY <1>1 DEF InForm
<1>3. PICK k, vals : /\ IsSeq(vals) /\ av = <<Primitive("C_apply_values"), k, Listed(vals)>>
                     /\ <<k, Returned(vals, ReceivesMany(k))>> \in D /\ 1 + Len(vals) \in sizes
  BY <1>2 DEF AtApplyValues
<1>4. av[2] = k /\ av[3].items = vals
  BY <1>3 DEF Listed, Object
<1>5. PICK given : given = Returned(vals, ReceivesMany(k))
  OBVIOUS
<1>6. <<k, given>> \in D
  BY <1>3, <1>5
<1>7. PICK next : next = <<k>> \o given
  OBVIOUS
<1>8. OnCourse(next, o, sizes)
  BY <1>1, <1>6, <1>7, ReturnInForm DEF OnCourse
<1>9. CASE ReceivesMany(k)
  <2>1. next = <<k>> \o vals
    BY <1>5, <1>7, <1>9 DEF Returned
  <2>2. Len(vals) + 1 \in sizes /\ Len(vals) + 1 \in Nat
    <3>1. Len(vals) \in Nat
      BY <1>3, OneAndOthers
    <3>2. Len(vals) + 1 = 1 + Len(vals) /\ Len(vals) + 1 \in Nat
      BY <3>1
    <3> QED  BY <1>3, <3>2
  <2> QED  BY <1>4, <1>8, <1>9, <2>1, <2>2
<1>10. CASE ~ReceivesMany(k)
  <2>1. given = <<First(vals)>>
    BY <1>5, <1>10 DEF Returned
  <2>2. next = <<k, First(vals)>>
    BY <1>7, <2>1, ShortVectors
  <2> QED  BY <1>4, <1>8, <1>10, <2>2
<1> QED  BY <1>9, <1>10

\* call-with-values: the thunk is called with a continuation that collects.
LEMMA CallWithValuesStays ==
    ASSUME NEW av, NEW o, NEW sizes, OnCourse(av, o, sizes), av[1].proc = "C_call_with_values"
    PROVE  /\ IsClosure(av[3]) /\ IsClosure(av[4])
           /\ OnCourse(<<av[3], Object("values_continuation", <<av[4], av[2]>>, NoProgram)>>, o, sizes)
<1>1. PICK D : Sound(D, o, sizes) /\ InForm(av, D, o, sizes)
  BY DEF OnCourse
<1>2. AtCallWithValues(av, D, o, sizes)
  BY <1>1 DEF InForm
<1>3. PICK p, k, env : /\ av = <<Primitive("C_call_with_values"), k, Code(p, env), Primitive("collect")>>
                       /\ Runs(p, CollectingFor(k), env, D, o, sizes)
  BY <1>2 DEF AtCallWithValues
<1>4. av[2] = k /\ av[3] = Code(p, env) /\ av[4] = Primitive("collect")
  BY <1>3
<1>5. IsClosure(av[3]) /\ IsClosure(av[4])
  BY <1>4 DEF IsClosure, Closures, Code, Primitive, Object
<1>6. PICK kk : kk = Object("values_continuation", <<av[4], av[2]>>, NoProgram)
  OBVIOUS
<1>7. kk = CollectingFor(k)
  BY <1>4, <1>6 DEF CollectingFor
<1>8. PICK extra, next : extra = <<>> /\ next = <<Code(p, env), kk>> \o extra
  OBVIOUS
<1>9. env \o extra = env /\ IsSeq(extra)
  BY <1>3, <1>8, Appended, SmallSeqs DEF Runs, AreWrappers
<1>10. Runs(p, kk, env \o extra, D, o, sizes)
  BY <1>3, <1>7, <1>9
<1>11. InForm(next, D, o, sizes)
  BY <1>8, <1>9, <1>10, CodeInForm
<1>12. next = <<av[3], kk>>
  BY <1>4, <1>8
<1> QED  BY <1>1, <1>5, <1>6, <1>11, <1>12 DEF OnCourse

\* values_continuation
LEMMA ValuesContinuationStays ==
    ASSUME NEW av, NEW o, NEW sizes, OnCourse(av, o, sizes), av[1].proc = "values_continuation"
    PROVE  OnCourse(av[1].items \o Tail(av), o, sizes)
<1>1. PICK D : Sound(D, o, sizes) /\ InForm(av, D, o, sizes)
  BY DEF OnCourse
<1>2. AtReturn(av, D)
  BY <1>1 DEF InForm
<1>3. PICK k, vals : <<k, vals>> \in D /\ av = <<k>> \o vals
  BY <1>2 DEF AtReturn
<1>4. IsSeq(vals) /\ Delivers(k, vals, D, o, sizes)
  BY <1>1, <1>3 DEF Sound
<1>5. av[1] = k /\ Tail(av) = vals
  BY <1>3, <1>4, OneAndOthers
<1>6. PICK k2 : k = CollectingFor(k2) /\ <<k2, <<Listed(vals)>>>> \in D
  <2>1. k # Primitive("halt")
    BY <1>5 DEF Primitive, Object
  <2>2. ASSUME NEW q, NEW k2, NEW env PROVE k # Ignoring(q, k2, env)
    BY <1>5 DEF Ignoring, Object
  <2> QED  BY <1>4, <2>1, <2>2 DEF Delivers
<1>7. av[1].items = <<Primitive("collect"), k2>>
  BY <1>5, <1>6 DEF CollectingFor, Object
<1>8. PICK c, next : c = Primitive("collect") /\ next = <<c, k2>> \o vals
  OBVIOUS
<1>9. next[1] = c
  BY <1>4, <1>8, TwoAndOthers
<1>10. next[1].proc = "collect"
  BY <1>8, <1>9 DEF Primitive, Object
<1>11. AtCollect(next, D)
  BY <1>4, <1>6, <1>8 DEF AtCollect
<1>12. OnCourse(next, o, sizes)
  BY <1>1, <1>10, <1>11 DEF OnCourse, InForm
<1> QED  BY <1>5, <1>7, <1>8, <1>12

\* The primitive behind call/cc
LEMMA CallCCStays ==
    ASSUME NEW av, NEW o, NEW sizes, OnCourse(av, o, sizes), av[1].proc = "C_call_cc"
    PROVE  IsClosure(av[3]) /\ OnCourse(<<av[3], av[2], WrapperOf(av[2])>>, o, sizes)
<1>1. PICK D : Sound(D, o, sizes) /\ InForm(av, D, o, sizes)
  BY DEF OnCourse
<1>2. AtCallCC(av, D, o, sizes)
  BY <1>1 DEF InForm
<1>3. PICK p, k, env : /\ av = <<Primitive("C_call_cc"), k, Code(p, env)>>
                       /\ Runs(p, k, env \o <<WrapperOf(k)>>, D, o, sizes)
  BY <1>2 DEF AtCallCC
<1>4. av[2] = k /\ av[3] = Code(p, env)
  BY <1>3
<1>5. IsClosure(av[3])
  BY <1>4 DEF IsClosure, Closures, Code, Object
<1>6. PICK extra, next : extra = <<WrapperOf(k)>> /\ next = <<Code(p, env), k>> \o extra
  OBVIOUS
<1>7. IsSeq(extra)
  BY <1>6, SmallSeqs
<1>8. Runs(p, k, env \o extra, D, o, sizes)
  BY <1>3, <1>6
<1>9. InForm(next, D, o, sizes)
  BY <1>6, <1>7, <1>8, CodeInForm
<1>10. next = <<av[3], av[2], WrapperOf(av[2])>>
  BY <1>4, <1>6, ShortVectors
<1> QED  BY <1>1, <1>5, <1>9, <1>10 DEF OnCourse

\* The continuations that call/cc makes
LEMMA WrappersStay ==
    ASSUME NEW av, NEW o, NEW sizes, OnCourse(av, o, sizes)
    PROVE  /\ av[1].proc = "call_cc_wrapper" =>
                  IF Len(av) # 3 THEN o = Failed ELSE OnCourse(<<av[1].items[1], av[3]>>, o, sizes)
           /\ av[1].proc = "call_cc_values_wrapper" =>
                  OnCourse(av[1].items \o SubSeq(av, 3, Len(av)), o, sizes)
<1> SUFFICES ASSUME av[1].proc \in {"call_cc_wrapper", "call_cc_values_wrapper"} PROVE
           /\ av[1].proc = "call_cc_wrapper" =>
                  IF Len(av) # 3 THEN o = Failed ELSE OnCourse(<<av[1].items[1], av[3]>>, o, sizes)
           /\ av[1].proc = "call_cc_values_wrapper" =>
                  OnCourse(av[1].items \o SubSeq(av, 3, Len(av)), o, sizes)
  OBVIOUS
<1>1. PICK D : Sound(D, o, sizes) /\ InForm(av, D, o, sizes)
  BY DEF OnCourse
<1>2. AtThrow(av, D, o)
  BY <1>1 DEF InForm
<1>3. PICK k, x, vals :
        /\ IsSeq(vals) /\ av = <<WrapperOf(k), x>> \o vals
        /\ IF ReceivesMany(k) \/ Len(vals) = 1 THEN <<k, vals>> \in D ELSE o = Failed
  BY <1>2 DEF AtThrow
<1>4. PICK w : w = WrapperOf(k)
  OBVIOUS
<1>5. /\ av[1] = w /\ SubSeq(av, 3, Len(av)) = vals /\ Len(av) = 2 + Len(vals) /\ Len(vals) \in Nat
      /\ \A i \in 1..Len(vals) : av[2 + i] = vals[i]
  BY <1>3, <1>4, TwoAndOthers
<1>6. w.items = <<k>> /\ (w.proc = "call_cc_values_wrapper" <=> ReceivesMany(k))
  BY <1>4 DEF WrapperOf, Object
<1>7. PICK next : next = <<k>> \o vals
  OBVIOUS
<1>8. ASSUME <<k, vals>> \in D PROVE OnCourse(next, o, sizes)
  BY <1>1, <1>7, <1>8, ReturnInForm DEF OnCourse
<1>9. CASE av[1].proc = "call_cc_values_wrapper"
  <2>1. <<k, vals>> \in D
    BY <1>3, <1>5, <1>6, <1>9
  <2>2. av[1].items \o SubSeq(av, 3, Len(av)) = next
    BY <1>5, <1>6, <1>7
  <2> QED  BY <1>8, <1>9, <2>1, <2>2
<1>10. CASE av[1].proc = "call_cc_wrapper"
  <2>1. ~ReceivesMany(k)
    BY <1>5, <1>6, <1>10
  <2>2. CASE Len(av) # 3
    <3>1. Len(vals) # 1
      BY <1>5, <2>2
    <3> QED  BY <1>3, <1>10, <2>1, <2>2, <3>1
  <2>3. CASE Len(av) = 3
    <3>1. Len(vals) = 1
      <4>1. Len(av) = 2 + Len(vals) /\ Len(vals) \in Nat
        BY <1>5
      <4>2. PICK m \in Nat : m = Len(vals)
        BY <4>1
      <4>3. PICK l : l = Len(av)
        OBVIOUS
      <4>4. l = 3
        BY <2>3, <4>3
      <4>5. l = 2 + m
        BY <4>1, <4>2, <4>3
      <4>6. m = 1
        BY ONLY <4>4, <4>5, m \in Nat
      <4> QED  BY <4>2, <4>6
    <3>2. <<k, vals>> \in D
      BY <1>3, <2>1, <3>1
    <3>3. av[3] = vals[1]
      <4>1. 1 \in 1..Len(vals) /\ 2 + 1 = 3
        BY <3>1
      <4> QED  BY <1>5, <4>1
    <3>4. next = <<k, vals[1]>>
      <4>1. PICK S : vals \in Seq(S)
        BY <1>3 DEF IsSeq
      <4>2. vals = <<vals[1]>>
        BY <3>1, <4>1
      <4>3. PICK y : y = vals[1]
        OBVIOUS
      <4>4. next = <<k>> \o <<y>>
        BY <1>7, <4>2, <4>3
      <4> QED  BY <4>3, <4>4, ShortVectors
    <3>5. <<av[1].items[1], av[3]>> = next
      BY <1>5, <1>6, <3>3, <3>4
    <3> QED  BY <1>8, <1>10, <2>3, <3>2, <3>5
  <2> QED  BY <2>2, <2>3
<1> QED  BY <1>9, <1>10

\* Compiled procedures: one that goes on with the next expression, list, and the end.
LEMMA ContinuationsStay ==
    ASSUME NEW av, NEW o, NEW sizes, OnCourse(av, o, sizes)
    PROVE  /\ av[1].proc = "ignore" =>
                  OnCourse(<<Code(av[1].prog, Tail(av[1].items)), av[1].items[1]>>, o, sizes)
           /\ av[1].proc = "halt" => o = Outcome("values", Tail(av))
           /\ av[1].proc = "collect" => OnCourse(<<av[2], Listed(SubSeq(av, 3, Len(av)))>>, o, sizes)
<1>1. PICK D : Sound(D, o, sizes) /\ InForm(av, D, o, sizes)
  BY DEF OnCourse
<1>2. CASE av[1].proc = "collect"
  <2>1. AtCollect(av, D)
    BY <1>1, <1>2 DEF InForm
  <2>2. PICK k, vals : IsSeq(vals) /\ av = <<Primitive("collect"), k>> \o vals /\ <<k, <<Listed(vals)>>>> \in D
    BY <2>1 DEF AtCollect
  <2>3. av[2] = k /\ SubSeq(av, 3, Len(av)) = vals
    BY <2>2, TwoAndOthers
  <2>4. PICK given, next : given = <<Listed(vals)>> /\ next = <<k>> \o given
    OBVIOUS
  <2>5. <<k, given>> \in D
    BY <2>2, <2>4
  <2>6. InForm(next, D, o, sizes)
    BY <1>1, <2>4, <2>5, ReturnInForm
  <2>7. next = <<k, Listed(vals)>>
    BY <2>4, ShortVectors
  <2> QED  BY <1>1, <1>2, <2>3, <2>6, <2>7 DEF OnCourse
<1>3. CASE av[1].proc \in {"ignore", "halt"}
  <2>1. AtReturn(av, D)
    BY <1>1, <1>3 DEF InForm
  <2>2. PICK k, vals : <<k, vals>> \in D /\ av = <<k>> \o vals
    BY <2>1 DEF AtReturn
  <2>3. IsSeq(vals) /\ Delivers(k, vals, D, o, sizes)
    BY <1>1, <2>2 DEF Sound
  <2>4. av[1] = k /\ Tail(av) = vals
    BY <2>2, <2>3, OneAndOthers
  <2>5. ASSUME NEW k2 PROVE k # CollectingFor(k2)
    BY <1>3, <2>4 DEF CollectingFor, Object
  <2>6. CASE k = Primitive("halt") /\ o = Outcome("values", vals)
    <3>1. av[1].proc = "halt"
      BY <2>4, <2>6 DEF Primitive, Object
    <3> QED  BY <2>4, <2>6, <3>1
  <2>7. CASE \E q, k2, env : k = Ignoring(q, k2, env) /\ Runs(q, k2, env, D, o, sizes)
    <3>1. PICK q, k2, env : k = Ignoring(q, k2, env) /\ Runs(q, k2, env, D, o, sizes)
      BY <2>7
    <3>2. IsSeq(env)
      BY <3>1 DEF Runs, AreWrappers
    <3>3. PICK items : items = <<k2>> \o env
      OBVIOUS
    <3>4. k.proc = "ignore" /\ k.items = items /\ k.prog = q
      BY <3>1, <3>3 DEF Ignoring, Object
    <3>5. items[1] = k2 /\ Tail(items) = env
      BY <3>2, <3>3, OneAndOthers
    <3>6. PICK extra, next : extra = <<>> /\ next = <<Code(q, env), k2>> \o extra
      OBVIOUS
    <3>7. env \o extra = env /\ IsSeq(extra)
      BY <3>2, <3>6, Appended, SmallSeqs
    <3>8. Runs(q, k2, env \o extra, D, o, sizes)
      BY <3>1, <3>7
    <3>9. InForm(next, D, o, sizes)
      BY <3>6, <3>7, <3>8, CodeInForm
    <3>10. next = <<Code(q, env), k2>>
      BY <3>6
    <3> QED  BY <1>1, <2>4, <3>4, <3>5, <3>9, <3>10 DEF OnCourse
  <2> QED  BY <2>3, <2>5, <2>6, <2>7 DEF Delivers
<1> QED  BY <1>2, <1>3

-----------------------------------------------------------------------------
(***************************************************************************)
(* What compiled code makes of its expression.                             *)
(***************************************************************************)

\* Where an expression leads.
LEMMA LeadsBack ==
    ASSUME NEW env, AreWrappers(env), NEW r, NEW k, NEW D, NEW o, Leads(r, k, env, D, o)
    PROVE  /\ r.to = 0 => <<k, r.vals>> \in D
           /\ r.to = -1 => o = Failed
           /\ r.to \in 1..Len(env) => <<env[r.to].items[1], r.vals>> \in D
           /\ r.to \in -1..Len(env)
<1>1. Len(env) \in Nat
  BY KindsFacts
<1> QED  BY <1>1 DEF Leads

\* More continuations do no harm, if they lead to the same.
LEMMA SoundGrows ==
    ASSUME NEW D, NEW o, NEW sizes, Sound(D, o, sizes), NEW kk, NEW vv, IsSeq(vv),
           NEW D2, D2 = D \cup {<<kk, vv>>}, Delivers(kk, vv, D2, o, sizes)
    PROVE  Sound(D2, o, sizes)
<1>1. \A d : d \in D => d \in D2
  OBVIOUS
<1>2. ASSUME NEW r, NEW k, NEW env, Leads(r, k, env, D, o) PROVE Leads(r, k, env, D2, o)
  BY <1>1, <1>2 DEF Leads
<1>3. ASSUME NEW q, NEW k, NEW env, Runs(q, k, env, D, o, sizes) PROVE Runs(q, k, env, D2, o, sizes)
  BY <1>2, <1>3 DEF Runs
<1>4. ASSUME NEW k, NEW vals, Delivers(k, vals, D, o, sizes) PROVE Delivers(k, vals, D2, o, sizes)
  BY <1>1, <1>3, <1>4 DEF Delivers
<1>5. ASSUME NEW k, NEW vals, <<k, vals>> \in D2 PROVE IsSeq(vals) /\ Delivers(k, vals, D2, o, sizes)
  <2>1. CASE <<k, vals>> \in D
    BY <1>4, <2>1 DEF Sound
  <2>2. CASE <<k, vals>> = <<kk, vv>>
    <3>1. k = kk /\ vals = vv
      BY <2>2
    <3> QED  BY <3>1
  <2> QED  BY <1>5, <2>1, <2>2
<1> QED  BY <1>5 DEF Sound

\* What an expression consists of asks for nothing that it does not ask for.
LEMMA SubSizes ==
    ASSUME NEW p \in Programs, NEW i \in DOMAIN p.sub
    PROVE  Sizes[p.sub[i]] \subseteq Sizes[p]
BY SizesEquation DEF SizesOf

\* The code of a call: values, apply, values of a list, and a continuation called.
LEMMA CallExecuted ==
    ASSUME NEW D, NEW o, NEW sizes, Sound(D, o, sizes), NEW p, NEW k, NEW env,
           Runs(p, k, env, D, o, sizes), IsCall(p, Len(env)), p.sub = <<>>
    PROVE  /\ p.op = "values" => InForm(<<Primitive("C_values"), k>> \o p.vals, D, o, sizes)
           /\ p.op = "apply" =>
                  InForm(<<Primitive("C_apply"), k, Primitive("C_values"), p.vals[1], Listed(Tail(p.vals))>>,
                         D, o, sizes)
           /\ p.op = "misapply" =>
                  InForm(<<Primitive("C_apply"), k, Primitive("C_values"), p.vals[1]>>, D, o, sizes)
           /\ p.op = "list-values" =>
                  InForm(<<Primitive("C_apply_values"), k, Listed(p.vals)>>, D, o, sizes)
           /\ p.op = "throw" => InForm(<<env[p.k], k>> \o p.vals, D, o, sizes)
<1>1. PICK w \in BOOLEAN : w = ReceivesMany(k)
  BY DEF ReceivesMany
<1>2. PICK m : m = Kinds(env)
  OBVIOUS
<1>3. PICK r : r = Meaning[p][w][m]
  OBVIOUS
<1>4. /\ AreWrappers(env) /\ InScope(p, Len(env)) /\ Sizes[p] \subseteq sizes
      /\ Leads(r, k, env, D, o)
  BY <1>1, <1>2, <1>3 DEF Runs
<1>5. m \in Seq(BOOLEAN) /\ Len(m) = Len(env) /\ Len(env) \in Nat
  BY <1>2, <1>4, KindsFacts
<1>6. p \in Programs
  BY <1>4, ScopeFacts
<1>7. IsSeq(p.vals)
  BY DEF IsCall, Vectors, IsSeq
<1>8. Asked(p) \subseteq sizes
  BY <1>4, <1>6, SizesEquation DEF SizesOf
<1>9. ASSUME r = ComesBack(p.vals, w) PROVE <<k, Returned(p.vals, ReceivesMany(k))>> \in D
  <2>1. r.to = 0 /\ r.vals = Returned(p.vals, w)
    BY <1>9 DEF ComesBack, Comes
  <2>2. <<k, r.vals>> \in D
    BY <1>4, <2>1, LeadsBack
  <2>3. Returned(p.vals, w) = Returned(p.vals, ReceivesMany(k))
    BY <1>1 DEF Returned
  <2> QED  BY <2>1, <2>2, <2>3
<1>10. ASSUME r = Error PROVE o = Failed
  <2>1. r.to = -1
    BY <1>10 DEF Error, Comes
  <2> QED  BY <1>4, <1>5, <2>1 DEF Leads
<1>11. ASSUME p.op = "values" PROVE InForm(<<Primitive("C_values"), k>> \o p.vals, D, o, sizes)
  <2>1. r = ComesBack(p.vals, w)
    BY <1>3, <1>5, <1>6, <1>11, MeaningCases
  <2> QED  BY <1>7, <1>9, <2>1, ValuesInForm
<1>12. ASSUME p.op = "apply"
       PROVE  InForm(<<Primitive("C_apply"), k, Primitive("C_values"), p.vals[1], Listed(Tail(p.vals))>>, D, o, sizes)
  <2>1. r = ComesBack(p.vals, w)
    BY <1>3, <1>5, <1>6, <1>12, MeaningCases
  <2>2. p.vals # <<>>
    BY <1>12 DEF IsCall
  <2>3. 2 + Len(p.vals) \in sizes
    BY <1>8, <1>12 DEF Asked
  <2>4. PICK av : av = <<Primitive("C_apply"), k, Primitive("C_values"), p.vals[1], Listed(Tail(p.vals))>>
    OBVIOUS
  <2>5. AtApply(av, D, sizes)
    BY <1>7, <1>9, <2>1, <2>2, <2>3, <2>4 DEF AtApply
  <2>6. av[1].proc = "C_apply"
    BY <2>4 DEF Primitive, Object
  <2> QED  BY <2>4, <2>5, <2>6 DEF InForm
<1>13. ASSUME p.op = "misapply"
       PROVE  InForm(<<Primitive("C_apply"), k, Primitive("C_values"), p.vals[1]>>, D, o, sizes)
  <2>1. r = Error
    BY <1>3, <1>5, <1>6, <1>13, MeaningCases
  <2>2. PICK v : v = p.vals[1]
    OBVIOUS
  <2>3. v.proc # "list"
    <3>1. p.vals # <<>> /\ p.vals \in Seq({Atom(a) : a \in Names})
      BY <1>13 DEF IsCall, Vectors
    <3>2. p.vals[1] \in {Atom(a) : a \in Names}
      <4>1. PICK S : S = {Atom(a) : a \in Names}
        OBVIOUS
      <4> QED  BY <3>1, <4>1, HeadTailProperties
    <3>3. PICK a \in Names : v = Atom(a)
      BY <2>2, <3>2
    <3>4. v.proc = a
      BY <3>3 DEF Atom, Object
    <3> QED  BY <3>4, NamesAssumption
  <2>4. PICK av : av = <<Primitive("C_apply"), k, Primitive("C_values"), v>>
    OBVIOUS
  <2>5. AtMisapply(av, o)
    BY <1>10, <2>1, <2>3, <2>4 DEF AtMisapply
  <2>6. av[1].proc = "C_apply"
    BY <2>4 DEF Primitive, Object
  <2> QED  BY <2>2, <2>4, <2>5, <2>6 DEF InForm
<1>14. ASSUME p.op = "list-values"
       PROVE  InForm(<<Primitive("C_apply_values"), k, Listed(p.vals)>>, D, o, sizes)
  <2>1. r = ComesBack(p.vals, w)
    BY <1>3, <1>5, <1>6, <1>14, MeaningCases
  <2>2. 1 + Len(p.vals) \in sizes
    BY <1>8, <1>14 DEF Asked
  <2>3. PICK av : av = <<Primitive("C_apply_values"), k, Listed(p.vals)>>
    OBVIOUS
  <2>4. AtApplyValues(av, D, sizes)
    BY <1>7, <1>9, <2>1, <2>2, <2>3 DEF AtApplyValues
  <2>5. av[1].proc = "C_apply_values"
    BY <2>3 DEF Primitive, Object
  <2> QED  BY <2>3, <2>4, <2>5 DEF InForm
<1>15. ASSUME p.op = "throw" PROVE InForm(<<env[p.k], k>> \o p.vals, D, o, sizes)
  <2>1. p.k \in 1..Len(env)
    BY <1>15 DEF IsCall
  <2>2. PICK k2 : env[p.k] = WrapperOf(k2) /\ env[p.k].items[1] = k2 /\ Kinds(env)[p.k] = ReceivesMany(k2)
    BY <1>4, <2>1, KindsFacts
  <2>3. r = IF m[p.k] \/ Len(p.vals) = 1 THEN Comes(p.k, p.vals) ELSE Error
    BY <1>3, <1>5, <1>6, <1>15, MeaningCases
  <2>4. IF ReceivesMany(k2) \/ Len(p.vals) = 1 THEN <<k2, p.vals>> \in D ELSE o = Failed
    <3>1. CASE ReceivesMany(k2) \/ Len(p.vals) = 1
      <4>1. r = Comes(p.k, p.vals)
        BY <1>2, <2>2, <2>3, <3>1
      <4>2. r.to = p.k /\ r.vals = p.vals
        BY <4>1 DEF Comes
      <4>3. <<env[r.to].items[1], r.vals>> \in D
        BY <1>4, <2>1, <4>2, LeadsBack
      <4> QED  BY <2>2, <3>1, <4>2, <4>3
    <3>2. CASE ~(ReceivesMany(k2) \/ Len(p.vals) = 1)
      <4>1. r = Error
        BY <1>2, <2>2, <2>3, <3>2
      <4> QED  BY <1>10, <3>2, <4>1
    <3> QED  BY <3>1, <3>2
  <2>5. PICK av : av = <<WrapperOf(k2), k>> \o p.vals
    OBVIOUS
  <2>6. InForm(av, D, o, sizes)
    BY <1>7, <2>4, <2>5, ThrowInForm
  <2> QED  BY <2>2, <2>5, <2>6
<1> QED  BY <1>11, <1>12, <1>13, <1>14, <1>15

\* The code of an expression that calls call-with-values.
LEMMA CallWithValuesExecuted ==
    ASSUME NEW D, NEW o, NEW sizes, Sound(D, o, sizes), NEW p, NEW k, NEW env,
           Runs(p, k, env, D, o, sizes), p.op = "call-with-values"
    PROVE  OnCourse(<<Primitive("C_call_with_values"), k, Code(p.sub[1], env), Primitive("collect")>>, o, sizes)
<1>1. PICK w \in BOOLEAN : w = ReceivesMany(k)
  BY DEF ReceivesMany
<1>2. PICK m : m = Kinds(env)
  OBVIOUS
<1>3. PICK q, r, kk : q = p.sub[1] /\ r = Meaning[p][w][m] /\ kk = CollectingFor(k)
  OBVIOUS
<1>4. PICK r1 : r1 = Meaning[q][TRUE][m]
  OBVIOUS
<1>5. /\ AreWrappers(env) /\ InScope(p, Len(env)) /\ Sizes[p] \subseteq sizes
      /\ Leads(r, k, env, D, o)
  BY <1>1, <1>2, <1>3 DEF Runs
<1>6. m \in Seq(BOOLEAN) /\ Len(m) = Len(env) /\ Len(env) \in Nat
  BY <1>2, <1>5, KindsFacts
<1>7. p \in Programs /\ InScope(q, Len(env)) /\ 1 \in DOMAIN p.sub
  BY <1>3, <1>5, ScopeFacts DEF IsCall
<1>8. Sizes[q] \subseteq sizes
  BY <1>3, <1>5, <1>7, SubSizes
<1>9. r = IF r1.to = 0 THEN ComesBack(<<Listed(r1.vals)>>, w) ELSE r1
  BY <1>3, <1>4, <1>6, <1>7, MeaningCases
<1>10. IsMeaning(r1, Len(env))
  BY <1>4, <1>6, <1>7, MeaningRange
<1>11. kk.proc = "values_continuation" /\ ReceivesMany(kk)
  BY <1>3 DEF CollectingFor, Object, ReceivesMany
<1>12. PICK D2 : /\ Sound(D2, o, sizes) /\ Leads(r1, kk, env, D2, o)
  <2>1. CASE r1.to = 0
    <3>1. PICK l : l = <<Listed(r1.vals)>>
      OBVIOUS
    <3>2. r.to = 0 /\ r.vals = Returned(l, w)
      BY <1>9, <2>1, <3>1 DEF ComesBack, Comes
    <3>3. Returned(l, w) = l
      BY <3>1 DEF Returned, First
    <3>4. <<k, l>> \in D
      BY <1>5, <3>2, <3>3, LeadsBack
    <3>5. PICK D2 : D2 = D \cup {<<kk, r1.vals>>}
      OBVIOUS
    <3>6. Delivers(kk, r1.vals, D2, o, sizes)
      BY <1>3, <3>1, <3>4, <3>5 DEF Delivers
    <3>7. Sound(D2, o, sizes)
      BY <1>10, <3>5, <3>6, SoundGrows DEF IsMeaning
    <3>8. Leads(r1, kk, env, D2, o)
      BY <2>1, <3>5 DEF Leads
    <3> QED  BY <3>7, <3>8
  <2>2. CASE r1.to # 0
    <3>1. r = r1
      BY <1>9, <2>2
    <3>2. Leads(r1, kk, env, D, o)
      BY <1>5, <2>2, <3>1 DEF Leads
    <3> QED  BY <3>2
  <2> QED  BY <2>1, <2>2
<1>13. Runs(q, kk, env, D2, o, sizes)
  <2>1. r1 = Meaning[q][ReceivesMany(kk)][m]
    BY <1>4, <1>11
  <2> QED  BY <1>2, <1>5, <1>7, <1>8, <1>12, <2>1 DEF Runs
<1>14. PICK av : av = <<Primitive("C_call_with_values"), k, Code(q, env), Primitive("collect")>>
  OBVIOUS
<1>15. AtCallWithValues(av, D2, o, sizes)
  BY <1>3, <1>13, <1>14 DEF AtCallWithValues
<1>16. av[1].proc = "C_call_with_values"
  BY <1>14 DEF Primitive, Object
<1> QED  BY <1>3, <1>12, <1>14, <1>15, <1>16 DEF OnCourse, InForm

\* ... and of one that calls call/cc.
LEMMA CallCCExecuted ==
    ASSUME NEW D, NEW o, NEW sizes, Sound(D, o, sizes), NEW p, NEW k, NEW env,
           Runs(p, k, env, D, o, sizes), p.op = "call/cc"
    PROVE  InForm(<<Primitive("C_call_cc"), k, Code(p.sub[1], env)>>, D, o, sizes)
<1>1. PICK w \in BOOLEAN : w = ReceivesMany(k)
  BY DEF ReceivesMany
<1>2. PICK m : m = Kinds(env)
  OBVIOUS
<1>3. PICK q, r, env2 : q = p.sub[1] /\ r = Meaning[p][w][m] /\ env2 = env \o <<WrapperOf(k)>>
  OBVIOUS
<1>4. PICK m2 : m2 = Append(m, w)
  OBVIOUS
<1>5. PICK r1 : r1 = Meaning[q][w][m2]
  OBVIOUS
<1>6. /\ AreWrappers(env) /\ InScope(p, Len(env)) /\ Sizes[p] \subseteq sizes
      /\ Leads(r, k, env, D, o)
  BY <1>1, <1>2, <1>3 DEF Runs
<1>7. m \in Seq(BOOLEAN) /\ Len(m) = Len(env) /\ Len(env) \in Nat
  BY <1>2, <1>6, KindsFacts
<1>8. p \in Programs /\ InScope(q, Len(env) + 1) /\ 1 \in DOMAIN p.sub
  BY <1>3, <1>6, ScopeFacts DEF IsCall
<1>9. Sizes[q] \subseteq sizes
  BY <1>3, <1>6, <1>8, SubSizes
<1>10. r = IF r1.to = Len(m) + 1 THEN Comes(0, r1.vals) ELSE r1
  BY <1>3, <1>4, <1>5, <1>7, <1>8, MeaningCases
<1>11. /\ AreWrappers(env2) /\ Len(env2) = Len(env) + 1 /\ env2[Len(env) + 1].items[1] = k
       /\ \A i \in 1..Len(env) : env2[i] = env[i]
       /\ Kinds(env2) = m2
  <2>1. IsExtended(env2, env, k, w)
    BY <1>1, <1>3 DEF IsExtended
  <2> QED  BY <1>2, <1>4, <1>6, <2>1, ExtendedEnv
<1>12. Leads(r1, k, env2, D, o)
  <2>1. CASE r1.to = Len(env) + 1
    <3>1. r.to = 0 /\ r.vals = r1.vals
      BY <1>7, <1>10, <2>1 DEF Comes
    <3>2. <<k, r1.vals>> \in D
      BY <1>6, <3>1, LeadsBack
    <3>3. r1.to \in 1..Len(env2)
      BY <1>7, <1>11, <2>1
    <3>4. env2[r1.to].items[1] = k
      BY <1>11, <2>1
    <3> QED  BY <3>2, <3>3, <3>4 DEF Leads
  <2>2. CASE r1.to # Len(env) + 1
    <3>1. r = r1
      BY <1>7, <1>10, <2>2
    <3>2. CASE r1.to \in 1..Len(env)
      <4>1. <<env[r1.to].items[1], r1.vals>> \in D
        BY <1>6, <3>1, <3>2, LeadsBack
      <4>2. env2[r1.to] = env[r1.to]
        BY <1>11, <3>2
      <4>3. r1.to \in 1..Len(env2)
        BY <1>7, <1>11, <3>2
      <4> QED  BY <4>1, <4>2, <4>3 DEF Leads
    <3>3. CASE r1.to \notin 1..Len(env)
      BY <1>6, <3>1, <3>3 DEF Leads
    <3> QED  BY <3>2, <3>3
  <2> QED  BY <2>1, <2>2
<1>13. Runs(q, k, env2, D, o, sizes)
  <2>1. r1 = Meaning[q][ReceivesMany(k)][Kinds(env2)]
    BY <1>1, <1>5, <1>11
  <2>2. InScope(q, Len(env2))
    BY <1>8, <1>11
  <2> QED  BY <1>9, <1>11, <1>12, <2>1, <2>2 DEF Runs
<1>14. PICK av : av = <<Primitive("C_call_cc"), k, Code(q, env)>>
  OBVIOUS
<1>15. AtCallCC(av, D, o, sizes)
  BY <1>3, <1>13, <1>14 DEF AtCallCC
<1>16. av[1].proc = "C_call_cc"
  BY <1>14 DEF Primitive, Object
<1> QED  BY <1>3, <1>14, <1>15, <1>16 DEF InForm

\* ... and of two expressions, one after the other.
LEMMA BeginExecuted ==
    ASSUME NEW D, NEW o, NEW sizes, Sound(D, o, sizes), NEW p, NEW k, NEW env,
           Runs(p, k, env, D, o, sizes), p.op = "begin"
    PROVE  OnCourse(<<Code(p.sub[1], env), Object("ignore", <<k>> \o env, p.sub[2])>>, o, sizes)
<1>1. PICK w \in BOOLEAN : w = ReceivesMany(k)
  BY DEF ReceivesMany
<1>2. PICK m : m = Kinds(env)
  OBVIOUS
<1>3. PICK q1, q2, r, kk :
         q1 = p.sub[1] /\ q2 = p.sub[2] /\ r = Meaning[p][w][m] /\ kk = Ignoring(p.sub[2], k, env)
  OBVIOUS
<1>4. PICK r1, r2 : r1 = Meaning[q1][FALSE][m] /\ r2 = Meaning[q2][w][m]
  OBVIOUS
<1>5. /\ AreWrappers(env) /\ InScope(p, Len(env)) /\ Sizes[p] \subseteq sizes
      /\ Leads(r, k, env, D, o)
  BY <1>1, <1>2, <1>3 DEF Runs
<1>6. m \in Seq(BOOLEAN) /\ Len(m) = Len(env) /\ Len(env) \in Nat
  BY <1>2, <1>5, KindsFacts
<1>7. p \in Programs /\ InScope(q1, Len(env)) /\ InScope(q2, Len(env)) /\ 1 \in DOMAIN p.sub /\ 2 \in DOMAIN p.sub
  BY <1>3, <1>5, ScopeFacts DEF IsCall
<1>8. Sizes[q1] \subseteq sizes /\ Sizes[q2] \subseteq sizes
  BY <1>3, <1>5, <1>7, SubSizes
<1>9. r = IF r1.to = 0 THEN r2 ELSE r1
  BY <1>3, <1>4, <1>6, <1>7, MeaningCases
<1>10. IsMeaning(r1, Len(env))
  BY <1>4, <1>6, <1>7, MeaningRange
<1>11. kk.proc = "ignore" /\ ~ReceivesMany(kk)
  BY <1>3 DEF Ignoring, Object, ReceivesMany
<1>12. PICK D2 : Sound(D2, o, sizes) /\ Leads(r1, kk, env, D2, o)
  <2>1. CASE r1.to = 0
    <3>1. PICK D2 : D2 = D \cup {<<kk, r1.vals>>}
      OBVIOUS
    <3>2. Leads(r2, k, env, D2, o)
      <4>1. Leads(r2, k, env, D, o)
        BY <1>5, <1>9, <2>1
      <4> QED  BY <3>1, <4>1 DEF Leads
    <3>3. Runs(q2, k, env, D2, o, sizes)
      <4>1. r2 = Meaning[q2][ReceivesMany(k)][m]
        BY <1>1, <1>4
      <4> QED  BY <1>2, <1>5, <1>7, <1>8, <3>2, <4>1 DEF Runs
    <3>4. Delivers(kk, r1.vals, D2, o, sizes)
      BY <1>3, <3>3 DEF Delivers
    <3>5. Sound(D2, o, sizes)
      BY <1>10, <3>1, <3>4, SoundGrows DEF IsMeaning
    <3>6. Leads(r1, kk, env, D2, o)
      BY <2>1, <3>1 DEF Leads
    <3> QED  BY <3>5, <3>6
  <2>2. CASE r1.to # 0
    <3>1. r = r1
      BY <1>9, <2>2
    <3>2. Leads(r1, kk, env, D, o)
      BY <1>5, <2>2, <3>1 DEF Leads
    <3> QED  BY <3>2
  <2> QED  BY <2>1, <2>2
<1>13. PICK extra, av : extra = <<>> /\ av = <<Code(q1, env), kk>> \o extra
  OBVIOUS
<1>14. env \o extra = env /\ IsSeq(extra)
  BY <1>5, <1>13, Appended, SmallSeqs DEF AreWrappers
<1>15. Runs(q1, kk, env \o extra, D2, o, sizes)
  <2>1. r1 = Meaning[q1][ReceivesMany(kk)][m]
    <3>1. PICK w1 \in BOOLEAN : w1 = ReceivesMany(kk)
      BY DEF ReceivesMany
    <3>2. w1 = FALSE
      BY <1>11, <3>1
    <3>3. r1 = Meaning[q1][w1][m]
      BY <1>4, <3>2
    <3> QED  BY <3>1, <3>3
  <2>2. Runs(q1, kk, env, D2, o, sizes)
    BY <1>2, <1>5, <1>7, <1>8, <1>12, <2>1 DEF Runs
  <2> QED  BY <1>14, <2>2
<1>16. InForm(av, D2, o, sizes)
  BY <1>13, <1>14, <1>15, CodeInForm
<1>17. av = <<Code(q1, env), kk>>
  BY <1>13, ShortVectors
<1>18. kk = Object("ignore", <<k>> \o env, p.sub[2])
  BY <1>3 DEF Ignoring
<1> QED  BY <1>3, <1>12, <1>16, <1>17, <1>18 DEF OnCourse

\* Compiled code, whatever its expression is.
IsCode(av, p, k, env) == k = av[2] /\ p = av[1].prog /\ env = av[1].items \o SubSeq(av, 3, Len(av))

\* What it calls leads to the same outcome.
LEMMA ExecuteStays ==
    ASSUME NEW av, NEW o, NEW sizes, OnCourse(av, o, sizes), av[1].proc = "code",
           NEW p, NEW k, NEW env, IsCode(av, p, k, env)
    PROVE  \/ p.op = "values" /\ OnCourse(<<Primitive("C_values"), k>> \o p.vals, o, sizes)
           \/ p.op = "apply" /\
                  OnCourse(<<Primitive("C_apply"), k, Primitive("C_values"), p.vals[1], Listed(Tail(p.vals))>>,
                           o, sizes)
           \/ p.op = "misapply" /\
                  OnCourse(<<Primitive("C_apply"), k, Primitive("C_values"), p.vals[1]>>, o, sizes)
           \/ p.op = "list-values" /\ OnCourse(<<Primitive("C_apply_values"), k, Listed(p.vals)>>, o, sizes)
           \/ p.op = "call-with-values" /\
                  OnCourse(<<Primitive("C_call_with_values"), k, Code(p.sub[1], env), Primitive("collect")>>, o, sizes)
           \/ p.op = "call/cc" /\ OnCourse(<<Primitive("C_call_cc"), k, Code(p.sub[1], env)>>, o, sizes)
           \/ p.op = "throw" /\ OnCourse(<<env[p.k], k>> \o p.vals, o, sizes)
           \/ p.op = "begin" /\
                  OnCourse(<<Code(p.sub[1], env), Object("ignore", <<k>> \o env, p.sub[2])>>, o, sizes)
<1>1. PICK D : Sound(D, o, sizes) /\ InForm(av, D, o, sizes)
  BY DEF OnCourse
<1>2. AtCode(av, D, o, sizes)
  BY <1>1 DEF InForm
<1>3. PICK p0, k0, items, extra : /\ IsSeq(extra) /\ av = <<Code(p0, items), k0>> \o extra
                                  /\ Runs(p0, k0, items \o extra, D, o, sizes)
  BY <1>2 DEF AtCode
<1>4. av[1] = Code(p0, items) /\ av[2] = k0 /\ SubSeq(av, 3, Len(av)) = extra
  BY <1>3, TwoAndOthers
<1>5. p0 = p /\ k0 = k /\ items = av[1].items
  BY <1>4 DEF IsCode, Code, Object
<1>6. Runs(p, k, env, D, o, sizes)
  BY <1>3, <1>4, <1>5 DEF IsCode
<1>7. InScope(p, Len(env))
  BY <1>6 DEF Runs
<1>8. CASE IsCall(p, Len(env)) /\ p.sub = <<>>
  <2>1. p.op \in {"values", "list-values", "apply", "misapply", "throw"}
    BY <1>8 DEF IsCall
  <2> QED  BY <1>1, <1>6, <1>8, <2>1, CallExecuted DEF OnCourse
<1>9. CASE p.op = "call-with-values"
  BY <1>1, <1>6, <1>9, CallWithValuesExecuted
<1>10. CASE p.op = "call/cc"
  BY <1>1, <1>6, <1>10, CallCCExecuted DEF OnCourse
<1>11. CASE p.op = "begin"
  BY <1>1, <1>6, <1>11, BeginExecuted
<1> QED  BY <1>7, <1>8, <1>9, <1>10, <1>11, ScopeFacts

-----------------------------------------------------------------------------
(***************************************************************************)
(* The invariant: threads that have not ended are on course to what their  *)
(* programs come to.                                                       *)
(***************************************************************************)
OutcomeOf(r) == IF r.to = -1 THEN Failed ELSE Outcome("values", r.vals)
Wanted(t) == OutcomeOf(Meaning[programs[t]][FALSE][<<>>])
CallTypes ==
    /\ programs \in [Threads -> Expressions[Nesting][0]]
    /\ call = [t \in Threads |-> call[t]] /\ result = [t \in Threads |-> result[t]]
    /\ current \in Threads
CoursesInv == \A t \in Threads : result[t] = Unfinished => OnCourse(call[t], Wanted(t), Sizes[programs[t]])
OutcomesInv == \A t \in Threads : result[t] \in {Unfinished, Overflow, Wanted(t)}
CallInv == CallTypes /\ CoursesInv /\ OutcomesInv

\* A program starts on course.
LEMMA StartsOnCourse ==
    ASSUME NEW p \in Expressions[Nesting][0]
    PROVE  OnCourse(<<Code(p, <<>>), Primitive("halt")>>, OutcomeOf(Meaning[p][FALSE][<<>>]), Sizes[p])
<1>1. PICK e : e = <<>>
  OBVIOUS
<1>2. IsSeq(e) /\ Len(e) = 0
  BY <1>1, SmallSeqs
<1>3. AreWrappers(e)
  BY <1>2 DEF AreWrappers
<1>4. Kinds(e) = e
  <2>1. Kinds(e) \in Seq(BOOLEAN) /\ Len(Kinds(e)) = 0
    BY <1>2, <1>3, KindsFacts
  <2> QED  BY <1>1, <2>1, EmptySeq
<1>5. InScope(p, 0)
  <2>1. Nesting \in Levels /\ 0 \in Scopes(Nesting)
    BY NestingAssumption DEF Levels, Scopes
  <2> QED  BY <2>1 DEF InScope
<1>6. PICK r, h, o : r = Meaning[p][FALSE][e] /\ h = Primitive("halt") /\ o = OutcomeOf(r)
  OBVIOUS
<1>7. IsMeaning(r, 0)
  <2>1. e \in Seq(BOOLEAN)
    BY <1>1
  <2> QED  BY <1>2, <1>5, <1>6, <2>1, MeaningRange
<1>8. PICK D : Sound(D, o, Sizes[p]) /\ Leads(r, h, e, D, o)
  <2>1. CASE r.to = -1
    <3>1. o = Failed
      BY <1>6, <2>1 DEF OutcomeOf
    <3>2. PICK D : D = {}
      OBVIOUS
    <3>3. Sound(D, o, Sizes[p])
      BY <3>2 DEF Sound
    <3> QED  BY <2>1, <3>1, <3>3 DEF Leads
  <2>2. CASE r.to # -1
    <3>1. o = Outcome("values", r.vals)
      BY <1>6, <2>2 DEF OutcomeOf
    <3>2. r.to = 0 /\ IsSeq(r.vals)
      BY <1>7, <2>2 DEF IsMeaning
    <3>3. PICK D : D = {<<h, r.vals>>}
      OBVIOUS
    <3>4. Delivers(h, r.vals, D, o, Sizes[p])
      BY <1>6, <3>1 DEF Delivers
    <3>5. ASSUME NEW k, NEW vals, <<k, vals>> \in D PROVE IsSeq(vals) /\ Delivers(k, vals, D, o, Sizes[p])
      <4>1. k = h /\ vals = r.vals
        BY <3>3, <3>5
      <4> QED  BY <3>2, <3>4, <4>1
    <3>6. Sound(D, o, Sizes[p])
      BY <3>5 DEF Sound
    <3>7. Leads(r, h, e, D, o)
      BY <3>2, <3>3 DEF Leads
    <3> QED  BY <3>6, <3>7
  <2> QED  BY <2>1, <2>2
<1>9. Runs(p, h, e, D, o, Sizes[p])
  <2>1. ~ReceivesMany(h)
    BY <1>6 DEF Primitive, Object, ReceivesMany
  <2>2. PICK w \in BOOLEAN : w = ReceivesMany(h)
    BY DEF ReceivesMany
  <2>3. w = FALSE
    BY <2>1, <2>2
  <2>4. r = Meaning[p][w][Kinds(e)]
    BY <1>4, <1>6, <2>3
  <2>5. r = Meaning[p][ReceivesMany(h)][Kinds(e)]
    BY <2>2, <2>4
  <2> QED  BY <1>2, <1>3, <1>5, <1>8, <2>5 DEF Runs
<1>10. PICK extra, av : extra = <<>> /\ av = <<Code(p, e), h>> \o extra
  OBVIOUS
<1>11. e \o extra = e /\ IsSeq(extra)
  BY <1>1, <1>2, <1>10, Appended, SmallSeqs
<1>12. Runs(p, h, e \o extra, D, o, Sizes[p])
  BY <1>9, <1>11
<1>13. InForm(av, D, o, Sizes[p])
  BY <1>10, <1>11, <1>12, CodeInForm
<1>14. av = <<Code(p, e), h>>
  BY <1>10, ShortVectors
<1> QED  BY <1>1, <1>6, <1>8, <1>13, <1>14 DEF OnCourse

\* What a step of a thread may be.
CallsNext(t) ==
    /\ call' = [call EXCEPT ![t] = call'[t]] /\ OnCourse(call'[t], Wanted(t), Sizes[programs[t]])
    /\ UNCHANGED <<result, current>>
Ends(t) ==
    /\ result' = [result EXCEPT ![t] = result'[t]] /\ result'[t] \in {Overflow, Wanted(t)}
    /\ UNCHANGED <<call, current>>
Rests == UNCHANGED <<call, result>> /\ current' \in Threads

\* Steps like these keep the invariant.
LEMMA StepsKeep ==
    ASSUME CallInv, NEW t \in Threads, CallsNext(t) \/ Ends(t) \/ Rests, UNCHANGED programs
    PROVE  CallInv'
<1>1. \A u \in Threads : Wanted(u)' = Wanted(u)
  BY DEF Wanted
<1>2. CASE CallsNext(t)
  <2>1. \A u \in Threads : u # t => call'[u] = call[u]
    BY <1>2 DEF CallInv, CallTypes, CallsNext
  <2>2. CoursesInv'
    BY <1>1, <1>2, <2>1 DEF CallInv, CoursesInv, CallsNext
  <2>3. OutcomesInv'
    BY <1>1, <1>2 DEF CallInv, OutcomesInv, CallsNext
  <2>4. CallTypes'
    BY <1>2 DEF CallInv, CallTypes, CallsNext
  <2> QED  BY <2>2, <2>3, <2>4 DEF CallInv
<1>3. CASE Ends(t)
  <2>1. \A u \in Threads : u # t => result'[u] = result[u]
    BY <1>3 DEF CallInv, CallTypes, Ends
  <2>2. Unfinished # Overflow
    BY DEF Unfinished, Overflow, Outcome
  <2>3. Wanted(t) # Unfinished
    BY DEF Wanted, OutcomeOf, Failed, Unfinished, Outcome
  <2>4. CoursesInv'
    BY <1>1, <1>3, <2>1, <2>2, <2>3 DEF CallInv, CoursesInv, Ends
  <2>5. OutcomesInv'
    BY <1>1, <1>3, <2>1 DEF CallInv, OutcomesInv, Ends
  <2>6. CallTypes'
    BY <1>3 DEF CallInv, CallTypes, Ends
  <2> QED  BY <2>4, <2>5, <2>6 DEF CallInv
<1>4. CASE Rests
  BY <1>1, <1>4 DEF CallInv, CallTypes, CoursesInv, OutcomesInv, Rests
<1> QED  BY <1>2, <1>3, <1>4

\* A call with another vector of arguments, and the end of a thread.
LEMMA GotoCalls ==
    ASSUME CallInv, NEW t \in Threads, NEW av, OnCourse(av, Wanted(t), Sizes[programs[t]]), Goto(t, av)
    PROVE  CallsNext(t)
<1>1. call'[t] = av
  BY DEF CallInv, CallTypes, Goto
<1> QED  BY <1>1 DEF Goto, CallsNext

\* A thread that ends with its outcome has ended rightly.
LEMMA FinishEnds ==
    ASSUME CallInv, NEW t \in Threads, NEW o, o \in {Overflow, Wanted(t)}, Finish(t, o)
    PROVE  Ends(t)
<1>1. result'[t] = o
  BY DEF CallInv, CallTypes, Finish
<1> QED  BY <1>1 DEF Finish, Ends

\* Where a vector is built, it is, or the thread ends, or the stack is emptied first.
LEMMA CheckedSteps ==
    ASSUME CallInv, NEW t \in Threads, NEW size, NEW av, OnCourse(av, Wanted(t), Sizes[programs[t]]),
           Checked(t, size, av)
    PROVE  CallsNext(t) \/ Ends(t) \/ Rests
<1>1. CASE Goto(t, av)
  BY <1>1, GotoCalls
<1>2. CASE Finish(t, Overflow)
  BY <1>2, FinishEnds
<1>3. CASE Reclaim(t, size)
  BY <1>3 DEF Reclaim, Rests, CallInv, CallTypes
<1> QED  BY <1>1, <1>2, <1>3 DEF Checked

\* A thread that runs is on course.
LEMMA RunningOnCourse ==
    ASSUME CallInv, NEW t \in Threads, Running(t)
    PROVE  OnCourse(call[t], Wanted(t), Sizes[programs[t]])
BY DEF CallInv, CoursesInv, Running

\* The primitives.
LEMMA PrimitivesStep ==
    ASSUME CallInv, NEW t \in Threads, Primitives(t)
    PROVE  CallsNext(t) \/ Ends(t) \/ Rests
<1> DEFINE o == Wanted(t)
           sizes == Sizes[programs[t]]
<1>1. PICK av : av = call[t]
  OBVIOUS
<1>2. OnCourse(av, o, sizes)
  BY <1>1, RunningOnCourse DEF Primitives, Apply, Values, ApplyValues, CallWithValues, ValuesContinuation,
                               CallCC, Wrapper, ValuesWrapper, At
<1>3. CASE Apply(t)
  <2>1. av[1].proc = "C_apply"
    BY <1>1, <1>3 DEF Apply, At
  <2>2. PICK av2 : av2 = <<av[3], av[2]>> \o SubSeq(av, 4, Len(av) - 1) \o Last(av).items
    OBVIOUS
  <2>3. IF ~IsClosure(av[3]) \/ Last(av).proc # "list" THEN o = Failed ELSE OnCourse(av2, o, sizes)
    BY <1>2, <2>1, <2>2, ApplyStays
  <2>4. IF ~IsClosure(av[3]) \/ Last(av).proc # "list" THEN Finish(t, Failed) ELSE Checked(t, Len(av2), av2)
    BY <1>1, <1>3, <2>2 DEF Apply
  <2>5. CASE ~IsClosure(av[3]) \/ Last(av).proc # "list"
    BY <2>3, <2>4, <2>5, FinishEnds
  <2>6. CASE ~(~IsClosure(av[3]) \/ Last(av).proc # "list")
    BY <2>3, <2>4, <2>6, CheckedSteps
  <2> QED  BY <2>5, <2>6
<1>4. CASE Values(t)
  <2>1. av[1].proc = "C_values"
    BY <1>1, <1>4 DEF Values, At
  <2>2. PICK next : next = IF ReceivesMany(av[2]) THEN <<av[2]>> \o SubSeq(av, 3, Len(av))
                           ELSE <<av[2], First(SubSeq(av, 3, Len(av)))>>
    OBVIOUS
  <2>3. OnCourse(next, o, sizes)
    BY <1>2, <2>1, <2>2, ValuesStays
  <2>4. Goto(t, next)
    BY <1>1, <1>4, <2>2 DEF Values, Kontinue
  <2> QED  BY <2>3, <2>4, GotoCalls
<1>5. CASE ApplyValues(t)
  <2>1. av[1].proc = "C_apply_values"
    BY <1>1, <1>5 DEF ApplyValues, At
  <2>2. CASE ReceivesMany(av[2])
    <3>1. Checked(t, Len(av[3].items) + 1, <<av[2]>> \o av[3].items)
      BY <1>1, <1>5, <2>2 DEF ApplyValues
    <3>2. OnCourse(<<av[2]>> \o av[3].items, o, sizes)
      BY <1>2, <2>1, <2>2, ApplyValuesStays
    <3> QED  BY <3>1, <3>2, CheckedSteps
  <2>3. CASE ~ReceivesMany(av[2])
    <3>1. Goto(t, <<av[2], First(av[3].items)>>)
      BY <1>1, <1>5, <2>3 DEF ApplyValues, Kontinue
    <3>2. OnCourse(<<av[2], First(av[3].items)>>, o, sizes)
      BY <1>2, <2>1, <2>3, ApplyValuesStays
    <3> QED  BY <3>1, <3>2, GotoCalls
  <2> QED  BY <2>2, <2>3
<1>6. CASE CallWithValues(t)
  <2>1. av[1].proc = "C_call_with_values"
    BY <1>1, <1>6 DEF CallWithValues, At
  <2>2. PICK next : next = <<av[3], Object("values_continuation", <<av[4], av[2]>>, NoProgram)>>
    OBVIOUS
  <2>3. IsClosure(av[3]) /\ IsClosure(av[4]) /\ OnCourse(next, o, sizes)
    BY <1>2, <2>1, <2>2, CallWithValuesStays
  <2>4. Goto(t, next)
    BY <1>1, <1>6, <2>2, <2>3 DEF CallWithValues
  <2> QED  BY <2>3, <2>4, GotoCalls
<1>7. CASE ValuesContinuation(t)
  <2>1. av[1].proc = "values_continuation"
    BY <1>1, <1>7 DEF ValuesContinuation, At
  <2>2. Goto(t, av[1].items \o Tail(av))
    BY <1>1, <1>7 DEF ValuesContinuation
  <2>3. OnCourse(av[1].items \o Tail(av), o, sizes)
    BY <1>2, <2>1, ValuesContinuationStays
  <2> QED  BY <2>2, <2>3, GotoCalls
<1>8. CASE CallCC(t)
  <2>1. av[1].proc = "C_call_cc"
    BY <1>1, <1>8 DEF CallCC, At
  <2>2. PICK next : next = <<av[3], av[2], WrapperOf(av[2])>>
    OBVIOUS
  <2>3. IsClosure(av[3]) /\ OnCourse(next, o, sizes)
    BY <1>2, <2>1, <2>2, CallCCStays
  <2>4. Goto(t, next)
    BY <1>1, <1>8, <2>2, <2>3 DEF CallCC, WrapperOf
  <2> QED  BY <2>3, <2>4, GotoCalls
<1>9. CASE Wrapper(t)
  <2>1. av[1].proc = "call_cc_wrapper"
    BY <1>1, <1>9 DEF Wrapper, At
  <2>2. CASE Len(av) # 3
    <3>1. Finish(t, Failed)
      BY <1>1, <1>9, <2>2 DEF Wrapper
    <3>2. o = Failed
      BY <1>2, <2>1, <2>2, WrappersStay
    <3> QED  BY <3>1, <3>2, FinishEnds
  <2>3. CASE Len(av) = 3
    <3>1. Goto(t, <<av[1].items[1], av[3]>>)
      BY <1>1, <1>9, <2>3 DEF Wrapper, Kontinue
    <3>2. OnCourse(<<av[1].items[1], av[3]>>, o, sizes)
      BY <1>2, <2>1, <2>3, WrappersStay
    <3> QED  BY <3>1, <3>2, GotoCalls
  <2> QED  BY <2>2, <2>3
<1>10. CASE ValuesWrapper(t)
  <2>1. av[1].proc = "call_cc_values_wrapper"
    BY <1>1, <1>10 DEF ValuesWrapper, At
  <2>2. Goto(t, av[1].items \o SubSeq(av, 3, Len(av)))
    BY <1>1, <1>10 DEF ValuesWrapper
  <2>3. OnCourse(av[1].items \o SubSeq(av, 3, Len(av)), o, sizes)
    BY <1>2, <2>1, WrappersStay
  <2> QED  BY <2>2, <2>3, GotoCalls
<1> HIDE DEF o, sizes
<1> QED  BY <1>3, <1>4, <1>5, <1>6, <1>7, <1>8, <1>9, <1>10 DEF Primitives

\* Compiled code.
LEMMA CompiledStep ==
    ASSUME CallInv, NEW t \in Threads, CompiledCode(t)
    PROVE  CallsNext(t) \/ Ends(t) \/ Rests
<1> DEFINE o == Wanted(t)
           sizes == Sizes[programs[t]]
<1>1. PICK av : av = call[t]
  OBVIOUS
<1>2. OnCourse(av, o, sizes)
  BY <1>1, RunningOnCourse DEF CompiledCode, ReclaimAtEntry, Execute, Ignore, Collect, Halt, Entry, At
<1>3. CASE ReclaimAtEntry(t)
  BY <1>3 DEF ReclaimAtEntry, Reclaim, Rests, CallInv, CallTypes
<1>4. CASE Execute(t)
  <2>1. av[1].proc = "code"
    BY <1>1, <1>4 DEF Execute, Entry, At
  <2>2. PICK k, p, env : k = av[2] /\ p = av[1].prog /\ env = av[1].items \o SubSeq(av, 3, Len(av))
    OBVIOUS
  <2>3. Goto(t, CASE p.op = "values" -> <<Primitive("C_values"), k>> \o p.vals
                  [] p.op = "apply" ->
                         <<Primitive("C_apply"), k, Primitive("C_values"), p.vals[1], Listed(Tail(p.vals))>>
                  [] p.op = "misapply" -> <<Primitive("C_apply"), k, Primitive("C_values"), p.vals[1]>>
                  [] p.op = "list-values" -> <<Primitive("C_apply_values"), k, Listed(p.vals)>>
                  [] p.op = "call-with-values" ->
                         <<Primitive("C_call_with_values"), k, Code(p.sub[1], env), Primitive("collect")>>
                  [] p.op = "call/cc" -> <<Primitive("C_call_cc"), k, Code(p.sub[1], env)>>
                  [] p.op = "throw" -> <<env[p.k], k>> \o p.vals
                  [] p.op = "begin" -> <<Code(p.sub[1], env), Object("ignore", <<k>> \o env, p.sub[2])>>)
    BY <1>1, <1>4, <2>2 DEF Execute
  <2>4. PICK next : Goto(t, next) /\ OnCourse(next, o, sizes)
    <3> HIDE DEF o, sizes
    <3>1. CASE p.op = "values" /\ OnCourse(<<Primitive("C_values"), k>> \o p.vals, o, sizes)
      BY <2>3, <3>1
    <3>2. CASE p.op = "apply" /\
               OnCourse(<<Primitive("C_apply"), k, Primitive("C_values"), p.vals[1], Listed(Tail(p.vals))>>, o, sizes)
      BY <2>3, <3>2
    <3>3. CASE p.op = "misapply" /\
               OnCourse(<<Primitive("C_apply"), k, Primitive("C_values"), p.vals[1]>>, o, sizes)
      BY <2>3, <3>3
    <3>4. CASE p.op = "list-values" /\ OnCourse(<<Primitive("C_apply_values"), k, Listed(p.vals)>>, o, sizes)
      BY <2>3, <3>4
    <3>5. CASE p.op = "call-with-values" /\
               OnCourse(<<Primitive("C_call_with_values"), k, Code(p.sub[1], env), Primitive("collect")>>, o, sizes)
      BY <2>3, <3>5
    <3>6. CASE p.op = "call/cc" /\ OnCourse(<<Primitive("C_call_cc"), k, Code(p.sub[1], env)>>, o, sizes)
      BY <2>3, <3>6
    <3>7. CASE p.op = "throw" /\ OnCourse(<<env[p.k], k>> \o p.vals, o, sizes)
      BY <2>3, <3>7
    <3>8. CASE p.op = "begin" /\
               OnCourse(<<Code(p.sub[1], env), Object("ignore", <<k>> \o env, p.sub[2])>>, o, sizes)
      BY <2>3, <3>8
    <3>9. IsCode(av, p, k, env)
      BY <2>2 DEF IsCode
    <3>10. \/ p.op = "values" /\ OnCourse(<<Primitive("C_values"), k>> \o p.vals, o, sizes)
           \/ p.op = "apply" /\
                  OnCourse(<<Primitive("C_apply"), k, Primitive("C_values"), p.vals[1], Listed(Tail(p.vals))>>,
                           o, sizes)
           \/ p.op = "misapply" /\
                  OnCourse(<<Primitive("C_apply"), k, Primitive("C_values"), p.vals[1]>>, o, sizes)
           \/ p.op = "list-values" /\ OnCourse(<<Primitive("C_apply_values"), k, Listed(p.vals)>>, o, sizes)
           \/ p.op = "call-with-values" /\
                  OnCourse(<<Primitive("C_call_with_values"), k, Code(p.sub[1], env), Primitive("collect")>>, o, sizes)
           \/ p.op = "call/cc" /\ OnCourse(<<Primitive("C_call_cc"), k, Code(p.sub[1], env)>>, o, sizes)
           \/ p.op = "throw" /\ OnCourse(<<env[p.k], k>> \o p.vals, o, sizes)
           \/ p.op = "begin" /\
                  OnCourse(<<Code(p.sub[1], env), Object("ignore", <<k>> \o env, p.sub[2])>>, o, sizes)
      BY <1>2, <2>1, <3>9, ExecuteStays
    <3> QED  BY <3>10, <3>1, <3>2, <3>3, <3>4, <3>5, <3>6, <3>7, <3>8
  <2> QED  BY <2>4, GotoCalls
<1>5. CASE Ignore(t)
  <2>1. av[1].proc = "ignore"
    BY <1>1, <1>5 DEF Ignore, Entry, At
  <2>2. Goto(t, <<Code(av[1].prog, Tail(av[1].items)), av[1].items[1]>>)
    BY <1>1, <1>5 DEF Ignore
  <2>3. OnCourse(<<Code(av[1].prog, Tail(av[1].items)), av[1].items[1]>>, o, sizes)
    BY <1>2, <2>1, ContinuationsStay
  <2> QED  BY <2>2, <2>3, GotoCalls
<1>6. CASE Collect(t)
  <2>1. av[1].proc = "collect"
    BY <1>1, <1>6 DEF Collect, Entry, At
  <2>2. Goto(t, <<av[2], Listed(SubSeq(av, 3, Len(av)))>>)
    BY <1>1, <1>6 DEF Collect, Kontinue
  <2>3. OnCourse(<<av[2], Listed(SubSeq(av, 3, Len(av)))>>, o, sizes)
    BY <1>2, <2>1, ContinuationsStay
  <2> QED  BY <2>2, <2>3, GotoCalls
<1>7. CASE Halt(t)
  <2>1. av[1].proc = "halt"
    BY <1>1, <1>7 DEF Halt, Entry, At
  <2>2. Finish(t, Outcome("values", Tail(av)))
    BY <1>1, <1>7 DEF Halt
  <2>3. o = Outcome("values", Tail(av))
    BY <1>2, <2>1, ContinuationsStay
  <2> QED  BY <2>2, <2>3, FinishEnds
<1> HIDE DEF o, sizes
<1> QED  BY <1>3, <1>4, <1>5, <1>6, <1>7 DEF CompiledCode

\* Every step keeps the invariant.
LEMMA CallInvKept == CallInv /\ [CallNext /\ UNCHANGED programs]_systemVars => CallInv'
<1> SUFFICES ASSUME CallInv, [CallNext /\ UNCHANGED programs]_systemVars PROVE CallInv'
  OBVIOUS
<1>1. CASE UNCHANGED systemVars
  <2>1. UNCHANGED programs /\ UNCHANGED <<call, result, current>>
    BY <1>1 DEF systemVars, callVars
  <2>2. Rests /\ current \in Threads
    BY <2>1 DEF Rests, CallInv, CallTypes
  <2> QED  BY <2>1, <2>2, StepsKeep
<1>2. CASE CallNext /\ UNCHANGED programs
  <2>1. CASE Dispatch \/ Interrupt
    <3>1. Rests /\ current \in Threads
      BY <2>1 DEF Dispatch, Interrupt, Rests, CallInv, CallTypes
    <3> QED  BY <1>2, <3>1, StepsKeep
  <2>2. ASSUME NEW t \in Threads, Primitives(t) \/ CompiledCode(t) PROVE CallInv'
    <3>1. CallsNext(t) \/ Ends(t) \/ Rests
      BY <2>2, PrimitivesStep, CompiledStep
    <3> QED  BY <1>2, <3>1, StepsKeep
  <2> QED  BY <1>2, <2>1, <2>2 DEF CallNext
<1> QED  BY <1>1, <1>2

\* The invariant holds from the start.
LEMMA CallInvHolds == CallSpec => []CallInv
<1>1. CallInit => CallInv
  <2> SUFFICES ASSUME CallInit PROVE CallInv
    OBVIOUS
  <2>1. CallTypes
    BY DEF CallInit, Start, CallTypes
  <2>2. CoursesInv
    <3>1. ASSUME NEW t \in Threads PROVE OnCourse(call[t], Wanted(t), Sizes[programs[t]])
      <4>1. programs[t] \in Expressions[Nesting][0] /\ call[t] = <<Code(programs[t], <<>>), Primitive("halt")>>
        BY DEF CallInit, Start
      <4> QED  BY <4>1, StartsOnCourse DEF Wanted
    <3> QED  BY <3>1 DEF CoursesInv
  <2>3. OutcomesInv
    BY DEF CallInit, Start, OutcomesInv
  <2> QED  BY <2>1, <2>2, <2>3 DEF CallInv
<1> QED  BY <1>1, CallInvKept, PTL DEF CallSpec

\* What a program of apply, values, call-with-values, call/cc and the continuations it makes comes to
\* is what its expressions mean, whatever is collected, whenever signals arrive and whichever threads
\* run in between: C_apply, C_values, C_call_with_values, C_call_cc and what they call in runtime.c.
THEOREM KeepsMeaning == CallSpec => []MeaningKept
<1>1. CallInv => MeaningKept
  BY DEF CallInv, OutcomesInv, MeaningKept, Wanted, OutcomeOf
<1> QED  BY <1>1, CallInvHolds, PTL

-----------------------------------------------------------------------------
(***************************************************************************)
(* Stack overflows.  A demand is only remembered until the call that could *)
(* not be met has been made again, on an empty stack.                      *)
(***************************************************************************)
Asking(av) ==
    \/ av[1].proc = "C_apply" /\ IsClosure(av[3]) /\ Last(av).proc = "list"
    \/ av[1].proc = "C_apply_values" /\ ReceivesMany(av[2])
DemandInv ==
    /\ faked = pending
    /\ demand # 0 => /\ ~pending /\ free = StackWords
                     /\ result[current] = Unfinished /\ Asking(call[current])

\* Other calls find no demand, and leave none.
LEMMA NoDemand ==
    ASSUME DemandInv, NEW t \in Threads, Running(t), ~Asking(call[t])
    PROVE  demand = 0
BY DEF DemandInv, Running

\* A step that leaves no demand keeps the invariant.
LEMMA NoneAfterwards ==
    ASSUME DemandInv, demand' = 0, \/ UNCHANGED <<faked, pending>>
                                   \/ pending' = FALSE /\ faked' = FALSE
                                   \/ pending' = TRUE /\ faked' = TRUE
    PROVE  DemandInv'
BY DEF DemandInv

\* Where a vector is built, a demand that is met is forgotten, and one that cannot be is real.
LEMMA CheckedDemands ==
    ASSUME DemandInv, NEW t \in Threads, Running(t), Asking(call[t]), NEW size \in Nat, NEW av, Checked(t, size, av)
    PROVE  DemandInv' /\ (UNCHANGED result \/ (Finish(t, Overflow) /\ size >= StackWords))
<1>1. CASE Demand(size) /\ demand' = 0 /\ Goto(t, av) /\ Use(size)
  <2>1. DemandInv'
    BY <1>1, NoneAfterwards DEF Use
  <2>2. UNCHANGED result
    BY <1>1 DEF Goto
  <2> QED  BY <2>1, <2>2
<1>2. CASE ~Demand(size) /\ demand # 0 /\ Finish(t, Overflow) /\ demand' = 0 /\ UNCHANGED <<free, faked, pending>>
  <2>1. DemandInv'
    BY <1>2, NoneAfterwards
  <2>2. ~pending /\ free = StackWords /\ faked = pending
    BY <1>2 DEF DemandInv
  <2>3. ~(StackWords > size)
    BY <1>2, <2>2 DEF Demand
  <2>4. size >= StackWords
    BY <2>3, CallsAssumption
  <2> QED  BY <1>2, <2>1, <2>4
<1>3. CASE ~Demand(size) /\ demand = 0 /\ Reclaim(t, size)
  <2>1. UNCHANGED result
    BY <1>3 DEF Reclaim
  <2>2. CASE pending
    <3>1. pending' = FALSE /\ faked' = FALSE /\ demand' = 0
      BY <1>3, <2>2 DEF Reclaim
    <3> QED  BY <2>1, <3>1, NoneAfterwards
  <2>3. CASE ~pending
    <3>1. free' = StackWords /\ UNCHANGED <<call, result, current, pending, faked>>
      BY <1>3, <2>3 DEF Reclaim
    <3>2. current = t /\ result[t] = Unfinished
      BY DEF Running
    <3>3. faked' = pending' /\ ~pending'
      BY <2>3, <3>1 DEF DemandInv
    <3>4. result'[current'] = Unfinished /\ Asking(call'[current'])
      BY <3>1, <3>2
    <3> QED  BY <2>1, <3>1, <3>3, <3>4 DEF DemandInv, Asking
  <2> QED  BY <2>2, <2>3
<1> QED  BY <1>1, <1>2, <1>3 DEF Checked

\* What the steps of a thread do to demands, and to what it has come to.
MeetsDemand(t) ==
    /\ DemandInv'
    /\ \/ UNCHANGED result
       \/ \E o : Finish(t, o) /\ (o = Overflow => \E n \in Sizes[programs[t]] : n >= StackWords)

\* Procedures that ask for nothing.
LEMMA OthersMeet ==
    ASSUME DemandInv, NEW t \in Threads, Running(t), ~Asking(call[t]), UNCHANGED demand,
           UNCHANGED <<faked, pending>>, UNCHANGED result \/ \E o : Finish(t, o) /\ o # Overflow
    PROVE  MeetsDemand(t)
<1>1. demand' = 0
  BY NoDemand
<1> QED  BY <1>1, NoneAfterwards DEF MeetsDemand

\* An outcome that is not an overflow.
LEMMA NoOverflow == Failed # Overflow /\ \A vals : Outcome("values", vals) # Overflow
BY DEF Failed, Overflow, Outcome

\* The primitives.
LEMMA PrimitivesMeet ==
    ASSUME CallInv, DemandInv, NEW t \in Threads, Primitives(t)
    PROVE  MeetsDemand(t)
<1>1. PICK av : av = call[t]
  OBVIOUS
<1>2. Running(t)
  BY DEF Primitives, Apply, Values, ApplyValues, CallWithValues, ValuesContinuation, CallCC, Wrapper, ValuesWrapper, At
<1>3. OnCourse(av, Wanted(t), Sizes[programs[t]])
  BY <1>1, <1>2, RunningOnCourse
<1>4. CASE Apply(t)
  <2>1. av[1].proc = "C_apply"
    BY <1>1, <1>4 DEF Apply, At
  <2>2. PICK av2 : av2 = <<av[3], av[2]>> \o SubSeq(av, 4, Len(av) - 1) \o Last(av).items
    OBVIOUS
  <2>3. CASE ~IsClosure(av[3]) \/ Last(av).proc # "list"
    <3>1. Finish(t, Failed) /\ UNCHANGED machineVars
      BY <1>1, <1>4, <2>3 DEF Apply
    <3>2. ~Asking(call[t])
      BY <1>1, <2>1, <2>3 DEF Asking
    <3> QED  BY <1>2, <3>1, <3>2, OthersMeet, NoOverflow DEF machineVars
  <2>4. CASE IsClosure(av[3]) /\ Last(av).proc = "list"
    <3>1. Checked(t, Len(av2), av2)
      BY <1>1, <1>4, <2>2, <2>4 DEF Apply
    <3>2. Asking(call[t])
      BY <1>1, <2>1, <2>4 DEF Asking
    <3>3. Len(av2) \in Sizes[programs[t]] /\ Len(av2) \in Nat
      BY <1>3, <2>1, <2>2, <2>4, ApplyStays
    <3>4. DemandInv' /\ (UNCHANGED result \/ (Finish(t, Overflow) /\ Len(av2) >= StackWords))
      BY <1>2, <3>1, <3>2, <3>3, CheckedDemands
    <3> QED  BY <3>3, <3>4 DEF MeetsDemand
  <2> QED  BY <2>3, <2>4
<1>5. CASE ApplyValues(t)
  <2>1. av[1].proc = "C_apply_values"
    BY <1>1, <1>5 DEF ApplyValues, At
  <2>2. CASE ReceivesMany(av[2])
    <3>1. PICK size : size = Len(av[3].items) + 1
      OBVIOUS
    <3>2. Checked(t, size, <<av[2]>> \o av[3].items)
      BY <1>1, <1>5, <2>2, <3>1 DEF ApplyValues
    <3>3. Asking(call[t])
      BY <1>1, <2>1, <2>2 DEF Asking
    <3>4. size \in Sizes[programs[t]] /\ size \in Nat
      BY <1>3, <2>1, <2>2, <3>1, ApplyValuesStays
    <3>5. DemandInv' /\ (UNCHANGED result \/ (Finish(t, Overflow) /\ size >= StackWords))
      BY <1>2, <3>2, <3>3, <3>4, CheckedDemands
    <3> QED  BY <3>4, <3>5 DEF MeetsDemand
  <2>3. CASE ~ReceivesMany(av[2])
    <3>1. UNCHANGED result /\ UNCHANGED demand /\ UNCHANGED <<faked, pending>>
      BY <1>1, <1>5, <2>3 DEF ApplyValues, Kontinue, Goto, Use
    <3>2. ~Asking(call[t])
      BY <1>1, <2>1, <2>3 DEF Asking
    <3> QED  BY <1>2, <3>1, <3>2, OthersMeet
  <2> QED  BY <2>2, <2>3
<1>6. CASE Values(t) \/ CallWithValues(t) \/ ValuesContinuation(t) \/ CallCC(t) \/ Wrapper(t) \/ ValuesWrapper(t)
  <2>1. ~Asking(call[t])
    BY <1>6 DEF Asking, Values, CallWithValues, ValuesContinuation, CallCC, Wrapper, ValuesWrapper, At
  <2>2. UNCHANGED demand /\ UNCHANGED <<faked, pending>>
    BY <1>6 DEF Values, CallWithValues, ValuesContinuation, CallCC, Wrapper, ValuesWrapper, Use
  <2>3. UNCHANGED result \/ Finish(t, Failed)
    BY <1>6 DEF Values, CallWithValues, ValuesContinuation, CallCC, Wrapper, ValuesWrapper, Kontinue, Goto
  <2> QED  BY <1>2, <2>1, <2>2, <2>3, OthersMeet, NoOverflow
<1> QED  BY <1>4, <1>5, <1>6 DEF Primitives

\* Compiled code.
LEMMA CompiledMeets ==
    ASSUME DemandInv, NEW t \in Threads, CompiledCode(t)
    PROVE  MeetsDemand(t)
<1>1. Running(t) /\ call[t][1].proc \in Compiled
  BY DEF CompiledCode, ReclaimAtEntry, Execute, Ignore, Collect, Halt, Entry, At, Compiled
<1>2. ~Asking(call[t])
  BY <1>1 DEF Asking, Compiled
<1>3. CASE ReclaimAtEntry(t)
  <2>1. demand = 0
    BY <1>1, <1>2, NoDemand
  <2>2. Reclaim(t, 0)
    BY <1>3, <2>1 DEF ReclaimAtEntry
  <2>3. CASE pending
    <3>1. UNCHANGED result /\ demand' = 0 /\ pending' = FALSE /\ faked' = FALSE
      BY <2>2, <2>3 DEF Reclaim
    <3> QED  BY <3>1, NoneAfterwards DEF MeetsDemand
  <2>4. CASE ~pending
    <3>1. UNCHANGED result /\ demand' = 0 /\ UNCHANGED <<faked, pending>>
      BY <2>2, <2>4 DEF Reclaim
    <3> QED  BY <3>1, NoneAfterwards DEF MeetsDemand
  <2> QED  BY <2>3, <2>4
<1>4. CASE Execute(t) \/ Ignore(t) \/ Collect(t)
  <2>1. UNCHANGED demand /\ UNCHANGED <<faked, pending>>
    BY <1>4 DEF Execute, Ignore, Collect, Entry, Use
  <2>2. UNCHANGED result
    BY <1>4 DEF Execute, Ignore, Collect, Kontinue, Goto
  <2> QED  BY <1>1, <1>2, <2>1, <2>2, OthersMeet
<1>5. CASE Halt(t)
  <2>1. UNCHANGED demand /\ UNCHANGED <<faked, pending>>
    BY <1>5 DEF Halt, Entry, Use
  <2>2. Finish(t, Outcome("values", Tail(call[t])))
    BY <1>5 DEF Halt
  <2> QED  BY <1>1, <1>2, <2>1, <2>2, OthersMeet, NoOverflow
<1> QED  BY <1>3, <1>4, <1>5 DEF CompiledCode

\* Overflows stay real.
LEMMA OverflowsStayReal ==
    ASSUME CallInv, OverflowIsReal, NEW t \in Threads, UNCHANGED programs, MeetsDemand(t)
    PROVE  OverflowIsReal'
<1>1. CASE UNCHANGED result
  BY <1>1 DEF OverflowIsReal
<1>2. CASE \E o : Finish(t, o) /\ (o = Overflow => \E n \in Sizes[programs[t]] : n >= StackWords)
  <2>1. PICK o : Finish(t, o) /\ (o = Overflow => \E n \in Sizes[programs[t]] : n >= StackWords)
    BY <1>2
  <2>2. result'[t] = o /\ \A u \in Threads : u # t => result'[u] = result[u]
    BY <2>1 DEF Finish, CallInv, CallTypes
  <2>3. ASSUME NEW u \in Threads, result'[u] = Overflow PROVE \E n \in Sizes[programs'[u]] : n >= StackWords
    <3>1. CASE u = t
      BY <2>1, <2>2, <2>3, <3>1
    <3>2. CASE u # t
      BY <2>2, <2>3, <3>2 DEF OverflowIsReal
    <3> QED  BY <3>1, <3>2
  <2> QED  BY <2>3 DEF OverflowIsReal
<1> QED  BY <1>1, <1>2 DEF MeetsDemand

\* If interrupts come at stack checks only, a call is refused for want of stack only when it asks for
\* no less than an empty one has: a demand is forgotten where it is met and where it is refused
\* (C_demand, C_apply, C_apply_values, C_save_and_reclaim and stack_check_demand in runtime.c).
THEOREM OverflowsForReal ==
    ASSUME ~Signals
    PROVE  CallSpec => []OverflowIsReal
<1>1. CallInit => DemandInv /\ OverflowIsReal
  <2> SUFFICES ASSUME CallInit PROVE DemandInv /\ OverflowIsReal
    OBVIOUS
  <2>1. faked = FALSE /\ pending = FALSE /\ demand = 0
    BY DEF CallInit, Start
  <2>2. DemandInv
    BY <2>1 DEF DemandInv
  <2>3. \A t \in Threads : result[t] = Unfinished
    BY DEF CallInit, Start
  <2>4. Unfinished # Overflow
    BY DEF Unfinished, Overflow, Outcome
  <2> QED  BY <2>2, <2>3, <2>4 DEF OverflowIsReal
<1>2. CallInv /\ CallInv' /\ DemandInv /\ OverflowIsReal /\ [CallNext /\ UNCHANGED programs]_systemVars
          => DemandInv' /\ OverflowIsReal'
  <2> SUFFICES ASSUME CallInv, DemandInv, OverflowIsReal, [CallNext /\ UNCHANGED programs]_systemVars
               PROVE  DemandInv' /\ OverflowIsReal'
    OBVIOUS
  <2>1. CASE UNCHANGED systemVars
    BY <2>1 DEF systemVars, callVars, machineVars, DemandInv, OverflowIsReal
  <2>2. CASE Dispatch /\ UNCHANGED programs
    <3>1. demand = 0
      BY <2>2 DEF Dispatch, DemandInv
    <3>2. DemandInv'
      BY <2>2, <3>1, NoneAfterwards DEF Dispatch, machineVars
    <3> QED  BY <2>2, <3>2 DEF Dispatch, OverflowIsReal
  <2>3. CASE Interrupt /\ UNCHANGED programs
    <3>1. Running(current) /\ ~Asking(call[current]) /\ current \in Threads
      BY <2>3 DEF Interrupt, Asking, Compiled, CallInv, CallTypes
    <3>2. demand' = 0
      BY <2>3, <3>1, NoDemand DEF Interrupt
    <3>3. DemandInv'
      BY <2>3, <3>2, NoneAfterwards DEF Interrupt
    <3> QED  BY <2>3, <3>3 DEF Interrupt, OverflowIsReal
  <2>4. ASSUME NEW t \in Threads, Primitives(t) \/ CompiledCode(t), UNCHANGED programs
        PROVE  DemandInv' /\ OverflowIsReal'
    <3>1. MeetsDemand(t)
      BY <2>4, PrimitivesMeet, CompiledMeets
    <3> QED  BY <2>4, <3>1, OverflowsStayReal DEF MeetsDemand
  <2> QED  BY <2>1, <2>2, <2>3, <2>4 DEF CallNext
<1> QED  BY <1>1, <1>2, CallInvHolds, PTL DEF CallSpec
=============================================================================
