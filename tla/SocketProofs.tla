---------------------------- MODULE SocketProofs ----------------------------
(***************************************************************************)
(* Proofs about the debugger stub, for all units, all numbers of events    *)
(* and any number of requests, cut into any pieces; and about tcp-accept   *)
(* and tcp-connect, for every number of threads, clients and ways to use   *)
(* the network.  That accept() never blocks the process, and that          *)
(* tcp-connect tells the truth, each holds for the programs that its       *)
(* theorem names, and the model has counterexamples for the other ones.    *)
(***************************************************************************)
EXTENDS Debugger, TcpConnections, FiniteSetTheorems, SequenceTheorems, WellFoundedInduction, TLAPS

-----------------------------------------------------------------------------
(***************************************************************************)
(* The inductive invariant.                                                *)
(***************************************************************************)
Chars == Requests \cup {Newline}
AllCells == (DOMAIN Units) \X Nat

\* What is read of a line holds no newline but at its end.
NetInv ==
    /\ line \in Seq(Chars) /\ input \in Seq(Chars) /\ stream \in Seq(Chars)
    /\ requested \in Seq(Requests) /\ done \in Seq(Requests)
    /\ \A i \in 1..(Len(line) - 1) : line[i] # Newline
    /\ RequestsInOrder

\* The events of the units that were listed, and those of the others.
Old == Cells(SubSeq(infos, 1, unseen))
New == Cells(SubSeq(infos, unseen + 1, Len(infos)))

\* The units are different, and so are their events; those of units listed come
\* first.  The table is what the client was told of them.
InfoInv ==
    /\ infos \in Seq(DOMAIN Units) /\ unseen \in 0..Len(infos)
    /\ Cells(infos) \in Seq(AllCells) /\ Old \in Seq(AllCells) /\ New \in Seq(AllCells)
    /\ Cells(infos) = Old \o New
    /\ \A m \in 1..Len(Cells(infos)) : Cells(infos)[m][1] \in ToSet(infos)
    /\ \A m, n \in 1..Len(Cells(infos)) : Cells(infos)[m] = Cells(infos)[n] => m = n
    /\ table \in Seq(Nat \X AllCells) /\ listed = Len(table) /\ Len(table) = Len(Old)
    /\ \A i \in 1..Len(table) : table[i] = <<i - 1, Cells(infos)[i]>>

\* The breakpoints are those of the numbers that were set and not cleared since,
\* and no number was carried out that did not name an event.
SetCells == {Cells(infos)[n + 1] : n \in {m \in 0..Len(Cells(infos)) - 1 : IsSet(m)}}
BreakInv ==
    status # "terminated" =>
        /\ enabled = SetCells
        /\ \A i \in 1..Len(done) :
               done[i].op \in {"set", "clear"} => done[i].arg \in 0..Len(Cells(infos)) - 1

DebuggerInv == NetInv /\ InfoInv /\ BreakInv
-----------------------------------------------------------------------------
(***************************************************************************)
(* Rows of sequences, and the events of the units.                         *)
(***************************************************************************)

\* A set of numbers that is not empty has a least one.
LEMMA LeastOf ==
    ASSUME NEW S \in SUBSET Nat, S # {}
    PROVE  \E n \in S : \A m \in S : n <= m
<1>1. IsWellFoundedOn(OpToRel(<, Nat), Nat)
  BY NatLessThanWellFounded
<1>2. PICK n \in S : \A m \in S : ~(<<m, n>> \in OpToRel(<, Nat))
  BY <1>1, WFMin
<1>3. \A m \in S : ~(m < n)
  BY <1>2 DEF OpToRel
<1> QED  BY <1>3

\* f[i] joins the first i sequences of the row.
Joins(f, row, n) ==
    \A i \in 1..n : f[i] = IF i = 1 THEN row[i] ELSE f[i - 1] \o row[i]

\* There is one way to join the sequences of a row.
LEMMA JoinsUnique ==
    ASSUME NEW n \in Nat, NEW row, NEW f, NEW g, Joins(f, row, n), Joins(g, row, n)
    PROVE  \A i \in 1..n : f[i] = g[i]
<1> DEFINE B == {i \in 1..n : f[i] # g[i]}
<1>1. SUFFICES ASSUME B # {} PROVE FALSE
  OBVIOUS
<1>2. PICK i \in B : \A m \in B : i <= m
  <2>1. B \in SUBSET Nat
    OBVIOUS
  <2> HIDE DEF B
  <2> QED  BY <1>1, <2>1, LeastOf
<1>3. i \in 1..n /\ f[i] # g[i]
  OBVIOUS
<1>4. CASE i = 1
  BY <1>3, <1>4 DEF Joins
<1>5. CASE i # 1
  <2>1. i - 1 \in 1..n /\ i - 1 < i
    BY <1>3, <1>5
  <2>2. ~(i - 1 \in B)
    BY <1>2, <2>1
  <2>3. f[i - 1] = g[i - 1]
    BY <2>1, <2>2
  <2> QED  BY <1>3, <1>5, <2>3 DEF Joins
<1> QED  BY <1>4, <1>5

\* And there is one.
LEMMA JoinsExists ==
    ASSUME NEW S, NEW n \in Nat, NEW row, \A i \in 1..n : row[i] \in Seq(S)
    PROVE  \E f \in [1..n -> Seq(S)] : Joins(f, row, n)
<1> DEFINE G(k) == \E f \in [1..k -> Seq(S)] : Joins(f, row, k)
           B == {k \in 0..n : ~G(k)}
<1>1. SUFFICES ASSUME B # {} PROVE FALSE
  <2>1. n \in 0..n
    OBVIOUS
  <2> QED  BY <2>1
<1>2. B \in SUBSET Nat
  OBVIOUS
<1>3. PICK k \in B : \A m \in B : k <= m
  BY <1>1, <1>2, LeastOf
<1>4. k \in 0..n /\ ~G(k)
  OBVIOUS
<1>5. CASE k = 0
  <2> DEFINE e == [i \in 1..0 |-> <<>>]
  <2>1. e \in [1..0 -> Seq(S)] /\ Joins(e, row, 0)
    BY DEF Joins
  <2> QED  BY <1>4, <1>5, <2>1
<1>6. CASE k = 1
  <2> DEFINE e == [i \in 1..1 |-> row[1]]
  <2>1. e \in [1..1 -> Seq(S)] /\ Joins(e, row, 1)
    BY <1>4, <1>6 DEF Joins
  <2> QED  BY <1>4, <1>6, <2>1
<1>7. CASE k > 1
  <2>1. k - 1 \in 0..n /\ k - 1 < k
    BY <1>4, <1>7
  <2>2. G(k - 1)
    <3>1. k - 1 \notin B
      BY <1>2, <1>3, <2>1
    <3> HIDE DEF G
    <3> QED  BY <2>1, <3>1
  <2>3. PICK f \in [1..(k - 1) -> Seq(S)] : Joins(f, row, k - 1)
    BY <2>2
  <2> DEFINE e == [i \in 1..k |-> IF i = k THEN f[k - 1] \o row[k] ELSE f[i]]
  <2>4. f[k - 1] \in Seq(S) /\ row[k] \in Seq(S)
    BY <1>4, <1>7
  <2>5. f[k - 1] \o row[k] \in Seq(S)
    BY <2>4
  <2>6. e \in [1..k -> Seq(S)]
    <3>1. ASSUME NEW i \in 1..k, i # k PROVE f[i] \in Seq(S)
      <4>1. i \in 1..(k - 1)
        BY <1>4, <3>1
      <4> QED  BY <4>1
    <3> QED  BY <2>5, <3>1
  <2>7. ASSUME NEW i \in 1..k
        PROVE  e[i] = IF i = 1 THEN row[i] ELSE e[i - 1] \o row[i]
    <3>1. CASE i = k
      <4>1. i # 1 /\ i - 1 \in 1..k /\ i - 1 # k
        BY <1>4, <1>7, <3>1
      <4> QED  BY <3>1, <4>1
    <3>2. CASE i # k
      <4>1. i \in 1..(k - 1)
        BY <1>4, <3>2
      <4>2. f[i] = IF i = 1 THEN row[i] ELSE f[i - 1] \o row[i]
        BY <2>3, <4>1 DEF Joins
      <4>3. i # 1 => i - 1 \in 1..k /\ i - 1 # k
        BY <1>4, <4>1
      <4> QED  BY <3>2, <4>2, <4>3
    <3> QED  BY <3>1, <3>2
  <2>8. Joins(e, row, k)
    BY <2>7 DEF Joins
  <2> QED  BY <1>4, <2>6, <2>8
<1> QED  BY <1>4, <1>5, <1>6, <1>7

\* FlattenSeq is the last of them.
LEMMA FlattenFacts ==
    ASSUME NEW S, NEW n \in Nat, NEW row \in [1..n -> Seq(S)]
    PROVE  /\ n = 0 => FlattenSeq(row) = <<>>
           /\ n > 0 => \E f \in [1..n -> Seq(S)] :
                          Joins(f, row, n) /\ FlattenSeq(row) = f[n]
<1>1. Len(row) = n /\ row \in Seq(Seq(S))
  OBVIOUS
<1>2. CASE n = 0
  <2>1. row = <<>>
    BY <1>1, <1>2
  <2> QED  BY <1>1, <1>2, <2>1 DEF FlattenSeq
<1>3. CASE n > 0
  <2> DEFINE P(f) == f = [i \in 1..Len(row) |-> IF i = 1 THEN row[i] ELSE f[i - 1] \o row[i]]
             h == CHOOSE f : P(f)
  <2>1. FlattenSeq(row) = h[n]
    BY <1>1, <1>3 DEF FlattenSeq
  <2>2. PICK g \in [1..n -> Seq(S)] : Joins(g, row, n)
    BY JoinsExists
  <2>3. P(g)
    BY <1>1, <2>2 DEF Joins
  <2>4. P(h)
    BY <2>3
  <2>5. h = [i \in 1..n |-> IF i = 1 THEN row[i] ELSE h[i - 1] \o row[i]]
    BY <1>1, <2>4
  <2> HIDE DEF h
  <2>6. Joins(h, row, n)
    BY <2>5 DEF Joins
  <2>7. \A i \in 1..n : h[i] = g[i]
    BY <2>2, <2>6, JoinsUnique
  <2>8. h[n] = g[n]
    BY <1>3, <2>7
  <2>9. ~(n = 0)
    BY <1>3
  <2> HIDE DEF Joins
  <2> QED  BY <2>1, <2>2, <2>8, <2>9
<1> QED  BY <1>2, <1>3

\* A row of n sequences, and one that is longer by one.
Row(row, n, S) == row \in [1..n -> Seq(S)]
Extends(longer, row, m, n) == m = n + 1 /\ \A i \in 1..n : longer[i] = row[i]

\* The last one of the longer row is added to what the others are joined to.
LEMMA FlattenAppend ==
    ASSUME NEW S, NEW n, NEW m, NEW row, NEW longer, n \in Nat,
           Row(row, n, S), Row(longer, m, S), Extends(longer, row, m, n)
    PROVE  /\ FlattenSeq(row) \in Seq(S)
           /\ FlattenSeq(longer) = FlattenSeq(row) \o longer[m]
<1> DEFINE x == longer[m]
<1>a. row \in [1..n -> Seq(S)] /\ longer \in [1..m -> Seq(S)]
  BY DEF Row
<1>b. m = n + 1 /\ m \in Nat /\ n \in Nat /\ \A i \in 1..n : longer[i] = row[i]
  BY DEF Extends
<1>c. x \in Seq(S)
  BY <1>a, <1>b
<1>1. PICK g : Joins(g, longer, m) /\ FlattenSeq(longer) = g[m]
  <2>1. m \in Nat /\ m > 0
    BY <1>b
  <2>2. \E g \in [1..m -> Seq(S)] : Joins(g, longer, m) /\ FlattenSeq(longer) = g[m]
    BY <1>a, <2>1, FlattenFacts
  <2> QED  BY <2>2
<1>2. g[m] = IF m = 1 THEN x ELSE g[m - 1] \o x
  <2>1. m \in 1..m
    BY <1>b
  <2>2. \A i \in 1..m : g[i] = IF i = 1 THEN longer[i] ELSE g[i - 1] \o longer[i]
    BY <1>1 DEF Joins
  <2>3. longer[m] = x
    OBVIOUS
  <2> HIDE DEF x
  <2> QED  BY ONLY <2>1, <2>2, <2>3
<1>3. CASE n = 0
  <2>1. FlattenSeq(row) = <<>>
    BY <1>3, <1>a, <1>b, FlattenFacts
  <2>2. m = 1
    BY <1>3, <1>b
  <2> QED  BY <1>1, <1>2, <1>c, <2>1, <2>2
<1>4. CASE n > 0
  <2>1. PICK f : Joins(f, row, n) /\ FlattenSeq(row) = f[n] /\ f[n] \in Seq(S)
    <3>1. PICK f \in [1..n -> Seq(S)] : Joins(f, row, n) /\ FlattenSeq(row) = f[n]
      BY <1>4, <1>a, <1>b, FlattenFacts
    <3>2. f[n] \in Seq(S)
      BY <1>4, <1>b
    <3> QED  BY <3>1, <3>2
  <2>2. Joins(g, longer, n)
    <3>1. \A i \in 1..m : g[i] = IF i = 1 THEN longer[i] ELSE g[i - 1] \o longer[i]
      BY <1>1 DEF Joins
    <3>2. \A i \in 1..n : i \in 1..m
      BY <1>b
    <3>3. \A i \in 1..n : g[i] = IF i = 1 THEN longer[i] ELSE g[i - 1] \o longer[i]
      BY <3>1, <3>2
    <3> QED  BY <3>3 DEF Joins
  <2>3. \A i \in 1..n : f[i] = g[i]
    <3>1. \A i \in 1..n : row[i] = longer[i]
      BY <1>b
    <3>2. Joins(f, longer, n)
      <4>1. \A i \in 1..n : f[i] = IF i = 1 THEN row[i] ELSE f[i - 1] \o row[i]
        BY <2>1 DEF Joins
      <4>2. \A i \in 1..n : f[i] = IF i = 1 THEN longer[i] ELSE f[i - 1] \o longer[i]
        BY <3>1, <4>1
      <4> QED  BY <4>2 DEF Joins
    <3> QED  BY <2>2, <3>2, JoinsUnique, <1>b
  <2>4. f[n] = g[n] /\ m - 1 = n /\ m # 1
    BY <1>4, <1>b, <2>3
  <2> QED  BY <1>1, <1>2, <1>c, <2>1, <2>4
<1> QED  BY <1>3, <1>4
-----------------------------------------------------------------------------
(***************************************************************************)
(* The events of the units.                                                *)
(***************************************************************************)

\* The events of one unit.
UnitCells(u) == [j \in DOMAIN Units[u] |-> <<u, j>>]

\* They are as many as its kinds, and all different.
LEMMA UnitCellsFacts ==
    ASSUME NEW u \in DOMAIN Units
    PROVE  /\ UnitCells(u) \in Seq(AllCells)
           /\ Len(UnitCells(u)) = Len(Units[u])
           /\ \A j \in 1..Len(UnitCells(u)) : UnitCells(u)[j] = <<u, j>>
<1>1. Units[u] \in Seq(EventKinds)
  BY UnitsAssumption
<1>2. DOMAIN Units[u] = 1..Len(Units[u]) /\ Len(Units[u]) \in Nat
  BY <1>1
<1>3. \A j \in 1..Len(Units[u]) : <<u, j>> \in AllCells
  BY <1>2 DEF AllCells
<1>4. UnitCells(u) \in [1..Len(Units[u]) -> AllCells]
  BY <1>2, <1>3 DEF UnitCells
<1>5. UnitCells(u) \in Seq(AllCells) /\ Len(UnitCells(u)) = Len(Units[u])
  BY <1>2, <1>4
<1> QED  BY <1>2, <1>5 DEF UnitCells

\* The row that Cells joins.
LEMMA CellsRow ==
    ASSUME NEW units \in Seq(DOMAIN Units)
    PROVE  /\ [i \in 1..Len(units) |-> UnitCells(units[i])] \in [1..Len(units) -> Seq(AllCells)]
           /\ Cells(units) = FlattenSeq([i \in 1..Len(units) |-> UnitCells(units[i])])
<1>1. \A i \in 1..Len(units) : UnitCells(units[i]) \in Seq(AllCells)
  BY UnitCellsFacts
<1>2. DOMAIN units = 1..Len(units)
  OBVIOUS
<1> QED  BY <1>1, <1>2 DEF Cells, UnitCells

\* No units, no events.
LEMMA CellsEmpty == Cells(<<>>) = <<>>
<1>1. <<>> \in Seq(DOMAIN Units) /\ Len(<<>>) = 0
  OBVIOUS
<1> DEFINE row == [i \in 1..Len(<<>>) |-> UnitCells(<<>>[i])]
<1>2. row \in [1..0 -> Seq(AllCells)] /\ Cells(<<>>) = FlattenSeq(row)
  BY <1>1, CellsRow
<1> HIDE DEF row
<1> QED  BY <1>2, FlattenFacts

\* One more unit: its events follow those of the others.
LEMMA CellsAppend ==
    ASSUME NEW units \in Seq(DOMAIN Units), NEW u \in DOMAIN Units
    PROVE  /\ Cells(units) \in Seq(AllCells)
           /\ Cells(Append(units, u)) = Cells(units) \o UnitCells(u)
<1> DEFINE n == Len(units)
           row == [i \in 1..n |-> UnitCells(units[i])]
           more == Append(units, u)
           m == Len(more)
           longer == [i \in 1..m |-> UnitCells(more[i])]
<1>1. n \in Nat /\ m = n + 1 /\ more \in Seq(DOMAIN Units)
  OBVIOUS
<1>2. more[m] = u /\ \A i \in 1..n : more[i] = units[i]
  OBVIOUS
<1>3. row \in [1..n -> Seq(AllCells)] /\ Cells(units) = FlattenSeq(row)
  BY CellsRow
<1>4. longer \in [1..m -> Seq(AllCells)] /\ Cells(more) = FlattenSeq(longer)
  BY <1>1, CellsRow
<1>5. UnitCells(u) \in Seq(AllCells)
  BY UnitCellsFacts
<1>6. longer[m] = UnitCells(u)
  <2>1. m \in 1..m
    BY <1>1
  <2> QED  BY <1>2, <2>1
<1>7. \A i \in 1..n : longer[i] = row[i]
  <2>1. \A i \in 1..n : i \in 1..m
    BY <1>1
  <2> QED  BY <1>2, <2>1
<1> HIDE DEF n, m, row, longer, more
<1>8. FlattenSeq(row) \in Seq(AllCells) /\ FlattenSeq(longer) = FlattenSeq(row) \o UnitCells(u)
  <2>1. Row(row, n, AllCells) /\ Row(longer, m, AllCells)
    BY <1>3, <1>4 DEF Row
  <2>2. Extends(longer, row, m, n)
    BY <1>1, <1>7 DEF Extends
  <2>3. n \in Nat
    BY <1>1
  <2>4. FlattenSeq(row) \in Seq(AllCells) /\ FlattenSeq(longer) = FlattenSeq(row) \o longer[m]
    BY ONLY <2>1, <2>2, <2>3, FlattenAppend
  <2> QED  BY <1>6, <2>4
<1> QED  BY <1>3, <1>4, <1>8 DEF more
-----------------------------------------------------------------------------
(***************************************************************************)
(* The text of requests.                                                   *)
(***************************************************************************)

\* A newline is no request.
LEMMA NewlineFacts ==
    /\ Newline \in Chars /\ Requests \subseteq Chars
    /\ \A r \in Requests : r # Newline
<1>1. \A r \in Requests : r.op # "newline"
  BY DEF Requests
<1>2. Newline.op = "newline"
  BY DEF Newline
<1> QED  BY <1>1, <1>2 DEF Chars

\* A request is two characters of the text, itself and a newline.
LEMMA TextFacts ==
    ASSUME NEW s \in Seq(Requests)
    PROVE  /\ Text(s) \in Seq(Chars) /\ Len(Text(s)) = 2 * Len(s)
           /\ \A k \in 1..Len(s) : Text(s)[2 * k - 1] = s[k] /\ Text(s)[2 * k] = Newline
<1> DEFINE n == Len(s)
           c(i) == IF i % 2 = 1 THEN s[(i + 1) \div 2] ELSE Newline
<1>1. n \in Nat /\ \A k \in 1..n : s[k] \in Requests
  OBVIOUS
<1>2. Text(s) = [i \in 1..(2 * n) |-> c(i)]
  BY DEF Text
<1> HIDE DEF n
<1>3. ASSUME NEW i \in 1..(2 * n) PROVE c(i) \in Chars
  <2>1. CASE i % 2 = 1
    <3>1. (i + 1) \div 2 \in 1..n
      BY <1>1, <2>1
    <3>2. s[(i + 1) \div 2] \in Requests
      BY <1>1, <3>1
    <3> QED  BY <2>1, <3>2, NewlineFacts
  <2>2. CASE i % 2 # 1
    BY <2>2, NewlineFacts
  <2> QED  BY <2>1, <2>2
<1>4. Text(s) \in [1..(2 * n) -> Chars]
  BY <1>2, <1>3
<1>5. Text(s) \in Seq(Chars) /\ Len(Text(s)) = 2 * n
  BY <1>1, <1>4
<1>6. ASSUME NEW k \in 1..n
      PROVE  Text(s)[2 * k - 1] = s[k] /\ Text(s)[2 * k] = Newline
  <2>1. 2 * k - 1 \in 1..(2 * n) /\ 2 * k \in 1..(2 * n)
    BY <1>1
  <2>2. (2 * k - 1) % 2 = 1 /\ (2 * k) % 2 # 1 /\ ((2 * k - 1) + 1) \div 2 = k
    BY <1>1
  <2>3. c(2 * k - 1) = s[k] /\ c(2 * k) = Newline
    BY <2>2
  <2> HIDE DEF c
  <2> QED  BY <1>2, <2>1, <2>3
<1> QED  BY <1>5, <1>6 DEF n

\* One more request adds its two characters.
LEMMA TextAppend ==
    ASSUME NEW s \in Seq(Requests), NEW r \in Requests
    PROVE  Text(Append(s, r)) = Text(s) \o Characters(r)
<1> DEFINE n == Len(s)
           t == Append(s, r)
           joined == Text(s) \o Characters(r)
<1>1. n \in Nat /\ t \in Seq(Requests) /\ Len(t) = n + 1
  OBVIOUS
<1>2. t[n + 1] = r /\ \A k \in 1..n : t[k] = s[k]
  OBVIOUS
<1>3. /\ Text(s) \in Seq(Chars) /\ Len(Text(s)) = 2 * n
      /\ \A k \in 1..n : Text(s)[2 * k - 1] = s[k] /\ Text(s)[2 * k] = Newline
  BY TextFacts
<1>4. /\ Text(t) \in Seq(Chars) /\ Len(Text(t)) = 2 * (n + 1)
      /\ \A k \in 1..(n + 1) : Text(t)[2 * k - 1] = t[k] /\ Text(t)[2 * k] = Newline
  BY <1>1, TextFacts
<1>5. /\ Characters(r) \in Seq(Chars) /\ Len(Characters(r)) = 2
      /\ Characters(r)[1] = r /\ Characters(r)[2] = Newline
  BY NewlineFacts DEF Characters
<1>6. /\ joined \in Seq(Chars) /\ Len(joined) = 2 * (n + 1)
      /\ \A i \in 1..(2 * n) : joined[i] = Text(s)[i]
      /\ joined[2 * n + 1] = r /\ joined[2 * n + 2] = Newline
  <2>1. PICK a, b : a = Text(s) /\ b = Characters(r)
    OBVIOUS
  <2>2. a \in Seq(Chars) /\ b \in Seq(Chars) /\ Len(a) = 2 * n /\ Len(b) = 2
    BY <1>3, <1>5, <2>1
  <2> HIDE DEF n
  <2>0. /\ a \o b \in Seq(Chars) /\ Len(a \o b) = Len(a) + Len(b)
        /\ \A i \in 1..(Len(a) + Len(b)) :
               (a \o b)[i] = IF i <= Len(a) THEN a[i] ELSE b[i - Len(a)]
    BY <2>2, ConcatProperties
  <2>3. a \o b \in Seq(Chars) /\ Len(a \o b) = 2 * (n + 1)
    BY <1>1, <2>0, <2>2
  <2>4. \A i \in 1..(2 * n) : (a \o b)[i] = a[i]
    BY <1>1, <2>0, <2>2
  <2>5. (a \o b)[2 * n + 1] = b[1] /\ (a \o b)[2 * n + 2] = b[2]
    <3>1. 2 * n + 1 \in 1..(2 * n + 2) /\ 2 * n + 2 \in 1..(2 * n + 2)
      BY <1>1
    <3>2. (2 * n + 1) - 2 * n = 1 /\ (2 * n + 2) - 2 * n = 2
      BY <1>1
    <3>3. ~(2 * n + 1 <= 2 * n) /\ ~(2 * n + 2 <= 2 * n)
      BY <1>1
    <3> QED  BY <2>0, <2>2, <3>1, <3>2, <3>3
  <2> QED  BY <1>5, <2>1, <2>3, <2>4, <2>5
<1>7. ASSUME NEW i \in 1..(2 * (n + 1)) PROVE Text(t)[i] = joined[i]
  <2>1. PICK k \in 1..(n + 1) : i = 2 * k - 1 \/ i = 2 * k
    <3>1. CASE i % 2 = 1
      <4>1. (i + 1) \div 2 \in 1..(n + 1) /\ i = 2 * ((i + 1) \div 2) - 1
        BY <1>1, <3>1
      <4> QED  BY <4>1
    <3>2. CASE i % 2 # 1
      <4>1. i \div 2 \in 1..(n + 1) /\ i = 2 * (i \div 2)
        BY <1>1, <3>2
      <4> QED  BY <4>1
    <3> QED  BY <3>1, <3>2
  <2> HIDE DEF joined, t
  <2>2. Text(t)[2 * k - 1] = t[k] /\ Text(t)[2 * k] = Newline
    BY <1>4
  <2>3. CASE k = n + 1
    <3>1. 2 * k - 1 = 2 * n + 1 /\ 2 * k = 2 * n + 2
      BY <1>1, <2>3
    <3> QED  BY <1>2, <1>6, <2>1, <2>2, <2>3, <3>1
  <2>4. CASE k # n + 1
    <3>1. k \in 1..n /\ 2 * k - 1 \in 1..(2 * n) /\ 2 * k \in 1..(2 * n)
      BY <1>1, <2>4
    <3>2. Text(s)[2 * k - 1] = s[k] /\ Text(s)[2 * k] = Newline
      BY <1>3, <3>1
    <3>3. joined[2 * k - 1] = s[k] /\ joined[2 * k] = Newline
      BY <1>6, <3>1, <3>2
    <3>4. t[k] = s[k]
      BY <1>2, <3>1
    <3> QED  BY <2>1, <2>2, <3>3, <3>4
  <2> QED  BY <2>3, <2>4
<1> HIDE DEF n, t, joined
<1> QED  BY <1>4, <1>6, <1>7, SeqEqual DEF t, joined

-----------------------------------------------------------------------------
(***************************************************************************)
(* The stream.                                                             *)
(***************************************************************************)

\* A sequence is cut into two.
LEMMA Cut ==
    ASSUME NEW S, NEW s \in Seq(S), NEW k \in 0..Len(s)
    PROVE  /\ SubSeq(s, 1, k) \in Seq(S) /\ SubSeq(s, k + 1, Len(s)) \in Seq(S)
           /\ Len(SubSeq(s, 1, k)) = k /\ Len(SubSeq(s, k + 1, Len(s))) = Len(s) - k
           /\ \A i \in 1..k : SubSeq(s, 1, k)[i] = s[i]
           /\ SubSeq(s, 1, k) \o SubSeq(s, k + 1, Len(s)) = s
<1> DEFINE a == SubSeq(s, 1, k)
           b == SubSeq(s, k + 1, Len(s))
<1>1. k \in Nat /\ Len(s) \in Nat /\ k <= Len(s)
  OBVIOUS
<1>2. a \in Seq(S) /\ Len(a) = k /\ \A i \in 1..k : a[i] = s[i]
  BY <1>1
<1>3. b \in Seq(S) /\ Len(b) = Len(s) - k /\ \A i \in 1..(Len(s) - k) : b[i] = s[k + i]
  BY <1>1
<1>4. PICK p, q : p = a /\ q = b
  OBVIOUS
<1>5. /\ p \in Seq(S) /\ Len(p) = k /\ \A i \in 1..k : p[i] = s[i]
      /\ q \in Seq(S) /\ Len(q) = Len(s) - k /\ \A i \in 1..(Len(s) - k) : q[i] = s[k + i]
  BY <1>2, <1>3, <1>4
<1>6. p \o q \in Seq(S) /\ Len(p \o q) = Len(s)
  BY <1>1, <1>5
<1>7. ASSUME NEW i \in 1..Len(s) PROVE (p \o q)[i] = s[i]
  <2>1. CASE i <= k
    BY <1>1, <1>5, <2>1
  <2>2. CASE ~(i <= k)
    <3>1. i - k \in 1..(Len(s) - k) /\ k + (i - k) = i
      BY <1>1, <2>2
    <3>2. (p \o q)[i] = q[i - k]
      BY <1>1, <1>5, <2>2
    <3> QED  BY <1>5, <3>1, <3>2
  <2> QED  BY <2>1, <2>2
<1>8. p \o q = s
  BY <1>6, <1>7, SeqEqual
<1> QED  BY <1>2, <1>3, <1>4, <1>8

\* The prefix, element by element.
LEMMA PrefixFacts ==
    ASSUME NEW S, NEW s \in Seq(S), NEW t \in Seq(S)
    PROVE  IsPrefix(s, t) <=> Len(s) <= Len(t) /\ \A i \in 1..Len(s) : s[i] = t[i]
<1>1. SubSeq(s, 1, Len(s)) = s
  OBVIOUS
<1>2. CASE Len(s) <= Len(t)
  <2>1. Len(s) \in 0..Len(t)
    BY <1>2
  <2> DEFINE b == SubSeq(t, 1, Len(s))
  <2>2. b \in Seq(S) /\ Len(b) = Len(s) /\ \A i \in 1..Len(s) : b[i] = t[i]
    BY <2>1, Cut
  <2> HIDE DEF b
  <2>3. s = b <=> \A i \in 1..Len(s) : s[i] = t[i]
    BY <2>2, SeqEqual
  <2> QED  BY <1>1, <1>2, <2>3 DEF IsPrefix, b
<1>3. CASE ~(Len(s) <= Len(t))
  BY <1>3 DEF IsPrefix
<1> QED  BY <1>2, <1>3
\* A piece of a line ends at the first newline, if there is one.
LEMMA PieceFacts ==
    ASSUME NEW chars \in Seq(Chars), chars # <<>>
    PROVE  /\ UpToNewline(chars) \in 1..Len(chars)
           /\ \A j \in 1..(UpToNewline(chars) - 1) : chars[j] # Newline
<1>1. DOMAIN chars = 1..Len(chars) /\ Len(chars) \in Nat /\ Len(chars) > 0
  OBVIOUS
<1> DEFINE B == {i \in 1..Len(chars) : chars[i] = Newline}
           First(i) == chars[i] = Newline /\ \A j \in 1..(i - 1) : chars[j] # Newline
<1>2. CASE B = {}
  <2>1. \A j \in 1..Len(chars) : chars[j] # Newline
    BY <1>2
  <2>2. UpToNewline(chars) = Len(chars)
    BY <1>1, <2>1 DEF UpToNewline
  <2>3. \A j \in 1..(Len(chars) - 1) : j \in 1..Len(chars)
    BY <1>1
  <2> QED  BY <1>1, <2>1, <2>2, <2>3
<1>3. CASE B # {}
  <2>1. PICK i \in B : \A m \in B : i <= m
    <3>1. B \in SUBSET Nat
      OBVIOUS
    <3> HIDE DEF B
    <3> QED  BY <1>3, <3>1, LeastOf
  <2>2. ASSUME NEW j \in 1..(i - 1) PROVE chars[j] # Newline
    <3>1. j \in 1..Len(chars) /\ ~(i <= j)
      BY <1>1, <2>1
    <3> QED  BY <2>1, <3>1
  <2>3. \E k \in 1..Len(chars) : First(k)
    BY <2>1, <2>2
  <2>4. UpToNewline(chars) = CHOOSE k \in 1..Len(chars) : First(k)
    <3>1. \E k \in DOMAIN chars : chars[k] = Newline
      BY <1>1, <2>1
    <3> QED  BY <1>1, <3>1 DEF UpToNewline
  <2> HIDE DEF First
  <2>5. UpToNewline(chars) \in 1..Len(chars) /\ First(UpToNewline(chars))
    BY <2>3, <2>4
  <2> QED  BY <2>5 DEF First
<1> QED  BY <1>2, <1>3

\* A line that is not complete holds no newline at all.
LEMMA OpenLine ==
    ASSUME NetInv, ~Complete
    PROVE  \A i \in 1..Len(line) : line[i] # Newline
<1>1. line \in Seq(Chars) /\ \A i \in 1..(Len(line) - 1) : line[i] # Newline
  BY DEF NetInv
<1>2. Len(line) \in Nat /\ (line = <<>> <=> Len(line) = 0)
  BY <1>1
<1>3. line = <<>> \/ line[Len(line)] # Newline
  BY DEF Complete, Last
<1>4. \A i \in 1..Len(line) : i = Len(line) \/ i \in 1..(Len(line) - 1)
  BY <1>2
<1> QED  BY <1>1, <1>2, <1>3, <1>4

\* Which of two joins of characters is made first does not matter.
LEMMA CharsConcatAssociative ==
    ASSUME NEW r \in Seq(Chars), NEW s \in Seq(Chars), NEW t \in Seq(Chars)
    PROVE  (r \o s) \o t = r \o (s \o t)
BY ConcatAssociative

\* socket_read moves characters from the buffer to the line.
LEMMA CopyLineNet == ASSUME NetInv, CopyLine PROVE NetInv'
<1> DEFINE k == UpToNewline(input)
<1>1. PICK a, b, c, l, i : /\ a = SubSeq(input, 1, k) /\ b = SubSeq(input, k + 1, Len(input))
                           /\ c = Text(done) /\ l = line /\ i = input
  OBVIOUS
<1>2. /\ line' = l \o a /\ input' = b /\ i # <<>> /\ ~Complete
      /\ UNCHANGED <<stream, requested, done>>
  BY <1>1 DEF CopyLine
<1>3. /\ l \in Seq(Chars) /\ i \in Seq(Chars) /\ stream \in Seq(Chars)
      /\ requested \in Seq(Requests) /\ done \in Seq(Requests)
      /\ IsPrefix(done, requested) /\ c \o l \o i \o stream = Text(requested)
  BY <1>1 DEF NetInv, RequestsInOrder
<1>4. k \in 1..Len(i) /\ \A j \in 1..(k - 1) : i[j] # Newline
  BY <1>1, <1>2, <1>3, PieceFacts
<1>5. /\ a \in Seq(Chars) /\ b \in Seq(Chars) /\ Len(a) = k /\ a \o b = i
      /\ \A j \in 1..k : a[j] = i[j]
  <2>1. k \in 0..Len(i)
    BY <1>3, <1>4
  <2> HIDE DEF k
  <2> QED  BY <1>1, <1>3, <2>1, Cut
<1>6. c \in Seq(Chars)
  BY <1>1, <1>3, TextFacts
<1>7. c \o (l \o a) \o b = c \o l \o i
  <2>1. c \in Seq(Chars) /\ l \in Seq(Chars) /\ a \in Seq(Chars) /\ b \in Seq(Chars)
    BY <1>3, <1>5, <1>6
  <2>2. (c \o l) \o a = c \o (l \o a)
    BY ONLY <2>1, CharsConcatAssociative, ZenonT(60)
  <2>3. PICK d : d = c \o l
    OBVIOUS
  <2>4. d \in Seq(Chars)
    BY <2>1, <2>3
  <2>5. (d \o a) \o b = d \o (a \o b)
    BY ONLY <2>1, <2>4, CharsConcatAssociative, ZenonT(60)
  <2> QED  BY ONLY <1>5, <2>2, <2>3, <2>5
<1>8. Text(done') \o line' \o input' \o stream' = Text(requested')
  BY <1>1, <1>2, <1>3, <1>7
<1>9. \A j \in 1..Len(l) : l[j] # Newline
  BY <1>1, <1>2, OpenLine
<1>10. line' \in Seq(Chars) /\ Len(line') = Len(l) + k
  <2>1. k \in Nat /\ Len(a) = k
    BY <1>3, <1>4, <1>5
  <2> HIDE DEF k
  <2>2. l \o a \in Seq(Chars) /\ Len(l \o a) = Len(l) + Len(a)
    BY <1>3, <1>5, ConcatProperties
  <2> QED  BY <1>2, <2>1, <2>2
<1>11. ASSUME NEW j \in 1..(Len(line') - 1) PROVE line'[j] # Newline
  <2>0. Len(l) \in Nat /\ k \in Nat
    BY <1>3, <1>4
  <2> HIDE DEF k
  <2>1. CASE j <= Len(l)
    <3>1. line'[j] = l[j]
      BY <1>2, <1>3, <1>5, <1>10, <2>0, <2>1
    <3>2. j \in 1..Len(l)
      BY <1>10, <2>0, <2>1
    <3> QED  BY <1>9, <3>1, <3>2
  <2>2. CASE ~(j <= Len(l))
    <3>1. j - Len(l) \in 1..(k - 1) /\ j - Len(l) \in 1..k
      BY <1>10, <2>0, <2>2
    <3>2. line'[j] = a[j - Len(l)]
      BY <1>2, <1>3, <1>5, <1>10, <2>0, <2>2
    <3> QED  BY <1>4, <1>5, <3>1, <3>2
  <2> QED  BY <2>1, <2>2
<1>12. IsPrefix(done', requested') /\ stream' \in Seq(Chars) /\ input' \in Seq(Chars)
       /\ requested' \in Seq(Requests) /\ done' \in Seq(Requests)
  BY <1>2, <1>3, <1>5
<1> QED  BY <1>8, <1>10, <1>11, <1>12 DEF NetInv, RequestsInOrder

\* recv moves characters from the stream to the buffer.
LEMMA ReceiveNet == ASSUME NetInv, Receive PROVE NetInv'
<1>1. PICK n \in DOMAIN stream :
          input' = SubSeq(stream, 1, n) /\ stream' = SubSeq(stream, n + 1, Len(stream))
  BY DEF Receive
<1>2. input = <<>> /\ UNCHANGED <<line, requested, done>>
  BY DEF Receive
<1>3. /\ line \in Seq(Chars) /\ stream \in Seq(Chars) /\ input \in Seq(Chars)
      /\ requested \in Seq(Requests) /\ done \in Seq(Requests)
      /\ \A i \in 1..(Len(line) - 1) : line[i] # Newline
      /\ IsPrefix(done, requested) /\ Text(done) \o line \o input \o stream = Text(requested)
  BY DEF NetInv, RequestsInOrder
<1>4. n \in 0..Len(stream)
  BY <1>1, <1>3
<1>5. input' \in Seq(Chars) /\ stream' \in Seq(Chars) /\ input' \o stream' = stream
  BY <1>1, <1>3, <1>4, Cut
<1>6. PICK a, p, q : a = Text(done) \o line /\ p = input' /\ q = stream'
  OBVIOUS
<1>7. a \in Seq(Chars)
  <2>1. Text(done) \in Seq(Chars)
    BY <1>3, TextFacts
  <2> QED  BY <1>3, <1>6, <2>1
<1>8. (a \o p) \o q = (a \o <<>>) \o stream
  <2>1. p \in Seq(Chars) /\ q \in Seq(Chars)
    BY <1>5, <1>6
  <2>2. (a \o p) \o q = a \o (p \o q)
    BY ONLY <1>7, <2>1, CharsConcatAssociative, ZenonT(60)
  <2>3. a \o <<>> = a /\ p \o q = stream
    BY <1>5, <1>6, <1>7
  <2> QED  BY ONLY <2>2, <2>3
<1>9. Text(done') \o line' \o input' \o stream' = Text(requested')
  BY <1>2, <1>3, <1>6, <1>8
<1>10. /\ line' = line /\ requested' = requested /\ done' = done
  BY <1>2
<1> QED  BY <1>3, <1>5, <1>9, <1>10 DEF NetInv, RequestsInOrder

\* A line that is complete is the next request of the client.
LEMMA LineIsRequest ==
    ASSUME NetInv, Complete
    PROVE  /\ Len(done) + 1 \in 1..Len(requested)
           /\ Request = requested[Len(done) + 1] /\ Request \in Requests
           /\ line = Characters(Request)
<1> DEFINE n == Len(done)
           N == Len(requested)
           L == Len(line)
<1>1. PICK c, l, i, t, q : /\ c = Text(done) /\ l = line /\ i = input \o stream
                           /\ t = Text(requested) /\ q = requested
  OBVIOUS
<1>2. /\ line \in Seq(Chars) /\ stream \in Seq(Chars) /\ input \in Seq(Chars)
      /\ requested \in Seq(Requests) /\ done \in Seq(Requests)
      /\ \A j \in 1..(L - 1) : line[j] # Newline
      /\ Text(done) \o line \o input \o stream = Text(requested)
  BY DEF NetInv, RequestsInOrder
<1>3. c \in Seq(Chars) /\ Len(c) = 2 * n /\ n \in Nat
  <2>1. Text(done) \in Seq(Chars) /\ Len(Text(done)) = 2 * n
    BY <1>2, TextFacts
  <2> QED  BY <1>1, <1>2, <2>1
<1>4. /\ t \in Seq(Chars) /\ Len(t) = 2 * N /\ N \in Nat
      /\ \A k \in 1..N : t[2 * k - 1] = q[k] /\ t[2 * k] = Newline
  <2>1. q \in Seq(Requests) /\ Len(q) = N /\ N \in Nat
    BY <1>1, <1>2
  <2>2. /\ Text(q) \in Seq(Chars) /\ Len(Text(q)) = 2 * Len(q)
        /\ \A k \in 1..Len(q) : Text(q)[2 * k - 1] = q[k] /\ Text(q)[2 * k] = Newline
    BY <2>1, TextFacts
  <2>3. t = Text(q)
    BY <1>1
  <2> QED  BY ONLY <2>1, <2>2, <2>3
<1>5. l \in Seq(Chars) /\ i \in Seq(Chars) /\ Len(l) = L /\ L \in Nat /\ L > 0 /\ l[L] = Newline
  BY <1>1, <1>2 DEF Complete, Last
<1>6. (c \o l) \o i = t
  <2>1. PICK x, y, z : x = c \o l /\ y = input /\ z = stream
    OBVIOUS
  <2>2. x \in Seq(Chars) /\ y \in Seq(Chars) /\ z \in Seq(Chars)
    BY <1>2, <1>3, <1>5, <2>1
  <2>3. (x \o y) \o z = x \o (y \o z)
    BY ONLY <2>2, CharsConcatAssociative, ZenonT(60)
  <2> QED  BY <1>1, <1>2, <2>1, <2>3
<1> HIDE DEF n, N, L
<1>7. Len(c \o l) = 2 * n + L /\ Len(t) = 2 * n + L + Len(i) /\ Len(i) \in Nat
  <2>1. PICK d : d = c \o l
    OBVIOUS
  <2>2. d \in Seq(Chars) /\ Len(d) = Len(c) + Len(l)
    BY <1>3, <1>5, <2>1, ConcatProperties
  <2>3. Len(d \o i) = Len(d) + Len(i)
    BY <1>5, <2>2, ConcatProperties
  <2> QED  BY <1>3, <1>5, <1>6, <2>1, <2>2, <2>3
<1>8. \A j \in 1..L : t[2 * n + j] = l[j]
  <2> TAKE j \in 1..L
  <2>1. 2 * n + j \in 1..(2 * n + L) /\ ~(2 * n + j <= 2 * n) /\ (2 * n + j) - 2 * n = j
    BY <1>3, <1>5
  <2>2. \A m \in 1..(2 * n + L) : (c \o l)[m] = IF m <= 2 * n THEN c[m] ELSE l[m - 2 * n]
    BY <1>3, <1>5, ConcatProperties
  <2>3. (c \o l)[2 * n + j] = l[j]
    BY <2>1, <2>2
  <2>4. c \o l \in Seq(Chars)
    BY <1>3, <1>5
  <2>5. PICK d : d = c \o l
    OBVIOUS
  <2>6. \A m \in 1..Len(d) : (d \o i)[m] = d[m]
    BY <1>5, <2>4, <2>5
  <2> QED  BY <1>6, <1>7, <2>1, <2>3, <2>5, <2>6
<1>9. n + 1 \in 1..N
  BY <1>3, <1>4, <1>5, <1>7
<1>10. /\ 2 * (n + 1) - 1 = 2 * n + 1 /\ 2 * (n + 1) = 2 * n + 2
  BY <1>3
<1>11. t[2 * n + 1] = q[n + 1] /\ t[2 * n + 2] = Newline
  <2>1. t[2 * (n + 1) - 1] = q[n + 1] /\ t[2 * (n + 1)] = Newline
    BY <1>4, <1>9
  <2> QED  BY <1>10, <2>1
<1>12. q[n + 1] \in Requests /\ q[n + 1] # Newline
  <2>1. q \in Seq(Requests) /\ Len(q) = N
    BY <1>1, <1>2 DEF N
  <2> QED  BY <1>9, <2>1, NewlineFacts
<1>13. l[1] = q[n + 1]
  <2>1. 1 \in 1..L
    BY <1>5
  <2> QED  BY <1>8, <1>11, <2>1
<1>14. L # 1
  BY <1>5, <1>12, <1>13
<1>15. l[2] = Newline
  <2>1. 2 \in 1..L
    BY <1>5, <1>14
  <2> QED  BY <1>8, <1>11, <2>1
<1>16. L = 2
  <2>1. ~(2 \in 1..(L - 1))
    BY <1>1, <1>2, <1>15
  <2> QED  BY <1>5, <1>14, <2>1
<1>17. l = <<q[n + 1], Newline>>
  BY <1>5, <1>13, <1>15, <1>16
<1>18. Request = q[n + 1]
  BY <1>1, <1>13 DEF Request
<1> QED  BY <1>1, <1>9, <1>12, <1>17, <1>18 DEF Characters, n, N

\* A request is carried out: its line goes over to those that are done.
LEMMA HandledNet == ASSUME NetInv, Handled PROVE NetInv'
<1>1. Complete /\ line' = <<>> /\ done' = Append(done, Request) /\ UNCHANGED <<input, stream, requested>>
  BY DEF Handled
<1>2. /\ line \in Seq(Chars) /\ stream \in Seq(Chars) /\ input \in Seq(Chars)
      /\ requested \in Seq(Requests) /\ done \in Seq(Requests)
      /\ IsPrefix(done, requested) /\ Text(done) \o line \o input \o stream = Text(requested)
  BY DEF NetInv, RequestsInOrder
<1>3. /\ Len(done) + 1 \in 1..Len(requested)
      /\ Request = requested[Len(done) + 1] /\ Request \in Requests
      /\ line = Characters(Request)
  BY <1>1, LineIsRequest
<1>4. Text(done') = Text(done) \o line
  BY <1>1, <1>2, <1>3, TextAppend
<1>5. done' \in Seq(Requests) /\ Text(done') \in Seq(Chars)
  <2>1. done' \in Seq(Requests)
    BY <1>1, <1>2, <1>3
  <2> QED  BY <2>1, TextFacts
<1>6. Text(done') \o line' = Text(done) \o line
  <2>1. Text(done') \o <<>> = Text(done')
    BY <1>5
  <2> QED  BY <1>1, <1>4, <2>1
<1>7. Text(done') \o line' \o input' \o stream' = Text(requested')
  BY <1>1, <1>2, <1>6
<1>8. IsPrefix(done', requested')
  <2>1. Len(done) <= Len(requested) /\ \A i \in 1..Len(done) : done[i] = requested[i]
    BY <1>2, PrefixFacts
  <2>2. PICK d : d = done'
    OBVIOUS
  <2>3. Len(d) = Len(done) + 1 /\ d \in Seq(Requests)
    BY <1>1, <1>2, <1>5, <2>2
  <2>4. \A i \in 1..Len(d) : d[i] = requested[i]
    <3> TAKE i \in 1..Len(d)
    <3>1. CASE i = Len(done) + 1
      BY <1>1, <1>2, <1>3, <2>2, <3>1
    <3>2. CASE i # Len(done) + 1
      <4>1. i \in 1..Len(done)
        BY <1>2, <2>3, <3>2
      <4>2. d[i] = done[i]
        BY <1>1, <1>2, <2>2, <4>1
      <4> QED  BY <2>1, <4>1, <4>2
    <3> QED  BY <3>1, <3>2
  <2>5. Len(d) <= Len(requested)
    BY <1>2, <1>3, <2>3
  <2> QED  BY <1>1, <1>2, <2>2, <2>3, <2>4, <2>5, PrefixFacts
<1>9. line' \in Seq(Chars) /\ \A i \in 1..(Len(line') - 1) : line'[i] # Newline
  BY <1>1
<1>10. input' \in Seq(Chars) /\ stream' \in Seq(Chars) /\ requested' \in Seq(Requests)
  BY <1>1, <1>2
<1> QED  BY <1>5, <1>7, <1>8, <1>9, <1>10 DEF NetInv, RequestsInOrder

\* The client sends a request.
LEMMA ClientSendsNet == ASSUME NetInv, ClientSends PROVE NetInv'
<1>1. PICK r \in Requests : requested' = Append(requested, r) /\ stream' = stream \o Characters(r)
  BY DEF ClientSends
<1>2. UNCHANGED <<line, input, done>>
  BY DEF ClientSends
<1>3. /\ line \in Seq(Chars) /\ stream \in Seq(Chars) /\ input \in Seq(Chars)
      /\ requested \in Seq(Requests) /\ done \in Seq(Requests)
      /\ \A i \in 1..(Len(line) - 1) : line[i] # Newline
      /\ IsPrefix(done, requested) /\ Text(done) \o line \o input \o stream = Text(requested)
  BY DEF NetInv, RequestsInOrder
<1>4. Characters(r) \in Seq(Chars)
  BY NewlineFacts DEF Characters
<1>5. Text(requested') = Text(requested) \o Characters(r)
  BY <1>1, <1>3, TextAppend
<1>6. PICK x, y, z : x = Text(done) \o line \o input /\ y = stream /\ z = Characters(r)
  OBVIOUS
<1>7. x \in Seq(Chars)
  <2>1. Text(done) \in Seq(Chars)
    BY <1>3, TextFacts
  <2> QED  BY <1>3, <1>6, <2>1
<1>8. (x \o y) \o z = x \o (y \o z)
  <2>1. y \in Seq(Chars) /\ z \in Seq(Chars)
    BY <1>3, <1>4, <1>6
  <2> QED  BY ONLY <1>7, <2>1, CharsConcatAssociative, ZenonT(60)
<1>9. Text(done') \o line' \o input' \o stream' = Text(requested')
  BY <1>1, <1>2, <1>3, <1>5, <1>6, <1>8
<1>10. stream' \in Seq(Chars) /\ requested' \in Seq(Requests)
  BY <1>1, <1>3, <1>4
<1>11. IsPrefix(done', requested')
  <2>1. Len(done) <= Len(requested) /\ \A i \in 1..Len(done) : done[i] = requested[i]
    BY <1>3, PrefixFacts
  <2>2. PICK q : q = requested'
    OBVIOUS
  <2>3. Len(q) = Len(requested) + 1 /\ \A i \in 1..Len(requested) : q[i] = requested[i]
    BY <1>1, <1>3, <2>2
  <2>4. Len(done) <= Len(q) /\ \A i \in 1..Len(done) : done[i] = q[i]
    BY <1>3, <2>1, <2>3
  <2>5. q \in Seq(Requests)
    BY <1>10, <2>2
  <2> QED  BY <1>2, <1>3, <2>2, <2>4, <2>5, PrefixFacts
<1>12. line' = line /\ input' = input /\ done' = done
  BY <1>2
<1> QED  BY <1>3, <1>9, <1>10, <1>11, <1>12 DEF NetInv, RequestsInOrder
-----------------------------------------------------------------------------
(***************************************************************************)
(* The events and their numbers.                                           *)
(***************************************************************************)

\* The end of a sequence that has grown.
LEMMA EndAppend ==
    ASSUME NEW S, NEW s \in Seq(S), NEW e \in S, NEW k \in 0..Len(s)
    PROVE  SubSeq(Append(s, e), k + 1, Len(s) + 1) = Append(SubSeq(s, k + 1, Len(s)), e)
<1> DEFINE n == Len(s)
           a == SubSeq(Append(s, e), k + 1, n + 1)
           p == SubSeq(s, k + 1, n)
           b == Append(p, e)
<1>1. n \in Nat /\ k \in Nat /\ k <= n
  OBVIOUS
<1>2. PICK t : t = Append(s, e)
  OBVIOUS
<1>3. t \in Seq(S) /\ Len(t) = n + 1 /\ t[n + 1] = e /\ \A i \in 1..n : t[i] = s[i]
  BY <1>2
<1>4. a \in Seq(S) /\ Len(a) = n + 1 - k /\ \A i \in 1..(n + 1 - k) : a[i] = t[k + i]
  <2>1. Len(t) - k = n + 1 - k /\ k \in 0..Len(t)
    BY <1>1, <1>3
  <2> HIDE DEF n
  <2> QED  BY <1>1, <1>2, <1>3, <2>1
<1>5. p \in Seq(S) /\ Len(p) = n - k /\ \A i \in 1..(n - k) : p[i] = s[k + i]
  BY <1>1
<1> HIDE DEF n, p, a
<1>6. b \in Seq(S) /\ Len(b) = n - k + 1 /\ b[n - k + 1] = e /\ \A i \in 1..(n - k) : b[i] = p[i]
  BY <1>5
<1> HIDE DEF b
<1>7. ASSUME NEW i \in 1..(n + 1 - k) PROVE a[i] = b[i]
  <2>1. CASE i = n - k + 1
    <3>1. k + i = n + 1
      BY <1>1, <2>1
    <3> QED  BY <1>3, <1>4, <1>6, <2>1, <3>1
  <2>2. CASE i # n - k + 1
    <3>1. i \in 1..(n - k) /\ k + i \in 1..n
      BY <1>1, <2>2
    <3> QED  BY <1>3, <1>4, <1>5, <1>6, <3>1
  <2> QED  BY <2>1, <2>2
<1>8. n + 1 - k = n - k + 1
  BY <1>1
<1>9. a = b
  BY <1>4, <1>6, <1>7, <1>8, SeqEqual
<1> QED  BY <1>9 DEF a, b, p, n

\* A unit is registered: its events follow the others, and are new.
LEMMA RegisterInfo == ASSUME NEW u \in DOMAIN Units, InfoInv, Register(u) PROVE InfoInv'
<1>1. u \notin ToSet(infos) /\ infos' = Append(infos, u) /\ UNCHANGED <<unseen, listed, table>>
  BY DEF Register
<1>2. infos \in Seq(DOMAIN Units) /\ unseen \in 0..Len(infos)
  BY DEF InfoInv
<1>3. PICK s, x, cs, os, ns, us :
          /\ s = infos /\ x = infos' /\ cs = Cells(infos) /\ os = Old /\ ns = New
          /\ us = UnitCells(u)
  OBVIOUS
<1>4. x \in Seq(DOMAIN Units) /\ Len(x) = Len(s) + 1 /\ x = Append(s, u)
  BY <1>1, <1>2, <1>3
<1>5. us \in Seq(AllCells) /\ \A j \in 1..Len(us) : us[j] = <<u, j>>
  BY <1>3, UnitCellsFacts
<1>6. Cells(x) = cs \o us
  BY <1>1, <1>2, <1>3, CellsAppend
<1>7. Old' = os
  <2>1. SubSeq(x, 1, unseen) = SubSeq(s, 1, unseen)
    BY <1>2, <1>3, <1>4
  <2> QED  BY <1>1, <1>3, <2>1 DEF Old
<1>8. New' = ns \o us
  <2>1. SubSeq(x, unseen + 1, Len(x)) = Append(SubSeq(s, unseen + 1, Len(s)), u)
    <3>1. s \in Seq(DOMAIN Units) /\ unseen \in 0..Len(s)
      BY <1>2, <1>3
    <3> QED  BY <1>4, <3>1, EndAppend
  <2>2. SubSeq(s, unseen + 1, Len(s)) \in Seq(DOMAIN Units)
    BY <1>2, <1>3
  <2>3. Cells(Append(SubSeq(s, unseen + 1, Len(s)), u)) = Cells(SubSeq(s, unseen + 1, Len(s))) \o us
    BY <1>3, <2>2, CellsAppend
  <2> QED  BY <1>1, <1>3, <2>1, <2>3 DEF New
<1>9. /\ cs \in Seq(AllCells) /\ os \in Seq(AllCells) /\ ns \in Seq(AllCells) /\ cs = os \o ns
      /\ \A m \in 1..Len(cs) : cs[m][1] \in ToSet(s)
      /\ \A m, n \in 1..Len(cs) : cs[m] = cs[n] => m = n
      /\ table \in Seq(Nat \X AllCells) /\ listed = Len(table) /\ Len(table) = Len(os)
      /\ \A i \in 1..Len(table) : table[i] = <<i - 1, cs[i]>>
  BY <1>3 DEF InfoInv
<1> DEFINE all == cs \o us
<1>10. /\ all \in Seq(AllCells) /\ Len(all) = Len(cs) + Len(us)
       /\ \A i \in 1..(Len(cs) + Len(us)) : all[i] = IF i <= Len(cs) THEN cs[i] ELSE us[i - Len(cs)]
  BY <1>5, <1>9, ConcatProperties
<1>11. Len(cs) \in Nat /\ Len(us) \in Nat /\ Len(os) \in Nat /\ Len(os) <= Len(cs)
  <2>1. Len(cs) = Len(os) + Len(ns) /\ Len(os) \in Nat /\ Len(ns) \in Nat
    BY <1>9, ConcatProperties
  <2> QED  BY <1>5, <2>1
<1>12. os \o (ns \o us) = all
  <2>1. os \in Seq(AllCells) /\ ns \in Seq(AllCells) /\ us \in Seq(AllCells)
    BY <1>5, <1>9
  <2>2. (os \o ns) \o us = os \o (ns \o us)
    BY ONLY <2>1, ConcatAssociative, SMTT(30)
  <2>3. cs = os \o ns
    BY <1>9
  <2> QED  BY ONLY <2>2, <2>3
<1> HIDE DEF all
<1>13. \A m \in 1..Len(all) : (m \in 1..Len(cs) /\ all[m] = cs[m])
                            \/ (m - Len(cs) \in 1..Len(us) /\ all[m] = <<u, m - Len(cs)>> /\ ~(m <= Len(cs)))
  <2> TAKE m \in 1..Len(all)
  <2>1. CASE m <= Len(cs)
    BY <1>10, <1>11, <2>1
  <2>2. CASE ~(m <= Len(cs))
    <3>1. m - Len(cs) \in 1..Len(us)
      BY <1>10, <1>11, <2>2
    <3>2. all[m] = us[m - Len(cs)]
      BY <1>10, <1>11, <2>2
    <3> QED  BY <1>5, <2>2, <3>1, <3>2
  <2> QED  BY <2>1, <2>2
<1>14. ToSet(x) = ToSet(s) \cup {u} /\ u \notin ToSet(s)
  <2>1. \A i \in 1..Len(s) : x[i] = s[i]
    BY <1>2, <1>3, <1>4
  <2>2. x[Len(s) + 1] = u
    BY <1>2, <1>3, <1>4
  <2>3. DOMAIN x = 1..(Len(s) + 1) /\ DOMAIN s = 1..Len(s) /\ Len(s) \in Nat
    BY <1>2, <1>3, <1>4
  <2>4. \A i \in 1..(Len(s) + 1) : i \in 1..Len(s) \/ i = Len(s) + 1
    BY <2>3
  <2>5. \A i \in 1..Len(s) : i \in 1..(Len(s) + 1)
    BY <2>3
  <2>6. Len(s) + 1 \in 1..(Len(s) + 1)
    BY <2>3
  <2> QED  BY <1>1, <1>3, <2>1, <2>2, <2>3, <2>4, <2>5, <2>6 DEF ToSet
<1>15. \A m \in 1..Len(all) : all[m][1] \in ToSet(x)
  <2> TAKE m \in 1..Len(all)
  <2>1. CASE m \in 1..Len(cs) /\ all[m] = cs[m]
    <3>1. cs[m][1] \in ToSet(s)
      BY <1>9, <2>1
    <3> QED  BY <1>14, <2>1, <3>1
  <2>2. CASE all[m] = <<u, m - Len(cs)>>
    BY <1>14, <2>2
  <2> QED  BY <1>13, <2>1, <2>2
<1>16. ASSUME NEW m \in 1..Len(all), NEW n \in 1..Len(all), all[m] = all[n] PROVE m = n
  <2>1. /\ m \in 1..Len(cs) => all[m] = cs[m] /\ cs[m][1] \in ToSet(s)
        /\ n \in 1..Len(cs) => all[n] = cs[n] /\ cs[n][1] \in ToSet(s)
    <3>1. \A k \in 1..Len(cs) : k <= Len(cs)
      BY <1>11
    <3>2. \A k \in 1..Len(cs) : cs[k][1] \in ToSet(s)
      BY <1>9
    <3> QED  BY <1>13, <3>1, <3>2
  <2>2. /\ m \notin 1..Len(cs) => m - Len(cs) \in 1..Len(us) /\ all[m] = <<u, m - Len(cs)>>
        /\ n \notin 1..Len(cs) => n - Len(cs) \in 1..Len(us) /\ all[n] = <<u, n - Len(cs)>>
    BY <1>13
  <2>3. CASE m \in 1..Len(cs) /\ n \in 1..Len(cs)
    <3>1. cs[m] = cs[n]
      BY <1>16, <2>1, <2>3
    <3>2. \A k, l \in 1..Len(cs) : cs[k] = cs[l] => k = l
      BY <1>9
    <3> QED  BY ONLY <2>3, <3>1, <3>2
  <2>4. CASE m \notin 1..Len(cs) /\ n \notin 1..Len(cs)
    <3>1. m - Len(cs) = n - Len(cs)
      <4>1. <<u, m - Len(cs)>> = <<u, n - Len(cs)>>
        BY <1>16, <2>2, <2>4
      <4> QED  BY ONLY <4>1
    <3> QED  BY <1>10, <1>11, <3>1
  <2>5. CASE m \in 1..Len(cs) /\ n \notin 1..Len(cs)
    <3>1. all[m][1] \in ToSet(s) /\ all[n][1] = u
      BY <2>1, <2>2, <2>5
    <3> QED  BY <1>14, <1>16, <3>1
  <2>6. CASE m \notin 1..Len(cs) /\ n \in 1..Len(cs)
    <3>1. all[n][1] \in ToSet(s) /\ all[m][1] = u
      BY <2>1, <2>2, <2>6
    <3> QED  BY <1>14, <1>16, <3>1
  <2> QED  BY <2>3, <2>4, <2>5, <2>6
<1>17. \A i \in 1..Len(table) : table[i] = <<i - 1, all[i]>>
  <2> TAKE i \in 1..Len(table)
  <2>1. i \in 1..Len(cs) /\ i <= Len(cs) /\ i \in 1..(Len(cs) + Len(us))
    BY <1>9, <1>11
  <2>2. all[i] = cs[i]
    BY <1>10, <2>1
  <2> QED  BY <1>9, <2>2
<1>18. Cells(infos)' = all
  BY <1>3, <1>6 DEF all
<1>19. /\ infos' \in Seq(DOMAIN Units) /\ unseen' \in 0..Len(infos')
       /\ Old' \in Seq(AllCells) /\ New' \in Seq(AllCells) /\ all = Old' \o New'
  <2>1. ns \o us \in Seq(AllCells)
    BY <1>5, <1>9
  <2>2. unseen' \in 0..Len(infos')
    BY <1>1, <1>2, <1>3, <1>4
  <2> QED  BY <1>3, <1>4, <1>7, <1>8, <1>9, <1>12, <2>1, <2>2
<1>20. table' = table /\ listed' = listed /\ infos' = x
  BY <1>1, <1>3
<1> HIDE DEF Old, New
<1>21. \A m \in 1..Len(Cells(infos)') : Cells(infos)'[m][1] \in ToSet(infos)'
  BY <1>15, <1>18, <1>20
<1>22. \A m, n \in 1..Len(Cells(infos)') : Cells(infos)'[m] = Cells(infos)'[n] => m = n
  BY <1>16, <1>18
<1>23. /\ table' \in Seq(Nat \X AllCells) /\ listed' = Len(table') /\ Len(table') = Len(Old')
       /\ \A i \in 1..Len(table') : table'[i] = <<i - 1, Cells(infos)'[i]>>
  BY <1>7, <1>9, <1>17, <1>18, <1>20
<1>24. Cells(infos)' \in Seq(AllCells) /\ Cells(infos)' = Old' \o New'
  BY <1>10, <1>18, <1>19
<1> QED  BY <1>19, <1>21, <1>22, <1>23, <1>24 DEF InfoInv
\* The units not seen yet are listed.
LEMMA ListInfo == ASSUME InfoInv, ListEvents PROVE InfoInv'
<1>1. infos \in Seq(DOMAIN Units) /\ unseen \in 0..Len(infos)
  BY DEF InfoInv
<1>2. /\ table' = table \o [i \in DOMAIN New |-> <<listed + i - 1, New[i]>>]
      /\ listed' = listed + Len(New) /\ unseen' = Len(infos) /\ infos' = infos
  BY DEF ListEvents, New
<1>3. PICK cs, os, ns, t : cs = Cells(infos) /\ os = Old /\ ns = New /\ t = table
  OBVIOUS
<1>4. /\ cs \in Seq(AllCells) /\ os \in Seq(AllCells) /\ ns \in Seq(AllCells) /\ cs = os \o ns
      /\ \A m \in 1..Len(cs) : cs[m][1] \in ToSet(infos)
      /\ \A m, n \in 1..Len(cs) : cs[m] = cs[n] => m = n
      /\ t \in Seq(Nat \X AllCells) /\ listed = Len(t) /\ Len(t) = Len(os)
      /\ \A i \in 1..Len(t) : t[i] = <<i - 1, cs[i]>>
  BY <1>3 DEF InfoInv
<1>5. Old' = cs
  <2>1. SubSeq(infos, 1, Len(infos)) = infos
    BY <1>1
  <2> QED  BY <1>2, <1>3, <2>1 DEF Old
<1>6. New' = <<>>
  <2>1. SubSeq(infos, Len(infos) + 1, Len(infos)) = <<>>
    BY <1>1
  <2> QED  BY <1>2, <2>1, CellsEmpty DEF New
<1> DEFINE more == [i \in 1..Len(ns) |-> <<listed + i - 1, ns[i]>>]
<1>7. DOMAIN ns = 1..Len(ns) /\ Len(ns) \in Nat /\ Len(os) \in Nat /\ listed \in Nat
  BY <1>4
<1>8. more \in Seq(Nat \X AllCells) /\ Len(more) = Len(ns)
  <2>1. \A i \in 1..Len(ns) : <<listed + i - 1, ns[i]>> \in Nat \X AllCells
    BY <1>4, <1>7
  <2>2. more \in [1..Len(ns) -> Nat \X AllCells]
    BY <2>1
  <2> QED  BY <1>7, <2>2
<1>9. \A i \in 1..Len(ns) : more[i] = <<listed + i - 1, ns[i]>>
  OBVIOUS
<1>10. table' = t \o more
  BY <1>2, <1>3, <1>7
<1> HIDE DEF more
<1>11. /\ t \o more \in Seq(Nat \X AllCells) /\ Len(t \o more) = Len(t) + Len(more)
       /\ \A i \in 1..(Len(t) + Len(more)) :
              (t \o more)[i] = IF i <= Len(t) THEN t[i] ELSE more[i - Len(t)]
  <2>1. t \in Seq(Nat \X AllCells)
    BY <1>4
  <2> QED  BY <1>8, <2>1, ConcatProperties
<1>12. /\ Len(cs) = Len(os) + Len(ns)
       /\ \A i \in 1..(Len(os) + Len(ns)) : cs[i] = IF i <= Len(os) THEN os[i] ELSE ns[i - Len(os)]
  BY <1>4, ConcatProperties
<1>13. Len(t \o more) = Len(cs)
  BY <1>4, <1>8, <1>11, <1>12
<1>14. ASSUME NEW i \in 1..Len(cs) PROVE (t \o more)[i] = <<i - 1, cs[i]>>
  <2>0. i \in 1..(Len(os) + Len(ns)) /\ i \in 1..(Len(t) + Len(more))
    BY <1>4, <1>8, <1>12
  <2>1. CASE i <= Len(os)
    <3>1. i \in 1..Len(t) /\ i <= Len(t)
      BY <1>4, <1>7, <2>0, <2>1
    <3>2. (t \o more)[i] = t[i]
      BY <1>11, <2>0, <3>1
    <3> QED  BY <1>4, <3>1, <3>2
  <2>2. CASE ~(i <= Len(os))
    <3>1. /\ i - Len(os) \in 1..Len(ns) /\ ~(i <= Len(t))
          /\ listed + (i - Len(os)) - 1 = i - 1 /\ Len(t) = Len(os)
      BY <1>4, <1>7, <2>0, <2>2
    <3>2. (t \o more)[i] = more[i - Len(os)]
      BY <1>11, <2>0, <3>1
    <3>3. cs[i] = ns[i - Len(os)]
      BY <1>12, <2>0, <2>2
    <3>4. more[i - Len(os)] = <<listed + (i - Len(os)) - 1, ns[i - Len(os)]>>
      BY <1>9, <3>1
    <3> QED  BY <3>1, <3>2, <3>3, <3>4
  <2> QED  BY <2>1, <2>2
<1>15. cs = cs \o <<>>
  BY <1>4
<1>16. Cells(infos)' = cs /\ infos' = infos
  BY <1>2, <1>3
<1>17. listed' = Len(table') /\ Len(table') = Len(Old')
  <2>1. listed' = Len(t) + Len(ns)
    BY <1>2, <1>3, <1>4
  <2> QED  BY <1>5, <1>8, <1>10, <1>11, <1>13, <2>1
<1>18. \A i \in 1..Len(table') : table'[i] = <<i - 1, Cells(infos)'[i]>>
  BY <1>10, <1>13, <1>14, <1>16
<1>19. infos' \in Seq(DOMAIN Units) /\ unseen' \in 0..Len(infos')
  BY <1>1, <1>2
<1>20. /\ Cells(infos)' \in Seq(AllCells) /\ Old' \in Seq(AllCells) /\ New' \in Seq(AllCells)
       /\ Cells(infos)' = Old' \o New'
  BY <1>4, <1>5, <1>6, <1>15, <1>16
<1>21. table' \in Seq(Nat \X AllCells)
  BY <1>10, <1>11
<1>22. \A m \in 1..Len(Cells(infos)') : Cells(infos)'[m][1] \in ToSet(infos)'
  BY <1>4, <1>16
<1>23. \A m, n \in 1..Len(Cells(infos)') : Cells(infos)'[m] = Cells(infos)'[n] => m = n
  BY <1>4, <1>16
<1> HIDE DEF Old, New
<1> QED  BY <1>17, <1>18, <1>19, <1>20, <1>21, <1>22, <1>23 DEF InfoInv

-----------------------------------------------------------------------------
(***************************************************************************)
(* The breakpoints.                                                        *)
(***************************************************************************)

\* What was set remains set until it is cleared.
LEMMA SetAfter ==
    ASSUME NEW r \in Requests, NEW n, done \in Seq(Requests), done' = Append(done, r)
    PROVE  IsSet(n)' <=> Sets(r, n) \/ (IsSet(n) /\ ~Clears(r, n))
<1> DEFINE N == Len(done)
<1>1. PICK d : d = done'
  OBVIOUS
<1>2. N \in Nat /\ DOMAIN done = 1..N /\ DOMAIN d = 1..(N + 1) /\ Len(d) = N + 1
  BY <1>1
<1>3. d[N + 1] = r /\ \A i \in 1..N : d[i] = done[i]
  BY <1>1
<1>4. IsSet(n)' <=>
          \E i \in 1..(N + 1) : Sets(d[i], n) /\ \A j \in (i + 1)..(N + 1) : ~Clears(d[j], n)
  BY <1>1, <1>2 DEF IsSet, Sets, Clears
<1>5. IsSet(n) <=> \E i \in 1..N : Sets(done[i], n) /\ \A j \in (i + 1)..N : ~Clears(done[j], n)
  BY <1>2 DEF IsSet
<1> HIDE DEF N
<1>6. ASSUME IsSet(n)' PROVE Sets(r, n) \/ (IsSet(n) /\ ~Clears(r, n))
  <2>1. PICK i \in 1..(N + 1) : Sets(d[i], n) /\ \A j \in (i + 1)..(N + 1) : ~Clears(d[j], n)
    BY <1>4, <1>6
  <2>2. CASE i = N + 1
    BY <1>3, <2>1, <2>2
  <2>3. CASE i # N + 1
    <3>1. i \in 1..N /\ N + 1 \in (i + 1)..(N + 1)
      BY <1>2, <2>3
    <3>2. \A j \in (i + 1)..N : j \in (i + 1)..(N + 1) /\ j \in 1..N
      BY <1>2, <3>1
    <3>3. Sets(done[i], n) /\ \A j \in (i + 1)..N : ~Clears(done[j], n)
      BY <1>3, <2>1, <3>1, <3>2
    <3>4. ~Clears(r, n)
      BY <1>3, <2>1, <3>1
    <3> QED  BY <1>5, <3>1, <3>3, <3>4
  <2> QED  BY <2>2, <2>3
<1>7. ASSUME Sets(r, n) PROVE IsSet(n)'
  <2>1. N + 1 \in 1..(N + 1) /\ \A j \in (N + 1 + 1)..(N + 1) : FALSE
    BY <1>2
  <2> QED  BY <1>3, <1>4, <1>7, <2>1
<1>8. ASSUME IsSet(n), ~Clears(r, n) PROVE IsSet(n)'
  <2>1. PICK i \in 1..N : Sets(done[i], n) /\ \A j \in (i + 1)..N : ~Clears(done[j], n)
    BY <1>5, <1>8
  <2>2. i \in 1..(N + 1) /\ Sets(d[i], n)
    BY <1>2, <1>3, <2>1
  <2>3. ASSUME NEW j \in (i + 1)..(N + 1) PROVE ~Clears(d[j], n)
    <3>1. CASE j = N + 1
      BY <1>3, <1>8, <3>1
    <3>2. CASE j # N + 1
      <4>1. j \in 1..N /\ j \in (i + 1)..N
        BY <1>2, <3>2
      <4> QED  BY <1>3, <2>1, <4>1
    <3> QED  BY <3>1, <3>2
  <2> QED  BY <1>4, <2>2, <2>3
<1> QED  BY <1>6, <1>7, <1>8

\* Steps that carry out no request.
LEMMA BreakSame ==
    ASSUME BreakInv, UNCHANGED <<done, infos, enabled>>, status = "terminated" => status' = "terminated"
    PROVE  BreakInv'
<1>1. SetCells' = SetCells
  BY DEF SetCells, IsSet, Sets, Clears
<1>2. Cells(infos)' = Cells(infos)
  OBVIOUS
<1> HIDE DEF SetCells
<1> QED  BY <1>1, <1>2 DEF BreakInv

\* Of a request that is carried out, what it says of numbers.
LEMMA RangeAfter ==
    ASSUME NEW r \in Requests, done \in Seq(Requests), done' = Append(done, r), NEW c \in Nat,
           \A i \in 1..Len(done) : done[i].op \in {"set", "clear"} => done[i].arg \in 0..(c - 1),
           r.op \in {"set", "clear"} => r.arg \in 0..(c - 1)
    PROVE  \A i \in 1..Len(done') : done'[i].op \in {"set", "clear"} => done'[i].arg \in 0..(c - 1)
<1>1. PICK d : d = done'
  OBVIOUS
<1>2. /\ Len(d) = Len(done) + 1 /\ d[Len(done) + 1] = r
      /\ \A i \in 1..Len(done) : d[i] = done[i] /\ Len(done) \in Nat
  BY <1>1
<1>3. \A i \in 1..Len(d) : i \in 1..Len(done) \/ i = Len(done) + 1
  BY <1>2
<1>4. \A i \in 1..Len(d) : d[i].op \in {"set", "clear"} => d[i].arg \in 0..(c - 1)
  BY <1>2, <1>3
<1> QED  BY <1>1, <1>4

\* A request that is about no breakpoint.
LEMMA BreakOther ==
    ASSUME NetInv, InfoInv, BreakInv, Handled, Request.op \notin {"set", "clear"},
           UNCHANGED <<infos, enabled>>
    PROVE  BreakInv'
<1>1. done \in Seq(Requests) /\ done' = Append(done, Request) /\ Request \in Requests
  BY LineIsRequest DEF NetInv, Handled
<1>2. PICK r \in Requests : r = Request
  BY <1>1
<1>3. \A n : IsSet(n)' <=> IsSet(n)
  BY <1>1, <1>2, SetAfter DEF Sets, Clears
<1>4. SetCells' = SetCells
  BY <1>3 DEF SetCells
<1>5. Cells(infos)' = Cells(infos) /\ enabled' = enabled
  OBVIOUS
<1>6. status # "terminated"
  BY DEF Handled, Prompting
<1>7. Len(Cells(infos)) \in Nat
  BY DEF InfoInv
<1>8. \A i \in 1..Len(done) : done[i].op \in {"set", "clear"} => done[i].arg \in 0..(Len(Cells(infos)) - 1)
  BY <1>6 DEF BreakInv
<1>9. \A i \in 1..Len(done') : done'[i].op \in {"set", "clear"} => done'[i].arg \in 0..(Len(Cells(infos)) - 1)
  BY <1>1, <1>2, <1>7, <1>8, RangeAfter
<1> QED  BY <1>4, <1>5, <1>6, <1>9 DEF BreakInv

\* A breakpoint is set or cleared.
LEMMA BreakpointBreak ==
    ASSUME NetInv, InfoInv, BreakInv, Breakpoint
    PROVE  BreakInv'
<1>1. done \in Seq(Requests) /\ done' = Append(done, Request) /\ Request \in Requests
  BY LineIsRequest DEF NetInv, Handled, Breakpoint
<1>2. PICK r \in Requests : r = Request
  BY <1>1
<1>3. PICK cs : cs = Cells(infos)
  OBVIOUS
<1> DEFINE a == r.arg
           c == Len(cs)
<1>4. SUFFICES ASSUME ~(a >= c) PROVE BreakInv'
  <2>1. a >= c => status' = "terminated"
    BY <1>2, <1>3 DEF Breakpoint
  <2> QED  BY <2>1 DEF BreakInv
<1>5. /\ r.op \in {"set", "clear"} /\ infos' = infos /\ status # "terminated"
      /\ enabled' = IF r.op = "set" THEN enabled \cup {cs[a + 1]} ELSE enabled \ {cs[a + 1]}
  BY <1>2, <1>3, <1>4 DEF Breakpoint, Handled, Prompting
<1>6. a \in Nat
  <2>1. \A q \in Requests : q.op \in {"set", "clear"} => q.arg \in EventNumbers
    BY DEF Requests
  <2> QED  BY <1>5, <2>1, EventNumbersAssumption
<1>7. cs \in Seq(AllCells) /\ c \in Nat /\ \A m, n \in 1..c : cs[m] = cs[n] => m = n
  BY <1>3 DEF InfoInv
<1>8. a \in 0..(c - 1)
  BY <1>4, <1>6, <1>7
<1>9. \A n : IsSet(n)' <=> Sets(r, n) \/ (IsSet(n) /\ ~Clears(r, n))
  BY <1>1, <1>2, SetAfter
<1> DEFINE On(n) == IsSet(n)
           T == {cs[n + 1] : n \in {m \in 0..(c - 1) : On(m)}}
           U == {cs[n + 1] : n \in {m \in 0..(c - 1) : IsSet(m)'}}
<1>10. SetCells = T /\ SetCells' = U
  BY <1>3, <1>5 DEF SetCells
<1> HIDE DEF c, a
<1>11. enabled = T
  BY <1>5, <1>10 DEF BreakInv
<1>12. U = enabled'
  <2>1. CASE r.op = "set"
    <3>1. \A n : IsSet(n)' <=> n = a \/ On(n)
      BY <1>9, <2>1 DEF Sets, Clears, a
    <3>2. U = T \cup {cs[a + 1]}
      BY <1>8, <3>1
    <3> QED  BY <1>5, <1>11, <2>1, <3>2
  <2>2. CASE r.op = "clear"
    <3>1. \A n : IsSet(n)' <=> n # a /\ On(n)
      BY <1>9, <2>2 DEF Sets, Clears, a
    <3>2. ASSUME NEW n \in 0..(c - 1) PROVE cs[n + 1] = cs[a + 1] <=> n = a
      <4>1. n + 1 \in 1..c /\ a + 1 \in 1..c
        BY <1>7, <1>8
      <4>2. cs[n + 1] = cs[a + 1] => n + 1 = a + 1
        BY <1>7, <4>1
      <4> QED  BY <1>8, <4>2
    <3>3. U = T \ {cs[a + 1]}
      BY <3>1, <3>2
    <3>4. r.op # "set"
      BY <2>2
    <3> QED  BY <1>5, <1>11, <3>3, <3>4
  <2> QED  BY <1>5, <2>1, <2>2
<1>13. \A i \in 1..Len(done) : done[i].op \in {"set", "clear"} => done[i].arg \in 0..(c - 1)
  BY <1>3, <1>5 DEF BreakInv, c
<1>14. \A i \in 1..Len(done') : done'[i].op \in {"set", "clear"} => done'[i].arg \in 0..(c - 1)
  <2>1. r.op \in {"set", "clear"} => r.arg \in 0..(c - 1)
    BY <1>8 DEF a
  <2>2. c \in Nat
    BY <1>7 DEF c
  <2> QED  BY <1>1, <1>2, <1>13, <2>1, <2>2, RangeAfter
<1>15. Cells(infos)' = cs
  BY <1>3, <1>5
<1> QED  BY <1>10, <1>12, <1>14, <1>15 DEF BreakInv, c

\* A unit is registered: no number that was set means another event.
LEMMA RegisterBreak ==
    ASSUME NEW u \in DOMAIN Units, NetInv, InfoInv, BreakInv, Register(u)
    PROVE  BreakInv'
<1>1. /\ status # "terminated" /\ infos' = Append(infos, u)
      /\ enabled' = enabled /\ done' = done
  BY DEF Register, netVars
<1>2. infos \in Seq(DOMAIN Units) /\ Cells(infos) \in Seq(AllCells)
  BY DEF InfoInv
<1>3. PICK cs, us, all : cs = Cells(infos) /\ us = UnitCells(u) /\ all = cs \o us
  OBVIOUS
<1>4. Cells(infos)' = all
  BY <1>1, <1>2, <1>3, CellsAppend
<1>5. cs \in Seq(AllCells) /\ us \in Seq(AllCells)
  BY <1>2, <1>3, UnitCellsFacts
<1>6. /\ Len(cs) \in Nat /\ Len(all) \in Nat /\ Len(cs) <= Len(all)
      /\ \A i \in 1..Len(cs) : all[i] = cs[i]
  BY <1>3, <1>5
<1>7. /\ enabled = SetCells
      /\ \A i \in 1..Len(done) : done[i].op \in {"set", "clear"} => done[i].arg \in 0..(Len(cs) - 1)
  BY <1>1, <1>3 DEF BreakInv
<1>8. \A n : IsSet(n)' <=> IsSet(n)
  BY <1>1 DEF IsSet, Sets, Clears
<1>9. \A n : IsSet(n) => n \in 0..(Len(cs) - 1)
  <2> TAKE n
  <2> SUFFICES ASSUME IsSet(n) PROVE n \in 0..(Len(cs) - 1)
    OBVIOUS
  <2>1. PICK i \in DOMAIN done : Sets(done[i], n)
    BY DEF IsSet
  <2>2. i \in 1..Len(done)
    BY DEF NetInv
  <2> QED  BY <1>7, <2>1, <2>2 DEF Sets
<1>10. \A n \in 0..(Len(cs) - 1) : n \in 0..(Len(all) - 1) /\ all[n + 1] = cs[n + 1]
  BY <1>6
<1>11. SetCells = {cs[n + 1] : n \in {m \in 0..(Len(cs) - 1) : IsSet(m)}}
  BY <1>3 DEF SetCells
<1>12. SetCells' = {all[n + 1] : n \in {m \in 0..(Len(all) - 1) : IsSet(m)}}
  BY <1>4, <1>8 DEF SetCells
<1>13. SetCells' = SetCells
  BY <1>9, <1>10, <1>11, <1>12
<1>14. \A i \in 1..Len(done') : done'[i].op \in {"set", "clear"} => done'[i].arg \in 0..(Len(all) - 1)
  BY <1>1, <1>7, <1>10
<1> QED  BY <1>1, <1>4, <1>7, <1>13, <1>14 DEF BreakInv
-----------------------------------------------------------------------------
(***************************************************************************)
(* The proof.                                                              *)
(***************************************************************************)

\* Steps that move no character and carry out no request.
LEMMA NetSame == ASSUME NetInv, UNCHANGED netVars PROVE NetInv'
BY DEF NetInv, netVars, RequestsInOrder, Text

\* Steps that change neither the units nor the table.
LEMMA InfoSame == ASSUME InfoInv, UNCHANGED <<infos, unseen, listed, table>> PROVE InfoInv'
<1>1. Old' = Old /\ New' = New /\ Cells(infos)' = Cells(infos)
  BY DEF Old, New
<1>2. ToSet(infos)' = ToSet(infos)
  OBVIOUS
<1> HIDE DEF Old, New
<1> QED  BY <1>1, <1>2 DEF InfoInv

\* Before the first unit, and before the client.
LEMMA InitDebugger == DebuggerInit => DebuggerInv
<1> SUFFICES ASSUME DebuggerInit PROVE DebuggerInv
  OBVIOUS
<1>0. PICK e \in Seq(Requests) : e = <<>> /\ Len(e) = 0
  <2>1. <<>> \in Seq(Requests) /\ Len(<<>>) = 0
    OBVIOUS
  <2> QED  BY <2>1, Zenon
<1>1. Text(<<>>) = <<>>
  <2>1. Text(e) \in Seq(Chars) /\ Len(Text(e)) = 2 * Len(e)
    BY TextFacts
  <2>2. Text(e) = <<>>
    BY <1>0, <2>1
  <2> QED  BY <1>0, <2>2
<1>2. NetInv
  <2>1. /\ line = <<>> /\ input = <<>> /\ stream = <<>> /\ requested = <<>> /\ done = <<>>
    BY DEF DebuggerInit
  <2>2. IsPrefix(done, requested)
    <3>1. IsPrefix(e, e)
      BY PrefixFacts
    <3> QED  BY <1>0, <2>1, <3>1
  <2> QED  BY <1>1, <2>1, <2>2 DEF NetInv, RequestsInOrder
<1>3. infos = <<>> /\ unseen = 0 /\ listed = 0 /\ enabled = {} /\ table = <<>>
  BY DEF DebuggerInit
<1>4. Cells(infos) = <<>> /\ Old = <<>> /\ New = <<>>
  <2>1. SubSeq(<<>>, 1, 0) = <<>> /\ SubSeq(<<>>, 0 + 1, Len(<<>>)) = <<>>
    OBVIOUS
  <2> QED  BY <1>3, <2>1, CellsEmpty DEF Old, New
<1>5. InfoInv
  <2>1. <<>> \in Seq(AllCells) /\ <<>> = <<>> \o <<>> /\ Len(<<>>) = 0
    OBVIOUS
  <2>2. Len(Cells(infos)) = 0 /\ Len(Old) = 0
    BY <1>4
  <2>3. \A m \in 1..Len(Cells(infos)) : FALSE
    BY <2>2
  <2>4. /\ Cells(infos) \in Seq(AllCells) /\ Old \in Seq(AllCells) /\ New \in Seq(AllCells)
        /\ Cells(infos) = Old \o New
    BY <1>4, <2>1
  <2>5. /\ infos \in Seq(DOMAIN Units) /\ unseen \in 0..Len(infos)
        /\ table \in Seq(Nat \X AllCells) /\ listed = Len(table) /\ Len(table) = 0
    BY <1>3
  <2> HIDE DEF Old, New
  <2> QED  BY <2>2, <2>3, <2>4, <2>5 DEF InfoInv
<1>6. BreakInv
  <2>1. done = <<>> /\ Len(done) = 0
    BY DEF DebuggerInit
  <2>2. Len(Cells(infos)) = 0
    BY <1>4
  <2>3. SetCells = {}
    BY <2>2 DEF SetCells
  <2> QED  BY <1>3, <2>1, <2>3 DEF BreakInv
<1> QED  BY <1>2, <1>5, <1>6 DEF DebuggerInv

\* Every step keeps the invariant.
LEMMA StepDebugger == DebuggerInv /\ [DebuggerNext]_debugVars => DebuggerInv'
<1> SUFFICES ASSUME NetInv, InfoInv, BreakInv, [DebuggerNext]_debugVars
             PROVE  NetInv' /\ InfoInv' /\ BreakInv'
  BY DEF DebuggerInv
<1>1. ASSUME NEW u \in DOMAIN Units, Register(u) PROVE NetInv' /\ InfoInv' /\ BreakInv'
  <2>1. UNCHANGED netVars
    BY <1>1 DEF Register
  <2> QED  BY <1>1, <2>1, NetSame, RegisterInfo, RegisterBreak
<1>2. CASE Connect
  <2>1. UNCHANGED netVars /\ UNCHANGED infoVars /\ status # "terminated"
    BY <1>2 DEF Connect
  <2> QED  BY <2>1, NetSame, InfoSame, BreakSame DEF infoVars, netVars
<1>3. ASSUME NEW cell, Event(cell) PROVE NetInv' /\ InfoInv' /\ BreakInv'
  <2>1. UNCHANGED netVars /\ UNCHANGED infoVars /\ status # "terminated"
    BY <1>3 DEF Event
  <2> QED  BY <2>1, NetSame, InfoSame, BreakSame DEF infoVars, netVars
<1>4. CASE Interrupt
  <2>1. UNCHANGED netVars /\ UNCHANGED infoVars /\ status # "terminated"
    BY <1>4 DEF Interrupt
  <2> QED  BY <2>1, NetSame, InfoSame, BreakSame DEF infoVars, netVars
<1>5. CASE CopyLine
  <2>1. UNCHANGED infoVars /\ done' = done /\ status # "terminated"
    BY <1>5 DEF CopyLine, Prompting
  <2> QED  BY <1>5, <2>1, CopyLineNet, InfoSame, BreakSame DEF infoVars
<1>6. CASE Receive
  <2>1. UNCHANGED infoVars /\ done' = done /\ status # "terminated"
    BY <1>6 DEF Receive, Prompting
  <2> QED  BY <1>6, <2>1, ReceiveNet, InfoSame, BreakSame DEF infoVars
<1>7. CASE SetMask \/ Query \/ Continue \/ Terminate
  <2>1. Handled /\ UNCHANGED infoVars /\ Request.op \notin {"set", "clear"}
    BY <1>7 DEF SetMask, Query, Continue, Terminate
  <2> QED  BY <2>1, HandledNet, InfoSame, BreakOther DEF infoVars
<1>8. CASE Disconnect
  <2>1. UNCHANGED netVars /\ UNCHANGED infoVars /\ status # "terminated"
    BY <1>8 DEF Disconnect, Prompting
  <2> QED  BY <2>1, NetSame, InfoSame, BreakSame DEF infoVars, netVars
<1>9. CASE Breakpoint
  <2>1. Handled /\ UNCHANGED <<infos, listed, table>>
    BY <1>9 DEF Breakpoint
  <2>2. unseen' = unseen
    BY <1>9 DEF Breakpoint
  <2> QED  BY <1>9, <2>1, <2>2, HandledNet, InfoSame, BreakpointBreak
<1>10. CASE ListEvents
  <2>1. Handled /\ UNCHANGED <<infos, enabled>> /\ Request.op \notin {"set", "clear"}
    BY <1>10 DEF ListEvents
  <2> QED  BY <1>10, <2>1, HandledNet, ListInfo, BreakOther
<1>11. CASE ClientSends
  <2>1. UNCHANGED infoVars /\ done' = done /\ status' = status
    BY <1>11 DEF ClientSends
  <2> QED  BY <1>11, <2>1, ClientSendsNet, InfoSame, BreakSame DEF infoVars
<1>12. CASE UNCHANGED debugVars
  <2>1. UNCHANGED netVars /\ UNCHANGED infoVars /\ status' = status
    BY <1>12 DEF debugVars
  <2> QED  BY <2>1, NetSame, InfoSame, BreakSame DEF infoVars, netVars
<1> QED
  BY <1>1, <1>2, <1>3, <1>4, <1>5, <1>6, <1>7, <1>8, <1>9, <1>10, <1>11, <1>12 DEF DebuggerNext

\* What the invariant says of the requests and of the numbers.
LEMMA InvObeyed == DebuggerInv => RequestsObeyed
<1> SUFFICES ASSUME NetInv, InfoInv, BreakInv PROVE RequestsInOrder /\ NumbersMeanEvents
  BY DEF DebuggerInv, RequestsObeyed
<1>1. RequestsInOrder
  BY DEF NetInv
<1>2. DOMAIN table = 1..Len(table)
  BY DEF InfoInv
<1>3. \A i \in DOMAIN table : table[i] = <<i - 1, Cells(infos)[i]>>
  BY <1>2 DEF InfoInv
<1>4. Len(table) = Len(Cells(SubSeq(infos, 1, unseen)))
  BY DEF InfoInv, Old
<1>5. status # "terminated" => enabled = SetCells
  BY DEF BreakInv
<1>6. NumbersMeanEvents
  BY <1>3, <1>4, <1>5 DEF NumbersMeanEvents, SetCells
<1> QED  BY <1>1, <1>6

\* The stub carries out the requests of its client in order and once, into
\* whatever pieces the stream has cut them, and a number means the same event
\* when it is listed and when a breakpoint is set, however many units have
\* been loaded in between (dbg-stub.c, socket_read and send_event).
THEOREM ObeysRequests == DebuggerSpec => []RequestsObeyed
<1>1. DebuggerInit => DebuggerInv
  BY InitDebugger
<1>2. DebuggerInv /\ [DebuggerNext]_debugVars => DebuggerInv'
  BY StepDebugger
<1>3. DebuggerInv => RequestsObeyed
  BY InvObeyed
<1> QED  BY <1>1, <1>2, <1>3, PTL DEF DebuggerSpec

-----------------------------------------------------------------------------
(***************************************************************************)
(* Threads that open connections.                                          *)
(***************************************************************************)
USE DEF Acceptor, Connector, Thread

\* The states of a thread differ.
LEMMA ThreadStates ==
    /\ Idle # Blocked /\ Idle # Ready(TRUE) /\ Idle # Ready(FALSE)
    /\ Blocked # Ready(TRUE) /\ Blocked # Ready(FALSE) /\ Ready(TRUE) # Ready(FALSE)
    /\ Idle.at # "ready" /\ Blocked.at # "ready"
BY DEF Idle, Blocked, Ready

\* The type invariant.
Inv ==
    /\ use \in Uses
    /\ backlog \in Nat
    /\ th \in [Thread -> {Idle, Blocked, Ready(TRUE), Ready(FALSE)}]
    /\ sock \in [Connector -> {"none", "pending", "connected", "refused", "closed"}]
    /\ result \in [Thread -> {"none", "ports", "error", "timeout"}]
    /\ stuck \in Acceptor \cup {NoThread}

\* The types hold at the start,
LEMMA InvInit == ASSUME ConstantsOK, Init PROVE Inv
BY DEF Init, Inv, ConstantsOK

\* after a call that ends a connection attempt,
LEMMA ConnectedInv ==
    ASSUME ConstantsOK, Inv, NEW t \in Connector, NEW s \in {"pending", "connected", "refused", "none", "closed"},
           Connected(t, s)
    PROVE  /\ th' = [th EXCEPT ![t] = Idle]
           /\ sock' \in [Connector -> {"none", "pending", "connected", "refused", "closed"}]
           /\ result' \in [Thread -> {"none", "ports", "error", "timeout"}]
BY DEF Connected, Return, Inv

\* and after every step.
LEMMA InvNext == ASSUME ConstantsOK, Inv, [Next]_vars PROVE Inv'
<1>0. /\ backlog \in Nat /\ backlog + 1 \in Nat
      /\ backlog > 0 => backlog - 1 \in Nat
  BY DEF Inv
<1>1. CASE ClientConnects
  <2>1. backlog' \in Nat /\ UNCHANGED <<use, sock, th, result, stuck>>
    BY <1>0, <1>1 DEF ClientConnects
  <2> QED  BY <2>1 DEF Inv
<1>2. ASSUME NEW t \in Connector, ConnectionDecided(t) PROVE Inv'
  BY <1>2 DEF ConnectionDecided, Inv
<1>3. ASSUME NEW t \in Connector, Connects(t) PROVE Inv'
  <2>1. CASE TcpConnectAtOnce(t)
    <3>1. UNCHANGED <<use, offered, backlog, stuck>>
      BY <2>1 DEF TcpConnectAtOnce
    <3>2. CASE Connected(t, "connected")
      BY <3>1, <3>2, ConnectedInv DEF Inv
    <3>3. CASE sock' = [sock EXCEPT ![t] = "closed"] /\ Return(t, "error")
      BY <3>1, <3>3 DEF Return, Inv
    <3> QED  BY <2>1, <3>2, <3>3 DEF TcpConnectAtOnce
  <2>2. CASE TcpConnect(t)
    BY <2>2 DEF TcpConnect, Inv
  <2>3. CASE ConnectContinues(t)
    <3>1. UNCHANGED <<use, offered, backlog, stuck>> /\ Connected(t, sock[t])
      BY <2>3 DEF ConnectContinues
    <3>2. sock[t] \in {"pending", "connected", "refused", "none", "closed"}
      BY DEF Inv
    <3> QED  BY <3>1, <3>2, ConnectedInv DEF Inv
  <2> QED  BY <1>3, <2>1, <2>2, <2>3 DEF Connects
<1>4. ASSUME NEW t \in Acceptor, Accepts(t) PROVE Inv'
  <2>1. CASE TcpAccept(t)
    <3>1. /\ UNCHANGED <<use, offered, backlog, sock, stuck>>
          /\ th' = [th EXCEPT ![t] = Blocked]
          /\ result' = [result EXCEPT ![t] = "none"]
      BY <2>1 DEF TcpAccept
    <3>2. Thread' = Thread /\ Acceptor' = Acceptor /\ Connector' = Connector /\ t \in Thread
      BY <3>1
    <3>3. th' \in [Thread -> {Idle, Blocked, Ready(TRUE), Ready(FALSE)}]
      <4>1. th \in [Thread -> {Idle, Blocked, Ready(TRUE), Ready(FALSE)}]
        BY DEF Inv
      <4> HIDE DEF Thread
      <4> QED  BY <3>1, <4>1
    <3>4. result' \in [Thread -> {"none", "ports", "error", "timeout"}]
      <4>1. result \in [Thread -> {"none", "ports", "error", "timeout"}]
        BY DEF Inv
      <4> HIDE DEF Thread
      <4> QED  BY <3>1, <4>1
    <3> QED  BY <3>1, <3>2, <3>3, <3>4 DEF Inv
  <2>2. CASE AcceptTimesOut(t) \/ AcceptFails(t)
    BY <2>2, ZenonT(90) DEF AcceptTimesOut, AcceptFails, Return, Inv
  <2>3. CASE Accept(t)
    <3>1. backlog' \in Nat /\ UNCHANGED <<use, sock, stuck>> /\ Return(t, "ports")
      BY <1>0, <2>3 DEF Accept
    <3> QED  BY <3>1 DEF Return, Inv
  <2>4. CASE AcceptBlocks(t)
    BY <2>4 DEF AcceptBlocks, Inv
  <2> QED  BY <1>4, <2>1, <2>2, <2>3, <2>4 DEF Accepts
<1>5. CASE WakeForIo
  BY <1>5 DEF WakeForIo, Inv
<1>6. ASSUME NEW t \in Thread, WakeForTimeout(t) PROVE Inv'
  BY <1>6 DEF WakeForTimeout, Inv
<1>7. CASE ForcePrimordial
  BY <1>7 DEF ForcePrimordial, Inv
<1>8. CASE AcceptReturns
  <2>1. /\ backlog' \in Nat /\ UNCHANGED <<use, sock>> /\ Return(stuck, "ports")
        /\ stuck' = NoThread
    BY <1>0, <1>8 DEF AcceptReturns
  <2> QED  BY <2>1 DEF Return, Inv
<1>9. CASE AcceptInterrupted
  BY <1>9 DEF AcceptInterrupted, Inv
<1>10. CASE UNCHANGED vars
  BY <1>10 DEF vars, Inv
<1> QED  BY <1>1, <1>2, <1>3, <1>4, <1>5, <1>6, <1>7, <1>8, <1>9, <1>10 DEF Next

-----------------------------------------------------------------------------
(***************************************************************************)
(* Accepting.                                                              *)
(***************************************************************************)

\* The condition of LoneAcceptorNeverBlocks.
Lone == Cardinality(Acceptor) <= 1 /\ ~(use.signals /\ use.main \in Acceptor)

\* A set of at most one element.
LEMMA AtMostOne ==
    ASSUME NEW S, IsFiniteSet(S), Cardinality(S) <= 1, NEW s \in S, NEW t \in S
    PROVE  s = t
<1> SUFFICES ASSUME s # t PROVE FALSE
  OBVIOUS
<1>1. {s} \subseteq S /\ {s, t} \subseteq S
  OBVIOUS
<1>2. IsFiniteSet({s}) /\ Cardinality({s}) = 1
  BY FS_Singleton
<1>3. Cardinality({s} \cup {t}) = 2
  <2>1. Cardinality({s} \cup {t}) = Cardinality({s}) + 1
    BY <1>2, FS_AddElement, SMTT(60)
  <2> QED  BY <1>2, <2>1
<1>4. {s} \cup {t} \subseteq S
  OBVIOUS
<1>5. Cardinality({s} \cup {t}) <= Cardinality(S)
  BY <1>4, FS_Subset
<1>6. Cardinality(S) \in Nat
  BY FS_CardinalityType
<1> QED  BY <1>3, <1>5, <1>6

\* The acceptor that poll() reported to be readable finds a connection.
AcceptInv ==
    Lone => /\ stuck = NoThread
            /\ \A t \in Acceptor : th[t] = Ready(FALSE) => backlog > 0

\* Every step keeps the invariant of the thread that accepts.
LEMMA AcceptNext ==
    ASSUME ConstantsOK, IsFiniteSet(Threads), Inv, AcceptInv, [Next]_vars
    PROVE  AcceptInv'
<1> USE ThreadStates
<1>0. use' = use
  BY DEF Next, ClientConnects, ConnectionDecided, Connects, TcpConnectAtOnce, TcpConnect,
     ConnectContinues, Accepts, TcpAccept, AcceptTimesOut, Accept, AcceptFails,
     AcceptBlocks, WakeForIo, WakeForTimeout, ForcePrimordial, AcceptReturns,
     AcceptInterrupted, vars
<1> SUFFICES ASSUME Lone
             PROVE  /\ stuck' = NoThread
                    /\ \A t \in Acceptor : th'[t] = Ready(FALSE) => backlog' > 0
  BY <1>0 DEF AcceptInv, Lone
<1>1. /\ stuck = NoThread
      /\ \A t \in Acceptor : th[t] = Ready(FALSE) => backlog > 0
  BY DEF AcceptInv
<1>2. UseTypeOK(use)
  BY DEF Inv, ConstantsOK
<1>3. \A s, t \in Acceptor : s = t
  <2>1. IsFiniteSet(Acceptor)
    BY <1>2, FS_Subset DEF UseTypeOK
  <2> QED  BY <2>1, AtMostOne DEF Lone
<1>4. CASE ClientConnects
  <2>1. UNCHANGED <<th, stuck>> /\ backlog' = backlog + 1 /\ backlog \in Nat
    BY <1>4 DEF ClientConnects, Inv
  <2>2. backlog' > 0
    BY <2>1
  <2> QED  BY <1>1, <2>1, <2>2
<1>5. ASSUME NEW t \in Connector, ConnectionDecided(t) \/ Connects(t)
      PROVE  /\ stuck' = NoThread
             /\ \A a \in Acceptor : th'[a] = Ready(FALSE) => backlog' > 0
  <2>1. UNCHANGED <<backlog, stuck>>
    BY <1>5 DEF ConnectionDecided, Connects, TcpConnectAtOnce, TcpConnect, ConnectContinues
  <2>2. \A a \in Acceptor : a # t
    BY <1>2 DEF UseTypeOK
  <2>3. \A a \in Acceptor : th'[a] = th[a]
    BY <1>5, <2>2 DEF ConnectionDecided, Connects, TcpConnectAtOnce, TcpConnect,
       ConnectContinues, Connected, Return, Inv
  <2> QED  BY <1>1, <2>1, <2>3
<1>6. ASSUME NEW t \in Acceptor, Accepts(t)
      PROVE  /\ stuck' = NoThread
             /\ \A a \in Acceptor : th'[a] = Ready(FALSE) => backlog' > 0
  <2>1. CASE TcpAccept(t) \/ AcceptTimesOut(t) \/ AcceptFails(t) \/ Accept(t)
    <3>1. stuck' = stuck /\ th'[t] # Ready(FALSE)
      BY <2>1 DEF TcpAccept, AcceptTimesOut, AcceptFails, Accept, Return, Inv
    <3> QED  BY <1>1, <1>3, <3>1
  <2>2. CASE AcceptBlocks(t)
    <3>1. th[t] = Ready(FALSE) /\ backlog = 0
      BY <2>2 DEF AcceptBlocks
    <3>2. backlog > 0
      BY <1>1, <3>1, Zenon
    <3> QED  BY <3>1, <3>2
  <2> QED  BY <1>6, <2>1, <2>2 DEF Accepts
<1>7. CASE WakeForIo
  <2>1. UNCHANGED <<backlog, stuck>>
    BY <1>7 DEF WakeForIo
  <2>2. \A t \in Acceptor : th'[t] = th[t] \/ backlog > 0
    BY <1>7 DEF WakeForIo, Pollable
  <2> QED  BY <1>1, <2>1, <2>2
<1>8. ASSUME NEW t \in Thread, WakeForTimeout(t)
      PROVE  /\ stuck' = NoThread
             /\ \A a \in Acceptor : th'[a] = Ready(FALSE) => backlog' > 0
  BY <1>1, <1>8 DEF WakeForTimeout, Inv
<1>9. CASE ForcePrimordial
  <2>1. UNCHANGED <<backlog, stuck>>
    BY <1>9 DEF ForcePrimordial
  <2>2. use.main \notin Acceptor
    BY <1>9 DEF ForcePrimordial, Lone
  <2>3. \A a \in Acceptor : th'[a] = th[a]
    BY <1>9, <2>2 DEF ForcePrimordial, Inv
  <2> QED  BY <1>1, <2>1, <2>3
<1>10. CASE AcceptReturns \/ AcceptInterrupted
  BY <1>1, <1>10 DEF AcceptReturns, AcceptInterrupted
<1>11. CASE UNCHANGED vars
  BY <1>1, <1>11 DEF vars
<1> QED  BY <1>4, <1>5, <1>6, <1>7, <1>8, <1>9, <1>10, <1>11 DEF Next

\* The accept() of tcp-accept never stops the process in a program where one
\* thread accepts from a listener, and signals do not wake it: poll() has said
\* that there is a connection, and nobody else takes it before the thread runs.
THEOREM AcceptorNeverBlocks ==
    ASSUME ConstantsOK, IsFiniteSet(Threads)
    PROVE  Spec => []LoneAcceptorNeverBlocks
<1>1. Init => Inv /\ AcceptInv
  <2>1. Init => AcceptInv
    <3> SUFFICES ASSUME Init PROVE AcceptInv
      OBVIOUS
    <3>1. stuck = NoThread /\ \A t \in Acceptor : th[t] = Idle
      BY DEF Init
    <3> QED  BY <3>1, ThreadStates DEF AcceptInv
  <2> QED  BY <2>1, InvInit
<1>2. Inv /\ AcceptInv /\ [Next]_vars => (Inv /\ AcceptInv)'
  BY InvNext, AcceptNext
<1>3. AcceptInv => LoneAcceptorNeverBlocks
  BY DEF AcceptInv, Lone, LoneAcceptorNeverBlocks, ProcessNeverBlocks
<1> QED  BY <1>1, <1>2, <1>3, PTL DEF Spec

-----------------------------------------------------------------------------
(***************************************************************************)
(* Connecting.                                                             *)
(***************************************************************************)

\* No connecting thread is woken before the connection is decided: connecting
\* has no timeout, and no connecting thread is the one that signals wake.
Patient(u) == "connect" \notin u.timeouts /\ ~(u.signals /\ u.main \in u.connectors)

\* A thread that waits has an open socket and no result yet, one that was woken
\* a socket whose connection is decided.
ConnectInv ==
    \A t \in Connector :
        /\ th[t] # Idle => result[t] = "none" /\ sock[t] \in {"pending", "connected", "refused"}
        /\ th[t].at = "ready" => sock[t] # "pending"
        /\ sock[t] = "pending" => th[t] # Idle
        /\ result[t] = "ports" => sock[t] = "connected"
        /\ result[t] \in {"error", "timeout"} => sock[t] = "closed"

\* Every step keeps the invariant of the threads that connect.
LEMMA ConnectNext ==
    ASSUME ConstantsOK, \A u \in Uses : Patient(u), Inv, ConnectInv, [Next]_vars
    PROVE  ConnectInv'
<1> USE ThreadStates
<1>0. use' = use
  BY DEF Next, ClientConnects, ConnectionDecided, Connects, TcpConnectAtOnce, TcpConnect,
     ConnectContinues, Accepts, TcpAccept, AcceptTimesOut, Accept, AcceptFails,
     AcceptBlocks, WakeForIo, WakeForTimeout, ForcePrimordial, AcceptReturns,
     AcceptInterrupted, vars
<1>1. Patient(use) /\ UseTypeOK(use)
  BY DEF Inv, ConstantsOK
<1>2. ASSUME NEW t \in Connector,
             \A c \in Connector : c # t =>
                 th'[c] = th[c] /\ sock'[c] = sock[c] /\ result'[c] = result[c],
             \/ /\ th'[t] = Idle
                /\ \/ sock'[t] = "connected" /\ result'[t] = "ports"
                   \/ sock'[t] = "closed" /\ result'[t] = "error"
             \/ th'[t] = Blocked /\ sock'[t] = "pending" /\ result'[t] = "none"
      PROVE  ConnectInv'
  BY <1>0, <1>2 DEF ConnectInv
<1>3. ASSUME \A c \in Connector : th'[c] = th[c] /\ sock'[c] = sock[c] /\ result'[c] = result[c]
      PROVE  ConnectInv'
  BY <1>0, <1>3 DEF ConnectInv
<1>4. CASE ClientConnects \/ UNCHANGED vars
  BY <1>3, <1>4 DEF ClientConnects, vars
<1>5. ASSUME NEW t \in Connector, ConnectionDecided(t) PROVE ConnectInv'
  <2>1. /\ \A c \in Connector : c # t => sock'[c] = sock[c]
        /\ sock[t] = "pending" /\ sock'[t] \in {"connected", "refused"}
        /\ UNCHANGED <<th, result>>
    BY <1>5 DEF ConnectionDecided, Inv
  <2> QED  BY <1>0, <2>1 DEF ConnectInv
<1>6. ASSUME NEW t \in Connector, Connects(t) PROVE ConnectInv'
  <2>1. ASSUME NEW s \in {"connected", "refused"}, Connected(t, s) PROVE ConnectInv'
    <3>1. CASE s = "refused"
      BY <1>2, <2>1, <3>1 DEF Connected, Return, Inv
    <3>2. CASE s = "connected"
      BY <1>2, <2>1, <3>2 DEF Connected, Return, Inv
    <3> QED  BY <3>1, <3>2
  <2>2. CASE TcpConnectAtOnce(t)
    <3>1. CASE sock' = [sock EXCEPT ![t] = "closed"] /\ Return(t, "error")
      BY <1>2, <3>1 DEF Return, Inv
    <3> QED  BY <2>1, <2>2, <3>1 DEF TcpConnectAtOnce
  <2>3. CASE TcpConnect(t)
    BY <1>2, <2>3 DEF TcpConnect, Inv
  <2>4. CASE ConnectContinues(t)
    <3>1. th[t].at = "ready" /\ Connected(t, sock[t])
      BY <2>4 DEF ConnectContinues
    <3>2. sock[t] \in {"connected", "refused"}
      BY <3>1 DEF ConnectInv
    <3> QED  BY <2>1, <3>1, <3>2
  <2> QED  BY <1>6, <2>2, <2>3, <2>4 DEF Connects
<1>7. ASSUME NEW t \in Acceptor, Accepts(t) PROVE ConnectInv'
  <2>1. \A c \in Connector : c # t
    BY <1>1 DEF UseTypeOK
  <2>2. UNCHANGED sock
    BY <1>7 DEF Accepts, TcpAccept, AcceptTimesOut, Accept, AcceptFails, AcceptBlocks
  <2>3. \A c \in Connector : th'[c] = th[c] /\ result'[c] = result[c]
    BY <1>7, <2>1 DEF Accepts, TcpAccept, AcceptTimesOut, Accept, AcceptFails,
       AcceptBlocks, Return, Inv
  <2> QED  BY <1>3, <2>2, <2>3
<1>8. CASE WakeForIo
  <2>1. UNCHANGED <<sock, result>>
    BY <1>8 DEF WakeForIo
  <2>2. \A c \in Connector :
            \/ th'[c] = th[c]
            \/ th[c] = Blocked /\ th'[c] = Ready(FALSE) /\ sock[c] # "pending"
    BY <1>1, <1>8 DEF WakeForIo, Pollable, UseTypeOK
  <2> QED  BY <1>0, <2>1, <2>2 DEF ConnectInv
<1>9. ASSUME NEW t \in Thread, WakeForTimeout(t) PROVE ConnectInv'
  <2>1. t \in Acceptor
    BY <1>1, <1>9 DEF WakeForTimeout, Patient
  <2>2. \A c \in Connector : c # t
    BY <1>1, <2>1 DEF UseTypeOK
  <2>3. \A c \in Connector : th'[c] = th[c]
    BY <1>9, <2>2 DEF WakeForTimeout, Inv
  <2> QED  BY <1>3, <1>9, <2>3 DEF WakeForTimeout
<1>10. CASE ForcePrimordial
  <2>1. use.main \notin Connector
    BY <1>1, <1>10 DEF ForcePrimordial, Patient
  <2>2. \A c \in Connector : th'[c] = th[c]
    BY <1>10, <2>1 DEF ForcePrimordial, Inv
  <2> QED  BY <1>3, <1>10, <2>2 DEF ForcePrimordial
<1>11. CASE AcceptReturns \/ AcceptInterrupted
  <2>1. stuck \in Acceptor
    BY <1>11 DEF AcceptReturns, AcceptInterrupted, Inv
  <2>2. \A c \in Connector : c # stuck
    BY <1>1, <2>1 DEF UseTypeOK
  <2>3. \A c \in Connector : th'[c] = th[c] /\ result'[c] = result[c]
    BY <1>11, <2>2 DEF AcceptReturns, AcceptInterrupted, Return, Inv
  <2> QED  BY <1>3, <1>11, <2>3 DEF AcceptReturns, AcceptInterrupted
<1> QED  BY <1>4, <1>5, <1>6, <1>7, <1>8, <1>9, <1>10, <1>11 DEF Next

\* tcp-connect returns ports only for a connection that is established, and has
\* closed the socket when it raises an error, in programs whose connecting
\* threads nothing but poll() wakes: it asks the socket for its error, which is
\* none as long as the connection is under way.
THEOREM ConnectTellsTruth ==
    ASSUME ConstantsOK, \A u \in Uses : Patient(u)
    PROVE  Spec => []ConnectResults
<1>1. Init => Inv /\ ConnectInv
  <2>1. Init => ConnectInv
    <3> SUFFICES ASSUME Init PROVE ConnectInv
      OBVIOUS
    <3>1. \A t \in Connector : th[t] = Idle /\ sock[t] = "none" /\ result[t] = "none"
      BY DEF Init
    <3> QED  BY <3>1, ThreadStates DEF ConnectInv
  <2> QED  BY <2>1, InvInit
<1>2. Inv /\ ConnectInv /\ [Next]_vars => (Inv /\ ConnectInv)'
  BY InvNext, ConnectNext
<1>3. ConnectInv => ConnectResults
  BY DEF ConnectInv, ConnectResults
<1> QED  BY <1>1, <1>2, <1>3, PTL DEF Spec
=============================================================================
