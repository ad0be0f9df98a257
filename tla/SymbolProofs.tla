------------------------------ MODULE SymbolProofs ------------------------------
(***************************************************************************)
(* Proofs about the symbol tables, for any names, any hash function, any   *)
(* number of symbols and properties.                                       *)
(***************************************************************************)
EXTENDS SymbolSystem, FiniteSetTheorems, WellFoundedInduction, TLAPS

-----------------------------------------------------------------------------
(***************************************************************************)
(* What Kept leaves of a sequence.                                         *)
(***************************************************************************)

\* A set of numbers that is not empty has a least one.
LEMMA LeastOf ==
    ASSUME NEW S \in SUBSET Nat, S # {}
    PROVE  \E n \in S : \A m \in S : n <= m
<1>1. IsWellFoundedOn(OpToRel(<, Nat), Nat)
  BY NatLessThanWellFounded
<1>2. PICK n \in S : \A m \in S : ~(<<m, n>> \in OpToRel(<, Nat))
  BY <1>1, WFMin
<1>3. \A m \in S : ~(m < n)
  BY <1>2 DEF OpToRel
<1> QED  BY <1>3

\* f[m] is kept of the first m elements.
Keeping(f, s, places, n) ==
    \A m \in 0 .. n :
        f[m] = IF m = 0 THEN <<>> ELSE IF m \in places THEN Append(f[m - 1], s[m]) ELSE f[m - 1]

\* The elements of kept are those of s at the places up to n, each once.
Spread(kept, s, places, n) ==
    \E g \in [1 .. Len(kept) -> 1 .. n] :
        /\ \A i \in 1 .. Len(kept) : kept[i] = s[g[i]] /\ g[i] \in places
        /\ \A i, j \in 1 .. Len(kept) : g[i] = g[j] => i = j
        /\ \A m \in 1 .. n : m \in places => \E i \in 1 .. Len(kept) : g[i] = m

\* There is one way to keep elements of a sequence.
LEMMA KeepingUnique ==
    ASSUME NEW n \in Nat, NEW s, NEW places, NEW f, NEW g,
           Keeping(f, s, places, n), Keeping(g, s, places, n)
    PROVE  f[n] = g[n]
<1> DEFINE B == {m \in 0 .. n : f[m] # g[m]}
<1>1. SUFFICES ASSUME B # {} PROVE FALSE
  OBVIOUS
<1>2. PICK m \in B : \A l \in B : m <= l
  <2>1. B \in SUBSET Nat
    OBVIOUS
  <2> HIDE DEF B
  <2> QED  BY <1>1, <2>1, LeastOf
<1>3. m \in 0 .. n /\ f[m] # g[m]
  OBVIOUS
<1>4. CASE m = 0
  BY <1>3, <1>4 DEF Keeping
<1>5. CASE m # 0
  <2>1. m - 1 \in 0 .. n /\ m - 1 < m
    BY <1>3, <1>5
  <2>2. ~(m - 1 \in B)
    BY <1>2, <2>1
  <2>3. f[m - 1] = g[m - 1]
    BY <2>1, <2>2
  <2> QED  BY <1>3, <1>5, <2>3 DEF Keeping
<1> QED  BY <1>4, <1>5

\* Nothing is kept of nothing.
LEMMA SpreadNone == ASSUME NEW s, NEW places PROVE Spread(<<>>, s, places, 0)
<1> DEFINE g == [i \in 1 .. 0 |-> 1]
<1>1. Len(<<>>) = 0
  OBVIOUS
<1>2. g \in [1 .. 0 -> 1 .. 0] /\ \A i \in 1 .. 0 : FALSE
  OBVIOUS
<1> HIDE DEF g
<1> QED  BY <1>1, <1>2 DEF Spread

\* An element of the sequence is kept at the end,
LEMMA SpreadMore ==
    ASSUME NEW S, NEW s, NEW places, NEW n \in Nat \ {0}, NEW kept \in Seq(S),
           Spread(kept, s, places, n - 1), n \in places, s[n] \in S
    PROVE  Spread(Append(kept, s[n]), s, places, n)
<1> DEFINE c == Append(kept, s[n])
           k == Len(kept)
<1>1. PICK g \in [1 .. k -> 1 .. (n - 1)] :
        /\ \A i \in 1 .. k : kept[i] = s[g[i]] /\ g[i] \in places
        /\ \A i, j \in 1 .. k : g[i] = g[j] => i = j
        /\ \A m \in 1 .. (n - 1) : m \in places => \E i \in 1 .. k : g[i] = m
  BY DEF Spread
<1>2. /\ Len(c) = k + 1 /\ k \in Nat /\ c[k + 1] = s[n]
      /\ \A i \in 1 .. k : c[i] = kept[i]
  OBVIOUS
<1> DEFINE h == [i \in 1 .. (k + 1) |-> IF i = k + 1 THEN n ELSE g[i]]
<1> HIDE DEF c, k
<1>3. h \in [1 .. (k + 1) -> 1 .. n]
  BY <1>1, <1>2
<1>4. \A i \in 1 .. (k + 1) : i = k + 1 \/ i \in 1 .. k
  BY <1>2
<1>5. h[k + 1] = n /\ \A i \in 1 .. k : h[i] = g[i] /\ h[i] \in 1 .. (n - 1)
  BY <1>1, <1>2
<1> HIDE DEF h
<1>6. \A i \in 1 .. (k + 1) : c[i] = s[h[i]] /\ h[i] \in places
  BY <1>1, <1>2, <1>4, <1>5
<1>7. \A i, j \in 1 .. (k + 1) : h[i] = h[j] => i = j
  <2>1. \A i \in 1 .. k : h[i] # n
    BY <1>5
  <2> QED  BY <1>1, <1>4, <1>5, <2>1
<1>8. ASSUME NEW m \in 1 .. n, m \in places PROVE \E i \in 1 .. (k + 1) : h[i] = m
  <2>1. CASE m = n
    <3>1. k + 1 \in 1 .. (k + 1)
      BY <1>2
    <3> QED  BY <1>5, <2>1, <3>1
  <2>2. CASE m # n
    <3>1. m \in 1 .. (n - 1)
      BY <2>2
    <3>2. PICK i \in 1 .. k : g[i] = m
      BY <1>1, <1>8, <3>1
    <3>3. i \in 1 .. (k + 1)
      BY <1>2
    <3> QED  BY <1>5, <3>2, <3>3
  <2> QED  BY <2>1, <2>2
<1>9. Spread(c, s, places, n)
  <2>1. Len(c) = k + 1
    BY <1>2
  <2>2. \A m \in 1 .. n : m \in places => \E i \in 1 .. (k + 1) : h[i] = m
    BY <1>8
  <2> QED  BY ONLY <1>3, <1>6, <1>7, <2>1, <2>2 DEF Spread
<1> QED  BY <1>9 DEF c

\* or left out.
LEMMA SpreadLess ==
    ASSUME NEW S, NEW s, NEW places, NEW n \in Nat \ {0}, NEW kept \in Seq(S),
           Spread(kept, s, places, n - 1), n \notin places
    PROVE  Spread(kept, s, places, n)
<1>1. PICK g \in [1 .. Len(kept) -> 1 .. (n - 1)] :
        /\ \A i \in 1 .. Len(kept) : kept[i] = s[g[i]] /\ g[i] \in places
        /\ \A i, j \in 1 .. Len(kept) : g[i] = g[j] => i = j
        /\ \A m \in 1 .. (n - 1) : m \in places => \E i \in 1 .. Len(kept) : g[i] = m
  BY DEF Spread
<1>2. g \in [1 .. Len(kept) -> 1 .. n]
  BY <1>1
<1>3. \A m \in 1 .. n : m \in places => m \in 1 .. (n - 1)
  OBVIOUS
<1> QED  BY <1>1, <1>2, <1>3 DEF Spread

\* There is a way to keep the elements at any places.
LEMMA KeepingExists ==
    ASSUME NEW S, NEW s \in Seq(S), NEW places
    PROVE  \E f \in [0 .. Len(s) -> Seq(S)] :
               Keeping(f, s, places, Len(s)) /\ Spread(f[Len(s)], s, places, Len(s))
<1> DEFINE G(k) == \E f \in [0 .. k -> Seq(S)] : Keeping(f, s, places, k) /\ Spread(f[k], s, places, k)
           B == {k \in 0 .. Len(s) : ~G(k)}
<1>0. Len(s) \in Nat
  OBVIOUS
<1>1. SUFFICES ASSUME B # {} PROVE FALSE
  <2>1. Len(s) \in 0 .. Len(s)
    BY <1>0
  <2> QED  BY <2>1
<1>2. B \in SUBSET Nat
  OBVIOUS
<1>3. PICK k \in B : \A m \in B : k <= m
  BY <1>1, <1>2, LeastOf
<1>4. k \in 0 .. Len(s) /\ ~G(k)
  OBVIOUS
<1>5. CASE k = 0
  <2> DEFINE e == [i \in 0 .. 0 |-> <<>>]
  <2>1. e \in [0 .. 0 -> Seq(S)] /\ Keeping(e, s, places, 0)
    BY DEF Keeping
  <2>2. e[0] = <<>>
    OBVIOUS
  <2>3. Spread(e[0], s, places, 0)
    BY <2>2, SpreadNone
  <2> QED  BY <1>4, <1>5, <2>1, <2>3
<1>6. CASE k # 0
  <2>1. k - 1 \in 0 .. Len(s) /\ k - 1 < k /\ k \in Nat \ {0} /\ k \in 1 .. Len(s)
    BY <1>4, <1>6
  <2>2. G(k - 1)
    <3>1. k - 1 \notin B
      <4>1. \A m \in B : k <= m
        BY <1>3
      <4>2. ~(k <= k - 1)
        BY <2>1
      <4> HIDE DEF B
      <4> QED  BY <4>1, <4>2
    <3> HIDE DEF G
    <3> QED  BY <2>1, <3>1
  <2>3. PICK f \in [0 .. (k - 1) -> Seq(S)] :
          Keeping(f, s, places, k - 1) /\ Spread(f[k - 1], s, places, k - 1)
    BY <2>2
  <2>4. f[k - 1] \in Seq(S) /\ s[k] \in S
    BY <2>1, <2>3
  <2> DEFINE x == IF k \in places THEN Append(f[k - 1], s[k]) ELSE f[k - 1]
             e == [i \in 0 .. k |-> IF i = k THEN x ELSE f[i]]
  <2>5. x \in Seq(S)
    BY <2>4
  <2>6. Spread(x, s, places, k)
    <3>1. CASE k \in places
      BY <2>1, <2>3, <2>4, <3>1, SpreadMore
    <3>2. CASE k \notin places
      BY <2>1, <2>3, <2>4, <3>2, SpreadLess
    <3> QED  BY <3>1, <3>2
  <2>7. k \in 0 .. k /\ \A i \in 0 .. k : i = k \/ i \in 0 .. (k - 1)
    BY <2>1
  <2>8. e[k] = x /\ \A i \in 0 .. (k - 1) : e[i] = f[i]
    BY <2>1
  <2>9. e \in [0 .. k -> Seq(S)]
    BY <2>3, <2>5, <2>7
  <2> HIDE DEF e
  <2>10. Keeping(e, s, places, k)
    <3>1. ASSUME NEW i \in 0 .. k
          PROVE  e[i] = IF i = 0 THEN <<>> ELSE IF i \in places THEN Append(e[i - 1], s[i]) ELSE e[i - 1]
      <4>1. CASE i = k
        <5>1. e[i - 1] = f[k - 1]
          BY <2>1, <2>8, <4>1
        <5> QED  BY <2>1, <2>8, <4>1, <5>1
      <4>2. CASE i # k
        <5>1. i \in 0 .. (k - 1)
          BY <2>7, <4>2
        <5>2. f[i] = IF i = 0 THEN <<>> ELSE IF i \in places THEN Append(f[i - 1], s[i]) ELSE f[i - 1]
          BY <2>3, <5>1 DEF Keeping
        <5>3. i # 0 => i - 1 \in 0 .. (k - 1)
          BY <2>1, <5>1
        <5> QED  BY <2>8, <5>1, <5>2, <5>3
      <4> QED  BY <4>1, <4>2
    <3> QED  BY <3>1 DEF Keeping
  <2>11. Spread(e[k], s, places, k)
    BY <2>6, <2>8
  <2> QED  BY <1>4, <2>9, <2>10, <2>11
<1> QED  BY <1>5, <1>6

\* What Kept leaves.
LEMMA KeptFacts ==
    ASSUME NEW S, NEW s \in Seq(S), NEW places
    PROVE  Kept(s, places) \in Seq(S) /\ Spread(Kept(s, places), s, places, Len(s))
<1> DEFINE P(f) == f = [m \in 0 .. Len(s) |->
                           IF m = 0 THEN <<>> ELSE IF m \in places THEN Append(f[m - 1], s[m]) ELSE f[m - 1]]
           h == CHOOSE f : P(f)
<1>1. Kept(s, places) = h[Len(s)]
  BY DEF Kept
<1>2. PICK g \in [0 .. Len(s) -> Seq(S)] :
        Keeping(g, s, places, Len(s)) /\ Spread(g[Len(s)], s, places, Len(s))
  BY KeepingExists
<1>3. P(g)
  BY <1>2 DEF Keeping
<1>4. P(h)
  BY <1>3
<1> HIDE DEF h
<1>5. Keeping(h, s, places, Len(s))
  BY <1>4 DEF Keeping
<1>6. Len(s) \in Nat /\ Len(s) \in 0 .. Len(s)
  OBVIOUS
<1>7. h[Len(s)] = g[Len(s)]
  BY <1>2, <1>5, <1>6, KeepingUnique
<1> QED  BY <1>1, <1>2, <1>6, <1>7

-----------------------------------------------------------------------------
(***************************************************************************)
(* The inductive invariant.                                                *)
(***************************************************************************)
Cell == [symbol : Ids \cup {Broken}, weak : BOOLEAN]
SymbolRecord ==
    [name : Names \cup {""}, value : {Unbound, Value}, plist : Seq(Props),
     permanent : BOOLEAN, keyword : BOOLEAN]

\* A bucket is weak when its symbol has nothing to lose.
Worthless(s) == ~(s.permanent \/ Persistable(s))

\* A bucket is broken, or that of a symbol that belongs into its chain.
GoodBucket(b, syms, t, k) ==
    IF b.symbol = Broken THEN b.weak
    ELSE LET s == syms[b.symbol]
         IN  /\ s.name \in Names /\ Hash[s.name] = k
             /\ s.keyword <=> t = "keyword"
             /\ b.weak <=> Worthless(s)

\* The symbols of a chain have different names.
Different(chain, syms) ==
    \A i, j \in 1 .. Len(chain) :
        /\ chain[i].symbol # Broken /\ chain[j].symbol # Broken
        /\ syms[chain[i].symbol].name = syms[chain[j].symbol].name
        => i = j
GoodChain(chain, syms, t, k) ==
    /\ \A i \in 1 .. Len(chain) : GoodBucket(chain[i], syms, t, k)
    /\ Different(chain, syms)

IsTable(tab) == tab \in [Tables -> [Keys -> Seq(Cell)]]
GoodTable(tab, syms) == \A t \in Tables, k \in Keys : GoodChain(tab[t][k], syms, t, k)

\* The symbols of a chain, and those of a table.
Members(chain) == {chain[i].symbol : i \in 1 .. Len(chain)} \ {Broken}
Inside(tab, t) == UNION {Members(tab[t][k]) : k \in Keys}

\* The table of symbols knows what the program has set.
Remembered(tab, syms, set, put) ==
    \A name \in Names :
        /\ name \in set <=> \E id \in Inside(tab, "symbol") : syms[id].name = name /\ syms[id].value # Unbound
        /\ \A p \in Props : <<name, p>> \in put <=>
               \E id \in Inside(tab, "symbol") : syms[id].name = name /\ p \in ToSet(syms[id].plist)

SymbolTypes ==
    /\ IsTable(table) /\ symbol \in [Ids -> SymbolRecord]
    /\ refs \in SUBSET Ids /\ literals \in SUBSET Ids /\ young \in SUBSET Ids
    /\ interned \in [Ids -> Tables \cup {"none"}]

\* What the program got by interning a name is in the table.
HeldInside ==
    \A id \in refs \cup literals : \A t \in Tables : interned[id] = t <=> id \in Inside(table, t)

SymbolInv ==
    /\ SymbolTypes
    /\ GoodTable(table, symbol)
    /\ HeldInside
    /\ Remembered(table, symbol, bound, given)

-----------------------------------------------------------------------------
(***************************************************************************)
(* Chains.                                                                 *)
(***************************************************************************)

\* A chain that has lost broken buckets is as good as it was.
LEMMA KeptChain ==
    ASSUME NEW chain \in Seq(Cell), NEW places, Unbroken(chain) \subseteq places
    PROVE  /\ Kept(chain, places) \in Seq(Cell)
           /\ Members(Kept(chain, places)) = Members(chain)
           /\ \A syms, t, k : GoodChain(chain, syms, t, k) => GoodChain(Kept(chain, places), syms, t, k)
<1>1. Kept(chain, places) \in Seq(Cell) /\ Spread(Kept(chain, places), chain, places, Len(chain))
  BY KeptFacts
<1>2. PICK c \in Seq(Cell) : c = Kept(chain, places)
  BY <1>1
<1>3. PICK g \in [1 .. Len(c) -> 1 .. Len(chain)] :
        /\ \A i \in 1 .. Len(c) : c[i] = chain[g[i]] /\ g[i] \in places
        /\ \A i, j \in 1 .. Len(c) : g[i] = g[j] => i = j
        /\ \A m \in 1 .. Len(chain) : m \in places => \E i \in 1 .. Len(c) : g[i] = m
  BY <1>1, <1>2 DEF Spread
<1>4. Members(c) = Members(chain)
  <2>1. ASSUME NEW i \in 1 .. Len(c) PROVE \E m \in 1 .. Len(chain) : c[i].symbol = chain[m].symbol
    BY <1>3
  <2>2. ASSUME NEW m \in 1 .. Len(chain), chain[m].symbol # Broken
        PROVE  \E i \in 1 .. Len(c) : chain[m].symbol = c[i].symbol
    <3>1. m \in places
      <4>1. m \in DOMAIN chain
        OBVIOUS
      <4> QED  BY <2>2, <4>1 DEF Unbroken
    <3> QED  BY <1>3, <3>1
  <2> QED  BY <2>1, <2>2 DEF Members
<1>5. ASSUME NEW syms, NEW t, NEW k, GoodChain(chain, syms, t, k)
      PROVE  GoodChain(c, syms, t, k)
  <2>1. \A i \in 1 .. Len(c) : GoodBucket(c[i], syms, t, k)
    BY <1>3, <1>5 DEF GoodChain
  <2>2. ASSUME NEW i \in 1 .. Len(c), NEW j \in 1 .. Len(c),
               c[i].symbol # Broken, c[j].symbol # Broken,
               syms[c[i].symbol].name = syms[c[j].symbol].name
        PROVE  i = j
    <3>1. c[i] = chain[g[i]] /\ c[j] = chain[g[j]] /\ g[i] \in 1 .. Len(chain) /\ g[j] \in 1 .. Len(chain)
      BY <1>3
    <3>2. g[i] = g[j]
      BY <1>5, <2>2, <3>1 DEF GoodChain, Different
    <3> QED  BY <1>3, <3>2
  <2> QED  BY <2>1, <2>2 DEF GoodChain, Different
<1> QED  BY <1>1, <1>2, <1>4, <1>5

\* The symbols X have come into a chain.
Gained(chain, old, X) == Members(chain) = Members(old) \cup X

\* A chain is put in the place of another one.
Put(tab2, tab, t, k, chain) == tab2 = [tab EXCEPT ![t][k] = chain]

\* What is in a table when one of its chains has got the symbols X.
LEMMA LinkedTable ==
    ASSUME NEW tab, IsTable(tab), NEW t \in Tables, NEW k \in Keys, NEW chain \in Seq(Cell), NEW X,
           NEW tab2, Put(tab2, tab, t, k, chain), Gained(chain, tab[t][k], X)
    PROVE  /\ IsTable(tab2) /\ Inside(tab2, t) = Inside(tab, t) \cup X
           /\ \A u \in Tables : u # t => Inside(tab2, u) = Inside(tab, u)
<1>1. tab \in [Tables -> [Keys -> Seq(Cell)]] /\ tab2 = [tab EXCEPT ![t][k] = chain]
  BY DEF IsTable, Put
<1>2. tab2 \in [Tables -> [Keys -> Seq(Cell)]]
  BY <1>1
<1>3. /\ tab2[t][k] = chain
      /\ \A u \in Tables, l \in Keys : ~(u = t /\ l = k) => tab2[u][l] = tab[u][l]
  BY <1>1
<1>4. \A u \in Tables : u # t => Inside(tab2, u) = Inside(tab, u)
  BY <1>3 DEF Inside
<1>5. Inside(tab2, t) = Inside(tab, t) \cup X
  <2>1. \A l \in Keys : l # k => Members(tab2[t][l]) = Members(tab[t][l])
    BY <1>3
  <2>2. Members(tab2[t][k]) = Members(tab[t][k]) \cup X
    BY <1>3 DEF Gained
  <2> HIDE DEF Members
  <2> QED  BY <2>1, <2>2 DEF Inside
<1>6. IsTable(tab2)
  BY <1>2 DEF IsTable
<1> QED  BY <1>4, <1>5, <1>6

\* A good chain in the place of another one leaves the table good.
LEMMA LinkedGood ==
    ASSUME NEW tab, IsTable(tab), NEW t \in Tables, NEW k \in Keys, NEW chain \in Seq(Cell), NEW syms,
           GoodTable(tab, syms), GoodChain(chain, syms, t, k),
           NEW tab2, Put(tab2, tab, t, k, chain)
    PROVE  GoodTable(tab2, syms)
<1>1. tab \in [Tables -> [Keys -> Seq(Cell)]] /\ tab2 = [tab EXCEPT ![t][k] = chain]
  BY DEF IsTable, Put
<1>2. /\ tab2[t][k] = chain
      /\ \A u \in Tables, l \in Keys : ~(u = t /\ l = k) => tab2[u][l] = tab[u][l]
  BY <1>1
<1> QED  BY <1>2 DEF GoodTable

\* A member of a table is in a chain, that of its name.
LEMMA InsideAt ==
    ASSUME NEW tab, IsTable(tab), NEW syms, GoodTable(tab, syms), NEW t \in Tables, NEW id \in Inside(tab, t)
    PROVE  /\ id \in Ids /\ id # Broken
           /\ syms[id].name \in Names /\ Hash[syms[id].name] \in Keys
           /\ syms[id].keyword <=> t = "keyword"
           /\ LET chain == tab[t][Hash[syms[id].name]]
              IN  \E i \in 1 .. Len(chain) : chain[i].symbol = id /\ (chain[i].weak <=> Worthless(syms[id]))
<1>1. PICK k \in Keys : id \in Members(tab[t][k])
  BY DEF Inside
<1>2. PICK chain \in Seq(Cell) : chain = tab[t][k]
  BY DEF IsTable
<1>3. PICK i \in 1 .. Len(chain) : chain[i].symbol = id /\ id # Broken
  BY <1>1, <1>2 DEF Members
<1>4. chain[i] \in Cell
  BY <1>3
<1>5. GoodBucket(chain[i], syms, t, k)
  BY <1>2 DEF GoodTable, GoodChain
<1>6. /\ syms[id].name \in Names /\ Hash[syms[id].name] = k
      /\ syms[id].keyword <=> t = "keyword"
      /\ chain[i].weak <=> Worthless(syms[id])
  BY <1>3, <1>5 DEF GoodBucket
<1> QED  BY <1>2, <1>3, <1>4, <1>6 DEF Cell

\* What is in a chain is in the table.
LEMMA AtInside ==
    ASSUME NEW tab, NEW t \in Tables, NEW k \in Keys,
           NEW i \in 1 .. Len(tab[t][k]), tab[t][k][i].symbol # Broken
    PROVE  tab[t][k][i].symbol \in Inside(tab, t)
<1>1. tab[t][k][i].symbol \in Members(tab[t][k])
  BY DEF Members
<1> QED  BY <1>1 DEF Inside

\* A table has one symbol of a name, and a symbol is in one table.
LEMMA InsideOnce ==
    ASSUME NEW tab, IsTable(tab), NEW syms, GoodTable(tab, syms), NEW t \in Tables, NEW id \in Inside(tab, t)
    PROVE  /\ \A other \in Inside(tab, t) : syms[other].name = syms[id].name => other = id
           /\ \A u \in Tables : id \in Inside(tab, u) => u = t
<1>1. ASSUME NEW other \in Inside(tab, t), syms[other].name = syms[id].name PROVE other = id
  <2>1. PICK k \in Keys : k = Hash[syms[id].name]
    BY InsideAt
  <2>2. PICK i \in 1 .. Len(tab[t][k]) : tab[t][k][i].symbol = id
    BY <2>1, InsideAt
  <2>3. PICK j \in 1 .. Len(tab[t][k]) : tab[t][k][j].symbol = other
    <3> DEFINE d == tab[t][Hash[syms[other].name]]
    <3>1. \E j \in 1 .. Len(d) : d[j].symbol = other
      BY InsideAt
    <3>2. d = tab[t][k]
      BY <1>1, <2>1
    <3> HIDE DEF d
    <3> QED  BY ONLY <3>1, <3>2
  <2>4. id # Broken /\ other # Broken
    BY InsideAt
  <2>5. Different(tab[t][k], syms)
    BY DEF GoodTable, GoodChain
  <2> QED  BY <1>1, <2>2, <2>3, <2>4, <2>5 DEF Different
<1>2. ASSUME NEW u \in Tables, id \in Inside(tab, u) PROVE u = t
  <2>1. syms[id].keyword <=> t = "keyword"
    BY InsideAt
  <2>2. syms[id].keyword <=> u = "keyword"
    BY <1>2, InsideAt
  <2> QED  BY <2>1, <2>2 DEF Tables
<1> QED  BY <1>1, <1>2

-----------------------------------------------------------------------------
(***************************************************************************)
(* Symbols that are made, changed and thrown away.                         *)
(***************************************************************************)

\* None of S is in a table, and other symbols are as they were.
Elsewhere(S, tab) == \A t \in Tables : S \cap Inside(tab, t) = {}
Alike(new, syms, S) == \A id \in Ids : id \notin S => new[id] = syms[id]

\* What is not in the tables can become another symbol.
LEMMA ElsewhereGood ==
    ASSUME NEW tab, IsTable(tab), NEW syms \in [Ids -> SymbolRecord], GoodTable(tab, syms),
           NEW S, NEW new, Elsewhere(S, tab), Alike(new, syms, S)
    PROVE  GoodTable(tab, new)
<1>1. SUFFICES ASSUME NEW t \in Tables, NEW k \in Keys PROVE GoodChain(tab[t][k], new, t, k)
  BY DEF GoodTable
<1>2. PICK chain \in Seq(Cell) : chain = tab[t][k]
  BY DEF IsTable
<1>3. ASSUME NEW i \in 1 .. Len(chain), chain[i].symbol # Broken
      PROVE  new[chain[i].symbol] = syms[chain[i].symbol]
  <2>1. chain[i].symbol \in Inside(tab, t)
    BY <1>2, <1>3, AtInside
  <2>2. chain[i].symbol \in Ids
    <3>1. chain[i] \in Cell
      OBVIOUS
    <3> QED  BY <1>3, <3>1 DEF Cell
  <2> QED  BY <2>1, <2>2 DEF Elsewhere, Alike
<1>4. GoodChain(chain, syms, t, k)
  BY <1>2 DEF GoodTable
<1>5. \A i \in 1 .. Len(chain) : GoodBucket(chain[i], new, t, k)
  BY <1>3, <1>4 DEF GoodChain, GoodBucket
<1>6. Different(chain, new)
  BY <1>3, <1>4 DEF GoodChain, Different
<1> QED  BY <1>2, <1>5, <1>6 DEF GoodChain

\* The bucket of a new symbol goes to the front of a chain without its name.
LEMMA AddedChain ==
    ASSUME NEW chain \in Seq(Cell), NEW syms, NEW t, NEW k, GoodChain(chain, syms, t, k),
           NEW id \in Ids, NEW w \in BOOLEAN,
           syms[id].name \in Names, Hash[syms[id].name] = k,
           syms[id].keyword <=> t = "keyword", w <=> Worthless(syms[id]),
           \A i \in 1 .. Len(chain) : chain[i].symbol # Broken => syms[chain[i].symbol].name # syms[id].name
    PROVE  LET c == <<Bucket(id, w)>> \o chain
           IN  c \in Seq(Cell) /\ Members(c) = Members(chain) \cup {id} /\ GoodChain(c, syms, t, k)
<1> DEFINE b == Bucket(id, w)
           c == <<b>> \o chain
<1>1. b \in Cell /\ b.symbol = id /\ b.weak = w /\ id # Broken
  BY DEF Bucket, Cell, Ids, Broken
<1> HIDE DEF b
<1>2. /\ c \in Seq(Cell) /\ Len(c) = Len(chain) + 1 /\ c[1] = b
      /\ \A i \in 1 .. Len(chain) : c[i + 1] = chain[i]
  BY <1>1
<1>3. Len(chain) \in Nat /\ \A i \in 1 .. Len(c) : i = 1 \/ (i - 1 \in 1 .. Len(chain) /\ c[i] = chain[i - 1])
  BY <1>2
<1> HIDE DEF c
<1>4. Members(c) = Members(chain) \cup {id}
  <2>1. ASSUME NEW i \in 1 .. Len(c) PROVE c[i].symbol = id \/ \E m \in 1 .. Len(chain) : c[i].symbol = chain[m].symbol
    BY <1>1, <1>2, <1>3
  <2>2. ASSUME NEW m \in 1 .. Len(chain) PROVE \E i \in 1 .. Len(c) : chain[m].symbol = c[i].symbol
    <3>1. m + 1 \in 1 .. Len(c)
      BY <1>2, <1>3
    <3> QED  BY <1>2, <3>1
  <2>3. 1 \in 1 .. Len(c) /\ c[1].symbol = id
    BY <1>1, <1>2, <1>3
  <2>4. Members(c) \subseteq Members(chain) \cup {id}
    BY <2>1 DEF Members
  <2>5. Members(chain) \subseteq Members(c)
    BY <2>2 DEF Members
  <2>6. id \in Members(c)
    BY <1>1, <2>3 DEF Members
  <2> QED  BY <2>4, <2>5, <2>6
<1>5. GoodBucket(b, syms, t, k)
  BY <1>1 DEF GoodBucket
<1>6. \A i \in 1 .. Len(c) : GoodBucket(c[i], syms, t, k)
  BY <1>2, <1>3, <1>5 DEF GoodChain
<1>7. ASSUME NEW i \in 1 .. Len(c), NEW j \in 1 .. Len(c), c[i].symbol # Broken, c[j].symbol # Broken,
             syms[c[i].symbol].name = syms[c[j].symbol].name
      PROVE  i = j
  <2>1. CASE i = 1 /\ j = 1
    BY <2>1
  <2>2. CASE i = 1 /\ j # 1
    <3>1. j - 1 \in 1 .. Len(chain) /\ c[j] = chain[j - 1] /\ c[i] = b
      BY <1>2, <1>3, <2>2
    <3> QED  BY <1>1, <1>7, <3>1
  <2>3. CASE i # 1 /\ j = 1
    <3>1. i - 1 \in 1 .. Len(chain) /\ c[i] = chain[i - 1] /\ c[j] = b
      BY <1>2, <1>3, <2>3
    <3> QED  BY <1>1, <1>7, <3>1
  <2>4. CASE i # 1 /\ j # 1
    <3>1. i - 1 \in 1 .. Len(chain) /\ c[i] = chain[i - 1] /\ j - 1 \in 1 .. Len(chain) /\ c[j] = chain[j - 1]
      BY <1>3, <2>4
    <3>2. i - 1 = j - 1
      BY <1>7, <3>1 DEF GoodChain, Different
    <3> QED  BY <3>2
  <2> QED  BY <2>1, <2>2, <2>3, <2>4
<1>8. GoodChain(c, syms, t, k)
  BY <1>6, <1>7 DEF GoodChain, Different
<1> QED  BY <1>2, <1>4, <1>8 DEF c, b

\* The buckets of one symbol are all weak or all strong.
Reweighed(tab, tab2, id, w) ==
    \A t \in Tables, k \in Keys :
        /\ Len(tab2[t][k]) = Len(tab[t][k])
        /\ \A i \in 1 .. Len(tab[t][k]) :
               tab2[t][k][i] = IF tab[t][k][i].symbol = id THEN Bucket(id, w) ELSE tab[t][k][i]

\* What can lose something is held as strongly as it has to be.
LEMMA RewrittenGood ==
    ASSUME NEW tab, IsTable(tab), NEW tab2, IsTable(tab2),
           NEW syms \in [Ids -> SymbolRecord], GoodTable(tab, syms), NEW id \in Ids, NEW s,
           s.name = syms[id].name, s.keyword = syms[id].keyword,
           NEW w \in BOOLEAN, w <=> Worthless(s), Reweighed(tab, tab2, id, w)
    PROVE  /\ GoodTable(tab2, [syms EXCEPT ![id] = s])
           /\ \A t \in Tables : Inside(tab2, t) = Inside(tab, t)
<1> DEFINE new == [syms EXCEPT ![id] = s]
<1>0. id # Broken
  BY DEF Ids, Broken
<1>1. new[id] = s /\ \A o \in Ids : o # id => new[o] = syms[o]
  OBVIOUS
<1> HIDE DEF new
<1>2. ASSUME NEW t \in Tables, NEW k \in Keys
      PROVE  GoodChain(tab2[t][k], new, t, k) /\ Members(tab2[t][k]) = Members(tab[t][k])
  <2>1. PICK c \in Seq(Cell) : c = tab[t][k]
    BY DEF IsTable
  <2>2. PICK d \in Seq(Cell) : d = tab2[t][k]
    BY DEF IsTable
  <2>3. Len(d) = Len(c) /\ \A i \in 1 .. Len(c) : d[i] = IF c[i].symbol = id THEN Bucket(id, w) ELSE c[i]
    BY <2>1, <2>2 DEF Reweighed
  <2>4. Bucket(id, w).symbol = id /\ Bucket(id, w).weak = w
    BY DEF Bucket
  <2>5. \A i \in 1 .. Len(c) : d[i].symbol = c[i].symbol /\ (c[i].symbol = id => d[i].weak = w)
    BY <2>3, <2>4
  <2>6. ASSUME NEW i \in 1 .. Len(c) PROVE c[i].symbol \in Ids \cup {Broken}
    <3>1. c[i] \in Cell
      OBVIOUS
    <3> QED  BY <3>1 DEF Cell
  <2>7. \A i \in 1 .. Len(c) : c[i].symbol # Broken =>
            /\ new[c[i].symbol].name = syms[c[i].symbol].name
            /\ new[c[i].symbol].keyword = syms[c[i].symbol].keyword
    BY <1>1, <2>6
  <2>8. Members(d) = Members(c)
    BY <2>3, <2>5 DEF Members
  <2>9. (\A i \in 1 .. Len(c) : GoodBucket(c[i], syms, t, k)) /\ Different(c, syms)
    BY <2>1 DEF GoodTable, GoodChain
  <2>10. ASSUME NEW i \in 1 .. Len(d) PROVE GoodBucket(d[i], new, t, k)
    <3>1. i \in 1 .. Len(c) /\ GoodBucket(c[i], syms, t, k)
      BY <2>3, <2>9
    <3>2. CASE c[i].symbol = id
      BY <1>0, <1>1, <2>4, <2>3, <3>1, <3>2 DEF GoodBucket
    <3>3. CASE c[i].symbol # id
      BY <1>1, <2>3, <2>6, <3>1, <3>3 DEF GoodBucket
    <3> QED  BY <3>2, <3>3
  <2>11. Different(d, new)
    BY <2>3, <2>5, <2>7, <2>9 DEF Different
  <2> QED  BY <2>1, <2>2, <2>8, <2>10, <2>11 DEF GoodChain
<1>3. GoodTable(tab2, new)
  BY <1>2 DEF GoodTable
<1>4. \A t \in Tables : Inside(tab2, t) = Inside(tab, t)
  BY <1>2 DEF Inside
<1> QED  BY <1>3, <1>4 DEF new

\* What a table is when all buckets of a symbol are made weak or strong.
Reweigh(tab, id, w) ==
    [t \in Tables |-> [k \in Keys |-> [i \in DOMAIN tab[t][k] |->
        IF tab[t][k][i].symbol = id THEN Bucket(id, w) ELSE tab[t][k][i]]]]

\* That is a table.
LEMMA ReweighFacts ==
    ASSUME NEW tab, IsTable(tab), NEW id \in Ids, NEW w \in BOOLEAN
    PROVE  IsTable(Reweigh(tab, id, w)) /\ Reweighed(tab, Reweigh(tab, id, w), id, w)
<1>1. Bucket(id, w) \in Cell
  BY DEF Bucket, Cell
<1>2. ASSUME NEW t \in Tables, NEW k \in Keys
      PROVE  LET c == tab[t][k]
                 d == [i \in DOMAIN c |-> IF c[i].symbol = id THEN Bucket(id, w) ELSE c[i]]
             IN  d \in Seq(Cell) /\ Len(d) = Len(c)
                 /\ \A i \in 1 .. Len(c) : d[i] = IF c[i].symbol = id THEN Bucket(id, w) ELSE c[i]
  <2>1. PICK c \in Seq(Cell) : c = tab[t][k]
    BY DEF IsTable
  <2>2. DOMAIN c = 1 .. Len(c) /\ Len(c) \in Nat /\ \A i \in 1 .. Len(c) : c[i] \in Cell
    OBVIOUS
  <2> DEFINE d == [i \in 1 .. Len(c) |-> IF c[i].symbol = id THEN Bucket(id, w) ELSE c[i]]
  <2>3. d \in [1 .. Len(c) -> Cell]
    BY <1>1, <2>2
  <2>4. d \in Seq(Cell) /\ Len(d) = Len(c)
    BY <2>2, <2>3
  <2> QED  BY <2>1, <2>2, <2>4
<1>3. Reweigh(tab, id, w) \in [Tables -> [Keys -> Seq(Cell)]]
  BY <1>2 DEF Reweigh
<1>4. Reweighed(tab, Reweigh(tab, id, w), id, w)
  BY <1>2 DEF Reweigh, Reweighed
<1> QED  BY <1>3, <1>4 DEF IsTable

\* A symbol that has as much to lose as before needs no other buckets.
LEMMA ReweighedSame ==
    ASSUME NEW tab, IsTable(tab), NEW syms, GoodTable(tab, syms), NEW id \in Ids,
           NEW w \in BOOLEAN, w <=> Worthless(syms[id])
    PROVE  Reweighed(tab, tab, id, w)
<1>1. SUFFICES ASSUME NEW t \in Tables, NEW k \in Keys, NEW i \in 1 .. Len(tab[t][k]), tab[t][k][i].symbol = id
               PROVE  tab[t][k][i] = Bucket(id, w)
  BY DEF Reweighed
<1>2. tab[t][k][i] \in Cell /\ id # Broken
  BY DEF IsTable, Ids, Broken
<1>3. GoodBucket(tab[t][k][i], syms, t, k)
  BY DEF GoodTable, GoodChain
<1>4. tab[t][k][i].weak <=> w
  BY <1>1, <1>2, <1>3 DEF GoodBucket
<1> QED  BY <1>1, <1>2, <1>4 DEF Cell, Bucket

-----------------------------------------------------------------------------
(***************************************************************************)
(* Looking up a name.                                                      *)
(***************************************************************************)

\* The first hit is found, and broken buckets go.
LEMMA FoundFacts ==
    ASSUME NEW chain \in Seq(Cell), NEW name
    PROVE  LET found == Found(chain, name)
           IN  /\ found.chain \in Seq(Cell) /\ Members(found.chain) = Members(chain)
               /\ \A syms, t, k : GoodChain(chain, syms, t, k) => GoodChain(found.chain, syms, t, k)
               /\ Hits(chain, name) = {} => found.symbol = Broken
               /\ Hits(chain, name) # {} => \E i \in Hits(chain, name) : found.symbol = chain[i].symbol
<1> DEFINE hits == Hits(chain, name)
           at == IF hits = {} THEN Len(chain) + 1 ELSE CHOOSE i \in hits : \A j \in hits : i <= j
           places == Unbroken(chain) \cup at .. Len(chain)
           rest == Kept(chain, places)
           first == IF at > Len(chain) THEN Broken ELSE chain[at].symbol
<1>1. Found(chain, name) = [symbol |-> first, chain |-> rest]
  BY DEF Found
<1>2. hits \in SUBSET Nat /\ \A i \in hits : i <= Len(chain)
  BY DEF Hits
<1>3. hits = {} => first = Broken
  <2>1. Len(chain) \in Nat
    OBVIOUS
  <2> HIDE DEF hits
  <2> QED  BY <2>1
<1>4. hits # {} => \E i \in hits : first = chain[i].symbol
  <2>1. SUFFICES ASSUME hits # {} PROVE \E i \in hits : first = chain[i].symbol
    OBVIOUS
  <2> HIDE DEF hits
  <2>2. \E i \in hits : \A j \in hits : i <= j
    BY <1>2, <2>1, LeastOf
  <2>3. at \in hits
    BY <2>1, <2>2
  <2>4. ~(at > Len(chain))
    <3> HIDE DEF at
    <3>1. Len(chain) \in Nat /\ at \in Nat /\ at <= Len(chain)
      BY <1>2, <2>3
    <3> QED  BY <3>1
  <2> HIDE DEF at
  <2> QED  BY <2>3, <2>4
<1>5. Unbroken(chain) \subseteq places
  OBVIOUS
<1> HIDE DEF places, first, hits
<1>6. /\ rest \in Seq(Cell) /\ Members(rest) = Members(chain)
      /\ \A syms, t, k : GoodChain(chain, syms, t, k) => GoodChain(rest, syms, t, k)
  BY <1>5, KeptChain
<1> HIDE DEF rest
<1> QED  BY <1>1, <1>3, <1>4, <1>6 DEF hits

\* What a lookup finds is the symbol of the name in the table.
LEMMA LookupFacts ==
    ASSUME SymbolTypes, GoodTable(table, symbol), NEW t \in Tables, NEW name \in Names
    PROVE  LET found == Lookup(t, name)
           IN  /\ Hash[name] \in Keys /\ found.chain \in Seq(Cell)
               /\ Members(found.chain) = Members(table[t][Hash[name]])
               /\ GoodChain(found.chain, symbol, t, Hash[name])
               /\ found.symbol = Broken => \A id \in Inside(table, t) : symbol[id].name # name
               /\ found.symbol # Broken => found.symbol \in Inside(table, t) /\ symbol[found.symbol].name = name
<1>1. PICK k \in Keys : k = Hash[name]
  BY DEF Keys
<1>2. IsTable(table)
  BY DEF SymbolTypes
<1>3. PICK chain \in Seq(Cell) : chain = table[t][k]
  BY <1>2 DEF IsTable
<1>4. Lookup(t, name) = Found(chain, name)
  BY <1>1, <1>3 DEF Lookup, Chain
<1>5. GoodChain(chain, symbol, t, k)
  BY <1>3 DEF GoodTable
<1> DEFINE found == Found(chain, name)
<1>6. /\ found.chain \in Seq(Cell) /\ Members(found.chain) = Members(chain)
      /\ \A syms, u, l : GoodChain(chain, syms, u, l) => GoodChain(found.chain, syms, u, l)
      /\ Hits(chain, name) = {} => found.symbol = Broken
      /\ Hits(chain, name) # {} => \E i \in Hits(chain, name) : found.symbol = chain[i].symbol
  BY FoundFacts
<1>7. GoodChain(found.chain, symbol, t, k)
  BY <1>5, <1>6
<1> HIDE DEF found
<1>8. Hits(chain, name) # {} => found.symbol # Broken /\ found.symbol \in Inside(table, t) /\ symbol[found.symbol].name = name
  <2>1. SUFFICES ASSUME NEW i \in Hits(chain, name), found.symbol = chain[i].symbol
                 PROVE  found.symbol # Broken /\ found.symbol \in Inside(table, t) /\ symbol[found.symbol].name = name
    BY <1>6
  <2>2. i \in 1 .. Len(chain) /\ chain[i].symbol # Broken /\ symbol[chain[i].symbol].name = name
    BY DEF Hits
  <2> QED  BY <1>3, <2>1, <2>2, AtInside
<1>9. ASSUME Hits(chain, name) = {}, NEW id \in Inside(table, t), symbol[id].name = name PROVE FALSE
  <2>1. PICK i \in 1 .. Len(chain) : chain[i].symbol = id /\ id # Broken
    BY <1>1, <1>2, <1>3, <1>9, InsideAt
  <2>2. i \in Hits(chain, name)
    BY <1>9, <2>1 DEF Hits
  <2> QED  BY <1>9, <2>2
<1>10. /\ found.symbol = Broken => \A id \in Inside(table, t) : symbol[id].name # name
       /\ found.symbol # Broken => found.symbol \in Inside(table, t) /\ symbol[found.symbol].name = name
  BY <1>6, <1>8, <1>9
<1> QED  BY <1>1, <1>3, <1>4, <1>6, <1>7, <1>10 DEF found

\* A lookup leaves the symbols where they are.
LEMMA LookupTable ==
    ASSUME SymbolTypes, GoodTable(table, symbol), NEW t \in Tables, NEW name \in Names
    PROVE  LET tab == Linked(t, name, Lookup(t, name).chain)
           IN  /\ IsTable(tab) /\ GoodTable(tab, symbol)
               /\ \A u \in Tables : Inside(tab, u) = Inside(table, u)
<1>1. PICK k \in Keys : k = Hash[name]
  BY LookupFacts
<1>2. PICK chain \in Seq(Cell) :
        /\ chain = Lookup(t, name).chain
        /\ Members(chain) = Members(table[t][k]) /\ GoodChain(chain, symbol, t, k)
  BY <1>1, LookupFacts
<1>3. PICK tab : tab = Linked(t, name, chain)
  OBVIOUS
<1>4. IsTable(table) /\ Put(tab, table, t, k, chain)
  BY <1>1, <1>3 DEF SymbolTypes, Put, Linked
<1>5. PICK X : X = {}
  OBVIOUS
<1>6. Gained(chain, table[t][k], X)
  BY <1>2, <1>5 DEF Gained
<1>7. /\ IsTable(tab) /\ Inside(tab, t) = Inside(table, t) \cup X
      /\ \A u \in Tables : u # t => Inside(tab, u) = Inside(table, u)
  BY <1>4, <1>6, LinkedTable
<1>8. GoodTable(tab, symbol)
  BY <1>2, <1>4, LinkedGood
<1>9. \A u \in Tables : Inside(tab, u) = Inside(table, u)
  BY <1>5, <1>7
<1> QED  BY <1>2, <1>3, <1>7, <1>8, <1>9

\* A free number is that of nobody.
LEMMA FreeIsElsewhere ==
    ASSUME SymbolTypes, NEW id \in Free
    PROVE  id \in Ids /\ id \notin refs /\ id \notin literals /\ \A t \in Tables : id \notin Inside(table, t)
<1>1. id \in Ids /\ id \notin InUse /\ id \notin Known
  BY DEF Free
<1>2. ASSUME NEW t \in Tables, id \in Inside(table, t) PROVE FALSE
  <2>1. PICK k \in Keys : id \in Members(table[t][k])
    BY <1>2 DEF Inside
  <2>2. PICK i \in DOMAIN table[t][k] : table[t][k][i].symbol = id /\ id # Broken
    <3>1. PICK chain \in Seq(Cell) : chain = table[t][k]
      BY DEF SymbolTypes, IsTable
    <3> QED  BY <2>1, <3>1 DEF Members
  <2>3. table[t][k][i] \in ToSet(table[t][k])
    BY DEF ToSet
  <2>4. table[t][k][i] \in Buckets
    BY <2>3 DEF Buckets
  <2>5. id \in Known
    BY <2>2, <2>4 DEF Known
  <2> QED  BY <1>1, <2>5
<1> QED  BY <1>1, <1>2 DEF InUse

-----------------------------------------------------------------------------
(***************************************************************************)
(* Steps that look up a name, and those that make a symbol.                *)
(***************************************************************************)

\* The tables know as much when what they hold has the same values and properties.
LEMMA RememberedSame ==
    ASSUME NEW tab, NEW tab2, NEW syms, NEW new, NEW set, NEW put, Remembered(tab, syms, set, put),
           Inside(tab2, "symbol") = Inside(tab, "symbol"),
           \A id \in Inside(tab, "symbol") :
               /\ new[id].name = syms[id].name /\ new[id].value = syms[id].value
               /\ new[id].plist = syms[id].plist
    PROVE  Remembered(tab2, new, set, put)
<1>1. SUFFICES ASSUME NEW name \in Names
               PROVE  /\ name \in set <=> \E id \in Inside(tab2, "symbol") :
                             new[id].name = name /\ new[id].value # Unbound
                      /\ \A p \in Props : <<name, p>> \in put <=>
                             \E id \in Inside(tab2, "symbol") : new[id].name = name /\ p \in ToSet(new[id].plist)
  BY DEF Remembered
<1>2. /\ name \in set <=> \E id \in Inside(tab, "symbol") : syms[id].name = name /\ syms[id].value # Unbound
      /\ \A p \in Props : <<name, p>> \in put <=>
             \E id \in Inside(tab, "symbol") : syms[id].name = name /\ p \in ToSet(syms[id].plist)
  BY DEF Remembered
<1>3. \A id \in Inside(tab, "symbol") : \A p : p \in ToSet(new[id].plist) <=> p \in ToSet(syms[id].plist)
  OBVIOUS
<1> QED  BY <1>2, <1>3

\* A symbol that was made is in the table, and has nothing yet.
LEMMA AddedFacts ==
    ASSUME SymbolInv, NEW t \in Tables, NEW name \in Names, Lookup(t, name).symbol = Broken,
           NEW id \in Free, NEW permanent \in BOOLEAN, Added(t, name, Lookup(t, name).chain, id, permanent)
    PROVE  /\ IsTable(table') /\ symbol' \in [Ids -> SymbolRecord] /\ GoodTable(table', symbol')
           /\ Inside(table', t) = Inside(table, t) \cup {id}
           /\ \A u \in Tables : u # t => Inside(table', u) = Inside(table, u)
           /\ Remembered(table', symbol', bound, given)
<1>0. SymbolTypes /\ GoodTable(table, symbol) /\ Remembered(table, symbol, bound, given)
  BY DEF SymbolInv
<1>1. id \in Ids /\ \A u \in Tables : id \notin Inside(table, u)
  BY <1>0, FreeIsElsewhere
<1>2. PICK k \in Keys : k = Hash[name]
  BY <1>0, LookupFacts
<1>3. PICK chain \in Seq(Cell) :
        chain = Lookup(t, name).chain /\ \A o \in Inside(table, t) : symbol[o].name # name
  BY <1>0, LookupFacts
<1>4. PICK tab : tab = Linked(t, name, chain)
  OBVIOUS
<1>5. IsTable(tab) /\ GoodTable(tab, symbol) /\ \A u \in Tables : Inside(tab, u) = Inside(table, u)
  BY <1>0, <1>3, <1>4, LookupTable
<1>6. table \in [Tables -> [Keys -> Seq(Cell)]] /\ tab = [table EXCEPT ![t][k] = chain] /\ tab[t][k] = chain
  BY <1>0, <1>2, <1>4 DEF SymbolTypes, IsTable, Linked
<1> DEFINE s == [name |-> name, permanent |-> permanent, keyword |-> t = "keyword",
                 value |-> Unbound, plist |-> <<>>]
<1>7. PICK new : new = [symbol EXCEPT ![id] = s] /\ new = symbol'
  BY <1>3 DEF Added
<1>8. s \in SymbolRecord /\ s.plist = <<>>
  <2>1. <<>> \in Seq(Props) /\ (t = "keyword") \in BOOLEAN
    OBVIOUS
  <2> QED  BY <2>1 DEF SymbolRecord
<1>9. (~permanent) <=> Worthless(s)
  BY DEF Worthless, Persistable
<1>10. s.name = name /\ (s.keyword <=> t = "keyword") /\ s.value = Unbound
  OBVIOUS
<1> HIDE DEF s
<1>11. new \in [Ids -> SymbolRecord] /\ new[id] = s /\ \A o \in Ids : o # id => new[o] = symbol[o]
  BY <1>0, <1>1, <1>7, <1>8 DEF SymbolTypes
<1>12. GoodTable(tab, new)
  <2>1. PICK S : S = {id}
    OBVIOUS
  <2>2. symbol \in [Ids -> SymbolRecord] /\ Alike(new, symbol, S)
    BY <1>0, <1>11, <2>1 DEF SymbolTypes, Alike
  <2>3. Elsewhere(S, tab)
    BY <1>1, <1>5, <2>1 DEF Elsewhere
  <2> QED  BY <1>5, <2>2, <2>3, ElsewhereGood
<1>13. GoodChain(chain, new, t, k)
  BY <1>6, <1>12 DEF GoodTable
<1>14. ASSUME NEW i \in 1 .. Len(chain), chain[i].symbol # Broken
       PROVE  new[chain[i].symbol].name # new[id].name
  <2>1. chain[i].symbol \in Inside(table, t)
    <3>1. i \in 1 .. Len(tab[t][k]) /\ tab[t][k][i].symbol # Broken
      BY <1>6, <1>14
    <3>2. tab[t][k][i].symbol \in Inside(tab, t)
      BY <3>1, AtInside
    <3> QED  BY <1>5, <1>6, <3>2
  <2>2. chain[i].symbol \in Ids
    <3>1. chain[i] \in Cell
      OBVIOUS
    <3> QED  BY <1>14, <3>1 DEF Cell
  <2> QED  BY <1>1, <1>3, <1>10, <1>11, <2>1, <2>2
<1>15. PICK w \in BOOLEAN : w = ~permanent
  OBVIOUS
<1>16. PICK c : c = <<Bucket(id, w)>> \o chain
  OBVIOUS
<1>17. c \in Seq(Cell) /\ Members(c) = Members(chain) \cup {id} /\ GoodChain(c, new, t, k)
  <2>1. new[id].name \in Names /\ Hash[new[id].name] = k /\ (new[id].keyword <=> t = "keyword")
        /\ (w <=> Worthless(new[id]))
    BY <1>2, <1>9, <1>10, <1>11, <1>15
  <2>2. LET d == <<Bucket(id, w)>> \o chain
        IN  d \in Seq(Cell) /\ Members(d) = Members(chain) \cup {id} /\ GoodChain(d, new, t, k)
    BY <1>1, <1>13, <1>14, <2>1, AddedChain
  <2> QED  BY <1>16, <2>2
<1>18. PICK tab2 : tab2 = table'
  OBVIOUS
<1>19. Put(tab2, tab, t, k, c)
  <2>1. tab2 = [table EXCEPT ![t][k] = c]
    BY <1>2, <1>3, <1>15, <1>16, <1>18 DEF Added, Linked
  <2> QED  BY <1>6, <2>1 DEF Put
<1>20. PICK X : X = {id}
  OBVIOUS
<1>21. Gained(c, tab[t][k], X)
  BY <1>6, <1>17, <1>20 DEF Gained
<1>22. /\ IsTable(tab2) /\ Inside(tab2, t) = Inside(tab, t) \cup X
       /\ \A u \in Tables : u # t => Inside(tab2, u) = Inside(tab, u)
  BY <1>5, <1>17, <1>19, <1>21, LinkedTable
<1>23. GoodTable(tab2, new)
  BY <1>5, <1>12, <1>17, <1>19, LinkedGood
<1>24. Remembered(tab2, new, bound, given)
  <2>0. "symbol" \in Tables
    BY DEF Tables
  <2>1. \A o \in Inside(tab, "symbol") : o \in Ids /\ o # id
    BY <1>1, <1>5, <2>0, InsideAt
  <2>2. Inside(tab2, "symbol") \subseteq Inside(tab, "symbol") \cup {id}
        /\ Inside(tab, "symbol") \subseteq Inside(tab2, "symbol")
    BY <1>20, <1>22, <2>0
  <2>3. \A o \in Inside(tab, "symbol") : new[o] = symbol[o]
    BY <1>11, <2>1
  <2>4. ASSUME NEW n \in Names
        PROVE  /\ n \in bound <=> \E o \in Inside(tab, "symbol") : symbol[o].name = n /\ symbol[o].value # Unbound
               /\ \A p \in Props : <<n, p>> \in given <=>
                      \E o \in Inside(tab, "symbol") : symbol[o].name = n /\ p \in ToSet(symbol[o].plist)
    BY <1>0, <1>5, <2>0 DEF Remembered
  <2>5. ~(new[id].value # Unbound) /\ \A p : ~(p \in ToSet(new[id].plist))
    BY <1>8, <1>10, <1>11 DEF ToSet
  <2> QED  BY <2>2, <2>3, <2>4, <2>5 DEF Remembered
<1> QED  BY <1>5, <1>7, <1>11, <1>18, <1>20, <1>22, <1>23, <1>24

\* What the program knows of the symbols it has got in a step by name.
Noted(t) ==
    interned' = [id \in Ids |-> IF id \in (refs' \cup literals') \ (refs \cup literals) THEN t ELSE interned[id]]

\* A symbol found or made in the table t is held as one of that table.
LEMMA NamedHeld ==
    ASSUME SymbolInv, NEW t \in Tables, NEW id \in Ids, Noted(t),
           IsTable(table'), GoodTable(table', symbol'), id \in Inside(table', t),
           \A u \in Tables : \A o : o \in Inside(table', u) <=> (o \in Inside(table, u) \/ (u = t /\ o = id)),
           id \in Inside(table, t) \/ id \notin refs \cup literals,
           refs' \cup literals' \subseteq refs \cup literals \cup {id}
    PROVE  HeldInside' /\ interned' \in [Ids -> Tables \cup {"none"}]
<1>1. PICK tab : tab = table'
  OBVIOUS
<1>2. PICK syms : syms = symbol'
  OBVIOUS
<1>3. interned \in [Ids -> Tables \cup {"none"}] /\ refs \cup literals \subseteq Ids /\ HeldInside
  BY DEF SymbolInv, SymbolTypes
<1>4. interned' \in [Ids -> Tables \cup {"none"}]
  BY <1>3 DEF Noted
<1>5. \A u \in Tables : id \in Inside(tab, u) => u = t
  BY <1>1, <1>2, InsideOnce
<1>6. ASSUME NEW o \in refs' \cup literals', NEW u \in Tables
      PROVE  interned'[o] = u <=> o \in Inside(table', u)
  <2>1. CASE o \in refs \cup literals
    <3>1. interned'[o] = interned[o]
      BY <1>3, <2>1 DEF Noted
    <3>2. interned[o] = u <=> o \in Inside(table, u)
      BY <1>3, <2>1 DEF HeldInside
    <3>3. o \in Inside(table', u) <=> o \in Inside(table, u)
      BY <1>1, <1>5, <2>1
    <3> QED  BY <3>1, <3>2, <3>3
  <2>2. CASE o \notin refs \cup literals
    <3>1. o = id /\ interned'[o] = t
      BY <2>2 DEF Noted
    <3> QED  BY <1>1, <1>5, <3>1
  <2> QED  BY <2>1, <2>2
<1> QED  BY <1>4, <1>6 DEF HeldInside

\* The parts of the invariant make it up.
LEMMA InvParts ==
    ASSUME IsTable(table'), symbol' \in [Ids -> SymbolRecord],
           refs' \in SUBSET Ids, literals' \in SUBSET Ids, young' \in SUBSET Ids,
           interned' \in [Ids -> Tables \cup {"none"}],
           GoodTable(table', symbol'), HeldInside', Remembered(table', symbol', bound', given')
    PROVE  SymbolInv'
BY DEF SymbolInv, SymbolTypes

\* Interning a name keeps the invariant,
LEMMA InternInv ==
    ASSUME SymbolInv, NEW t \in Tables, NEW name \in Names, Intern(t, name), Noted(t), UNCHANGED <<bound, given>>
    PROVE  SymbolInv'
<1>0. SymbolTypes /\ GoodTable(table, symbol) /\ Remembered(table, symbol, bound, given) /\ "symbol" \in Tables
  BY DEF SymbolInv, Tables
<1>1. CASE Lookup(t, name).symbol # Broken
  <2>1. PICK id \in Ids : id = Lookup(t, name).symbol /\ id \in Inside(table, t)
    <3>1. Lookup(t, name).symbol \in Inside(table, t)
      BY <1>0, <1>1, LookupFacts
    <3> QED  BY <1>0, <3>1, InsideAt DEF SymbolTypes
  <2>2. /\ table' = Linked(t, name, Lookup(t, name).chain) /\ refs' = refs \cup {id}
        /\ symbol' = symbol /\ literals' = literals /\ young' = young
    BY <1>1, <2>1 DEF Intern
  <2>3. IsTable(table') /\ GoodTable(table', symbol) /\ \A u \in Tables : Inside(table', u) = Inside(table, u)
    BY <1>0, <2>2, LookupTable
  <2>4. HeldInside' /\ interned' \in [Ids -> Tables \cup {"none"}]
    <3>1. refs' \cup literals' \subseteq refs \cup literals \cup {id}
      BY <2>2
    <3>2. \A u \in Tables : \A o : o \in Inside(table', u) <=> (o \in Inside(table, u) \/ (u = t /\ o = id))
      BY <2>1, <2>3
    <3>3. id \in Inside(table', t) /\ GoodTable(table', symbol')
      BY <2>1, <2>2, <2>3
    <3> QED  BY <2>1, <2>3, <3>1, <3>2, <3>3, NamedHeld
  <2>5. Remembered(table', symbol', bound', given')
    BY <1>0, <2>2, <2>3 DEF Remembered
  <2>6. symbol' \in [Ids -> SymbolRecord] /\ refs' \in SUBSET Ids /\ literals' \in SUBSET Ids /\ young' \in SUBSET Ids
    BY <1>0, <2>2 DEF SymbolTypes
  <2> QED  BY <2>2, <2>3, <2>4, <2>5, <2>6, InvParts
<1>2. CASE Lookup(t, name).symbol = Broken
  <2>1. PICK id \in Free : /\ Added(t, name, Lookup(t, name).chain, id, FALSE)
                           /\ refs' = refs \cup {id} /\ young' = young \cup {id} /\ literals' = literals
    BY <1>2 DEF Intern
  <2>2. id \in Ids /\ id \notin refs \cup literals /\ \A u \in Tables : id \notin Inside(table, u)
    BY <1>0, FreeIsElsewhere
  <2>3. /\ IsTable(table') /\ symbol' \in [Ids -> SymbolRecord] /\ GoodTable(table', symbol')
        /\ Inside(table', t) = Inside(table, t) \cup {id}
        /\ \A u \in Tables : u # t => Inside(table', u) = Inside(table, u)
        /\ Remembered(table', symbol', bound, given)
    BY <1>2, <2>1, AddedFacts
  <2>4. HeldInside' /\ interned' \in [Ids -> Tables \cup {"none"}]
    <3>1. refs' \cup literals' \subseteq refs \cup literals \cup {id}
      BY <2>1
    <3>2. \A u \in Tables : \A o : o \in Inside(table', u) <=> (o \in Inside(table, u) \/ (u = t /\ o = id))
      BY <2>3
    <3>3. id \in Inside(table', t)
      BY <2>3
    <3> QED  BY <2>2, <2>3, <3>1, <3>2, <3>3, NamedHeld
  <2>5. refs' \in SUBSET Ids /\ literals' \in SUBSET Ids /\ young' \in SUBSET Ids
    BY <1>0, <2>1, <2>2 DEF SymbolTypes
  <2> QED  BY <2>3, <2>4, <2>5, InvParts
<1> QED  BY <1>1, <1>2

\* and so does looking it up.
LEMMA FindInv ==
    ASSUME SymbolInv, NEW t \in Tables, NEW name \in Names, Find(t, name), Noted(t), UNCHANGED <<bound, given>>
    PROVE  SymbolInv'
<1>0. SymbolTypes /\ GoodTable(table, symbol) /\ Remembered(table, symbol, bound, given) /\ "symbol" \in Tables
  BY DEF SymbolInv, Tables
<1>1. /\ table' = Linked(t, name, Lookup(t, name).chain) /\ symbol' = symbol /\ literals' = literals /\ young' = young
      /\ refs' = refs \cup ({Lookup(t, name).symbol} \ {Broken})
  BY DEF Find
<1>2. IsTable(table') /\ GoodTable(table', symbol) /\ \A u \in Tables : Inside(table', u) = Inside(table, u)
  BY <1>0, <1>1, LookupTable
<1>3. Remembered(table', symbol', bound', given')
  BY <1>0, <1>1, <1>2 DEF Remembered
<1>4. /\ refs' \in SUBSET Ids /\ HeldInside' /\ interned' \in [Ids -> Tables \cup {"none"}]
  <2>1. CASE Lookup(t, name).symbol = Broken
    <3>1. refs' = refs
      BY <1>1, <2>1
    <3>2. interned' = [id \in Ids |-> interned[id]] /\ interned \in [Ids -> Tables \cup {"none"}] /\ refs \in SUBSET Ids
      BY <1>0, <1>1, <3>1 DEF Noted, SymbolTypes
    <3>3. interned' = interned
      BY <3>2
    <3>4. HeldInside'
      BY <1>1, <1>2, <3>1, <3>3 DEF HeldInside, SymbolInv
    <3> QED  BY <3>1, <3>2, <3>3, <3>4
  <2>2. CASE Lookup(t, name).symbol # Broken
    <3>1. PICK id \in Ids : id = Lookup(t, name).symbol /\ id \in Inside(table, t)
      <4>1. Lookup(t, name).symbol \in Inside(table, t)
        BY <1>0, <2>2, LookupFacts
      <4> QED  BY <1>0, <4>1, InsideAt DEF SymbolTypes
    <3>2. refs' = refs \cup {id} /\ refs' \cup literals' \subseteq refs \cup literals \cup {id}
      BY <1>1, <2>2, <3>1
    <3>3. \A u \in Tables : \A o : o \in Inside(table', u) <=> (o \in Inside(table, u) \/ (u = t /\ o = id))
      BY <1>2, <3>1
    <3>4. id \in Inside(table', t) /\ GoodTable(table', symbol')
      BY <1>1, <1>2, <3>1
    <3>5. HeldInside' /\ interned' \in [Ids -> Tables \cup {"none"}]
      BY <1>2, <3>1, <3>2, <3>3, <3>4, NamedHeld
    <3> QED  BY <1>0, <3>2, <3>5 DEF SymbolTypes
  <2> QED  BY <2>1, <2>2
<1>5. symbol' \in [Ids -> SymbolRecord] /\ literals' \in SUBSET Ids /\ young' \in SUBSET Ids
  BY <1>0, <1>1 DEF SymbolTypes
<1> QED  BY <1>1, <1>2, <1>3, <1>4, <1>5, InvParts

\* Interning a name for a literal frame keeps the invariant.
LEMMA HInternInv ==
    ASSUME SymbolInv, NEW t \in Tables, NEW name \in Names, HIntern(t, name), Noted(t), UNCHANGED <<bound, given>>
    PROVE  SymbolInv'
<1>0. SymbolTypes /\ GoodTable(table, symbol) /\ Remembered(table, symbol, bound, given) /\ "symbol" \in Tables
  BY DEF SymbolInv, Tables
<1>1. CASE Lookup(t, name).symbol # Broken
  <2>1. PICK id \in Ids : id = Lookup(t, name).symbol /\ id \in Inside(table, t)
    <3>1. Lookup(t, name).symbol \in Inside(table, t)
      BY <1>0, <1>1, LookupFacts
    <3> QED  BY <1>0, <3>1, InsideAt DEF SymbolTypes
  <2>2. PICK tab : tab = Linked(t, name, Lookup(t, name).chain)
    OBVIOUS
  <2>3. IsTable(tab) /\ GoodTable(tab, symbol) /\ \A u \in Tables : Inside(tab, u) = Inside(table, u)
    BY <1>0, <2>2, LookupTable
  <2>4. /\ table' = IF symbol[id].permanent THEN tab ELSE PersistedIn(tab, id)
        /\ symbol' = [symbol EXCEPT ![id].permanent = TRUE]
        /\ refs' = refs /\ literals' = literals \cup {id} /\ young' = young
    BY <1>1, <2>1, <2>2 DEF HIntern
  <2>5. symbol \in [Ids -> SymbolRecord] /\ symbol[id] \in SymbolRecord
    BY <1>0 DEF SymbolTypes
  <2>6. PICK s : s = [symbol[id] EXCEPT !.permanent = TRUE]
    OBVIOUS
  <2>7. /\ s \in SymbolRecord /\ s.name = symbol[id].name /\ s.keyword = symbol[id].keyword /\ s.permanent = TRUE
        /\ s.value = symbol[id].value /\ s.plist = symbol[id].plist
    BY <2>5, <2>6 DEF SymbolRecord
  <2>8. PICK w \in BOOLEAN : w = FALSE
    OBVIOUS
  <2>9. w <=> Worthless(s)
    BY <2>7, <2>8 DEF Worthless
  <2>10. PICK tab2 : tab2 = table'
    OBVIOUS
  <2>11. IsTable(tab2) /\ Reweighed(tab, tab2, id, w)
    <3>1. CASE symbol[id].permanent
      <4>1. w <=> Worthless(symbol[id])
        BY <2>8, <3>1 DEF Worthless
      <4>2. tab2 = tab
        BY <2>4, <2>10, <3>1
      <4> QED  BY <2>3, <4>1, <4>2, ReweighedSame
    <3>2. CASE ~symbol[id].permanent
      <4>1. tab2 = Reweigh(tab, id, w)
        BY <2>4, <2>8, <2>10, <3>2 DEF PersistedIn, Reweigh
      <4> QED  BY <2>3, <4>1, ReweighFacts
    <3> QED  BY <3>1, <3>2
  <2>12. PICK new : new = [symbol EXCEPT ![id] = s]
    OBVIOUS
  <2>13. GoodTable(tab2, new) /\ \A u \in Tables : Inside(tab2, u) = Inside(tab, u)
    BY <2>3, <2>5, <2>7, <2>9, <2>11, <2>12, RewrittenGood
  <2>14. symbol' = new
    BY <2>4, <2>6, <2>12
  <2>15. /\ new \in [Ids -> SymbolRecord]
         /\ \A o \in Ids : /\ new[o].name = symbol[o].name /\ new[o].value = symbol[o].value
                           /\ new[o].plist = symbol[o].plist
    BY <2>5, <2>7, <2>12
  <2>16. Inside(tab2, "symbol") = Inside(table, "symbol") /\ Inside(table, "symbol") \subseteq Ids
    <3>1. Inside(table, "symbol") \subseteq Ids
      BY <1>0, InsideAt DEF SymbolTypes
    <3> QED  BY <1>0, <2>3, <2>13, <3>1
  <2>17. Remembered(tab2, new, bound, given)
    BY <1>0, <2>15, <2>16, RememberedSame
  <2>18. HeldInside' /\ interned' \in [Ids -> Tables \cup {"none"}]
    <3>1. refs' \cup literals' \subseteq refs \cup literals \cup {id}
      BY <2>4
    <3>2. \A u \in Tables : \A o : o \in Inside(table', u) <=> (o \in Inside(table, u) \/ (u = t /\ o = id))
      BY <2>1, <2>3, <2>10, <2>13
    <3>3. id \in Inside(table', t) /\ IsTable(table') /\ GoodTable(table', symbol')
      BY <2>1, <2>3, <2>10, <2>11, <2>13, <2>14
    <3> QED  BY <2>1, <3>1, <3>2, <3>3, NamedHeld
  <2>19. refs' \in SUBSET Ids /\ literals' \in SUBSET Ids /\ young' \in SUBSET Ids
    BY <1>0, <2>4 DEF SymbolTypes
  <2> QED  BY <2>10, <2>11, <2>13, <2>14, <2>15, <2>17, <2>18, <2>19, InvParts
<1>2. CASE Lookup(t, name).symbol = Broken
  <2>1. PICK id \in Free : /\ Added(t, name, Lookup(t, name).chain, id, TRUE)
                           /\ literals' = literals \cup {id} /\ refs' = refs /\ young' = young
    BY <1>2 DEF HIntern
  <2>2. id \in Ids /\ id \notin refs \cup literals /\ \A u \in Tables : id \notin Inside(table, u)
    BY <1>0, FreeIsElsewhere
  <2>3. /\ IsTable(table') /\ symbol' \in [Ids -> SymbolRecord] /\ GoodTable(table', symbol')
        /\ Inside(table', t) = Inside(table, t) \cup {id}
        /\ \A u \in Tables : u # t => Inside(table', u) = Inside(table, u)
        /\ Remembered(table', symbol', bound, given)
    BY <1>2, <2>1, AddedFacts
  <2>4. HeldInside' /\ interned' \in [Ids -> Tables \cup {"none"}]
    <3>1. refs' \cup literals' \subseteq refs \cup literals \cup {id}
      BY <2>1
    <3>2. \A u \in Tables : \A o : o \in Inside(table', u) <=> (o \in Inside(table, u) \/ (u = t /\ o = id))
      BY <2>3
    <3>3. id \in Inside(table', t)
      BY <2>3
    <3> QED  BY <2>2, <2>3, <3>1, <3>2, <3>3, NamedHeld
  <2>5. refs' \in SUBSET Ids /\ literals' \in SUBSET Ids /\ young' \in SUBSET Ids
    BY <1>0, <2>1, <2>2 DEF SymbolTypes
  <2> QED  BY <2>3, <2>4, <2>5, InvParts
<1> QED  BY <1>1, <1>2

\* So does making a symbol that is in no table.
LEMMA MakeSymbolInv ==
    ASSUME SymbolInv, NEW name \in Names, MakeSymbol(name), UNCHANGED <<bound, given>>,
           interned' = [id \in Ids |-> IF id \in refs' \ refs THEN "none" ELSE interned[id]]
    PROVE  SymbolInv'
<1>0. SymbolTypes /\ GoodTable(table, symbol) /\ Remembered(table, symbol, bound, given) /\ "symbol" \in Tables
  BY DEF SymbolInv, Tables
<1>1. PICK id \in Free : /\ symbol' = [symbol EXCEPT ![id] = [Nobody EXCEPT !.name = name]]
                         /\ refs' = refs \cup {id} /\ young' = young \cup {id}
                         /\ table' = table /\ literals' = literals
  BY DEF MakeSymbol
<1>2. id \in Ids /\ id \notin refs \cup literals /\ \A u \in Tables : id \notin Inside(table, u)
  BY <1>0, FreeIsElsewhere
<1>3. [Nobody EXCEPT !.name = name] \in SymbolRecord
  <2>1. <<>> \in Seq(Props)
    OBVIOUS
  <2> QED  BY <2>1 DEF Nobody, SymbolRecord
<1>4. PICK new : new = symbol'
  OBVIOUS
<1>5. symbol \in [Ids -> SymbolRecord] /\ IsTable(table)
  BY <1>0 DEF SymbolTypes
<1>6. new \in [Ids -> SymbolRecord] /\ \A o \in Ids : o # id => new[o] = symbol[o]
  BY <1>1, <1>2, <1>3, <1>4, <1>5
<1>7. GoodTable(table, new)
  <2>1. PICK S : S = {id}
    OBVIOUS
  <2>2. Elsewhere(S, table) /\ Alike(new, symbol, S)
    BY <1>2, <1>6, <2>1 DEF Elsewhere, Alike
  <2> QED  BY <1>0, <1>5, <2>2, ElsewhereGood
<1>8. Remembered(table, new, bound, given)
  <2>1. \A o \in Inside(table, "symbol") : o \in Ids /\ o # id
    BY <1>0, <1>2, <1>5, InsideAt
  <2>2. \A o \in Inside(table, "symbol") : new[o] = symbol[o]
    BY <1>6, <2>1
  <2> QED  BY <1>0, <2>2, RememberedSame
<1>9. interned \in [Ids -> Tables \cup {"none"}] /\ refs \cup literals \subseteq Ids /\ HeldInside
  BY DEF SymbolInv, SymbolTypes
<1>10. interned' \in [Ids -> Tables \cup {"none"}]
  BY <1>9
<1>11. HeldInside'
  <2>1. SUFFICES ASSUME NEW o \in refs' \cup literals', NEW u \in Tables
                 PROVE  interned'[o] = u <=> o \in Inside(table', u)
    BY DEF HeldInside
  <2>2. CASE o = id
    <3>1. interned'[o] = "none" /\ u # "none"
      BY <1>1, <1>2, <2>2 DEF Tables
    <3> QED  BY <1>1, <1>2, <2>2, <3>1
  <2>3. CASE o # id
    <3>1. o \in refs \cup literals /\ interned'[o] = interned[o]
      BY <1>1, <1>9, <2>3
    <3> QED  BY <1>1, <1>9, <3>1 DEF HeldInside
  <2> QED  BY <2>2, <2>3
<1>12. refs' \in SUBSET Ids /\ literals' \in SUBSET Ids /\ young' \in SUBSET Ids
  BY <1>0, <1>1, <1>2 DEF SymbolTypes
<1>13. IsTable(table') /\ GoodTable(table', symbol') /\ symbol' \in [Ids -> SymbolRecord]
       /\ Remembered(table', symbol', bound', given')
  BY <1>1, <1>4, <1>5, <1>6, <1>7, <1>8
<1> QED  BY <1>10, <1>11, <1>12, <1>13, InvParts

-----------------------------------------------------------------------------
(***************************************************************************)
(* Steps that change a symbol the program has.                             *)
(***************************************************************************)

\* What the program has set of a symbol it got by its name is what the symbol has.
LEMMA KnownOf ==
    ASSUME SymbolInv, NEW id \in refs, Interned(id)
    PROVE  /\ id \in Inside(table, "symbol") /\ Meant(id) \in Names
           /\ Meant(id) \in bound <=> symbol[id].value # Unbound
           /\ \A p \in Props : <<Meant(id), p>> \in given <=> p \in ToSet(symbol[id].plist)
<1>1. "symbol" \in Tables /\ IsTable(table) /\ GoodTable(table, symbol)
  BY DEF Tables, SymbolInv, SymbolTypes
<1>2. id \in Inside(table, "symbol")
  BY <1>1 DEF SymbolInv, HeldInside, Interned
<1>3. symbol[id].name \in Names
  BY <1>1, <1>2, InsideAt
<1>4. \A o \in Inside(table, "symbol") : symbol[o].name = symbol[id].name => o = id
  BY <1>1, <1>2, InsideOnce
<1>5. Remembered(table, symbol, bound, given)
  BY DEF SymbolInv
<1> QED  BY <1>2, <1>3, <1>4, <1>5 DEF Meant, Remembered

\* What the program has set follows the record s, which the symbol gets.
Follows(id, s) ==
    /\ \A n \in Names : ~Interned(id) \/ n # Meant(id) =>
           /\ n \in bound' <=> n \in bound
           /\ \A p \in Props : <<n, p>> \in given' <=> <<n, p>> \in given
    /\ Interned(id) =>
           /\ Meant(id) \in bound' <=> s.value # Unbound
           /\ \A p \in Props : <<Meant(id), p>> \in given' <=> p \in ToSet(s.plist)

\* The record is that of the same symbol, and the buckets are made for it.
Becomes(id, s) ==
    /\ s \in SymbolRecord /\ s.name = symbol[id].name /\ s.keyword = symbol[id].keyword
    /\ symbol' = [symbol EXCEPT ![id] = s]
    /\ IsTable(table')
    /\ \E w \in BOOLEAN : (w <=> Worthless(s)) /\ Reweighed(table, table', id, w)

\* What the program knows of its symbols after a step with one.
HoldsStill == interned' = [i \in Ids |-> IF i \in refs' \cup literals THEN interned[i] ELSE "none"]

\* A symbol that becomes another in step with the program keeps the invariant.
LEMMA ChangedInv ==
    ASSUME SymbolInv, NEW id \in refs, NEW s, Becomes(id, s), Follows(id, s),
           UNCHANGED <<refs, literals, young>>, HoldsStill
    PROVE  SymbolInv'
<1>0. SymbolTypes /\ GoodTable(table, symbol) /\ Remembered(table, symbol, bound, given) /\ "symbol" \in Tables
  BY DEF SymbolInv, Tables
<1>1. IsTable(table) /\ symbol \in [Ids -> SymbolRecord] /\ id \in Ids /\ refs \cup literals \subseteq Ids
  BY <1>0 DEF SymbolTypes
<1>2. PICK tab : tab = table'
  OBVIOUS
<1>3. PICK new : new = [symbol EXCEPT ![id] = s] /\ new = symbol'
  BY DEF Becomes
<1>4. s \in SymbolRecord /\ s.name = symbol[id].name /\ s.keyword = symbol[id].keyword /\ IsTable(tab)
  BY <1>2 DEF Becomes
<1>5. PICK w \in BOOLEAN : (w <=> Worthless(s)) /\ Reweighed(table, tab, id, w)
  BY <1>2 DEF Becomes
<1>6. GoodTable(tab, new) /\ \A t \in Tables : Inside(tab, t) = Inside(table, t)
  <2>1. new = [symbol EXCEPT ![id] = s]
    BY <1>3
  <2>2. GoodTable(table, symbol)
    BY <1>0
  <2>3. s.name = symbol[id].name /\ s.keyword = symbol[id].keyword /\ IsTable(tab)
    BY <1>4
  <2>4. GoodTable(tab, [symbol EXCEPT ![id] = s]) /\ \A t \in Tables : Inside(tab, t) = Inside(table, t)
    BY ONLY <1>1, <1>5, <2>2, <2>3, RewrittenGood
  <2> QED  BY <2>1, <2>4
<1>7. new \in [Ids -> SymbolRecord] /\ new[id] = s /\ \A o \in Ids : o # id => new[o] = symbol[o]
  BY <1>1, <1>3, <1>4
<1>8. \A o \in Inside(table, "symbol") : o \in Ids
  BY <1>0, <1>1, InsideAt
<1>9. id \in Inside(table, "symbol") <=> Interned(id)
  BY <1>0 DEF SymbolInv, HeldInside, Interned
<1>10. ASSUME NEW n \in Names
       PROVE  /\ n \in bound' <=> \E o \in Inside(table, "symbol") : new[o].name = n /\ new[o].value # Unbound
              /\ \A p \in Props : <<n, p>> \in given' <=>
                     \E o \in Inside(table, "symbol") : new[o].name = n /\ p \in ToSet(new[o].plist)
  <2>1. CASE Interned(id) /\ n = Meant(id)
    <3>1. \A o \in Inside(table, "symbol") : symbol[o].name = n => o = id
      BY <1>0, <1>1, <1>9, <2>1, InsideOnce DEF Meant
    <3>2. \A o \in Inside(table, "symbol") : new[o].name = n => o = id
      BY <1>7, <1>8, <3>1
    <3>3. id \in Inside(table, "symbol") /\ new[id].name = n
      BY <1>4, <1>7, <1>9, <2>1 DEF Meant
    <3>4. n \in bound' <=> s.value # Unbound
      BY <2>1 DEF Follows
    <3>5. \A p \in Props : <<n, p>> \in given' <=> p \in ToSet(s.plist)
      BY <2>1 DEF Follows
    <3> QED  BY <1>7, <3>2, <3>3, <3>4, <3>5
  <2>2. CASE ~(Interned(id) /\ n = Meant(id))
    <3>1. /\ n \in bound' <=> n \in bound
          /\ \A p \in Props : <<n, p>> \in given' <=> <<n, p>> \in given
      BY <2>2 DEF Follows
    <3>2. /\ n \in bound <=> \E o \in Inside(table, "symbol") : symbol[o].name = n /\ symbol[o].value # Unbound
          /\ \A p \in Props : <<n, p>> \in given <=>
                 \E o \in Inside(table, "symbol") : symbol[o].name = n /\ p \in ToSet(symbol[o].plist)
      BY <1>0 DEF Remembered
    <3>3. \A o \in Inside(table, "symbol") : symbol[o].name = n => o # id
      BY <1>9, <2>2 DEF Meant
    <3>4. \A o \in Inside(table, "symbol") : new[o].name = n => o # id
      BY <1>4, <1>7, <1>9, <2>2 DEF Meant
    <3>5. \A o \in Inside(table, "symbol") : o # id => new[o] = symbol[o]
      BY <1>7, <1>8
    <3> QED  BY <3>1, <3>2, <3>3, <3>4, <3>5
  <2> QED  BY <2>1, <2>2
<1>11. Remembered(table', symbol', bound', given')
  <2>1. Inside(tab, "symbol") = Inside(table, "symbol")
    BY <1>0, <1>6
  <2>2. PICK set : set = bound'
    OBVIOUS
  <2>3. PICK put : put = given'
    OBVIOUS
  <2>4. Remembered(tab, new, set, put)
    BY <1>10, <2>1, <2>2, <2>3 DEF Remembered
  <2> QED  BY <1>2, <1>3, <2>2, <2>3, <2>4
<1>12. interned' \in [Ids -> Tables \cup {"none"}] /\ HeldInside'
  <2>1. interned \in [Ids -> Tables \cup {"none"}] /\ HeldInside
    BY DEF SymbolInv, SymbolTypes
  <2>2. interned' \in [Ids -> Tables \cup {"none"}]
    BY <2>1 DEF HoldsStill
  <2>3. \A o \in refs \cup literals : interned'[o] = interned[o]
    BY <1>1 DEF HoldsStill
  <2>4. refs' = refs /\ literals' = literals
    OBVIOUS
  <2> QED  BY <1>2, <1>6, <2>1, <2>2, <2>3, <2>4 DEF HeldInside
<1>13. refs' \in SUBSET Ids /\ literals' \in SUBSET Ids /\ young' \in SUBSET Ids
  BY <1>0 DEF SymbolTypes
<1>14. IsTable(table') /\ GoodTable(table', symbol') /\ symbol' \in [Ids -> SymbolRecord]
  BY <1>2, <1>3, <1>4, <1>6, <1>7
<1> QED  BY <1>11, <1>12, <1>13, <1>14, InvParts

\* The buckets of a symbol with something to lose,
LEMMA PersistedFor ==
    ASSUME IsTable(table), NEW id \in Ids, NEW s, ~Worthless(s), table' = Persisted(id)
    PROVE  IsTable(table') /\ \E w \in BOOLEAN : (w <=> Worthless(s)) /\ Reweighed(table, table', id, w)
<1>1. PICK w \in BOOLEAN : w = FALSE
  OBVIOUS
<1>2. table' = Reweigh(table, id, w)
  BY <1>1 DEF Persisted, PersistedIn, Reweigh
<1>3. IsTable(Reweigh(table, id, w)) /\ Reweighed(table, Reweigh(table, id, w), id, w)
  BY <1>1, ReweighFacts
<1> QED  BY <1>1, <1>2, <1>3

\* those of one that has as much to lose as it had,
LEMMA UntouchedFor ==
    ASSUME IsTable(table), GoodTable(table, symbol), NEW id \in Ids, NEW s,
           Worthless(s) <=> Worthless(symbol[id]), table' = table
    PROVE  IsTable(table') /\ \E w \in BOOLEAN : (w <=> Worthless(s)) /\ Reweighed(table, table', id, w)
<1>1. PICK w \in BOOLEAN : w <=> Worthless(s)
  OBVIOUS
<1>2. Reweighed(table, table, id, w)
  BY <1>1, ReweighedSame
<1> QED  BY <1>1, <1>2

\* and those of one that has lost its properties.
LEMMA UnpersistedFor ==
    ASSUME IsTable(table), GoodTable(table, symbol), NEW id \in Ids, NEW s,
           s.plist = <<>>, s.value = symbol[id].value, s.permanent = symbol[id].permanent,
           s.keyword = symbol[id].keyword, table' = Unpersisted(id, s)
    PROVE  IsTable(table') /\ \E w \in BOOLEAN : (w <=> Worthless(s)) /\ Reweighed(table, table', id, w)
<1>1. CASE Worthless(s)
  <2>1. PICK w \in BOOLEAN : w = TRUE
    OBVIOUS
  <2>2. table' = Reweigh(table, id, w)
    BY <1>1, <2>1 DEF Unpersisted, Worthless, Reweigh
  <2>3. IsTable(Reweigh(table, id, w)) /\ Reweighed(table, Reweigh(table, id, w), id, w)
    BY <2>1, ReweighFacts
  <2> QED  BY <1>1, <2>1, <2>2, <2>3
<1>2. CASE ~Worthless(s)
  <2>1. table' = table
    BY <1>2 DEF Unpersisted, Worthless
  <2>2. ~Worthless(symbol[id])
    BY <1>2 DEF Worthless, Persistable
  <2>3. Worthless(s) <=> Worthless(symbol[id])
    BY <1>2, <2>2
  <2> QED  BY <2>1, <2>3, UntouchedFor
<1> QED  BY <1>1, <1>2

\* What is needed of a symbol the program changes.
LEMMA HeldFacts ==
    ASSUME SymbolInv, NEW id \in refs
    PROVE  /\ IsTable(table) /\ GoodTable(table, symbol) /\ symbol \in [Ids -> SymbolRecord]
           /\ id \in Ids /\ symbol[id] \in SymbolRecord
           /\ symbol[id].plist \in Seq(Props) /\ symbol[id].value \in {Unbound, Value}
BY DEF SymbolInv, SymbolTypes, SymbolRecord

\* Setting a variable keeps the invariant,
LEMMA SetGlobalInv ==
    ASSUME SymbolAssumption, SymbolInv, NEW id \in refs, Mutable(id), SetGlobal(id), HoldsStill,
           bound' = bound \cup (IF Interned(id) THEN {Meant(id)} ELSE {}), UNCHANGED given
    PROVE  SymbolInv'
<1>1. IsTable(table) /\ GoodTable(table, symbol) /\ symbol \in [Ids -> SymbolRecord] /\ id \in Ids
      /\ symbol[id] \in SymbolRecord
  BY HeldFacts
<1>2. PICK s : s = [symbol[id] EXCEPT !.value = Value]
  OBVIOUS
<1>3. /\ s \in SymbolRecord /\ s.name = symbol[id].name /\ s.keyword = symbol[id].keyword
      /\ s.value = Value /\ s.plist = symbol[id].plist
  BY <1>1, <1>2 DEF SymbolRecord
<1>4. symbol' = [symbol EXCEPT ![id] = s] /\ table' = Persisted(id) /\ UNCHANGED <<refs, literals, young>>
  BY <1>2 DEF SetGlobal
<1>5. ~Worthless(s) /\ Value # Unbound
  BY <1>3 DEF Worthless, Persistable, Mutable, SymbolAssumption
<1>6. IsTable(table') /\ \E w \in BOOLEAN : (w <=> Worthless(s)) /\ Reweighed(table, table', id, w)
  BY <1>1, <1>4, <1>5, PersistedFor
<1>7. Becomes(id, s)
  BY <1>3, <1>4, <1>6 DEF Becomes
<1>8. Interned(id) => \A p \in Props : <<Meant(id), p>> \in given' <=> p \in ToSet(s.plist)
  BY <1>3, KnownOf
<1>9. Interned(id) => (Meant(id) \in bound' <=> s.value # Unbound)
  BY <1>3, <1>5
<1>10. \A n \in Names : ~Interned(id) \/ n # Meant(id) => (n \in bound' <=> n \in bound)
  OBVIOUS
<1>11. Follows(id, s)
  BY <1>8, <1>9, <1>10 DEF Follows
<1> QED  BY <1>4, <1>7, <1>11, ChangedInv

\* and so does giving a symbol a property,
LEMMA PutPropInv ==
    ASSUME SymbolInv, NEW id \in refs, NEW prop \in Props, Mutable(id), PutProp(id, prop), HoldsStill,
           given' = given \cup (IF Interned(id) THEN {<<Meant(id), prop>>} ELSE {}), UNCHANGED bound
    PROVE  SymbolInv'
<1>1. IsTable(table) /\ GoodTable(table, symbol) /\ symbol \in [Ids -> SymbolRecord] /\ id \in Ids
      /\ symbol[id] \in SymbolRecord /\ symbol[id].plist \in Seq(Props)
  BY HeldFacts
<1>2. PICK old \in Seq(Props) : old = symbol[id].plist
  BY <1>1
<1>3. PICK has \in BOOLEAN : has <=> GetProp(id, prop)
  BY DEF GetProp
<1>4. PICK plist \in Seq(Props) : plist = IF has THEN old ELSE <<prop>> \o old
  <2>1. <<prop>> \in Seq(Props)
    OBVIOUS
  <2>2. <<prop>> \o old \in Seq(Props)
    BY <2>1
  <2>3. (IF has THEN old ELSE <<prop>> \o old) \in Seq(Props)
    BY <2>2
  <2> QED  BY <2>3
<1>5. /\ has <=> prop \in ToSet(old)
      /\ plist # <<>> /\ (has => old # <<>>)
      /\ \A p : p \in ToSet(plist) <=> (p \in ToSet(old) \/ p = prop)
  <2>1. has <=> \E i \in 1 .. Len(old) : old[i] = prop
    BY <1>2, <1>3 DEF GetProp, PropAt
  <2>2. has <=> prop \in ToSet(old)
    BY <2>1 DEF ToSet
  <2>3. CASE has
    <3>1. old # <<>>
      BY <2>1, <2>3
    <3> QED  BY <1>4, <2>2, <2>3, <3>1
  <2>4. CASE ~has
    <3>1. plist = <<prop>> \o old /\ <<prop>> \in Seq(Props)
      BY <1>4, <2>4
    <3>2. /\ Len(plist) = Len(old) + 1 /\ Len(old) \in Nat /\ plist[1] = prop
          /\ \A i \in 1 .. Len(old) : plist[i + 1] = old[i]
      BY <3>1
    <3>3. \A i \in 1 .. Len(plist) : i = 1 \/ (i - 1 \in 1 .. Len(old) /\ plist[i] = old[i - 1])
      BY <3>2
    <3>4. \A i \in 1 .. Len(old) : i + 1 \in 1 .. Len(plist)
      BY <3>2
    <3>5. 1 \in 1 .. Len(plist) /\ DOMAIN plist = 1 .. Len(plist) /\ DOMAIN old = 1 .. Len(old)
      BY <3>2
    <3>6. ASSUME NEW p \in ToSet(plist) PROVE p \in ToSet(old) \/ p = prop
      BY <3>2, <3>3, <3>5 DEF ToSet
    <3>7. ASSUME NEW p \in ToSet(old) PROVE p \in ToSet(plist)
      BY <3>2, <3>4, <3>5 DEF ToSet
    <3>8. prop \in ToSet(plist)
      BY <3>2, <3>5 DEF ToSet
    <3>9. plist # <<>>
      BY <3>5
    <3> QED  BY <2>2, <2>4, <3>6, <3>7, <3>8, <3>9
  <2> QED  BY <2>3, <2>4
<1>6. PICK s : s = [symbol[id] EXCEPT !.plist = plist]
  OBVIOUS
<1>7. /\ s \in SymbolRecord /\ s.name = symbol[id].name /\ s.keyword = symbol[id].keyword
      /\ s.value = symbol[id].value /\ s.plist = plist /\ s.permanent = symbol[id].permanent
  BY <1>1, <1>6 DEF SymbolRecord
<1>8. symbol' = [symbol EXCEPT ![id] = s] /\ UNCHANGED <<refs, literals, young>>
  <2>1. UNCHANGED <<refs, literals, young>>
    BY DEF PutProp
  <2>2. CASE has
    <3>1. s = symbol[id]
      BY <1>1, <1>2, <1>4, <1>6, <2>2 DEF SymbolRecord
    <3>2. symbol' = symbol
      BY <1>3, <2>2 DEF PutProp
    <3> QED  BY <1>1, <2>1, <3>1, <3>2
  <2>3. CASE ~has
    <3>1. symbol' = [symbol EXCEPT ![id].plist = <<prop>> \o @]
      BY <1>3, <2>3 DEF PutProp
    <3> QED  BY <1>1, <1>2, <1>4, <1>6, <2>1, <2>3, <3>1
  <2> QED  BY <2>2, <2>3
<1>9. ~Worthless(s) /\ (old # <<>> => ~Worthless(symbol[id]))
  BY <1>2, <1>5, <1>7 DEF Worthless, Persistable, Mutable
<1>10. IsTable(table') /\ \E w \in BOOLEAN : (w <=> Worthless(s)) /\ Reweighed(table, table', id, w)
  <2>1. CASE old = <<>>
    <3>1. table' = Persisted(id)
      BY <1>2, <2>1 DEF PutProp
    <3> QED  BY <1>1, <1>9, <3>1, PersistedFor
  <2>2. CASE old # <<>>
    <3>1. table' = table /\ (Worthless(s) <=> Worthless(symbol[id]))
      BY <1>2, <1>9, <2>2 DEF PutProp
    <3> QED  BY <1>1, <3>1, UntouchedFor
  <2> QED  BY <2>1, <2>2
<1>11. Becomes(id, s)
  BY <1>7, <1>8, <1>10 DEF Becomes
<1>12. Interned(id) => \A p \in Props : <<Meant(id), p>> \in given' <=> p \in ToSet(s.plist)
  <2>1. SUFFICES ASSUME Interned(id), NEW p \in Props PROVE <<Meant(id), p>> \in given' <=> p \in ToSet(s.plist)
    OBVIOUS
  <2>2. <<Meant(id), p>> \in given <=> p \in ToSet(old)
    BY <1>2, <2>1, KnownOf
  <2>3. <<Meant(id), p>> \in given' <=> (<<Meant(id), p>> \in given \/ p = prop)
    BY <2>1
  <2> QED  BY <1>5, <1>7, <2>2, <2>3
<1>13. Interned(id) => (Meant(id) \in bound' <=> s.value # Unbound)
  BY <1>7, KnownOf
<1>14. \A n \in Names : ~Interned(id) \/ n # Meant(id) =>
          \A p \in Props : <<n, p>> \in given' <=> <<n, p>> \in given
  OBVIOUS
<1>15. Follows(id, s)
  BY <1>12, <1>13, <1>14 DEF Follows
<1> QED  BY <1>8, <1>11, <1>15, ChangedInv

\* taking one away,
LEMMA RemPropInv ==
    ASSUME SymbolInv, NEW id \in refs, NEW prop \in Props, Mutable(id), RemProp(id, prop), HoldsStill,
           given' = given \ (IF Interned(id) THEN {<<Meant(id), prop>>} ELSE {}), UNCHANGED bound
    PROVE  SymbolInv'
<1>1. IsTable(table) /\ GoodTable(table, symbol) /\ symbol \in [Ids -> SymbolRecord] /\ id \in Ids
      /\ symbol[id] \in SymbolRecord /\ symbol[id].plist \in Seq(Props)
  BY HeldFacts
<1>2. PICK old \in Seq(Props) : old = symbol[id].plist
  BY <1>1
<1>3. PICK places : places = DOMAIN old \ PropAt(id, prop)
  OBVIOUS
<1>4. PICK plist \in Seq(Props) : plist = Kept(old, places) /\ Spread(plist, old, places, Len(old))
  BY KeptFacts
<1>5. /\ \A p : p \in ToSet(plist) <=> (p \in ToSet(old) /\ p # prop)
      /\ plist # <<>> => old # <<>>
  <2>1. \A i \in 1 .. Len(old) : i \in places <=> old[i] # prop
    BY <1>2, <1>3 DEF PropAt
  <2>2. PICK g \in [1 .. Len(plist) -> 1 .. Len(old)] :
          /\ \A i \in 1 .. Len(plist) : plist[i] = old[g[i]] /\ g[i] \in places
          /\ \A m \in 1 .. Len(old) : m \in places => \E i \in 1 .. Len(plist) : g[i] = m
    BY <1>4 DEF Spread
  <2>3. DOMAIN plist = 1 .. Len(plist) /\ DOMAIN old = 1 .. Len(old)
    OBVIOUS
  <2>4. ASSUME NEW p \in ToSet(plist) PROVE p \in ToSet(old) /\ p # prop
    BY <2>1, <2>2, <2>3 DEF ToSet
  <2>5. ASSUME NEW p \in ToSet(old), p # prop PROVE p \in ToSet(plist)
    BY <2>1, <2>2, <2>3, <2>5 DEF ToSet
  <2>6. plist # <<>> => old # <<>>
    <3>1. SUFFICES ASSUME plist # <<>> PROVE old # <<>>
      OBVIOUS
    <3>2. 1 \in 1 .. Len(plist)
      BY <3>1
    <3>3. g[1] \in 1 .. Len(old)
      BY <2>2, <3>2
    <3> QED  BY <3>3
  <2> QED  BY <2>4, <2>5, <2>6
<1>6. PICK s : s = [symbol[id] EXCEPT !.plist = plist]
  OBVIOUS
<1>7. /\ s \in SymbolRecord /\ s.name = symbol[id].name /\ s.keyword = symbol[id].keyword
      /\ s.value = symbol[id].value /\ s.plist = plist /\ s.permanent = symbol[id].permanent
  BY <1>1, <1>6 DEF SymbolRecord
<1>8. /\ symbol' = [symbol EXCEPT ![id] = s] /\ UNCHANGED <<refs, literals, young>>
      /\ table' = IF s.plist = <<>> THEN Unpersisted(id, s) ELSE table
  BY <1>2, <1>3, <1>4, <1>6 DEF RemProp
<1>9. IsTable(table') /\ \E w \in BOOLEAN : (w <=> Worthless(s)) /\ Reweighed(table, table', id, w)
  <2>1. CASE plist = <<>>
    <3>1. table' = Unpersisted(id, s) /\ s.plist = <<>>
      BY <1>7, <1>8, <2>1
    <3> QED  BY <1>1, <1>7, <3>1, UnpersistedFor
  <2>2. CASE plist # <<>>
    <3>1. table' = table
      BY <1>7, <1>8, <2>2
    <3>2. ~Worthless(s) /\ ~Worthless(symbol[id])
      BY <1>2, <1>5, <1>7, <2>2 DEF Worthless, Persistable, Mutable
    <3>3. Worthless(s) <=> Worthless(symbol[id])
      BY <3>2
    <3> QED  BY <1>1, <3>1, <3>3, UntouchedFor
  <2> QED  BY <2>1, <2>2
<1>10. Becomes(id, s)
  BY <1>7, <1>8, <1>9 DEF Becomes
<1>11. Interned(id) => \A p \in Props : <<Meant(id), p>> \in given' <=> p \in ToSet(s.plist)
  <2>1. SUFFICES ASSUME Interned(id), NEW p \in Props PROVE <<Meant(id), p>> \in given' <=> p \in ToSet(s.plist)
    OBVIOUS
  <2>2. <<Meant(id), p>> \in given <=> p \in ToSet(old)
    BY <1>2, <2>1, KnownOf
  <2>3. <<Meant(id), p>> \in given' <=> (<<Meant(id), p>> \in given /\ p # prop)
    BY <2>1
  <2> QED  BY <1>5, <1>7, <2>2, <2>3
<1>12. Interned(id) => (Meant(id) \in bound' <=> s.value # Unbound)
  BY <1>7, KnownOf
<1>13. \A n \in Names : ~Interned(id) \/ n # Meant(id) =>
          \A p \in Props : <<n, p>> \in given' <=> <<n, p>> \in given
  OBVIOUS
<1>14. Follows(id, s)
  BY <1>11, <1>12, <1>13 DEF Follows
<1> QED  BY <1>8, <1>10, <1>14, ChangedInv

\* and setting them all.
LEMMA SetPlistInv ==
    ASSUME SymbolInv, NEW id \in refs, NEW plist \in Seq(Props), Mutable(id), SetPlist(id, plist), HoldsStill,
           given' = IF Interned(id)
                    THEN {g \in given : g[1] # Meant(id)} \cup {<<Meant(id), p>> : p \in ToSet(plist)}
                    ELSE given,
           UNCHANGED bound
    PROVE  SymbolInv'
<1>1. IsTable(table) /\ GoodTable(table, symbol) /\ symbol \in [Ids -> SymbolRecord] /\ id \in Ids
      /\ symbol[id] \in SymbolRecord
  BY HeldFacts
<1>2. PICK s : s = [symbol[id] EXCEPT !.plist = plist]
  OBVIOUS
<1>3. /\ s \in SymbolRecord /\ s.name = symbol[id].name /\ s.keyword = symbol[id].keyword
      /\ s.value = symbol[id].value /\ s.plist = plist /\ s.permanent = symbol[id].permanent
  BY <1>1, <1>2 DEF SymbolRecord
<1>4. /\ symbol' = [symbol EXCEPT ![id] = s] /\ UNCHANGED <<refs, literals, young>>
      /\ table' = IF plist = <<>> THEN Unpersisted(id, s) ELSE Persisted(id)
  BY <1>2 DEF SetPlist
<1>5. IsTable(table') /\ \E w \in BOOLEAN : (w <=> Worthless(s)) /\ Reweighed(table, table', id, w)
  <2>1. CASE plist = <<>>
    <3>1. table' = Unpersisted(id, s) /\ s.plist = <<>>
      BY <1>3, <1>4, <2>1
    <3> QED  BY <1>1, <1>3, <3>1, UnpersistedFor
  <2>2. CASE plist # <<>>
    <3>1. table' = Persisted(id)
      BY <1>4, <2>2
    <3>2. ~Worthless(s)
      BY <1>3, <2>2 DEF Worthless, Persistable, Mutable
    <3> QED  BY <1>1, <3>1, <3>2, PersistedFor
  <2> QED  BY <2>1, <2>2
<1>6. Becomes(id, s)
  BY <1>3, <1>4, <1>5 DEF Becomes
<1>7. Interned(id) => \A p \in Props : <<Meant(id), p>> \in given' <=> p \in ToSet(s.plist)
  <2>1. SUFFICES ASSUME Interned(id), NEW p \in Props PROVE <<Meant(id), p>> \in given' <=> p \in ToSet(plist)
    BY <1>3
  <2>2. given' = {g \in given : g[1] # Meant(id)} \cup {<<Meant(id), q>> : q \in ToSet(plist)}
    BY <2>1
  <2>3. <<Meant(id), p>>[1] = Meant(id)
    OBVIOUS
  <2>4. <<Meant(id), p>> \in given' <=> \E q \in ToSet(plist) : <<Meant(id), p>> = <<Meant(id), q>>
    BY <2>2, <2>3
  <2> QED  BY <2>4
<1>8. Interned(id) => (Meant(id) \in bound' <=> s.value # Unbound)
  BY <1>3, KnownOf
<1>9. ASSUME NEW n \in Names, ~Interned(id) \/ n # Meant(id), NEW p \in Props
      PROVE  <<n, p>> \in given' <=> <<n, p>> \in given
  <2>1. CASE ~Interned(id)
    BY <2>1
  <2>2. CASE Interned(id) /\ n # Meant(id)
    <3>1. given' = {g \in given : g[1] # Meant(id)} \cup {<<Meant(id), q>> : q \in ToSet(plist)}
      BY <2>2
    <3>2. <<n, p>>[1] = n
      OBVIOUS
    <3>3. \A q : <<n, p>> # <<Meant(id), q>>
      BY <2>2
    <3> QED  BY <2>2, <3>1, <3>2, <3>3
  <2> QED  BY <1>9, <2>1, <2>2
<1>10. Follows(id, s)
  BY <1>7, <1>8, <1>9 DEF Follows
<1> QED  BY <1>4, <1>6, <1>10, ChangedInv

-----------------------------------------------------------------------------
(***************************************************************************)
(* Forgetting, counting and collecting symbols.                            *)
(***************************************************************************)

\* Letting go of a symbol keeps the invariant,
LEMMA ForgetInv ==
    ASSUME SymbolInv, NEW id \in refs, Forget(id), HoldsStill, UNCHANGED <<bound, given>>
    PROVE  SymbolInv'
<1>1. /\ refs' = refs \ {id} /\ table' = table /\ symbol' = symbol /\ literals' = literals /\ young' = young
      /\ bound' = bound /\ given' = given
  BY DEF Forget
<1>2. interned \in [Ids -> Tables \cup {"none"}] /\ refs \cup literals \subseteq Ids /\ HeldInside
  BY DEF SymbolInv, SymbolTypes
<1>3. interned' \in [Ids -> Tables \cup {"none"}] /\ \A o \in refs' \cup literals : interned'[o] = interned[o]
  BY <1>1, <1>2 DEF HoldsStill
<1>4. HeldInside'
  BY <1>1, <1>2, <1>3 DEF HeldInside
<1>5. refs' \in SUBSET Ids
  BY <1>1, <1>2
<1> QED  BY <1>1, <1>3, <1>4, <1>5 DEF SymbolInv, SymbolTypes

\* as does measuring the chains, which unlinks what is broken.
LEMMA TableLoadInv ==
    ASSUME SymbolInv, TableLoad, UNCHANGED <<bound, given, interned>>
    PROVE  SymbolInv'
<1>0. IsTable(table) /\ GoodTable(table, symbol) /\ Remembered(table, symbol, bound, given) /\ "symbol" \in Tables
  BY DEF SymbolInv, SymbolTypes, Tables
<1>1. /\ table' = [table EXCEPT !["symbol"] = [k \in Keys |-> Tidied(@[k])]]
      /\ UNCHANGED <<symbol, refs, literals, young>>
  BY DEF TableLoad
<1>2. table \in [Tables -> [Keys -> Seq(Cell)]]
  BY <1>0 DEF IsTable
<1>3. PICK tab : tab = table'
  OBVIOUS
<1>4. /\ \A k \in Keys : tab["symbol"][k] = Tidied(table["symbol"][k])
      /\ \A t \in Tables : t # "symbol" => tab[t] = table[t]
      /\ tab["symbol"] = [k \in Keys |-> Tidied(table["symbol"][k])]
      /\ DOMAIN tab = Tables /\ tab = [t \in Tables |-> tab[t]]
  BY <1>0, <1>1, <1>2, <1>3
<1>5. ASSUME NEW t \in Tables, NEW k \in Keys
      PROVE  /\ tab[t][k] \in Seq(Cell) /\ Members(tab[t][k]) = Members(table[t][k])
             /\ GoodChain(tab[t][k], symbol, t, k)
  <2>1. PICK c \in Seq(Cell) : c = table[t][k]
    BY <1>2
  <2>2. GoodChain(c, symbol, t, k)
    BY <1>0, <2>1 DEF GoodTable
  <2>3. CASE t = "symbol"
    <3>1. PICK places : places = Unbroken(c)
      OBVIOUS
    <3>2. tab[t][k] = Kept(c, places)
      BY <1>4, <2>1, <2>3, <3>1 DEF Tidied
    <3>3. /\ Kept(c, places) \in Seq(Cell) /\ Members(Kept(c, places)) = Members(c)
          /\ GoodChain(Kept(c, places), symbol, t, k)
      BY <2>2, <3>1, KeptChain
    <3> QED  BY <2>1, <3>2, <3>3
  <2>4. CASE t # "symbol"
    BY <1>4, <2>1, <2>2, <2>4
  <2> QED  BY <2>3, <2>4
<1>6. IsTable(tab)
  <2>1. \A t \in Tables : tab[t] \in [Keys -> Seq(Cell)]
    <3>1. ASSUME NEW t \in Tables PROVE tab[t] \in [Keys -> Seq(Cell)]
      <4>1. CASE t = "symbol"
        BY <1>4, <1>5, <4>1
      <4>2. CASE t # "symbol"
        BY <1>2, <1>4, <4>2
      <4> QED  BY <4>1, <4>2
    <3> QED  BY <3>1
  <2> QED  BY <1>4, <2>1 DEF IsTable
<1>7. GoodTable(tab, symbol)
  BY <1>5 DEF GoodTable
<1>8. \A t \in Tables : Inside(tab, t) = Inside(table, t)
  BY <1>5 DEF Inside
<1>9. Inside(tab, "symbol") = Inside(table, "symbol")
  BY <1>0, <1>8
<1>10. Remembered(tab, symbol, bound, given)
  BY <1>0, <1>9, RememberedSame
<1>11. HeldInside'
  BY <1>1, <1>3, <1>8 DEF HeldInside, SymbolInv
<1> QED  BY <1>1, <1>3, <1>6, <1>7, <1>10, <1>11 DEF SymbolInv, SymbolTypes

\* What a collection takes for dead.
Dead(major) == (IF major THEN Ids ELSE young) \ InUse

\* A symbol in a strong bucket is alive.
LEMMA DeadIsWeak ==
    ASSUME NEW major, NEW t \in Tables, NEW k \in Keys, NEW chain \in Seq(Cell), chain = table[t][k],
           NEW i \in 1 .. Len(chain), chain[i].symbol \in Dead(major)
    PROVE  chain[i].weak
<1>1. SUFFICES ASSUME ~chain[i].weak PROVE FALSE
  OBVIOUS
<1>2. i \in DOMAIN chain
  OBVIOUS
<1>3. chain[i] \in ToSet(table[t][k])
  BY <1>2 DEF ToSet
<1>4. chain[i] \in Buckets
  BY <1>3 DEF Buckets
<1>5. chain[i].symbol \in Strong
  BY <1>1, <1>4 DEF Strong
<1> QED  BY <1>5 DEF Dead, InUse

\* A collection leaves what is alive, and nothing else.
LEMMA CollectFacts ==
    ASSUME SymbolInv, NEW major, Collect(major)
    PROVE  /\ IsTable(table') /\ GoodTable(table', symbol') /\ symbol' \in [Ids -> SymbolRecord]
           /\ \A t \in Tables : Inside(table', t) = Inside(table, t) \ Dead(major)
           /\ \A id \in Ids : id \notin Dead(major) => symbol'[id] = symbol[id]
<1>0. IsTable(table) /\ GoodTable(table, symbol) /\ symbol \in [Ids -> SymbolRecord]
  BY DEF SymbolInv, SymbolTypes
<1>1. PICK dead : dead = Dead(major)
  OBVIOUS
<1>2. table' = BreakWeak(dead) /\ symbol' = [id \in Ids |-> IF id \in dead THEN Nobody ELSE symbol[id]]
  BY <1>1 DEF Collect, Dead
<1>3. PICK new : new = symbol'
  OBVIOUS
<1>4. Nobody \in SymbolRecord
  <2>1. <<>> \in Seq(Props)
    OBVIOUS
  <2> QED  BY <2>1 DEF Nobody, SymbolRecord
<1>5. new \in [Ids -> SymbolRecord] /\ \A id \in Ids : id \notin dead => new[id] = symbol[id]
  BY <1>0, <1>2, <1>3, <1>4
<1>6. PICK gone : gone = Bucket(Broken, TRUE) /\ gone \in Cell /\ gone.symbol = Broken /\ gone.weak = TRUE
  <2>1. Bucket(Broken, TRUE) \in Cell /\ Bucket(Broken, TRUE).symbol = Broken /\ Bucket(Broken, TRUE).weak = TRUE
    BY DEF Bucket, Cell
  <2> QED  BY <2>1
<1>7. Broken \notin dead
  BY <1>1 DEF Dead, Ids, Broken, SymbolInv, SymbolTypes
<1>8. ASSUME NEW t \in Tables, NEW k \in Keys
      PROVE  /\ table'[t][k] \in Seq(Cell) /\ GoodChain(table'[t][k], new, t, k)
             /\ Members(table'[t][k]) = Members(table[t][k]) \ dead
  <2>1. PICK c \in Seq(Cell) : c = table[t][k]
    BY <1>0 DEF IsTable
  <2>2. Len(c) \in Nat /\ DOMAIN c = 1 .. Len(c) /\ \A i \in 1 .. Len(c) : c[i] \in Cell
    OBVIOUS
  <2>3. PICK d : d = [i \in 1 .. Len(c) |-> IF c[i].symbol \in dead THEN gone ELSE c[i]]
    OBVIOUS
  <2>4. d \in [1 .. Len(c) -> Cell]
    BY <1>6, <2>2, <2>3
  <2>5. d \in Seq(Cell) /\ Len(d) = Len(c)
    BY <2>2, <2>4
  <2>6. \A i \in 1 .. Len(c) : d[i] = IF c[i].symbol \in dead THEN gone ELSE c[i]
    BY <2>3
  <2>7. table'[t][k] = d
    <3>1. table'[t][k] = [i \in DOMAIN table[t][k] |->
             IF table[t][k][i].symbol \in dead /\ table[t][k][i].weak THEN Bucket(Broken, TRUE) ELSE table[t][k][i]]
      BY <1>2 DEF BreakWeak
    <3>2. \A i \in 1 .. Len(c) : c[i].symbol \in dead => c[i].weak
      BY <1>1, <2>1, DeadIsWeak
    <3>3. table'[t][k] = [i \in 1 .. Len(c) |-> IF c[i].symbol \in dead /\ c[i].weak THEN gone ELSE c[i]]
      BY <1>6, <2>1, <2>2, <3>1
    <3> QED  BY <2>3, <3>2, <3>3
  <2>8. (\A i \in 1 .. Len(c) : GoodBucket(c[i], symbol, t, k)) /\ Different(c, symbol)
    BY <1>0, <2>1 DEF GoodTable, GoodChain
  <2>9. ASSUME NEW i \in 1 .. Len(c), d[i].symbol # Broken
        PROVE  d[i] = c[i] /\ c[i].symbol \notin dead /\ new[c[i].symbol] = symbol[c[i].symbol]
    <3>1. d[i] = c[i] /\ c[i].symbol \notin dead
      BY <1>6, <2>6, <2>9
    <3>2. c[i].symbol \in Ids
      BY <2>2, <2>9, <3>1 DEF Cell
    <3> QED  BY <1>5, <3>1, <3>2
  <2>10. ASSUME NEW i \in 1 .. Len(c) PROVE GoodBucket(d[i], new, t, k)
    <3>1. CASE d[i].symbol # Broken
      BY <2>8, <2>9, <3>1 DEF GoodBucket
    <3>2. CASE d[i].symbol = Broken
      <4>1. CASE c[i].symbol \in dead
        BY <1>6, <2>6, <3>2, <4>1 DEF GoodBucket
      <4>2. CASE c[i].symbol \notin dead
        <5>1. d[i] = c[i] /\ c[i].symbol = Broken
          BY <2>6, <3>2, <4>2
        <5> QED  BY <2>8, <5>1 DEF GoodBucket
      <4> QED  BY <4>1, <4>2
    <3> QED  BY <3>1, <3>2
  <2>11. Different(d, new)
    BY <2>5, <2>8, <2>9 DEF Different
  <2>12. GoodChain(d, new, t, k)
    BY <2>5, <2>10, <2>11 DEF GoodChain
  <2>13. Members(d) = Members(c) \ dead
    <3>1. ASSUME NEW i \in 1 .. Len(d), d[i].symbol # Broken
          PROVE  d[i].symbol \notin dead /\ \E j \in 1 .. Len(c) : d[i].symbol = c[j].symbol
      BY <2>5, <2>9, <3>1
    <3>2. ASSUME NEW j \in 1 .. Len(c), c[j].symbol \notin dead
          PROVE  \E i \in 1 .. Len(d) : c[j].symbol = d[i].symbol
      BY <2>5, <2>6, <3>2
    <3>3. Members(d) \subseteq Members(c) \ dead
      BY <3>1 DEF Members
    <3>4. Members(c) \ dead \subseteq Members(d)
      BY <3>2 DEF Members
    <3> QED  BY <3>3, <3>4
  <2> QED  BY <2>1, <2>5, <2>7, <2>12, <2>13
<1>9. IsTable(table')
  <2>1. table' = [t \in Tables |-> [k \in Keys |-> table'[t][k]]]
    BY <1>2 DEF BreakWeak
  <2>2. PICK tab : tab = table'
    OBVIOUS
  <2>3. tab = [t \in Tables |-> [k \in Keys |-> tab[t][k]]] /\ \A t \in Tables, k \in Keys : tab[t][k] \in Seq(Cell)
    BY <1>8, <2>1, <2>2
  <2>4. tab \in [Tables -> [Keys -> Seq(Cell)]]
    BY <2>3
  <2> QED  BY <2>2, <2>4 DEF IsTable
<1>10. GoodTable(table', new)
  BY <1>8 DEF GoodTable
<1>11. \A t \in Tables : Inside(table', t) = Inside(table, t) \ dead
  BY <1>8 DEF Inside
<1> QED  BY <1>1, <1>3, <1>5, <1>9, <1>10, <1>11

\* A collection keeps the invariant,
LEMMA CollectInv ==
    ASSUME SymbolInv, NEW major, Collect(major), UNCHANGED <<bound, given, interned>>
    PROVE  SymbolInv'
<1>0. SymbolTypes /\ GoodTable(table, symbol) /\ Remembered(table, symbol, bound, given) /\ "symbol" \in Tables
      /\ HeldInside
  BY DEF SymbolInv, Tables
<1>1. IsTable(table) /\ symbol \in [Ids -> SymbolRecord] /\ refs \in SUBSET Ids /\ literals \in SUBSET Ids
      /\ interned \in [Ids -> Tables \cup {"none"}]
  BY <1>0 DEF SymbolTypes
<1>2. young' = {} /\ refs' = refs /\ literals' = literals
  BY DEF Collect
<1>3. PICK dead : dead = Dead(major)
  OBVIOUS
<1>4. PICK tab : tab = table'
  OBVIOUS
<1>5. PICK new : new = symbol'
  OBVIOUS
<1>6. /\ IsTable(tab) /\ GoodTable(tab, new) /\ new \in [Ids -> SymbolRecord]
      /\ \A t \in Tables : Inside(tab, t) = Inside(table, t) \ dead
      /\ \A id \in Ids : id \notin dead => new[id] = symbol[id]
  BY <1>3, <1>4, <1>5, CollectFacts
<1>7. dead \cap (refs \cup literals) = {}
  BY <1>3 DEF Dead, InUse
<1>8. HeldInside'
  <2>1. \A o \in refs \cup literals : \A t \in Tables : o \in Inside(tab, t) <=> o \in Inside(table, t)
    BY <1>6, <1>7
  <2> QED  BY <1>0, <1>2, <1>4, <2>1 DEF HeldInside
<1>9. ASSUME NEW id \in Inside(table, "symbol"), id \in dead
      PROVE  symbol[id].value = Unbound /\ symbol[id].plist = <<>>
  <2>1. id \in Ids /\ Hash[symbol[id].name] \in Keys /\ ~symbol[id].keyword
    <3>1. symbol[id].keyword <=> "symbol" = "keyword"
      BY <1>0, <1>1, InsideAt
    <3> QED  BY <1>0, <1>1, <3>1, InsideAt DEF SymbolTypes
  <2>2. PICK k \in Keys : k = Hash[symbol[id].name]
    BY <2>1
  <2>3. PICK c \in Seq(Cell) : c = table["symbol"][k]
    BY <1>0, <1>1 DEF IsTable
  <2>4. PICK i \in 1 .. Len(c) : c[i].symbol = id /\ (c[i].weak <=> Worthless(symbol[id]))
    <3> DEFINE d == table["symbol"][Hash[symbol[id].name]]
    <3>1. \E i \in 1 .. Len(d) : d[i].symbol = id /\ (d[i].weak <=> Worthless(symbol[id]))
      BY <1>0, <1>1, InsideAt
    <3>2. d = c
      BY <2>2, <2>3
    <3> HIDE DEF d
    <3> QED  BY ONLY <3>1, <3>2
  <2>5. c[i].weak
    BY <1>0, <1>3, <1>9, <2>3, <2>4, DeadIsWeak
  <2> QED  BY <2>1, <2>4, <2>5 DEF Worthless, Persistable
<1>10. Remembered(tab, new, bound, given)
  <2>1. Inside(tab, "symbol") = Inside(table, "symbol") \ dead
    BY <1>0, <1>6
  <2>2. \A o \in Inside(table, "symbol") : o \in Ids
    BY <1>0, <1>1, InsideAt
  <2>3. \A o \in Inside(tab, "symbol") : new[o] = symbol[o]
    BY <1>6, <2>1, <2>2
  <2>4. \A o \in Inside(table, "symbol") : o \in dead =>
            ~(symbol[o].value # Unbound) /\ \A p : p \notin ToSet(symbol[o].plist)
    BY <1>9 DEF ToSet
  <2>5. ASSUME NEW n \in Names
        PROVE  /\ n \in bound <=> \E o \in Inside(table, "symbol") : symbol[o].name = n /\ symbol[o].value # Unbound
               /\ \A p \in Props : <<n, p>> \in given <=>
                      \E o \in Inside(table, "symbol") : symbol[o].name = n /\ p \in ToSet(symbol[o].plist)
    BY <1>0 DEF Remembered
  <2>6. ASSUME NEW n \in Names
        PROVE  n \in bound <=> \E o \in Inside(tab, "symbol") : new[o].name = n /\ new[o].value # Unbound
    BY <2>1, <2>3, <2>4, <2>5
  <2>7. ASSUME NEW n \in Names, NEW p \in Props
        PROVE  <<n, p>> \in given <=> \E o \in Inside(tab, "symbol") : new[o].name = n /\ p \in ToSet(new[o].plist)
    BY <2>1, <2>3, <2>4, <2>5
  <2> QED  BY <2>6, <2>7 DEF Remembered
<1> QED  BY <1>1, <1>2, <1>4, <1>5, <1>6, <1>8, <1>10 DEF SymbolInv, SymbolTypes

\* and takes what nobody refers to and has nothing to lose.
LEMMA CollectedGarbage ==
    ASSUME SymbolInv PROVE GarbageSymbolsGone
<1>1. SUFFICES ASSUME Collect(TRUE), NEW id \in Ids, id \notin refs \cup literals,
                      ~Persistable(symbol[id]), ~symbol[id].permanent,
                      NEW t \in Tables, NEW k \in Keys, NEW i \in DOMAIN table'[t][k],
                      table'[t][k][i].symbol = id
               PROVE  FALSE
  BY DEF GarbageSymbolsGone
<1>2. IsTable(table) /\ GoodTable(table, symbol)
  BY DEF SymbolInv, SymbolTypes
<1>3. id \notin Strong
  <2>1. SUFFICES ASSUME NEW b \in Buckets, ~b.weak, b.symbol = id PROVE FALSE
    BY DEF Strong
  <2>2. PICK u \in Tables, l \in Keys : b \in ToSet(table[u][l])
    BY DEF Buckets
  <2>3. PICK c \in Seq(Cell) : c = table[u][l]
    BY <1>2 DEF IsTable
  <2>4. PICK j \in 1 .. Len(c) : b = c[j]
    BY <2>2, <2>3 DEF ToSet
  <2>5. GoodBucket(c[j], symbol, u, l)
    BY <1>2, <2>3 DEF GoodTable, GoodChain
  <2>6. id # Broken
    BY DEF Ids, Broken
  <2> QED  BY <1>1, <2>1, <2>4, <2>5, <2>6 DEF GoodBucket, Worthless
<1>4. id \in Dead(TRUE)
  BY <1>1, <1>3 DEF Dead, InUse
<1>5. PICK tab : tab = table'
  OBVIOUS
<1>6. IsTable(tab) /\ id \notin Inside(tab, t)
  BY <1>1, <1>4, <1>5, CollectFacts
<1>7. PICK c \in Seq(Cell) : c = tab[t][k]
  BY <1>6 DEF IsTable
<1>8. i \in 1 .. Len(tab[t][k]) /\ tab[t][k][i].symbol # Broken
  BY <1>1, <1>5, <1>7 DEF Ids, Broken
<1>9. tab[t][k][i].symbol \in Inside(tab, t)
  BY <1>8, AtInside
<1> QED  BY <1>1, <1>5, <1>6, <1>9

-----------------------------------------------------------------------------
(***************************************************************************)
(* The theorems.                                                           *)
(***************************************************************************)

\* The invariant holds at the start,
LEMMA InitSymbols == SymbolSystemInit => SymbolInv
<1> SUFFICES ASSUME SymbolSystemInit PROVE SymbolInv
  OBVIOUS
<1>1. /\ table = [t \in Tables |-> [k \in Keys |-> <<>>]] /\ symbol = [id \in Ids |-> Nobody]
      /\ refs = {} /\ literals = {} /\ young = {} /\ bound = {} /\ given = {}
      /\ interned = [id \in Ids |-> "none"]
  BY DEF SymbolSystemInit, SymbolInit, MeaningInit
<1>2. <<>> \in Seq(Cell) /\ Len(<<>>) = 0 /\ <<>> \in Seq(Props)
  OBVIOUS
<1>3. Nobody \in SymbolRecord
  BY <1>2 DEF Nobody, SymbolRecord
<1>4. SymbolTypes
  BY <1>1, <1>2, <1>3 DEF SymbolTypes, IsTable
<1>5. \A t \in Tables, k \in Keys : table[t][k] = <<>>
  BY <1>1
<1>6. \A i \in 1 .. Len(<<>>) : FALSE
  BY <1>2
<1>7. GoodTable(table, symbol)
  BY <1>5, <1>6 DEF GoodTable, GoodChain, Different
<1>8. \A t \in Tables : Inside(table, t) = {}
  BY <1>5, <1>6 DEF Inside, Members
<1>9. "symbol" \in Tables
  BY DEF Tables
<1>10. Remembered(table, symbol, bound, given)
  BY <1>1, <1>8, <1>9 DEF Remembered
<1>11. HeldInside
  BY <1>1 DEF HeldInside
<1> QED  BY <1>4, <1>7, <1>10, <1>11 DEF SymbolInv

\* and every step keeps it.
LEMMA StepSymbols == SymbolAssumption /\ SymbolInv /\ [MeaningNext]_symbolVars => SymbolInv'
<1> SUFFICES ASSUME SymbolAssumption, SymbolInv, [MeaningNext]_symbolVars PROVE SymbolInv'
  OBVIOUS
<1>1. CASE UNCHANGED symbolVars
  <2>1. /\ table' = table /\ symbol' = symbol /\ refs' = refs /\ literals' = literals /\ young' = young
        /\ bound' = bound /\ given' = given /\ interned' = interned
    BY <1>1 DEF symbolVars
  <2> QED  BY <2>1 DEF SymbolInv, SymbolTypes, HeldInside
<1>2. ASSUME NEW t \in Tables, NEW name \in Names,
             Intern(t, name) \/ HIntern(t, name) \/ Find(t, name),
             interned' = [id \in Ids |-> IF id \in (refs' \cup literals') \ (refs \cup literals) THEN t ELSE interned[id]],
             UNCHANGED <<bound, given>>
      PROVE  SymbolInv'
  <2>1. Noted(t)
    BY <1>2 DEF Noted
  <2> QED  BY <1>2, <2>1, InternInv, HInternInv, FindInv
<1>3. ASSUME NEW name \in Names, MakeSymbol(name), UNCHANGED <<bound, given>>,
             interned' = [id \in Ids |-> IF id \in refs' \ refs THEN "none" ELSE interned[id]]
      PROVE  SymbolInv'
  BY <1>3, MakeSymbolInv
<1>4. ASSUME NEW id \in refs,
             \/ Forget(id) /\ UNCHANGED <<bound, given>>
             \/ /\ Mutable(id) /\ SetGlobal(id)
                /\ bound' = bound \cup (IF Interned(id) THEN {Meant(id)} ELSE {}) /\ UNCHANGED given
             \/ \E p \in Props :
                    /\ Mutable(id) /\ PutProp(id, p)
                    /\ given' = given \cup (IF Interned(id) THEN {<<Meant(id), p>>} ELSE {}) /\ UNCHANGED bound
             \/ \E p \in Props :
                    /\ Mutable(id) /\ RemProp(id, p)
                    /\ given' = given \ (IF Interned(id) THEN {<<Meant(id), p>>} ELSE {}) /\ UNCHANGED bound
             \/ \E ps \in {<<>>} \cup {<<p>> : p \in Props} :
                    /\ Mutable(id) /\ SetPlist(id, ps)
                    /\ given' = IF Interned(id)
                                THEN {g \in given : g[1] # Meant(id)} \cup {<<Meant(id), p>> : p \in ToSet(ps)}
                                ELSE given
                    /\ UNCHANGED bound,
             HoldsStill
      PROVE  SymbolInv'
  <2>1. CASE Forget(id) /\ UNCHANGED <<bound, given>>
    BY <1>4, <2>1, ForgetInv
  <2>2. CASE /\ Mutable(id) /\ SetGlobal(id)
             /\ bound' = bound \cup (IF Interned(id) THEN {Meant(id)} ELSE {}) /\ UNCHANGED given
    BY <1>4, <2>2, SetGlobalInv
  <2>3. ASSUME NEW p \in Props, Mutable(id), PutProp(id, p), UNCHANGED bound,
               given' = given \cup (IF Interned(id) THEN {<<Meant(id), p>>} ELSE {})
        PROVE  SymbolInv'
    BY <1>4, <2>3, PutPropInv
  <2>4. ASSUME NEW p \in Props, Mutable(id), RemProp(id, p), UNCHANGED bound,
               given' = given \ (IF Interned(id) THEN {<<Meant(id), p>>} ELSE {})
        PROVE  SymbolInv'
    BY <1>4, <2>4, RemPropInv
  <2>5. ASSUME NEW ps \in {<<>>} \cup {<<p>> : p \in Props}, Mutable(id), SetPlist(id, ps), UNCHANGED bound,
               given' = IF Interned(id)
                        THEN {g \in given : g[1] # Meant(id)} \cup {<<Meant(id), p>> : p \in ToSet(ps)}
                        ELSE given
        PROVE  SymbolInv'
    <3>1. ps \in Seq(Props)
      <4>1. <<>> \in Seq(Props) /\ \A p \in Props : <<p>> \in Seq(Props)
        OBVIOUS
      <4>2. ps = <<>> \/ \E p \in Props : ps = <<p>>
        BY <2>5
      <4> QED  BY <4>1, <4>2
    <3> QED  BY <1>4, <2>5, <3>1, SetPlistInv
  <2> QED  BY <1>4, <2>1, <2>2, <2>3, <2>4, <2>5
<1>5. ASSUME TableLoad \/ Collect(TRUE) \/ Collect(FALSE), UNCHANGED <<bound, given, interned>>
      PROVE  SymbolInv'
  BY <1>5, TableLoadInv, CollectInv
<1>6. CASE MeaningNext
  BY <1>2, <1>3, <1>4, <1>5, <1>6 DEF MeaningNext, HoldsStill
<1> QED  BY <1>1, <1>6

\* The invariant holds always.
LEMMA SymbolInvariant == SymbolSpec => []SymbolInv
<1>1. SymbolSystemInit => SymbolInv
  BY InitSymbols
<1>2. SymbolInv /\ [MeaningNext]_symbolVars => SymbolInv'
  BY SymbolAssumption, StepSymbols
<1> QED  BY <1>1, <1>2, PTL DEF SymbolSpec

\* What the program has set is found by the name.
LEMMA InvRemembers == SymbolInv => NothingForgotten
<1> SUFFICES ASSUME SymbolInv, NEW name \in Names PROVE Remembers(name)
  BY DEF NothingForgotten
<1>0. SymbolTypes /\ GoodTable(table, symbol) /\ IsTable(table) /\ "symbol" \in Tables
  BY DEF SymbolInv, SymbolTypes, Tables
<1>1. PICK id : id = Lookup("symbol", name).symbol
  OBVIOUS
<1>2. /\ id = Broken => \A o \in Inside(table, "symbol") : symbol[o].name # name
      /\ id # Broken => id \in Inside(table, "symbol") /\ symbol[id].name = name
  BY <1>0, <1>1, LookupFacts
<1>3. /\ name \in bound <=> \E o \in Inside(table, "symbol") : symbol[o].name = name /\ symbol[o].value # Unbound
      /\ \A p \in Props : <<name, p>> \in given <=>
             \E o \in Inside(table, "symbol") : symbol[o].name = name /\ p \in ToSet(symbol[o].plist)
  BY DEF SymbolInv, Remembered
<1>4. CASE id = Broken
  BY <1>1, <1>2, <1>3, <1>4 DEF Remembers
<1>5. CASE id # Broken
  <2>1. \A o \in Inside(table, "symbol") : symbol[o].name = name => o = id
    BY <1>0, <1>2, <1>5, InsideOnce
  <2>2. \A p \in Props : GetProp(id, p) <=> p \in ToSet(symbol[id].plist)
    BY DEF GetProp, PropAt, ToSet
  <2>3. (symbol[id].value # Unbound) <=> name \in bound
    BY <1>2, <1>3, <1>5, <2>1
  <2>4. \A p \in Props : GetProp(id, p) <=> <<name, p>> \in given
    BY <1>2, <1>3, <1>5, <2>1, <2>2
  <2> QED  BY <1>1, <1>5, <2>3, <2>4 DEF Remembers
<1> QED  BY <1>4, <1>5

\* There is one symbol of a name.
LEMMA InvOneSymbol == SymbolInv => OneSymbolPerName
<1> SUFFICES ASSUME SymbolInv PROVE OneSymbolPerName
  OBVIOUS
<1>0. SymbolTypes /\ GoodTable(table, symbol) /\ IsTable(table)
  BY DEF SymbolInv, SymbolTypes
<1>1. ASSUME NEW id \in refs \cup literals, interned[id] # "none"
      PROVE  Lookup(interned[id], symbol[id].name).symbol = id
  <2>1. PICK t \in Tables : t = interned[id]
    BY <1>0, <1>1 DEF SymbolTypes
  <2>2. id \in Inside(table, t)
    BY <2>1 DEF SymbolInv, HeldInside
  <2>3. PICK name \in Names : name = symbol[id].name
    BY <1>0, <2>2, InsideAt
  <2>4. Lookup(t, name).symbol # Broken
    BY <1>0, <2>2, <2>3, LookupFacts
  <2>5. Lookup(t, name).symbol \in Inside(table, t) /\ symbol[Lookup(t, name).symbol].name = name
    BY <1>0, <2>4, LookupFacts
  <2>6. Lookup(t, name).symbol = id
    BY <1>0, <2>2, <2>3, <2>5, InsideOnce
  <2> QED  BY <2>1, <2>3, <2>6
<1>2. ASSUME NEW t \in Tables, NEW name \in Names
      PROVE  Cardinality(Hits(Chain(t, name), name)) <= 1
  <2>1. PICK k \in Keys : k = Hash[name]
    BY DEF Keys
  <2>2. PICK c \in Seq(Cell) : c = Chain(t, name) /\ c = table[t][k]
    BY <1>0, <2>1 DEF IsTable, Chain
  <2>3. Different(c, symbol)
    BY <1>0, <2>2 DEF GoodTable, GoodChain
  <2>4. PICK hits : hits = Hits(c, name)
    OBVIOUS
  <2>5. \A i, j \in hits : i = j
    BY <2>3, <2>4 DEF Different, Hits
  <2>6. CASE hits = {}
    BY <2>2, <2>4, <2>6, FS_EmptySet
  <2>7. CASE hits # {}
    <3>0. PICK i \in hits : TRUE
      BY <2>7
    <3>1. hits = {i}
      BY <2>5, <3>0
    <3>2. Cardinality(hits) = 1
      BY <3>1, FS_Singleton
    <3> QED  BY <2>2, <2>4, <3>2
  <2> QED  BY <2>6, <2>7
<1> QED  BY <1>1, <1>2 DEF OneSymbolPerName

\* However symbols are interned, set, given properties, let go of and
\* collected, a name has one symbol, and whoever interns it again finds there
\* what the program has set (lookup, add_symbol, C_i_persist_symbol,
\* C_i_unpersist_symbol, update_weak_pairs).
THEOREM SymbolsAreKept == SymbolSpec => []SymbolsPersist
<1>1. SymbolInv => SymbolsPersist
  BY InvRemembers, InvOneSymbol DEF SymbolsPersist
<1> QED  BY <1>1, SymbolInvariant, PTL

\* A major collection takes every symbol that nobody refers to and that has
\* nothing to lose, so that no bucket is left strong for nothing.
THEOREM GarbageSymbolsTaken == SymbolSpec => GarbageSymbolsGo
<1>1. SymbolInv => [GarbageSymbolsGone]_symbolVars
  BY CollectedGarbage
<1>2. SymbolInv /\ [MeaningNext]_symbolVars => [GarbageSymbolsGone]_symbolVars
  BY <1>1
<1> QED  BY <1>2, SymbolInvariant, PTL DEF SymbolSpec, GarbageSymbolsGo
=============================================================================
