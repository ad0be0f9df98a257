--------------------------- MODULE FinalizersProofs ---------------------------
(***************************************************************************)
(* Proofs about finalizers, for every number of threads, objects and       *)
(* registrations, every length of the table of pending finalizers and      *)
(* every outcome of growing it.                                            *)
(***************************************************************************)
EXTENDS Finalizers, FiniteSetTheorems, FunctionTheorems, SequenceTheorems,
        WellFoundedInduction, TLAPS

-----------------------------------------------------------------------------
(***************************************************************************)
(* Sequences.                                                              *)
(***************************************************************************)

\* The places of a set of numbers up to n are numbered in their order.
LEMMA Ranks ==
    ASSUME NEW n \in Nat, NEW at \in SUBSET (1..n)
    PROVE  LET rank(i) == Cardinality({ j \in at : j <= i })
           IN  /\ Cardinality(at) \in Nat
               /\ \A i \in at : rank(i) \in 1..Cardinality(at)
               /\ \A i, j \in at : rank(i) = rank(j) => i = j
               /\ \A k \in 1..Cardinality(at) : \E i \in at : rank(i) = k
<1> DEFINE upTo(i) == { j \in at : j <= i }
           rank(i) == Cardinality(upTo(i))
           f == [i \in at |-> rank(i)]
           c == Cardinality(at)
<1>0. \A i \in at : i \in Nat
  OBVIOUS
<1>1. IsFiniteSet(at) /\ c \in Nat
  <2>1. IsFiniteSet(1..n)
    BY FS_Interval
  <2>2. IsFiniteSet(at)
    BY <2>1, FS_Subset
  <2> QED  BY <2>2, FS_CardinalityType
<1>2. ASSUME NEW i \in at
      PROVE  /\ IsFiniteSet(upTo(i)) /\ rank(i) \in Nat /\ rank(i) <= c /\ rank(i) # 0
  <2>1. IsFiniteSet(upTo(i)) /\ rank(i) \in Nat /\ rank(i) <= c
    BY <1>1, FS_Subset, FS_CardinalityType
  <2>2. i \in upTo(i)
    OBVIOUS
  <2>3. upTo(i) # {}
    BY <2>2
  <2> QED  BY <2>1, <2>3, FS_EmptySet
<1>3. \A i \in at : rank(i) \in 1..c
  BY <1>1, <1>2
<1>4. ASSUME NEW i \in at, NEW j \in at, i < j PROVE rank(i) # rank(j)
  <2>1. upTo(i) \in SUBSET upTo(j) /\ j \in upTo(j) /\ j \notin upTo(i)
    <3>1. \A k \in at : k <= i => k <= j
      BY <1>0, <1>4
    <3>2. j <= j /\ ~(j <= i)
      BY <1>0, <1>4
    <3> QED  BY <3>1, <3>2
  <2>2. upTo(i) # upTo(j)
    BY <2>1
  <2> HIDE DEF upTo
  <2> QED  BY <1>2, <2>1, <2>2, FS_Subset
<1>5. \A i, j \in at : rank(i) = rank(j) => i = j
  <2> SUFFICES ASSUME NEW i \in at, NEW j \in at, rank(i) = rank(j), i # j PROVE FALSE
    OBVIOUS
  <2>1. i < j \/ j < i
    OBVIOUS
  <2> QED  BY <1>4, <2>1
<1>6. f \in Injection(at, 1..c)
  <2> HIDE DEF rank, c
  <2>1. f \in [at -> 1..c]
    BY <1>3
  <2>2. \A i, j \in at : f[i] = f[j] => i = j
    BY <1>5
  <2> QED  BY <2>1, <2>2 DEF Injection, IsInjective
<1>7. IsFiniteSet(1..c) /\ Cardinality(1..c) = c
  BY <1>1, FS_Interval
<1>8. f \in Surjection(at, 1..c)
  BY <1>6, <1>7, FS_Injection
<1>9. \A k \in 1..c : \E i \in at : rank(i) = k
  <2> SUFFICES ASSUME NEW k \in 1..c PROVE \E i \in at : rank(i) = k
    OBVIOUS
  <2> HIDE DEF rank
  <2>1. PICK i \in at : f[i] = k
    BY <1>8 DEF Surjection
  <2> QED  BY <2>1
<1> QED  BY <1>1, <1>3, <1>5, <1>9

\* Those lists the elements of s that are in S, each as often as s does.
LEMMA ThoseElements ==
    ASSUME NEW T, NEW s \in Seq(T), NEW S
    PROVE  /\ Those(s, S) \in Seq(T)
           /\ ToSet(Those(s, S)) = ToSet(s) \cap S
           /\ IsInjective(s) => IsInjective(Those(s, S))
<1> DEFINE at == { i \in DOMAIN s : s[i] \in S }
           rank(i) == Cardinality({ j \in at : j <= i })
           c == Cardinality(at)
           place(k) == CHOOSE i \in at : rank(i) = k
           r == Those(s, S)
<1>1. r = [k \in 1..c |-> s[place(k)]]
  BY DEF Those
<1>2. at \in SUBSET (1..Len(s)) /\ Len(s) \in Nat /\ DOMAIN s = 1..Len(s)
  OBVIOUS
<1>3. /\ c \in Nat
      /\ \A i \in at : rank(i) \in 1..c
      /\ \A i, j \in at : rank(i) = rank(j) => i = j
      /\ \A k \in 1..c : \E i \in at : rank(i) = k
  <2> HIDE DEF at
  <2> QED  BY <1>2, Ranks
<1>4. ASSUME NEW k \in 1..c PROVE place(k) \in at /\ rank(place(k)) = k
  <2> HIDE DEF at, rank
  <2> QED  BY <1>3
<1>5. ASSUME NEW i \in at PROVE rank(i) \in 1..c /\ place(rank(i)) = i
  <2> HIDE DEF at, rank, place, c
  <2>1. rank(i) \in 1..c
    BY <1>3
  <2> QED  BY <1>3, <1>4, <2>1
<1>6. \A i \in at : s[i] \in T /\ s[i] \in S
  BY <1>2
<1> HIDE DEF r, place, rank, c
<1>7. r \in Seq(T)
  <2>1. \A k \in 1..c : s[place(k)] \in T
    BY <1>4, <1>6
  <2>2. r \in [1..c -> T]
    BY <1>1, <2>1
  <2> QED  BY <1>3, <2>2
<1>8. ToSet(r) = ToSet(s) \cap S
  <2>1. ASSUME NEW x \in ToSet(r) PROVE x \in ToSet(s) \cap S
    <3>1. PICK k \in 1..c : x = s[place(k)]
      BY <1>1 DEF ToSet
    <3>2. place(k) \in at
      BY <1>4
    <3> QED  BY <3>1, <3>2 DEF ToSet
  <2>2. ASSUME NEW x \in ToSet(s) \cap S PROVE x \in ToSet(r)
    <3>1. PICK i \in DOMAIN s : x = s[i]
      BY DEF ToSet
    <3>2. i \in at
      BY <3>1
    <3>3. rank(i) \in 1..c /\ s[place(rank(i))] = x
      BY <1>5, <3>1, <3>2
    <3>4. DOMAIN r = 1..c /\ r[rank(i)] = x
      BY <1>1, <3>3
    <3> QED  BY <3>3, <3>4 DEF ToSet
  <2> QED  BY <2>1, <2>2
<1>9. ASSUME IsInjective(s) PROVE IsInjective(r)
  <2> SUFFICES ASSUME NEW k \in 1..c, NEW l \in 1..c, r[k] = r[l] PROVE k = l
    BY <1>1 DEF IsInjective
  <2>1. place(k) \in DOMAIN s /\ place(l) \in DOMAIN s
    BY <1>4
  <2>2. s[place(k)] = s[place(l)]
    BY <1>1
  <2>3. place(k) = place(l)
    BY <1>9, <2>1, <2>2 DEF IsInjective
  <2> QED  BY <1>4, <2>3
<1> QED  BY <1>7, <1>8, <1>9 DEF r

\* The entries that a collection moves into the empty table.
LEMMA QueuedElements ==
    ASSUME TypeOK
    PROVE  /\ Queued \in Seq(registered)
           /\ IsInjective(Queued)
           /\ Len(Queued) <= maxPending
           /\ ToSet(Queued) \subseteq ToSet(finalizerList)
<1> DEFINE S == { n \in ToSet(finalizerList) : nodes[n] \notin Roots }
           dead == Those(finalizerList, S)
           m == IF Len(dead) < maxPending THEN Len(dead) ELSE maxPending
<1>1. /\ dead \in Seq(registered) /\ IsInjective(dead)
      /\ ToSet(dead) \subseteq ToSet(finalizerList)
  <2>1. finalizerList \in Seq(registered) /\ IsInjective(finalizerList)
    BY DEF TypeOK
  <2> HIDE DEF S
  <2> QED  BY <2>1, ThoseElements
<1>2. Queued = SubSeq(dead, 1, m)
  BY DEF Queued
<1> HIDE DEF dead
<1>3. m \in Nat /\ m <= Len(dead) /\ m <= maxPending
  BY <1>1 DEF TypeOK
<1> HIDE DEF m
<1>4. \A i \in 1..m : dead[i] \in registered
  BY <1>1, <1>3
<1>5. /\ Queued \in Seq(registered) /\ Len(Queued) = m
      /\ \A i \in 1..m : Queued[i] = dead[i]
  <2>1. /\ SubSeq(dead, 1, m) \in Seq(registered)
        /\ Len(SubSeq(dead, 1, m)) = IF 1 <= m THEN m - 1 + 1 ELSE 0
        /\ \A i \in 1..m - 1 + 1 : SubSeq(dead, 1, m)[i] = dead[1 + i - 1]
    BY <1>3, <1>4, SubSeqProperties
  <2> QED  BY <1>2, <1>3, <2>1
<1>6. DOMAIN Queued = 1..m /\ \A i \in 1..m : i \in DOMAIN dead
  BY <1>1, <1>3, <1>5
<1>7. IsInjective(Queued)
  BY <1>1, <1>5, <1>6 DEF IsInjective
<1>8. ToSet(Queued) \subseteq ToSet(dead)
  BY <1>5, <1>6 DEF ToSet
<1> QED  BY <1>1, <1>3, <1>5, <1>7, <1>8

\* A set of numbers that is not empty has a least one,
LEMMA LeastNat ==
    ASSUME NEW S \in SUBSET Nat, S # {}
    PROVE  \E n \in S : \A m \in S : n <= m
<1>1. IsWellFoundedOn(OpToRel(<, Nat), Nat)
  BY NatLessThanWellFounded
<1>2. PICK n \in S : \A m \in S : ~(<<m, n>> \in OpToRel(<, Nat))
  BY <1>1, WFMin
<1>3. \A m \in S : ~(m < n)
  BY <1>2 DEF OpToRel
<1> QED  BY <1>3

\* and a set of places in a sequence has a last one.
LEMMA GreatestNat ==
    ASSUME NEW n \in Nat, NEW S \in SUBSET (1..n), S # {}
    PROVE  \E i \in S : \A k \in S : k <= i
<1> DEFINE B == { b \in Nat : \A k \in S : k <= b }
<1>1. n \in B
  OBVIOUS
<1>2. PICK b \in B : \A c \in B : b <= c
  <2>1. B \in SUBSET Nat /\ B # {}
    BY <1>1
  <2> HIDE DEF B
  <2> QED  BY <2>1, LeastNat
<1>3. b \in Nat /\ \A k \in S : k <= b /\ k \in Nat \ {0}
  BY <1>2
<1>4. b \in S
  <2> SUFFICES ASSUME b \notin S PROVE FALSE
    OBVIOUS
  <2>1. b # 0
    <3>1. PICK k \in S : k <= b /\ k \in Nat \ {0}
      BY <1>3
    <3> QED  BY <3>1
  <2>2. b - 1 \in Nat /\ \A k \in S : k <= b - 1
    BY <1>3, <2>1
  <2>3. b - 1 \in B
    BY <2>2
  <2> QED  BY <1>2, <1>3, <2>3
<1> QED  BY <1>3, <1>4

\* Two more elements at the end of a sequence.
LEMMA TwoMore ==
    ASSUME NEW T, NEW s \in Seq(T), NEW x \in T, NEW y \in T
    PROVE  s \o <<x, y>> = Append(Append(s, x), y)
<1>1. <<x, y>> \in Seq(T) /\ Len(<<x, y>>) = 2 /\ Len(s) \in Nat
  OBVIOUS
<1>2. /\ Append(s, x) \in Seq(T) /\ Len(Append(s, x)) = Len(s) + 1
      /\ Append(s, x)[Len(s) + 1] = x
      /\ \A i \in 1..Len(s) : Append(s, x)[i] = s[i]
  BY AppendProperties
<1> DEFINE r == Append(Append(s, x), y)
           c == s \o <<x, y>>
<1>3. /\ r \in Seq(T) /\ Len(r) = Len(s) + 2 /\ r[Len(s) + 2] = y /\ r[Len(s) + 1] = x
      /\ \A i \in 1..Len(s) : r[i] = s[i]
  BY <1>1, <1>2, AppendProperties
<1>4. /\ c \in Seq(T) /\ Len(c) = Len(s) + 2
      /\ \A i \in 1..Len(s) + 2 : c[i] = IF i <= Len(s) THEN s[i] ELSE <<x, y>>[i - Len(s)]
  BY <1>1, ConcatProperties
<1> HIDE DEF r, c
<1>5. ASSUME NEW i \in 1..Len(s) + 2 PROVE c[i] = r[i]
  <2>1. CASE i <= Len(s)
    BY <1>1, <1>3, <1>4, <2>1
  <2>2. CASE i = Len(s) + 1
    <3>1. ~(i <= Len(s)) /\ i - Len(s) = 1
      BY <1>1, <2>2
    <3> QED  BY <1>3, <1>4, <2>2, <3>1
  <2>3. CASE i = Len(s) + 2
    <3>1. ~(i <= Len(s)) /\ i - Len(s) = 2
      BY <1>1, <2>3
    <3> QED  BY <1>3, <1>4, <2>3, <3>1
  <2> QED  BY <1>1, <2>1, <2>2, <2>3
<1>6. c = r
  BY <1>3, <1>4, <1>5, SeqEqual
<1> QED  BY <1>6 DEF c, r

-----------------------------------------------------------------------------
(***************************************************************************)
(* The inductive invariant.                                                *)
(***************************************************************************)
\* A procedure that is going to make a registration.
Waits(f) == f.op \in {"resized", "copied", "register"}

\* How many entries of the table a loop has called the finalizers of.
Called(f) == IF f.op = "handler" THEN f.i + 1 ELSE f.i

\* Registrations: a finalizer runs for one that was made, and is made for one
\* that was not.
NodeOK(f) ==
    /\ f.op = "handler" => f.node \in registered
    /\ Waits(f) => f.node \in DOMAIN nodes \ registered

\* While the table grows: the copy of the old table may be stale, but the
\* registrations in it are not in the list again.
CopyOK(f) ==
    /\ f.op \in {"resized", "copied"} => maxPending > InitialMax
    /\ f.op = "copied" =>
           /\ f.copy \in Seq(registered) /\ IsInjective(f.copy)
           /\ Len(f.copy) <= maxPending
           /\ ToSet(f.copy) \cap ToSet(finalizerList) = {}

\* The objects that a procedure in progress knows are in memory.
KeptOK(f) ==
    /\ Waits(f) \/ f.op = "handler" => nodes[f.node] \notin freed
    /\ f.op = "copied" => \A n \in ToSet(f.copy) : nodes[n] \notin freed

\* A loop goes over the whole table, which stays as it is until the end.
LoopOK(f) ==
    TableKept /\ InLoop(f) =>
        /\ f.c = Len(table) /\ table # <<>>
        /\ \A k \in DOMAIN table : ran[table[k]] > 0 <=> k <= Called(f)

FrameOK(f) == NodeOK(f) /\ CopyOK(f) /\ KeptOK(f) /\ LoopOK(f)
FramesOK == \A t \in Thread : \A i \in DOMAIN frames[t] : FrameOK(frames[t][i])

\* Each registration is going to be made by one procedure at most.
NodesApart ==
    \A t, u \in Thread : \A i \in DOMAIN frames[t], j \in DOMAIN frames[u] :
        Waits(frames[t][i]) /\ Waits(frames[u][j]) /\ frames[t][i].node = frames[u][j].node
            => t = u /\ i = j

\* List and table.
ListOK ==
    /\ maxPending >= InitialMax
    /\ ToSet(finalizerList) \cap ToSet(table) = {}
    /\ \A n \in NodeId : n \notin registered \/ n \in ToSet(finalizerList) => ran[n] = 0
    /\ TableKept /\ workingThread = None => \A k \in DOMAIN table : ran[table[k]] = 0
    /\ TableKept => CalledOnce /\ NoneForgotten

\* What the program reaches, and what is in the list or in the table, is in
\* memory.
MemoryOK ==
    /\ held \cap freed = {}
    /\ \A n \in ToSet(finalizerList) \cup ToSet(table) : nodes[n] \notin freed

IInv == TypeOK /\ OneLoop /\ FramesOK /\ NodesApart /\ ListOK /\ MemoryOK

-----------------------------------------------------------------------------
(***************************************************************************)
(* Frames.                                                                 *)
(***************************************************************************)
Plain(f) == f.op \in {"force", "forced", "tasks", "live", "quit"}

\* What a frame is made of.
LEMMA FrameFields ==
    ASSUME NEW f \in FrameType
    PROVE  /\ f.op \in {"resized", "copied", "register", "force", "forced", "tasks",
                        "live", "quit", "finalize", "handler"}
           /\ Waits(f) \/ f.op = "handler" => f.node \in NodeId
           /\ f.op = "copied" => f.copy \in Seq(NodeId)
           /\ InLoop(f) => f.i \in Nat /\ f.c \in Nat
           /\ Plain(f) => f.owed \in SUBSET NodeId
<1>1. CASE f \in [op : {"resized", "register"}, node : NodeId]
  BY <1>1 DEF Waits, InLoop, Plain
<1>2. CASE f \in [op : {"copied"}, node : NodeId, copy : Seq(NodeId)]
  BY <1>2 DEF Waits, InLoop, Plain
<1>3. CASE f \in [op : {"force", "forced", "tasks", "live", "quit"}, owed : SUBSET NodeId]
  BY <1>3 DEF Waits, InLoop, Plain
<1>4. CASE f \in [op : {"finalize"}, i : Nat, c : Nat]
  BY <1>4 DEF Waits, InLoop, Plain
<1>5. CASE f \in [op : {"handler"}, i : Nat, c : Nat, node : NodeId]
  BY <1>5 DEF Waits, InLoop, Plain
<1> QED  BY <1>1, <1>2, <1>3, <1>4, <1>5 DEF FrameType

\* A plain frame has nothing to do with the table.
LEMMA PlainOK == ASSUME NEW f, Plain(f) PROVE FrameOK(f)' /\ ~Waits(f) /\ ~InLoop(f)
BY DEF Plain, FrameOK, NodeOK, CopyOK, KeptOK, LoopOK, Waits, InLoop

\* A step of thread t keeps its m outermost frames, and puts plain frames upon
\* them, or f as the frame p.
Changed(t, m, p, f) ==
    /\ frames' \in [Thread -> Seq(FrameType)]
    /\ \A u \in Thread : \A i \in DOMAIN frames'[u] :
           \/ i \in DOMAIN frames[u] /\ (u = t => i <= m) /\ frames'[u][i] = frames[u][i]
           \/ u = t /\ i > m /\ Plain(frames'[u][i])
           \/ u = t /\ i > m /\ i = p /\ frames'[u][i] = f

\* The frames that stay.
Staying(t, m) == { g \in FrameType : \E u \in Thread : \E i \in DOMAIN frames[u] :
                                         (u = t => i <= m) /\ g = frames[u][i] }

\* The invariants of the frames after such a step.
LEMMA ChangedFramesOK ==
    ASSUME TypeOK, NEW t, NEW m, NEW p, NEW f, Changed(t, m, p, f),
           \A g \in Staying(t, m) : FrameOK(g)',
           p # 0 => FrameOK(f)'
    PROVE  FramesOK'
<1> SUFFICES ASSUME NEW u \in Thread, NEW i \in DOMAIN frames'[u]
             PROVE  FrameOK(frames[u][i])'
  BY DEF FramesOK
<1>1. i \in DOMAIN frames'[u] /\ i # 0
  BY DEF Changed
<1>2. CASE i \in DOMAIN frames[u] /\ (u = t => i <= m) /\ frames'[u][i] = frames[u][i]
  <2>1. frames[u][i] \in Staying(t, m)
    BY <1>2 DEF Staying, TypeOK
  <2>2. ASSUME NEW g \in Staying(t, m), g = frames'[u][i] PROVE FrameOK(frames[u][i])'
    BY <2>2
  <2> QED  BY <1>2, <2>1, <2>2
<1>3. CASE Plain(frames'[u][i])
  <2>1. ASSUME NEW g, Plain(g), g = frames'[u][i] PROVE FrameOK(frames[u][i])'
    BY <2>1, PlainOK
  <2> QED  BY <1>3, <2>1
<1>4. CASE i = p /\ frames'[u][i] = f
  BY <1>1, <1>4
<1> QED  BY <1>2, <1>3, <1>4 DEF Changed

\* Two frames of one registration cannot come from a change of one stack when the
\* new frame waits for a registration no staying frame waits for.
LEMMA ChangedNodesApart ==
    ASSUME TypeOK, NodesApart, NEW t, NEW m, NEW p, NEW f, Changed(t, m, p, f),
           p # 0 /\ Waits(f) => \A g \in Staying(t, m) : ~(Waits(g) /\ g.node = f.node)
    PROVE  NodesApart'
<1> DEFINE Old(u, i) == i \in DOMAIN frames[u] /\ (u = t => i <= m)
                           /\ frames'[u][i] = frames[u][i]
           New(u, i) == u = t /\ i = p /\ i # 0 /\ frames'[u][i] = f
<1>1. ASSUME NEW u \in Thread, NEW i \in DOMAIN frames'[u], Waits(frames'[u][i])
      PROVE  Old(u, i) \/ New(u, i)
  <2>1. ~Plain(frames'[u][i])
    BY <1>1, PlainOK
  <2>2. i # 0
    BY DEF Changed
  <2> QED  BY <2>1, <2>2 DEF Changed
<1>2. ASSUME NEW u \in Thread, NEW i \in DOMAIN frames'[u], Old(u, i)
      PROVE  frames[u][i] \in Staying(t, m)
  BY <1>2 DEF Staying, TypeOK
<1> SUFFICES ASSUME NEW u \in Thread, NEW v \in Thread,
                    NEW i \in DOMAIN frames'[u], NEW j \in DOMAIN frames'[v],
                    Waits(frames'[u][i]), Waits(frames'[v][j]),
                    frames'[u][i].node = frames'[v][j].node
             PROVE  u = v /\ i = j
  BY DEF NodesApart
<1>3. CASE Old(u, i) /\ Old(v, j)
  BY <1>3 DEF NodesApart
<1>4. CASE New(u, i) /\ New(v, j)
  BY <1>4
<1>5. CASE Old(u, i) /\ New(v, j)
  <2>1. frames[u][i] \in Staying(t, m) /\ frames[u][i] = frames'[u][i]
    BY <1>2, <1>5
  <2> QED  BY <1>5, <2>1
<1>6. CASE New(u, i) /\ Old(v, j)
  <2>1. frames[v][j] \in Staying(t, m) /\ frames[v][j] = frames'[v][j]
    BY <1>2, <1>6
  <2> QED  BY <1>6, <2>1
<1> QED  BY <1>1, <1>3, <1>4, <1>5, <1>6

\* There is still one loop over the table when a new frame in it comes with the
\* name of its thread, and no staying frame is in it.
LEMMA ChangedOneLoop ==
    ASSUME TypeOK, OneLoop, NEW t, NEW m, NEW p, NEW f, Changed(t, m, p, f),
           p # 0 /\ InLoop(f) =>
               workingThread' = t /\ \A g \in Staying(t, m) : ~InLoop(g),
           workingThread' = workingThread \/ \A g \in Staying(t, m) : ~InLoop(g)
    PROVE  OneLoop'
<1> DEFINE Old(u, i) == i \in DOMAIN frames[u] /\ (u = t => i <= m)
                           /\ frames'[u][i] = frames[u][i]
           New(u, i) == u = t /\ i = p /\ i # 0 /\ frames'[u][i] = f
<1>1. ASSUME NEW u \in Thread, NEW i \in DOMAIN frames'[u], InLoop(frames'[u][i])
      PROVE  Old(u, i) \/ New(u, i)
  <2>1. ~Plain(frames'[u][i])
    BY <1>1, PlainOK
  <2>2. i # 0
    BY DEF Changed
  <2> QED  BY <2>1, <2>2 DEF Changed
<1>2. ASSUME NEW u \in Thread, NEW i \in DOMAIN frames'[u], Old(u, i)
      PROVE  frames[u][i] \in Staying(t, m)
  BY <1>2 DEF Staying, TypeOK
<1> SUFFICES ASSUME NEW u \in Thread, NEW i \in DOMAIN frames'[u], InLoop(frames'[u][i])
             PROVE  /\ workingThread' = u
                    /\ \A j \in DOMAIN frames'[u] : InLoop(frames'[u][j]) => j = i
  BY DEF OneLoop
<1>3. CASE Old(u, i)
  <2>1. frames[u][i] \in Staying(t, m) /\ InLoop(frames[u][i])
    BY <1>2, <1>3
  <2>2. workingThread' = workingThread /\ workingThread = u
    BY <1>3, <2>1 DEF OneLoop
  <2>3. ASSUME NEW j \in DOMAIN frames'[u], InLoop(frames'[u][j]) PROVE j = i
    <3>1. CASE Old(u, j)
      BY <1>3, <2>1, <2>3, <3>1 DEF OneLoop
    <3>2. CASE New(u, j)
      BY <2>1, <2>3, <3>2
    <3> QED  BY <1>1, <2>3, <3>1, <3>2
  <2> QED  BY <2>2, <2>3
<1>4. CASE New(u, i)
  <2>1. InLoop(f) /\ p # 0 /\ u = t
    BY <1>4
  <2>2. ASSUME NEW j \in DOMAIN frames'[u], InLoop(frames'[u][j]) PROVE j = i
    <3>1. ~Old(u, j)
      <4> SUFFICES ASSUME Old(u, j) PROVE FALSE
        OBVIOUS
      <4>1. frames[u][j] \in Staying(t, m) /\ InLoop(frames[u][j])
        BY <1>2, <2>2
      <4> QED  BY <2>1, <4>1
    <3> QED  BY <1>1, <1>4, <2>2, <3>1
  <2> QED  BY <2>1, <2>2
<1> QED  BY <1>1, <1>3, <1>4

\* A stack of frames that keeps m of those of thread t.
IsStack(s, t, m, p, f) ==
    /\ s \in Seq(FrameType) /\ m \in Nat /\ m <= Len(frames[t]) /\ m <= Len(s)
    /\ \A i \in 1..Len(s) :
           \/ i <= m /\ s[i] = frames[t][i]
           \/ i > m /\ Plain(s[i])
           \/ i > m /\ i = p /\ s[i] = f

\* When thread t goes on with such a stack only its own frames change.
LEMMA ResumeChanges ==
    ASSUME TypeOK, NEW t \in Thread, NEW s, NEW m, NEW p, NEW f, IsStack(s, t, m, p, f),
           frames' = [frames EXCEPT ![t] = s]
    PROVE  Changed(t, m, p, f)
<1>1. frames \in [Thread -> Seq(FrameType)] /\ s \in Seq(FrameType)
  BY DEF TypeOK, IsStack
<1>2. /\ frames' \in [Thread -> Seq(FrameType)] /\ frames'[t] = s
      /\ \A u \in Thread : u # t => frames'[u] = frames[u]
  BY <1>1
<1>3. ASSUME NEW i \in DOMAIN frames'[t]
      PROVE  \/ i \in DOMAIN frames[t] /\ i <= m /\ frames'[t][i] = frames[t][i]
             \/ i > m /\ Plain(frames'[t][i])
             \/ i > m /\ i = p /\ frames'[t][i] = f
  <2>1. i \in 1..Len(s) /\ frames[t] \in Seq(FrameType)
    BY <1>1, <1>2
  <2>2. i <= m => i \in DOMAIN frames[t]
    BY <2>1 DEF IsStack
  <2> QED  BY <1>2, <2>1, <2>2 DEF IsStack
<1> QED  BY <1>2, <1>3 DEF Changed

\* The stacks that the procedures go on with.
LEMMA Stacks ==
    ASSUME TypeOK, NEW t \in Thread, NEW f
    PROVE  /\ IsStack(<<>>, t, 0, 0, f)
           /\ IsStack(frames[t], t, Len(frames[t]), 0, f)
           /\ \A i \in 1..Len(frames[t]) :
                  /\ IsStack(SubSeq(frames[t], 1, i - 1), t, i - 1, 0, f)
                  /\ Len(SubSeq(frames[t], 1, i - 1)) = i - 1
<1>1. frames[t] \in Seq(FrameType) /\ Len(frames[t]) \in Nat
  BY DEF TypeOK
<1>2. IsStack(<<>>, t, 0, 0, f)
  BY <1>1 DEF IsStack
<1>3. IsStack(frames[t], t, Len(frames[t]), 0, f)
  BY <1>1 DEF IsStack
<1>4. ASSUME NEW i \in 1..Len(frames[t])
      PROVE  /\ IsStack(SubSeq(frames[t], 1, i - 1), t, i - 1, 0, f)
             /\ Len(SubSeq(frames[t], 1, i - 1)) = i - 1
  <2> DEFINE s == SubSeq(frames[t], 1, i - 1)
  <2>1. i - 1 \in Nat /\ i - 1 <= Len(frames[t])
        /\ \A j \in 1..i - 1 : frames[t][j] \in FrameType
    BY <1>1
  <2>2. /\ s \in Seq(FrameType)
        /\ Len(s) = IF 1 <= i - 1 THEN (i - 1) - 1 + 1 ELSE 0
        /\ \A j \in 1..(i - 1) - 1 + 1 : s[j] = frames[t][1 + j - 1]
    BY <2>1, SubSeqProperties
  <2>3. Len(s) = i - 1 /\ \A j \in 1..i - 1 : s[j] = frames[t][j]
    BY <2>1, <2>2
  <2> HIDE DEF s
  <2>4. IsStack(s, t, i - 1, 0, f)
    BY <2>1, <2>2, <2>3 DEF IsStack
  <2> QED  BY <2>3, <2>4 DEF s
<1> QED  BY <1>2, <1>3, <1>4

\* Pushing a plain frame keeps what a stack is.
LEMMA AddPlain ==
    ASSUME NEW t, NEW s, NEW m, NEW p, NEW f, IsStack(s, t, m, p, f),
           NEW x \in FrameType, Plain(x)
    PROVE  IsStack(Append(s, x), t, m, p, f) /\ Len(Append(s, x)) = Len(s) + 1
<1>1. s \in Seq(FrameType) /\ Len(s) \in Nat /\ m \in Nat /\ m <= Len(s)
  BY DEF IsStack
<1>2. /\ Append(s, x) \in Seq(FrameType) /\ Len(Append(s, x)) = Len(s) + 1
      /\ \A i \in 1..Len(s) : Append(s, x)[i] = s[i]
      /\ Append(s, x)[Len(s) + 1] = x
  BY <1>1, AppendProperties
<1>3. ASSUME NEW i \in 1..Len(s) + 1, i \notin 1..Len(s) PROVE i = Len(s) + 1 /\ i > m
  BY <1>1, <1>3
<1> QED  BY <1>1, <1>2, <1>3 DEF IsStack

\* Pushing the frame that the change is about puts it on top.
LEMMA AddFrame ==
    ASSUME NEW t, NEW s, NEW m, NEW f \in FrameType, IsStack(s, t, m, 0, f)
    PROVE  IsStack(Append(s, f), t, m, Len(s) + 1, f) /\ Len(Append(s, f)) = Len(s) + 1
<1>1. s \in Seq(FrameType) /\ Len(s) \in Nat /\ m \in Nat /\ m <= Len(s)
  BY DEF IsStack
<1>2. /\ Append(s, f) \in Seq(FrameType) /\ Len(Append(s, f)) = Len(s) + 1
      /\ \A i \in 1..Len(s) : Append(s, f)[i] = s[i]
      /\ Append(s, f)[Len(s) + 1] = f
  BY <1>1, AppendProperties
<1>3. ASSUME NEW i \in 1..Len(s) + 1, i \notin 1..Len(s) PROVE i = Len(s) + 1 /\ i > m
  BY <1>1, <1>3
<1>4. \A i \in 1..Len(s) : i # 0
  BY <1>1
<1> QED  BY <1>1, <1>2, <1>3, <1>4 DEF IsStack

\* What a thread is in, and the stack below it.
LEMMA AtTop ==
    ASSUME TypeOK, NEW t \in Thread, NEW op, op # "program", At(t, op)
    PROVE  /\ Len(frames[t]) \in Nat \ {0} /\ Len(frames[t]) \in DOMAIN frames[t]
           /\ Top(t) = frames[t][Len(frames[t])]
           /\ Top(t) \in FrameType /\ Top(t).op = op
           /\ Len(Below(t)) = Len(frames[t]) - 1
           /\ \A f : IsStack(Below(t), t, Len(frames[t]) - 1, 0, f)
<1>1. frames[t] \in Seq(FrameType)
  BY DEF TypeOK
<1>2. frames[t] # <<>> /\ Top(t).op = op
  BY DEF At, Op
<1>3. Len(frames[t]) \in Nat \ {0} /\ DOMAIN frames[t] = 1..Len(frames[t])
  BY <1>1, <1>2, EmptySeq
<1>4. Len(frames[t]) \in 1..Len(frames[t])
  BY <1>3
<1>5. Top(t) = frames[t][Len(frames[t])] /\ Top(t) \in FrameType
  BY <1>1, <1>4 DEF Top, Last
<1>6. Below(t) = SubSeq(frames[t], 1, Len(frames[t]) - 1)
  BY DEF Below, Front
<1> QED  BY <1>2, <1>3, <1>4, <1>5, <1>6, Stacks

\* The frames that stay are frames in order.
LEMMA StayingOK ==
    ASSUME FramesOK, NEW t, NEW m
    PROVE  \A g \in Staying(t, m) : g \in FrameType /\ FrameOK(g)
BY DEF FramesOK, Staying

\* Besides a loop there is no other one.
LEMMA OtherLoops ==
    ASSUME TypeOK, OneLoop, NEW t \in Thread, NEW i \in DOMAIN frames[t], InLoop(frames[t][i])
    PROVE  workingThread = t /\ \A g \in Staying(t, i - 1) : ~InLoop(g)
<1>1. workingThread = t
  BY DEF OneLoop
<1>2. ASSUME NEW u \in Thread, NEW j \in DOMAIN frames[u], u = t => j <= i - 1,
             InLoop(frames[u][j])
      PROVE  FALSE
  <2>1. u = t
    BY <1>1, <1>2 DEF OneLoop
  <2>2. j = i
    BY <1>2, <2>1 DEF OneLoop
  <2>3. i \in Nat
    BY DEF TypeOK
  <2> QED  BY <1>2, <2>1, <2>2, <2>3
<1> QED  BY <1>1, <1>2 DEF Staying

\* Without a working thread there is no loop.
LEMMA NoLoops ==
    ASSUME OneLoop, workingThread = None, NEW t, NEW m
    PROVE  \A g \in Staying(t, m) : ~InLoop(g)
BY NoneAssumption DEF OneLoop, Staying

-----------------------------------------------------------------------------
(***************************************************************************)
(* Steps.                                                                  *)
(***************************************************************************)

\* The frames of the procedures that have nothing to do with the table.
LEMMA PlainFrames ==
    /\ TypeOK => Owed \in SUBSET NodeId
    /\ \A o \in {"force", "forced", "tasks", "live", "quit"} :
           /\ \A S \in SUBSET NodeId :
                  [op |-> o, owed |-> S] \in FrameType /\ Plain([op |-> o, owed |-> S])
           /\ \A f \in FrameType : Plain(f) =>
                  [f EXCEPT !.op = o] \in FrameType /\ Plain([f EXCEPT !.op = o])
<1>1. ASSUME TypeOK PROVE Owed \in SUBSET NodeId
  <2>1. registered \subseteq NodeId
    BY <1>1, BoundsAssumption DEF TypeOK, NodeId
  <2>2. ToSet(finalizerList) \subseteq registered /\ ToSet(table) \subseteq registered
    BY <1>1 DEF TypeOK, ToSet
  <2> QED  BY <2>1, <2>2 DEF Owed
<1> DEFINE ops == {"force", "forced", "tasks", "live", "quit"}
           PF == [op : ops, owed : SUBSET NodeId]
<1>2. PF \subseteq FrameType
  BY DEF FrameType
<1>3. ASSUME NEW o \in ops, NEW S \in SUBSET NodeId
      PROVE  [op |-> o, owed |-> S] \in FrameType /\ Plain([op |-> o, owed |-> S])
  BY <1>2 DEF Plain
<1>4. ASSUME NEW o \in ops, NEW f \in FrameType, Plain(f)
      PROVE  [f EXCEPT !.op = o] \in FrameType /\ Plain([f EXCEPT !.op = o])
  <2>1. f \in PF
    BY <1>4 DEF FrameType, Plain
  <2>2. [f EXCEPT !.op = o] \in PF /\ [f EXCEPT !.op = o].op = o
    BY <2>1
  <2> QED  BY <1>2, <2>2 DEF Plain
<1> QED  BY <1>1, <1>3, <1>4

\* A step that changes only plain frames, the references of the program, and
\* which threads live.
LEMMA PlainStep ==
    ASSUME IInv, NEW t, NEW m, NEW f, Changed(t, m, 0, f),
           UNCHANGED <<finalizerList, maxPending, table, freed, workingThread, ghostVars>>,
           held' \in SUBSET Object, held' \cap freed = {},
           alive' \in SUBSET Thread, exiting' \in BOOLEAN, exited' \in BOOLEAN
    PROVE  IInv'
<1>1. TypeOK'
  BY DEF IInv, TypeOK, Changed, ghostVars
<1>2. FramesOK'
  <2>1. \A g \in Staying(t, m) : FrameOK(g)'
    <3> SUFFICES ASSUME NEW g \in FrameType, FrameOK(g) PROVE FrameOK(g)'
      BY StayingOK DEF IInv
    <3>1. NodeOK(g)' /\ CopyOK(g)' /\ KeptOK(g)'
      BY DEF FrameOK, NodeOK, CopyOK, KeptOK, ghostVars
    <3>2. LoopOK(g)'
      BY DEF FrameOK, LoopOK, TableKept, ghostVars
    <3> QED  BY <3>1, <3>2 DEF FrameOK
  <2> QED  BY <2>1, ChangedFramesOK DEF IInv
<1>3. NodesApart' /\ OneLoop'
  BY ChangedNodesApart, ChangedOneLoop DEF IInv
<1>4. ListOK' /\ MemoryOK'
  BY DEF IInv, ListOK, MemoryOK, TableKept, CalledOnce, NoneForgotten, ghostVars
<1> QED  BY <1>1, <1>2, <1>3, <1>4 DEF IInv

\* What the collector marks: what the frames know of,
LEMMA FrameMarks ==
    ASSUME NEW t, NEW m, NEW g \in Staying(t, m)
    PROVE  /\ Waits(g) \/ g.op = "handler" => nodes[g.node] \in Roots
           /\ g.op = "copied" => \A n \in ToSet(g.copy) : nodes[n] \in Roots
<1>0. PICK u \in Thread : \E i \in DOMAIN frames[u] : g = frames[u][i]
  BY DEF Staying
<1>1. PICK i \in DOMAIN frames[u] : g = frames[u][i]
  BY <1>0
<1>2. FrameRoots(g) \subseteq Roots
  <2>1. g \in ToSet(frames[u])
    BY <1>1 DEF ToSet
  <2> QED  BY <2>1 DEF Roots
<1>3. g.op \in {"resized", "register", "handler"} => nodes[g.node] \in FrameRoots(g)
  BY DEF FrameRoots
<1>4. g.op = "copied" => /\ nodes[g.node] \in FrameRoots(g)
                         /\ \A n \in ToSet(g.copy) : nodes[n] \in FrameRoots(g)
  BY DEF FrameRoots, Items
<1> QED  BY <1>2, <1>3, <1>4 DEF Waits

\* and what the program, the list and the table do; what is marked stays.
LEMMA ReclaimMarks ==
    ASSUME Reclaim, MemoryOK, held \subseteq Object
    PROVE  /\ freed' \subseteq freed \cup Object /\ freed \subseteq freed'
           /\ \A x \in Roots : x \in freed' => x \in freed
           /\ held' = held /\ held \cap freed' = {}
           /\ \A n \in ToSet(finalizerList) \cup ToSet(table) : nodes[n] \notin freed'
<1>1. freed' = freed \cup (Object \ (Roots \cup Items(ToSet(finalizerList) \cup ToSet(table))))
      /\ held' = held
  BY DEF Reclaim
<1>2. held \subseteq Roots
  BY DEF Roots
<1>3. \A n \in ToSet(finalizerList) \cup ToSet(table) :
          nodes[n] \in Items(ToSet(finalizerList) \cup ToSet(table))
  BY DEF Items
<1> QED  BY <1>1, <1>2, <1>3 DEF MemoryOK

\* A collection moves registrations from the list to the table, and only when the
\* table is empty.
LEMMA ReclaimMoves ==
    ASSUME TypeOK, Reclaim, ToSet(finalizerList) \cap ToSet(table) = {}
    PROVE  /\ maxPending' = maxPending
           /\ finalizerList' \in Seq(registered) /\ IsInjective(finalizerList')
           /\ table' \in Seq(registered) /\ IsInjective(table') /\ Len(table') <= maxPending
           /\ ToSet(finalizerList') \subseteq ToSet(finalizerList)
           /\ ToSet(finalizerList') \cap ToSet(table') = {}
           /\ ToSet(finalizerList) \cup ToSet(table)
                  = ToSet(finalizerList') \cup ToSet(table')
           /\ table # <<>> => table' = table
           /\ table = <<>> => ToSet(table') \subseteq ToSet(finalizerList)
<1>1. maxPending' = maxPending
  BY DEF Reclaim
<1>2. CASE table # <<>>
  BY <1>1, <1>2 DEF Reclaim, TypeOK
<1>3. CASE table = <<>>
  <2>1. /\ table' = Queued
        /\ finalizerList' = Those(finalizerList, ToSet(finalizerList) \ ToSet(Queued))
    BY <1>3 DEF Reclaim
  <2>2. finalizerList \in Seq(registered) /\ IsInjective(finalizerList)
    BY DEF TypeOK
  <2>3. /\ finalizerList' \in Seq(registered) /\ IsInjective(finalizerList')
        /\ ToSet(finalizerList') = ToSet(finalizerList)
                                      \cap (ToSet(finalizerList) \ ToSet(Queued))
    BY <2>1, <2>2, ThoseElements
  <2>4. /\ table' \in Seq(registered) /\ IsInjective(table') /\ Len(table') <= maxPending
        /\ ToSet(Queued) \subseteq ToSet(finalizerList) /\ ToSet(table') = ToSet(Queued)
    BY <2>1, QueuedElements
  <2>5. ToSet(table) = {}
    BY <1>3 DEF ToSet
  <2> QED  BY <1>1, <1>3, <2>3, <2>4, <2>5
<1> QED  BY <1>2, <1>3

\* A collection keeps the invariant when the stack gets plain frames at most.
LEMMA ReclaimStep ==
    ASSUME IInv, NEW t, NEW m, NEW f, Changed(t, m, 0, f), Reclaim,
           UNCHANGED <<workingThread, ghostVars>>,
           alive' \in SUBSET Thread, exiting' \in BOOLEAN, exited' \in BOOLEAN
    PROVE  IInv'
<1>1. ToSet(finalizerList) \cap ToSet(table) = {} /\ TypeOK /\ MemoryOK /\ held \subseteq Object
  BY DEF IInv, ListOK, TypeOK
<1> DEFINE all == ToSet(finalizerList) \cup ToSet(table)
<1>2. /\ maxPending' = maxPending
      /\ finalizerList' \in Seq(registered) /\ IsInjective(finalizerList')
      /\ table' \in Seq(registered) /\ IsInjective(table') /\ Len(table') <= maxPending
      /\ ToSet(finalizerList') \subseteq ToSet(finalizerList)
      /\ ToSet(finalizerList') \cap ToSet(table') = {}
      /\ all = ToSet(finalizerList') \cup ToSet(table')
      /\ table # <<>> => table' = table
      /\ table = <<>> => ToSet(table') \subseteq ToSet(finalizerList)
  BY <1>1, ReclaimMoves
<1>3. /\ freed' \subseteq freed \cup Object /\ freed \subseteq freed'
      /\ \A x \in Roots : x \in freed' => x \in freed
      /\ held' = held /\ held \cap freed' = {}
      /\ \A n \in all : nodes[n] \notin freed'
  BY <1>1, ReclaimMarks
<1>4. TypeOK'
  BY <1>1, <1>2, <1>3 DEF TypeOK, Changed, ghostVars
<1>5. FramesOK'
  <2>1. ASSUME NEW g \in Staying(t, m) PROVE FrameOK(g)'
    <3>1. FrameOK(g) /\ g \in FrameType
      BY StayingOK DEF IInv
    <3>2. NodeOK(g)'
      BY <3>1 DEF FrameOK, NodeOK, ghostVars
    <3>3. CopyOK(g)'
      BY <1>2, <3>1 DEF FrameOK, CopyOK, ghostVars
    <3>4. KeptOK(g)'
      BY <1>3, <3>1, FrameMarks DEF FrameOK, KeptOK, ghostVars
    <3>5. LoopOK(g)'
      BY <1>2, <3>1 DEF FrameOK, LoopOK, TableKept, ghostVars
    <3> QED  BY <3>2, <3>3, <3>4, <3>5 DEF FrameOK
  <2> QED  BY <1>1, <2>1, ChangedFramesOK
<1>6. NodesApart' /\ OneLoop'
  BY ChangedNodesApart, ChangedOneLoop DEF IInv
<1>7. ListOK'
  <2>1. registered \subseteq NodeId
    BY <1>1, BoundsAssumption DEF TypeOK, NodeId
  <2>2. \A n \in NodeId : n \notin registered \/ n \in ToSet(finalizerList) => ran[n] = 0
    BY DEF IInv, ListOK
  <2>3. TableKept' /\ workingThread' = None => \A k \in DOMAIN table' : ran'[table'[k]] = 0
    <3> SUFFICES ASSUME TableKept, workingThread = None, NEW k \in DOMAIN table'
                 PROVE  ran[table'[k]] = 0
      BY <1>2 DEF TableKept, ghostVars
    <3>1. CASE table # <<>>
      BY <1>2, <3>1 DEF IInv, ListOK
    <3>2. CASE table = <<>>
      <4>1. table'[k] \in ToSet(table')
        BY DEF ToSet
      <4>2. table'[k] \in ToSet(finalizerList) /\ table'[k] \in registered
        BY <1>2, <3>2, <4>1
      <4> QED  BY <2>1, <2>2, <4>2
    <3> QED  BY <3>1, <3>2
  <2>4. TableKept' => CalledOnce' /\ NoneForgotten'
    <3> SUFFICES ASSUME TableKept PROVE CalledOnce' /\ NoneForgotten'
      BY <1>2 DEF TableKept
    <3>1. CalledOnce /\ NoneForgotten
      BY DEF IInv, ListOK
    <3> QED  BY <1>2, <3>1 DEF CalledOnce, NoneForgotten, ghostVars
  <2> QED  BY <1>2, <2>2, <2>3, <2>4 DEF IInv, ListOK, ghostVars
<1>8. MemoryOK'
  BY <1>2, <1>3 DEF MemoryOK, ghostVars
<1> QED  BY <1>4, <1>5, <1>6, <1>7, <1>8 DEF IInv

\* The frames of loops.
LEMMA LoopFrames ==
    ASSUME NEW i \in Nat, NEW c \in Nat
    PROVE  /\ Loop(i, c) \in FrameType /\ InLoop(Loop(i, c)) /\ Called(Loop(i, c)) = i
           /\ Loop(i, c).c = c /\ Loop(i, c).op = "finalize"
           /\ \A n \in NodeId :
                  LET h == [op |-> "handler", i |-> i, c |-> c, node |-> n]
                  IN  h \in FrameType /\ InLoop(h) /\ Called(h) = i + 1
<1>1. Loop(i, c) \in FrameType
  BY DEF Loop, FrameType
<1>2. ASSUME NEW n \in NodeId
      PROVE  [op |-> "handler", i |-> i, c |-> c, node |-> n] \in FrameType
  BY DEF FrameType
<1> QED  BY <1>1, <1>2 DEF Loop, InLoop, Called

\* The loop goes on with the next entry when the finalizer that thread t runs in
\* its frame i is left.
LEMMA LoopAdvances ==
    ASSUME IInv, NEW t \in Thread, NEW i \in DOMAIN frames[t], frames[t][i].op = "handler",
           frames' = [frames EXCEPT ![t] = Append(SubSeq(frames[t], 1, i - 1),
                                                  Loop(frames[t][i].i + 1, frames[t][i].c))],
           UNCHANGED <<heapVars, workingThread, alive, exiting, exited, ghostVars>>
    PROVE  IInv'
<1> DEFINE h == frames[t][i]
<1>0. TypeOK /\ OneLoop /\ FramesOK
  BY DEF IInv
<1>1. h \in FrameType /\ InLoop(h) /\ h.i \in Nat /\ h.c \in Nat /\ i \in 1..Len(frames[t])
  <2>1. frames[t] \in Seq(FrameType)
    BY <1>0 DEF TypeOK
  <2>2. h \in FrameType /\ InLoop(h) /\ i \in 1..Len(frames[t])
    BY <2>1 DEF InLoop
  <2> QED  BY <2>2, FrameFields
<1>2. PICK f : f = Loop(h.i + 1, h.c)
  OBVIOUS
<1>3. /\ f \in FrameType /\ f.op = "finalize" /\ f.c = h.c /\ Called(f) = Called(h)
      /\ InLoop(f)
  <2>1. h.i \in Nat /\ h.c \in Nat
    BY <1>1
  <2>2. h.i + 1 \in Nat
    BY <2>1
  <2>3. f \in FrameType /\ f.op = "finalize" /\ f.c = h.c /\ InLoop(f)
    BY <1>2, <2>1, <2>2, LoopFrames
  <2>4. Called(h) = h.i + 1
    BY <1>0 DEF Called
  <2>5. Called(f) = h.i + 1
    BY <1>2, <2>1, <2>2, LoopFrames
  <2> QED  BY <2>3, <2>4, <2>5
<1>4. Changed(t, i - 1, i, f)
  <2> DEFINE s == SubSeq(frames[t], 1, i - 1)
  <2>1. IsStack(s, t, i - 1, 0, f) /\ Len(s) = i - 1
    BY <1>0, <1>1, Stacks
  <2> HIDE DEF s
  <2>2. IsStack(Append(s, f), t, i - 1, Len(s) + 1, f) /\ Len(s) + 1 = i
    <3>1. i - 1 + 1 = i
      BY <1>1
    <3> QED  BY <1>3, <2>1, <3>1, AddFrame
  <2>3. IsStack(Append(s, f), t, i - 1, i, f)
    BY <2>2
  <2>4. frames' = [frames EXCEPT ![t] = Append(s, f)]
    BY <1>2 DEF s
  <2> QED  BY <1>0, <2>3, <2>4, ResumeChanges
<1>5. workingThread = t /\ \A g \in Staying(t, i - 1) : ~InLoop(g)
  BY <1>0, <1>1, OtherLoops
<1>6. TypeOK'
  BY <1>0, <1>4 DEF TypeOK, Changed, heapVars, ghostVars
<1>7. FramesOK'
  <2>1. ASSUME NEW g \in Staying(t, i - 1) PROVE FrameOK(g)'
    <3>1. FrameOK(g)
      BY <1>0, StayingOK
    <3> QED  BY <3>1 DEF FrameOK, NodeOK, CopyOK, KeptOK, LoopOK, TableKept, heapVars, ghostVars
  <2>2. FrameOK(f)'
    <3>1. LoopOK(h)
      BY <1>0 DEF FramesOK, FrameOK
    <3>2. NodeOK(f)' /\ CopyOK(f)' /\ KeptOK(f)'
      BY <1>3 DEF NodeOK, CopyOK, KeptOK, Waits
    <3>3. LoopOK(f)'
      BY <1>1, <1>3, <3>1 DEF LoopOK, TableKept, heapVars, ghostVars
    <3> QED  BY <3>2, <3>3 DEF FrameOK
  <2> QED  BY <1>0, <1>4, <2>1, <2>2, ChangedFramesOK
<1>8. NodesApart'
  BY <1>0, <1>3, <1>4, ChangedNodesApart DEF IInv, Waits
<1>9. OneLoop'
  BY <1>0, <1>4, <1>5, ChangedOneLoop
<1>10. ListOK' /\ MemoryOK'
  BY DEF IInv, ListOK, MemoryOK, TableKept, CalledOnce, NoneForgotten, heapVars, ghostVars
<1> QED  BY <1>6, <1>7, <1>8, <1>9, <1>10 DEF IInv

\* Thread t becomes the working thread.
LEMMA LoopStarts ==
    ASSUME IInv, NEW t \in Thread, NEW s, NEW m, \A f : IsStack(s, t, m, 0, f),
           workingThread = None, workingThread' = t, table # <<>>,
           frames' = [frames EXCEPT ![t] = Append(s, Loop(0, Len(table)))],
           UNCHANGED <<heapVars, alive, exiting, exited, ghostVars>>
    PROVE  IInv'
<1>0. TypeOK /\ OneLoop /\ FramesOK /\ ListOK
  BY DEF IInv
<1>1. Len(table) \in Nat /\ DOMAIN table = 1..Len(table)
  BY <1>0 DEF TypeOK
<1>2. PICK f : f = Loop(0, Len(table))
  OBVIOUS
<1>3. f \in FrameType /\ f.op = "finalize" /\ f.c = Len(table) /\ Called(f) = 0 /\ InLoop(f)
  BY <1>1, <1>2, LoopFrames
<1>4. PICK p : Changed(t, m, p, f)
  <2>1. IsStack(Append(s, f), t, m, Len(s) + 1, f)
    BY <1>3, AddFrame
  <2>2. frames' = [frames EXCEPT ![t] = Append(s, f)]
    BY <1>2
  <2> QED  BY <1>0, <2>1, <2>2, ResumeChanges
<1>5. \A g \in Staying(t, m) : ~InLoop(g)
  BY <1>0, NoLoops
<1>6. TypeOK'
  BY <1>0, <1>4 DEF TypeOK, Changed, heapVars, ghostVars
<1>7. FramesOK'
  <2>1. ASSUME NEW g \in Staying(t, m) PROVE FrameOK(g)'
    <3>1. FrameOK(g)
      BY <1>0, StayingOK
    <3> QED  BY <3>1 DEF FrameOK, NodeOK, CopyOK, KeptOK, LoopOK, TableKept, heapVars, ghostVars
  <2>2. FrameOK(f)'
    <3>2. NodeOK(f)' /\ CopyOK(f)' /\ KeptOK(f)'
      BY <1>3 DEF NodeOK, CopyOK, KeptOK, Waits
    <3>3. TableKept => \A k \in DOMAIN table : ~(ran[table[k]] > 0) /\ ~(k <= 0)
      BY <1>0, <1>1 DEF ListOK
    <3>4. LoopOK(f)'
      BY <1>3, <3>3 DEF LoopOK, TableKept, heapVars, ghostVars
    <3> QED  BY <3>2, <3>4 DEF FrameOK
  <2> QED  BY <1>0, <1>4, <2>1, <2>2, ChangedFramesOK
<1>8. NodesApart'
  BY <1>0, <1>3, <1>4, ChangedNodesApart DEF IInv, Waits
<1>9. OneLoop'
  BY <1>0, <1>4, <1>5, ChangedOneLoop
<1>10. ListOK' /\ MemoryOK'
  BY NoneAssumption DEF IInv, ListOK, MemoryOK, TableKept, CalledOnce, NoneForgotten, heapVars, ghostVars
<1> QED  BY <1>6, <1>7, <1>8, <1>9, <1>10 DEF IInv

\* ##sys#run-pending-finalizers, called by thread t.
LEMMA RunPendingStep ==
    ASSUME IInv, NEW t \in Thread, NEW s, NEW m, \A f : IsStack(s, t, m, 0, f),
           RunPending(t, s), table # <<>>,
           UNCHANGED <<heapVars, alive, exiting, exited, ghostVars>>
    PROVE  IInv'
<1>0. TypeOK /\ held \cap freed = {}
  BY DEF IInv, MemoryOK
<1>1. CASE /\ workingThread = None /\ workingThread' = t
           /\ Resume(t, Append(s, Loop(0, Len(table))))
  BY <1>1, LoopStarts DEF Resume
<1>2. ASSUME Raise(t), UNCHANGED workingThread PROVE IInv'
  <2> DEFINE handlers == { i \in DOMAIN frames[t] : frames[t][i].op = "handler" }
             j == CHOOSE i \in handlers : \A k \in handlers : k <= i
  <2>1. CASE handlers = {}
    <3>1. frames' = [frames EXCEPT ![t] = <<>>]
      BY <1>2, <2>1 DEF Raise, Resume
    <3>2. Changed(t, 0, 0, 0)
      BY <1>0, <3>1, Stacks, ResumeChanges
    <3> QED  BY <1>0, <1>2, <3>2, PlainStep DEF TypeOK, heapVars, IInv
  <2>2. CASE handlers # {}
    <3>1. frames' = [frames EXCEPT ![t] = Append(SubSeq(frames[t], 1, j - 1),
                                                 Loop(frames[t][j].i + 1, frames[t][j].c))]
      BY <1>2, <2>2 DEF Raise, Resume
    <3>2. j \in handlers
      <4>1. handlers \in SUBSET (1..Len(frames[t])) /\ Len(frames[t]) \in Nat
        BY <1>0 DEF TypeOK
      <4> HIDE DEF handlers
      <4>2. \E i \in handlers : \A k \in handlers : k <= i
        BY <2>2, <4>1, GreatestNat
      <4> QED  BY <4>2
    <3>3. j \in DOMAIN frames[t] /\ frames[t][j].op = "handler"
      BY <3>2
    <3> HIDE DEF j
    <3> QED  BY <1>2, <3>1, <3>3, LoopAdvances
  <2> QED  BY <2>1, <2>2
<1>3. CASE Resume(t, s) /\ UNCHANGED workingThread
  <2>1. Changed(t, m, 0, 0)
    BY <1>0, <1>3, ResumeChanges DEF Resume
  <2> QED  BY <1>0, <1>3, <2>1, PlainStep DEF TypeOK, heapVars, IInv
<1> QED  BY <1>1, <1>2, <1>3 DEF RunPending

\* The working thread calls the finalizer of the next entry.
LEMMA CallFinalizerStep ==
    ASSUME IInv, NEW t \in Thread, CallFinalizer(t) PROVE IInv'
<1> DEFINE L == Len(frames[t])
           h == frames[t][L]
           n == table[h.i + 1]
<1>0. TypeOK /\ OneLoop /\ FramesOK /\ ListOK /\ MemoryOK
  BY DEF IInv
<1>1. /\ L \in Nat \ {0} /\ L \in DOMAIN frames[t] /\ Top(t) = h
      /\ h \in FrameType /\ h.op = "finalize"
      /\ Len(Below(t)) = L - 1 /\ \A f : IsStack(Below(t), t, L - 1, 0, f)
  BY <1>0, AtTop DEF CallFinalizer
<1>2. InLoop(h) /\ h.i \in Nat /\ h.c \in Nat /\ Called(h) = h.i /\ h.i < h.c
  <2>1. InLoop(h)
    BY <1>1 DEF InLoop
  <2> QED  BY <1>1, <2>1, FrameFields DEF Called, CallFinalizer
<1>3. /\ UNCHANGED <<heapVars, workingThread, alive, exiting, exited, nodes, registered>>
      /\ \/ /\ h.i < Len(table)
            /\ ran' = [ran EXCEPT ![n] = @ + 1]
            /\ frames' = [frames EXCEPT ![t] = Append(Below(t),
                             [op |-> "handler", i |-> h.i, c |-> h.c, node |-> n])]
         \/ /\ ~(h.i < Len(table))
            /\ frames' = [frames EXCEPT ![t] = Append(Below(t), Loop(h.i + 1, h.c))]
            /\ UNCHANGED ran
  BY <1>1 DEF CallFinalizer, Resume
<1>4. workingThread = t /\ \A g \in Staying(t, L - 1) : ~InLoop(g)
  BY <1>0, <1>1, <1>2, OtherLoops
<1>5. TableKept =>
          /\ h.c = Len(table)
          /\ \A k \in DOMAIN table : ran[table[k]] > 0 <=> k <= h.i
  BY <1>0, <1>1, <1>2 DEF FramesOK, FrameOK, LoopOK
<1>6. table \in Seq(registered) /\ IsInjective(table) /\ registered \subseteq NodeId
      /\ DOMAIN table = 1..Len(table) /\ Len(table) \in Nat /\ ran \in [NodeId -> Nat]
      /\ ran' \in [NodeId -> Nat]
  <2>1. table \in Seq(registered) /\ IsInjective(table) /\ ran \in [NodeId -> Nat]
    BY <1>0 DEF TypeOK
  <2>2. registered \subseteq NodeId
    BY <1>0, BoundsAssumption DEF TypeOK, NodeId
  <2>3. DOMAIN table = 1..Len(table) /\ Len(table) \in Nat
    BY <2>1
  <2>4. ran' \in [NodeId -> Nat]
    <3>1. ASSUME NEW k \in NodeId PROVE ran[k] + 1 \in Nat
      BY <2>1
    <3> QED  BY <1>3, <2>1, <3>1, SMTT(60)
  <2> QED  BY <2>1, <2>2, <2>3, <2>4
<1>7. ASSUME NEW g \in Staying(t, L - 1) PROVE FrameOK(g)'
  <2>1. FrameOK(g) /\ ~InLoop(g)
    BY <1>0, <1>4, StayingOK
  <2>2. NodeOK(g)' /\ CopyOK(g)' /\ KeptOK(g)'
    BY <1>3, <2>1 DEF FrameOK, NodeOK, CopyOK, KeptOK, heapVars
  <2>3. LoopOK(g)'
    BY <2>1 DEF LoopOK
  <2> QED  BY <2>2, <2>3 DEF FrameOK
<1>8. MemoryOK'
  BY <1>0, <1>3 DEF MemoryOK, heapVars
<1>9. ASSUME h.i < Len(table), ran' = [ran EXCEPT ![n] = @ + 1],
             frames' = [frames EXCEPT ![t] = Append(Below(t),
                          [op |-> "handler", i |-> h.i, c |-> h.c, node |-> n])]
      PROVE  IInv'
  <2>1. h.i + 1 \in DOMAIN table /\ n \in registered /\ n \in NodeId /\ n \in ToSet(table)
    <3>1. h.i + 1 \in DOMAIN table
      BY <1>2, <1>6, <1>9, SMTT(60)
    <3>2. n \in ToSet(table)
      BY <3>1 DEF ToSet
    <3> QED  BY <1>6, <3>1, <3>2
  <2>2. PICK f : f = [op |-> "handler", i |-> h.i, c |-> h.c, node |-> n]
    OBVIOUS
  <2>3. /\ f \in FrameType /\ f.op = "handler" /\ f.c = h.c /\ f.node = n
        /\ InLoop(f) /\ Called(f) = h.i + 1 /\ ~Waits(f)
    BY <1>2, <2>1, <2>2, LoopFrames DEF Waits
  <2>4. Changed(t, L - 1, L, f)
    <3>1. IsStack(Append(Below(t), f), t, L - 1, Len(Below(t)) + 1, f)
      BY <1>1, <2>3, AddFrame
    <3>2. Len(Below(t)) + 1 = L
      BY <1>1
    <3>3. frames' = [frames EXCEPT ![t] = Append(Below(t), f)]
      BY <1>9, <2>2
    <3> QED  BY <1>0, <3>1, <3>2, <3>3, ResumeChanges
  <2>5. TypeOK'
    BY <1>0, <1>3, <1>6, <2>4 DEF TypeOK, Changed, heapVars
  <2>6. ran'[n] = ran[n] + 1 /\ \A k \in NodeId : k # n => ran'[k] = ran[k]
    BY <1>6, <1>9, <2>1
  <2>7. \A k \in DOMAIN table : table[k] = n => k = h.i + 1
    BY <1>6, <2>1 DEF IsInjective
  <2>8. FrameOK(f)'
    <3>1. NodeOK(f)' /\ CopyOK(f)' /\ KeptOK(f)'
      BY <1>3, <1>8, <2>1, <2>3 DEF NodeOK, CopyOK, KeptOK, MemoryOK, heapVars
    <3>2. ASSUME TableKept, NEW k \in DOMAIN table
          PROVE  ran'[table[k]] > 0 <=> k <= h.i + 1
      <4>1. table[k] \in NodeId /\ ran[table[k]] \in Nat /\ ran[n] \in Nat
        BY <1>6, <2>1
      <4>2. CASE k = h.i + 1
        BY <1>2, <2>6, <4>1, <4>2
      <4>3. CASE k # h.i + 1
        <5>1. ran'[table[k]] = ran[table[k]]
          BY <2>6, <2>7, <4>1, <4>3
        <5>2. k <= h.i <=> k <= h.i + 1
          <6>1. k \in Nat /\ h.i \in Nat
            BY <1>2, <1>6
          <6> HIDE DEF h
          <6> QED  BY <4>3, <6>1
        <5> QED  BY <1>5, <3>2, <5>1, <5>2
      <4> QED  BY <4>2, <4>3
    <3>3. TableKept => table # <<>>
      BY <2>1
    <3>4. LoopOK(f)'
      BY <1>3, <1>5, <2>3, <3>2, <3>3 DEF LoopOK, TableKept, heapVars
    <3> QED  BY <3>1, <3>4 DEF FrameOK
  <2>9. FramesOK'
    BY <1>0, <1>7, <2>4, <2>8, ChangedFramesOK
  <2>10. NodesApart' /\ OneLoop'
    BY <1>0, <1>3, <1>4, <2>3, <2>4, ChangedNodesApart, ChangedOneLoop DEF IInv
  <2>11. ListOK'
    <3>1. workingThread' # None
      BY <1>3, <1>4, NoneAssumption
    <3>2. \A k \in NodeId : k \notin registered \/ k \in ToSet(finalizerList) => ran'[k] = 0
      BY <1>0, <2>1, <2>6 DEF ListOK
    <3>3. TableKept => CalledOnce' /\ NoneForgotten'
      <4> SUFFICES ASSUME TableKept PROVE CalledOnce' /\ NoneForgotten'
        OBVIOUS
      <4>1. CalledOnce /\ NoneForgotten
        BY <1>0 DEF ListOK
      <4>2. ran[n] = 0
        <5>1. ~(ran[n] > 0)
          BY <1>2, <1>5, <2>1
        <5> QED  BY <1>6, <2>1, <5>1
      <4>3. \A k \in NodeId : ran'[k] <= 1
        BY <2>6, <4>1, <4>2 DEF CalledOnce
      <4>4. \A k \in NodeId : ran[k] > 0 => ran'[k] > 0
        BY <2>6, <4>2
      <4> QED  BY <1>3, <1>6, <4>1, <4>3, <4>4 DEF CalledOnce, NoneForgotten, heapVars
    <3> QED  BY <1>0, <1>3, <3>1, <3>2, <3>3 DEF ListOK, TableKept, heapVars
  <2> QED  BY <1>8, <2>5, <2>9, <2>10, <2>11 DEF IInv
<1>10. ASSUME ~(h.i < Len(table)), UNCHANGED ran,
              frames' = [frames EXCEPT ![t] = Append(Below(t), Loop(h.i + 1, h.c))]
       PROVE  IInv'
  <2>1. ~TableKept
    BY <1>2, <1>5, <1>10
  <2>2. PICK f : f = Loop(h.i + 1, h.c)
    OBVIOUS
  <2>3. f \in FrameType /\ f.op = "finalize" /\ ~Waits(f)
    <3>1. h.i + 1 \in Nat
      BY <1>2
    <3> QED  BY <1>2, <2>2, <3>1, LoopFrames DEF Waits
  <2>4. Changed(t, L - 1, L, f)
    <3>1. IsStack(Append(Below(t), f), t, L - 1, Len(Below(t)) + 1, f)
      BY <1>1, <2>3, AddFrame
    <3>2. Len(Below(t)) + 1 = L
      BY <1>1
    <3>3. frames' = [frames EXCEPT ![t] = Append(Below(t), f)]
      BY <1>10, <2>2
    <3> QED  BY <1>0, <3>1, <3>2, <3>3, ResumeChanges
  <2>5. TypeOK'
    BY <1>0, <1>3, <1>6, <2>4 DEF TypeOK, Changed, heapVars
  <2>6. FrameOK(f)'
    BY <1>3, <2>1, <2>3 DEF FrameOK, NodeOK, CopyOK, KeptOK, LoopOK, TableKept, heapVars
  <2>7. FramesOK'
    BY <1>0, <1>7, <2>4, <2>6, ChangedFramesOK
  <2>8. NodesApart' /\ OneLoop'
    BY <1>0, <1>3, <1>4, <2>3, <2>4, ChangedNodesApart, ChangedOneLoop DEF IInv
  <2>9. ListOK'
    BY <1>0, <1>3, <1>10, <2>1 DEF ListOK, TableKept, heapVars
  <2> QED  BY <1>8, <2>5, <2>7, <2>8, <2>9 DEF IInv
<1> QED  BY <1>3, <1>9, <1>10

\* The loop ends: the table is emptied, and nobody works on it.
LEMMA FinalizersDoneStep ==
    ASSUME IInv, NEW t \in Thread, FinalizersDone(t) PROVE IInv'
<1> DEFINE L == Len(frames[t])
           h == frames[t][L]
<1>0. TypeOK /\ OneLoop /\ FramesOK /\ ListOK /\ MemoryOK
  BY DEF IInv
<1>1. /\ L \in Nat \ {0} /\ L \in DOMAIN frames[t] /\ Top(t) = h
      /\ h \in FrameType /\ h.op = "finalize" /\ \A f : IsStack(Below(t), t, L - 1, 0, f)
  BY <1>0, AtTop DEF FinalizersDone
<1>2. InLoop(h) /\ h.i \in Nat /\ h.c \in Nat /\ Called(h) = h.i /\ h.i >= h.c
  <2>1. InLoop(h)
    BY <1>1 DEF InLoop
  <2> QED  BY <1>1, <2>1, FrameFields DEF Called, FinalizersDone
<1>3. /\ table' = <<>> /\ workingThread' = None
      /\ frames' = [frames EXCEPT ![t] = Below(t)]
      /\ UNCHANGED <<finalizerList, maxPending, held, freed, alive, exiting, exited, ghostVars>>
  BY DEF FinalizersDone, Resume
<1>4. \A g \in Staying(t, L - 1) : ~InLoop(g)
  BY <1>0, <1>1, <1>2, OtherLoops
<1>5. Changed(t, L - 1, 0, 0)
  BY <1>0, <1>1, <1>3, ResumeChanges
<1>6. ToSet(table') = {} /\ DOMAIN table' = {} /\ table' \in Seq(registered)
      /\ IsInjective(table') /\ Len(table') = 0
  BY <1>3 DEF ToSet, IsInjective
<1>7. TypeOK'
  BY <1>0, <1>3, <1>5, <1>6 DEF TypeOK, Changed, ghostVars
<1>8. FramesOK'
  <2>1. ASSUME NEW g \in Staying(t, L - 1) PROVE FrameOK(g)'
    <3>1. FrameOK(g) /\ ~InLoop(g)
      BY <1>0, <1>4, StayingOK
    <3>2. NodeOK(g)' /\ CopyOK(g)' /\ KeptOK(g)'
      BY <1>3, <3>1 DEF FrameOK, NodeOK, CopyOK, KeptOK, ghostVars
    <3>3. LoopOK(g)'
      BY <3>1 DEF LoopOK
    <3> QED  BY <3>2, <3>3 DEF FrameOK
  <2> QED  BY <1>0, <1>5, <2>1, ChangedFramesOK
<1>9. NodesApart' /\ OneLoop'
  BY <1>0, <1>4, <1>5, ChangedNodesApart, ChangedOneLoop DEF IInv
<1>10. ListOK'
  <2>1. TableKept => CalledOnce /\ \A n \in registered : ran[n] > 0 \/ n \in ToSet(finalizerList)
    <3> SUFFICES ASSUME TableKept, NEW n \in registered, n \in ToSet(table) PROVE ran[n] > 0
      BY <1>0 DEF ListOK, NoneForgotten
    <3>1. PICK k \in DOMAIN table : n = table[k]
      BY DEF ToSet
    <3>2. k <= Len(table) /\ k \in Nat /\ Len(table) \in Nat
      BY <1>0 DEF TypeOK
    <3>3. h.c = Len(table) /\ (ran[table[k]] > 0 <=> k <= h.i)
      BY <1>0, <1>1, <1>2 DEF FramesOK, FrameOK, LoopOK
    <3> QED  BY <1>2, <3>1, <3>2, <3>3
  <2> QED  BY <1>0, <1>3, <1>6, <2>1 DEF ListOK, TableKept, CalledOnce, NoneForgotten, ghostVars
<1>11. MemoryOK'
  BY <1>0, <1>3, <1>6 DEF MemoryOK, ghostVars
<1> QED  BY <1>7, <1>8, <1>9, <1>10, <1>11 DEF IInv

\* Besides a procedure that is going to make a registration no other one is going
\* to make it.
LEMMA OtherNodes ==
    ASSUME TypeOK, NodesApart, NEW t \in Thread, NEW i \in DOMAIN frames[t], Waits(frames[t][i])
    PROVE  \A g \in Staying(t, i - 1) : ~(Waits(g) /\ g.node = frames[t][i].node)
<1>1. ASSUME NEW u \in Thread, NEW j \in DOMAIN frames[u], u = t => j <= i - 1,
             Waits(frames[u][j]), frames[u][j].node = frames[t][i].node
      PROVE  FALSE
  <2>1. u = t /\ j = i
    BY <1>1 DEF NodesApart
  <2>2. i \in Nat
    BY DEF TypeOK
  <2> QED  BY <1>1, <2>1, <2>2
<1> QED  BY <1>1 DEF Staying

\* The list after a registration.
LEMMA RegisterElements ==
    ASSUME TypeOK, NEW n, n \notin registered
    PROVE  /\ <<n>> \o finalizerList \in Seq(registered \cup {n})
           /\ IsInjective(<<n>> \o finalizerList)
           /\ ToSet(<<n>> \o finalizerList) = ToSet(finalizerList) \cup {n}
<1> DEFINE T == registered \cup {n}
           r == <<n>> \o finalizerList
<1>1. /\ finalizerList \in Seq(registered) /\ IsInjective(finalizerList)
      /\ Len(finalizerList) \in Nat /\ DOMAIN finalizerList = 1..Len(finalizerList)
  BY DEF TypeOK
<1>2. finalizerList \in Seq(T) /\ <<n>> \in Seq(T) /\ Len(<<n>>) = 1 /\ <<n>>[1] = n
  BY <1>1, SeqMonotonic
<1> HIDE DEF T
<1>3. /\ r \in Seq(T) /\ Len(r) = 1 + Len(finalizerList)
      /\ \A i \in 1..1 + Len(finalizerList) :
            r[i] = IF i <= 1 THEN <<n>>[i] ELSE finalizerList[i - 1]
  BY <1>2, ConcatProperties
<1> HIDE DEF r
<1>4. DOMAIN r = 1..1 + Len(finalizerList) /\ r[1] = n /\ 1 \in DOMAIN r
  BY <1>1, <1>2, <1>3
<1>5. ASSUME NEW i \in DOMAIN r, i # 1
      PROVE  i - 1 \in DOMAIN finalizerList /\ r[i] = finalizerList[i - 1] /\ r[i] # n
  <2>1. i \in Nat /\ ~(i <= 1) /\ i - 1 \in 1..Len(finalizerList)
    BY <1>1, <1>4, <1>5
  <2>2. r[i] = finalizerList[i - 1]
    BY <1>3, <1>4, <2>1
  <2> QED  BY <1>1, <2>1, <2>2
<1>6. ASSUME NEW j \in DOMAIN finalizerList
      PROVE  j + 1 \in DOMAIN r /\ r[j + 1] = finalizerList[j]
  <2>1. j \in Nat /\ j + 1 \in 1..1 + Len(finalizerList) /\ ~(j + 1 <= 1) /\ (j + 1) - 1 = j
    BY <1>1
  <2> QED  BY <1>3, <1>4, <2>1
<1>7. IsInjective(r)
  <2> SUFFICES ASSUME NEW i \in DOMAIN r, NEW j \in DOMAIN r, r[i] = r[j] PROVE i = j
    BY DEF IsInjective
  <2>1. CASE i = 1 \/ j = 1
    BY <1>4, <1>5, <2>1
  <2>2. CASE i # 1 /\ j # 1
    <3>1. i - 1 = j - 1
      BY <1>1, <1>5, <2>2 DEF IsInjective
    <3>2. i \in Nat /\ j \in Nat
      BY <1>4
    <3> QED  BY <3>1, <3>2
  <2> QED  BY <2>1, <2>2
<1>8. ToSet(r) = ToSet(finalizerList) \cup {n}
  <2>1. ASSUME NEW x \in ToSet(r) PROVE x \in ToSet(finalizerList) \cup {n}
    <3>1. PICK i \in DOMAIN r : x = r[i]
      BY DEF ToSet
    <3>2. CASE i = 1
      BY <1>4, <3>1, <3>2
    <3>3. CASE i # 1
      BY <1>5, <3>1, <3>3 DEF ToSet
    <3> QED  BY <3>2, <3>3
  <2>2. n \in ToSet(r)
    BY <1>4 DEF ToSet
  <2>3. ASSUME NEW x \in ToSet(finalizerList) PROVE x \in ToSet(r)
    <3>1. PICK j \in DOMAIN finalizerList : x = finalizerList[j]
      BY DEF ToSet
    <3>2. j + 1 \in DOMAIN r /\ r[j + 1] = x
      BY <1>6, <3>1
    <3> QED  BY <3>2 DEF ToSet
  <2> QED  BY <2>1, <2>2, <2>3
<1> QED  BY <1>3, <1>7, <1>8 DEF r, T

\* ##sys#vector-resize copies the table,
LEMMA CopyTableStep ==
    ASSUME IInv, NEW t \in Thread, CopyTable(t) PROVE IInv'
<1> DEFINE L == Len(frames[t])
           h == frames[t][L]
<1>0. TypeOK /\ OneLoop /\ FramesOK /\ NodesApart /\ ListOK /\ MemoryOK
  BY DEF IInv
<1>1. /\ L \in Nat \ {0} /\ L \in DOMAIN frames[t] /\ Top(t) = h
      /\ h \in FrameType /\ h.op = "resized"
      /\ Len(Below(t)) = L - 1 /\ \A f : IsStack(Below(t), t, L - 1, 0, f)
  BY <1>0, AtTop DEF CopyTable
<1>2. Waits(h) /\ h.node \in NodeId
  <2>1. Waits(h)
    BY <1>1 DEF Waits
  <2> QED  BY <1>1, <2>1, FrameFields
<1>3. /\ UNCHANGED <<heapVars, workingThread, alive, exiting, exited, ghostVars>>
      /\ frames' = [frames EXCEPT ![t] = Append(Below(t),
                       [op |-> "copied", node |-> h.node, copy |-> table])]
  BY <1>1 DEF CopyTable, Resume
<1>4. table \in Seq(registered) /\ table \in Seq(NodeId) /\ IsInjective(table)
      /\ Len(table) <= maxPending
  <2>1. registered \subseteq NodeId
    BY <1>0, BoundsAssumption DEF TypeOK, NodeId
  <2> QED  BY <1>0, <2>1, SeqMonotonic DEF TypeOK
<1>5. PICK f : f = [op |-> "copied", node |-> h.node, copy |-> table]
  OBVIOUS
<1>6. /\ f \in FrameType /\ f.op = "copied" /\ f.node = h.node /\ f.copy = table
      /\ Waits(f) /\ ~InLoop(f)
  <2>1. f \in FrameType
    BY <1>2, <1>4, <1>5 DEF FrameType
  <2> QED  BY <1>5, <2>1 DEF Waits, InLoop
<1>7. Changed(t, L - 1, L, f)
  <2>1. IsStack(Append(Below(t), f), t, L - 1, Len(Below(t)) + 1, f)
    BY <1>1, <1>6, AddFrame
  <2>2. Len(Below(t)) + 1 = L
    BY <1>1
  <2>3. frames' = [frames EXCEPT ![t] = Append(Below(t), f)]
    BY <1>3, <1>5
  <2> QED  BY <1>0, <2>1, <2>2, <2>3, ResumeChanges
<1>8. TypeOK'
  BY <1>0, <1>3, <1>7 DEF TypeOK, Changed, heapVars, ghostVars
<1>9. FramesOK'
  <2>1. ASSUME NEW g \in Staying(t, L - 1) PROVE FrameOK(g)'
    <3>1. FrameOK(g)
      BY <1>0, StayingOK
    <3> QED  BY <1>3, <3>1 DEF FrameOK, NodeOK, CopyOK, KeptOK, LoopOK, TableKept, heapVars, ghostVars
  <2>2. FrameOK(f)'
    <3>1. NodeOK(h) /\ CopyOK(h) /\ KeptOK(h)
      BY <1>0, <1>1 DEF FramesOK, FrameOK
    <3>2. NodeOK(f)'
      BY <1>2, <1>3, <1>6, <3>1 DEF NodeOK, ghostVars
    <3>3. CopyOK(f)'
      BY <1>0, <1>1, <1>3, <1>4, <1>6, <3>1 DEF CopyOK, ListOK, heapVars, ghostVars
    <3>4. KeptOK(f)'
      BY <1>0, <1>2, <1>3, <1>6, <3>1 DEF KeptOK, MemoryOK, heapVars, ghostVars
    <3>5. LoopOK(f)'
      BY <1>6 DEF LoopOK
    <3> QED  BY <3>2, <3>3, <3>4, <3>5 DEF FrameOK
  <2> QED  BY <1>0, <1>7, <2>1, <2>2, ChangedFramesOK
<1>10. NodesApart'
  BY <1>0, <1>1, <1>2, <1>6, <1>7, OtherNodes, ChangedNodesApart
<1>11. OneLoop'
  BY <1>0, <1>3, <1>6, <1>7, ChangedOneLoop
<1>12. ListOK' /\ MemoryOK'
  BY <1>0, <1>3 DEF ListOK, MemoryOK, TableKept, CalledOnce, NoneForgotten, heapVars, ghostVars
<1> QED  BY <1>8, <1>9, <1>10, <1>11, <1>12 DEF IInv

\* and the copy becomes the table.
LEMMA InstallTableStep ==
    ASSUME IInv, NEW t \in Thread, InstallTable(t) PROVE IInv'
<1> DEFINE L == Len(frames[t])
           h == frames[t][L]
<1>0. TypeOK /\ OneLoop /\ FramesOK /\ NodesApart /\ ListOK /\ MemoryOK
  BY DEF IInv
<1>1. /\ L \in Nat \ {0} /\ L \in DOMAIN frames[t] /\ Top(t) = h
      /\ h \in FrameType /\ h.op = "copied"
      /\ Len(Below(t)) = L - 1 /\ \A f : IsStack(Below(t), t, L - 1, 0, f)
  BY <1>0, AtTop DEF InstallTable
<1>2. Waits(h) /\ h.node \in NodeId
  <2>1. Waits(h)
    BY <1>1 DEF Waits
  <2> QED  BY <1>1, <2>1, FrameFields
<1>3. /\ UNCHANGED <<finalizerList, maxPending, held, freed>>
      /\ UNCHANGED <<workingThread, alive, exiting, exited, ghostVars>>
      /\ table' = h.copy
      /\ frames' = [frames EXCEPT ![t] = Append(Below(t), [op |-> "register", node |-> h.node])]
  BY <1>1 DEF InstallTable, Resume
<1>4. /\ NodeOK(h) /\ KeptOK(h) /\ maxPending > InitialMax
      /\ h.copy \in Seq(registered) /\ IsInjective(h.copy) /\ Len(h.copy) <= maxPending
      /\ ToSet(h.copy) \cap ToSet(finalizerList) = {}
  <2>1. NodeOK(h) /\ CopyOK(h) /\ KeptOK(h)
    BY <1>0, <1>1 DEF FramesOK, FrameOK
  <2> QED  BY <1>1, <2>1 DEF CopyOK
<1>5. ~TableKept /\ ~TableKept'
  <2>1. maxPending \in Nat /\ InitialMax \in Nat
    BY <1>0, BoundsAssumption DEF TypeOK
  <2> QED  BY <1>3, <1>4, <2>1 DEF TableKept
<1>6. PICK f : f = [op |-> "register", node |-> h.node]
  OBVIOUS
<1>7. f \in FrameType /\ f.op = "register" /\ f.node = h.node /\ Waits(f) /\ ~InLoop(f)
  <2>1. f \in FrameType
    BY <1>2, <1>6 DEF FrameType
  <2> QED  BY <1>6, <2>1 DEF Waits, InLoop
<1>8. Changed(t, L - 1, L, f)
  <2>1. IsStack(Append(Below(t), f), t, L - 1, Len(Below(t)) + 1, f)
    BY <1>1, <1>7, AddFrame
  <2>2. Len(Below(t)) + 1 = L
    BY <1>1
  <2>3. frames' = [frames EXCEPT ![t] = Append(Below(t), f)]
    BY <1>3, <1>6
  <2> QED  BY <1>0, <2>1, <2>2, <2>3, ResumeChanges
<1>9. TypeOK'
  BY <1>0, <1>3, <1>4, <1>8 DEF TypeOK, Changed, ghostVars
<1>10. FramesOK'
  <2>1. ASSUME NEW g \in Staying(t, L - 1) PROVE FrameOK(g)'
    <3>1. FrameOK(g)
      BY <1>0, StayingOK
    <3>2. NodeOK(g)' /\ CopyOK(g)' /\ KeptOK(g)'
      BY <1>3, <3>1 DEF FrameOK, NodeOK, CopyOK, KeptOK, ghostVars
    <3> QED  BY <1>5, <3>2 DEF FrameOK, LoopOK
  <2>2. FrameOK(f)'
    <3>1. NodeOK(f)'
      BY <1>2, <1>3, <1>4, <1>7 DEF NodeOK, ghostVars
    <3>2. KeptOK(f)'
      BY <1>2, <1>3, <1>4, <1>7 DEF KeptOK, ghostVars
    <3>3. CopyOK(f)' /\ LoopOK(f)'
      BY <1>7 DEF CopyOK, LoopOK
    <3> QED  BY <3>1, <3>2, <3>3 DEF FrameOK
  <2> QED  BY <1>0, <1>8, <2>1, <2>2, ChangedFramesOK
<1>11. NodesApart'
  BY <1>0, <1>1, <1>2, <1>7, <1>8, OtherNodes, ChangedNodesApart
<1>12. OneLoop'
  BY <1>0, <1>3, <1>7, <1>8, ChangedOneLoop
<1>13. ListOK'
  BY <1>0, <1>3, <1>4, <1>5 DEF ListOK, ghostVars
<1>14. MemoryOK'
  BY <1>0, <1>1, <1>3, <1>4 DEF MemoryOK, KeptOK, ghostVars
<1> QED  BY <1>9, <1>10, <1>11, <1>12, <1>13, <1>14 DEF IInv

\* A registration of node n is made, which no other procedure is going to make.
LEMMA RegisterStep ==
    ASSUME IInv, NEW t, NEW m, NEW f, Changed(t, m, 0, f),
           NEW n \in NodeId, n \notin registered,
           \A g \in Staying(t, m) : Waits(g) => g.node # n,
           nodes' \in Seq(Object), Len(nodes') <= MaxNodes, n \in DOMAIN nodes',
           \A k \in DOMAIN nodes : k \in DOMAIN nodes' /\ nodes'[k] = nodes[k],
           nodes'[n] \notin freed,
           Register(n),
           UNCHANGED <<maxPending, table, held, freed, workingThread, alive, exiting, exited, ran>>
    PROVE  IInv'
<1>0. TypeOK /\ OneLoop /\ FramesOK /\ NodesApart /\ ListOK /\ MemoryOK
  BY DEF IInv
<1>1. /\ finalizerList' \in Seq(registered') /\ IsInjective(finalizerList')
      /\ ToSet(finalizerList') = ToSet(finalizerList) \cup {n}
      /\ registered' = registered \cup {n}
  BY <1>0, RegisterElements DEF Register
<1>2. /\ registered \subseteq DOMAIN nodes /\ table \in Seq(registered)
      /\ ToSet(table) \subseteq registered /\ ToSet(finalizerList) \subseteq registered
  BY <1>0 DEF TypeOK, ToSet
<1>3. TypeOK'
  <2>1. table' \in Seq(registered')
    BY <1>1, <1>2, SeqMonotonic
  <2>2. registered' \subseteq DOMAIN nodes'
    BY <1>1, <1>2
  <2> QED  BY <1>0, <1>1, <2>1, <2>2 DEF TypeOK, Changed
<1>4. FramesOK'
  <2>1. ASSUME NEW g \in Staying(t, m) PROVE FrameOK(g)'
    <3>1. FrameOK(g)
      BY <1>0, StayingOK
    <3>2. NodeOK(g)'
      BY <1>1, <3>1 DEF FrameOK, NodeOK
    <3>3. CopyOK(g)'
      <4> SUFFICES ASSUME g.op = "copied"
                   PROVE  /\ g.copy \in Seq(registered')
                          /\ ToSet(g.copy) \cap ToSet(finalizerList') = {}
        BY <3>1 DEF FrameOK, CopyOK
      <4>1. g.copy \in Seq(registered) /\ ToSet(g.copy) \cap ToSet(finalizerList) = {}
        BY <3>1 DEF FrameOK, CopyOK
      <4>2. ToSet(g.copy) \subseteq registered
        BY <4>1 DEF ToSet
      <4> QED  BY <1>1, <4>1, <4>2, SeqMonotonic
    <3>4. KeptOK(g)'
      <4>1. Waits(g) \/ g.op = "handler" => g.node \in DOMAIN nodes
        BY <1>2, <3>1 DEF FrameOK, NodeOK
      <4>2. g.op = "copied" => \A k \in ToSet(g.copy) : k \in DOMAIN nodes
        <5> SUFFICES ASSUME g.op = "copied" PROVE ToSet(g.copy) \subseteq DOMAIN nodes
          OBVIOUS
        <5>1. g.copy \in Seq(registered)
          BY <3>1 DEF FrameOK, CopyOK
        <5> QED  BY <1>2, <5>1 DEF ToSet
      <4> QED  BY <3>1, <4>1, <4>2 DEF FrameOK, KeptOK
    <3>5. LoopOK(g)'
      BY <3>1 DEF FrameOK, LoopOK, TableKept
    <3> QED  BY <3>2, <3>3, <3>4, <3>5 DEF FrameOK
  <2> QED  BY <1>0, <2>1, ChangedFramesOK
<1>5. NodesApart' /\ OneLoop'
  BY <1>0, ChangedNodesApart, ChangedOneLoop
<1>6. ListOK'
  <2>1. ran[n] = 0
    BY <1>0 DEF ListOK
  <2>2. NoneForgotten => NoneForgotten'
    BY <1>1 DEF NoneForgotten
  <2> QED  BY <1>0, <1>1, <1>2, <2>1, <2>2 DEF ListOK, TableKept, CalledOnce
<1>7. MemoryOK'
  BY <1>0, <1>1, <1>2 DEF MemoryOK
<1> QED  BY <1>3, <1>4, <1>5, <1>6, <1>7 DEF IInv

\* A procedure that was held up makes its registration.
LEMMA RegisterResumedStep ==
    ASSUME IInv, NEW t \in Thread, RegisterResumed(t) PROVE IInv'
<1> DEFINE L == Len(frames[t])
           h == frames[t][L]
<1>0. TypeOK /\ FramesOK /\ NodesApart
  BY DEF IInv
<1>1. /\ L \in Nat \ {0} /\ L \in DOMAIN frames[t] /\ Top(t) = h
      /\ h \in FrameType /\ h.op = "register"
      /\ \A f : IsStack(Below(t), t, L - 1, 0, f)
  BY <1>0, AtTop DEF RegisterResumed
<1>2. Waits(h) /\ h.node \in NodeId
  <2>1. Waits(h)
    BY <1>1 DEF Waits
  <2> QED  BY <1>1, <2>1, FrameFields
<1>3. /\ Register(h.node) /\ frames' = [frames EXCEPT ![t] = Below(t)]
      /\ UNCHANGED <<maxPending, table, held, freed, workingThread, alive, exiting, exited,
                     nodes, ran>>
  BY <1>1 DEF RegisterResumed, Resume
<1>4. Changed(t, L - 1, 0, 0)
  BY <1>0, <1>1, <1>3, ResumeChanges
<1>5. h.node \in DOMAIN nodes /\ h.node \notin registered /\ nodes[h.node] \notin freed
  <2>1. NodeOK(h) /\ KeptOK(h)
    BY <1>0, <1>1 DEF FramesOK, FrameOK
  <2> QED  BY <1>2, <2>1 DEF NodeOK, KeptOK
<1>6. \A g \in Staying(t, L - 1) : Waits(g) => g.node # h.node
  BY <1>0, <1>1, <1>2, OtherNodes
<1>7. nodes' \in Seq(Object) /\ Len(nodes') <= MaxNodes /\ nodes' = nodes
  BY <1>0, <1>3 DEF TypeOK
<1>8. PICK n \in NodeId : n = h.node
  BY <1>2
<1> HIDE DEF h
<1> QED  BY <1>3, <1>4, <1>5, <1>6, <1>7, <1>8, RegisterStep

\* A registration is begun, and the procedure is held up.
LEMMA PromiseStep ==
    ASSUME IInv, NEW t, NEW m, NEW p, NEW f, Changed(t, m, p, f),
           f.op \in {"resized", "register"}, f.node \notin DOMAIN nodes, f.node \in DOMAIN nodes',
           f.op = "resized" => maxPending' > InitialMax,
           nodes' \in Seq(Object), Len(nodes') <= MaxNodes,
           \A k \in DOMAIN nodes : k \in DOMAIN nodes' /\ nodes'[k] = nodes[k],
           nodes'[f.node] \notin freed,
           maxPending' \in Nat, maxPending' >= maxPending, TableKept' => TableKept,
           UNCHANGED <<finalizerList, table, held, freed, workingThread, alive, exiting, exited,
                       registered, ran>>
    PROVE  IInv'
<1>0. TypeOK /\ OneLoop /\ FramesOK /\ NodesApart /\ ListOK /\ MemoryOK
  BY DEF IInv
<1>1. /\ registered \subseteq DOMAIN nodes /\ maxPending \in Nat \ {0} /\ InitialMax \in Nat
      /\ ToSet(table) \subseteq registered /\ ToSet(finalizerList) \subseteq registered
      /\ Len(table) \in Nat /\ Len(table) <= maxPending
  BY <1>0, BoundsAssumption DEF TypeOK, ToSet
<1>2. Waits(f) /\ ~InLoop(f)
  BY DEF Waits, InLoop
<1>3. TypeOK'
  <2>1. maxPending' \in Nat \ {0} /\ Len(table) <= maxPending'
    BY <1>1
  <2>2. registered \subseteq DOMAIN nodes'
    BY <1>1
  <2> QED  BY <1>0, <2>1, <2>2 DEF TypeOK, Changed
<1>4. ASSUME NEW g \in Staying(t, m) PROVE FrameOK(g)'
  <2>1. FrameOK(g) /\ g \in FrameType
    BY <1>0, StayingOK
  <2>2. NodeOK(g)'
    BY <1>1, <2>1 DEF FrameOK, NodeOK
  <2>3. CopyOK(g)'
    <3>1. g.op = "copied" => Len(g.copy) \in Nat
      BY <2>1, FrameFields
    <3>2. maxPending > InitialMax => maxPending' > InitialMax
      BY <1>1
    <3>3. g.op = "copied" /\ Len(g.copy) <= maxPending => Len(g.copy) <= maxPending'
      BY <1>1, <3>1
    <3> QED  BY <2>1, <3>2, <3>3 DEF FrameOK, CopyOK
  <2>4. KeptOK(g)'
    <3>1. Waits(g) \/ g.op = "handler" => g.node \in DOMAIN nodes
      BY <1>1, <2>1 DEF FrameOK, NodeOK
    <3>2. g.op = "copied" => \A k \in ToSet(g.copy) : k \in DOMAIN nodes
      <4> SUFFICES ASSUME g.op = "copied" PROVE ToSet(g.copy) \subseteq DOMAIN nodes
        OBVIOUS
      <4>1. g.copy \in Seq(registered)
        BY <2>1 DEF FrameOK, CopyOK
      <4> QED  BY <1>1, <4>1 DEF ToSet
    <3> QED  BY <2>1, <3>1, <3>2 DEF FrameOK, KeptOK
  <2>5. LoopOK(g)'
    BY <2>1 DEF FrameOK, LoopOK
  <2> QED  BY <2>2, <2>3, <2>4, <2>5 DEF FrameOK
<1>5. FrameOK(f)'
  <2>1. NodeOK(f)'
    BY <1>1, <1>2 DEF NodeOK
  <2>2. CopyOK(f)' /\ KeptOK(f)' /\ LoopOK(f)'
    BY <1>2 DEF CopyOK, KeptOK, LoopOK
  <2> QED  BY <2>1, <2>2 DEF FrameOK
<1>6. FramesOK'
  BY <1>0, <1>4, <1>5, ChangedFramesOK
<1>7. \A g \in Staying(t, m) : ~(Waits(g) /\ g.node = f.node)
  BY <1>0, StayingOK DEF FrameOK, NodeOK
<1>8. NodesApart' /\ OneLoop'
  BY <1>0, <1>2, <1>7, ChangedNodesApart, ChangedOneLoop
<1>9. ListOK'
  <2>1. maxPending' >= InitialMax
    BY <1>0, <1>1 DEF ListOK
  <2> QED  BY <1>0, <2>1 DEF ListOK, CalledOnce, NoneForgotten
<1>10. MemoryOK'
  BY <1>0, <1>1 DEF MemoryOK
<1> QED  BY <1>3, <1>6, <1>8, <1>9, <1>10 DEF IInv

\* ##sys#init-finalizer
LEMMA SetFinalizerStep ==
    ASSUME IInv, NEW t \in Thread, NEW x \in Object, SetFinalizer(t, x) PROVE IInv'
<1>0. TypeOK /\ FramesOK /\ ListOK /\ MemoryOK
  BY DEF IInv
<1>1. PICK n : n = Len(nodes) + 1
  OBVIOUS
<1>2. /\ x \in held /\ n <= MaxNodes /\ nodes' = Append(nodes, x)
      /\ UNCHANGED <<table, held, freed, workingThread, alive, exiting, exited, ran>>
  BY <1>1 DEF SetFinalizer
<1>3. /\ nodes' \in Seq(Object) /\ Len(nodes') = n /\ nodes'[n] = x /\ n \in NodeId
      /\ n \in DOMAIN nodes' /\ n \notin DOMAIN nodes
      /\ \A k \in DOMAIN nodes : k \in DOMAIN nodes' /\ nodes'[k] = nodes[k]
  <2>1. nodes \in Seq(Object) /\ Len(nodes) \in Nat /\ DOMAIN nodes = 1..Len(nodes)
    BY <1>0 DEF TypeOK
  <2>2. /\ nodes' \in Seq(Object) /\ Len(nodes') = Len(nodes) + 1
        /\ \A k \in 1..Len(nodes) : nodes'[k] = nodes[k]
        /\ nodes'[Len(nodes) + 1] = x
    BY <1>2, <2>1, AppendProperties
  <2>3. n \in Nat \ {0} /\ DOMAIN nodes' = 1..n /\ ~(n <= Len(nodes))
    BY <1>1, <2>1, <2>2
  <2>4. n \in NodeId
    BY <1>2, <2>3, BoundsAssumption DEF NodeId
  <2>5. n \in DOMAIN nodes' /\ n \notin DOMAIN nodes
    BY <2>1, <2>3
  <2>6. \A k \in DOMAIN nodes : k \in DOMAIN nodes' /\ nodes'[k] = nodes[k]
    BY <1>1, <2>1, <2>2, <2>3
  <2> QED  BY <1>1, <2>2, <2>4, <2>5, <2>6
<1>4. nodes'[n] \notin freed /\ n \notin registered
  BY <1>0, <1>2, <1>3 DEF MemoryOK, TypeOK
<1>5. CASE /\ Register(n)
           /\ UNCHANGED <<maxPending, frames>>
  <2>1. PICK m : m = Len(frames[t])
    OBVIOUS
  <2>2. Changed(t, m, 0, 0)
    <3>1. IsStack(frames[t], t, m, 0, 0)
      BY <1>0, <2>1, Stacks
    <3>2. frames' = [frames EXCEPT ![t] = frames[t]]
      BY <1>0, <1>5 DEF TypeOK
    <3> QED  BY <1>0, <3>1, <3>2, ResumeChanges
  <2>3. \A g \in Staying(t, m) : Waits(g) => g.node # n
    BY <1>0, <1>3, StayingOK DEF FrameOK, NodeOK
  <2> QED  BY <1>2, <1>3, <1>4, <1>5, <2>2, <2>3, RegisterStep
<1>6. CASE /\ maxPending' = 2 * maxPending
           /\ Resume(t, Append(frames[t], [op |-> "resized", node |-> n]))
           /\ UNCHANGED <<finalizerList, registered>>
  <2>1. PICK f : f = [op |-> "resized", node |-> n]
    OBVIOUS
  <2>2. f \in FrameType /\ f.op = "resized" /\ f.node = n
    BY <1>3, <2>1 DEF FrameType
  <2>3. PICK m, p : Changed(t, m, p, f)
    <3>1. IsStack(frames[t], t, Len(frames[t]), 0, f)
      BY <1>0, Stacks
    <3>2. IsStack(Append(frames[t], f), t, Len(frames[t]), Len(frames[t]) + 1, f)
      BY <2>2, <3>1, AddFrame
    <3>3. frames' = [frames EXCEPT ![t] = Append(frames[t], f)]
      BY <1>6, <2>1 DEF Resume
    <3> QED  BY <1>0, <3>2, <3>3, ResumeChanges
  <2>4. /\ maxPending' \in Nat /\ maxPending' >= maxPending /\ maxPending' > InitialMax
        /\ ~TableKept'
    <3>1. maxPending \in Nat \ {0} /\ InitialMax \in Nat /\ maxPending >= InitialMax
      BY <1>0, BoundsAssumption DEF TypeOK, ListOK
    <3>2. 2 * maxPending \in Nat /\ 2 * maxPending > maxPending
      BY <3>1
    <3>3. maxPending' > InitialMax
      BY <1>6, <3>1, <3>2
    <3> QED  BY <1>6, <3>1, <3>2, <3>3 DEF TableKept
  <2> QED  BY <1>2, <1>3, <1>4, <1>6, <2>2, <2>3, <2>4, PromiseStep
<1>7. CASE /\ Resume(t, frames[t] \o << [op |-> "register", node |-> n],
                                         [op |-> "force", owed |-> Owed] >>)
           /\ UNCHANGED <<finalizerList, maxPending, registered>>
  <2>1. PICK f : f = [op |-> "register", node |-> n]
    OBVIOUS
  <2>2. f \in FrameType /\ f.op = "register" /\ f.node = n
    BY <1>3, <2>1 DEF FrameType
  <2>3. PICK g : g = [op |-> "force", owed |-> Owed]
    OBVIOUS
  <2>4. g \in FrameType /\ Plain(g)
    BY <1>0, <2>3, PlainFrames
  <2>5. PICK m, p : Changed(t, m, p, f)
    <3>1. IsStack(frames[t], t, Len(frames[t]), 0, f)
      BY <1>0, Stacks
    <3>2. IsStack(Append(frames[t], f), t, Len(frames[t]), Len(frames[t]) + 1, f)
      BY <2>2, <3>1, AddFrame
    <3>3. IsStack(Append(Append(frames[t], f), g), t, Len(frames[t]), Len(frames[t]) + 1, f)
      BY <2>4, <3>2, AddPlain
    <3>4. frames[t] \o <<f, g>> = Append(Append(frames[t], f), g)
      BY <1>0, <2>2, <2>4, TwoMore DEF TypeOK
    <3>5. frames' = [frames EXCEPT ![t] = Append(Append(frames[t], f), g)]
      BY <1>7, <2>1, <2>3, <3>4 DEF Resume
    <3> QED  BY <1>0, <3>3, <3>5, ResumeChanges
  <2>6. maxPending' \in Nat /\ maxPending' >= maxPending /\ (TableKept' => TableKept)
    BY <1>0, <1>7 DEF TypeOK, TableKept
  <2> QED  BY <1>2, <1>3, <1>4, <1>7, <2>2, <2>5, <2>6, PromiseStep
<1> QED  BY <1>1, <1>5, <1>6, <1>7 DEF SetFinalizer

\* A step that leaves the frames alone.
LEMMA SameFrames ==
    ASSUME TypeOK, UNCHANGED frames, NEW t \in Thread
    PROVE  Changed(t, Len(frames[t]), 0, 0)
<1>1. IsStack(frames[t], t, Len(frames[t]), 0, 0)
  BY Stacks
<1>2. frames' = [frames EXCEPT ![t] = frames[t]]
  BY DEF TypeOK
<1> QED  BY <1>1, <1>2, ResumeChanges

\* A thread calls a library procedure that has nothing to do with the table, goes
\* on in one, or leaves one.
LEMMA PlainStacks ==
    ASSUME TypeOK, NEW t \in Thread, Op(t) \in {"force", "forced", "tasks", "live", "quit"},
           t \in alive, ~exited
    PROVE  /\ \A f : IsStack(Below(t), t, Len(frames[t]) - 1, 0, f)
           /\ \A o \in {"force", "forced", "tasks", "live", "quit"} : \A f :
                  IsStack(Append(Below(t), [Top(t) EXCEPT !.op = o]), t, Len(frames[t]) - 1, 0, f)
           /\ \E m : \A f : IsStack(Quit(t), t, m, 0, f)
<1> DEFINE m == Len(frames[t]) - 1
<1>1. PICK op \in {"force", "forced", "tasks", "live", "quit"} : op = Op(t)
  OBVIOUS
<1>2. At(t, op) /\ op # "program"
  BY <1>1 DEF At
<1>3. Top(t) \in FrameType /\ Plain(Top(t)) /\ \A f : IsStack(Below(t), t, m, 0, f)
  BY <1>2, AtTop DEF Plain
<1>4. ASSUME NEW o \in {"force", "forced", "tasks", "live", "quit"}, NEW f
      PROVE  IsStack(Append(Below(t), [Top(t) EXCEPT !.op = o]), t, m, 0, f)
  <2>1. PICK g : g = [Top(t) EXCEPT !.op = o]
    OBVIOUS
  <2>2. g \in FrameType /\ Plain(g)
    BY <1>3, <2>1, PlainFrames
  <2>3. IsStack(Append(Below(t), g), t, m, 0, f)
    BY <1>3, <2>2, AddPlain
  <2> QED  BY <2>1, <2>3
<1>5. ASSUME NEW f PROVE IsStack(Quit(t), t, m, 0, f)
  <2>1. PICK g : g = [op |-> "quit", owed |-> Top(t).owed]
    OBVIOUS
  <2>2. PICK h : h = [op |-> "force", owed |-> Owed]
    OBVIOUS
  <2>3. g \in FrameType /\ Plain(g) /\ h \in FrameType /\ Plain(h)
    <3>1. Top(t).owed \in SUBSET NodeId
      BY <1>3, FrameFields
    <3> QED  BY <2>1, <2>2, <3>1, PlainFrames
  <2>4. Below(t) \in Seq(FrameType) /\ IsStack(Below(t), t, m, 0, f)
    BY <1>3 DEF IsStack
  <2>5. IsStack(Append(Below(t), g), t, m, 0, f)
    BY <2>3, <2>4, AddPlain
  <2>6. IsStack(Append(Append(Below(t), g), h), t, m, 0, f)
    BY <2>3, <2>5, AddPlain
  <2>7. Below(t) \o <<g>> = Append(Below(t), g) /\ Append(Below(t), g) \in Seq(FrameType)
    BY <2>3, <2>4, AppendIsConcat, AppendProperties
  <2>8. /\ Append(Below(t), g) \o <<>> = Append(Below(t), g)
        /\ Append(Below(t), g) \o <<h>> = Append(Append(Below(t), g), h)
    BY <2>3, <2>7, AppendIsConcat, ConcatEmptySeq
  <2>9. Quit(t) \in {Append(Below(t), g), Append(Append(Below(t), g), h)}
    <3>1. Quit(t) = (Below(t) \o <<g>>) \o (IF finalizerList = <<>> THEN <<>> ELSE <<h>>)
      BY <2>1, <2>2 DEF Quit
    <3> QED  BY <2>7, <2>8, <3>1
  <2> QED  BY <2>5, <2>6, <2>9
<1> QED  BY <1>3, <1>4, <1>5

\* The invariant holds at the start,
LEMMA IInvInit == Init => IInv
<1> SUFFICES ASSUME Init PROVE IInv
  OBVIOUS
<1>1. /\ finalizerList = <<>> /\ table = <<>> /\ nodes = <<>> /\ registered = {}
      /\ DOMAIN finalizerList = {} /\ DOMAIN table = {} /\ DOMAIN nodes = {}
      /\ Len(table) = 0 /\ Len(nodes) = 0
      /\ ToSet(finalizerList) = {} /\ ToSet(table) = {}
      /\ \A t \in Thread : frames[t] = <<>> /\ DOMAIN frames[t] = {}
  BY DEF Init, ToSet
<1>2. TypeOK
  <2>1. finalizerList \in Seq(registered) /\ IsInjective(finalizerList)
        /\ table \in Seq(registered) /\ IsInjective(table)
    BY <1>1 DEF IsInjective
  <2>2. maxPending \in Nat \ {0} /\ Len(table) <= maxPending /\ Len(nodes) <= MaxNodes
    BY <1>1, BoundsAssumption DEF Init
  <2>3. nodes \in Seq(Object) /\ registered \subseteq DOMAIN nodes
    BY <1>1
  <2>4. frames \in [Thread -> Seq(FrameType)] /\ ran \in [NodeId -> Nat]
    BY DEF Init, NodeId
  <2> QED  BY <2>1, <2>2, <2>3, <2>4 DEF Init, TypeOK
<1>3. OneLoop /\ FramesOK /\ NodesApart
  BY <1>1 DEF OneLoop, FramesOK, NodesApart
<1>4. ListOK
  <2>1. \A n \in NodeId : ran[n] = 0
    BY DEF Init, NodeId
  <2>2. maxPending >= InitialMax
    BY BoundsAssumption DEF Init
  <2> QED  BY <1>1, <2>1, <2>2 DEF ListOK, CalledOnce, NoneForgotten
<1>5. MemoryOK
  BY <1>1 DEF MemoryOK, Init
<1> QED  BY <1>2, <1>3, <1>4, <1>5 DEF IInv

\* and every step keeps it.
LEMMA IInvStep == IInv /\ [Next]_vars => IInv'
<1> SUFFICES ASSUME IInv, [Next]_vars PROVE IInv'
  OBVIOUS
<1>0. /\ TypeOK /\ held \in SUBSET Object /\ held \cap freed = {} /\ alive \in SUBSET Thread
      /\ exiting \in BOOLEAN /\ exited \in BOOLEAN
  BY DEF IInv, MemoryOK, TypeOK
<1>1. CASE UNCHANGED vars
  BY <1>1 DEF vars, heapVars, ghostVars, IInv, TypeOK, OneLoop, FramesOK, FrameOK, NodeOK, CopyOK,
              KeptOK, LoopOK, NodesApart, ListOK, MemoryOK, TableKept, CalledOnce, NoneForgotten
<1>2. CASE Collect
  <2>1. CASE Thread = {}
    <3>1. \A t : Changed(t, 0, 0, 0)
      BY <1>0, <1>2, <2>1 DEF Changed, Collect, TypeOK
    <3> QED  BY <1>0, <1>2, <3>1, ReclaimStep DEF Collect
  <2>2. ASSUME NEW t \in Thread PROVE IInv'
    <3>1. Changed(t, Len(frames[t]), 0, 0)
      BY <1>0, <1>2, SameFrames DEF Collect
    <3>2. PICK m : m = Len(frames[t])
      OBVIOUS
    <3> QED  BY <1>0, <1>2, <3>1, <3>2, ReclaimStep DEF Collect
  <2> QED  BY <2>1, <2>2
<1>3. ASSUME NEW t \in Thread, InterruptHook(t) PROVE IInv'
  <2>1. \A f : IsStack(frames[t], t, Len(frames[t]), 0, f)
    BY <1>0, Stacks
  <2>2. PICK s, m : s = frames[t] /\ m = Len(frames[t])
    OBVIOUS
  <2> QED  BY <1>3, <2>1, <2>2, RunPendingStep DEF InterruptHook
<1>4. ASSUME NEW t \in Thread, Step(t) PROVE IInv'
  <2>1. CASE CallFinalizer(t)
    BY <2>1, CallFinalizerStep
  <2>2. CASE FinalizerReturns(t)
    <3>1. /\ Len(frames[t]) \in DOMAIN frames[t] /\ Top(t) = frames[t][Len(frames[t])]
          /\ Top(t).op = "handler" /\ Below(t) = SubSeq(frames[t], 1, Len(frames[t]) - 1)
      BY <1>0, <2>2, AtTop DEF FinalizerReturns, Below, Front
    <3>2. PICK i : i = Len(frames[t])
      OBVIOUS
    <3> QED  BY <2>2, <3>1, <3>2, LoopAdvances DEF FinalizerReturns, Resume
  <2>3. CASE FinalizersDone(t)
    BY <2>3, FinalizersDoneStep
  <2>4. CASE CopyTable(t)
    BY <2>4, CopyTableStep
  <2>5. CASE InstallTable(t)
    BY <2>5, InstallTableStep
  <2>6. CASE RegisterResumed(t)
    BY <2>6, RegisterResumedStep
  <2>7. CASE ForceCollect(t)
    <3>1. PICK s : s = Append(Below(t), [Top(t) EXCEPT !.op = "forced"])
      OBVIOUS
    <3>2. PICK m : m = Len(frames[t]) - 1
      OBVIOUS
    <3>3. IsStack(s, t, m, 0, 0)
      BY <1>0, <2>7, <3>1, <3>2, PlainStacks DEF ForceCollect, At
    <3>4. Changed(t, m, 0, 0)
      BY <1>0, <2>7, <3>1, <3>3, ResumeChanges DEF ForceCollect, Resume
    <3> QED  BY <1>0, <2>7, <3>4, ReclaimStep DEF ForceCollect
  <2>8. CASE ForceLoop(t)
    <3>1. PICK s : s = Append(Below(t), [Top(t) EXCEPT !.op = "force"])
      OBVIOUS
    <3>2. PICK m, b : m = Len(frames[t]) - 1 /\ b = Below(t)
      OBVIOUS
    <3>3. (\A f : IsStack(s, t, m, 0, f)) /\ IsStack(b, t, m, 0, 0)
      BY <1>0, <2>8, <3>1, <3>2, PlainStacks DEF ForceLoop, At
    <3>4. CASE table # <<>>
      BY <2>8, <3>1, <3>3, <3>4, RunPendingStep DEF ForceLoop
    <3>5. CASE table = <<>>
      <4>1. Changed(t, m, 0, 0)
        BY <1>0, <2>8, <3>2, <3>3, <3>5, ResumeChanges DEF ForceLoop, Resume
      <4> QED  BY <1>0, <2>8, <3>5, <4>1, PlainStep DEF ForceLoop, heapVars
    <3> QED  BY <3>4, <3>5
  <2>9. CASE ExitPending(t)
    <3>1. PICK s : s = Append(Below(t), [Top(t) EXCEPT !.op = "live"])
      OBVIOUS
    <3>2. PICK m, b : m = Len(frames[t]) - 1 /\ b = Quit(t)
      OBVIOUS
    <3>3. \A f : IsStack(s, t, m, 0, f)
      BY <1>0, <2>9, <3>1, <3>2, PlainStacks DEF ExitPending, At
    <3>4. CASE table # <<>>
      BY <2>9, <3>1, <3>3, <3>4, RunPendingStep DEF ExitPending
    <3>5. CASE table = <<>>
      <4>1. PICK n : IsStack(b, t, n, 0, 0)
        BY <1>0, <2>9, <3>2, PlainStacks DEF ExitPending, At
      <4>2. Changed(t, n, 0, 0)
        BY <1>0, <2>9, <3>2, <3>5, <4>1, ResumeChanges DEF ExitPending, Resume
      <4> QED  BY <1>0, <2>9, <3>5, <4>2, PlainStep DEF ExitPending, heapVars
    <3> QED  BY <3>4, <3>5
  <2>10. CASE ExitForce(t)
    <3>1. PICK b : b = Quit(t)
      OBVIOUS
    <3>2. PICK n : IsStack(b, t, n, 0, 0)
      BY <1>0, <2>10, <3>1, PlainStacks DEF ExitForce, At
    <3>3. Changed(t, n, 0, 0)
      BY <1>0, <2>10, <3>1, <3>2, ResumeChanges DEF ExitForce, Resume
    <3> QED  BY <1>0, <2>10, <3>3, PlainStep DEF ExitForce, heapVars
  <2>11. CASE ExitRuntime(t)
    <3>1. PICK m : m = Len(frames[t])
      OBVIOUS
    <3>2. Changed(t, m, 0, 0)
      BY <1>0, <2>11, <3>1, SameFrames DEF ExitRuntime
    <3> QED  BY <1>0, <2>11, <3>2, PlainStep DEF ExitRuntime, heapVars
  <2> QED  BY <1>4, <2>1, <2>2, <2>3, <2>4, <2>5, <2>6, <2>7, <2>8, <2>9, <2>10, <2>11 DEF Step
<1>5. ASSUME NEW t \in Thread, Program(t) PROVE IInv'
  <2>1. ASSUME NEW x \in Object, SetFinalizer(t, x) PROVE IInv'
    BY <2>1, SetFinalizerStep
  <2>2. ASSUME NEW x \in Object, Drop(t, x) PROVE IInv'
    <3>1. PICK m : m = Len(frames[t])
      OBVIOUS
    <3>2. Changed(t, m, 0, 0)
      BY <1>0, <2>2, <3>1, SameFrames DEF Drop
    <3>3. held' \in SUBSET Object /\ held' \cap freed = {}
      BY <1>0, <2>2 DEF Drop
    <3> QED  BY <1>0, <2>2, <3>2, <3>3, PlainStep DEF Drop
  <2>3. ASSUME NEW o \in {"force", "tasks"}, frames' = [frames EXCEPT ![t] =
                  Append(frames[t], [op |-> o, owed |-> Owed])]
        PROVE  \E m : Changed(t, m, 0, 0)
    <3>1. PICK m, s, x : /\ m = Len(frames[t]) /\ s = frames[t]
                         /\ x = [op |-> o, owed |-> Owed]
      OBVIOUS
    <3>2. x \in FrameType /\ Plain(x)
      BY <1>0, <3>1, PlainFrames
    <3>3. IsStack(s, t, m, 0, 0)
      BY <1>0, <3>1, Stacks
    <3>4. IsStack(Append(s, x), t, m, 0, 0)
      BY <3>2, <3>3, AddPlain
    <3> QED  BY <1>0, <2>3, <3>1, <3>4, ResumeChanges
  <2>4. CASE ForceFinalizers(t)
    <3>1. PICK m : Changed(t, m, 0, 0)
      BY <2>3, <2>4 DEF ForceFinalizers, Resume
    <3> QED  BY <1>0, <2>4, <3>1, PlainStep DEF ForceFinalizers, heapVars
  <2>5. CASE Exit(t)
    <3>1. PICK m : Changed(t, m, 0, 0)
      BY <2>3, <2>5 DEF Exit, Resume
    <3> QED  BY <1>0, <2>5, <3>1, PlainStep DEF Exit, heapVars
  <2>6. CASE Keep(t)
    <3>1. PICK m : m = Len(frames[t])
      OBVIOUS
    <3>2. Changed(t, m, 0, 0)
      BY <1>0, <2>6, <3>1, SameFrames DEF Keep
    <3>3. /\ Len(frames[t]) \in DOMAIN frames[t] /\ Top(t) = frames[t][Len(frames[t])]
          /\ Top(t).op = "handler"
      BY <1>0, <2>6, AtTop DEF Keep
    <3>4. NodeOK(Top(t)) /\ KeptOK(Top(t))
      BY <3>3 DEF IInv, FramesOK, FrameOK
    <3>5. nodes[Top(t).node] \in Object /\ nodes[Top(t).node] \notin freed
      BY <1>0, <3>3, <3>4 DEF NodeOK, KeptOK, TypeOK
    <3>6. held' \in SUBSET Object /\ held' \cap freed = {}
      BY <1>0, <2>6, <3>5 DEF Keep
    <3> QED  BY <1>0, <2>6, <3>2, <3>6, PlainStep DEF Keep
  <2>7. ASSUME NEW u \in Thread, Kill(t, u) PROVE IInv'
    <3>1. Changed(u, 0, 0, 0)
      BY <1>0, <2>7, Stacks, ResumeChanges DEF Kill, Resume
    <3>2. alive' \in SUBSET Thread
      BY <1>0, <2>7 DEF Kill
    <3> QED  BY <1>0, <2>7, <3>1, <3>2, PlainStep DEF Kill, heapVars
  <2>8. CASE Escape(t)
    <3>1. Changed(t, 0, 0, 0)
      BY <1>0, <2>8, Stacks, ResumeChanges DEF Escape, Resume
    <3> QED  BY <1>0, <2>8, <3>1, PlainStep DEF Escape, heapVars
  <2> QED  BY <1>5, <2>1, <2>2, <2>4, <2>5, <2>6, <2>7, <2>8 DEF Program
<1> QED  BY <1>1, <1>2, <1>3, <1>4, <1>5 DEF Next

\* The inductive invariant holds in all behaviours.
LEMMA FinalizersInvariant == Spec => []IInv
BY IInvInit, IInvStep, PTL DEF Spec

-----------------------------------------------------------------------------
(***************************************************************************)
(* The theorems.                                                           *)
(***************************************************************************)

\* The list of the collector and ##sys#pending-finalizers name each registration
\* once, the table never holds more than C_max_pending_finalizers, and one thread
\* at most, the working thread, is in ##sys#run-pending-finalizers, in one loop,
\* whatever threads are killed and finalizers escape.
THEOREM TableIsSound == Spec => []TableSound
<1>1. IInv => TableSound
  BY DEF IInv, TableSound
<1> QED  BY <1>1, FinalizersInvariant, PTL

\* Until the table has to grow, a finalizer is called once for every time it was
\* registered: no collection in the middle of the loop, no other thread, no
\* escape and no kill makes a loop call one again.
THEOREM FinalizersRunOnce == Spec => []RunOnce
<1>1. IInv => RunOnce
  BY DEF IInv, RunOnce, ListOK
<1> QED  BY <1>1, FinalizersInvariant, PTL

\* Until the table has to grow no registration is forgotten between C_reclaim,
\* the table and the loop; and no object is reclaimed, even then, that a
\* finalizer is to be called with or that a procedure in progress holds.
THEOREM RegistrationsKept == Spec => []ItemsKept
<1>1. ASSUME IInv PROVE NothingLost
  BY <1>1 DEF IInv, ListOK, NothingLost
<1>2. ASSUME IInv PROVE NoFreedItem
  <2> USE <1>2
  <2>1. \A n \in ToSet(finalizerList) \cup ToSet(table) : nodes[n] \notin freed
    BY DEF IInv, MemoryOK
  <2>2. ASSUME NEW x \in Roots PROVE x \notin freed
    <3>1. CASE x \in held
      BY <3>1 DEF IInv, MemoryOK
    <3>2. ASSUME NEW t \in Thread, NEW f \in ToSet(frames[t]), x \in FrameRoots(f)
          PROVE  x \notin freed
      <4>1. KeptOK(f)
        <5>1. PICK i \in DOMAIN frames[t] : f = frames[t][i]
          BY DEF ToSet
        <5> QED  BY <5>1 DEF IInv, FramesOK, FrameOK
      <4>2. CASE f.op \in {"resized", "register", "handler"}
        BY <3>2, <4>1, <4>2 DEF FrameRoots, KeptOK, Waits
      <4>3. CASE f.op = "copied"
        BY <3>2, <4>1, <4>3 DEF FrameRoots, KeptOK, Waits, Items
      <4>4. CASE f.op \notin {"resized", "register", "handler", "copied"}
        BY <3>2, <4>4 DEF FrameRoots
      <4> QED  BY <4>2, <4>3, <4>4
    <3> QED  BY <2>2, <3>1, <3>2 DEF Roots
  <2> QED  BY <2>1, <2>2 DEF NoFreedItem, Items
<1>3. IInv => ItemsKept
  BY <1>1, <1>2 DEF ItemsKept
<1> QED  BY <1>3, FinalizersInvariant, PTL
=============================================================================
