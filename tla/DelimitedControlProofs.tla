----------------------- MODULE DelimitedControlProofs -----------------------
(***************************************************************************)
(* Proof that ##sys#dynamic-winds and ##sys#dc-stack say where the control *)
(* is, for all dynamic-winds, any depth and any number of continuations    *)
(* and segments, in programs that use continuation-return within the same  *)
(* dynamic-winds.                                                          *)
(***************************************************************************)
EXTENDS DelimitedControl, FiniteSetTheorems, SequenceTheorems, TLAPS

-----------------------------------------------------------------------------
(***************************************************************************)
(* The inductive invariant.                                                *)
(***************************************************************************)
Delimiters == [winds : Seq(Cells), path : Paths]
Continuations == [winds : Seq(Cells), meta : Seq(Delimiters), path : Paths]
Segments == [path : Seq(Frame), seg : Seq(Frame)]

\* The place of delimiter i of the metacontinuation m in the path.
At(m, i) == Len(m[i].path) + 1

\* What delimiter i of m remembers, when the control is in w and p.
DelimiterFits(w, m, p, i) ==
    /\ At(m, i) \in 1..Len(p) /\ p[At(m, i)] = Mark
    /\ At(m, i) - i \in 0..Len(w)
    /\ m[i].path = SubSeq(p, 1, At(m, i) - 1)
    /\ m[i].winds = SubSeq(w, 1, At(m, i) - i)
    /\ \A j \in 1..i : At(m, j) - j <= At(m, i) - i

\* Place q of the path is behind i delimiters, the one at q counted.
Behind(m, q, i) ==
    /\ i > 0 => At(m, i) <= q
    /\ i < Len(m) => q < At(m, i + 1)

\* Place q of the path is a delimiter of m or a frame of w.
PlaceFits(w, m, p, q) ==
    \E i \in 0..Len(m) :
        /\ Behind(m, q, i)
        /\ \/ i > 0 /\ q = At(m, i)
           \/ q - i \in 1..Len(w) /\ p[q] = w[q - i].frame

\* w and m are the dynamic-winds and the delimiters of the path p.
Fits(w, m, p) ==
    /\ Len(w) + Len(m) = Len(p)
    /\ \A i \in 1..Len(m) : DelimiterFits(w, m, p, i)
    /\ \A q \in 1..Len(p) : PlaceFits(w, m, p, q)

\* Continuations and segments that are kept, or on their way.
GoodContinuation(k) ==
    k \in Continuations /\ Len(k.path) <= MaxPath /\ Fits(k.winds, k.meta, k.path)
KeptOK ==
    /\ IsFiniteSet(full) /\ \A k \in full : GoodContinuation(k)
    /\ \A d \in segments : d \in Segments /\ d.seg = d.path

\* The path p when the first n frames of the segment s have been entered.
Entered(p, s, n) == p \o <<Mark>> \o SubSeq(s, 1, n)

Running == mode = Run /\ Fits(winds, meta, path)
Unwinding ==
    /\ mode \in [op : {"unwind"}, k : Continuations]
    /\ GoodContinuation(mode.k)
Leaving ==
    /\ mode \in [op : {"leave"}, base : Seq(Cells), path : Paths]
    /\ Fits(mode.base, meta, mode.path)
    /\ IsPrefix(mode.base, winds) /\ Len(mode.path) <= MaxPath
Entering ==
    /\ mode \in [op : {"enter"}, seg : Seq(Frame), path : Seq(Frame)]
    /\ Len(path) + Len(mode.path) < MaxPath
    /\ \E n \in 0..Len(mode.path) :
          /\ mode.seg = SubSeq(mode.path, n + 1, Len(mode.path))
          /\ Fits(winds, meta, Entered(path, mode.path, n))

\* Wherever the control goes, it fits there.
ControlInv ==
    /\ winds \in Seq(Cells) /\ meta \in Seq(Delimiters) /\ path \in Paths
    /\ Len(winds) <= MaxPath /\ Len(meta) <= MaxPath /\ Len(path) <= MaxPath
    /\ failed = FALSE
    /\ KeptOK
    /\ Running \/ Unwinding \/ Leaving \/ Entering

-----------------------------------------------------------------------------
(***************************************************************************)
(* Sequences.                                                              *)
(***************************************************************************)
LEMMA Appended ==
    ASSUME NEW S, NEW s \in Seq(S), NEW e \in S
    PROVE  /\ Append(s, e) \in Seq(S) /\ Len(Append(s, e)) = Len(s) + 1
           /\ \A i \in 1..Len(s) : Append(s, e)[i] = s[i]
           /\ Append(s, e)[Len(s) + 1] = e
  BY AppendProperties

\* The first n elements of a sequence.
LEMMA Fronts ==
    ASSUME NEW S, NEW s \in Seq(S), NEW n \in 0..Len(s)
    PROVE  /\ SubSeq(s, 1, n) \in Seq(S) /\ Len(SubSeq(s, 1, n)) = n
           /\ \A i \in 1..n : SubSeq(s, 1, n)[i] = s[i]
  <1>1. \A i \in 1..Len(s) : s[i] \in S
    BY ElementOfSeq
  <1>2. Len(s) \in Nat /\ \A i \in 1..n : s[i] \in S
    BY <1>1, LenProperties
  <1> QED
    BY <1>2, SubSeqProperties

\* Two sequences that agree on n elements have the same front of that length.
LEMMA SameFronts ==
    ASSUME NEW S, NEW s \in Seq(S), NEW t \in Seq(S),
           NEW n \in 0..Len(s), n <= Len(t), \A i \in 1..n : s[i] = t[i]
    PROVE  SubSeq(s, 1, n) = SubSeq(t, 1, n)
  <1>1. Len(s) \in Nat /\ Len(t) \in Nat
    BY LenProperties
  <1>2. n \in 0..Len(t)
    BY <1>1
  <1> PICK x : x = SubSeq(s, 1, n) OBVIOUS
  <1> PICK y : y = SubSeq(t, 1, n) OBVIOUS
  <1>3. x \in Seq(S) /\ Len(x) = n /\ \A i \in 1..n : x[i] = s[i]
    BY Fronts
  <1>4. y \in Seq(S) /\ Len(y) = n /\ \A i \in 1..n : y[i] = t[i]
    BY <1>2, Fronts
  <1>5. \A i \in 1..Len(x) : x[i] = y[i]
    BY <1>3, <1>4
  <1> QED
    BY <1>3, <1>4, <1>5, SeqEqual

\* The delimiters of a metacontinuation have places in Nat, from 1 on.
LEMMA DelimiterFacts ==
    ASSUME NEW m \in Seq(Delimiters)
    PROVE  /\ Len(m) \in Nat
           /\ \A i \in 1..Len(m) :
                 /\ m[i] \in Delimiters
                 /\ m[i].winds \in Seq(Cells) /\ m[i].path \in Paths
                 /\ At(m, i) \in Nat /\ At(m, i) >= 1
  <1>1. \A i \in 1..Len(m) : m[i] \in Delimiters
    BY ElementOfSeq
  <1>2. ASSUME NEW i \in 1..Len(m)
        PROVE  m[i].winds \in Seq(Cells) /\ m[i].path \in Paths
    BY <1>1 DEF Delimiters
  <1>3. ASSUME NEW i \in 1..Len(m) PROVE Len(m[i].path) \in Nat
    BY <1>2, LenProperties DEF Paths
  <1> QED
    BY <1>1, <1>2, <1>3, LenProperties DEF At

\* A delimiter fits wherever the control is behind it.
LEMMA DelimiterStays ==
    ASSUME NEW w \in Seq(Cells), NEW m \in Seq(Delimiters), NEW p \in Paths,
           NEW i \in 1..Len(m), DelimiterFits(w, m, p, i),
           NEW w2 \in Seq(Cells), NEW m2, NEW p2 \in Paths,
           At(m, i) <= Len(p2), At(m, i) - i <= Len(w2),
           \A j \in 1..i : m2[j] = m[j],
           \A n \in 1..At(m, i) : p2[n] = p[n],
           \A n \in 1..(At(m, i) - i) : w2[n] = w[n]
    PROVE  DelimiterFits(w2, m2, p2, i)
  <1>m. Len(m) \in Nat /\ \A j \in 1..Len(m) : At(m, j) \in Nat /\ At(m, j) >= 1
    BY DelimiterFacts
  <1>l. Len(w) \in Nat /\ Len(p) \in Nat /\ Len(w2) \in Nat /\ Len(p2) \in Nat
    BY LenProperties DEF Paths
  <1>i. i \in 1..i
    BY <1>m
  <1>j. \A j \in 1..i : At(m2, j) = At(m, j)
    BY DEF At
  <1> PICK a : a = At(m, i) OBVIOUS
  <1>1. /\ a \in 1..Len(p) /\ p[a] = Mark /\ a - i \in 0..Len(w)
        /\ \A j \in 1..i : At(m, j) - j <= a - i
    BY DEF DelimiterFits
  <1>2. a \in 1..Len(p2) /\ p2[a] = Mark /\ a - i \in 0..Len(w2)
    <2>1. a <= Len(p2) /\ a - i <= Len(w2) /\ \A n \in 1..a : p2[n] = p[n]
      OBVIOUS
    <2>2. a \in 1..Len(p2) /\ a \in 1..a /\ a - i \in 0..Len(w2)
      BY ONLY <2>1, <1>1, <1>l
    <2> QED
      BY <2>1, <2>2, <1>1
  <1>3. SubSeq(p2, 1, a - 1) = SubSeq(p, 1, a - 1)
    <2>1. \A n \in 1..a : p2[n] = p[n]
      OBVIOUS
    <2>2. a - 1 \in 0..Len(p2) /\ a - 1 <= Len(p) /\ \A n \in 1..(a - 1) : n \in 1..a
      BY ONLY <1>1, <1>2, <1>l
    <2> QED
      BY <2>1, <2>2, SameFronts DEF Paths
  <1>4. SubSeq(w2, 1, a - i) = SubSeq(w, 1, a - i)
    BY <1>1, <1>2, SameFronts
  <1>5. m2[i].path = SubSeq(p2, 1, a - 1) /\ m2[i].winds = SubSeq(w2, 1, a - i)
    BY <1>3, <1>4, <1>i DEF DelimiterFits
  <1>6. At(m2, i) = a /\ \A j \in 1..i : At(m2, j) - j <= a - i
    BY <1>1, <1>i, <1>j
  <1> QED
    BY <1>2, <1>5, <1>6 DEF DelimiterFits

-----------------------------------------------------------------------------
(***************************************************************************)
(* Ways in and out of dynamic-winds and delimiters.                        *)
(***************************************************************************)
LEMMA NothingFits == Fits(<<>>, <<>>, <<>>)
  BY DEF Fits

\* What the places of the delimiters have to do with the lengths.
LEMMA FitFacts ==
    ASSUME NEW w \in Seq(Cells), NEW m \in Seq(Delimiters), NEW p \in Paths,
           Fits(w, m, p)
    PROVE  /\ Len(w) \in Nat /\ Len(m) \in Nat /\ Len(p) \in Nat
           /\ Len(w) + Len(m) = Len(p)
           /\ \A i \in 1..Len(m) :
                 /\ At(m, i) \in 1..Len(p) /\ At(m, i) - i \in 0..Len(w)
                 /\ p[At(m, i)] = Mark
                 /\ DelimiterFits(w, m, p, i)
                 /\ \A j \in 1..i : At(m, j) - j <= At(m, i) - i
                 /\ \A j \in 1..i : j # i => At(m, j) < At(m, i)
  <1>l. Len(w) \in Nat /\ Len(m) \in Nat /\ Len(p) \in Nat
    BY LenProperties DEF Paths
  <1>m. \A j \in 1..Len(m) : At(m, j) \in Nat
    BY DelimiterFacts
  <1>1. ASSUME NEW i \in 1..Len(m) PROVE DelimiterFits(w, m, p, i)
    BY DEF Fits
  <1>2. ASSUME NEW i \in 1..Len(m), NEW j \in 1..i, j # i
        PROVE  At(m, j) < At(m, i)
    <2>1. At(m, j) - j <= At(m, i) - i
      BY <1>1 DEF DelimiterFits
    <2>2. j < i /\ j \in 1..Len(m)
      BY <1>2, <1>l
    <2> QED
      BY <2>1, <2>2, <1>m, <1>l
  <1> QED
    BY <1>l, <1>1, <1>2 DEF Fits, DelimiterFits

\* A dynamic-wind is entered.
LEMMA EnterFits ==
    ASSUME NEW w \in Seq(Cells), NEW m \in Seq(Delimiters), NEW p \in Paths,
           NEW c \in Cells, Fits(w, m, p)
    PROVE  Fits(Append(w, c), m, Append(p, c.frame))
  <1> PICK f : f = c.frame OBVIOUS
  <1> PICK w2 : w2 = Append(w, c) OBVIOUS
  <1> PICK p2 : p2 = Append(p, f) OBVIOUS
  <1>0. f \in Frame \cup {Mark}
    BY DEF Cells
  <1>1. /\ w2 \in Seq(Cells) /\ Len(w2) = Len(w) + 1
        /\ \A i \in 1..Len(w) : w2[i] = w[i]
        /\ w2[Len(w) + 1] = c
    BY Appended
  <1>2. /\ p2 \in Paths /\ Len(p2) = Len(p) + 1
        /\ \A i \in 1..Len(p) : p2[i] = p[i]
        /\ p2[Len(p) + 1] = f
    BY <1>0, Appended DEF Paths
  <1>3. Len(w) \in Nat /\ Len(m) \in Nat /\ Len(p) \in Nat /\ Len(w) + Len(m) = Len(p)
    BY FitFacts
  <1>m. \A i \in 1..Len(m) :
           At(m, i) \in 1..Len(p) /\ At(m, i) - i \in 0..Len(w) /\ DelimiterFits(w, m, p, i)
    BY FitFacts
  <1>4. ASSUME NEW i \in 1..Len(m) PROVE DelimiterFits(w2, m, p2, i)
    <2>1. /\ At(m, i) <= Len(p2) /\ At(m, i) - i <= Len(w2)
          /\ \A n \in 1..At(m, i) : p2[n] = p[n]
          /\ \A n \in 1..(At(m, i) - i) : w2[n] = w[n]
      <3> PICK a : a = At(m, i) OBVIOUS
      <3>1. a \in 1..Len(p) /\ a - i \in 0..Len(w)
        BY <1>m
      <3>2. /\ a <= Len(p) + 1 /\ a - i <= Len(w) + 1
            /\ \A n \in 1..a : n \in 1..Len(p)
            /\ \A n \in 1..(a - i) : n \in 1..Len(w)
        BY ONLY <3>1, <1>3
      <3> QED
        BY <3>2, <1>1, <1>2
    <2>2. DelimiterFits(w, m, p, i) /\ w2 \in Seq(Cells) /\ p2 \in Paths
      BY <1>1, <1>2, <1>m
    <2>3. i \in 1..Len(m) /\ \A j \in 1..i : m[j] = m[j]
      OBVIOUS
    <2> QED
      BY ONLY <2>1, <2>2, <2>3, DelimiterStays
  <1>5. ASSUME NEW q \in 1..Len(p2) PROVE PlaceFits(w2, m, p2, q)
    <2>1. CASE q \in 1..Len(p)
      <3>1. PICK i \in 0..Len(m) :
              /\ Behind(m, q, i)
              /\ \/ i > 0 /\ q = At(m, i)
                 \/ q - i \in 1..Len(w) /\ p[q] = w[q - i].frame
        BY <2>1 DEF Fits, PlaceFits
      <3>2. \/ i > 0 /\ q = At(m, i)
            \/ q - i \in 1..Len(w2) /\ p2[q] = w2[q - i].frame
        <4>1. CASE i > 0 /\ q = At(m, i)
          BY <4>1
        <4>2. CASE q - i \in 1..Len(w) /\ p[q] = w[q - i].frame
          <5>1. q - i \in 1..Len(w2)
            <6>1. Len(w2) = Len(w) + 1 /\ Len(w) \in Nat
              BY <1>1, <1>3
            <6> QED
              BY ONLY <6>1, <4>2
          <5>2. w2[q - i] = w[q - i] /\ p2[q] = p[q]
            BY <4>2, <2>1, <1>1, <1>2
          <5> QED
            BY <4>2, <5>1, <5>2
        <4> QED
          BY <3>1, <4>1, <4>2
      <3> QED
        BY <3>1, <3>2 DEF PlaceFits
    <2>2. CASE q = Len(p) + 1
      <3>2. Behind(m, q, Len(m))
        <4>1. Len(m) > 0 => Len(m) \in 1..Len(m)
          BY ONLY <1>3
        <4>2. Len(m) > 0 => At(m, Len(m)) \in 1..Len(p)
          BY ONLY <4>1, <1>m
        <4> HIDE DEF At
        <4>3. Len(m) > 0 => At(m, Len(m)) <= q
          BY ONLY <4>2, <2>2, <1>3
        <4> QED
          BY ONLY <4>3, <1>3 DEF Behind
      <3>3. q - Len(m) = Len(w) + 1 /\ Len(w) + 1 \in 1..Len(w2) /\ Len(m) \in 0..Len(m)
        BY <2>2, <1>1, <1>3
      <3>4. p2[q] = w2[q - Len(m)].frame
        BY <3>3, <2>2, <1>1, <1>2
      <3> QED
        BY <3>2, <3>3, <3>4 DEF PlaceFits
    <2> QED
      BY <2>1, <2>2, <1>2, <1>3
  <1>6. Len(w2) + Len(m) = Len(p2)
    BY <1>1, <1>2, <1>3
  <1> QED
    BY <1>4, <1>5, <1>6 DEF Fits

\* The innermost dynamic-wind is left.
LEMMA LeaveFits ==
    ASSUME NEW w \in Seq(Cells), NEW m \in Seq(Delimiters), NEW p \in Paths,
           Fits(w, m, p), p # <<>>, p[Len(p)] # Mark
    PROVE  w # <<>> /\ Fits(Front(w), m, Front(p))
  <1>3. Len(w) \in Nat /\ Len(m) \in Nat /\ Len(p) \in Nat /\ Len(w) + Len(m) = Len(p)
    BY FitFacts
  <1>m. \A i \in 1..Len(m) :
           /\ At(m, i) \in 1..Len(p) /\ At(m, i) - i \in 0..Len(w) /\ p[At(m, i)] = Mark
           /\ DelimiterFits(w, m, p, i)
           /\ \A j \in 1..i : At(m, j) - j <= At(m, i) - i
    BY FitFacts
  <1>p. Len(p) >= 1
    BY <1>3, EmptySeq DEF Paths
  <1>1. \A i \in 1..Len(m) : At(m, i) <= Len(p) - 1
    BY <1>m, <1>3
  <1>2. Len(w) >= 1
    <2>1. PICK i \in 0..Len(m) :
            /\ Behind(m, Len(p), i)
            /\ \/ i > 0 /\ Len(p) = At(m, i)
               \/ Len(p) - i \in 1..Len(w) /\ p[Len(p)] = w[Len(p) - i].frame
      <3>1. Len(p) \in 1..Len(p)
        BY <1>p, <1>3
      <3>2. PlaceFits(w, m, p, Len(p))
        BY <3>1 DEF Fits
      <3> QED
        BY <3>2 DEF PlaceFits
    <2> QED
      BY <2>1, <1>1, <1>3
  <1>4. \A i \in 1..Len(m) : At(m, i) - i <= Len(w) - 1
    <2> TAKE i \in 1..Len(m)
    <2>1. Len(m) \in 1..Len(m) /\ i \in 1..Len(m)
      BY <1>3
    <2>2. At(m, i) - i <= At(m, Len(m)) - Len(m)
      BY <2>1, <1>m
    <2>3. At(m, Len(m)) <= Len(p) - 1 /\ At(m, Len(m)) \in Nat /\ At(m, i) \in Nat
      BY <2>1, <1>1, <1>m
    <2> QED
      BY <2>2, <2>3, <1>3
  <1> PICK w2 : w2 = Front(w) OBVIOUS
  <1> PICK p2 : p2 = Front(p) OBVIOUS
  <1>5. w2 \in Seq(Cells) /\ Len(w2) = Len(w) - 1 /\ \A i \in 1..(Len(w) - 1) : w2[i] = w[i]
    <2>1. Len(w) - 1 \in 0..Len(w)
      BY <1>2, <1>3
    <2> QED
      BY <2>1, Fronts DEF Front
  <1>6. p2 \in Paths /\ Len(p2) = Len(p) - 1 /\ \A i \in 1..(Len(p) - 1) : p2[i] = p[i]
    <2>1. Len(p) - 1 \in 0..Len(p)
      BY <1>p, <1>3
    <2> QED
      BY <2>1, Fronts DEF Front, Paths
  <1>7. ASSUME NEW i \in 1..Len(m) PROVE DelimiterFits(w2, m, p2, i)
    <2>1. /\ At(m, i) <= Len(p2) /\ At(m, i) - i <= Len(w2)
          /\ \A n \in 1..At(m, i) : p2[n] = p[n]
          /\ \A n \in 1..(At(m, i) - i) : w2[n] = w[n]
      <3> PICK a : a = At(m, i) OBVIOUS
      <3>1. a \in 1..Len(p) /\ a <= Len(p) - 1 /\ a - i <= Len(w) - 1
        BY <1>1, <1>4, <1>m
      <3>2. /\ \A n \in 1..a : n \in 1..(Len(p) - 1)
            /\ \A n \in 1..(a - i) : n \in 1..(Len(w) - 1)
        BY ONLY <3>1, <1>3
      <3> QED
        BY <3>1, <3>2, <1>5, <1>6
    <2>2. DelimiterFits(w, m, p, i) /\ w2 \in Seq(Cells) /\ p2 \in Paths
      BY <1>5, <1>6, <1>m
    <2>3. i \in 1..Len(m) /\ \A j \in 1..i : m[j] = m[j]
      OBVIOUS
    <2> QED
      BY ONLY <2>1, <2>2, <2>3, DelimiterStays
  <1>8. ASSUME NEW q \in 1..Len(p2) PROVE PlaceFits(w2, m, p2, q)
    <2>q. q \in 1..(Len(p) - 1) /\ q \in 1..Len(p)
      BY <1>6, <1>3
    <2>1. PICK i \in 0..Len(m) :
            /\ Behind(m, q, i)
            /\ \/ i > 0 /\ q = At(m, i)
               \/ q - i \in 1..Len(w) /\ p[q] = w[q - i].frame
      BY <2>q DEF Fits, PlaceFits
    <2>2. q - i <= Len(w) - 1
      <3>1. CASE i = Len(m)
        BY <3>1, <2>q, <1>3
      <3>2. CASE i < Len(m)
        <4>1. i + 1 \in 1..Len(m) /\ q < At(m, i + 1)
          BY <3>2, <2>1, <1>3 DEF Behind
        <4>2. At(m, i + 1) - (i + 1) <= Len(w) - 1 /\ At(m, i + 1) \in Nat
          BY <4>1, <1>4, <1>m
        <4> QED
          BY <4>1, <4>2, <2>q, <1>3
      <3> QED
        BY <3>1, <3>2, <1>3
    <2>3. q - i \in 1..Len(w) => q - i \in 1..(Len(w) - 1)
      BY <2>2, <1>3
    <2>4. q - i \in 1..(Len(w) - 1) => w2[q - i] = w[q - i]
      BY <1>5
    <2> QED
      BY <2>1, <2>3, <2>4, <2>q, <1>5, <1>6 DEF PlaceFits
  <1>9. w # <<>>
    BY <1>2, EmptySeq
  <1>10. Len(w2) + Len(m) = Len(p2)
    BY <1>5, <1>6, <1>3
  <1> QED
    BY <1>7, <1>8, <1>9, <1>10 DEF Fits

\* A delimiter is pushed.
LEMMA PushFits ==
    ASSUME NEW w \in Seq(Cells), NEW m \in Seq(Delimiters), NEW p \in Paths,
           Fits(w, m, p)
    PROVE  /\ [winds |-> w, path |-> p] \in Delimiters
           /\ Fits(w, Append(m, [winds |-> w, path |-> p]), Append(p, Mark))
  <1> PICK d : d = [winds |-> w, path |-> p] OBVIOUS
  <1> PICK m2 : m2 = Append(m, d) OBVIOUS
  <1> PICK p2 : p2 = Append(p, Mark) OBVIOUS
  <1>3. Len(w) \in Nat /\ Len(m) \in Nat /\ Len(p) \in Nat /\ Len(w) + Len(m) = Len(p)
    BY FitFacts
  <1>m. \A i \in 1..Len(m) :
           /\ At(m, i) \in 1..Len(p) /\ At(m, i) - i \in 0..Len(w)
           /\ DelimiterFits(w, m, p, i)
    BY FitFacts
  <1>0. d \in Delimiters /\ d.winds = w /\ d.path = p
    BY DEF Delimiters
  <1>1. /\ m2 \in Seq(Delimiters) /\ Len(m2) = Len(m) + 1
        /\ \A i \in 1..Len(m) : m2[i] = m[i]
        /\ m2[Len(m) + 1] = d
    BY <1>0, Appended
  <1>2. /\ p2 \in Paths /\ Len(p2) = Len(p) + 1
        /\ \A i \in 1..Len(p) : p2[i] = p[i]
        /\ p2[Len(p) + 1] = Mark
    BY Appended DEF Paths
  <1>4. At(m2, Len(m) + 1) = Len(p) + 1 /\ \A i \in 1..Len(m) : At(m2, i) = At(m, i)
    BY <1>0, <1>1 DEF At
  <1>5. ASSUME NEW i \in 1..Len(m2) PROVE DelimiterFits(w, m2, p2, i)
    <2>1. CASE i \in 1..Len(m)
      <3>1. /\ At(m, i) <= Len(p2) /\ At(m, i) - i <= Len(w)
            /\ \A j \in 1..i : m2[j] = m[j]
            /\ \A n \in 1..At(m, i) : p2[n] = p[n]
        BY <2>1, <1>1, <1>2, <1>3, <1>m
      <3>2. DelimiterFits(w, m, p, i) /\ p2 \in Paths
        BY <2>1, <1>2, <1>m
      <3>3. \A n \in 1..(At(m, i) - i) : w[n] = w[n]
        OBVIOUS
      <3> QED
        BY ONLY <2>1, <3>1, <3>2, <3>3, DelimiterStays
    <2>2. CASE i = Len(m) + 1
      <3>1. At(m2, i) \in 1..Len(p2) /\ p2[At(m2, i)] = Mark /\ At(m2, i) - i = Len(w)
        BY <2>2, <1>2, <1>3, <1>4
      <3>2. m2[i].path = p /\ m2[i].winds = w
        BY <2>2, <1>0, <1>1
      <3>3. SubSeq(p2, 1, At(m2, i) - 1) = p
        <4>1. SubSeq(p, 1, Len(p)) = p
          BY SubSeqFull DEF Paths
        <4>2. SubSeq(p, 1, Len(p)) = SubSeq(p2, 1, Len(p))
          BY <1>2, <1>3, SameFronts DEF Paths
        <4>3. At(m2, i) - 1 = Len(p)
          BY <2>2, <1>4, <1>3
        <4> QED
          BY <4>1, <4>2, <4>3
      <3>4. SubSeq(w, 1, At(m2, i) - i) = w
        BY <3>1, SubSeqFull
      <3>5. ASSUME NEW j \in 1..i PROVE At(m2, j) - j <= At(m2, i) - i
        <4>1. CASE j = i
          BY <4>1, <3>1, <1>3
        <4>2. CASE j \in 1..Len(m)
          BY <4>2, <3>1, <1>3, <1>4, <1>m
        <4> QED
          BY <4>1, <4>2, <2>2, <1>3
      <3>6. At(m2, i) - i \in 0..Len(w)
        BY <3>1, <1>3
      <3> QED
        BY <3>1, <3>2, <3>3, <3>4, <3>5, <3>6 DEF DelimiterFits
    <2> QED
      BY <2>1, <2>2, <1>1, <1>3
  <1>6. ASSUME NEW q \in 1..Len(p2) PROVE PlaceFits(w, m2, p2, q)
    <2>1. CASE q \in 1..Len(p)
      <3>1. PICK i \in 0..Len(m) :
              /\ Behind(m, q, i)
              /\ \/ i > 0 /\ q = At(m, i)
                 \/ q - i \in 1..Len(w) /\ p[q] = w[q - i].frame
        BY <2>1 DEF Fits, PlaceFits
      <3>2. Behind(m2, q, i)
        <4>1. i > 0 => At(m2, i) <= q
          <5>1. i > 0 => i \in 1..Len(m) /\ At(m, i) <= q
            BY <3>1, <1>3 DEF Behind
          <5> QED
            BY <5>1, <1>4
        <4>2. i < Len(m2) => q < At(m2, i + 1)
          <5>1. CASE i < Len(m)
            <6>1. i + 1 \in 1..Len(m) /\ q < At(m, i + 1)
              BY <3>1, <5>1, <1>3 DEF Behind
            <6> QED
              BY <6>1, <1>4
          <5>2. CASE i = Len(m)
            BY <5>2, <2>1, <1>3, <1>4
          <5> QED
            BY <5>1, <5>2, <1>3
        <4> QED
          BY <4>1, <4>2 DEF Behind
      <3>3. i \in 0..Len(m2) /\ (i > 0 => At(m2, i) = At(m, i)) /\ p2[q] = p[q]
        BY <2>1, <1>1, <1>2, <1>3, <1>4
      <3> QED
        BY <3>1, <3>2, <3>3 DEF PlaceFits
    <2>2. CASE q = Len(p) + 1
      <3>1. Len(m2) \in 0..Len(m2) /\ Len(m2) > 0 /\ q = At(m2, Len(m2))
        BY <2>2, <1>1, <1>3, <1>4
      <3>2. Behind(m2, q, Len(m2))
        BY <3>1, <2>2, <1>3 DEF Behind
      <3> QED
        BY <3>1, <3>2 DEF PlaceFits
    <2> QED
      BY <2>1, <2>2, <1>2, <1>3
  <1>7. Len(w) + Len(m2) = Len(p2)
    <2>1. Len(m2) = Len(m) + 1 /\ Len(p2) = Len(p) + 1
      BY <1>1, <1>2
    <2> QED
      BY <2>1, <1>3
  <1> QED
    BY <1>0, <1>5, <1>6, <1>7 DEF Fits

\* The innermost delimiter is popped, and what it remembers fits again.
LEMMA PopFits ==
    ASSUME NEW w \in Seq(Cells), NEW m \in Seq(Delimiters), NEW p \in Paths,
           Fits(w, m, p), m # <<>>
    PROVE  /\ Front(m) \in Seq(Delimiters) /\ Last(m) \in Delimiters
           /\ m = Append(Front(m), Last(m))
           /\ Fits(Last(m).winds, Front(m), Last(m).path)
           /\ IsPrefix(Last(m).winds, w)
           /\ Len(Last(m).path) < Len(p)
  <1>3. Len(w) \in Nat /\ Len(m) \in Nat /\ Len(p) \in Nat /\ Len(w) + Len(m) = Len(p)
    BY FitFacts
  <1>m. \A i \in 1..Len(m) :
           /\ At(m, i) \in 1..Len(p) /\ At(m, i) - i \in 0..Len(w)
           /\ DelimiterFits(w, m, p, i)
           /\ \A j \in 1..i : At(m, j) - j <= At(m, i) - i
    BY FitFacts
  <1> PICK l : l = Len(m) OBVIOUS
  <1>0. l \in Nat /\ l \in 1..l
    BY <1>3, EmptySeq
  <1> PICK d : d = m[l] OBVIOUS
  <1> PICK m2 : m2 = SubSeq(m, 1, l - 1) OBVIOUS
  <1> PICK a : a = At(m, l) OBVIOUS
  <1>d. /\ d \in Delimiters /\ d.winds \in Seq(Cells) /\ d.path \in Paths
        /\ a \in 1..Len(p) /\ a - l \in 0..Len(w)
        /\ d.path = SubSeq(p, 1, a - 1) /\ d.winds = SubSeq(w, 1, a - l)
    BY <1>0, <1>m, DelimiterFacts DEF DelimiterFits
  <1> PICK w2 : w2 = d.winds OBVIOUS
  <1> PICK p2 : p2 = d.path OBVIOUS
  <1>1. w2 \in Seq(Cells) /\ Len(w2) = a - l /\ \A n \in 1..(a - l) : w2[n] = w[n]
    BY <1>d, Fronts
  <1>2. p2 \in Paths /\ Len(p2) = a - 1 /\ \A n \in 1..(a - 1) : p2[n] = p[n]
    <2>1. a - 1 \in 0..Len(p)
      BY ONLY <1>d, <1>3
    <2>2. p \in Seq(Frame \cup {Mark})
      BY DEF Paths
    <2>3. /\ SubSeq(p, 1, a - 1) \in Seq(Frame \cup {Mark})
          /\ Len(SubSeq(p, 1, a - 1)) = a - 1
          /\ \A n \in 1..(a - 1) : SubSeq(p, 1, a - 1)[n] = p[n]
      BY <2>1, <2>2, Fronts
    <2> QED
      BY <2>3, <1>d DEF Paths
  <1>4. m2 \in Seq(Delimiters) /\ Len(m2) = l - 1 /\ \A i \in 1..(l - 1) : m2[i] = m[i]
    <2>1. l - 1 \in 0..Len(m)
      BY <1>0
    <2> QED
      BY <2>1, Fronts
  <1>5. \A i \in 1..(l - 1) : At(m2, i) = At(m, i)
    BY <1>4 DEF At
  <1>6. ASSUME NEW i \in 1..(l - 1)
        PROVE  i \in 1..l /\ At(m, i) <= a - 1 /\ At(m, i) - i <= a - l
    <2>1. i \in 1..l /\ At(m, i) - i <= a - l
      BY <1>0, <1>m
    <2>2. At(m, i) \in 1..Len(p)
      BY <2>1, <1>m
    <2> HIDE DEF At
    <2>3. At(m, i) \in Nat /\ a \in Nat
      BY ONLY <2>2, <1>d, <1>3
    <2>4. l \in Nat /\ i <= l - 1 /\ i \in Nat
      BY <1>0
    <2>5. At(m, i) <= a - 1
      BY ONLY <2>1, <2>3, <2>4
    <2> QED
      BY <2>1, <2>5
  <1>7. ASSUME NEW i \in 1..Len(m2) PROVE DelimiterFits(w2, m2, p2, i)
    <2>i. i \in 1..(l - 1) /\ i \in 1..Len(m)
      BY <1>4, <1>6
    <2>a. At(m, i) \in Nat /\ At(m, i) <= a - 1 /\ At(m, i) - i <= a - l
      <3>1. At(m, i) <= a - 1 /\ At(m, i) - i <= a - l
        BY <2>i, <1>6
      <3>2. At(m, i) \in 1..Len(p)
        BY <2>i, <1>m
      <3> HIDE DEF At
      <3> QED  BY ONLY <3>1, <3>2, <1>d
    <2>1. /\ At(m, i) <= Len(p2) /\ At(m, i) - i <= Len(w2)
          /\ \A j \in 1..i : m2[j] = m[j]
          /\ \A n \in 1..At(m, i) : p2[n] = p[n]
          /\ \A n \in 1..(At(m, i) - i) : w2[n] = w[n]
      <3>1. /\ \A j \in 1..i : j \in 1..(l - 1)
            /\ \A n \in 1..At(m, i) : n \in 1..(a - 1)
            /\ \A n \in 1..(At(m, i) - i) : n \in 1..(a - l)
        <4> PICK b : b = At(m, i) OBVIOUS
        <4>1. b \in Nat /\ b <= a - 1 /\ b - i <= a - l /\ i \in Nat /\ i <= l - 1
          BY <2>i, <2>a, <1>0
        <4>2. l \in Nat /\ a \in Nat
          BY <1>0, <1>3, <1>d
        <4>3. ASSUME NEW n \in 1..b PROVE n \in 1..(a - 1)
          BY ONLY <4>1, <4>2
        <4>4. ASSUME NEW n \in 1..(b - i) PROVE n \in 1..(a - l)
          BY ONLY <4>1, <4>2
        <4>5. ASSUME NEW n \in 1..i PROVE n \in 1..(l - 1)
          BY ONLY <4>1, <4>2
        <4> QED
          BY <4>3, <4>4, <4>5
      <3> QED
        BY <3>1, <2>a, <1>1, <1>2, <1>4
    <2>2. DelimiterFits(w, m, p, i) /\ w2 \in Seq(Cells) /\ p2 \in Paths
      BY <2>i, <1>1, <1>2, <1>m
    <2>3. i \in 1..Len(m)
      BY <2>i
    <2> HIDE DEF At
    <2> QED
      BY ONLY <2>1, <2>2, <2>3, DelimiterStays
  <1>8. ASSUME NEW q \in 1..Len(p2) PROVE PlaceFits(w2, m2, p2, q)
    <2>q. q \in 1..(a - 1) /\ q \in 1..Len(p)
      BY <1>2, <1>3, <1>d
    <2>1. PICK i \in 0..Len(m) :
            /\ Behind(m, q, i)
            /\ \/ i > 0 /\ q = At(m, i)
               \/ q - i \in 1..Len(w) /\ p[q] = w[q - i].frame
      BY <2>q DEF Fits, PlaceFits
    <2>2. i \in 0..(l - 1)
      <3>1. i = l => At(m, l) <= q
        BY <2>1, <1>0 DEF Behind
      <3>2. i = l => a <= q
        BY <3>1
      <3>3. a \in Nat /\ q <= a - 1 /\ q \in Nat /\ i \in Nat /\ i <= l
        BY <2>q, <1>0, <1>d, <1>3
      <3>4. i # l
        BY ONLY <3>2, <3>3
      <3> QED
        BY ONLY <3>3, <3>4, <1>0
    <2>3. i + 1 \in 1..l /\ q < At(m, i + 1)
      <3>1. i + 1 \in 1..l /\ i < l
        BY ONLY <2>2, <1>0
      <3> QED
        BY <3>1, <2>1, <1>0 DEF Behind
    <2>4. At(m, i + 1) - (i + 1) <= a - l /\ At(m, i + 1) \in Nat
      <3>1. l \in 1..Len(m) /\ i + 1 \in 1..l /\ i + 1 \in 1..Len(m)
        BY <2>3, <1>0
      <3>2. At(m, i + 1) - (i + 1) <= At(m, l) - l /\ At(m, i + 1) \in 1..Len(p)
        BY ONLY <3>1, <1>m
      <3>3. At(m, l) = a
        OBVIOUS
      <3> HIDE DEF At
      <3>4. At(m, i + 1) \in Nat
        BY ONLY <3>2, <1>3
      <3> QED
        BY ONLY <3>2, <3>3, <3>4
    <2>5. q - i <= a - l
      <3> PICK b : b = At(m, i + 1) OBVIOUS
      <3>1. b - (i + 1) <= a - l /\ b \in Nat /\ q < b
        BY <2>3, <2>4
      <3>2. i \in Nat /\ q \in Nat /\ l \in Nat /\ a \in Nat
        BY <2>2, <2>q, <1>0, <1>d, <1>3
      <3> HIDE DEF At
      <3> QED
        BY <3>1, <3>2
    <2>6. Behind(m2, q, i) /\ i \in 0..Len(m2) /\ (i > 0 => At(m2, i) = At(m, i))
      BY <2>1, <2>2, <1>0, <1>4, <1>5 DEF Behind
    <2>7. /\ q - i \in 1..Len(w) => q - i \in 1..(a - l)
          /\ q - i \in 1..(a - l) => w2[q - i] = w[q - i]
      <3>1. q - i \in 1..Len(w) => q - i \in 1..(a - l)
        BY <2>5, <2>q, <2>2, <1>0, <1>3, <1>d
      <3>2. q - i \in 1..(a - l) => w2[q - i] = w[q - i]
        BY <1>1
      <3> QED
        BY <3>1, <3>2
    <2>8. p2[q] = p[q]
      BY <2>q, <1>2
    <2> QED
      BY <2>1, <2>6, <2>7, <2>8, <1>1 DEF PlaceFits
  <1>9. Len(w2) + Len(m2) = Len(p2)
    <2>1. Len(w2) = a - l /\ Len(p2) = a - 1 /\ Len(m2) = l - 1
      BY <1>1, <1>2, <1>4
    <2>2. a \in Nat /\ l \in Nat
      BY <1>0, <1>3, <1>d
    <2> QED
      BY <2>1, <2>2
  <1>10. Fits(w2, m2, p2)
    BY <1>7, <1>8, <1>9 DEF Fits
  <1>11. IsPrefix(w2, w)
    <2>1. SubSeq(w2, 1, Len(w2)) = w2 /\ SubSeq(w, 1, Len(w2)) = w2
      <3>1. SubSeq(w2, 1, Len(w2)) = w2
        BY <1>1, SubSeqFull
      <3>2. SubSeq(w, 1, a - l) = w2
        BY <1>d
      <3>3. Len(w2) = a - l
        BY <1>1
      <3> QED
        BY <3>1, <3>2, <3>3
    <2>2. Len(w2) <= Len(w)
      <3>1. Len(w2) = a - l /\ a - l \in 0..Len(w) /\ Len(w) \in Nat
        BY <1>1, <1>d, <1>3
      <3> QED
        BY ONLY <3>1
    <2> QED
      BY <2>1, <2>2 DEF IsPrefix
  <1>12. Front(m) = m2 /\ Last(m) = d
    BY DEF Front, Last
  <1>13. m = Append(m2, d)
    <2> PICK m3 : m3 = Append(m2, d) OBVIOUS
    <2>1. /\ m3 \in Seq(Delimiters) /\ Len(m3) = Len(m2) + 1
          /\ \A i \in 1..Len(m2) : m3[i] = m2[i]
          /\ m3[Len(m2) + 1] = d
      <3>1. m3 = Append(m2, d)
        OBVIOUS
      <3>2. m2 \in Seq(Delimiters) /\ d \in Delimiters
        BY <1>4, <1>d
      <3> QED
        BY ONLY <3>1, <3>2, Appended
    <2>2. Len(m3) = Len(m) /\ \A i \in 1..Len(m3) : m3[i] = m[i]
      BY <2>1, <1>4, <1>0
    <2> QED
      BY <2>1, <2>2, SeqEqual
  <1>14. Len(p2) < Len(p)
    BY <1>2, <1>3, <1>d
  <1> QED
    BY <1>4, <1>d, <1>10, <1>11, <1>12, <1>13, <1>14

-----------------------------------------------------------------------------
(***************************************************************************)
(* Where the delimiters are.                                               *)
(***************************************************************************)
LEMMA MarksAt ==
    ASSUME NEW w \in Seq(Cells), NEW m \in Seq(Delimiters), NEW p \in Paths,
           Fits(w, m, p)
    PROVE  MarksIn(p) = { At(m, i) : i \in 1..Len(m) }
  <1>1. /\ Len(w) \in Nat /\ Len(m) \in Nat /\ DOMAIN p = 1..Len(p)
        /\ \A i \in 1..Len(m) : At(m, i) \in 1..Len(p) /\ p[At(m, i)] = Mark
    BY FitFacts, LenProperties DEF Paths
  <1>2. ASSUME NEW q \in 1..Len(p), p[q] = Mark
        PROVE  \E i \in 1..Len(m) : q = At(m, i)
    <2>1. PICK i \in 0..Len(m) :
            \/ i > 0 /\ q = At(m, i)
            \/ q - i \in 1..Len(w) /\ p[q] = w[q - i].frame
      BY DEF Fits, PlaceFits
    <2>2. ASSUME q - i \in 1..Len(w) PROVE w[q - i].frame # Mark
      <3>1. w[q - i] \in Cells
        BY <2>2, ElementOfSeq
      <3> QED
        BY <3>1, MarkAssumption DEF Cells
    <2>3. i > 0 => i \in 1..Len(m)
      BY <1>1
    <2> QED
      BY <1>2, <2>1, <2>2, <2>3
  <1> QED
    BY <1>1, <1>2 DEF MarksIn

\* Behind the innermost delimiter there are frames only, the last ones of w.
LEMMA TopFits ==
    ASSUME NEW w \in Seq(Cells), NEW m \in Seq(Delimiters), NEW p \in Paths,
           Fits(w, m, p),
           NEW top, top = IF Len(m) = 0 THEN 0 ELSE At(m, Len(m))
    PROVE  /\ top \in 0..Len(p) /\ top >= Len(m) /\ top - Len(m) <= Len(w)
           /\ Max(MarksIn(p) \cup {0}) = top
           /\ \A q \in (top + 1)..Len(p) :
                 /\ q - Len(m) \in 1..Len(w) /\ p[q] = w[q - Len(m)].frame
                 /\ p[q] \in Frame
  <1>3. Len(w) \in Nat /\ Len(m) \in Nat /\ Len(p) \in Nat /\ Len(w) + Len(m) = Len(p)
    BY FitFacts
  <1>m. \A i \in 1..Len(m) :
           /\ At(m, i) \in 1..Len(p) /\ At(m, i) - i \in 0..Len(w)
           /\ \A j \in 1..i : j # i => At(m, j) < At(m, i)
    BY FitFacts
  <1>l. Len(m) # 0 => Len(m) \in 1..Len(m)
    BY <1>3
  <1>1. top \in 0..Len(p) /\ top >= Len(m) /\ top - Len(m) <= Len(w)
    <2>1. CASE Len(m) = 0
      BY <2>1, <1>3
    <2>2. CASE Len(m) # 0
      <3>1. top \in 1..Len(p) /\ top - Len(m) \in 0..Len(w)
        BY <2>2, <1>l, <1>m
      <3> QED
        BY <3>1, <1>3
    <2> QED
      BY <2>1, <2>2
  <1>2. Max(MarksIn(p) \cup {0}) = top
    <2>1. \A x \in MarksIn(p) \cup {0} : x \in Nat /\ x <= top
      <3>1. ASSUME NEW i \in 1..Len(m) PROVE At(m, i) \in Nat /\ At(m, i) <= top
        <4>1. Len(m) # 0 /\ i \in 1..Len(m)
          BY <1>3
        <4>2. At(m, i) \in Nat /\ At(m, Len(m)) \in Nat /\ top = At(m, Len(m))
          BY <4>1, <1>l, <1>m
        <4>3. i # Len(m) => At(m, i) < At(m, Len(m))
          BY <4>1, <1>l, <1>m
        <4> QED
          BY <4>2, <4>3
      <3> QED
        BY <3>1, <1>1, MarksAt
    <2>2. top \in MarksIn(p) \cup {0}
      BY <1>l, MarksAt
    <2>3. ASSUME NEW x \in MarksIn(p) \cup {0}, \A y \in MarksIn(p) \cup {0} : x >= y
          PROVE  x = top
      BY <2>1, <2>2, <2>3
    <2>4. \A y \in MarksIn(p) \cup {0} : top >= y
      BY <2>1, <2>2
    <2> QED
      BY <2>2, <2>3, <2>4 DEF Max
  <1>4. ASSUME NEW q \in (top + 1)..Len(p)
        PROVE  /\ q - Len(m) \in 1..Len(w) /\ p[q] = w[q - Len(m)].frame
               /\ p[q] \in Frame
    <2>q. q \in 1..Len(p) /\ q > top
      BY <1>1, <1>3
    <2>1. PICK i \in 0..Len(m) :
            /\ Behind(m, q, i)
            /\ \/ i > 0 /\ q = At(m, i)
               \/ q - i \in 1..Len(w) /\ p[q] = w[q - i].frame
      BY <2>q DEF Fits, PlaceFits
    <2>2. \A j \in 1..Len(m) : At(m, j) < q
      <3> TAKE j \in 1..Len(m)
      <3>1. Len(m) # 0 /\ j \in 1..Len(m) /\ Len(m) \in 1..Len(m)
        BY <1>3
      <3>a. top = At(m, Len(m))
        BY <3>1
      <3>b. At(m, j) \in Nat /\ At(m, Len(m)) \in Nat
        BY <3>1, DelimiterFacts
      <3>2. At(m, j) \in Nat /\ At(m, Len(m)) \in Nat /\ At(m, Len(m)) < q
        BY <3>a, <3>b, <2>q
      <3>3. j # Len(m) => At(m, j) < At(m, Len(m))
        BY <3>1, <1>m
      <3> QED
        BY <3>2, <3>3, <2>q
    <2>3. i = Len(m)
      <3>1. i < Len(m) => i + 1 \in 1..Len(m) /\ q < At(m, i + 1)
        BY <2>1, <1>3 DEF Behind
      <3>2. i < Len(m) => At(m, i + 1) \in Nat /\ At(m, i + 1) < q
        BY <3>1, <2>2, <1>m
      <3> QED
        BY <3>1, <3>2, <2>q, <1>3
    <2>4. q - Len(m) \in 1..Len(w) /\ p[q] = w[q - Len(m)].frame
      <3>1. i > 0 => At(m, i) \in Nat /\ At(m, i) < q
        BY <2>2, <1>m, <1>3
      <3> QED
        BY <2>1, <2>3, <3>1, <2>q
    <2>5. w[q - Len(m)] \in Cells
      BY <2>4, ElementOfSeq
    <2> QED
      BY <2>4, <2>5 DEF Cells
  <1> QED
    BY <1>1, <1>2, <1>4

\* As many delimiters are before a place as it is behind.
LEMMA MarksBefore ==
    ASSUME NEW w \in Seq(Cells), NEW m \in Seq(Delimiters), NEW p \in Paths,
           Fits(w, m, p), NEW q \in Nat, NEW i \in 0..Len(m),
           i > 0 => At(m, i) < q,
           i < Len(m) => q <= At(m, i + 1)
    PROVE  Cardinality({ x \in MarksIn(p) : x < q }) = i
  <1>3. Len(m) \in Nat /\ i \in Nat
    BY FitFacts
  <1>m. \A k \in 1..Len(m) :
           /\ At(m, k) \in Nat
           /\ \A j \in 1..k : j # k => At(m, j) < At(m, k)
    BY FitFacts, DelimiterFacts
  <1>1. ASSUME NEW k \in 1..Len(m) PROVE At(m, k) < q <=> k \in 1..i
    <2>1. CASE k \in 1..i
      <3>1. i > 0 /\ i \in 1..Len(m) /\ k \in 1..i
        BY <2>1, <1>3
      <3>2. At(m, i) < q /\ At(m, i) \in Nat /\ At(m, k) \in Nat
        BY <3>1, <1>m
      <3>3. k # i => At(m, k) < At(m, i)
        BY <3>1, <1>m
      <3> QED
        BY <3>2, <3>3, <2>1
    <2>2. CASE k > i
      <3>1. i < Len(m) /\ i + 1 \in 1..Len(m) /\ i + 1 \in 1..k
        BY <2>2, <1>3
      <3>2. q <= At(m, i + 1) /\ At(m, i + 1) \in Nat /\ At(m, k) \in Nat
        BY <3>1, <1>m
      <3>3. i + 1 # k => At(m, i + 1) < At(m, k)
        BY <3>1, <1>m
      <3>4. q <= At(m, k) /\ k \notin 1..i
        BY <3>2, <3>3, <2>2, <1>3
      <3> QED
        BY <3>4, <3>2
    <2> QED
      BY <2>1, <2>2, <1>3
  <1> DEFINE T == { x \in MarksIn(p) : x < q }
             f == [k \in 1..i |-> At(m, k)]
  <1>2. \A k \in 1..i : k \in 1..Len(m)
    BY <1>3
  <1>4. T = { At(m, k) : k \in 1..i }
    BY <1>1, <1>2, MarksAt
  <1>5. ASSUME NEW j \in 1..i, NEW k \in 1..i, j # k PROVE f[j] # f[k]
    <2>1. j \in 1..Len(m) /\ k \in 1..Len(m) /\ (j \in 1..k \/ k \in 1..j)
      BY <1>2, <1>3
    <2> QED
      BY <2>1, <1>5, <1>m
  <1>6. f \in [1..i -> T]
    BY <1>4
  <1>7. \A t \in T : \E k \in 1..i : f[k] = t
    BY <1>4
  <1>8. ExistsBijection(1..i, T)
    <2>1. f \in Injection(1..i, T)
      BY <1>5, <1>6 DEF Injection, IsInjective
    <2>2. f \in Surjection(1..i, T)
      BY <1>6, <1>7 DEF Surjection
    <2> QED
      BY <2>1, <2>2 DEF ExistsBijection, Bijection
  <1>9. IsFiniteSet(1..i) /\ Cardinality(1..i) = i
    BY <1>3, FS_Interval
  <1> QED
    BY <1>8, <1>9, FS_Bijection

-----------------------------------------------------------------------------
(***************************************************************************)
(* What fits is what the properties say.                                   *)
(***************************************************************************)
LEMMA FrameFacts ==
    ASSUME NEW w \in Seq(Cells)
    PROVE  /\ Frames(w) \in Seq(Frame) /\ Len(Frames(w)) = Len(w)
           /\ \A i \in 1..Len(w) : Frames(w)[i] = w[i].frame
  <1>1. DOMAIN w = 1..Len(w) /\ Len(w) \in Nat /\ \A i \in 1..Len(w) : w[i] \in Cells
    BY LenProperties, ElementOfSeq
  <1>2. \A i \in 1..Len(w) : w[i].frame \in Frame
    BY <1>1 DEF Cells
  <1> PICK n : n = Len(w) OBVIOUS
  <1> PICK f : f = [i \in 1..n |-> w[i].frame] OBVIOUS
  <1>3. f = Frames(w)
    BY <1>1 DEF Frames
  <1>4. f \in [1..n -> Frame] /\ n \in Nat /\ \A i \in 1..n : f[i] = w[i].frame
    BY <1>1, <1>2
  <1>5. f \in Seq(Frame) /\ Len(f) = n
    BY <1>4
  <1> QED
    BY <1>3, <1>4, <1>5

\* Lists that fit the path hold the frames of it in their order, and as many
\* delimiters as it has: WindsMatchControl and the length in MetaMatchesControl.
LEMMA FitsFrames ==
    ASSUME NEW w \in Seq(Cells), NEW m \in Seq(Delimiters), NEW p \in Paths,
           Fits(w, m, p)
    PROVE  FramesOf(p, Frames(w)) /\ Len(m) = Cardinality(MarksIn(p))
  <1>3. Len(w) \in Nat /\ Len(m) \in Nat /\ Len(p) \in Nat /\ Len(w) + Len(m) = Len(p)
    BY FitFacts
  <1>d. DOMAIN p = 1..Len(p)
    BY LenProperties DEF Paths
  <1>m. \A i \in 1..Len(m) : At(m, i) \in 1..Len(p) /\ p[At(m, i)] = Mark
    BY FitFacts
  <1>1. Cardinality(MarksIn(p)) = Len(m)
    <2>1. \A i \in 1..Len(m) : At(m, i) < Len(p) + 1
      BY <1>m, <1>3
    <2>2. /\ Len(p) + 1 \in Nat /\ Len(m) \in 0..Len(m)
          /\ Len(m) > 0 => At(m, Len(m)) < Len(p) + 1
      BY <2>1, <1>3
    <2>3. Cardinality({ x \in MarksIn(p) : x < Len(p) + 1 }) = Len(m)
      BY <2>2, <1>3, MarksBefore
    <2>4. { x \in MarksIn(p) : x < Len(p) + 1 } = MarksIn(p)
      BY <1>d, <1>3 DEF MarksIn
    <2> QED
      BY <2>3, <2>4
  <1>2. ASSUME NEW q \in DOMAIN p \ MarksIn(p)
        PROVE  Frames(w)[q - Cardinality({ x \in MarksIn(p) : x < q })] = p[q]
    <2>q. q \in 1..Len(p) /\ q \in Nat /\ p[q] # Mark
      BY <1>d, <1>3 DEF MarksIn
    <2>1. PICK i \in 0..Len(m) :
            /\ Behind(m, q, i)
            /\ \/ i > 0 /\ q = At(m, i)
               \/ q - i \in 1..Len(w) /\ p[q] = w[q - i].frame
      BY <2>q DEF Fits, PlaceFits
    <2>2. i > 0 => i \in 1..Len(m) /\ q # At(m, i)
      BY <2>q, <1>m, <1>3
    <2>3. /\ i > 0 => At(m, i) < q
          /\ i < Len(m) => q <= At(m, i + 1)
      <3>1. i > 0 => At(m, i) \in Nat /\ At(m, i) <= q
        BY <2>1, <2>2, <1>m DEF Behind
      <3>2. i < Len(m) => i + 1 \in 1..Len(m) /\ q < At(m, i + 1)
        BY <2>1, <1>3 DEF Behind
      <3>3. i < Len(m) => At(m, i + 1) \in Nat
        BY <3>2, <1>m
      <3> QED
        BY <3>1, <3>2, <3>3, <2>2, <2>q
    <2>4. Cardinality({ x \in MarksIn(p) : x < q }) = i
      BY <2>3, <2>q, MarksBefore
    <2>5. q - i \in 1..Len(w) /\ p[q] = w[q - i].frame
      BY <2>1, <2>2
    <2> QED
      BY <2>4, <2>5, FrameFacts
  <1> QED
    BY <1>1, <1>2, <1>3, FrameFacts DEF FramesOf

\* Delimiter i of lists that fit is the i-th Mark of the path, remembers what is
\* in front of it, and its winds are a tail of the winds (BaseIsTail).
LEMMA FitsDelimiters ==
    ASSUME NEW w \in Seq(Cells), NEW m \in Seq(Delimiters), NEW p \in Paths,
           Fits(w, m, p), NEW i \in 1..Len(m)
    PROVE  /\ At(m, i) \in MarksIn(p)
           /\ m[i].path = SubSeq(p, 1, At(m, i) - 1)
           /\ Cardinality({ x \in MarksIn(p) : x < At(m, i) }) = i - 1
           /\ IsPrefix(m[i].winds, w)
  <1>3. Len(w) \in Nat /\ Len(m) \in Nat /\ Len(p) \in Nat
    BY FitFacts
  <1>m. \A k \in 1..Len(m) :
           /\ At(m, k) \in 1..Len(p) /\ At(m, k) - k \in 0..Len(w)
           /\ \A j \in 1..k : j # k => At(m, j) < At(m, k)
    BY FitFacts
  <1> PICK a : a = At(m, i) OBVIOUS
  <1>1. /\ a \in 1..Len(p) /\ a - i \in 0..Len(w) /\ a \in Nat
        /\ m[i].path = SubSeq(p, 1, a - 1) /\ m[i].winds = SubSeq(w, 1, a - i)
    BY <1>m, <1>3 DEF Fits, DelimiterFits
  <1>2. a \in MarksIn(p)
    BY MarksAt
  <1>4. Cardinality({ x \in MarksIn(p) : x < a }) = i - 1
    <2> PICK k : k = i - 1 OBVIOUS
    <2>1. k \in 0..Len(m) /\ k + 1 = i
      BY <1>3
    <2>2. k > 0 => At(m, k) < a
      <3>1. k > 0 => k \in 1..i /\ k # i
        BY <1>3
      <3> QED
        BY <3>1, <1>m
    <2>3. k < Len(m) => a <= At(m, k + 1)
      BY <2>1, <1>1
    <2>f. Fits(w, m, p) /\ a \in Nat
      BY <1>1
    <2>4. Cardinality({ x \in MarksIn(p) : x < a }) = k
      BY ONLY <2>f, <2>1, <2>2, <2>3, MarksBefore
    <2> QED
      BY <2>4
  <1>5. IsPrefix(m[i].winds, w)
    <2> PICK x : x = SubSeq(w, 1, a - i) OBVIOUS
    <2>1. x \in Seq(Cells) /\ Len(x) = a - i
      BY <1>1, Fronts
    <2>2. SubSeq(x, 1, Len(x)) = x /\ SubSeq(w, 1, Len(x)) = x
      BY <2>1, SubSeqFull
    <2>3. Len(x) <= Len(w)
      BY <2>1, <1>1, <1>3
    <2> QED
      BY <2>2, <2>3, <1>1 DEF IsPrefix
  <1> QED
    BY <1>1, <1>2, <1>4, <1>5

\* The invariant has the properties as a part.
LEMMA InvMatches == ControlInv => ListsMatchControl
  <1> SUFFICES ASSUME ControlInv PROVE ListsMatchControl
    OBVIOUS
  <1>1. /\ winds \in Seq(Cells) /\ meta \in Seq(Delimiters) /\ path \in Paths
        /\ Len(winds) <= MaxPath /\ Len(meta) <= MaxPath /\ Len(path) <= MaxPath
        /\ failed = FALSE /\ KeptOK
    BY DEF ControlInv
  <1>d. /\ DOMAIN meta = 1..Len(meta)
        /\ \A i \in 1..Len(meta) : meta[i].winds \in Seq(Cells) /\ meta[i].path \in Paths
    BY <1>1, LenProperties, DelimiterFacts
  <1>2. TypeOK
    <2>1. \A k \in full : k.winds \in Seq(Cells) /\ k.path \in Paths
      BY <1>1 DEF KeptOK, GoodContinuation, Continuations
    <2>2. \A d \in segments : d.path \in Seq(Frame) /\ d.seg \in Seq(Frame)
      BY <1>1 DEF KeptOK, Segments
    <2>3. mode.op \in {"run", "unwind", "leave", "enter"}
      BY DEF ControlInv, Running, Unwinding, Leaving, Entering, Run
    <2> QED
      BY <1>1, <1>d, <2>1, <2>2, <2>3 DEF TypeOK
  <1>3. ASSUME mode = Run PROVE Fits(winds, meta, path)
    BY <1>3 DEF ControlInv, Running, Unwinding, Leaving, Entering, Run
  <1>4. WindsMatchControl
    BY <1>1, <1>3, FitsFrames DEF WindsMatchControl
  <1>5. MetaMatchesControl
    <2> SUFFICES ASSUME mode = Run PROVE MetaMatchesControl
      BY DEF MetaMatchesControl
    <2>1. Len(meta) = Cardinality(Marks)
      BY <1>1, <1>3, FitsFrames DEF Marks
    <2>2. ASSUME NEW i \in DOMAIN meta
          PROVE  LET at == Len(meta[i].path) + 1
                 IN  /\ at \in Marks /\ meta[i].path = SubSeq(path, 1, at - 1)
                     /\ Cardinality({ x \in Marks : x < at }) = i - 1
      <3>1. i \in 1..Len(meta)
        BY <1>d
      <3> QED
        BY <3>1, <1>1, <1>3, FitsDelimiters DEF Marks, At
    <2> QED
      BY <2>1, <2>2 DEF MetaMatchesControl
  <1>6. BaseIsTail
    <2> SUFFICES ASSUME mode = Run, NEW i \in DOMAIN meta PROVE IsPrefix(meta[i].winds, winds)
      BY DEF BaseIsTail
    <2>1. i \in 1..Len(meta)
      BY <1>d
    <2> QED
      BY <2>1, <1>1, <1>3, FitsDelimiters
  <1> QED
    BY <1>1, <1>2, <1>4, <1>5, <1>6 DEF ListsMatchControl, NoExtentError

-----------------------------------------------------------------------------
(***************************************************************************)
(* Segments, and the identities of new cells.                              *)
(***************************************************************************)
LEMMA EnteredFacts ==
    ASSUME NEW p \in Paths, NEW s \in Seq(Frame), NEW n \in 0..Len(s)
    PROVE  /\ Entered(p, s, n) \in Paths /\ Len(Entered(p, s, n)) = Len(p) + 1 + n
           /\ n = 0 => Entered(p, s, n) = Append(p, Mark)
           /\ n < Len(s) => Entered(p, s, n + 1) = Append(Entered(p, s, n), s[n + 1])
           /\ n = Len(s) => Entered(p, s, n) = p \o <<Mark>> \o s
  <1> DEFINE X == Frame \cup {Mark}
  <1>1. p \in Seq(X) /\ s \in Seq(X) /\ <<Mark>> \in Seq(X) /\ Len(<<Mark>>) = 1
    BY SeqMonotonic DEF Paths
  <1>l. Len(s) \in Nat /\ Len(p) \in Nat /\ n \in Nat
    BY LenProperties DEF Paths
  <1> PICK h : h = p \o <<Mark>> OBVIOUS
  <1>2. h \in Seq(X) /\ Len(h) = Len(p) + 1
    BY <1>1, ConcatProperties
  <1> PICK t : t = SubSeq(s, 1, n) OBVIOUS
  <1>3. t \in Seq(X) /\ Len(t) = n
    BY <1>1, Fronts
  <1> HIDE DEF X
  <1>4. h \o t \in Seq(X) /\ Len(h \o t) = Len(h) + Len(t)
    BY <1>2, <1>3, ConcatProperties
  <1>5. n = 0 => h \o t = Append(p, Mark)
    <2>1. n = 0 => t = <<>>
      BY SubSeqEmpty
    <2>2. h \o <<>> = h
      BY <1>2, ConcatEmptySeq
    <2>3. Append(p, Mark) = h
      BY <1>1, AppendIsConcat DEF X
    <2> QED
      BY <2>1, <2>2, <2>3
  <1>6. ASSUME n < Len(s) PROVE h \o SubSeq(s, 1, n + 1) = Append(h \o t, s[n + 1])
    <2> PICK x : x = s[n + 1] OBVIOUS
    <2>1. 1 \in 1..Len(s) /\ n + 1 \in 1..Len(s) /\ n + 1 - 1 = n
      BY <1>6, <1>l
    <2>2. x \in X
      BY <2>1, <1>1, ElementOfSeq
    <2>3. SubSeq(s, 1, n + 1) = SubSeq(s, 1, n + 1 - 1) \o <<s[n + 1]>>
      BY <2>1, <1>1, SubSeqRecursiveSecond
    <2>4. SubSeq(s, 1, n + 1) = t \o <<x>>
      BY <2>1, <2>3
    <2>5. (h \o t) \o <<x>> = h \o (t \o <<x>>)
      <3>1. <<x>> \in Seq(X)
        BY <2>2
      <3> QED
        BY ONLY <3>1, <1>2, <1>3, ConcatAssociative, SMTT(30)
    <2>6. Append(h \o t, x) = (h \o t) \o <<x>>
      BY <2>2, <1>4, AppendIsConcat
    <2> QED
      BY <2>4, <2>5, <2>6
  <1>7. n = Len(s) => t = s
    BY SubSeqFull
  <1>8. Len(h \o t) = Len(p) + 1 + n
    BY <1>2, <1>3, <1>4, <1>l
  <1> QED
    BY <1>4, <1>5, <1>6, <1>7, <1>8 DEF Entered, Paths, X

\* What is left of a segment.
LEMMA SegmentLeft ==
    ASSUME NEW s \in Seq(Frame), NEW n \in 0..Len(s),
           NEW g, g = SubSeq(s, n + 1, Len(s))
    PROVE  /\ g \in Seq(Frame)
           /\ g = <<>> <=> n = Len(s)
           /\ n < Len(s) => /\ s[n + 1] \in Frame /\ Head(g) = s[n + 1]
                            /\ Tail(g) = SubSeq(s, n + 2, Len(s))
  <1>l. Len(s) \in Nat /\ n \in Nat /\ \A i \in 1..Len(s) : s[i] \in Frame
    BY LenProperties, ElementOfSeq
  <1>1. /\ g \in Seq(Frame)
        /\ Len(g) = IF n + 1 <= Len(s) THEN Len(s) - (n + 1) + 1 ELSE 0
    <2>1. \A i \in (n + 1)..Len(s) : s[i] \in Frame
      BY <1>l
    <2> QED
      BY <2>1, <1>l, SubSeqProperties
  <1>2. g = <<>> <=> n = Len(s)
    <2>1. g = <<>> <=> Len(g) = 0
      BY <1>1, EmptySeq
    <2>2. Len(g) = 0 <=> n = Len(s)
      BY <1>1, <1>l
    <2> QED
      BY <2>1, <2>2
  <1>3. ASSUME n < Len(s)
        PROVE  /\ s[n + 1] \in Frame /\ Head(g) = s[n + 1]
               /\ Tail(g) = SubSeq(s, n + 2, Len(s))
    <2>1. n + 1 \in 1..Len(s) /\ Len(s) \in (n + 1)..Len(s) /\ n + 1 + 1 = n + 2
      BY <1>3, <1>l
    <2>2. Head(g) = s[n + 1] /\ Tail(g) = SubSeq(s, n + 1 + 1, Len(s))
      BY <2>1, HeadTailOfSubSeq
    <2> QED
      BY <2>1, <2>2, <1>l
  <1> QED
    BY <1>1, <1>2, <1>3

\* The last k elements of a sequence.
LEMMA Tails ==
    ASSUME NEW S, NEW s, NEW n \in Nat, NEW k \in Nat, Len(s) = n + k,
           \A i \in (n + 1)..Len(s) : s[i] \in S
    PROVE  /\ SubSeq(s, n + 1, Len(s)) \in Seq(S)
           /\ Len(SubSeq(s, n + 1, Len(s))) = k
           /\ \A i \in 1..k : SubSeq(s, n + 1, Len(s))[i] = s[n + i]
  <1> PICK f : f = n + 1 OBVIOUS
  <1> PICK l : l = Len(s) OBVIOUS
  <1>1. f \in Int /\ l \in Int /\ \A i \in f..l : s[i] \in S
    OBVIOUS
  <1>2. /\ SubSeq(s, f, l) \in Seq(S)
        /\ Len(SubSeq(s, f, l)) = IF f <= l THEN l - f + 1 ELSE 0
        /\ \A i \in 1..(l - f + 1) : SubSeq(s, f, l)[i] = s[f + i - 1]
    BY <1>1, SubSeqProperties
  <1>3. l - f + 1 = k /\ (~(f <= l) => k = 0)
    OBVIOUS
  <1>4. \A i \in 1..k : f + i - 1 = n + i
    OBVIOUS
  <1> QED
    BY <1>2, <1>3, <1>4

\* A segment is what the path and the dynamic-winds have in common behind the
\* innermost delimiter.
LEMMA SegmentFits ==
    ASSUME NEW w \in Seq(Cells), NEW m \in Seq(Delimiters), NEW p \in Paths,
           Fits(w, m, p), m # <<>>,
           NEW top, top = Max(MarksIn(p) \cup {0})
    PROVE  /\ Drop(p, top) \in Seq(Frame)
           /\ Drop(p, top) = Drop(Frames(w), Len(Last(m).winds))
  <1>3. Len(w) \in Nat /\ Len(m) \in Nat /\ Len(p) \in Nat /\ Len(w) + Len(m) = Len(p)
    BY FitFacts
  <1>l. Len(m) # 0 /\ Len(m) \in 1..Len(m)
    BY <1>3, EmptySeq
  <1>t. /\ top = At(m, Len(m)) /\ top \in 0..Len(p) /\ top - Len(m) \in 0..Len(w)
        /\ \A q \in (top + 1)..Len(p) :
              /\ q - Len(m) \in 1..Len(w) /\ p[q] = w[q - Len(m)].frame /\ p[q] \in Frame
    <2> PICK t : t = At(m, Len(m)) OBVIOUS
    <2>1. t = IF Len(m) = 0 THEN 0 ELSE At(m, Len(m))
      BY <1>l
    <2>2. /\ t \in 0..Len(p) /\ t >= Len(m) /\ t - Len(m) <= Len(w)
          /\ Max(MarksIn(p) \cup {0}) = t
          /\ \A q \in (t + 1)..Len(p) :
                /\ q - Len(m) \in 1..Len(w) /\ p[q] = w[q - Len(m)].frame /\ p[q] \in Frame
      BY <2>1, TopFits
    <2>3. t - Len(m) \in 0..Len(w)
      BY <2>2, <1>3
    <2> QED
      BY <2>2, <2>3
  <1> PICK b : b = Len(Last(m).winds) OBVIOUS
  <1>b. b = top - Len(m)
    <2>1. Last(m).winds = SubSeq(w, 1, top - Len(m))
      BY <1>l, <1>t DEF Fits, DelimiterFits, Last
    <2> QED
      BY <2>1, <1>t, Fronts
  <1> PICK k : k = Len(p) - top OBVIOUS
  <1>k. /\ k \in Nat /\ b \in Nat /\ top \in Nat
        /\ Len(w) = b + k /\ Len(p) = top + k
    <2>1. top \in 0..Len(p) /\ top - Len(m) \in 0..Len(w) /\ b = top - Len(m)
      BY <1>t, <1>b
    <2> QED
      BY <2>1, <1>3
  <1>x. PICK x : x = SubSeq(p, top + 1, Len(p)) OBVIOUS
  <1> PICK v : v = Frames(w) OBVIOUS
  <1>y. PICK y : y = SubSeq(v, b + 1, Len(v)) OBVIOUS
  <1>v. v \in Seq(Frame) /\ Len(v) = Len(w) /\ \A i \in 1..Len(w) : v[i] = w[i].frame
    BY FrameFacts
  <1>1. /\ x \in Seq(Frame) /\ Len(x) = k
        /\ \A i \in 1..k : x[i] = p[top + i]
    <2>0. \A i \in (top + 1)..Len(p) : p[i] \in Frame
      BY <1>t
    <2> QED
      BY ONLY <2>0, <1>x, <1>k, Tails
  <1>2. /\ y \in Seq(Frame) /\ Len(y) = k
        /\ \A i \in 1..k : y[i] = v[b + i]
    <2>0. \A i \in (b + 1)..Len(v) : v[i] \in Frame
      <3>1. \A i \in (b + 1)..Len(v) : i \in 1..Len(v)
        BY ONLY <1>k, <1>v, <1>3
      <3> QED
        BY <3>1, <1>v, ElementOfSeq
    <2>1. Len(v) = b + k
      BY <1>k, <1>v
    <2> QED
      BY ONLY <2>0, <2>1, <1>y, <1>k, Tails
  <1>4. ASSUME NEW i \in 1..k PROVE x[i] = y[i]
    <2>q. PICK q : q = top + i OBVIOUS
    <2>1. q \in (top + 1)..Len(p) /\ q - Len(m) = b + i
      <3>1. i \in Nat /\ i >= 1 /\ i <= k
        BY <1>k
      <3>2. q \in (top + 1)..Len(p)
        BY ONLY <2>q, <3>1, <1>k
      <3>3. q - Len(m) = b + i
        BY <2>q, <3>1, <1>b, <1>k, <1>3
      <3> QED
        BY <3>2, <3>3
    <2>2. p[q] = w[b + i].frame /\ b + i \in 1..Len(w)
      BY <2>1, <1>t
    <2> QED
      BY <2>q, <2>2, <1>1, <1>2, <1>v
  <1>5. x = y
    BY <1>1, <1>2, <1>4, SeqEqual
  <1> QED
    BY <1>1, <1>5, <1>x, <1>y DEF Drop

\* The identities of the cells of two lists are finitely many, so one is left.
LEMMA CellIdsFinite ==
    ASSUME NEW w \in Seq(Cells), NEW m \in Seq(Delimiters)
    PROVE  IsFiniteSet(IdsOf(w, m))
  <1>1. ASSUME NEW v \in Seq(Cells) PROVE IsFiniteSet(Ids(v))
    <2>1. DOMAIN v = 1..Len(v) /\ Len(v) \in Nat
      BY LenProperties
    <2> DEFINE f == [i \in 1..Len(v) |-> v[i].id]
    <2>2. f \in Surjection(1..Len(v), Ids(v))
      BY <2>1 DEF Surjection, Ids
    <2>3. IsFiniteSet(1..Len(v))
      BY <2>1, FS_Interval
    <2> QED
      BY <2>2, <2>3, FS_Surjection
  <1>2. /\ DOMAIN m = 1..Len(m) /\ Len(m) \in Nat
        /\ \A i \in 1..Len(m) : m[i].winds \in Seq(Cells)
    BY LenProperties, DelimiterFacts
  <1> DEFINE T == { Ids(m[i].winds) : i \in DOMAIN m }
             g == [i \in 1..Len(m) |-> Ids(m[i].winds)]
  <1>3. g \in Surjection(1..Len(m), T)
    BY <1>2 DEF Surjection
  <1>4. IsFiniteSet(1..Len(m))
    BY <1>2, FS_Interval
  <1>5. IsFiniteSet(T)
    BY <1>3, <1>4, FS_Surjection
  <1>6. \A t \in T : IsFiniteSet(t)
    BY <1>1, <1>2
  <1>7. IsFiniteSet(UNION T)
    BY <1>5, <1>6, FS_UNION
  <1>8. IsFiniteSet(Ids(w))
    BY <1>1
  <1> QED
    BY <1>7, <1>8, FS_Union DEF IdsOf

\* A new cell is a cell.
LEMMA NewCell ==
    ASSUME winds \in Seq(Cells), meta \in Seq(Delimiters),
           IsFiniteSet(full), \A k \in full : k \in Continuations,
           mode.op # "unwind"
    PROVE  \A f \in Frame : [frame |-> f, id |-> FreshId] \in Cells
  <1> DEFINE T == { IdsOf(k.winds, k.meta) : k \in full }
             g == [k \in full |-> IdsOf(k.winds, k.meta)]
  <1>1. LiveIds = IdsOf(winds, meta) \cup UNION T
    BY DEF LiveIds
  <1>2. g \in Surjection(full, T)
    BY DEF Surjection
  <1>3. IsFiniteSet(T)
    BY <1>2, FS_Surjection
  <1>4. \A t \in T : IsFiniteSet(t)
    <2>1. ASSUME NEW k \in full PROVE IsFiniteSet(IdsOf(k.winds, k.meta))
      <3>1. k.winds \in Seq(Cells) /\ k.meta \in Seq(Delimiters)
        BY DEF Continuations
      <3> QED
        BY <3>1, CellIdsFinite
    <2> QED
      BY <2>1
  <1>5. IsFiniteSet(LiveIds)
    <2>1. IsFiniteSet(UNION T)
      BY <1>3, <1>4, FS_UNION
    <2> QED
      BY <1>1, <2>1, CellIdsFinite, FS_Union
  <1> PICK n : n = Cardinality(LiveIds) OBVIOUS
  <1>6. n \in Nat
    BY <1>5, FS_CardinalityType
  <1>7. \E i \in 0..n : i \notin LiveIds
    <2> SUFFICES ASSUME 0..n \subseteq LiveIds PROVE FALSE
      OBVIOUS
    <2>1. Cardinality(0..n) <= n
      BY <1>5, FS_Subset
    <2>2. Cardinality(0..n) = n + 1
      BY <1>6, FS_Interval
    <2> QED
      BY <2>1, <2>2, <1>6
  <1>8. FreshId \in 0..n
    BY <1>7 DEF FreshId
  <1>9. FreshId \in Nat
    BY <1>6, <1>8
  <1> QED
    BY <1>9 DEF Cells

-----------------------------------------------------------------------------
(***************************************************************************)
(* The steps.                                                              *)
(***************************************************************************)
LEMMA InvFacts ==
    ASSUME ControlInv
    PROVE  /\ winds \in Seq(Cells) /\ meta \in Seq(Delimiters) /\ path \in Paths
           /\ Len(winds) <= MaxPath /\ Len(meta) <= MaxPath /\ Len(path) <= MaxPath
           /\ failed = FALSE /\ KeptOK
           /\ mode.op = "run" => Running
           /\ mode.op = "unwind" => Unwinding
           /\ mode.op = "leave" => Leaving
           /\ mode.op = "enter" => Entering
           /\ mode = Run => mode.op = "run"
  BY DEF ControlInv, Running, Unwinding, Leaving, Entering, Run

\* What the assumption on the bounds says of the depth.
LEMMA MaxPathNat == MaxPath \in Nat
  BY BoundsAssumption

\* Nothing that fits the path is longer than it.
LEMMA FitLengths ==
    ASSUME NEW w \in Seq(Cells), NEW m \in Seq(Delimiters), NEW p \in Paths,
           Fits(w, m, p), Len(p) <= MaxPath
    PROVE  Len(w) <= MaxPath /\ Len(m) <= MaxPath
  <1>1. Len(w) \in Nat /\ Len(m) \in Nat /\ Len(p) \in Nat /\ Len(w) + Len(m) = Len(p)
    BY FitFacts
  <1> QED
    BY <1>1, MaxPathNat

\* The program runs on where the lists fit.
LEMMA RunsOn ==
    ASSUME winds' \in Seq(Cells), meta' \in Seq(Delimiters), path' \in Paths,
           Len(path') <= MaxPath, Fits(winds', meta', path'), mode' = Run,
           failed' = FALSE, KeptOK'
    PROVE  ControlInv'
  <1> PICK w : w = winds' OBVIOUS
  <1> PICK m : m = meta' OBVIOUS
  <1> PICK p : p = path' OBVIOUS
  <1>1. Len(w) <= MaxPath /\ Len(m) <= MaxPath
    BY FitLengths
  <1> QED
    BY <1>1 DEF ControlInv, Running

\* Nothing is captured.
LEMMA NothingKept ==
    ASSUME KeptOK, UNCHANGED <<full, segments>>
    PROVE  KeptOK'
  BY DEF KeptOK

\* dynamic-wind conses a cell when its before thunk has returned.
LEMMA EnterInv ==
    ASSUME ControlInv, NEW f \in Frame, Enter(f)
    PROVE  ControlInv'
  <1>1. /\ winds \in Seq(Cells) /\ meta \in Seq(Delimiters) /\ path \in Paths
        /\ failed = FALSE /\ KeptOK /\ mode.op = "run" /\ Fits(winds, meta, path)
    BY InvFacts DEF Enter, Running
  <1> PICK c : c = [frame |-> f, id |-> FreshId] OBVIOUS
  <1>2. c \in Cells /\ c.frame = f
    <2>1. IsFiniteSet(full) /\ \A k \in full : k \in Continuations
      BY <1>1 DEF KeptOK, GoodContinuation
    <2>2. mode.op # "unwind"
      BY <1>1
    <2> QED
      BY <2>1, <2>2, <1>1, NewCell
  <1>3. winds' = Append(winds, c) /\ path' = Append(path, f)
    BY DEF Enter, Wound
  <1> PICK w : w = winds OBVIOUS
  <1> PICK m : m = meta OBVIOUS
  <1> PICK p : p = path OBVIOUS
  <1>4. Append(w, c) \in Seq(Cells) /\ Append(p, f) \in Paths /\ Len(Append(p, f)) = Len(p) + 1
    BY <1>1, <1>2, Appended DEF Paths
  <1>5. Fits(Append(w, c), m, Append(p, f))
    BY <1>1, <1>2, EnterFits
  <1>6. Len(p) < MaxPath /\ Len(p) \in Nat
    BY <1>1, LenProperties DEF Enter, Paths
  <1>7. Len(path') <= MaxPath
    BY <1>3, <1>4, <1>6, MaxPathNat
  <1>8. KeptOK'
    BY <1>1, NothingKept DEF Enter
  <1>9. meta' = m /\ mode' = Run /\ failed' = FALSE
    BY <1>1 DEF Enter
  <1> QED
    BY <1>1, <1>3, <1>4, <1>5, <1>7, <1>8, <1>9, RunsOn

\* dynamic-wind takes its cell off before the after thunk.
LEMMA LeaveInv ==
    ASSUME ControlInv, Leave
    PROVE  ControlInv'
  <1>1. /\ winds \in Seq(Cells) /\ meta \in Seq(Delimiters) /\ path \in Paths
        /\ Len(path) <= MaxPath
        /\ failed = FALSE /\ KeptOK /\ Fits(winds, meta, path)
    BY InvFacts DEF Leave, Running
  <1> PICK w : w = winds OBVIOUS
  <1> PICK m : m = meta OBVIOUS
  <1> PICK p : p = path OBVIOUS
  <1> PICK top : top = IF Len(m) = 0 THEN 0 ELSE At(m, Len(m)) OBVIOUS
  <1>l. Len(w) \in Nat /\ Len(p) \in Nat
    BY <1>1, LenProperties DEF Paths
  <1>2. /\ top \in 0..Len(p) /\ Max(MarksIn(p) \cup {0}) = top
        /\ \A q \in (top + 1)..Len(p) : p[q] \in Frame
    BY <1>1, TopFits
  <1>3. Len(p) > top
    BY <1>2 DEF Leave, Depth, Marks
  <1>4. Len(p) \in (top + 1)..Len(p) /\ Len(p) # 0
    BY <1>2, <1>3, <1>l
  <1>5. p[Len(p)] # Mark /\ p # <<>>
    BY <1>2, <1>4, MarkAssumption, EmptySeq
  <1>6. w # <<>> /\ Fits(Front(w), m, Front(p))
    BY <1>1, <1>5, LeaveFits
  <1>7. Front(w) \in Seq(Cells)
    <2>1. Len(w) - 1 \in 0..Len(w)
      BY <1>1, <1>6, <1>l, EmptySeq
    <2> QED
      BY <2>1, <1>1, Fronts DEF Front
  <1>8. Front(p) \in Paths /\ Len(Front(p)) = Len(p) - 1
    <2>1. Len(p) - 1 \in 0..Len(p)
      BY <1>4, <1>l
    <2> QED
      BY <2>1, <1>1, Fronts DEF Front, Paths
  <1>9. /\ winds' = Front(w) /\ path' = Front(p) /\ meta' = m /\ mode' = Run
        /\ failed' = FALSE /\ KeptOK'
    BY <1>1, NothingKept DEF Leave
  <1>10. Len(path') <= MaxPath
    BY <1>1, <1>8, <1>9, <1>l, MaxPathNat
  <1> QED
    BY <1>1, <1>6, <1>7, <1>8, <1>9, <1>10, RunsOn

\* A continuation that is kept, or on its way.
LEMMA ContinuationFacts ==
    ASSUME NEW k, GoodContinuation(k)
    PROVE  /\ k \in Continuations
           /\ k.winds \in Seq(Cells) /\ k.meta \in Seq(Delimiters) /\ k.path \in Paths
           /\ Len(k.path) <= MaxPath /\ Fits(k.winds, k.meta, k.path)
           /\ Len(k.winds) <= MaxPath
  <1>1. /\ k.winds \in Seq(Cells) /\ k.meta \in Seq(Delimiters) /\ k.path \in Paths
        /\ Len(k.path) <= MaxPath /\ Fits(k.winds, k.meta, k.path)
    BY DEF GoodContinuation, Continuations
  <1> PICK w : w = k.winds OBVIOUS
  <1> PICK m : m = k.meta OBVIOUS
  <1> PICK p : p = k.path OBVIOUS
  <1>2. Len(w) <= MaxPath
    BY <1>1, FitLengths
  <1> QED
    BY <1>1, <1>2 DEF GoodContinuation

\* call/cc keeps the lists and the path of now.
LEMMA CaptureInv ==
    ASSUME ControlInv, Capture
    PROVE  ControlInv'
  <1>1. /\ winds \in Seq(Cells) /\ meta \in Seq(Delimiters) /\ path \in Paths
        /\ Len(path) <= MaxPath
        /\ failed = FALSE /\ KeptOK /\ Fits(winds, meta, path)
    BY InvFacts DEF Capture, Running
  <1> PICK k : k = [winds |-> winds, meta |-> meta, path |-> path] OBVIOUS
  <1>2. GoodContinuation(k)
    BY <1>1 DEF GoodContinuation, Continuations
  <1>3. PICK kept \in SUBSET full : full' = kept \cup {k}
    BY DEF Capture
  <1>4. KeptOK'
    <2>1. IsFiniteSet(kept)
      BY <1>1, FS_Subset DEF KeptOK
    <2>2. IsFiniteSet(full')
      BY <1>3, <2>1, FS_AddElement
    <2>3. \A j \in full' : GoodContinuation(j)
      BY <1>1, <1>2, <1>3 DEF KeptOK
    <2>4. segments' = segments
      BY DEF Capture
    <2> QED
      BY <1>1, <2>2, <2>3, <2>4 DEF KeptOK
  <1>5. /\ winds' = winds /\ meta' = meta /\ path' = path /\ mode' = Run
        /\ failed' = FALSE
    BY <1>1 DEF Capture
  <1> QED
    BY <1>1, <1>4, <1>5, RunsOn

\* Calling a continuation sets ##sys#dc-stack and begins to unwind.
LEMMA ThrowInv ==
    ASSUME ControlInv, NEW k \in full, Throw(k)
    PROVE  ControlInv'
  <1>1. /\ winds \in Seq(Cells) /\ meta \in Seq(Delimiters) /\ path \in Paths
        /\ Len(winds) <= MaxPath /\ Len(meta) <= MaxPath /\ Len(path) <= MaxPath
        /\ failed = FALSE /\ KeptOK
    BY InvFacts
  <1>2. GoodContinuation(k) /\ k \in Continuations
    BY <1>1 DEF KeptOK, GoodContinuation
  <1>3. /\ winds' = winds /\ meta' = meta /\ path' = path /\ failed' = FALSE
        /\ full' = full /\ segments' = segments /\ mode' = [op |-> "unwind", k |-> k]
    BY <1>1 DEF Throw
  <1>4. Unwinding'
    BY <1>2, <1>3 DEF Unwinding
  <1>5. KeptOK'
    BY <1>1, <1>3, NothingKept
  <1> QED
    BY <1>1, <1>3, <1>4, <1>5 DEF ControlInv

\* The dynamic-winds change on the way to a continuation.
LEMMA UnwindStays ==
    ASSUME ControlInv, mode.op = "unwind",
           UNCHANGED <<meta, path, full, segments, mode, failed>>,
           winds' \in Seq(Cells), Len(winds') <= MaxPath
    PROVE  ControlInv'
  <1>1. /\ winds \in Seq(Cells) /\ meta \in Seq(Delimiters) /\ path \in Paths
        /\ Len(meta) <= MaxPath /\ Len(path) <= MaxPath
        /\ failed = FALSE /\ KeptOK /\ Unwinding
    BY InvFacts
  <1>2. Unwinding'
    BY <1>1 DEF Unwinding
  <1>3. KeptOK'
    BY <1>1, NothingKept
  <1> QED
    BY <1>1, <1>2, <1>3 DEF ControlInv

\* ##sys#dynamic-unwind takes off a cell that is not in the target.
LEMMA UnwindAfterInv ==
    ASSUME ControlInv, UnwindAfter
    PROVE  ControlInv'
  <1>1. winds \in Seq(Cells) /\ Len(winds) <= MaxPath
    BY InvFacts
  <1> PICK w : w = winds OBVIOUS
  <1> PICK t : t = mode.k.winds OBVIOUS
  <1>t. t \in Seq(Cells)
    <2>1. GoodContinuation(mode.k)
      BY InvFacts DEF UnwindAfter, Unwinding
    <2> QED
      BY <2>1, ContinuationFacts
  <1>l. Len(w) \in Nat /\ Len(t) \in Nat
    BY <1>1, <1>t, LenProperties
  <1>2. Len(w) # 0
    <2> SUFFICES ASSUME Len(w) = 0 PROVE FALSE
      OBVIOUS
    <2>1. SubSeq(w, 1, 0) = <<>> /\ SubSeq(t, 1, 0) = <<>>
      BY SubSeqEmpty
    <2>2. IsPrefix(w, t)
      BY <2>1, <1>l DEF IsPrefix
    <2> QED
      BY <2>2 DEF UnwindAfter
  <1>3. Front(w) \in Seq(Cells) /\ Len(Front(w)) = Len(w) - 1
    <2>1. Len(w) - 1 \in 0..Len(w)
      BY <1>2, <1>l
    <2> QED
      BY <2>1, <1>1, Fronts DEF Front
  <1>4. Len(Front(w)) <= MaxPath
    BY <1>1, <1>3, <1>l, MaxPathNat
  <1>5. winds' = Front(w)
    BY DEF UnwindAfter
  <1> QED
    BY <1>3, <1>4, <1>5, UnwindStays DEF UnwindAfter

\* ##sys#dynamic-unwind enters the next cell of the target.
LEMMA UnwindBeforeInv ==
    ASSUME ControlInv, UnwindBefore
    PROVE  ControlInv'
  <1>1. winds \in Seq(Cells) /\ Len(winds) <= MaxPath
    BY InvFacts
  <1> PICK w : w = winds OBVIOUS
  <1> PICK t : t = mode.k.winds OBVIOUS
  <1>t. t \in Seq(Cells) /\ Len(t) <= MaxPath
    <2>1. GoodContinuation(mode.k)
      BY InvFacts DEF UnwindBefore, Unwinding
    <2> QED
      BY <2>1, ContinuationFacts
  <1>l. Len(w) \in Nat /\ Len(t) \in Nat
    BY <1>1, <1>t, LenProperties
  <1>2. IsPrefix(w, t) /\ w # t
    BY DEF UnwindBefore, IsStrictPrefix
  <1>3. Len(w) < Len(t)
    <2>1. Len(w) <= Len(t) /\ SubSeq(w, 1, Len(w)) = SubSeq(t, 1, Len(w))
      BY <1>2 DEF IsPrefix
    <2>2. SubSeq(w, 1, Len(w)) = w /\ SubSeq(t, 1, Len(t)) = t
      BY <1>1, <1>t, SubSeqFull
    <2>3. Len(w) # Len(t)
      BY <2>1, <2>2, <1>2
    <2> QED
      BY <2>1, <2>3, <1>l
  <1>4. Len(w) + 1 \in 0..Len(t) /\ Len(w) + 1 <= MaxPath
    BY <1>3, <1>l, <1>t, MaxPathNat
  <1> PICK n : n = Len(w) + 1 OBVIOUS
  <1>5. SubSeq(t, 1, n) \in Seq(Cells) /\ Len(SubSeq(t, 1, n)) = n
    BY <1>4, <1>t, Fronts
  <1>6. winds' = SubSeq(t, 1, n)
    BY DEF UnwindBefore
  <1> QED
    BY <1>4, <1>5, <1>6, UnwindStays DEF UnwindBefore

\* When the winds are those of the continuation the control is in it.
LEMMA UnwoundInv ==
    ASSUME ControlInv, Unwound
    PROVE  ControlInv'
  <1>1. failed = FALSE /\ KeptOK /\ GoodContinuation(mode.k)
    BY InvFacts DEF Unwound, Unwinding
  <1> PICK k : k = mode.k OBVIOUS
  <1>2. /\ k.winds \in Seq(Cells) /\ k.meta \in Seq(Delimiters) /\ k.path \in Paths
        /\ Len(k.path) <= MaxPath /\ Fits(k.winds, k.meta, k.path)
    BY <1>1, ContinuationFacts
  <1>3. /\ winds' = k.winds /\ meta' = k.meta /\ path' = k.path /\ mode' = Run
        /\ failed' = FALSE /\ KeptOK'
    BY <1>1, NothingKept DEF Unwound
  <1> QED
    BY <1>2, <1>3, RunsOn

\* continuation-return leaves the dynamic-winds alone: they fit only if they are
\* those of the continuation.
LEMMA ContinuationReturnInv ==
    ASSUME ControlInv, Returns = "level", NEW k \in full, ContinuationReturn(k)
    PROVE  ControlInv'
  <1>1. failed = FALSE /\ KeptOK /\ GoodContinuation(k)
    BY InvFacts DEF KeptOK
  <1>2. /\ k.winds \in Seq(Cells) /\ k.meta \in Seq(Delimiters) /\ k.path \in Paths
        /\ Len(k.path) <= MaxPath /\ Fits(k.winds, k.meta, k.path)
    BY <1>1, ContinuationFacts
  <1>3. /\ winds' = k.winds /\ meta' = k.meta /\ path' = k.path /\ mode' = Run
        /\ failed' = FALSE /\ KeptOK'
    BY <1>1, NothingKept DEF ContinuationReturn
  <1> QED
    BY <1>2, <1>3, RunsOn

\* reset pushes a delimiter with the winds and the path of now.
LEMMA ResetInv ==
    ASSUME ControlInv, Reset
    PROVE  ControlInv'
  <1>1. /\ winds \in Seq(Cells) /\ meta \in Seq(Delimiters) /\ path \in Paths
        /\ failed = FALSE /\ KeptOK /\ Fits(winds, meta, path)
    BY InvFacts DEF Reset, Running
  <1> PICK w : w = winds OBVIOUS
  <1> PICK m : m = meta OBVIOUS
  <1> PICK p : p = path OBVIOUS
  <1> PICK d : d = [winds |-> w, path |-> p] OBVIOUS
  <1>2. d \in Delimiters /\ Fits(w, Append(m, d), Append(p, Mark))
    BY <1>1, PushFits
  <1>3. Append(m, d) \in Seq(Delimiters)
    BY <1>1, <1>2, Appended
  <1>4. Append(p, Mark) \in Paths /\ Len(Append(p, Mark)) = Len(p) + 1
    BY <1>1, Appended DEF Paths
  <1>5. /\ winds' = w /\ meta' = Append(m, d) /\ path' = Append(p, Mark) /\ mode' = Run
        /\ failed' = FALSE /\ KeptOK'
    BY <1>1, NothingKept DEF Reset, Pushed
  <1>6. Len(p) \in Nat /\ Len(p) < MaxPath
    BY <1>1, LenProperties DEF Reset, Paths
  <1>7. Len(path') <= MaxPath
    BY <1>4, <1>5, <1>6, MaxPathNat
  <1> QED
    BY <1>1, <1>2, <1>3, <1>4, <1>5, <1>7, RunsOn

\* The way to the delimiter begins.
LEMMA LeavingBegins ==
    ASSUME ControlInv, NEW b \in Seq(Cells), NEW q \in Paths, NEW m \in Seq(Delimiters),
           Fits(b, m, q), IsPrefix(b, winds), Len(q) <= MaxPath,
           Len(m) <= MaxPath, meta' = m,
           mode' = [op |-> "leave", base |-> b, path |-> q],
           UNCHANGED <<winds, path, failed>>, KeptOK'
    PROVE  ControlInv'
  <1>1. /\ winds \in Seq(Cells) /\ path \in Paths
        /\ Len(winds) <= MaxPath /\ Len(path) <= MaxPath
        /\ failed = FALSE
    BY InvFacts
  <1>2. Leaving'
    BY DEF Leaving
  <1> QED
    BY <1>1, <1>2 DEF ControlInv

\* A value returned to a delimiter pops it and leaves for its winds.
LEMMA DcAbortInv ==
    ASSUME ControlInv, DcAbort
    PROVE  ControlInv'
  <1>1. /\ winds \in Seq(Cells) /\ meta \in Seq(Delimiters) /\ path \in Paths
        /\ Len(path) <= MaxPath /\ Len(meta) <= MaxPath
        /\ failed = FALSE /\ KeptOK /\ Fits(winds, meta, path) /\ meta # <<>>
    BY InvFacts DEF DcAbort, Running
  <1> PICK w : w = winds OBVIOUS
  <1> PICK m : m = meta OBVIOUS
  <1> PICK p : p = path OBVIOUS
  <1> PICK d : d = Last(m) OBVIOUS
  <1> PICK f : f = Front(m) OBVIOUS
  <1>2. /\ f \in Seq(Delimiters) /\ d \in Delimiters
        /\ Fits(d.winds, f, d.path) /\ IsPrefix(d.winds, w) /\ Len(d.path) < Len(p)
    BY <1>1, PopFits
  <1> PICK b : b = d.winds OBVIOUS
  <1> PICK q : q = d.path OBVIOUS
  <1>3. b \in Seq(Cells) /\ q \in Paths
    BY <1>2 DEF Delimiters
  <1>4. Len(q) <= MaxPath
    <2>1. Len(q) \in Nat /\ Len(p) \in Nat
      BY <1>1, <1>3, LenProperties DEF Paths
    <2> QED
      BY <2>1, <1>1, <1>2, MaxPathNat
  <1>5. Len(f) <= MaxPath
    BY <1>2, <1>3, <1>4, FitLengths
  <1>6. /\ meta' = f /\ mode' = [op |-> "leave", base |-> b, path |-> q]
        /\ UNCHANGED <<winds, path, failed>> /\ KeptOK'
    BY <1>1, NothingKept DEF DcAbort, UnwindTo, Delimiter
  <1> QED
    BY <1>2, <1>3, <1>4, <1>5, <1>6, LeavingBegins

\* ##sys#dc-unwind-to takes off one cell that is not in the winds of the delimiter.
LEMMA LeaveSegmentInv ==
    ASSUME ControlInv, LeaveSegment
    PROVE  ControlInv'
  <1>1. /\ winds \in Seq(Cells) /\ meta \in Seq(Delimiters) /\ path \in Paths
        /\ Len(winds) <= MaxPath /\ Len(meta) <= MaxPath /\ Len(path) <= MaxPath
        /\ failed = FALSE /\ KeptOK /\ Leaving
    BY InvFacts DEF LeaveSegment
  <1> PICK w : w = winds OBVIOUS
  <1> PICK b : b = mode.base OBVIOUS
  <1>2. b \in Seq(Cells) /\ IsPrefix(b, w) /\ w # b
    BY <1>1 DEF Leaving, LeaveSegment
  <1>l. Len(w) \in Nat /\ Len(b) \in Nat
    BY <1>1, <1>2, LenProperties
  <1>3. Len(b) < Len(w)
    <2>1. Len(b) <= Len(w) /\ SubSeq(b, 1, Len(b)) = SubSeq(w, 1, Len(b))
      BY <1>2 DEF IsPrefix
    <2>2. SubSeq(b, 1, Len(b)) = b /\ SubSeq(w, 1, Len(w)) = w
      BY <1>1, <1>2, SubSeqFull
    <2>3. Len(b) # Len(w)
      BY <2>1, <2>2, <1>2
    <2> QED
      BY <2>1, <2>3, <1>l
  <1>4. w # <<>>
    BY <1>3, <1>l, EmptySeq
  <1> PICK v : v = Front(w) OBVIOUS
  <1>5. /\ v \in Seq(Cells) /\ Len(v) = Len(w) - 1
        /\ \A i \in 1..(Len(w) - 1) : v[i] = w[i]
    <2>1. Len(w) - 1 \in 0..Len(w)
      BY <1>3, <1>l
    <2> QED
      BY <2>1, <1>1, Fronts DEF Front
  <1>6. IsPrefix(b, v)
    <2>1. Len(b) \in 0..Len(v) /\ Len(b) <= Len(w)
      BY <1>3, <1>5, <1>l
    <2>2. \A i \in 1..Len(b) : v[i] = w[i]
      BY <1>3, <1>5, <1>l
    <2>3. SubSeq(v, 1, Len(b)) = SubSeq(w, 1, Len(b))
      BY <2>1, <2>2, <1>1, <1>5, SameFronts
    <2> QED
      BY <2>1, <2>3, <1>2 DEF IsPrefix
  <1>7. /\ winds' = v /\ failed' = FALSE /\ mode' = mode
        /\ UNCHANGED <<meta, path, full, segments>>
    BY <1>1, <1>4 DEF LeaveSegment
  <1>8. Leaving'
    BY <1>1, <1>6, <1>7 DEF Leaving
  <1>9. Len(v) <= MaxPath
    BY <1>1, <1>5, <1>l, MaxPathNat
  <1>10. KeptOK'
    BY <1>1, <1>7, NothingKept
  <1> QED
    BY <1>1, <1>5, <1>7, <1>8, <1>9, <1>10 DEF ControlInv

\* With the winds of the delimiter the control is behind that delimiter.
LEMMA LeftSegmentInv ==
    ASSUME ControlInv, LeftSegment
    PROVE  ControlInv'
  <1>1. /\ winds \in Seq(Cells) /\ meta \in Seq(Delimiters)
        /\ failed = FALSE /\ KeptOK /\ Leaving
    BY InvFacts DEF LeftSegment
  <1> PICK p : p = mode.path OBVIOUS
  <1>2. p \in Paths /\ Len(p) <= MaxPath /\ Fits(winds, meta, p)
    BY <1>1 DEF Leaving, LeftSegment
  <1>3. /\ winds' = winds /\ meta' = meta /\ path' = p /\ mode' = Run
        /\ failed' = FALSE /\ KeptOK'
    BY <1>1, NothingKept DEF LeftSegment
  <1> QED
    BY <1>1, <1>2, <1>3, RunsOn

\* shift keeps the segment up to the innermost delimiter and leaves for it.
LEMMA ShiftInv ==
    ASSUME ControlInv, Shift
    PROVE  ControlInv'
  <1>1. /\ winds \in Seq(Cells) /\ meta \in Seq(Delimiters) /\ path \in Paths
        /\ Len(path) <= MaxPath /\ Len(meta) <= MaxPath
        /\ failed = FALSE /\ KeptOK /\ Fits(winds, meta, path) /\ meta # <<>>
    BY InvFacts DEF Shift, Running
  <1> PICK w : w = winds OBVIOUS
  <1> PICK m : m = meta OBVIOUS
  <1> PICK p : p = path OBVIOUS
  <1> PICK d : d = Last(m) OBVIOUS
  <1> PICK f : f = Front(m) OBVIOUS
  <1>2. /\ f \in Seq(Delimiters) /\ d \in Delimiters /\ m = Append(f, d)
        /\ Fits(d.winds, f, d.path) /\ IsPrefix(d.winds, w) /\ Len(d.path) < Len(p)
    BY <1>1, PopFits
  <1> PICK b : b = d.winds OBVIOUS
  <1> PICK q : q = Append(d.path, Mark) OBVIOUS
  <1>3. b \in Seq(Cells) /\ d.path \in Paths /\ d = [winds |-> b, path |-> d.path]
    BY <1>2 DEF Delimiters
  <1>4. q \in Paths /\ Len(q) = Len(d.path) + 1
    BY <1>3, Appended DEF Paths
  <1>5. Fits(b, m, q)
    BY <1>2, <1>3, PushFits
  <1>6. Len(q) <= MaxPath
    <2>1. Len(d.path) \in Nat /\ Len(p) \in Nat
      BY <1>1, <1>3, LenProperties DEF Paths
    <2> QED
      BY <2>1, <1>1, <1>2, <1>4, MaxPathNat
  <1> PICK top : top = Max(MarksIn(p) \cup {0}) OBVIOUS
  <1> PICK s : s = [path |-> Drop(path, Depth), seg |-> DcSegment(b)] OBVIOUS
  <1>7. s \in Segments /\ s.seg = s.path
    <2>1. /\ Drop(p, top) \in Seq(Frame)
          /\ Drop(p, top) = Drop(Frames(w), Len(Last(m).winds))
      BY <1>1, SegmentFits
    <2>2. Drop(path, Depth) = Drop(p, top) /\ DcSegment(b) = Drop(p, top)
      BY <2>1 DEF Depth, Marks, DcSegment
    <2> QED
      BY <2>1, <2>2 DEF Segments
  <1>8. /\ \E kept \in SUBSET segments : segments' = kept \cup {s}
        /\ mode' = [op |-> "leave", base |-> b, path |-> q] /\ failed' = failed
        /\ UNCHANGED <<winds, meta, path, full>>
    BY <1>2 DEF Shift, Delimiter, UnwindTo
  <1>9. KeptOK'
    BY <1>1, <1>7, <1>8 DEF KeptOK
  <1> QED
    BY <1>1, <1>2, <1>3, <1>4, <1>5, <1>6, <1>8, <1>9, LeavingBegins

\* Resuming a segment pushes a delimiter and begins to enter its frames.
LEMMA DcResumeInv ==
    ASSUME ControlInv, NEW d \in segments, DcResume(d)
    PROVE  ControlInv'
  <1>1. /\ winds \in Seq(Cells) /\ meta \in Seq(Delimiters) /\ path \in Paths
        /\ Len(winds) <= MaxPath /\ Len(path) <= MaxPath
        /\ failed = FALSE /\ KeptOK /\ Fits(winds, meta, path)
    BY InvFacts DEF DcResume, Running
  <1> PICK w : w = winds OBVIOUS
  <1> PICK m : m = meta OBVIOUS
  <1> PICK p : p = path OBVIOUS
  <1> PICK s : s = d.path OBVIOUS
  <1>2. s \in Seq(Frame) /\ d.seg = s
    BY <1>1 DEF KeptOK, Segments
  <1> PICK e : e = [winds |-> w, path |-> p] OBVIOUS
  <1>3. e \in Delimiters /\ Fits(w, Append(m, e), Append(p, Mark))
    BY <1>1, PushFits
  <1>4. Append(m, e) \in Seq(Delimiters) /\ Len(Append(m, e)) = Len(m) + 1
    BY <1>1, <1>3, Appended
  <1>l. /\ Len(w) \in Nat /\ Len(m) \in Nat /\ Len(p) \in Nat /\ Len(s) \in Nat
        /\ Len(w) + Len(m) = Len(p) /\ Len(p) + Len(s) < MaxPath
    BY <1>1, <1>2, FitFacts, LenProperties DEF DcResume
  <1>5. /\ meta' = Append(m, e) /\ mode' = [op |-> "enter", seg |-> s, path |-> s]
        /\ winds' = w /\ path' = p /\ failed' = FALSE /\ KeptOK'
    BY <1>1, <1>2, NothingKept DEF DcResume, Pushed
  <1>6. Len(meta') <= MaxPath
    BY <1>4, <1>5, <1>l, MaxPathNat
  <1>7. s = SubSeq(s, 0 + 1, Len(s)) /\ 0 \in 0..Len(s)
    BY <1>2, <1>l, SubSeqFull
  <1>8. Entered(p, s, 0) = Append(p, Mark)
    BY <1>1, <1>2, <1>7, EnteredFacts
  <1>9. Entering'
    <2>1. /\ mode' \in [op : {"enter"}, seg : Seq(Frame), path : Seq(Frame)]
          /\ Len(path') + Len((mode').path) < MaxPath
      BY <1>2, <1>5, <1>l
    <2>2. \E n \in 0..Len(s) :
            /\ s = SubSeq(s, n + 1, Len(s))
            /\ Fits(w, Append(m, e), Entered(p, s, n))
      BY <1>3, <1>7, <1>8
    <2>3. (mode').seg = s /\ (mode').path = s
      BY <1>5
    <2> QED
      BY <2>1, <2>2, <2>3, <1>5 DEF Entering
  <1> QED
    BY <1>1, <1>4, <1>5, <1>6, <1>9 DEF ControlInv

\* ##sys#dc-rewind enters the next frame of the segment.
LEMMA RewindInv ==
    ASSUME ControlInv, Rewind
    PROVE  ControlInv'
  <1>1. /\ winds \in Seq(Cells) /\ meta \in Seq(Delimiters) /\ path \in Paths
        /\ Len(meta) <= MaxPath /\ Len(path) <= MaxPath
        /\ failed = FALSE /\ KeptOK /\ Entering
    BY InvFacts DEF Rewind
  <1> PICK w : w = winds OBVIOUS
  <1> PICK m : m = meta OBVIOUS
  <1> PICK p : p = path OBVIOUS
  <1> PICK s : s = mode.path OBVIOUS
  <1> PICK g : g = mode.seg OBVIOUS
  <1>2. /\ mode = [op |-> "enter", seg |-> g, path |-> s]
        /\ s \in Seq(Frame) /\ g \in Seq(Frame) /\ Len(p) + Len(s) < MaxPath
    BY <1>1 DEF Entering
  <1>3. PICK n \in 0..Len(s) :
          g = SubSeq(s, n + 1, Len(s)) /\ Fits(w, m, Entered(p, s, n))
    BY <1>1 DEF Entering
  <1>l. /\ Len(w) \in Nat /\ Len(m) \in Nat /\ Len(p) \in Nat /\ Len(s) \in Nat
        /\ n \in Nat
    BY <1>1, <1>2, LenProperties DEF Paths
  <1>4. n < Len(s)
    <2>1. g # <<>>
      BY DEF Rewind
    <2>2. n # Len(s)
      BY <2>1, <1>2, <1>3, SegmentLeft
    <2> QED
      BY <2>2, <1>l
  <1> PICK f : f = s[n + 1] OBVIOUS
  <1>5. f \in Frame /\ Head(g) = f /\ Tail(g) = SubSeq(s, n + 2, Len(s))
    BY <1>2, <1>3, <1>4, SegmentLeft
  <1> PICK c : c = [frame |-> f, id |-> FreshId] OBVIOUS
  <1>6. c \in Cells /\ c.frame = f
    <2>1. IsFiniteSet(full) /\ \A k \in full : k \in Continuations
      BY <1>1 DEF KeptOK, GoodContinuation
    <2>2. mode.op # "unwind"
      BY <1>2
    <2> QED
      BY <2>1, <2>2, <1>1, <1>5, NewCell
  <1> PICK a : a = Entered(p, s, n) OBVIOUS
  <1>7. a \in Paths /\ Entered(p, s, n + 1) = Append(a, f) /\ Len(a) = Len(p) + 1 + n
    BY <1>1, <1>2, <1>4, EnteredFacts
  <1>8. Fits(Append(w, c), m, Append(a, f))
    BY <1>1, <1>3, <1>6, <1>7, EnterFits
  <1>9. Append(w, c) \in Seq(Cells) /\ Len(Append(w, c)) = Len(w) + 1
    BY <1>1, <1>6, Appended
  <1>10. Len(w) + 1 <= MaxPath
    <2>1. Len(w) + Len(m) = Len(a)
      BY <1>1, <1>3, <1>7, FitFacts
    <2> QED
      BY <2>1, <1>2, <1>4, <1>7, <1>l, MaxPathNat
  <1>11. /\ winds' = Append(w, c)
         /\ mode' = [op |-> "enter", seg |-> Tail(g), path |-> s]
         /\ meta' = m /\ path' = p /\ failed' = FALSE /\ KeptOK'
    <2>1. winds' = Append(w, c)
      BY <1>5 DEF Rewind, Wound
    <2>2. mode' = [op |-> "enter", seg |-> Tail(g), path |-> s]
      BY <1>2 DEF Rewind
    <2> QED
      BY <2>1, <2>2, <1>1, NothingKept DEF Rewind
  <1>12. Entering'
    <2> PICK k : k = n + 1 OBVIOUS
    <2>1. k \in 0..Len(s) /\ k + 1 = n + 2
      BY <1>4, <1>l
    <2>2. Tail(g) = SubSeq(s, k + 1, Len(s)) /\ Fits(Append(w, c), m, Entered(p, s, k))
      BY <2>1, <1>5, <1>7, <1>8
    <2>3. Tail(g) \in Seq(Frame)
      <3>1. Tail(g) = SubSeq(s, k + 1, Len(s))
        BY <2>2
      <3> QED
        BY <3>1, <2>1, <1>2, SegmentLeft
    <2>4. (mode').seg = Tail(g) /\ (mode').path = s
      BY <1>11
    <2>5. mode' \in [op : {"enter"}, seg : Seq(Frame), path : Seq(Frame)]
      BY <2>3, <1>2, <1>11
    <2> QED
      BY <2>1, <2>2, <2>4, <2>5, <1>2, <1>11 DEF Entering
  <1> QED
    BY <1>1, <1>9, <1>10, <1>11, <1>12 DEF ControlInv

\* When all frames of the segment have been entered the program runs in it.
LEMMA RewoundInv ==
    ASSUME ControlInv, Rewound
    PROVE  ControlInv'
  <1>1. /\ winds \in Seq(Cells) /\ meta \in Seq(Delimiters) /\ path \in Paths
        /\ failed = FALSE /\ KeptOK /\ Entering
    BY InvFacts DEF Rewound
  <1> PICK w : w = winds OBVIOUS
  <1> PICK m : m = meta OBVIOUS
  <1> PICK p : p = path OBVIOUS
  <1> PICK s : s = mode.path OBVIOUS
  <1>2. s \in Seq(Frame) /\ mode.seg = <<>> /\ Len(p) + Len(s) < MaxPath
    BY <1>1 DEF Entering, Rewound
  <1>3. PICK n \in 0..Len(s) :
          mode.seg = SubSeq(s, n + 1, Len(s)) /\ Fits(w, m, Entered(p, s, n))
    BY <1>1 DEF Entering
  <1>4. n = Len(s)
    BY <1>2, <1>3, SegmentLeft
  <1>p. p \in Paths
    BY <1>1
  <1> PICK q : q = Entered(p, s, n) OBVIOUS
  <1>5. q \in Paths /\ Len(q) = Len(p) + 1 + n
    BY <1>p, <1>2, EnteredFacts
  <1>c. q = p \o <<Mark>> \o s
    BY <1>p, <1>2, <1>4, EnteredFacts, Zenon
  <1>6. Len(q) <= MaxPath
    <2>1. Len(p) \in Nat /\ Len(s) \in Nat
      BY <1>p, <1>2, LenProperties DEF Paths
    <2>2. Len(q) = Len(p) + 1 + Len(s)
      BY <1>4, <1>5
    <2>3. Len(p) + Len(s) < MaxPath /\ MaxPath \in Nat
      BY <1>2, MaxPathNat
    <2> QED
      BY ONLY <2>1, <2>2, <2>3
  <1>7. /\ winds' = w /\ meta' = m /\ path' = q /\ mode' = Run
        /\ failed' = FALSE /\ KeptOK'
    BY <1>1, <1>c, NothingKept DEF Rewound
  <1> QED
    BY <1>1, <1>3, <1>5, <1>6, <1>7, RunsOn

-----------------------------------------------------------------------------
\* The program starts in no dynamic-wind and behind no delimiter.
LEMMA ControlStart == ASSUME Init PROVE ControlInv
  <1>1. /\ winds = <<>> /\ meta = <<>> /\ path = <<>> /\ full = {} /\ segments = {}
        /\ mode = Run /\ failed = FALSE
    BY DEF Init
  <1>2. KeptOK
    BY <1>1, FS_EmptySet DEF KeptOK
  <1>3. Running
    BY <1>1, NothingFits DEF Running
  <1>4. /\ winds \in Seq(Cells) /\ meta \in Seq(Delimiters) /\ path \in Paths
        /\ Len(winds) = 0 /\ Len(meta) = 0 /\ Len(path) = 0
    BY <1>1, EmptySeq DEF Paths
  <1> QED
    BY <1>1, <1>2, <1>3, <1>4, MaxPathNat DEF ControlInv

\* Every step of a program that uses continuation-return at its level keeps the
\* invariant.
LEMMA ControlStep ==
    ASSUME Returns = "level", ControlInv, [Next]_vars
    PROVE  ControlInv'
  <1>1. CASE UNCHANGED vars
    BY <1>1 DEF vars, ControlInv, KeptOK, Running, Unwinding, Leaving, Entering
  <1>2. ASSUME NEW f \in Frame, Enter(f) PROVE ControlInv'
    BY <1>2, EnterInv
  <1>3. CASE Leave
    BY <1>3, LeaveInv
  <1>4. CASE Capture
    BY <1>4, CaptureInv
  <1>5. ASSUME NEW k \in full, Throw(k) PROVE ControlInv'
    BY <1>5, ThrowInv
  <1>6. ASSUME NEW k \in full, ContinuationReturn(k) PROVE ControlInv'
    BY <1>6, ContinuationReturnInv
  <1>7. CASE UnwindAfter
    BY <1>7, UnwindAfterInv
  <1>8. CASE UnwindBefore
    BY <1>8, UnwindBeforeInv
  <1>9. CASE Unwound
    BY <1>9, UnwoundInv
  <1>10. CASE Reset
    BY <1>10, ResetInv
  <1>11. CASE DcAbort
    BY <1>11, DcAbortInv
  <1>12. CASE Shift
    BY <1>12, ShiftInv
  <1>13. ASSUME NEW d \in segments, DcResume(d) PROVE ControlInv'
    BY <1>13, DcResumeInv
  <1>14. CASE LeaveSegment
    BY <1>14, LeaveSegmentInv
  <1>15. CASE LeftSegment
    BY <1>15, LeftSegmentInv
  <1>16. CASE Rewind
    BY <1>16, RewindInv
  <1>17. CASE Rewound
    BY <1>17, RewoundInv
  <1> QED
    BY <1>1, <1>2, <1>3, <1>4, <1>5, <1>6, <1>7, <1>8, <1>9, <1>10, <1>11, <1>12,
       <1>13, <1>14, <1>15, <1>16, <1>17 DEF Next

\* However continuations are captured, called, resumed and composed, when the
\* program runs ##sys#dynamic-winds and ##sys#dc-stack say where its control
\* is, and no winding code fails, if continuation-return is used within the
\* same dynamic-winds.  What ##sys#dynamic-unwind, ##sys#dc-unwind-to and
\* ##sys#dc-rewind do step by step comes to that in the end.
THEOREM ListsAreControl ==
    ASSUME Returns = "level"
    PROVE  Spec => []ListsMatchControl
  <1>1. Init => ControlInv
    BY ControlStart
  <1>2. ControlInv /\ [Next]_vars => ControlInv'
    BY ControlStep
  <1> QED
    BY <1>1, <1>2, InvMatches, PTL DEF Spec

=============================================================================
