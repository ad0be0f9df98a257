---------------------------- MODULE MCFinalizers ----------------------------
(***************************************************************************)
(* Small instances of Finalizers for TLC.                                  *)
(***************************************************************************)
EXTENDS Finalizers, TLC

CONSTANTS t1, t2, a, b

\* Those selects what SelectSeq selects.
ASSUME ThoseAssumption ==
    \A n \in 0..3 : \A s \in [1..n -> 1..3], S \in SUBSET (1..3) :
        Those(s, S) = SelectSeq(s, LAMBDA x : x \in S)

Symmetry == Permutations(Thread) \cup Permutations(Object)
=============================================================================
