---------------------------- MODULE MCScheduler ----------------------------
(***************************************************************************)
(* Small instances of the scheduler for TLC.                               *)
(***************************************************************************)
EXTENDS Scheduler, TLC

CONSTANTS p, a, b, f, m, c, x, y

\* A thread outside of every handler and delimiter.
Outside == [extent |-> x, handlers |-> x, delimiters |-> x]
OneContext  == {Outside}

\* The threads other than the primordial one are alike.
Symmetry == Permutations(Threads \ {Primordial})
=============================================================================
