----------------------- MODULE MCSchedulerRefinement -----------------------
(***************************************************************************)
(* A small instance of the refinement of ThreadSystem by the scheduler.    *)
(***************************************************************************)
EXTENDS SchedulerRefinement

CONSTANTS p, a, b, f, m, c, x, y

\* A thread outside of every handler and delimiter, and one inside of some.
Outside == [extent |-> x, handlers |-> x, delimiters |-> x]
Inside  == [extent |-> x, handlers |-> y, delimiters |-> y]
TwoContexts == {Outside, Inside}
=============================================================================
