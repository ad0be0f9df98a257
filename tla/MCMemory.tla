------------------------------ MODULE MCMemory ------------------------------
(***************************************************************************)
(* What a state is, for TLC: neither how it came to be nor in how many     *)
(* steps.                                                                  *)
(***************************************************************************)
EXTENDS MemorySystem

View == [r EXCEPT !.new = Nil]
=============================================================================
