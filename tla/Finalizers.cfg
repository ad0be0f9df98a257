CONSTANTS
  t1 = t1
  t2 = t2
  a = a
  b = b
  None = None
  Thread = {t1, t2}
  Object = {a, b}
  InitialMax = 1
  MaxNodes = 2
  Realloc = {TRUE, FALSE}
  Kills = TRUE
  Escapes = TRUE
SPECIFICATION Spec
SYMMETRY Symmetry
CHECK_DEADLOCK FALSE
INVARIANTS
  RunOnce
  ItemsKept
  TableSound
