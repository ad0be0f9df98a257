CONSTANTS
  t1 = t1
  t2 = t2
  a = a
  b = b
  None = None
  Thread = {t1, t2}
  Object = {a}
  InitialMax = 1
  MaxNodes = 2
  Realloc = {FALSE}
  Kills = FALSE
  Escapes = FALSE
SPECIFICATION FairSpec
CHECK_DEADLOCK FALSE
PROPERTY FinalizersProceed
