CONSTANTS
  p = p
  a = a
  b = b
  f = f
  m = m
  c = c
  x = x
  y = y
  None = None
  Primordial = p
  Threads = {p, a, b}
  Fds = {f}
  Mutexes = {}
  CVars = {}
  Contexts <- OneContext
  NewHandlers = x
  NoDelimiters = x
  ParameterValues = {x}
  Delays = {2}
  MaxTime = 4
  AbortOnThreadExceptions = TRUE
SPECIFICATION Spec
CHECK_DEADLOCK FALSE
SYMMETRY Symmetry
INVARIANTS
  TypeOK
  NoThreadLost
  FdListSound
  ReadyQueueSound
  IdlesRightly
  OnlyWaitingWait
PROPERTY NoEarlyTimeout
