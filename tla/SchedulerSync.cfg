CONSTANTS
  p = p
  a = a
  b = b
  f = f
  m = m
  c = c
  x = x
  y = y
  None = None
  Primordial = p
  Threads = {p, a, b}
  Fds = {}
  Mutexes = {m}
  CVars = {c}
  Contexts <- TwoContexts
  NewHandlers = x
  NoDelimiters = x
  ParameterValues = {x, y}
  Delays = {}
  MaxTime = 1
  AbortOnThreadExceptions = TRUE
SPECIFICATION Spec
CHECK_DEADLOCK FALSE
INVARIANTS
  MutexOwnersAgree
PROPERTY ImplementsThreadSystem
