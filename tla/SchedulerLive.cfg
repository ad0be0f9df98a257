CONSTANTS
  p = p
  a = a
  b = b
  f = f
  m = m
  c = c
  x = x
  y = y
  None = None
  Primordial = p
  Threads = {p, a}
  Fds = {f}
  Mutexes = {m}
  CVars = {}
  Contexts <- OneContext
  NewHandlers = x
  NoDelimiters = x
  ParameterValues = {x}
  Delays = {1}
  MaxTime = 3
  AbortOnThreadExceptions = FALSE
SPECIFICATION FairSpec
CHECK_DEADLOCK FALSE
PROPERTY ThreadsProceed
