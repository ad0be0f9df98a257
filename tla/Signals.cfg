CONSTANTS
  p = p
  a = a
  s1 = s1
  s2 = s2
  b = b
  None = None
  Timer = Timer
  Primordial = p
  Threads = {p, a}
  Sigs = {s1, s2, b}
  Uses <- SoundUses
  MaxPending = 2
SPECIFICATION FairSpec
INVARIANTS
  SignalsOnce
  InterruptsSound
  WaiterWaits
PROPERTY InterruptsProceed
