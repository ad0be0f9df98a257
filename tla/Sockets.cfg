CONSTANTS
  PortUses <- SoundUses
  a1 = a1
  a2 = a2
  c1 = c1
  c2 = c2
  NoThread = NoThread
  Threads = {a1, a2, c1, c2}
  Uses <- SoundNetworks
  MaxConns = 3
  Units <- TwoUnits
  EventKinds = {1, 2}
  EventNumbers = {0, 1, 2}
  MaxSent = 3
SPECIFICATION SocketsSpec
CHECK_DEADLOCK FALSE
INVARIANTS
  InputWhole
  OutputWhole
  LoneAcceptorNeverBlocks
  ConnectResults
  RequestsObeyed
PROPERTY EveryClientAccepted
