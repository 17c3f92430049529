SPECIFICATION FairSpec
CONSTANTS
  c1 = c1
  c2 = c2
  c3 = c3
  Sock = Sock
  None = None
  Clients <- MCClients
  Limit <- MCLimit
  Cap = 3
  K <- MCK
  ReadBuf = 1
  SndBuf = 1
CHECK_DEADLOCK FALSE
INVARIANTS Safe NeverBlocksReading
PROPERTIES ImplementsService EveryoneIsServed
