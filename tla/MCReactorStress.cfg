SPECIFICATION Spec
CONSTANTS
  c1 = c1
  c2 = c2
  Listen = Listen
  None = None
  Clients <- MCClients
  Fds <- MCFds
  Handler = "cal"
  K = 2
  Window = 2
  Split = TRUE
  ReadBuf = 2
  RespLen = 2
  SndBuf = 1
  Reset = TRUE
  Expire = TRUE
CHECK_DEADLOCK FALSE
SYMMETRY Symmetry
INVARIANTS NoEdgeForgotten EventsGoToTheirConnection
PROPERTY ClosesOnlyIdleOrCut
