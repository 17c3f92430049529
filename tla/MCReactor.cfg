SPECIFICATION FairSpec
CONSTANTS
  c1 = c1
  c2 = c2
  Listen = Listen
  None = None
  Clients <- MCClients
  Fds <- MCFds
  Handler = "cal"
  K = 2
  Window = 2
  Split = FALSE
  ReadBuf = 4
  RespLen = 1
  SndBuf = 2
  Reset = FALSE
  Expire = FALSE
CHECK_DEADLOCK FALSE
INVARIANTS Safe
PROPERTY RequestsAreAnswered
