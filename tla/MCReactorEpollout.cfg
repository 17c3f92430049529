SPECIFICATION Spec
CONSTANTS
  c1 = c1
  c2 = c2
  Listen = Listen
  None = None
  Clients <- MCOneClient
  Fds <- MCOneFd
  Handler = "dict"
  K = 1
  Window = 1
  Split = FALSE
  ReadBuf = 4
  RespLen = 2
  SndBuf = 1
  Reset = FALSE
  Expire = FALSE
CHECK_DEADLOCK FALSE
INVARIANT UnsentOutputIsWatched
