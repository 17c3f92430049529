SPECIFICATION Spec
CONSTANTS
  N = 3
  Fds <- MCFds
CHECK_DEADLOCK FALSE
INVARIANT ServesItsConnection
