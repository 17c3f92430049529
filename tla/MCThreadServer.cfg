SPECIFICATION FairSpec
CONSTANTS
  N = 3
  Fds <- MCFds
CHECK_DEADLOCK FALSE
INVARIANTS Safe
PROPERTIES ClosesOnlyWhatEnded DescriptorsReturn
