SPECIFICATION FairSpec
CONSTANTS
  c1 = c1
  c2 = c2
  Clients <- MCClients
  K = 2
  Pieces = 3
  Overlap = FALSE
  Drop = TRUE
CHECK_DEADLOCK FALSE
INVARIANTS Safe
PROPERTIES RequestsAreAnswered ServiceEnds
