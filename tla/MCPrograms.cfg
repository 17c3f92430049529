SPECIFICATION ProgramsSpec
CONSTANTS
  N = 3
  T = 5
  Funcs = 2
  Lines <- MCLines
  MaxStages = 3
  PipeCap = 2
  M = 3
  FifoCap = 2
  Torn = Torn
  Clients = {c1, c2}
  MaxSend = 3
  MaxFaults = 1
  Sellers = {s1, s2, s3}
  Seats = 3
  Signals = {2, 3}
  Rounds = 3
  MaxRaise = 3
  MaxRequests = 2
  MaxInt = 3
  Numeral <- MCNumeral
INVARIANTS
  PoolSafe ShellSafe ChanSafe UdpSafe HttpSafe CalcSafe
PROPERTIES
  EveryChildEnds PromptReturnsUnlessEndless ReaderFinishes EveryQuestionAnswered
  LessonsSafe AllSeatsSold EverySignalDelivered
CHECK_DEADLOCK FALSE
