SPECIFICATION Spec
CONSTANTS
  w1 = w1
  w2 = w2
  w3 = w3
  a = a
  b = b
  Main = Main
  NoItem = NoItem
  Garbage = Garbage
  Workers <- MCWorkers
  Item <- MCItem
  QMax = 2
CHECK_DEADLOCK FALSE
INVARIANT NoLostWakeup
