SPECIFICATION FairSpec
CONSTANTS
  w1 = w1
  w2 = w2
  w3 = w3
  a = a
  b = b
  Main = Main
  NoItem = NoItem
  Garbage = Garbage
  Workers <- MCWorkers3
  Item <- MCItem
  QMax = 2
CHECK_DEADLOCK FALSE
INVARIANTS Safe PushWakesAWorker
PROPERTIES ImplementsFifo RemovesForever
