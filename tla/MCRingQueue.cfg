SPECIFICATION FairSpec
CONSTANTS
  p1 = p1
  p2 = p2
  c1 = c1
  c2 = c2
  a = a
  b = b
  NoItem = NoItem
  Garbage = Garbage
  Producers <- MCProducers
  Consumers <- MCConsumers
  Item <- MCItem
  Cap = 2
  PosMod = 4
INVARIANTS Safe FetchedSlotStable
PROPERTIES ImplementsFifo FetchesForever
