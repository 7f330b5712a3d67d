SPECIFICATION MCSpec
CONSTANTS
  TicksPerUsec <- MCTicks
  MAX_ADJUSTMENT <- MCTicks
  SeqMod = 3
  MaxTime = 4
  MaxBack = 2
  MaxCalls = 6
  Nibble = 8
  Usec = 10
  Ticks = 2
  Epoch <- MCEpoch
  GiveUp = 1
  MaxAdjustment = 2
  Times <- MCTimes
  RandomBytes <- MCRandom
  Card <- MCCard
  MaxMade = 2
INVARIANTS Ordered DuplicatesOnlyOnTheEdge GeneratedAreWellFormed 
PROPERTIES CallsReturn GenerateEnds
CHECK_DEADLOCK FALSE
