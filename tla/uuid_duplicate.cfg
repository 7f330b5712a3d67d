SPECIFICATION Spec
CONSTANTS
  TicksPerUsec <- MCTicks
  MAX_ADJUSTMENT <- MCTicks
  SeqMod = 3
  MaxTime = 4
  MaxBack = 2
  MaxCalls = 6
INVARIANT NoDuplicates
CHECK_DEADLOCK FALSE
