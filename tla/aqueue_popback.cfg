SPECIFICATION OddSpec
CONSTANTS
  Queues = {x}
  Elements = {a, b}
  Junk = Junk
  UMod <- MCUMod
  Capacities <- OddCapacities
SYMMETRY QueueSymmetry
PROPERTY ImplementsDeque
