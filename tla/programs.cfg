SPECIFICATION MCSpec
CONSTANTS
  a = a
  b = b
  BeginStr = BeginStr
  EndStr = EndStr
  Long = Long
  Blank = Blank
  None = None
  Lines <- MCLines
  Files <- AllFiles
  MaxSenders = 2
  MaxOut = 5
  t1 = t1
  t2 = t2
  boy = boy
  girl = girl
  bytes = bytes
  NoCall = NoCall
  NULL = NULL
  Empty = Empty
  Zero = Zero
  Publishers <- MCPublishers
  Subscribed <- MCSubscribed
  Calls <- MCCalls
  HighWater = 2
  MaxPublished = 4
  Listings <- MCListings
  QueueSize = 3
  MayFail = TRUE
  MaxPresses = 3
INVARIANTS AllButFirstArrive PairsArriveTogether PartsStayInOrder ShotsExplained
PROPERTIES TransferEnds EarlyEndStrandsSender Drained EveryPressShot
CHECK_DEADLOCK FALSE
