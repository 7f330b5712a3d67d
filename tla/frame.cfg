SPECIFICATION MCSpec
CONSTANTS
  Types <- MCTypes
  Compared <- MCCompared
  ByteMod = 8
  SeqNoMod = 4
  Starts <- MCStarts
  Cuts <- EveryByte
  Payloads <- MCPayloads
  Noises <- MCNoises
  FRAME_HEAD_PACKET_LEN_SIZE = 2
  FRAME_HEAD_MIN_LEN = 4
  maxSize = 5
  ReadSize = 5
  QueueSize = 9
  MaxSends = 3
  MaxFaults = 2
INVARIANTS QueueFits CutsMakeNoDifference ReportsAreExplained SilenceMeansNoLoss
PROPERTIES ScanEnds UndisturbedFramesArrive
CHECK_DEADLOCK FALSE
