SPECIFICATION Spec
CONSTANTS
  a = a
  b = b
  BeginStr = BeginStr
  EndStr = EndStr
  Long = Long
  Blank = Blank
  None = None
  Lines <- MCLines
  Files <- PlainFiles
  MaxSenders = 1
  MaxOut = 5
INVARIANT WholeFileArrives
CHECK_DEADLOCK FALSE
