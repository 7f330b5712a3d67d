SPECIFICATION MCSpec
CONSTANTS
  Queues = {queue1, queue2}
  Elements = {el1, el2}
  Junk = Junk
  UMod <- MCUMod
  Capacities <- AllCapacities
  p1 = p1
  p2 = p2
  t1 = t1
  t2 = t2
  t3 = t3
  Threads = {t1, t2, t3}
  Processes = {p1, p2}
  ProcessOf <- MCProcessOf
  Absent = Absent
  Hole = Hole
  Nobody = Nobody
  LOG_FILE_MAX_SIZE = 1
  Kilobyte = 1
  MaxRecord = 2
  MaxLogged = 4
  Callers = {p1, p2}
  Diffs <- MCDiffs
  StartTime = 5
  MaxTicks = 3
  MaxUpdates = 2
  Bar = Bar
  x = x
  Space = Space
  Chars = {Bar, Space, x}
  Separators <- MCSeparators
  MaxText = 4
  Base = 10
  Fine = 2
  Decimals = 1
  Significant = 6
  Near = 1
  Values <- MCValues
  Usec = 10
  Limit = 3
  Instants <- MCInstants
INVARIANT TextIsTheValue
CHECK_DEADLOCK FALSE
