SPECIFICATION MCSpec
CONSTANTS
  Spis = {spi}
  Serials = {serial1, serial2}
  Udps = {udp}
  Handles = {spifd}
  Program = Program
  Free = Free
  MaxFd = 2
  Programs <- MCPrograms
  Objects = {obj}
  Tools = {tool}
  Configs <- MCConfigs
  Modes = {0, 3}
  WordSizes = {8, 16}
  Speeds = {5, 9}
  ModeMod = 4
  HasMode = {0, 1, 3}
  TopSpeed = 8
  MaxCalls = 4
  Threads = {t1, t2, t3}
  Ports = {p}
  PortOf <- OnePort
  baud = 3
  ByteTime = 7
  UMod = 16
  MaxWork = 28
  Lens <- MCLens
  Uses <- AnyUse
SYMMETRY Symmetry
INVARIANTS EachItsOwn NothingIsLost SettingsFollowDevice SpeedNeverBecomesMode DrivenWhileSending ReleasedAtRest
CHECK_DEADLOCK FALSE
