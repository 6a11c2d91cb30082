\* Three edges of a key, three ioctls of two programs, two files on one device.  A module
\* stays unloaded, or loaded without a call: the system may stop.
CONSTANTS
  Boot = 3  Debounce = 2  MaxJiffies = 5  MaxEdges = 3
  MaxTurns = 3
  Programs = {prog1, prog2}  Periods = {1, 2}  DefaultPeriod = 2  MaxIoctl = 3
  OnBus = {leddriver}  Direct = {chardev}  MaxFiles = 2  MaxRefs = 3
  prog1 = prog1  prog2 = prog2  leddriver = leddriver  chardev = chardev
SPECIFICATION MCSpec
INVARIANTS TypesOK NothingRemains OnlyTheTaskletRemains FilesHold
PROPERTIES KeyIsSeen TimerObeys CameraEnds
CHECK_DEADLOCK FALSE
