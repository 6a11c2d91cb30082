\* The constants of the firmware; one GPIO event is enough.
CONSTANTS
  MaxSlot = 8  QueueLen = 30  MaxTry = 10
  MaxCommand = 2  MaxEvent = 1  MaxLockFail = 0
SPECIFICATION Spec
INVARIANTS EventsReported
