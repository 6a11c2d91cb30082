\* Two slots and a queue of one, so that both fill up; an address and two data
\* commands of two attempts each.
CONSTANTS
  MaxSlot = 2  QueueLen = 1  MaxTry = 2
  MaxCommand = 3  MaxEvent = 1  MaxLockFail = 1
SPECIFICATION FairSpec
INVARIANTS TypeOK NothingStranded OnePlace InStep
PROPERTIES NeverOverwritten AttemptsHandled
