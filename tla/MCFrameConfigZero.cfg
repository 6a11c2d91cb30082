CONSTANTS
  MaxMoodGroup = 8  MaxFrameNum = 10  GroupBits = 8
  Numbers = {3}  Left = {0}
SPECIFICATION FrameSpec
INVARIANTS Count0Stays
CHECK_DEADLOCK FALSE
