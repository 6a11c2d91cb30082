\* The firmware's registers, stack and count of tries; the pins in any order and
\* back; a display of three pages, one transfer of it lost.
CONSTANTS
  FaceX = {0, 1919}  FaceY = {1079}  Controls = {65535}
  SweepAngles = {0, 179}
  Address = 208  Registers = {28, 107, 108, 117}  Writes <- MCWrites  Reads = {28, 117}
  Tries = 50  MaxCalls = 2
  Wanted <- MCWanted  PinValues = {0, 3, 7}  StackSize = 8  WaitTime = 3  MaxSwitch = 5
  Columns = 8  Pages = 3  Images <- MCImages  Spots <- MCSpots  Font <- MCFont  Numbers <- MCNumbers
  IntLength = 2  FraLength = 1  MaxDraw = 2  MaxUpdate = 2  MaxLost = 1
SPECIFICATION MCSpec
INVARIANTS TypesOK UpdateShows
PROPERTIES FollowsFace ServoSettles EachCallIsRight OnlyAsWritten UsedWhenReady ImplementsPixels
