\* BASE, three more moods and a name that is too long; four pairs can be bound, with a
\* relevance that mood_node_create must limit; one call changes a value.  The constants
\* of wp_config.h for the frames: eight groups, a loop of ten turns.  Files of up to four
\* blocks, texts of four characters, three faces, four calls of a queue of three bytes.
\* Each part ends, or may rest: the system may stop.
CONSTANTS
  BASE = BASE  HAPPY = HAPPY  PEACE = PEACE  SAD = SAD  LONG = LONG
  Names = {BASE, HAPPY, PEACE, SAD, LONG}
  Base = BASE
  LongNames = {LONG}
  Pairs <- SomePairs
  Rels <- RelsOver
  Values = {9}
  Unit = 1
  BaseValue = 5  MinValue = 1  MaxValue = 10
  ValueIncrease = 3
  IdSpace = 8
  MaxChanges = 1
  MaxMoodGroup = 8  MaxFrameNum = 10  GroupBits = 8
  Numbers <- MCNumbers  Left = {0, 7}
  BlockSize = 4  TargetLen = 2  MaxSize = 18
  Digits = {0, 7}  MaxText = 4  Areas = {0, 1, 2}  MaxFaces = 3
  MaxQueue = 3  Bytes = {1, 2}  Lengths = {1, 2, 3}  ByteSpace = 8  MaxMoves = 4
SPECIFICATION MCSpec
INVARIANTS TypesOK EachMoodIsFound EdgesMeet HelpersRight GroupsAsFound
PROPERTIES ImplementsMoodRelation ImplementsFifo
CHECK_DEADLOCK FALSE
