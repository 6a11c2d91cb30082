---------------------------- MODULE FrameConfig -----------------------------
(***************************************************************************)
(* mood_get_frame_config of Robot/src/wp_mood_sys.c: for one new mood it   *)
(* looks for the files <name>0, <name>1, ... and fills in struct           *)
(* Frame_Info: a bit of group per file that is there, and the file's       *)
(* number of frames in count.  wp_set_bit writes eight bytes from group    *)
(* on, so a bit behind the group byte is one of count[0].                  *)
(* The frame addresses are left out: nothing reads them before the program *)
(* stops (RobotTasks).                                                     *)
(***************************************************************************)
EXTENDS Integers, FiniteSets

CONSTANTS
  MaxMoodGroup,   \* MAX_MOOD_GROUP, the length of count
  MaxFrameNum,    \* MAX_FRAME_NUM
  GroupBits,      \* 8: group is an uint8_t
  Numbers,        \* the numbers a file may hold behind "count="
  Left            \* what malloc may leave in a byte

\* 1 << b
Shift[b \in 0 .. GroupBits] == IF b = 0 THEN 1 ELSE 2 * Shift[b - 1]
UInt8 == 0 .. Shift[GroupBits] - 1

ASSUME FrameAssumption ==
  /\ {MaxMoodGroup, MaxFrameNum, GroupBits} \subseteq Nat \ {0}
  /\ MaxMoodGroup <= GroupBits /\ MaxFrameNum <= 2 * GroupBits
  /\ Numbers \subseteq Int /\ Left \subseteq UInt8

\* What a file can be: missing, without a count that file_search_data finds (a file
\* shorter than its block is not searched), or with one.
Missing == "missing"
NoCount == "no count"
File == [kind : {Missing, NoCount}] \cup [kind : {"count"}, number : Numbers]

VARIABLES
  turn,     \* the loop counter
  looked,   \* the files looked at so far
  present,  \* the bits of group that are set
  counts    \* the bytes of count

frameVars == <<turn, looked, present, counts>>

Groups == 0 .. MaxMoodGroup - 1

FrameInit ==
  /\ turn = 0 /\ looked = << >>
  /\ \E b \in Left : counts = [g \in Groups |-> b]
  /\ present \in {{}, 0 .. GroupBits - 1}

\* Bit b of byte n becomes v.
WithBit(n, b, v) == n + (v - ((n \div Shift[b]) % 2)) * Shift[b]

\* wp_set_bit(&group, b, v), on a little-endian machine; 1 << b is an int, and b
\* stays below 2 * GroupBits here.  A slip: the mask of a cleared bit is 0 << b.
SetBitClearAll(b, v) ==
  IF v = 0 THEN present' = {} /\ counts' = [g \in Groups |-> IF g < 7 THEN 0 ELSE counts[g]]
  ELSE present' = present \cup {b} /\ UNCHANGED counts
SetBit(b, v) ==
  IF b < GroupBits
  THEN /\ present' = IF v = 1 THEN present \cup {b} ELSE present \ {b}
       /\ UNCHANGED counts
  ELSE /\ counts' = [counts EXCEPT ![0] = WithBit(@, b - GroupBits, v)]
       /\ UNCHANGED present

\* frame_num: a number becomes an uint8_t and is limited.
Frames(n) ==
  LET frame_num == n % Shift[GroupBits]
  IN  IF frame_num >= MaxFrameNum THEN MaxFrameNum ELSE frame_num

\* A group's count, with the group's bit set after it.  There is no count behind
\* the last group: that write goes to the padding and the addresses.
Opened(f) ==
  IF f.kind = "count" /\ turn \in Groups
  THEN /\ counts' = [counts EXCEPT ![turn] = Frames(f.number)]
       /\ present' = present \cup {turn}
  ELSE SetBit(turn, 1)

Look(f) ==
  /\ turn < MaxFrameNum
  /\ turn' = turn + 1
  /\ looked' = [g \in 0 .. turn |-> IF g = turn THEN f ELSE looked[g]]
  /\ IF f.kind = Missing THEN SetBit(turn, 0) ELSE Opened(f)

FrameNext == \E f \in File : Look(f)

FrameSpec == FrameInit /\ [][FrameNext]_frameVars

-----------------------------------------------------------------------------
FrameTypeOK ==
  /\ turn \in 0 .. MaxFrameNum /\ looked \in [0 .. turn - 1 -> File]
  /\ present \subseteq 0 .. GroupBits - 1
  /\ counts \in [Groups -> UInt8]

\* The bit of a group is set exactly when its file is there, and its count is the limited
\* number of the file, whatever the later turns of the loop do, those behind the last
\* group among them and although a bit is written as part of an eight-byte word.  Group 0
\* has its bit and may lose its count.
GroupsAsFound ==
  \A g \in 0 .. GroupBits - 1 :
    g < turn =>
      /\ g \in present <=> looked[g].kind # Missing
      /\ g \in Groups \ {0} /\ looked[g].kind = "count" => counts[g] = Frames(looked[g].number)

\* What of the types GroupsAsFound needs to be inductive (MoodProofs).
FrameInv ==
  /\ turn \in Nat
  /\ DOMAIN looked = 0 .. turn - 1
  /\ counts = [g \in Groups |-> counts[g]]
  /\ GroupsAsFound

-----------------------------------------------------------------------------
(* What the comments say and the code does not do                          *)

\* wp_mood_sys.h:76 says that count holds the number of frames of each group: of
\* group 0, too, when the loop is over and the file gave one.
Count0Stays ==
  turn = MaxFrameNum /\ looked[0].kind = "count" => counts[0] = Frames(looked[0].number)
=============================================================================
