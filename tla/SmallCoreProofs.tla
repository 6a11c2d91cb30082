--------------------------- MODULE SmallCoreProofs ---------------------------
(***************************************************************************)
(* Proofs about the small core, for every position, angle, list of pins,   *)
(* image, number and size of the display: the way of a face to the servo   *)
(* and its pulse (Servo), the check of the pins (CheckStack), the      *)
(* update of the display (Oled), and that its drawing functions, which     *)
(* recursive functions describe, implement PixelScreen.  At the end, that  *)
(* they stay what they are side by side, with SoftI2C (MCSmallCore).       *)
(***************************************************************************)
EXTENDS MCSmallCore, I2cProofs, NaturalsInduction, WellFoundedInduction, TLAPS

(* Servo                                                                   *)

\* A position survives the packing: what UnpackX and UnpackY take from the word that
\* mailbox_comm sends is what video_capture has put there, whatever the control bits are.
LEMMA PackAndBack ==
  ASSUME NEW x \in Coordinates, NEW y \in Coordinates, NEW control \in Nat
  PROVE  LET word == Param(Pack(x, y), control)
         IN  /\ Pack(x, y) \in Words /\ word[1] = Pack(x, y) /\ word[2] \in ControlBits
             /\ UnpackX(word) = x /\ UnpackY(word) = y
<1>1. Pack(x, y) \in Words
  BY SMT DEF Pack, Words, Coordinates
<1>2. Pack(x, y) % (2048 * 2048) = Pack(x, y)
  <2>1. \A n, m \in Nat : n < m => n % m = n
    BY SMT
  <2>2. 2048 * 2048 \in Nat /\ Pack(x, y) \in Nat /\ Pack(x, y) < 2048 * 2048
    BY SMT, <1>1 DEF Words
  <2> QED BY SMT, <2>1, <2>2
<1>3. Pack(x, y) % 2048 = x
  BY SMT DEF Pack, Coordinates
<1>4. Pack(x, y) \div 2048 = y
  BY SMT DEF Pack, Coordinates
<1>5. control % 1024 \in ControlBits
  BY SMT DEF ControlBits
<1> QED BY SMT, <1>1, <1>2, <1>3, <1>4, <1>5 DEF Param, UnpackX, UnpackY

LEMMA CoordinatesAreNat == \A x \in Coordinates : x \in Nat
BY SMT DEF Coordinates

\* The angle is one the servo can take, and never smaller for a face further right.
LEMMA DegreeRises ==
  ASSUME NEW x \in Nat
  PROVE  /\ Degree(x) \in 0 .. 180
         /\ \A y \in Nat : x < y => Degree(x) <= Degree(y)
<1> DEFINE Sum(n) == 90 + (50 * (IF n - 640 \in -639 .. 639 THEN 0 ELSE n - 640)) \div 640
<1>1. \A n \in Nat : Sum(n) \in Int /\ Degree(n) = Limit(Sum(n))
  BY SMT DEF Degree, Offset
<1>2. \A m \in Int : Limit(m) \in 0 .. 180
  BY SMT DEF Limit
<1>3. \A m, n \in Int : m <= n => Limit(m) <= Limit(n)
  BY SMT DEF Limit
<1>4. \A n \in Nat : /\ n = 0 => Sum(n) = 40
                     /\ n \in 1 .. 1279 => Sum(n) = 90
                     /\ n >= 1280 => Sum(n) = 90 + (50 * (n - 640)) \div 640
  BY SMT
<1>5. \A m, n \in Nat : m <= n => m \div 640 <= n \div 640
  BY SMT
<1>6. ASSUME NEW y \in Nat, x < y, x >= 1280 PROVE Sum(x) <= Sum(y)
  <2>1. 50 * (x - 640) \in Nat /\ 50 * (y - 640) \in Nat /\ 50 * (x - 640) <= 50 * (y - 640)
    BY SMT, <1>6
  <2>2. (50 * (x - 640)) \div 640 <= (50 * (y - 640)) \div 640
    BY SMT, <2>1, <1>5
  <2>3. Sum(x) = 90 + (50 * (x - 640)) \div 640 /\ Sum(y) = 90 + (50 * (y - 640)) \div 640
    BY SMT, <1>4, <1>6
  <2> QED BY SMT, <2>1, <2>2, <2>3
<1>7. \A n \in Nat : n >= 1280 => Sum(n) >= 90
  BY SMT
<1> HIDE DEF Sum
<1>8. ASSUME NEW y \in Nat, x < y PROVE Sum(x) <= Sum(y)
  <2>1. x = 0 \/ x \in 1 .. 1279 \/ x >= 1280
    BY SMT
  <2>2. y \in 1 .. 1279 \/ y >= 1280
    BY SMT, <1>8
  <2> QED BY SMT, <1>1, <1>4, <1>6, <1>7, <1>8, <2>1, <2>2
<1> QED BY SMT, <1>1, <1>2, <1>3, <1>8

\* A pulse of an angle up to 180 degrees lies where a servo wants it, and so does the first.
LEMMA PulseFits ==
  /\ \A a \in 0 .. 180 : LowLevel(a) \in Int /\ Period - LowLevel(a) \in Pulses
  /\ Period \in Int /\ FirstLow \in Int /\ Period - FirstLow \in Pulses
<1>1. ASSUME NEW a \in 0 .. 180 PROVE LowLevel(a) \in Int /\ Period - LowLevel(a) \in Pulses
  <2> DEFINE n == a * 200 * 1000
  <2>1. n \in Nat /\ n <= 180 * (200 * 1000)
    BY SMT
  <2>2. \A m, k \in Nat : m <= 180 * k => m \div 180 \in Nat /\ m \div 180 <= k
    BY SMT
  <2>3. n \div 180 \in Nat /\ n \div 180 <= 200 * 1000
    BY SMT, <2>1, <2>2
  <2> HIDE DEF n
  <2>4. LowLevel(a) = n \div 180 + 4750 * 1000
    BY SMT DEF LowLevel, n
  <2> QED BY SMT, <2>3, <2>4 DEF Period, Pulses
<1>2. Period \in Int /\ FirstLow \in Int /\ Period - FirstLow \in Pulses
  BY SMT DEF FirstLow, Period, Pulses
<1> QED BY <1>1, <1>2

LEMMA ServoStart == ServoAssumption /\ ServoInit => ServoInv
<1> SUFFICES ASSUME ServoAssumption, ServoInit PROVE ServoInv
  OBVIOUS
<1>1. 0 \in Coordinates /\ 0 \in ControlBits /\ Pack(0, 0) = 0
  BY SMT DEF Coordinates, ControlBits, Pack
<1>2. WordsInv
  BY SMT, <1>1 DEF ServoInit, WordsInv, Positions
<1>3. PwmInv
  BY SMT DEF ServoInit, PwmInv
<1> QED BY <1>2, <1>3 DEF ServoInv

\* The words: each copy carries its position on.
LEMMA WordsStep ==
  ASSUME ServoAssumption, WordsInv, ServoNext
  PROVE  WordsInv'
<1> USE DEF WordsInv, Positions, dataVars, taskVars
<1>1. CASE FaceFound
  BY SMT, <1>1 DEF FaceFound, ServoAssumption
<1>2. CASE CopyFace
  BY SMT, <1>2 DEF CopyFace
<1>3. CASE SendFace
  <2>1. PICK control \in Controls : linuxWord' = Param(face_data, control)
    BY SMT, <1>3 DEF SendFace
  <2>2. linuxWord'[1] = Pack(copiedAt[1], copiedAt[2]) /\ linuxWord'[2] \in ControlBits
    <3>1. copiedAt[1] \in Coordinates /\ copiedAt[2] \in Coordinates /\ control \in Nat
      BY SMT DEF ServoAssumption
    <3> QED BY <2>1, <3>1, PackAndBack
  <2> QED BY SMT, <1>3, <2>2 DEF SendFace
<1>4. CASE ServoTurn
  <2>1. UnpackX(linuxWord) \in Coordinates /\ UnpackY(linuxWord) \in Coordinates
    <3>1. sentAt[1] \in Coordinates /\ sentAt[2] \in Coordinates /\ 0 \in Nat
      BY SMT
    <3>2. Param(Pack(sentAt[1], sentAt[2]), 0)[1] = linuxWord[1]
      BY SMT, <3>1, PackAndBack
    <3> QED BY SMTT(40), <3>1, <3>2, PackAndBack DEF UnpackX, UnpackY
  <2> QED BY SMT, <1>4, <2>1 DEF ServoTurn
<1>5. CASE SweepTurn
  BY SMT, <1>5 DEF SweepTurn
<1>6. CASE PwmInit \/ StopChannel \/ StartChannel \/ SetLow
  BY SMT, <1>6 DEF PwmInit, StopChannel, StartChannel, SetLow
<1> QED BY <1>1, <1>2, <1>3, <1>4, <1>5, <1>6 DEF ServoNext, Turns

\* The channel: every low part that is written leaves a pulse the servo understands.
LEMMA PwmStep ==
  ASSUME ServoAssumption, WordsInv, PwmInv, ServoNext
  PROVE  PwmInv'
<1> USE DEF PwmInv, Goes, taskVars
<1>1. CASE FaceFound \/ CopyFace \/ SendFace
  BY SMT, <1>1 DEF FaceFound, CopyFace, SendFace
<1>2. CASE PwmInit
  BY SMT, <1>2, PulseFits DEF PwmInit
<1>3. CASE ServoTurn
  <2>1. seenAt'[1] \in Coordinates
    BY SMT, <1>3, WordsStep DEF WordsInv, Positions
  <2>2. Degree(seenAt'[1]) \in 0 .. 180
    BY <2>1, CoordinatesAreNat, DegreeRises
  <2> QED BY SMT, <1>3, <2>2 DEF ServoTurn
<1>4. CASE SweepTurn
  BY SMT, <1>4 DEF SweepTurn, ServoAssumption
<1>5. CASE StopChannel \/ StartChannel
  <2>1. PICK b \in BOOLEAN : pwm' = [pwm EXCEPT !.start = b]
    BY <1>5 DEF StopChannel, StartChannel
  <2>2. /\ pwm' \in [start : BOOLEAN, oe : BOOLEAN, low : Int, period : Int]
        /\ pwm'.low = pwm.low /\ pwm'.period = pwm.period
    BY <2>1
  <2>3. angle' = angle /\ step # "pwm_init"
    BY <1>5 DEF StopChannel, StartChannel
  <2> QED BY <2>2, <2>3
<1>6. CASE SetLow
  BY SMT, <1>6, PulseFits DEF SetLow
<1> QED BY <1>1, <1>2, <1>3, <1>4, <1>5, <1>6 DEF ServoNext, Turns

LEMMA ServoInvariant == ServoSpec => []ServoInv
<1>1. ServoInit => ServoInv
  BY ServoStart, ServoAssumption
<1>2. ServoInv /\ [ServoNext]_servoVars => ServoInv'
  <2> SUFFICES ASSUME ServoInv, [ServoNext]_servoVars PROVE ServoInv'
    OBVIOUS
  <2>1. CASE ServoNext
    BY <2>1, WordsStep, PwmStep, ServoAssumption DEF ServoInv
  <2>2. CASE UNCHANGED servoVars
    BY SMT, <2>2 DEF servoVars, dataVars, taskVars, ServoInv, WordsInv, PwmInv
  <2> QED BY <2>1, <2>2
<1> QED BY <1>1, <1>2, PTL DEF ServoSpec

\* ServoTypeOK: the words keep to their 32 bits, the angle to servo_control's uint8_t, and
\* the pulse of the channel behind pwm_init (duo_pwm.c) is one a servo understands.
THEOREM ServoTypeCorrect == ServoSpec => []ServoTypeOK
<1>1. ServoInv => ServoTypeOK
  <2> SUFFICES ASSUME ServoInv PROVE ServoTypeOK
    OBVIOUS
  <2>1. gFace_data \in Words /\ face_data \in Words /\ linuxWord[2] \in ControlBits
    <3>1. foundAt[1] \in Coordinates /\ foundAt[2] \in Coordinates /\ 0 \in Nat
          /\ copiedAt[1] \in Coordinates /\ copiedAt[2] \in Coordinates
      BY SMT DEF ServoInv, WordsInv, Positions
    <3> QED BY <3>1, PackAndBack DEF ServoInv, WordsInv
  <2> QED BY SMT, <2>1 DEF ServoInv, PwmInv, ServoTypeOK
<1> QED BY <1>1, ServoInvariant, PTL

\* FollowsFace: for every position of eleven bits and whatever control_data holds, the
\* position servo_task takes is the one that mailbox_comm has sent, and a face further to
\* the right never turns the servo to the left.
THEOREM ServoFollows == ServoSpec => FollowsFace
<1>1. ASSUME ServoInv, [ServoNext]_servoVars, seenAt' # seenAt
      PROVE  /\ seenAt' = sentAt
             /\ seenAt'[1] > seenAt[1] => angle' >= Degree(seenAt[1])
  <2>1. ServoTurn
    <3>1. ServoNext
      BY <1>1 DEF servoVars, taskVars
    <3>2. ~(FaceFound \/ CopyFace \/ SendFace \/ SweepTurn)
      BY <1>1 DEF FaceFound, CopyFace, SendFace, SweepTurn, taskVars
    <3>3. ~(PwmInit \/ StopChannel \/ StartChannel \/ SetLow)
      BY <1>1 DEF PwmInit, StopChannel, StartChannel, SetLow
    <3> QED BY <3>1, <3>2, <3>3 DEF ServoNext, Turns
  <2>2. sentAt \in Positions /\ seenAt \in Positions /\ linuxWord[1] = Pack(sentAt[1], sentAt[2])
    BY SMT, <1>1 DEF ServoInv, WordsInv
  <2>3. UnpackX(linuxWord) = sentAt[1] /\ UnpackY(linuxWord) = sentAt[2]
    <3>1. sentAt[1] \in Coordinates /\ sentAt[2] \in Coordinates /\ 0 \in Nat
      BY SMT, <2>2 DEF Positions
    <3>2. Param(Pack(sentAt[1], sentAt[2]), 0)[1] = linuxWord[1]
      BY SMT, <2>2, <3>1, PackAndBack
    <3> QED BY SMT, <3>1, <3>2, PackAndBack DEF UnpackX, UnpackY
  <2>4. seenAt' = sentAt
    BY SMT, <2>1, <2>2, <2>3 DEF ServoTurn, Positions
  <2>5. angle' = Degree(seenAt'[1])
    BY <2>1 DEF ServoTurn
  <2>6. seenAt[1] \in Nat /\ seenAt'[1] \in Nat
    <3>1. seenAt[1] \in Coordinates /\ seenAt'[1] \in Coordinates
      BY SMT, <2>2, <2>4 DEF Positions
    <3> QED BY SMT, <3>1, CoordinatesAreNat
  <2>7. Degree(seenAt[1]) \in 0 .. 180 /\ Degree(seenAt'[1]) \in 0 .. 180
    BY <2>6, DegreeRises
  <2>8. seenAt'[1] > seenAt[1] => Degree(seenAt[1]) <= Degree(seenAt'[1])
    BY SMT, <2>6, DegreeRises
  <2> QED BY SMT, <2>4, <2>5, <2>7, <2>8
<1> QED BY <1>1, ServoInvariant, PTL DEF ServoSpec, FollowsFace

-----------------------------------------------------------------------------
(* CheckStack                                                              *)

\* The entries pushed are pairs of a register and a value of eight bits.
LEMMA WantedPairs ==
  ASSUME NEW i \in DOMAIN Wanted
  PROVE  /\ Wanted[i] \in Nat \X PinValues /\ Wanted[i][1] \in Pins
         /\ <<Wanted[i][1], Wanted[i][2] % 256>> = Wanted[i]
<1>1. \A v \in Bytes : v % 256 = v
  BY SMT DEF Bytes
<1>2. Wanted[i] \in Nat \X (PinValues \cap Bytes)
  BY CheckAssumption
<1>3. PICK r \in Nat, v \in PinValues \cap Bytes : Wanted[i] = <<r, v>>
  BY <1>2
<1>4. <<Wanted[i][1], Wanted[i][2] % 256>> = Wanted[i]
  BY <1>1, <1>3
<1> QED BY <1>3, <1>4 DEF Pins

\* A count of sixteen bits above zero goes down by one.
LEMMA CountsDown ==
  ASSUME NEW w \in Nat, 0 < w, w < Counts
  PROVE  (w + Counts - 1) % Counts = w - 1
<1>1. \A m \in Nat : w < m => (w + m - 1) % m = w - 1
  BY SMT
<1>2. Counts \in Nat
  BY SMT DEF Counts
<1> QED BY <1>1, <1>2

LEMMA CheckConstants ==
  /\ Len(Wanted) \in Nat /\ DOMAIN Wanted = 1 .. Len(Wanted)
  /\ StackSize \in Nat /\ MaxSwitch \in Nat /\ WaitTime \in Nat /\ 0 < WaitTime /\ WaitTime < Counts
BY SMT, CheckAssumption

\* The registers start with the least value they may hold, and there is one.
LEMMA CheckStart == CheckInit => CheckInv
<1> SUFFICES ASSUME CheckInit PROVE CheckInv
  OBVIOUS
<1>1. ASSUME NEW r \in Pins PROVE pin[r] \in PinValues
  <2>1. PinValues # {} /\ PinValues \subseteq Nat
    BY <1>1, WantedPairs, CheckAssumption DEF Pins
  <2>2. PICK v \in PinValues : \A u \in PinValues : ~(<<u, v>> \in OpToRel(<, Nat))
    BY <2>1, WFMin, NatLessThanWellFounded
  <2>3. ASSUME NEW u \in PinValues PROVE v <= u
    <3>1. ~(u < v) /\ u \in Nat /\ v \in Nat
      BY <2>1, <2>2 DEF OpToRel
    <3> QED BY SMT, <3>1
  <2> QED BY <1>1, <2>3 DEF CheckInit
<1>2. pin \in [Pins -> PinValues]
  BY <1>1 DEF CheckInit
<1>3. StageInv
  BY SMT, <1>2, CheckConstants DEF StageInv, CheckInit
<1>4. StackInv
  BY SMT, CheckConstants DEF StackInv, CheckInit
<1>5. SeenInv
  <2>1. met = {} /\ at = "push"
    BY DEF CheckInit
  <2> QED BY <2>1 DEF SeenInv
<1> QED BY <1>3, <1>4, <1>5 DEF CheckInv

\* Nothing is pushed but what is wanted, and what check_system_run has seen right is what
\* lies before the entry it looks at.
LEMMA CheckRuns ==
  ASSUME CheckInv, CheckNext
  PROVE  CheckInv'
<1> USE DEF runVars
<1>0. StackInv /\ StageInv /\ SeenInv
  BY DEF CheckInv
<1>a. Len(stack) \in Nat /\ Len(Wanted) \in Nat /\ StackSize \in Nat /\ MaxSwitch \in Nat
      /\ WaitTime \in Nat /\ 0 < WaitTime /\ WaitTime < Counts
  BY <1>0, CheckConstants DEF StackInv
<1>b. DOMAIN stack = 1 .. Len(stack) /\ DOMAIN Wanted = 1 .. Len(Wanted)
  BY <1>0, CheckConstants DEF StackInv
<1>1. CASE Switch
  <2>1. StackInv' /\ SeenInv'
    BY <1>0, <1>a, <1>1 DEF Switch, StackInv, SeenInv, Entries
  <2>2. StageInv'
    BY SMT, <1>0, <1>a, <1>1 DEF Switch, StageInv
  <2> QED BY <2>1, <2>2 DEF CheckInv
<1>2. CASE Push
  <2> DEFINE n == Len(stack) + 1
  <2>1. n \in DOMAIN Wanted /\ n <= StackSize /\ at = "push" /\ at' = "push"
    BY SMT, <1>0, <1>a, <1>2 DEF Push, HasRoom
  <2>2. stack' = Append(stack, Wanted[n]) /\ Wanted[n] \in Nat \X PinValues
    BY <1>2, <2>1, WantedPairs DEF Push
  <2>3. StackInv'
    BY SMT, <1>0, <1>a, <2>1, <2>2 DEF StackInv
  <2>4. StageInv'
    BY SMT, <1>0, <1>a, <1>2 DEF Push, StageInv
  <2>5. SeenInv'
    BY SMT, <1>0, <1>a, <1>2, <2>1 DEF Push, SeenInv
  <2> QED BY <2>3, <2>4, <2>5 DEF CheckInv
<1>3. CASE Run
  <2>1. at' = "run" /\ look' = 1 /\ met' = {} /\ waittime' = WaitTime
        /\ UNCHANGED <<pin, switches, stack, started>> /\ at \in {"push", "delay"}
        /\ (at = "push" => Len(stack) = Len(Wanted) \/ ~(Len(stack) < StackSize))
    BY SMT, <1>3 DEF Run, Delayed, HasRoom, FreshWait
  <2>2. StackInv' /\ StageInv'
    BY SMT, <1>0, <1>a, <2>1 DEF StackInv, StageInv
  <2>3. (Entries(look - 1))' = {} /\ look' <= Len(stack') + 1
    BY SMT, <1>0, <1>a, <2>1 DEF Entries
  <2>4. Len(Wanted) <= StackSize => Len(stack') = Len(Wanted)
    <3>1. Len(stack) <= Len(Wanted) /\ Len(stack) <= StackSize /\ stack' = stack
          /\ (at = "delay" => (Len(Wanted) <= StackSize => Len(stack) = Len(Wanted)))
      BY <1>0, <2>1 DEF StackInv, SeenInv
    <3> QED BY SMT, <1>a, <2>1, <3>1
  <2>5. SeenInv'
    BY SMT, <2>1, <2>3, <2>4 DEF SeenInv
  <2> QED BY <2>2, <2>5 DEF CheckInv
<1>4. CASE Right
  <2>1. look \in 1 .. Len(stack) /\ look' = look + 1 /\ met' = met \cup {stack[look][1]}
        /\ waittime' = WaitTime /\ at = "run" /\ UNCHANGED <<pin, switches, stack, at, started>>
    BY SMT, <1>0, <1>a, <1>4 DEF Right, LastEntry, FreshWait, StageInv
  <2>2. stack[look][1] \in Pins
    <3>1. stack[look] = Wanted[look] /\ look \in DOMAIN Wanted
      BY SMT, <1>0, <1>a, <2>1 DEF StackInv
    <3> QED BY <3>1, WantedPairs
  <2>3. met' = (Entries(look - 1))' /\ look' <= Len(stack') + 1
        /\ (Len(Wanted) <= StackSize => Len(stack') = Len(Wanted))
    <3>1. met = Entries(look - 1) /\ (Len(Wanted) <= StackSize => Len(stack) = Len(Wanted))
      BY <1>0, <1>a, <2>1 DEF SeenInv
    <3>2. (Entries(look - 1))' = Entries(look - 1) \cup {stack[look][1]}
      BY SMT, <1>0, <1>a, <2>1 DEF Entries
    <3> QED BY SMT, <1>0, <1>a, <2>1, <3>1, <3>2
  <2>4. StackInv' /\ StageInv'
    BY SMT, <1>0, <1>a, <2>1 DEF StackInv, StageInv
  <2>5. SeenInv'
    BY SMT, <1>0, <1>a, <2>1, <2>2, <2>3 DEF SeenInv, Pins
  <2> QED BY <2>4, <2>5 DEF CheckInv
<1>5. CASE Wrong
  <2>1. at = "run" /\ waittime \in Nat /\ 0 < waittime /\ waittime <= WaitTime
    BY SMT, <1>0, <1>a, <1>5 DEF Wrong, StageInv
  <2>2. (waittime + Counts - 1) % Counts = waittime - 1
    <3>1. waittime < Counts
      <4>1. Counts \in Nat
        BY SMT DEF Counts
      <4> QED BY SMT, <1>a, <2>1, <4>1
    <3> QED BY <2>1, <3>1, CountsDown
  <2>3. waittime' = waittime - 1 /\ at' \in {"run", "delay"} /\ (at' = "run" => waittime' # 0)
        /\ UNCHANGED <<pin, switches, stack, look, met, started>>
    BY <1>5, <2>2 DEF Wrong
  <2>4. StackInv' /\ StageInv'
    BY SMT, <1>0, <1>a, <2>1, <2>3 DEF StackInv, StageInv
  <2>5. SeenInv'
    BY <1>0, <1>a, <2>1, <2>3 DEF SeenInv, Entries
  <2> QED BY <2>4, <2>5 DEF CheckInv
<1>6. CASE Ready
  <2>1. at = "run" /\ look > Len(stack) /\ at' = "deleted" /\ started' = started + 1 /\ stack' = <<>>
        /\ UNCHANGED <<pin, switches, look, waittime, met>>
    BY <1>6 DEF Ready, LastEntry
  <2>2. met = Entries(Len(stack))
    <3>1. met = Entries(look - 1) /\ look <= Len(stack) + 1
      BY <1>0, <1>a, <2>1 DEF SeenInv
    <3>2. look - 1 = Len(stack)
      BY SMT, <1>0, <1>a, <2>1, <3>1 DEF StageInv
    <3> QED BY <3>1, <3>2
  <2>3. ASSUME Len(Wanted) <= StackSize PROVE met = Pins
    <3>1. Len(stack) = Len(Wanted)
      BY <1>0, <1>a, <2>1, <2>3 DEF SeenInv
    <3>2. \A i \in DOMAIN Wanted : stack[i] = Wanted[i]
      BY <1>0, <1>b, <3>1 DEF StackInv
    <3>3. met = {stack[i][1] : i \in DOMAIN Wanted}
      BY <1>b, <2>2, <3>1 DEF Entries
    <3> QED BY <3>2, <3>3 DEF Pins
  <2>4. StackInv' /\ StageInv'
    BY SMT, <1>0, <1>a, <2>1 DEF StackInv, StageInv
  <2>5. SeenInv'
    BY <1>0, <1>a, <2>1, <2>3 DEF SeenInv, Pins
  <2> QED BY <2>4, <2>5 DEF CheckInv
<1> QED BY <1>1, <1>2, <1>3, <1>4, <1>5, <1>6 DEF CheckNext, CheckStep

LEMMA CheckInvariant == CheckSpec => []CheckInv
<1>1. CheckInit => CheckInv
  BY CheckStart
<1>2. CheckInv /\ [CheckNext]_checkVars => CheckInv'
  <2> SUFFICES ASSUME CheckInv, [CheckNext]_checkVars PROVE CheckInv'
    OBVIOUS
  <2>1. CASE CheckNext
    BY <2>1, CheckRuns
  <2>2. CASE UNCHANGED checkVars
    BY <2>2 DEF checkVars, runVars, CheckInv, StackInv, StageInv, SeenInv, Entries, Pins
  <2> QED BY <2>1, <2>2
<1> QED BY <1>1, <1>2, PTL DEF CheckSpec

\* CheckTypeOK: check_system_push (duo_check.c) keeps to its stack and to the order of its
\* calls, and check_register never counts below zero.
THEOREM CheckTypeCorrect == CheckSpec => []CheckTypeOK
<1>1. CheckInv => CheckTypeOK
  BY DEF CheckInv, StackInv, StageInv, SeenInv, CheckTypeOK
<1> QED BY <1>1, CheckInvariant, PTL

\* SeenBefore: with a stack of CHECK_STACK_SIZE entries for all that check_task pushes, the
\* oled_task is created only behind a run of check_system_run in which every pin was seen
\* right, however many pins there are and however the big core switches them meanwhile.
THEOREM PinsSeenBefore == Len(Wanted) <= StackSize => (CheckSpec => []SeenBefore)
<1>1. Len(Wanted) <= StackSize /\ CheckInv => SeenBefore
  BY SMT DEF CheckInv, StageInv, SeenInv, SeenBefore
<1> SUFFICES ASSUME Len(Wanted) <= StackSize PROVE CheckSpec => []SeenBefore
  OBVIOUS
<1>2. CheckInv => SeenBefore
  BY <1>1
<1> QED BY <1>2, CheckInvariant, PTL

-----------------------------------------------------------------------------
(* Oled                                                                    *)

LEMMA DisplaySize ==
  /\ Columns \in Nat /\ 0 < Columns /\ Pages \in Nat /\ 0 < Pages
  /\ 0 \in Page /\ 0 \in Column
  /\ \A p \in Page : p \in Nat /\ p < Pages
  /\ \A c \in Column : c \in Nat /\ c < Columns
<1>1. Columns \in Nat /\ 0 < Columns /\ Pages \in Nat /\ 0 < Pages
  BY SMT, OledAssumption
<1> QED BY SMT, <1>1 DEF Page, Column

LEMMA OledStart == OledInit => OledInv
<1> SUFFICES ASSUME OledInit PROVE OledInv
  OBVIOUS
<1>1. OledRanges
  BY DisplaySize DEF OledInit, OledRanges
<1>2. UpdateInv /\ UpdateShows
  BY DEF OledInit, UpdateInv, UpdateShows
<1> QED BY <1>1, <1>2 DEF OledInv

\* A drawing keeps the size of the buffer, and comes between updates.
LEMMA DrawnStep ==
  ASSUME OledInv, NEW buf, Drawn(buf)
  PROVE  OledInv'
<1> USE DEF displayVars
<1>1. OledRanges'
  BY DEF Drawn, OledInv, OledRanges
<1>2. UpdateInv' /\ UpdateShows'
  BY DEF Drawn, UpdateInv, UpdateShows
<1> QED BY <1>1, <1>2 DEF OledInv

\* The commands of oled_set_cursor, each of them answered or not.
LEMMA CursorStep ==
  ASSUME OledInv, SetCursor
  PROVE  OledInv'
<1>0. OledRanges /\ UpdateInv /\ UpdateShows
  BY DEF OledInv
<1>1. PICK j \in Page, stage \in {"page", "high", "low"} : updating = <<j, stage>>
  BY <1>0 DEF SetCursor, OledRanges, Stages, NotUpdating
<1>2. PICK row \in Page, col \in Column : cursor = <<row, col>>
  BY <1>0 DEF OledRanges
<1>3. updating # NotUpdating /\ ~upToDate
  BY <1>0, <1>1 DEF NotUpdating, UpdateInv
<1>4. PICK next \in {"high", "low", "data"} :
        /\ updating' = <<j, next>>
        /\ next = "high" <=> stage = "page"
        /\ next = "low" <=> stage = "high"
  BY <1>1 DEF SetCursor
<1>5. UNCHANGED <<oled_disbuf, display, upToDate>>
  BY DEF SetCursor
<1>6. updating' \in Page \X Stages /\ updating' # NotUpdating
  BY <1>1, <1>4 DEF Stages, NotUpdating
<1>7. CASE Answered /\ cursor' = CASE stage = "page" -> <<j, col>>
                                   [] stage = "high" -> <<row, col % 16>>
                                   [] stage = "low" -> <<row, col - (col % 16)>>
  <2>1. col % 16 \in Column /\ col - (col % 16) \in Column /\ col % 16 < 16
        /\ (col < 16 => col - (col % 16) = 0)
    <3>1. \A n \in Nat : /\ n % 16 \in Nat /\ n % 16 < 16 /\ n % 16 <= n
                         /\ n < 16 => n - (n % 16) = 0
      BY SMT
    <3>2. col \in Nat /\ col < Columns /\ Columns \in Nat
      BY DisplaySize
    <3> QED BY SMT, <3>1, <3>2 DEF Column
  <2>2. whole' = whole
    BY <1>7 DEF Answered
  <2>3. whole => /\ \A p \in Page : p < j => display[p] = oled_disbuf[p]
                 /\ stage # "page" => row = j
                 /\ stage = "low" => col < 16
    BY <1>0, <1>1, <1>2, <1>3 DEF UpdateInv
  <2>4. CASE stage = "page"
    <3>1. cursor' = <<j, col>> /\ updating' = <<j, "high">>
      BY <1>4, <1>7, <2>4
    <3> QED BY <1>0, <1>3, <1>5, <1>6, <2>2, <2>3, <3>1 DEF OledInv, OledRanges, UpdateInv, UpdateShows
  <2>5. CASE stage = "high"
    <3>1. cursor' = <<row, col % 16>> /\ updating' = <<j, "low">>
      BY <1>4, <1>7, <2>5
    <3> QED BY <1>0, <1>3, <1>5, <1>6, <2>1, <2>2, <2>3, <2>5, <3>1 DEF OledInv, OledRanges, UpdateInv, UpdateShows
  <2>6. CASE stage = "low"
    <3>1. cursor' = <<row, col - (col % 16)>> /\ updating' = <<j, "data">>
      BY <1>4, <1>7, <2>6
    <3>2. whole' => row = j /\ col - (col % 16) = 0
      BY <2>1, <2>2, <2>3, <2>6
    <3> QED BY <1>0, <1>3, <1>5, <1>6, <2>1, <2>2, <2>3, <3>1, <3>2 DEF OledInv, OledRanges, UpdateInv, UpdateShows
  <2> QED BY <2>4, <2>5, <2>6
<1>8. CASE Lost /\ UNCHANGED cursor
  <2>1. whole' = FALSE
    BY <1>8 DEF Lost
  <2> QED BY <1>0, <1>3, <1>5, <1>6, <1>8, <2>1 DEF OledInv, OledRanges, UpdateInv, UpdateShows
<1>9. (Answered /\ cursor' = CASE stage = "page" -> <<j, col>>
                               [] stage = "high" -> <<row, col % 16>>
                               [] stage = "low" -> <<row, col - (col % 16)>>)
      \/ (Lost /\ UNCHANGED cursor)
  BY <1>1, <1>2 DEF SetCursor, SetPage
<1> QED BY <1>7, <1>8, <1>9

\* A page is sent: all of it to its row when the update was answered so far, or some bytes
\* of it to wherever the cursor was left.
LEMMA PageStep ==
  ASSUME OledInv, SendPage
  PROVE  OledInv'
<1>0. OledRanges /\ UpdateInv /\ UpdateShows
  BY DEF OledInv
<1>1. PICK j \in Page : updating = <<j, "data">>
  BY <1>0 DEF SendPage, OledRanges, Stages, NotUpdating
<1>2. PICK row \in Page, col \in Column : cursor = <<row, col>>
  BY <1>0 DEF OledRanges
<1>3. PICK n \in 0 .. Columns :
        /\ IF n = Columns THEN Answered ELSE Lost
        /\ display' = [display EXCEPT ![row] =
             [c \in Column |-> LET k == (c - col + Columns) % Columns
                               IN  IF k < n THEN oled_disbuf[j][k] ELSE @[c]]]
        /\ cursor' = <<row, (col + n) % Columns>>
  BY <1>1, <1>2 DEF SendPage
<1>4. updating # NotUpdating /\ ~upToDate /\ oled_disbuf' = oled_disbuf
  BY <1>0, <1>1 DEF NotUpdating, UpdateInv, SendPage
<1>5. IF j = Pages - 1 THEN updating' = NotUpdating /\ upToDate' = whole'
                       ELSE updating' = <<j + 1, "page">> /\ upToDate' = upToDate
  BY <1>1 DEF SendPage
<1>6. updating' \in (Page \X Stages) \cup {NotUpdating}
  <2>1. CASE j # Pages - 1
    <3>1. j + 1 \in Page
      BY SMT, DisplaySize, <2>1 DEF Page
    <3> QED BY <1>5, <2>1, <3>1 DEF Stages
  <2> QED BY <1>5, <2>1
<1>7. cursor' \in Page \X Column
  <2>1. (col + n) % Columns \in Column
    BY SMT, DisplaySize DEF Column
  <2> QED BY <1>3, <2>1
<1>8. /\ display' = [p \in Page |-> [c \in Column |-> display'[p][c]]]
      /\ \A p \in Page : p # row => display'[p] = display[p]
      /\ display'[row] = [c \in Column |-> LET k == (c - col + Columns) % Columns
                                           IN  IF k < n THEN oled_disbuf[j][k] ELSE display[row][c]]
  BY <1>0, <1>3 DEF OledRanges
<1>9. {whole', upToDate'} \subseteq BOOLEAN /\ (whole' => n = Columns /\ whole)
  BY <1>0, <1>3, <1>4, <1>5 DEF OledRanges, Answered, Lost
<1>10. OledRanges'
  BY <1>0, <1>4, <1>6, <1>7, <1>8, <1>9 DEF OledRanges
<1>11. ASSUME whole' PROVE \A p \in Page : p <= j => display'[p] = oled_disbuf[p]
  <2>1. n = Columns /\ row = j /\ col = 0 /\ \A p \in Page : p < j => display[p] = oled_disbuf[p]
    BY <1>0, <1>1, <1>2, <1>4, <1>9, <1>11 DEF UpdateInv
  <2>2. \A c \in Column : (c - col + Columns) % Columns = c /\ c < n
    <3>1. \A c, m \in Nat : c < m => (c - 0 + m) % m = c
      BY SMT
    <3> QED BY DisplaySize, <2>1, <3>1
  <2>3. display'[j] = [c \in Column |-> oled_disbuf[j][c]]
    BY ZenonT(60), <1>8, <2>1, <2>2
  <2>4. oled_disbuf[j] = [c \in Column |-> oled_disbuf[j][c]]
    BY <1>0 DEF OledRanges
  <2>5. \A p \in Page : p <= j => p = j \/ (p < j /\ p # j)
    BY SMT, DisplaySize
  <2> QED BY <1>8, <2>1, <2>3, <2>4, <2>5
<1>12. UpdateInv' /\ UpdateShows'
  <2>1. CASE j = Pages - 1
    <3>1. updating' = NotUpdating /\ upToDate' = whole'
      BY <1>5, <2>1
    <3>2. ASSUME upToDate' PROVE display' = oled_disbuf'
      <4>1. \A p \in Page : display'[p] = oled_disbuf[p]
        <5>1. \A p \in Page : p <= j
          BY SMT, DisplaySize, <2>1
        <5> QED BY <1>11, <3>1, <3>2, <5>1
      <4> QED BY <1>0, <1>4, <1>8, <4>1 DEF OledRanges
    <3> QED BY <3>1, <3>2 DEF UpdateInv, UpdateShows
  <2>2. CASE j # Pages - 1
    <3>1. updating' = <<j + 1, "page">> /\ ~upToDate'
      BY <1>4, <1>5, <2>2
    <3>2. \A p \in Page : p < j + 1 => p <= j
      BY SMT, DisplaySize
    <3> QED BY <1>4, <1>11, <3>1, <3>2 DEF UpdateInv, UpdateShows
  <2> QED BY <2>1, <2>2
<1> QED BY <1>10, <1>12 DEF OledInv

LEMMA OledInvariant == OledSpec => []OledInv
<1>1. OledInv /\ [OledNext]_oledVars => OledInv'
  <2> SUFFICES ASSUME OledInv, [OledNext]_oledVars PROVE OledInv'
    OBVIOUS
  <2>1. CASE oled_clear \/ oled_full
    BY <2>1, DrawnStep DEF oled_clear, oled_full
  <2>2. CASE oled_show_image
    BY <2>2, DrawnStep DEF oled_show_image
  <2>3. CASE oled_show_floatnum
    BY <2>3, DrawnStep DEF oled_show_floatnum
  <2>4. CASE oled_update
    <3>1. updating' = <<0, "page">> /\ whole' = TRUE /\ upToDate' = FALSE
          /\ UNCHANGED <<oled_disbuf, display, cursor>>
      BY <2>4 DEF oled_update
    <3>2. \A p \in Page : ~(p < 0)
      BY SMT, DisplaySize
    <3>3. UpdateInv' /\ UpdateShows'
      BY <3>1, <3>2 DEF UpdateInv, UpdateShows
    <3>4. OledRanges'
      BY <3>1, DisplaySize DEF OledInv, OledRanges, Stages
    <3> QED BY <3>3, <3>4 DEF OledInv
  <2>5. CASE SetCursor
    BY <2>5, CursorStep
  <2>6. CASE SendPage
    BY <2>6, PageStep
  <2>7. CASE UNCHANGED oledVars
    BY <2>7 DEF oledVars, OledInv, OledRanges, UpdateInv, UpdateShows
  <2> QED BY <2>1, <2>2, <2>3, <2>4, <2>5, <2>6, <2>7 DEF OledNext
<1> QED BY <1>1, OledStart, PTL DEF OledSpec

\* UpdateShows: an oled_update (duo_oled.c) of which every byte was answered brings the
\* whole buffer to the display, for every size of it, whatever images and numbers were
\* drawn and wherever the updates before left its cursor.
THEOREM UpdateShowsAll == OledSpec => []UpdateShows
<1>1. OledInv => UpdateShows
  BY DEF OledInv
<1> QED BY <1>1, OledInvariant, PTL

-----------------------------------------------------------------------------
(* Recursive functions of a number: what they are, and induction over them *)

LEMMA Induction ==
  ASSUME NEW n \in Nat, NEW T, 0 \in T, \A i \in 1 .. n : i - 1 \in T => i \in T
  PROVE  0 .. n \subseteq T
<1> DEFINE Out == {i \in 0 .. n : i \notin T}
<1>1. SUFFICES ASSUME Out # {} PROVE FALSE
  OBVIOUS
<1>2. Out \subseteq Nat
  OBVIOUS
<1>3. PICK m \in Out : \A u \in Out : ~(<<u, m>> \in OpToRel(<, Nat))
  BY <1>1, <1>2, WFMin, NatLessThanWellFounded
<1>4. m # 0 /\ m \in 1 .. n /\ m \notin T /\ m - 1 \in Nat /\ m - 1 < m
  OBVIOUS
<1>5. m - 1 \in T
  <2>1. SUFFICES ASSUME m - 1 \in Out PROVE FALSE
    BY <1>4
  <2>2. <<m - 1, m>> \in OpToRel(<, Nat)
    BY <1>2, <1>4 DEF OpToRel
  <2> QED BY <1>3, <2>1, <2>2
<1> QED BY <1>4, <1>5

\* The function f starts with base and goes on by the steps op.
GoesOn(f, n, base, op) == f[0] = base /\ \A i \in 1 .. n : f[i] = op[i][f[i - 1]]

LEMMA Recursion ==
  ASSUME NEW n \in Nat, NEW S, NEW base \in S, NEW op \in [1 .. n -> [S -> S]]
  PROVE  \E f \in [0 .. n -> S] : GoesOn(f, n, base, op)
<1> DEFINE Upto(k) == \E f \in [0 .. k -> S] : f[0] = base /\ \A i \in 1 .. k : f[i] = op[i][f[i - 1]]
           T == {k \in 0 .. n : Upto(k)}
<1>1. 0 \in T
  <2>1. PICK f \in [0 .. 0 -> S] : f = [i \in 0 .. 0 |-> base]
    OBVIOUS
  <2>2. f[0] = base /\ 0 \in 0 .. n /\ 1 .. 0 = {}
    BY <2>1
  <2> QED BY <2>2
<1>2. ASSUME NEW k \in 1 .. n, k - 1 \in T
      PROVE  k \in T
  <2>1. PICK f \in [0 .. k - 1 -> S] : f[0] = base /\ \A i \in 1 .. k - 1 : f[i] = op[i][f[i - 1]]
    BY <1>2
  <2> DEFINE g == [i \in 0 .. k |-> IF i = k THEN op[k][f[k - 1]] ELSE f[i]]
  <2>2. g \in [0 .. k -> S]
    <3>1. op[k] \in [S -> S] /\ f[k - 1] \in S
      OBVIOUS
    <3>2. op[k][f[k - 1]] \in S
      BY <3>1
    <3>3. ASSUME NEW i \in 0 .. k PROVE g[i] \in S
      BY <3>2
    <3> QED BY <3>3
  <2>3. g[0] = base
    BY <2>1
  <2>4. ASSUME NEW i \in 1 .. k PROVE g[i] = op[i][g[i - 1]]
    <3>1. CASE i = k
      BY <3>1
    <3>2. CASE i # k
      <4>1. i \in 1 .. k - 1 /\ g[i] = f[i] /\ g[i - 1] = f[i - 1]
        BY <3>2
      <4> QED BY <2>1, <4>1
    <3> QED BY <3>1, <3>2
  <2> HIDE DEF g
  <2>5. Upto(k)
    BY <2>2, <2>3, <2>4
  <2> HIDE DEF Upto
  <2> QED BY <2>5
<1> HIDE DEF T
<1>3. 0 .. n \subseteq T
  BY <1>1, <1>2, Induction
<1> QED BY <1>3 DEF T, GoesOn

-----------------------------------------------------------------------------
(* What the drawing functions leave in the buffer                          *)

Buffers == [Page -> [Column -> SUBSET (0 .. 7)]]

LEMMA ImageFits ==
  ASSUME NEW buf \in Buffers, NEW image, IsImage(image), NEW X \in Nat, NEW Y \in Nat
  PROVE  show_image(buf, X, Y, image) \in Buffers
<1>1. /\ image.w \in Nat /\ image.h \in Nat /\ Y % 8 \in 0 .. 7
      /\ \A c \in Column : c \in Nat
  BY DisplaySize DEF IsImage
<1>2. PICK shift \in 0 .. 7 : shift = Y % 8
  BY <1>1
<1>3. \A bits \in SUBSET (0 .. 7) : Stay(bits, shift) \subseteq 0 .. 7 /\ Carry(bits, shift) \subseteq 0 .. 7
  <2>1. \A b \in 0 .. 7 : (b + shift <= 7 => b + shift \in 0 .. 7) /\ (b + shift > 7 => b + shift - 8 \in 0 .. 7)
    OBVIOUS
  <2> QED BY <2>1 DEF Stay, Carry
<1> DEFINE strip(j, c) == IF j \in 0 .. (image.h - 1) \div 8 /\ c \in X .. X + image.w - 1
                            THEN image.bytes[j * image.w + (c - X) + 1] ELSE {}
           cleared == clear_area(buf, X, Y, image.w, image.h)
           pixels(p, c) == cleared[p][c] \cup Stay(strip(p - Y \div 8, c), shift) \cup Carry(strip(p - Y \div 8 - 1, c), shift)
<1>4. ASSUME NEW j, NEW c \in Column PROVE strip(j, c) \in SUBSET (0 .. 7)
  <2>1. CASE j \in 0 .. (image.h - 1) \div 8 /\ c \in X .. X + image.w - 1
    <3>1. c - X \in 0 .. image.w - 1
      BY <1>1, <2>1
    <3>2. image.bytes[j * image.w + (c - X) + 1] \subseteq 0 .. 7
      BY <2>1, <3>1 DEF IsImage
    <3> QED BY <2>1, <3>2
  <2>2. CASE ~(j \in 0 .. (image.h - 1) \div 8 /\ c \in X .. X + image.w - 1)
    BY <2>2
  <2> QED BY <2>1, <2>2
<1>5. ASSUME NEW p \in Page, NEW c \in Column PROVE cleared[p][c] \in SUBSET (0 .. 7)
  BY DEF clear_area, Buffers
<1>6. show_image(buf, X, Y, image) = [p \in Page |-> [c \in Column |-> pixels(p, c)]]
  BY <1>2 DEF show_image
<1> HIDE DEF strip, cleared
<1>7. ASSUME NEW p \in Page, NEW c \in Column PROVE pixels(p, c) \in SUBSET (0 .. 7)
  BY <1>3, <1>4, <1>5
<1> HIDE DEF pixels
<1> QED BY <1>6, <1>7 DEF Buffers

LEMMA CharFits ==
  ASSUME NEW buf \in Buffers, NEW char \in Characters, NEW X \in Nat, NEW Y \in Nat
  PROVE  show_char(buf, X, Y, char) \in Buffers
<1>1. IsImage(Font[char])
  BY OledAssumption, Zenon
<1>2. X % 256 \in Nat
  OBVIOUS
<1>3. show_image(buf, X % 256, Y, Font[char]) \in Buffers
  BY <1>1, <1>2, ImageFits, Zenon
<1> QED BY <1>3, Zenon DEF show_char

\* The powers of ten that are used.
LEMMA PowIs ==
  ASSUME NEW k \in 0 .. 10
  PROVE  oled_pow(10, k) = 10^k
<1> DEFINE Result == CHOOSE f : f = [y \in 0 .. k |-> IF y = 0 THEN 1 ELSE f[y - 1] * 10]
<1>1. oled_pow(10, k) = Result[k]
  BY DEF oled_pow
<1> HIDE DEF Result
<1>2. \E f : f = [y \in 0 .. k |-> IF y = 0 THEN 1 ELSE f[y - 1] * 10]
  <2>1. PICK op \in [1 .. k -> [Nat -> Nat]] : \A i \in 1 .. k, r \in Nat : op[i][r] = r * 10
    <3> DEFINE t == [i \in 1 .. k |-> [r \in Nat |-> r * 10]]
    <3>1. t \in [1 .. k -> [Nat -> Nat]]
      OBVIOUS
    <3>2. \A i \in 1 .. k, r \in Nat : t[i][r] = r * 10
      OBVIOUS
    <3> HIDE DEF t
    <3> QED BY <3>1, <3>2, Zenon
  <2>2. k \in Nat /\ 1 \in Nat
    OBVIOUS
  <2>3. PICK f \in [0 .. k -> Nat] : GoesOn(f, k, 1, op)
    BY <2>1, <2>2, Recursion, Zenon
  <2>4. ASSUME NEW i \in 0 .. k PROVE f[i] = IF i = 0 THEN 1 ELSE f[i - 1] * 10
    <3>1. CASE i = 0
      BY <2>3, <3>1 DEF GoesOn
    <3>2. CASE i # 0
      <4>1. i \in 1 .. k /\ i - 1 \in 0 .. k
        BY <3>2
      <4>2. f[i - 1] \in Nat
        BY <4>1, Zenon
      <4>3. f[i] = op[i][f[i - 1]]
        BY <2>3, <4>1, Zenon DEF GoesOn
      <4>4. op[i][f[i - 1]] = f[i - 1] * 10
        BY <2>1, <4>1, <4>2, Zenon
      <4> QED BY <3>2, <4>3, <4>4, Zenon
    <3> QED BY <3>1, <3>2
  <2>5. f = [i \in 0 .. k |-> f[i]]
    BY <2>3, Zenon
  <2> QED BY <2>4, <2>5, Zenon
<1>3. Result = [y \in 0 .. k |-> IF y = 0 THEN 1 ELSE Result[y - 1] * 10]
  BY <1>2, Zenon DEF Result
<1>4. Result[0] = 1 /\ \A i \in 1 .. k : Result[i] = Result[i - 1] * 10
  BY <1>3
<1>5. /\ k >= 1 => Result[1] = 10
      /\ k >= 2 => Result[2] = 100
      /\ k >= 3 => Result[3] = 1000
      /\ k >= 4 => Result[4] = 10000
      /\ k >= 5 => Result[5] = 100000
      /\ k >= 6 => Result[6] = 1000000
      /\ k >= 7 => Result[7] = 10000000
      /\ k >= 8 => Result[8] = 100000000
      /\ k >= 9 => Result[9] = 1000000000
      /\ k >= 10 => Result[10] = 10000000000
  BY <1>4
<1>6. /\ 10^0 = 1 /\ 10^1 = 10 /\ 10^2 = 100 /\ 10^3 = 1000 /\ 10^4 = 10000 /\ 10^5 = 100000
      /\ 10^6 = 1000000 /\ 10^7 = 10000000 /\ 10^8 = 100000000 /\ 10^9 = 1000000000
      /\ 10^10 = 10000000000
  OBVIOUS
<1>7. Result[0] = 10^0
  BY <1>4, <1>6
<1>8. /\ k >= 1 => Result[1] = 10^1
      /\ k >= 2 => Result[2] = 10^2
      /\ k >= 3 => Result[3] = 10^3
      /\ k >= 4 => Result[4] = 10^4
      /\ k >= 5 => Result[5] = 10^5
      /\ k >= 6 => Result[6] = 10^6
      /\ k >= 7 => Result[7] = 10^7
      /\ k >= 8 => Result[8] = 10^8
      /\ k >= 9 => Result[9] = 10^9
      /\ k >= 10 => Result[10] = 10^10
  BY <1>5, <1>6
<1>9. \A m : k = m /\ Result[m] = 10^m => oled_pow(10, k) = 10^k
  BY <1>1, Zenon
<1>10. k = 0 \/ k = 1 \/ k = 2 \/ k = 3 \/ k = 4 \/ k = 5 \/ k = 6 \/ k = 7 \/ k = 8 \/ k = 9 \/ k = 10
  OBVIOUS
<1>11. /\ k = 1 => Result[1] = 10^1
       /\ k = 2 => Result[2] = 10^2
       /\ k = 3 => Result[3] = 10^3
       /\ k = 4 => Result[4] = 10^4
       /\ k = 5 => Result[5] = 10^5
       /\ k = 6 => Result[6] = 10^6
       /\ k = 7 => Result[7] = 10^7
       /\ k = 8 => Result[8] = 10^8
       /\ k = 9 => Result[9] = 10^9
       /\ k = 10 => Result[10] = 10^10
  BY <1>8
<1> QED BY <1>7, <1>9, <1>10, <1>11, ZenonT(60)

LEMMA TenToThe ==
  \A k \in 0 .. 10 : 10^k \in Nat /\ 10^k > 0
<1> DEFINE Fine(r) == r \in Nat /\ r > 0
<1>1. Fine(10^0) /\ Fine(10^1) /\ Fine(10^2) /\ Fine(10^3) /\ Fine(10^4) /\ Fine(10^5)
  OBVIOUS
<1>2. Fine(10^6) /\ Fine(10^7) /\ Fine(10^8) /\ Fine(10^9) /\ Fine(10^10)
  OBVIOUS
<1> HIDE DEF Fine
<1>3. ASSUME NEW k \in 0 .. 10 PROVE Fine(10^k)
  <2>1. k = 0 \/ k = 1 \/ k = 2 \/ k = 3 \/ k = 4 \/ k = 5 \/ k = 6 \/ k = 7 \/ k = 8 \/ k = 9 \/ k = 10
    OBVIOUS
  <2> QED BY <1>1, <1>2, <2>1, Zenon
<1> QED BY <1>3, Zenon DEF Fine

LEMMA FontSizeIs == FontSize \in Nat
<1>1. IsImage(Font[46])
  BY OledAssumption DEF Characters
<1> QED BY <1>1 DEF FontSize, IsImage

\* The digits of a number and the buffers behind them: show_num shows one after the other.
NumDigit(number, length, i) == 48 + ((number \div oled_pow(10, length - i)) % 10)

LEMMA DigitFits ==
  ASSUME NEW number \in Nat, NEW length \in 0 .. 10, NEW i \in 1 .. length
  PROVE  NumDigit(number, length, i) \in 48 .. 57
<1>1. length - i \in 0 .. 10
  OBVIOUS
<1>2. oled_pow(10, length - i) \in Nat /\ oled_pow(10, length - i) > 0
  BY <1>1, PowIs, TenToThe
<1>3. PICK d \in Nat : d = oled_pow(10, length - i) /\ d > 0
  BY <1>2
<1>4. number \div d \in Nat
  BY <1>3
<1>5. (number \div d) % 10 \in 0 .. 9
  BY <1>4
<1> QED BY <1>3, <1>5 DEF NumDigit

Digits(F, buf, X, Y, number, length) ==
  /\ F[0] = buf /\ F[length] = show_num(buf, X, Y, number, length)
  /\ \A i \in 1 .. length :
       F[i] = show_char(F[i - 1], X + (i - 1) * FontSize, Y, NumDigit(number, length, i))

LEMMA NumIs ==
  ASSUME NEW buf \in Buffers, NEW X \in Nat, NEW Y \in Nat, NEW number \in Nat, NEW length \in 0 .. 10
  PROVE  \E F \in [0 .. length -> Buffers] : Digits(F, buf, X, Y, number, length)
<1> DEFINE after(b, i) == show_char(b, X + (i - 1) * FontSize, Y, NumDigit(number, length, i))
           shown == CHOOSE f : f = [i \in 0 .. length |-> IF i = 0 THEN buf ELSE after(f[i - 1], i)]
<1>1. show_num(buf, X, Y, number, length) = shown[length]
  BY DEF show_num, NumDigit
<1> HIDE DEF shown
<1>2. ASSUME NEW b \in Buffers, NEW i \in 1 .. length PROVE after(b, i) \in Buffers
  <2>1. NumDigit(number, length, i) \in Characters
    BY DigitFits DEF Characters
  <2>2. X + (i - 1) * FontSize \in Nat
    BY FontSizeIs
  <2> HIDE DEF Buffers
  <2> QED BY <2>1, <2>2, CharFits, Zenon
<1> HIDE DEF after
<1>3. PICK F \in [0 .. length -> Buffers] : F[0] = buf /\ \A i \in 1 .. length : F[i] = after(F[i - 1], i)
  <2> DEFINE op == [i \in 1 .. length |-> [b \in Buffers |-> after(b, i)]]
  <2>1. op \in [1 .. length -> [Buffers -> Buffers]]
    BY <1>2, Zenon
  <2>2. \A i \in 1 .. length, b \in Buffers : op[i][b] = after(b, i)
    BY Zenon
  <2>3. length \in Nat
    OBVIOUS
  <2> HIDE DEF op
  <2>4. PICK F \in [0 .. length -> Buffers] : GoesOn(F, length, buf, op)
    BY <2>1, <2>3, Recursion, Zenon
  <2>5. ASSUME NEW i \in 1 .. length PROVE F[i] = after(F[i - 1], i)
    <3>1. i - 1 \in 0 .. length
      OBVIOUS
    <3>2. F[i - 1] \in Buffers
      BY <3>1, Zenon
    <3> QED BY <2>2, <2>4, <3>2, Zenon DEF GoesOn
  <2>6. F[0] = buf
    BY <2>4, Zenon DEF GoesOn
  <2> QED BY <2>5, <2>6, Zenon
<1>4. F = [i \in 0 .. length |-> IF i = 0 THEN buf ELSE after(F[i - 1], i)]
  <2>1. ASSUME NEW i \in 0 .. length PROVE F[i] = IF i = 0 THEN buf ELSE after(F[i - 1], i)
    <3>1. i = 0 \/ i \in 1 .. length
      OBVIOUS
    <3> QED BY <1>3, <3>1, Zenon
  <2>2. F = [i \in 0 .. length |-> F[i]]
    BY <1>3, Zenon
  <2> QED BY <2>1, <2>2, Zenon
<1>5. shown = [i \in 0 .. length |-> IF i = 0 THEN buf ELSE after(shown[i - 1], i)]
  BY <1>4, Zenon DEF shown
<1> DEFINE T == {i \in 0 .. length : shown[i] = F[i]}
<1>6. 0 .. length \subseteq T
  <2>1. 0 \in T
    BY <1>3, <1>5
  <2>2. ASSUME NEW i \in 1 .. length, i - 1 \in T PROVE i \in T
    <3>1. shown[i - 1] = F[i - 1]
      BY <2>2
    <3>2. i \in 0 .. length /\ i # 0
      OBVIOUS
    <3>3. shown[i] = after(shown[i - 1], i)
      BY <1>5, <3>2, Zenon
    <3> QED BY <1>3, <3>1, <3>2, <3>3, Zenon
  <2>3. length \in Nat
    OBVIOUS
  <2> HIDE DEF T
  <2> QED BY <2>1, <2>2, <2>3, Induction, Zenon
<1>7. F[length] = shown[length]
  BY <1>6
<1> QED BY <1>1, <1>3, <1>7, Zenon DEF after, Digits

\* What show_floatnum makes of s thousandths: P-ths, U thousandths each, and what they are
\* together with the whole part.
Units(P, U) == (P = 1 /\ U = 1000) \/ (P = 10 /\ U = 100) \/ (P = 100 /\ U = 10) \/ (P = 1000 /\ U = 1)
Fraction(s, P) == ((s % 1000) * P + 500) \div 1000
Whole(s) == s \div 1000
Rounded(s, P) == Whole(s) * P + Fraction(s, P)
Tens == {1, 10, 100}
IsNear(s, U, k) == -U < 2 * (k * U - s) /\ 2 * (k * U - s) <= U
SameDigit(a, b, d) == (a \div d) % 10 = (b \div d) % 10

LEMMA Rounding ==
  ASSUME NEW s \in Nat, NEW P \in Nat, NEW U \in Nat, Units(P, U)
  PROVE  /\ Fraction(s, P) \in Nat /\ Rounded(s, P) \in 0 .. s \div U + 1 /\ IsNear(s, U, Rounded(s, P))
         /\ \A k \in 0 .. s \div U + 1 : IsNear(s, U, k) => k = Rounded(s, P)
         /\ Rounded(s, P) \in Nat /\ Rounded(s, P) \div P = Whole(s) + Fraction(s, P) \div P
         /\ Whole(s) + Fraction(s, P) \div P \in Nat
         /\ \A d \in Tens : d < P => SameDigit(Rounded(s, P), Fraction(s, P), d)
<1>0. PICK fra : fra = Fraction(s, P)
  OBVIOUS
<1>1. PICK m : m = Rounded(s, P)
  OBVIOUS
<1>2. fra = ((s % 1000) * P + 500) \div 1000 /\ m = (s \div 1000) * P + fra
  BY <1>0, <1>1 DEF Fraction, Rounded, Whole
<1> SUFFICES /\ fra \in Nat /\ m \in 0 .. s \div U + 1
             /\ -U < 2 * (m * U - s) /\ 2 * (m * U - s) <= U
             /\ \A k \in 0 .. s \div U + 1 : -U < 2 * (k * U - s) /\ 2 * (k * U - s) <= U => k = m
             /\ m \in Nat /\ m \div P = s \div 1000 + fra \div P
             /\ s \div 1000 + fra \div P \in Nat
             /\ \A d \in {1, 10, 100} : d < P => (m \div d) % 10 = (fra \div d) % 10
  BY <1>0, <1>1 DEF IsNear, SameDigit, Tens, Whole
<1>3. CASE P = 1 /\ U = 1000
  <2>1. fra = ((s % 1000) + 500) \div 1000 /\ m = s \div 1000 + fra
    BY <1>2, <1>3
  <2>2. fra \in Nat /\ m \in Nat /\ m \in 0 .. s \div 1000 + 1 /\ -1000 < 2 * (m * 1000 - s) /\ 2 * (m * 1000 - s) <= 1000
    BY <2>1
  <2>3. \A k \in Nat : -1000 < 2 * (k * 1000 - s) /\ 2 * (k * 1000 - s) <= 1000 => k = m
    BY <2>2
  <2>4. m \div 1 = s \div 1000 + fra \div 1 /\ s \div 1000 \in Nat
    BY <2>1
  <2> QED BY <1>3, <2>2, <2>3, <2>4
<1>4. CASE P = 10 /\ U = 100
  <2>1. fra = ((s % 1000) * 10 + 500) \div 1000 /\ m = (s \div 1000) * 10 + fra
    BY <1>2, <1>4
  <2>2. fra \in Nat /\ m \in Nat /\ m \in 0 .. s \div 100 + 1 /\ -100 < 2 * (m * 100 - s) /\ 2 * (m * 100 - s) <= 100
    BY <2>1
  <2>3. \A k \in Nat : -100 < 2 * (k * 100 - s) /\ 2 * (k * 100 - s) <= 100 => k = m
    BY <2>2
  <2>4. m \div 10 = s \div 1000 + fra \div 10 /\ (m \div 1) % 10 = (fra \div 1) % 10 /\ s \div 1000 \in Nat
    BY <2>1
  <2> QED BY <1>4, <2>2, <2>3, <2>4
<1>5. CASE P = 100 /\ U = 10
  <2>1. fra = ((s % 1000) * 100 + 500) \div 1000 /\ m = (s \div 1000) * 100 + fra
    BY <1>2, <1>5
  <2>2. fra \in Nat /\ m \in Nat /\ m \in 0 .. s \div 10 + 1 /\ -10 < 2 * (m * 10 - s) /\ 2 * (m * 10 - s) <= 10
    BY <2>1
  <2>3. \A k \in Nat : -10 < 2 * (k * 10 - s) /\ 2 * (k * 10 - s) <= 10 => k = m
    BY <2>2
  <2>4. m \div 100 = s \div 1000 + fra \div 100 /\ (m \div 1) % 10 = (fra \div 1) % 10 /\ s \div 1000 \in Nat
    BY <2>1
  <2>5. (m \div 10) % 10 = (fra \div 10) % 10
    BY <2>1
  <2> QED BY <1>5, <2>2, <2>3, <2>4, <2>5
<1>6. CASE P = 1000 /\ U = 1
  <2>1. fra = s % 1000 /\ m = s /\ m = (s \div 1000) * 1000 + fra
    BY <1>2, <1>6
  <2>2. fra \in Nat /\ m \in Nat /\ m \in 0 .. s \div 1 + 1 /\ -1 < 2 * (m * 1 - s) /\ 2 * (m * 1 - s) <= 1
    BY <2>1
  <2>3. \A k \in Nat : -1 < 2 * (k * 1 - s) /\ 2 * (k * 1 - s) <= 1 => k = m
    BY <2>2
  <2>4. m \div 1000 = s \div 1000 + fra \div 1000 /\ (m \div 1) % 10 = (fra \div 1) % 10 /\ s \div 1000 \in Nat
    BY <2>1
  <2>5. (m \div 10) % 10 = (fra \div 10) % 10
    BY <2>1
  <2>6. (m \div 100) % 10 = (fra \div 100) % 10
    BY <2>1
  <2> QED BY <1>6, <2>2, <2>3, <2>4, <2>5, <2>6
<1> QED BY <1>3, <1>4, <1>5, <1>6 DEF Units

\* The two numbers that show_floatnum splits a number into, and the i-th character it shows.
Size(n) == IF n < 0 THEN -n ELSE n
FraNum(n) == ((Size(n) % 1000) * oled_pow(10, FraLength) + 500) \div 1000
IntNum(n) == RoundedInt(Size(n) \div 1000, FraNum(n))
TextLength == IntLength + FraLength + 2
CharAt(n, i) ==
  IF i = 1 THEN IF n < 0 THEN 45 ELSE 43
  ELSE IF i \in 2 .. IntLength + 1 THEN NumDigit(IntNum(n), IntLength, i - 1)
  ELSE IF i = IntLength + 2 THEN 46
  ELSE NumDigit(FraNum(n), FraLength, i - IntLength - 2)

LEMMA Lengths == IntLength \in 0 .. 10 /\ FraLength \in 0 .. 3 /\ FraLength \in 0 .. 10 /\ TextLength \in Nat
<1>1. IntLength \in 0 .. 10 /\ FraLength \in 0 .. 3
  BY OledAssumption, Zenon
<1> QED BY <1>1 DEF TextLength

\* What is shown is the nearest number with so many digits behind the point: a carry into
\* the whole part included.
LEMMA RoundedRight ==
  ASSUME NEW n \in Int
  PROVE  /\ FraNum(n) \in Nat /\ IntNum(n) \in Nat /\ Pixels!Nearest(n) \in Nat
         /\ Pixels!Nearest(n) \div 10^FraLength = IntNum(n)
         /\ \A i \in 1 .. FraLength :
              (Pixels!Nearest(n) \div 10^(FraLength - i)) % 10 = (FraNum(n) \div 10^(FraLength - i)) % 10
<1>1. PICK s \in Nat : s = Size(n)
  BY DEF Size
<1>2. Pixels!Abs(n) = s
  BY <1>1 DEF Pixels!Abs, Size
<1>3. PICK P \in Nat : P = 10^FraLength /\ P > 0
  BY Lengths, TenToThe, Zenon
<1>4. oled_pow(10, FraLength) = P
  BY <1>3, Lengths, PowIs, Zenon
<1>5. 10^0 = 1 /\ 10^1 = 10 /\ 10^2 = 100 /\ 10^3 = 1000
  OBVIOUS
<1>6. FraLength = 0 \/ FraLength = 1 \/ FraLength = 2 \/ FraLength = 3
  BY Lengths
<1>7. /\ FraLength = 0 => P = 10^0
      /\ FraLength = 1 => P = 10^1
      /\ FraLength = 2 => P = 10^2
      /\ FraLength = 3 => P = 10^3
  BY <1>3, Zenon
<1>8. \/ FraLength = 0 /\ P = 1
      \/ FraLength = 1 /\ P = 10
      \/ FraLength = 2 /\ P = 100
      \/ FraLength = 3 /\ P = 1000
  <2>1. /\ FraLength = 0 => P = 1
        /\ FraLength = 1 => P = 10
        /\ FraLength = 2 => P = 100
        /\ FraLength = 3 => P = 1000
    BY <1>7
  <2> QED BY <1>6, <2>1
<1>9. PICK U \in Nat : U = 1000 \div P
  BY <1>8
<1>10. Units(P, U)
  BY <1>8, <1>9 DEF Units
<1>11. Pixels!Unit = U
  BY <1>3, <1>9 DEF Pixels!Unit
<1>12. FraNum(n) = Fraction(s, P)
  BY <1>1, <1>4 DEF FraNum, Fraction
<1>13. IntNum(n) = Whole(s) + Fraction(s, P) \div P
  BY <1>1, <1>4, <1>12 DEF IntNum, RoundedInt, Whole
<1>14. Pixels!Nearest(n) = CHOOSE k \in 0 .. s \div U + 1 : IsNear(s, U, k)
  BY <1>2, <1>11, Zenon DEF Pixels!Nearest, IsNear
<1>15. Pixels!Nearest(n) = Rounded(s, P)
  <2>1. /\ Rounded(s, P) \in 0 .. s \div U + 1 /\ IsNear(s, U, Rounded(s, P))
        /\ \A k \in 0 .. s \div U + 1 : IsNear(s, U, k) => k = Rounded(s, P)
    BY <1>10, Rounding, Zenon
  <2> QED BY <1>14, <2>1, Zenon
<1>16. ASSUME NEW i \in 1 .. FraLength
       PROVE  SameDigit(Rounded(s, P), Fraction(s, P), 10^(FraLength - i))
  <2>1. \/ FraLength - i = 0 /\ P \in {10, 100, 1000}
        \/ FraLength - i = 1 /\ P \in {100, 1000}
        \/ FraLength - i = 2 /\ P = 1000
    BY <1>8
  <2>2. PICK d : d = 10^(FraLength - i)
    OBVIOUS
  <2>3. /\ FraLength - i = 0 => d = 10^0
        /\ FraLength - i = 1 => d = 10^1
        /\ FraLength - i = 2 => d = 10^2
    BY <2>2, Zenon
  <2>4. \/ FraLength - i = 0 /\ d = 1
        \/ FraLength - i = 1 /\ d = 10
        \/ FraLength - i = 2 /\ d = 100
    <3>1. /\ FraLength - i = 0 => d = 1
          /\ FraLength - i = 1 => d = 10
          /\ FraLength - i = 2 => d = 100
      BY <2>3
    <3> QED BY <2>1, <3>1
  <2>5. d \in Tens /\ d < P
    BY <2>1, <2>4 DEF Tens
  <2>6. SameDigit(Rounded(s, P), Fraction(s, P), d)
    BY <1>10, <2>5, Rounding, Zenon
  <2> QED BY <2>2, <2>6, Zenon
<1>17. /\ Fraction(s, P) \in Nat /\ Rounded(s, P) \in Nat
       /\ Rounded(s, P) \div P = Whole(s) + Fraction(s, P) \div P
       /\ Whole(s) + Fraction(s, P) \div P \in Nat
  BY <1>10, Rounding, Zenon
<1>18. \A i \in 1 .. FraLength : SameDigit(Pixels!Nearest(n), FraNum(n), 10^(FraLength - i))
  BY <1>12, <1>15, <1>16, Zenon
<1>19. Pixels!Nearest(n) \div 10^FraLength = IntNum(n)
  BY <1>3, <1>13, <1>15, <1>17, Zenon
<1> QED BY <1>12, <1>13, <1>15, <1>17, <1>18, <1>19, Zenon DEF SameDigit

\* Text of PixelScreen, character by character.
LEMMA TextIs ==
  ASSUME NEW n \in Int
  PROVE  /\ Len(Pixels!Text(n)) = TextLength
         /\ \A i \in 1 .. TextLength : Pixels!Text(n)[i] = CharAt(n, i) /\ CharAt(n, i) \in Characters
<1> DEFINE sign == <<IF n < 0 THEN 45 ELSE 43>>
           int == [i \in 1 .. IntLength |-> NumDigit(IntNum(n), IntLength, i)]
           point == <<46>>
           fra == [i \in 1 .. FraLength |-> NumDigit(FraNum(n), FraLength, i)]
<1>1. Pixels!Text(n) = sign \o int \o point \o fra
  <2>1. \A i \in 1 .. IntLength :
          NumDigit(IntNum(n), IntLength, i) = Pixels!DigitOf(Pixels!Nearest(n) \div 10^FraLength, IntLength - i)
    <3> SUFFICES ASSUME NEW i \in 1 .. IntLength
                 PROVE  NumDigit(IntNum(n), IntLength, i)
                          = Pixels!DigitOf(Pixels!Nearest(n) \div 10^FraLength, IntLength - i)
      BY Zenon
    <3>1. IntLength - i \in 0 .. 10
      BY Lengths
    <3> QED BY <3>1, PowIs, RoundedRight, Zenon DEF NumDigit, Pixels!DigitOf
  <2>2. \A i \in 1 .. FraLength :
          NumDigit(FraNum(n), FraLength, i) = Pixels!DigitOf(Pixels!Nearest(n), FraLength - i)
    <3> SUFFICES ASSUME NEW i \in 1 .. FraLength
                 PROVE  NumDigit(FraNum(n), FraLength, i) = Pixels!DigitOf(Pixels!Nearest(n), FraLength - i)
      BY Zenon
    <3>1. FraLength - i \in 0 .. 10
      BY Lengths
    <3> QED BY <3>1, PowIs, RoundedRight, Zenon DEF NumDigit, Pixels!DigitOf
  <2> QED BY <2>1, <2>2, Zenon DEF Pixels!Text, Pixels!Plus, Pixels!Minus, Pixels!Point
<1>2. sign \in Seq(Characters) /\ Len(sign) = 1 /\ point \in Seq(Characters) /\ Len(point) = 1
  BY DEF Characters
<1>3. int \in Seq(Characters) /\ Len(int) = IntLength
  <2>1. \A i \in 1 .. IntLength : NumDigit(IntNum(n), IntLength, i) \in Characters
    BY Lengths, RoundedRight, DigitFits DEF Characters
  <2>2. int \in [1 .. IntLength -> Characters]
    BY <2>1, Zenon
  <2> HIDE DEF int
  <2> QED BY <2>2, Lengths, TableSeq
<1>4. fra \in Seq(Characters) /\ Len(fra) = FraLength
  <2>1. \A i \in 1 .. FraLength : NumDigit(FraNum(n), FraLength, i) \in Characters
    BY Lengths, RoundedRight, DigitFits DEF Characters
  <2>2. fra \in [1 .. FraLength -> Characters]
    BY <2>1, Zenon
  <2> HIDE DEF fra
  <2> QED BY <2>2, Lengths, TableSeq
<1>5. /\ sign[1] = (IF n < 0 THEN 45 ELSE 43) /\ point[1] = 46
      /\ \A i \in 1 .. IntLength : int[i] = NumDigit(IntNum(n), IntLength, i)
      /\ \A i \in 1 .. FraLength : fra[i] = NumDigit(FraNum(n), FraLength, i)
  OBVIOUS
<1> HIDE DEF sign, int, point, fra
<1>6. PICK two : two = sign \o int
  OBVIOUS
<1>7. /\ two \in Seq(Characters) /\ Len(two) = Len(sign) + Len(int)
      /\ \A i \in 1 .. Len(sign) : two[i] = sign[i]
      /\ \A i \in (Len(sign) + 1) .. (Len(sign) + Len(int)) : two[i] = int[i - Len(sign)]
  BY <1>2, <1>3, <1>6, Joined, Zenon
<1>8. /\ Len(two) = IntLength + 1 /\ two[1] = sign[1]
      /\ \A i \in 2 .. IntLength + 1 : two[i] = int[i - 1]
  BY <1>2, <1>3, <1>7, Lengths
<1>9. PICK three : three = two \o point
  OBVIOUS
<1>10. /\ three \in Seq(Characters) /\ Len(three) = Len(two) + Len(point)
       /\ \A i \in 1 .. Len(two) : three[i] = two[i]
       /\ \A i \in (Len(two) + 1) .. (Len(two) + Len(point)) : three[i] = point[i - Len(two)]
  <2>1. two \in Seq(Characters) /\ point \in Seq(Characters)
    BY <1>2, <1>7
  <2> QED BY <1>9, <2>1, Joined, Zenon
<1>11. /\ Len(three) = IntLength + 2 /\ three[1] = sign[1]
       /\ \A i \in 2 .. IntLength + 1 : three[i] = int[i - 1]
  BY <1>2, <1>8, <1>10, Lengths
<1>12. three[IntLength + 2] = point[1]
  BY <1>2, <1>8, <1>10, Lengths
<1>13. PICK t : t = three \o fra
  OBVIOUS
<1>14. /\ t \in Seq(Characters) /\ Len(t) = Len(three) + Len(fra)
       /\ \A i \in 1 .. Len(three) : t[i] = three[i]
       /\ \A i \in (Len(three) + 1) .. (Len(three) + Len(fra)) : t[i] = fra[i - Len(three)]
  <2>1. three \in Seq(Characters) /\ fra \in Seq(Characters)
    BY <1>4, <1>10
  <2> QED BY <1>13, <2>1, Joined, Zenon
<1>15. Len(t) = TextLength
  BY <1>4, <1>11, <1>14, Lengths DEF TextLength
<1>16. /\ \A i \in 1 .. IntLength + 2 : t[i] = three[i]
       /\ \A i \in IntLength + 3 .. TextLength : t[i] = fra[i - (IntLength + 2)]
  BY <1>4, <1>11, <1>14, Lengths DEF TextLength
<1>17. ASSUME NEW i \in 1 .. TextLength PROVE t[i] = CharAt(n, i)
  <2>1. i = 1 \/ i \in 2 .. IntLength + 1 \/ i = IntLength + 2 \/ i \in IntLength + 3 .. TextLength
    BY Lengths
  <2>2. CASE i = 1
    <3>1. 1 \in 1 .. IntLength + 2
      BY Lengths
    <3>2. t[1] = sign[1]
      BY <1>11, <1>16, <3>1, Zenon
    <3>3. CharAt(n, 1) = IF n < 0 THEN 45 ELSE 43
      BY DEF CharAt
    <3> QED BY <1>5, <2>2, <3>2, <3>3, Zenon
  <2>3. CASE i \in 2 .. IntLength + 1
    <3>1. i \in 1 .. IntLength + 2 /\ i - 1 \in 1 .. IntLength /\ i # 1
      BY <2>3, Lengths
    <3>2. t[i] = int[i - 1]
      BY <1>11, <1>16, <2>3, <3>1, Zenon
    <3>3. CharAt(n, i) = NumDigit(IntNum(n), IntLength, i - 1)
      BY <2>3, <3>1, Zenon DEF CharAt
    <3> QED BY <1>5, <3>1, <3>2, <3>3, Zenon
  <2>4. CASE i = IntLength + 2
    <3>1. i \in 1 .. IntLength + 2 /\ i # 1 /\ i \notin 2 .. IntLength + 1
      BY <2>4, Lengths
    <3>2. t[i] = point[1]
      BY <1>12, <1>16, <2>4, <3>1, Zenon
    <3> QED BY <1>5, <2>4, <3>1, <3>2 DEF CharAt
  <2>5. CASE i \in IntLength + 3 .. TextLength
    <3>1. /\ i - (IntLength + 2) = i - IntLength - 2 /\ i - IntLength - 2 \in 1 .. FraLength
          /\ i # 1 /\ i \notin 2 .. IntLength + 1 /\ i # IntLength + 2
      BY <2>5, Lengths DEF TextLength
    <3>2. t[i] = fra[i - IntLength - 2]
      BY <1>16, <2>5, <3>1, Zenon
    <3>3. CharAt(n, i) = NumDigit(FraNum(n), FraLength, i - IntLength - 2)
      BY <3>1 DEF CharAt
    <3> QED BY <1>5, <3>1, <3>2, <3>3, Zenon
  <2> QED BY <2>1, <2>2, <2>3, <2>4, <2>5, Zenon
<1>18. \A i \in 1 .. TextLength : t[i] \in Characters
  BY <1>14, <1>15
<1>19. Pixels!Text(n) = t
  BY <1>1, <1>6, <1>9, <1>13, Zenon
<1> QED BY <1>15, <1>17, <1>18, <1>19, Zenon

\* A number: show_floatnum shows its characters one after the other.
CharByChar(G, buf, X, Y, n) ==
  /\ G[0] = buf /\ G[TextLength] = show_floatnum(buf, X, Y, n)
  /\ \A i \in 1 .. TextLength : G[i] = show_char(G[i - 1], X + (i - 1) * FontSize, Y, CharAt(n, i))

LEMMA FloatIs ==
  ASSUME NEW buf \in Buffers, NEW X \in Nat, NEW Y \in Nat, NEW n \in Int
  PROVE  \E G \in [0 .. TextLength -> Buffers] : CharByChar(G, buf, X, Y, n)
<1> DEFINE sign == IF n < 0 THEN 45 ELSE 43
           signed == show_char(buf, X, Y, sign)
           int == show_num(signed, X + FontSize, Y, IntNum(n), IntLength)
           point == show_char(int, X + (IntLength + 1) * FontSize, Y, 46)
           fra == show_num(point, X + (IntLength + 2) * FontSize, Y, FraNum(n), FraLength)
<1>1. show_floatnum(buf, X, Y, n) = fra
  BY Zenon DEF show_floatnum, IntNum, FraNum, Size
<1>2. PICK fs \in Nat : fs = FontSize
  BY FontSizeIs
<1>3. IntNum(n) \in Nat /\ FraNum(n) \in Nat
  BY RoundedRight
<1>4. signed \in Buffers
  <2>1. sign \in Characters
    BY DEF Characters
  <2> QED BY <2>1, CharFits, Zenon
<1> HIDE DEF signed
<1>5. X + FontSize \in Nat /\ X + (IntLength + 1) * FontSize \in Nat /\ X + (IntLength + 2) * FontSize \in Nat
  BY <1>2, Lengths
<1>6. PICK A \in [0 .. IntLength -> Buffers] :
        /\ A[0] = signed /\ A[IntLength] = int
        /\ \A i \in 1 .. IntLength :
             A[i] = show_char(A[i - 1], (X + FontSize) + (i - 1) * FontSize, Y, NumDigit(IntNum(n), IntLength, i))
  <2>1. \E A \in [0 .. IntLength -> Buffers] : Digits(A, signed, X + FontSize, Y, IntNum(n), IntLength)
    BY <1>3, <1>4, <1>5, Lengths, NumIs, Zenon
  <2> QED BY <2>1, Zenon DEF Digits
<1>7. point \in Buffers
  <2>1. int \in Buffers
    <3>1. IntLength \in 0 .. IntLength
      BY Lengths
    <3> QED BY <1>6, <3>1, Zenon
  <2>2. 46 \in Characters
    BY DEF Characters
  <2> QED BY <1>5, <2>1, <2>2, CharFits, Zenon
<1> HIDE DEF int, point
<1>8. PICK B \in [0 .. FraLength -> Buffers] :
        /\ B[0] = point /\ B[FraLength] = fra
        /\ \A i \in 1 .. FraLength :
             B[i] = show_char(B[i - 1], (X + (IntLength + 2) * FontSize) + (i - 1) * FontSize, Y,
                              NumDigit(FraNum(n), FraLength, i))
  <2>1. \E B \in [0 .. FraLength -> Buffers] :
          Digits(B, point, X + (IntLength + 2) * FontSize, Y, FraNum(n), FraLength)
    BY <1>3, <1>5, <1>7, Lengths, NumIs, Zenon
  <2> QED BY <2>1, Zenon DEF Digits
<1> DEFINE G == [i \in 0 .. TextLength |->
                   IF i = 0 THEN buf ELSE IF i <= IntLength + 1 THEN A[i - 1] ELSE B[i - IntLength - 2]]
<1>9. /\ G[0] = buf
      /\ \A i \in 1 .. IntLength + 1 : G[i] = A[i - 1]
      /\ \A i \in IntLength + 2 .. TextLength : G[i] = B[i - IntLength - 2]
  BY Lengths DEF TextLength
<1>10. G \in [0 .. TextLength -> Buffers]
  <2>1. ASSUME NEW i \in 0 .. TextLength
        PROVE  (IF i = 0 THEN buf ELSE IF i <= IntLength + 1 THEN A[i - 1] ELSE B[i - IntLength - 2]) \in Buffers
    <3>1. CASE i = 0
      BY <3>1
    <3>2. CASE i # 0 /\ i <= IntLength + 1
      <4>1. i - 1 \in 0 .. IntLength
        BY <3>2, Lengths
      <4>2. A[i - 1] \in Buffers
        BY <4>1, Zenon
      <4> QED BY <3>2, <4>2, Zenon
    <3>3. CASE i # 0 /\ ~(i <= IntLength + 1)
      <4>1. i - IntLength - 2 \in 0 .. FraLength
        BY <3>3, Lengths DEF TextLength
      <4>2. B[i - IntLength - 2] \in Buffers
        BY <4>1, Zenon
      <4> QED BY <3>3, <4>2, Zenon
    <3> QED BY <3>1, <3>2, <3>3, Zenon
  <2> QED BY <2>1, Zenon
<1> HIDE DEF G
<1>11. G[TextLength] = fra
  <2>1. TextLength \in IntLength + 2 .. TextLength /\ TextLength - IntLength - 2 = FraLength
    BY Lengths DEF TextLength
  <2> QED BY <1>8, <1>9, <2>1, Zenon
<1>12. ASSUME NEW i \in 1 .. TextLength
       PROVE  G[i] = show_char(G[i - 1], X + (i - 1) * FontSize, Y, CharAt(n, i))
  <2>1. i = 1 \/ i \in 2 .. IntLength + 1 \/ i = IntLength + 2 \/ i \in IntLength + 3 .. TextLength
    BY Lengths
  <2>2. CASE i = 1
    <3>1. 1 \in 1 .. IntLength + 1 /\ 1 - 1 = 0 /\ X + 0 * fs = X
      BY Lengths
    <3>2. G[1] = signed /\ CharAt(n, 1) = sign
      BY <1>6, <1>9, <3>1, Zenon DEF CharAt
    <3> QED BY <1>2, <1>9, <2>2, <3>1, <3>2, Zenon DEF signed
  <2>3. CASE i \in 2 .. IntLength + 1
    <3>1. /\ i - 1 \in 1 .. IntLength /\ i \in 1 .. IntLength + 1 /\ i - 1 \in 1 .. IntLength + 1 /\ i # 1
          /\ X + fs + (i - 1 - 1) * fs = X + (i - 1) * fs
      BY <2>3, Lengths
    <3>2. G[i] = A[i - 1] /\ G[i - 1] = A[i - 1 - 1]
      BY <1>9, <3>1, Zenon
    <3>3. CharAt(n, i) = NumDigit(IntNum(n), IntLength, i - 1)
      BY <2>3, <3>1, Zenon DEF CharAt
    <3>4. A[i - 1] = show_char(A[i - 1 - 1], (X + fs) + (i - 1 - 1) * fs, Y, NumDigit(IntNum(n), IntLength, i - 1))
      BY <1>2, <1>6, <3>1, Zenon
    <3> QED BY <1>2, <3>1, <3>2, <3>3, <3>4, Zenon
  <2>4. CASE i = IntLength + 2
    <3>1. /\ i \in IntLength + 2 .. TextLength /\ i - IntLength - 2 = 0 /\ i # 1 /\ i \notin 2 .. IntLength + 1
          /\ i - 1 \in 1 .. IntLength + 1 /\ i - 1 - 1 = IntLength /\ i - 1 = IntLength + 1
      BY <2>4, Lengths DEF TextLength
    <3>2. G[i] = point /\ G[i - 1] = int
      BY <1>6, <1>8, <1>9, <3>1, Zenon
    <3>3. CharAt(n, i) = 46
      BY <2>4, <3>1, Zenon DEF CharAt
    <3> QED BY <3>1, <3>2, <3>3, Zenon DEF point
  <2>5. CASE i \in IntLength + 3 .. TextLength
    <3>1. /\ i - IntLength - 2 \in 1 .. FraLength /\ i \in IntLength + 2 .. TextLength
          /\ i - 1 \in IntLength + 2 .. TextLength /\ i - 1 - IntLength - 2 = i - IntLength - 2 - 1
          /\ i # 1 /\ i \notin 2 .. IntLength + 1 /\ i # IntLength + 2
      BY <2>5, Lengths DEF TextLength
    <3>2. (X + (IntLength + 2) * fs) + (i - IntLength - 2 - 1) * fs = X + (i - 1) * fs
      <4>1. i \in Nat /\ IntLength \in Nat
        BY Lengths
      <4>2. (IntLength + 2) * fs + (i - IntLength - 2 - 1) * fs = (i - 1) * fs
        BY <4>1
      <4> QED BY <4>1, <4>2
    <3>3. G[i] = B[i - IntLength - 2] /\ G[i - 1] = B[i - IntLength - 2 - 1]
      BY <1>9, <3>1, Zenon
    <3>4. CharAt(n, i) = NumDigit(FraNum(n), FraLength, i - IntLength - 2)
      BY <3>1, Zenon DEF CharAt
    <3>5. B[i - IntLength - 2]
            = show_char(B[i - IntLength - 2 - 1], (X + (IntLength + 2) * fs) + (i - IntLength - 2 - 1) * fs, Y,
                        NumDigit(FraNum(n), FraLength, i - IntLength - 2))
      BY <1>2, <1>8, <3>1, Zenon
    <3> QED BY <1>2, <3>2, <3>3, <3>4, <3>5, Zenon
  <2> QED BY <2>1, <2>2, <2>3, <2>4, <2>5, Zenon
<1> QED BY <1>1, <1>9, <1>10, <1>11, <1>12, Zenon DEF CharByChar

-----------------------------------------------------------------------------
(* The ranges of the display                                               *)

LEMMA FloatFits ==
  ASSUME NEW buf \in Buffers, NEW X \in Nat, NEW Y \in Nat, NEW n \in Int
  PROVE  show_floatnum(buf, X, Y, n) \in Buffers
<1>1. PICK G \in [0 .. TextLength -> Buffers] : CharByChar(G, buf, X, Y, n)
  BY FloatIs, Zenon
<1>2. TextLength \in 0 .. TextLength
  BY Lengths
<1> QED BY <1>1, <1>2, Zenon DEF CharByChar

LEMMA DrawnTypes ==
  ASSUME OledTypeOK, NEW buf \in Buffers, Drawn(buf)
  PROVE  OledTypeOK'
<1>1. oled_disbuf' \in Buffers
  BY DEF Drawn, Buffers
<1>2. draws' \in 0 .. MaxDraw
  BY OledAssumption DEF Drawn, OledTypeOK
<1> QED BY <1>1, <1>2 DEF Drawn, OledTypeOK, displayVars, Buffers

LEMMA DrawingTypes ==
  ASSUME OledTypeOK, oled_clear \/ oled_full \/ oled_show_image \/ oled_show_floatnum
  PROVE  OledTypeOK'
<1>1. oled_disbuf \in Buffers
  BY DEF OledTypeOK, Buffers
<1>2. [p \in Page |-> [c \in Column |-> {}]] \in Buffers /\ [p \in Page |-> [c \in Column |-> {1, 3, 5, 7}]] \in Buffers
  BY DEF Buffers
<1>3. CASE oled_clear \/ oled_full
  BY <1>2, <1>3, DrawnTypes DEF oled_clear, oled_full
<1>4. CASE oled_show_image
  <2>1. PICK image \in Images, s \in Spots : Drawn(show_image(oled_disbuf, s[1], s[2], image))
    BY <1>4 DEF oled_show_image
  <2>2. IsImage(image) /\ s[1] \in Nat /\ s[2] \in Nat
    BY OledAssumption, <2>1
  <2>3. show_image(oled_disbuf, s[1], s[2], image) \in Buffers
    BY <1>1, <2>2, ImageFits, Zenon
  <2> QED BY <2>1, <2>3, DrawnTypes, Zenon
<1>5. CASE oled_show_floatnum
  <2>1. PICK n \in Numbers, s \in Spots : Drawn(show_floatnum(oled_disbuf, s[1], s[2], n))
    BY <1>5 DEF oled_show_floatnum
  <2>2. n \in Int /\ s[1] \in Nat /\ s[2] \in Nat
    BY OledAssumption, <2>1
  <2>3. show_floatnum(oled_disbuf, s[1], s[2], n) \in Buffers
    BY <1>1, <2>2, FloatFits, Zenon
  <2> QED BY <2>1, <2>3, DrawnTypes, Zenon
<1> QED BY <1>3, <1>4, <1>5

\* No drawing, of an image or a number, leaves a bit outside a byte of the buffer, and the
\* cursor of the display stays in it, for every size of the display, image, number and spot.
THEOREM OledTypeCorrect == OledSpec => []OledTypeOK
<1>1. OledInit => OledTypeOK
  <2> SUFFICES ASSUME OledInit PROVE OledTypeOK
    OBVIOUS
  <2>1. {MaxDraw, MaxUpdate, MaxLost} \subseteq Nat
    BY OledAssumption, Zenon
  <2>2. oled_disbuf \in [Page -> [Column -> SUBSET (0 .. 7)]] /\ display \in [Page -> [Column -> SUBSET (0 .. 7)]]
    BY DEF OledInit
  <2>3. cursor \in Page \X Column /\ {whole, upToDate} \subseteq BOOLEAN
    BY DisplaySize DEF OledInit
  <2>4. updating[1] \in 0 .. Pages
    BY DisplaySize DEF OledInit, NotUpdating
  <2> QED BY <2>1, <2>2, <2>3, <2>4 DEF OledInit, OledTypeOK
<1>2. OledTypeOK /\ OledInv /\ OledInv' /\ [OledNext]_oledVars => OledTypeOK'
  <2> SUFFICES ASSUME OledTypeOK, OledInv, OledInv', [OledNext]_oledVars PROVE OledTypeOK'
    OBVIOUS
  <2>1. CASE oled_clear \/ oled_full \/ oled_show_image \/ oled_show_floatnum
    BY <2>1, DrawingTypes
  <2>2. updating \in (Page \X Stages) \cup {NotUpdating} /\ updating' \in (Page \X Stages) \cup {NotUpdating}
    BY DEF OledInv, OledRanges
  <2>3. updating'[1] \in 0 .. Pages
    BY <2>2, DisplaySize DEF NotUpdating, Page
  <2>4. cursor' \in Page \X Column /\ {whole', upToDate'} \subseteq BOOLEAN
    BY DEF OledInv, OledRanges
  <2>5. CASE oled_update
    <3>1. updates' \in 0 .. MaxUpdate
      BY <2>5, OledAssumption DEF oled_update, OledTypeOK
    <3> QED BY <2>3, <2>4, <2>5, <3>1 DEF oled_update, OledTypeOK
  <2>6. (Answered \/ Lost) => losses' \in 0 .. MaxLost
    BY OledAssumption DEF Answered, Lost, OledTypeOK
  <2>7. CASE SetCursor
    <3>1. losses' \in 0 .. MaxLost
      BY <2>6, <2>7 DEF SetCursor
    <3>2. UNCHANGED <<oled_disbuf, display, draws, updates>>
      BY <2>7 DEF SetCursor
    <3> QED BY <2>3, <2>4, <3>1, <3>2 DEF OledTypeOK
  <2>8. CASE SendPage
    <3>1. losses' \in 0 .. MaxLost
      BY <2>6, <2>8 DEF SendPage
    <3>2. UNCHANGED <<oled_disbuf, draws, updates>>
      BY <2>8 DEF SendPage
    <3>3. display' \in [Page -> [Column -> SUBSET (0 .. 7)]]
      <4>1. PICK n \in 0 .. Columns :
              display' = [display EXCEPT ![cursor[1]] =
                [c \in Column |-> LET k == (c - cursor[2] + Columns) % Columns
                                  IN  IF k < n THEN oled_disbuf[updating[1]][k] ELSE @[c]]]
        BY <2>8 DEF SendPage
      <4>2. updating[1] \in Page /\ cursor[1] \in Page /\ cursor[2] \in Column
        BY <2>2, <2>8 DEF SendPage, NotUpdating, OledTypeOK
      <4>3. \A c \in Column : (c - cursor[2] + Columns) % Columns \in Column
        BY <4>2, DisplaySize DEF Column
      <4>4. \A c \in Column : oled_disbuf[updating[1]][(c - cursor[2] + Columns) % Columns] \in SUBSET (0 .. 7)
        BY <4>2, <4>3 DEF OledTypeOK
      <4> DEFINE page == [c \in Column |-> IF (c - cursor[2] + Columns) % Columns < n
                                             THEN oled_disbuf[updating[1]][(c - cursor[2] + Columns) % Columns]
                                             ELSE display[cursor[1]][c]]
      <4>5. page \in [Column -> SUBSET (0 .. 7)]
        BY <4>2, <4>4 DEF OledTypeOK
      <4>6. display' = [display EXCEPT ![cursor[1]] = page]
        BY <4>1
      <4> HIDE DEF page
      <4> QED BY <4>5, <4>6 DEF OledTypeOK
    <3> QED BY <2>3, <2>4, <3>1, <3>2, <3>3 DEF OledTypeOK
  <2>9. CASE UNCHANGED oledVars
    BY <2>9 DEF oledVars, OledTypeOK
  <2> QED BY <2>1, <2>5, <2>7, <2>8, <2>9 DEF OledNext
<1> QED BY <1>1, <1>2, OledInvariant, PTL DEF OledSpec

-----------------------------------------------------------------------------
(* The pixels                                                              *)

\* Where the row e of an image is that starts at Y: the strip and the row of it.
LEMMA RowOfImage ==
  ASSUME NEW y \in Nat, NEW Y \in Nat
  PROVE  /\ y % 8 >= Y % 8 => /\ (y - Y) \div 8 = (y \div 8) - (Y \div 8)
                              /\ (y - Y) % 8 = (y % 8) - (Y % 8)
         /\ y % 8 < Y % 8 => /\ (y - Y) \div 8 = (y \div 8) - (Y \div 8) - 1
                             /\ (y - Y) % 8 = (y % 8) + 8 - (Y % 8)
         /\ y = 8 * (y \div 8) + (y % 8) /\ y % 8 \in 0 .. 7 /\ Y % 8 \in 0 .. 7
         /\ y \div 8 \in Nat /\ Y \div 8 \in Nat
  BY SMT

\* A row is one of the image when its strip is, as the height is a whole number of strips.
LEMMA RowInImage ==
  ASSUME NEW h \in Nat, h > 0, h % 8 = 0, NEW e \in Int
  PROVE  /\ e \in 0 .. h - 1 <=> e \div 8 \in 0 .. (h - 1) \div 8
         /\ e % 8 \in 0 .. 7
  BY SMT

\* The bits of the byte at column d of strip j; beyond the image there is none.
Strip(image, j, d) ==
  IF j \in 0 .. (image.h - 1) \div 8 /\ d \in 0 .. image.w - 1 THEN image.bytes[j * image.w + d + 1] ELSE {}

\* What a bit of the buffer comes from: the byte it stays in, or the one it is carried from.
LEMMA BitIs ==
  ASSUME NEW here \in SUBSET (0 .. 7), NEW above \in SUBSET (0 .. 7), NEW b \in 0 .. 7, NEW shift \in 0 .. 7
  PROVE  b \in Stay(here, shift) \cup Carry(above, shift)
           <=> IF b >= shift THEN b - shift \in here ELSE b + 8 - shift \in above
<1>1. b \in Stay(here, shift) <=> \E r \in here : r + shift <= 7 /\ b = r + shift
  BY DEF Stay
<1>2. b \in Carry(above, shift) <=> \E r \in above : r + shift > 7 /\ b = r + shift - 8
  BY DEF Carry
<1>3. (\E r \in here : r + shift <= 7 /\ b = r + shift) <=> b >= shift /\ b - shift \in here
  BY SMT
<1>4. (\E r \in above : r + shift > 7 /\ b = r + shift - 8) <=> b < shift /\ b + 8 - shift \in above
  BY SMT
<1> QED BY <1>1, <1>2, <1>3, <1>4

\* Pixel for pixel: what show_image leaves at column c of the row y.
LEMMA PixelOfImage ==
  ASSUME NEW buf, NEW image, IsImage(image), NEW X \in Nat, NEW Y \in Nat,
         NEW c \in Column, NEW y \in 0 .. 8 * Pages - 1
  PROVE  y % 8 \in show_image(buf, X, Y, image)[y \div 8][c]
           <=> \/ /\ y % 8 \in buf[y \div 8][c]
                  /\ ~(c \in X .. X + image.w - 1 /\ y \in Y .. Y + image.h - 1)
               \/ /\ c - X \in 0 .. image.w - 1 /\ y - Y \in 0 .. image.h - 1
                  /\ (y - Y) % 8 \in Strip(image, (y - Y) \div 8, c - X)
<1> DEFINE p == y \div 8
           b == y % 8
           j == p - Y \div 8
           d == c - X
           shift == Y % 8
           w == image.w
           h == image.h
<1>1. /\ Pages \in Nat /\ c \in Nat /\ y \in Nat /\ w \in Nat /\ h \in Nat /\ h > 0 /\ h % 8 = 0
  BY DisplaySize DEF IsImage
<1>2. /\ p \in Page /\ p \in Int /\ b \in 0 .. 7 /\ shift \in 0 .. 7 /\ y = 8 * p + b /\ j \in Int
  BY <1>1, SMT DEF Page
<1>3. d \in Int /\ (d \in 0 .. w - 1 <=> c \in X .. X + w - 1)
  BY <1>1
<1>4. \A k \in Int : Strip(image, k, d) \subseteq 0 .. 7
  BY DEF Strip, IsImage
<1>5. show_image(buf, X, Y, image)[p][c]
        = (buf[p][c] \ InArea(p, c, X, Y, w, h)) \cup Stay(Strip(image, j, d), shift)
            \cup Carry(Strip(image, j - 1, d), shift)
  BY <1>2, <1>3 DEF show_image, clear_area, Strip
<1>6. b \in InArea(p, c, X, Y, w, h) <=> c \in X .. X + w - 1 /\ y \in Y .. Y + h - 1
  BY <1>2 DEF InArea
<1>7. b \in Stay(Strip(image, j, d), shift) \cup Carry(Strip(image, j - 1, d), shift)
        <=> IF b >= shift THEN b - shift \in Strip(image, j, d) ELSE b + 8 - shift \in Strip(image, j - 1, d)
  <2>1. Strip(image, j, d) \in SUBSET (0 .. 7) /\ Strip(image, j - 1, d) \in SUBSET (0 .. 7)
    BY <1>2, <1>4
  <2> HIDE DEF b, shift, j, d
  <2> QED BY <1>2, <2>1, BitIs
<1>8. /\ b >= shift => (y - Y) \div 8 = j /\ (y - Y) % 8 = b - shift
      /\ b < shift => (y - Y) \div 8 = j - 1 /\ (y - Y) % 8 = b + 8 - shift
  BY <1>1, RowOfImage
<1>9. y - Y \in 0 .. h - 1 <=> (y - Y) \div 8 \in 0 .. (h - 1) \div 8
  BY <1>1, RowInImage
<1>10. \A k \in Int : \A x \in Strip(image, k, d) : d \in 0 .. w - 1 /\ k \in 0 .. (h - 1) \div 8
  BY DEF Strip
<1> DEFINE e == (y - Y) \div 8
           r == (y - Y) % 8
<1>11. e \in Int /\ (b >= shift => e = j /\ r = b - shift) /\ (b < shift => e = j - 1 /\ r = b + 8 - shift)
  BY <1>1, <1>2, <1>8
<1> HIDE DEF p, b, j, d, shift, w, h, e, r
<1>12. b \in Stay(Strip(image, j, d), shift) \cup Carry(Strip(image, j - 1, d), shift) <=> r \in Strip(image, e, d)
  BY <1>2, <1>7, <1>11
<1>13. r \in Strip(image, e, d) <=> d \in 0 .. w - 1 /\ y - Y \in 0 .. h - 1 /\ r \in Strip(image, e, d)
  BY <1>9, <1>10, <1>11 DEF e
<1>14. b \in show_image(buf, X, Y, image)[p][c]
         <=> \/ b \in buf[p][c] /\ ~(c \in X .. X + w - 1 /\ y \in Y .. Y + h - 1)
             \/ d \in 0 .. w - 1 /\ y - Y \in 0 .. h - 1 /\ r \in Strip(image, e, d)
  BY <1>5, <1>6, <1>12, <1>13
<1> QED BY <1>14 DEF p, b, d, w, h, e, r

\* The same of the image: which of its pixels are lit.
LEMMA LitOfImage ==
  ASSUME NEW image, IsImage(image), NEW d \in Int, NEW e \in Int
  PROVE  <<d, e>> \in PixelImage(image).lit
           <=> d \in 0 .. image.w - 1 /\ e \in 0 .. image.h - 1 /\ e % 8 \in Strip(image, e \div 8, d)
<1>1. e \in 0 .. image.h - 1 => e \div 8 \in 0 .. (image.h - 1) \div 8
  BY RowInImage DEF IsImage
<1>2. PixelImage(image).lit
        = {q \in (0 .. image.w - 1) \X (0 .. image.h - 1) :
             q[2] % 8 \in image.bytes[(q[2] \div 8) * image.w + q[1] + 1]}
  BY DEF PixelImage
<1>3. <<d, e>> \in PixelImage(image).lit
        <=> /\ d \in 0 .. image.w - 1 /\ e \in 0 .. image.h - 1
            /\ e % 8 \in image.bytes[(e \div 8) * image.w + d + 1]
  BY <1>2, Zenon
<1> QED BY <1>1, <1>3, Zenon DEF Strip

\* show_image does with the bytes of the buffer what Put of PixelScreen does with the pixels.
LEMMA ImageIsPut ==
  ASSUME NEW buf, NEW image, IsImage(image), NEW X \in Nat, NEW Y \in Nat
  PROVE  Shown(show_image(buf, X, Y, image)) = Pixels!Put(Shown(buf), <<X, Y>>, PixelImage(image))
<1> DEFINE after == show_image(buf, X, Y, image)
           put == Pixels!Put(Shown(buf), <<X, Y>>, PixelImage(image))
           lit == PixelImage(image).lit
<1>1. PixelImage(image).w = image.w /\ PixelImage(image).h = image.h
  BY DEF PixelImage
<1>2. lit \subseteq Int \X Int /\ image.w \in Nat /\ image.h \in Nat /\ Columns \in Nat /\ Pages \in Nat
  BY DisplaySize DEF PixelImage, IsImage
<1>3. ASSUME NEW c \in Column, NEW y \in 0 .. 8 * Pages - 1
      PROVE  <<c, y>> \in Shown(after) <=> <<c, y>> \in put
  <2>1. c \in Nat /\ y \in Nat /\ c - X \in Int /\ y - Y \in Int
    BY DisplaySize
  <2>2. <<c, y>> \in Shown(after) <=> y % 8 \in after[y \div 8][c]
    BY Zenon DEF Shown
  <2>3. <<c, y>> \in Shown(buf) <=> y % 8 \in buf[y \div 8][c]
    BY Zenon DEF Shown
  <2>4. <<c, y>> \in Pixels!Rect(X, Y, image.w, image.h) <=> c \in X .. X + image.w - 1 /\ y \in Y .. Y + image.h - 1
    BY Zenon DEF Pixels!Rect
  <2>5. <<c, y>> \in {<<X + p[1], Y + p[2]>> : p \in lit} <=> <<c - X, y - Y>> \in lit
    <3> HIDE DEF lit
    <3>1. ASSUME NEW p \in lit, <<c, y>> = <<X + p[1], Y + p[2]>>
          PROVE  <<c - X, y - Y>> \in lit
      <4>1. p = <<p[1], p[2]>> /\ p[1] \in Int /\ p[2] \in Int
        BY <1>2
      <4>2. c - X = p[1] /\ y - Y = p[2]
        BY <3>1, <4>1
      <4> QED BY <4>1, <4>2
    <3>2. <<c, y>> = <<X + (c - X), Y + (y - Y)>>
      BY <2>1
    <3> QED BY <3>1, <3>2
  <2>6. <<c, y>> \in Pixels!Screen
    BY DEF Pixels!Screen, Column
  <2>7. <<c, y>> \in put
          <=> \/ <<c, y>> \in Shown(buf) /\ <<c, y>> \notin Pixels!Rect(X, Y, image.w, image.h)
              \/ <<c - X, y - Y>> \in lit
    BY <1>1, <2>5, <2>6 DEF Pixels!Put
  <2>8. <<c - X, y - Y>> \in lit
          <=> c - X \in 0 .. image.w - 1 /\ y - Y \in 0 .. image.h - 1
              /\ (y - Y) % 8 \in Strip(image, (y - Y) \div 8, c - X)
    BY <2>1, LitOfImage
  <2> QED BY <2>2, <2>3, <2>4, <2>7, <2>8, PixelOfImage, Zenon
<1>4. Shown(after) \subseteq Column \X (0 .. 8 * Pages - 1) /\ Shown(buf) \subseteq Column \X (0 .. 8 * Pages - 1)
  BY DEF Shown
<1>5. Pixels!Screen = Column \X (0 .. 8 * Pages - 1)
  BY DEF Pixels!Screen, Column
<1>6. put \subseteq Column \X (0 .. 8 * Pages - 1)
  BY <1>4, <1>5, Zenon DEF Pixels!Put
<1> HIDE DEF after, put
<1>7. \A q \in Column \X (0 .. 8 * Pages - 1) : q \in Shown(after) <=> q \in put
  BY <1>3
<1>8. Shown(after) = put
  BY <1>4, <1>6, <1>7
<1> QED BY <1>8 DEF after, put

LEMMA DrawnShows ==
  ASSUME NEW buf, Drawn(buf)
  PROVE  Shown(oled_disbuf)' = Shown(buf)
<1>1. oled_disbuf' = [p \in Page |-> [c \in Column |-> buf[p][c]]]
  BY DEF Drawn
<1>2. \A y \in 0 .. 8 * Pages - 1 : y \div 8 \in Page
  BY DisplaySize, SMT DEF Page
<1>3. \A q \in Column \X (0 .. 8 * Pages - 1) : oled_disbuf'[q[2] \div 8][q[1]] = buf[q[2] \div 8][q[1]]
  BY <1>1, <1>2
<1>4. Shown(oled_disbuf)' = {q \in Column \X (0 .. 8 * Pages - 1) : q[2] % 8 \in oled_disbuf'[q[2] \div 8][q[1]]}
  BY DEF Shown, Column
<1> QED BY <1>3, <1>4, Zenon DEF Shown

LEMMA ClearAndFull ==
  /\ Shown([p \in Page |-> [c \in Column |-> {}]]) = {}
  /\ Shown([p \in Page |-> [c \in Column |-> {1, 3, 5, 7}]]) = {q \in Pixels!Screen : q[2] % 2 = 1}
<1>1. \A y \in 0 .. 8 * Pages - 1 : y \div 8 \in Page /\ (y % 8 \in {1, 3, 5, 7} <=> y % 2 = 1)
  BY DisplaySize, SMT DEF Page
<1>2. Shown([p \in Page |-> [c \in Column |-> {}]]) = {}
  BY <1>1 DEF Shown
<1>3. Shown([p \in Page |-> [c \in Column |-> {1, 3, 5, 7}]])
        = {q \in Column \X (0 .. 8 * Pages - 1) : q[2] % 8 \in {1, 3, 5, 7}}
  BY <1>1, Zenon DEF Shown
<1>4. Pixels!Screen = Column \X (0 .. 8 * Pages - 1)
  BY DEF Pixels!Screen, Column
<1> QED BY <1>1, <1>2, <1>3, <1>4

\* The images of the characters, as PixelScreen has them.
Glyphs == [char \in DOMAIN Font |-> PixelImage(Font[char])]
ThenPut(lit, spot, text, i) ==
  Pixels!Put(lit, <<spot[1] + (i - 1) * Glyphs[46].w, spot[2]>>, Glyphs[text[i]])
PutOneByOne(F, spot, text) ==
  /\ Len(text) \in Nat /\ F = [i \in 0 .. Len(text) |-> F[i]]
  /\ \A i \in 1 .. Len(text) : F[i] = ThenPut(F[i - 1], spot, text, i)
FitsFrom(X) == X + (IntLength + FraLength + 1) * FontSize < 256

LEMMA GlyphsAre ==
  /\ Glyphs[46].w = FontSize
  /\ \A char \in Characters : Glyphs[char] = PixelImage(Font[char])
<1>1. Characters \subseteq DOMAIN Font /\ 46 \in Characters
  BY OledAssumption DEF Characters
<1>2. \A char \in Characters : Glyphs[char] = PixelImage(Font[char])
  BY <1>1, Zenon DEF Glyphs
<1>3. PixelImage(Font[46]).w = Font[46].w
  BY DEF PixelImage
<1> QED BY <1>1, <1>2, <1>3, Zenon DEF FontSize

\* PutText is the last of the pictures that are put one behind the other.
LEMMA PutTextIs ==
  ASSUME NEW spot, NEW text, NEW F, PutOneByOne(F, spot, text)
  PROVE  Pixels!PutText(F[0], spot, text) = F[Len(text)]
<1> DEFINE L == Len(text)
           behind == CHOOSE f : f = [i \in 0 .. L |-> IF i = 0 THEN F[0] ELSE ThenPut(f[i - 1], spot, text, i)]
<1>1. Pixels!PutText(F[0], spot, text) = behind[L]
  BY DEF Pixels!PutText, Pixels!Point, ThenPut, Glyphs
<1>0. L \in Nat
  BY DEF PutOneByOne
<1> HIDE DEF behind, L
<1>2. F = [i \in 0 .. L |-> IF i = 0 THEN F[0] ELSE ThenPut(F[i - 1], spot, text, i)]
  <2>1. ASSUME NEW i \in 0 .. L PROVE F[i] = IF i = 0 THEN F[0] ELSE ThenPut(F[i - 1], spot, text, i)
    <3>1. i = 0 \/ i \in 1 .. L
      BY <1>0
    <3> QED BY <3>1, Zenon DEF PutOneByOne, L
  <2>2. F = [i \in 0 .. L |-> F[i]]
    BY Zenon DEF PutOneByOne, L
  <2> QED BY <2>1, <2>2, Zenon
<1>3. behind = [i \in 0 .. L |-> IF i = 0 THEN F[0] ELSE ThenPut(behind[i - 1], spot, text, i)]
  BY <1>2, Zenon DEF behind
<1> DEFINE T == {i \in 0 .. L : behind[i] = F[i]}
<1>4. 0 .. L \subseteq T
  <2>1. 0 \in T
    BY <1>0, <1>3
  <2>2. ASSUME NEW i \in 1 .. L, i - 1 \in T PROVE i \in T
    <3>1. behind[i - 1] = F[i - 1]
      BY <2>2
    <3>2. i \in 0 .. L /\ i # 0
      BY <1>0
    <3>3. behind[i] = ThenPut(behind[i - 1], spot, text, i)
      BY <1>3, <3>2, Zenon
    <3> QED BY <3>1, <3>2, <3>3, Zenon DEF PutOneByOne, L
  <2> HIDE DEF T
  <2> QED BY <1>0, <2>1, <2>2, Induction, Zenon
<1>5. L \in 0 .. L
  BY <1>0
<1> QED BY <1>1, <1>4, <1>5, Zenon DEF L

\* A number that begins so far left that its columns are counted in a byte: show_floatnum does
\* with the bytes of the buffer what PutText of PixelScreen does with the pixels.
LEMMA FloatIsPut ==
  ASSUME NEW buf \in Buffers, NEW X \in Nat, NEW Y \in Nat, NEW n \in Int,
         FitsFrom(X)
  PROVE  Shown(show_floatnum(buf, X, Y, n)) = Pixels!PutText(Shown(buf), <<X, Y>>, Pixels!Text(n))
<1>1. PICK G \in [0 .. TextLength -> Buffers] : CharByChar(G, buf, X, Y, n)
  BY FloatIs, Zenon
<1> DEFINE F == [i \in 0 .. TextLength |-> Shown(G[i])]
<1>2. F = [i \in 0 .. TextLength |-> F[i]]
  BY Zenon
<1>3. ASSUME NEW i \in 1 .. TextLength
      PROVE  F[i] = ThenPut(F[i - 1], <<X, Y>>, Pixels!Text(n), i)
  <2>1. PICK char \in Characters : char = CharAt(n, i)
    BY TextIs, Zenon
  <2>2. PICK x \in Nat : x = X + (i - 1) * FontSize
    BY FontSizeIs
  <2>3. x < 256
    <3>1. PICK fs \in Nat : fs = FontSize
      BY FontSizeIs
    <3>2. PICK k \in Nat : k = IntLength + FraLength + 1
      BY Lengths
    <3>3. i - 1 \in Nat /\ i - 1 <= k
      BY <3>2, Lengths DEF TextLength
    <3>4. PICK j \in Nat : j = i - 1
      BY <3>3
    <3>5. j <= k
      BY <3>3, <3>4
    <3>6. j * fs <= k * fs
      BY <3>5
    <3>7. X + k * fs < 256
      BY <3>1, <3>2 DEF FitsFrom
    <3>8. x = X + j * fs
      BY <2>2, <3>1, <3>4
    <3>9. j * fs \in Nat /\ k * fs \in Nat
      OBVIOUS
    <3> QED BY <3>6, <3>7, <3>8, <3>9
  <2>4. x % 256 = x
    BY <2>3
  <2>5. i \in 0 .. TextLength /\ i - 1 \in 0 .. TextLength
    BY Lengths
  <2>6. F[i] = Shown(G[i]) /\ F[i - 1] = Shown(G[i - 1])
    BY <2>5, Zenon
  <2>7. G[i] = show_image(G[i - 1], x, Y, Font[char])
    BY <1>1, <2>1, <2>2, <2>4, Zenon DEF CharByChar, show_char
  <2>8. IsImage(Font[char])
    BY OledAssumption, Zenon
  <2>9. Shown(show_image(G[i - 1], x, Y, Font[char])) = Pixels!Put(Shown(G[i - 1]), <<x, Y>>, PixelImage(Font[char]))
    BY <2>8, ImageIsPut, Zenon
  <2>10. Pixels!Text(n)[i] = char
    BY <2>1, TextIs, Zenon
  <2>11. <<X, Y>>[1] = X /\ <<X, Y>>[2] = Y
    OBVIOUS
  <2> HIDE DEF F
  <2>12. ThenPut(F[i - 1], <<X, Y>>, Pixels!Text(n), i) = Pixels!Put(Shown(G[i - 1]), <<x, Y>>, PixelImage(Font[char]))
    BY <2>2, <2>6, <2>10, <2>11, GlyphsAre, Zenon DEF ThenPut
  <2> QED BY <2>6, <2>7, <2>9, <2>12, Zenon
<1>4. F[0] = Shown(buf) /\ F[TextLength] = Shown(show_floatnum(buf, X, Y, n))
  <2>1. 0 \in 0 .. TextLength /\ TextLength \in 0 .. TextLength
    BY Lengths
  <2> QED BY <1>1, <2>1, Zenon DEF CharByChar
<1> HIDE DEF F
<1>5. Pixels!PutText(F[0], <<X, Y>>, Pixels!Text(n)) = F[TextLength]
  <2>1. TextLength \in Nat /\ Len(Pixels!Text(n)) = TextLength
    BY Lengths, TextIs, Zenon
  <2>2. PutOneByOne(F, <<X, Y>>, Pixels!Text(n))
    BY <1>2, <1>3, <2>1, Zenon DEF PutOneByOne
  <2> QED BY <2>1, <2>2, PutTextIs, Zenon
<1> QED BY <1>4, <1>5, Zenon

\* Pixel for pixel the buffer shows what was drawn last, for every size of the display, every
\* image, number and spot, rows that a page is split at and edges of the display included: as
\* long as every number fits into the 256 columns that a byte counts, the drawing functions
\* (duo_oled.c) implement PixelScreen, whatever is sent to the display in between.
THEOREM ScreenShows == TextsFit => (OledSpec => ImplementsPixels)
<1> SUFFICES ASSUME TextsFit PROVE OledSpec => ImplementsPixels
  OBVIOUS
<1>1. OledInit => Pixels!Init
  <2>1. OledInit => oled_disbuf = [p \in Page |-> [c \in Column |-> {}]]
    BY DEF OledInit
  <2> QED BY <2>1, ClearAndFull DEF Pixels!Init
<1>2. OledTypeOK /\ [OledNext]_oledVars => [Pixels!Next]_(Shown(oled_disbuf))
  <2> SUFFICES ASSUME OledTypeOK, [OledNext]_oledVars
               PROVE  Pixels!Next \/ Shown(oled_disbuf)' = Shown(oled_disbuf)
    OBVIOUS
  <2>1. CASE UNCHANGED oled_disbuf
    BY <2>1 DEF Shown, Column
  <2>2. CASE oled_clear
    <3>1. Shown(oled_disbuf)' = {}
      BY <2>2, DrawnShows, ClearAndFull DEF oled_clear
    <3> QED BY <3>1 DEF Pixels!Next, Pixels!Clear
  <2>3. CASE oled_full
    <3>1. Shown(oled_disbuf)' = {q \in Pixels!Screen : q[2] % 2 = 1}
      BY <2>3, DrawnShows, ClearAndFull DEF oled_full
    <3> QED BY <3>1 DEF Pixels!Next, Pixels!Full
  <2>4. CASE oled_show_image
    <3>1. PICK image \in Images, s \in Spots : Drawn(show_image(oled_disbuf, s[1], s[2], image))
      BY <2>4 DEF oled_show_image
    <3>2. IsImage(image) /\ s[1] \in Nat /\ s[2] \in Nat /\ s = <<s[1], s[2]>>
      BY OledAssumption, <3>1
    <3>3. Shown(oled_disbuf)' = Pixels!Put(Shown(oled_disbuf), s, PixelImage(image))
      BY <3>1, <3>2, DrawnShows, ImageIsPut
    <3>4. PixelImage(image) \in {PixelImage(i) : i \in Images}
      OBVIOUS
    <3> QED BY <3>1, <3>3, <3>4 DEF Pixels!Next, Pixels!Draw
  <2>5. CASE oled_show_floatnum
    <3>1. PICK n \in Numbers, s \in Spots : Drawn(show_floatnum(oled_disbuf, s[1], s[2], n))
      BY <2>5 DEF oled_show_floatnum
    <3>2. n \in Int /\ s[1] \in Nat /\ s[2] \in Nat /\ s = <<s[1], s[2]>>
      BY OledAssumption, <3>1
    <3>3. oled_disbuf \in Buffers
      BY DEF OledTypeOK, Buffers
    <3>4. FitsFrom(s[1])
      BY <3>1 DEF TextsFit, FitsFrom
    <3>5. Shown(show_floatnum(oled_disbuf, s[1], s[2], n))
            = Pixels!PutText(Shown(oled_disbuf), <<s[1], s[2]>>, Pixels!Text(n))
      BY <3>2, <3>3, <3>4, FloatIsPut, Zenon
    <3>6. Shown(oled_disbuf)' = Pixels!PutText(Shown(oled_disbuf), s, Pixels!Text(n))
      BY <3>1, <3>2, <3>5, DrawnShows, Zenon
    <3> QED BY <3>1, <3>6, Zenon DEF Pixels!Next, Pixels!Show
  <2>6. CASE oled_update \/ SetCursor \/ SendPage \/ UNCHANGED oledVars
    BY <2>6, <2>1 DEF oled_update, SetCursor, SendPage, oledVars
  <2> QED BY <2>2, <2>3, <2>4, <2>5, <2>6 DEF OledNext
<1> QED BY <1>1, <1>2, OledTypeCorrect, PTL DEF OledSpec, ImplementsPixels, Pixels!Spec

-----------------------------------------------------------------------------
(* The parts side by side                                                  *)

\* Each part of MCSmallCore behaves as it does alone: no other part touches its state.
LEMMA PartsAlone == MCSpec => ServoSpec /\ I2cSpec /\ CheckSpec /\ OledSpec
<1>1. MCInit => ServoInit /\ I2cInit /\ CheckInit /\ OledInit
  BY DEF MCInit
<1>2. [MCNext]_mcVars => /\ [ServoNext]_servoVars /\ [I2cNext]_i2cVars
                         /\ [CheckNext]_checkVars /\ [OledNext]_oledVars
  <2> SUFFICES ASSUME [MCNext]_mcVars
               PROVE  /\ ServoNext \/ UNCHANGED servoVars
                      /\ I2cNext \/ UNCHANGED i2cVars
                      /\ CheckNext \/ UNCHANGED checkVars
                      /\ OledNext \/ UNCHANGED oledVars
    OBVIOUS
  <2>1. CASE ServoOnly(ServoNext)
    BY <2>1 DEF ServoOnly, Follow
  <2>2. CASE I2cOnly(I2cNext)
    BY <2>2 DEF I2cOnly, Follow
  <2>3. CASE CheckOnly(CheckNext)
    BY <2>3 DEF CheckOnly, Follow
  <2>4. CASE OledOnly(OledNext)
    BY <2>4 DEF OledOnly, Follow
  <2>5. CASE Rest
    <3>1. UNCHANGED <<servoVars, i2cVars, checkVars, oledVars>>
      BY <2>5 DEF Rest, I2cOnly, CheckOnly, OledOnly, Follow
    <3> QED BY <3>1
  <2>6. CASE UNCHANGED mcVars
    BY <2>6 DEF mcVars
  <2> QED BY <2>1, <2>2, <2>3, <2>4, <2>5, <2>6 DEF MCNext
<1> QED BY <1>1, <1>2, PTL DEF MCSpec, ServoSpec, I2cSpec, CheckSpec, OledSpec

\* The state of the servo, the software I2C, the check of the pins and the display keeps its
\* type, whichever of them runs and for every value of their constants.
THEOREM SmallCoreTypes == MCSpec => []TypesOK
<1>1. ServoTypeOK /\ I2cTypeOK /\ CheckTypeOK /\ OledTypeOK => TypesOK
  BY DEF TypesOK
<1> QED BY <1>1, PartsAlone, ServoTypeCorrect, I2cTypeCorrect, CheckTypeCorrect, OledTypeCorrect, PTL
=============================================================================
