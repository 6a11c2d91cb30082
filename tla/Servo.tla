------------------------------- MODULE Servo -------------------------------
(***************************************************************************)
(* The servo of the small core.  There are two firmwares, each with one    *)
(* task that turns one servo with pwm_init and set_angle of                *)
(* freertos/duo_pwm/duo_pwm.c: servo_task of freertos/duo_pwm follows the  *)
(* face, oled_task of Robot/comm_main.c sweeps.  The way of a face to      *)
(* servo_task: video_capture and mailbox_comm of Robot/src/main.c pack its *)
(* position into the word of a mailbox command, mailbox_task keeps the     *)
(* word, servo_task unpacks it.  set_angle stops all channels of its bank; *)
(* a firmware has but the one channel.                                     *)
(***************************************************************************)
EXTENDS Integers

CONSTANTS
  FaceX, FaceY,  \* positions of a face in the picture
  Controls,      \* what the ten bits of the uninitialized control_data may be
  SweepAngles    \* angles of oled_task's loop

\* Eleven bits for a coordinate, and ten for the control data.
Coordinates == 0 .. 2047
ControlBits == 0 .. 1023

ASSUME ServoAssumption ==
  /\ FaceX \subseteq Coordinates /\ FaceY \subseteq Coordinates /\ Controls \subseteq Nat
  /\ SweepAngles \subseteq 0 .. 179

VARIABLES
  task,         \* the task that turns the servo; it never changes
  gFace_data,   \* shared by video_capture and mailbox_comm
  face_data,    \* mailbox_comm's copy
  linuxWord,    \* gLinux_Data, shared by mailbox_task and servo_task
  foundAt, copiedAt, sentAt,  \* the positions behind these three words
  seenAt,       \* the position servo_task has read last
  angle,        \* the angle the task sets
  step,         \* where the task is
  pwm           \* the registers of its channel

dataVars == <<gFace_data, face_data, linuxWord, foundAt, copiedAt, sentAt>>
taskVars == <<task, seenAt, angle, step, pwm>>
servoVars == <<dataVars, taskVars>>

-----------------------------------------------------------------------------
\* A slip: ten bits for x.
PackTen(x, y) == 1024 * y + x
Pack(x, y) == 2048 * y + x

\* (face_data << 10) | (control_data & 0x3FF): a word of 32 bits, here as the 22 bits
\* above the lowest ten, and those ten.
Words == {n \in Nat : n < 2048 * 2048}
Param(data, control) == <<data % (2048 * 2048), control % 1024>>

\* What servo_task takes from gLinux_Data >> 10.
UnpackX(word) == word[1] % 2048
UnpackY(word) == word[1] \div 2048

Period == 5000 * 1000

\* What pwm_init writes for the low part, and the pulses a servo understands.
Pulses == {n \in Nat : 50 * 1000 <= n /\ n <= 250 * 1000}
FirstLow == 4850 * 1000

\* The low part of the period for an angle.
LowLevel(degree) == (degree * 200 * 1000) \div 180 + 4750 * 1000

NoLimit(degree) == degree
Limit(degree) == IF degree < 0 THEN 0 ELSE IF degree > 180 THEN 180 ELSE degree

\* The distance from the middle in 640ths.
Offset(x) == x - 640

\* servo_control: abs takes the offset to an integer, so that everything short of the
\* edges of a picture of 1280 is in the dead block.
Degree(x) ==
  LET offset == IF Offset(x) \in -639 .. 639 THEN 0 ELSE Offset(x)
  IN  Limit(90 + (50 * offset) \div 640)

-----------------------------------------------------------------------------
ServoInit ==
  /\ task \in {"servo_task", "oled_task"}
  /\ gFace_data = 0 /\ face_data = 0 /\ linuxWord = <<0, 0>>
  /\ foundAt = <<0, 0>> /\ copiedAt = <<0, 0>> /\ sentAt = <<0, 0>> /\ seenAt = <<0, 0>>
  /\ angle = 90 /\ step = "pwm_init"
  /\ pwm = [start |-> FALSE, oe |-> FALSE, low |-> 0, period |-> 0]

FaceFound ==
  /\ \E x \in FaceX, y \in FaceY : gFace_data' = Pack(x, y) /\ foundAt' = <<x, y>>
  /\ UNCHANGED <<face_data, linuxWord, copiedAt, sentAt, taskVars>>

\* mailbox_comm copies the word under the mutex,
CopyFace ==
  /\ face_data' = gFace_data /\ copiedAt' = foundAt
  /\ UNCHANGED <<gFace_data, linuxWord, foundAt, sentAt, taskVars>>

\* and sends it, once or again; mailbox_task keeps what arrives.
SendFace ==
  /\ \E control \in Controls : linuxWord' = Param(face_data, control)
  /\ sentAt' = copiedAt
  /\ UNCHANGED <<gFace_data, face_data, foundAt, copiedAt, taskVars>>

-----------------------------------------------------------------------------
Goes(from, to) == step = from /\ step' = to

PwmInit ==
  /\ Goes("pwm_init", "rest")
  /\ pwm' = [start |-> TRUE, oe |-> TRUE, low |-> FirstLow, period |-> Period]
  /\ UNCHANGED <<dataVars, task, seenAt, angle>>

\* A slip: the angle adds up, as if servo_control kept its result in last_degree.
ServoTurnAddsUp ==
  /\ task = "servo_task" /\ Goes("rest", "set_angle")
  /\ seenAt' = <<UnpackX(linuxWord), UnpackY(linuxWord)>>
  /\ angle' = Limit(angle + Degree(seenAt'[1]) - 90)
  /\ UNCHANGED <<dataVars, task, pwm>>
\* A turn of servo_task: it reads the word and computes the angle.
ServoTurn ==
  /\ task = "servo_task" /\ Goes("rest", "set_angle")
  /\ seenAt' = <<UnpackX(linuxWord), UnpackY(linuxWord)>>
  /\ angle' = Degree(seenAt'[1])
  /\ UNCHANGED <<dataVars, task, pwm>>

\* A turn of the loop of oled_task.
SweepTurn ==
  /\ task = "oled_task" /\ Goes("rest", "set_angle")
  /\ angle' \in SweepAngles
  /\ UNCHANGED <<dataVars, task, seenAt, pwm>>

\* set_angle stops the channel, starts it, and sets the low part of its period.
StopChannel ==
  /\ Goes("set_angle", "stopped") /\ pwm' = [pwm EXCEPT !.start = FALSE]
  /\ UNCHANGED <<dataVars, task, seenAt, angle>>

StartChannel ==
  /\ Goes("stopped", "started") /\ pwm' = [pwm EXCEPT !.start = TRUE]
  /\ UNCHANGED <<dataVars, task, seenAt, angle>>

SetLow ==
  /\ Goes("started", "rest") /\ pwm' = [pwm EXCEPT !.low = LowLevel(angle)]
  /\ UNCHANGED <<dataVars, task, seenAt, angle>>

Turns == PwmInit \/ ServoTurn \/ SweepTurn \/ StopChannel \/ StartChannel \/ SetLow

ServoNext == FaceFound \/ CopyFace \/ SendFace \/ Turns

ServoSpec == ServoInit /\ [][ServoNext]_servoVars

-----------------------------------------------------------------------------
\* The ranges: the angle fits the uint8_t of servo_control, and a pulse is between
\* 0.5 and 2.5 parts of the 50 the period has, as a servo wants it.
ServoTypeOK ==
  /\ {gFace_data, face_data} \subseteq Words /\ linuxWord[2] \in ControlBits
  /\ angle \in 0 .. 255
  /\ step # "pwm_init" => pwm.period - pwm.low \in Pulses

\* A turn of servo_task takes the position the big core has sent, whatever the control bits
\* are: the shifts and masks of the two programs match.  And a face further to the right
\* never turns the servo to the left.
FollowsFace ==
  [][seenAt' # seenAt =>
       /\ seenAt' = sentAt
       /\ seenAt'[1] > seenAt[1] => angle' >= Degree(seenAt[1])]_servoVars

\* When the face rests, the servo comes to rest: from some time on the low part of
\* servo_task's channel is the one of the last position found, for good, and the channel
\* runs again after each set_angle, through the copies of mailbox_comm and mailbox_task
\* that are old when they are used.
ServoSettles ==
  \A x \in FaceX :
    <>[](task = "servo_task" /\ step # "pwm_init" /\ foundAt[1] = x)
      => <>[](pwm.low = LowLevel(Degree(x))) /\ []<>pwm.start

-----------------------------------------------------------------------------
(* The inductive invariant behind the first two (SmallCoreProofs)          *)

\* The words carry the positions kept beside them.
Positions == Coordinates \X Coordinates
WordsInv ==
  /\ {foundAt, copiedAt, sentAt, seenAt} \subseteq Positions
  /\ gFace_data = Pack(foundAt[1], foundAt[2]) /\ face_data = Pack(copiedAt[1], copiedAt[2])
  /\ linuxWord[1] = Pack(sentAt[1], sentAt[2]) /\ linuxWord[2] \in ControlBits

\* The pulse is one of an angle, or the first.
PwmInv ==
  /\ angle \in 0 .. 180
  /\ pwm \in [start : BOOLEAN, oe : BOOLEAN, low : Int, period : Int]
  /\ step # "pwm_init" => pwm.period = Period /\ Period - pwm.low \in Pulses

ServoInv == WordsInv /\ PwmInv
=============================================================================
