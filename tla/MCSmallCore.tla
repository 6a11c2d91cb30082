---------------------------- MODULE MCSmallCore ----------------------------
(* Four parts of the small core that share no state, side by side: a behaviour follows *)
(* one of them, and the others keep their initial state.                               *)
EXTENDS Servo, SoftI2C, CheckStack, Oled

VARIABLE subject

mcVars == <<subject, servoVars, i2cVars, checkVars, oledVars>>

\* Two of the calls of mpu6050_init.
MCWrites == {<<107, 1>>, <<28, 24>>}

\* check_task: PINMUX_GP0, PINMUX_GP1 and PINMUX_GP2.
MCWanted == <<<<0, 3>>, <<1, 3>>, <<2, 7>>>>

\* A font of one column, where a character is its code, an image over two pages, and two
\* spots, one at the edge.
MCFont == [char \in {43, 45, 46} \cup 48 .. 57 |->
            [w |-> 1, h |-> 8, bytes |-> <<{b \in 0 .. 7 : BitOf(char, b) = 1}>>]]
MCImages == {[w |-> 2, h |-> 16, bytes |-> <<{0, 7}, {1}, {}, {0, 6}>>]}
MCSpots == {<<1, 1>>, <<7, 11>>}
MCNumbers == {-9960, 1250, 30}

Follow(part, A, others) == subject = part /\ A /\ UNCHANGED <<subject, others>>
ServoOnly(A) == Follow("servo", A, <<i2cVars, checkVars, oledVars>>)
I2cOnly(A) == Follow("i2c", A, <<servoVars, checkVars, oledVars>>)
CheckOnly(A) == Follow("check", A, <<servoVars, i2cVars, oledVars>>)
OledOnly(A) == Follow("oled", A, <<servoVars, i2cVars, checkVars>>)

MCInit ==
  /\ ServoInit /\ I2cInit /\ CheckInit /\ OledInit
  /\ subject \in {"servo", "i2c", "check", "oled"}

\* The calls are used up, or the task is deleted and the pins are left.
Rest ==
  \/ I2cOnly(ops = <<>> /\ calls = MaxCalls /\ UNCHANGED i2cVars)
  \/ CheckOnly(at = "deleted" /\ switches = MaxSwitch /\ UNCHANGED checkVars)
  \/ OledOnly(draws = MaxDraw /\ updates = MaxUpdate /\ updating = NotUpdating /\ UNCHANGED oledVars)

MCNext ==
  \/ ServoOnly(ServoNext) \/ I2cOnly(I2cNext) \/ CheckOnly(CheckNext) \/ OledOnly(OledNext)
  \/ Rest

\* What is fair: mailbox_comm goes on copying and sending, and the tasks run.
MCFairness ==
  /\ WF_mcVars(ServoOnly(CopyFace)) /\ WF_mcVars(ServoOnly(SendFace)) /\ WF_mcVars(ServoOnly(Turns))
  /\ WF_mcVars(I2cOnly(I2cStep)) /\ WF_mcVars(CheckOnly(CheckStep))

MCSpec == MCInit /\ [][MCNext]_mcVars /\ MCFairness

\* The state of each part has its type.
TypesOK == ServoTypeOK /\ I2cTypeOK /\ CheckTypeOK /\ OledTypeOK
=============================================================================
