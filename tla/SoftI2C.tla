------------------------------ MODULE SoftI2C ------------------------------
(***************************************************************************)
(* freertos/duo_oled/duo_sort_i2c.c on two pins of a GPIO port, as         *)
(* duo_mpu6050.c uses it: the registers of the MPU6050 are written and     *)
(* read by toggling sda and scl.  Every write of a GPIO register is a      *)
(* step.  The device is external and follows the I2C bus: it takes a       *)
(* change of sda under a high scl for a start or a stop, and answers a     *)
(* byte, or does not.  The lines have pull-ups, and a line is low when     *)
(* one side holds it low.                                                  *)
(***************************************************************************)
EXTENDS Naturals, Sequences

CONSTANTS
  Address,    \* MPU6050_ADDR
  Registers,  \* the registers of the device
  Writes,     \* the calls <<reg, data>> of mpu6050_w_byte
  Reads,      \* the registers mpu6050_r_byte is called for
  Tries,      \* how often i2c_wait_ack may find no answer
  MaxCalls    \* bound on the calls

Byte == 0 .. 255

ASSUME I2cAssumption ==
  /\ Address \in Byte /\ Address % 2 = 0 /\ Registers \subseteq Byte
  /\ Writes \subseteq Registers \X Byte /\ Reads \subseteq Registers
  /\ Tries \in Nat /\ MaxCalls \in Nat

VARIABLES
  call,      \* the call under way, or made last
  ops,       \* what is left of it, one element per call of sda_w, scl_w and sda_r
  ddr, dr,   \* the direction and data registers of the port, per line
  errtime,   \* of i2c_wait_ack
  ret,       \* of i2c_r_byte
  calls,     \* calls so far
  answered,  \* every byte of the call found its answer
  device     \* the MPU6050

i2cVars == <<call, ops, ddr, dr, errtime, ret, calls, answered, device>>

-----------------------------------------------------------------------------
(* The MPU6050 (external)                                                  *)

BitOf(byte, i) == (byte \div 2^i) % 2

AtRest(d) == [d EXCEPT !.mode = "idle", !.stage = "address", !.byte = 0, !.count = 0, !.drive = 1]
Listen(d, stage) == [d EXCEPT !.mode = "receive", !.stage = stage, !.byte = 0, !.count = 0, !.drive = 1]
Content(d, ptr) == IF ptr \in Registers THEN d.regs[ptr] ELSE 0
Talk(d, ptr) ==
  [d EXCEPT !.mode = "send", !.stage = "data", !.byte = Content(d, ptr), !.count = 0,
            !.drive = BitOf(Content(d, ptr), 7), !.ptr = ptr]

\* The byte that was answered takes effect.
Take(d) ==
  CASE d.stage = "address" -> IF d.byte % 2 = 1 THEN Talk(d, d.ptr) ELSE Listen(d, "pointer")
    [] d.stage = "pointer" -> Listen([d EXCEPT !.ptr = d.byte], "data")
    [] d.stage = "data" ->
         Listen([d EXCEPT !.regs = [r \in Registers |-> IF r = d.ptr THEN d.byte ELSE @[r]],
                          !.ptr = (d.ptr + 1) % 256], "data")

\* scl rises over the value a of sda, and falls.
Rise(d, a) ==
  CASE d.mode = "receive" /\ d.count < 8 -> [d EXCEPT !.byte = (2 * d.byte + a) % 256, !.count = d.count + 1]
    [] d.mode = "wait" -> IF a = 1 THEN AtRest(d) ELSE [d EXCEPT !.mode = "more"]
    [] OTHER -> d

Fall(d, ok) ==
  CASE d.mode = "receive" /\ d.count = 8 ->
         IF ok /\ (d.stage = "address" => d.byte \div 2 = Address \div 2)
           THEN [d EXCEPT !.mode = "ack", !.drive = 0] ELSE AtRest(d)
    [] d.mode = "ack" -> Take(d)
    [] d.mode = "send" ->
         IF d.count = 7 THEN [d EXCEPT !.mode = "wait", !.drive = 1]
         ELSE [d EXCEPT !.count = d.count + 1, !.drive = BitOf(d.byte, 6 - d.count)]
    [] d.mode = "more" -> Talk(d, (d.ptr + 1) % 256)
    [] OTHER -> d

\* The lines go from scl = c, sda = a to scl = c1, sda = a1.
Sees(d, ok, c, a, c1, a1) ==
  CASE c = 1 /\ c1 = 1 /\ a > a1 -> Listen(d, "address")
    [] c = 1 /\ c1 = 1 /\ a < a1 -> AtRest(d)
    [] c < c1 -> Rise(d, a1)
    [] c > c1 -> Fall(d, ok)
    [] OTHER -> d

-----------------------------------------------------------------------------
(* What the functions do to the lines                                      *)

sda(bit) == <<"sda", bit>>
scl(bit) == <<"scl", bit>>
Poll == <<"poll", 1>>
Sample == <<"sample", 1>>

i2c_start == <<sda(1), scl(1), sda(0), scl(0)>>

\* A slip: scl is left as it is.
i2c_stop_LowScl == <<sda(0), sda(1)>>
i2c_stop == <<sda(0), scl(1), sda(1)>>

i2c_wait_ack == <<sda(1), scl(1), Poll>>
i2c_w_ack(ack) == <<scl(0), sda(ack), scl(1), scl(0)>>

\* The loops over the bits, from the highest: three accesses for each.
EachBit(access) == [n \in 1 .. 24 |-> access[7 - ((n - 1) \div 3)][((n - 1) % 3) + 1]]

i2c_w_byte(byte) == EachBit([i \in 0 .. 7 |-> <<sda(BitOf(byte, i)), scl(1), scl(0)>>]) \o i2c_wait_ack
i2c_r_byte(ack) == <<sda(1)>> \o EachBit([i \in 0 .. 7 |-> <<scl(1), Sample, scl(0)>>]) \o i2c_w_ack(ack)

\* A slip: the data goes out twice.
mpu6050_w_byte_Twice(reg, data) ==
  i2c_start \o i2c_w_byte(Address) \o i2c_w_byte(reg) \o i2c_w_byte(data) \o i2c_w_byte(data) \o i2c_stop
mpu6050_w_byte(reg, data) ==
  i2c_start \o i2c_w_byte(Address) \o i2c_w_byte(reg) \o i2c_w_byte(data) \o i2c_stop
mpu6050_r_byte(reg) ==
  i2c_start \o i2c_w_byte(Address) \o i2c_w_byte(reg)
  \o i2c_start \o i2c_w_byte(Address + 1) \o i2c_r_byte(1) \o i2c_stop

-----------------------------------------------------------------------------
Level(d, r, line) == IF d[line] = 1 THEN r[line] ELSE 1
Sda(d, r) == Level(d, r, "sda") * device.drive

I2cInit ==
  /\ call = <<"none", 0, 0>> /\ ops = <<>>
  /\ ddr = [sda |-> 0, scl |-> 0] /\ dr = [sda |-> 0, scl |-> 0]
  /\ errtime = 0 /\ ret = 0 /\ calls = 0 /\ answered = TRUE
  /\ device = [mode |-> "idle", stage |-> "address", byte |-> 0, count |-> 0, drive |-> 1,
               ptr |-> 0, regs |-> [r \in Registers |-> 64]]

Call(what, steps) ==
  /\ ops = <<>> /\ calls < MaxCalls
  /\ call' = what /\ ops' = steps
  /\ calls' = calls + 1 /\ ret' = 0 /\ answered' = TRUE
  /\ UNCHANGED <<ddr, dr, errtime, device>>

WriteRegister == \E w \in Writes : Call(<<"write", w[1], w[2]>>, mpu6050_w_byte(w[1], w[2]))
ReadRegister == \E r \in Reads : Call(<<"read", r, 0>>, mpu6050_r_byte(r))

SetPort(d, r) ==
  /\ ddr' = d /\ dr' = r
  /\ \E ok \in BOOLEAN :
       device' = Sees(device, ok, Level(ddr, dr, "scl"), Sda(ddr, dr), Level(d, r, "scl"), Sda(d, r))

\* gpio_w_pin makes the pin an output, with the data bit it has, and then sets the bit.
gpio_w_pin ==
  /\ ops # <<>>
  /\ LET line == Head(ops)[1]
         bit == Head(ops)[2]
     IN  /\ line \in {"sda", "scl"}
         /\ IF ddr[line] = 0
              THEN SetPort([ddr EXCEPT ![line] = 1], dr) /\ UNCHANGED ops
              ELSE SetPort(ddr, [dr EXCEPT ![line] = bit]) /\ ops' = Tail(ops)
  /\ UNCHANGED <<call, errtime, ret, calls, answered>>

\* gpio_r_pin makes the pin an input.
ReadsPin == ops # <<>> /\ SetPort([ddr EXCEPT !["sda"] = 0], dr)

SampleBit ==
  /\ ReadsPin /\ Head(ops) = Sample
  /\ ret' = 2 * ret + device.drive
  /\ ops' = Tail(ops)
  /\ UNCHANGED <<call, errtime, calls, answered>>

\* The bound of the loop of i2c_wait_ack.
GivesUp == errtime = Tries

\* The loop of i2c_wait_ack; its answer is not looked at.
WaitAck ==
  /\ ReadsPin /\ Head(ops) = Poll
  /\ \/ /\ device.drive = 0
        /\ ops' = <<scl(0)>> \o Tail(ops) /\ errtime' = 0 /\ UNCHANGED answered
     \/ /\ device.drive = 1 /\ GivesUp
        /\ ops' = i2c_stop \o Tail(ops) /\ errtime' = 0 /\ answered' = FALSE
     \/ /\ device.drive = 1 /\ ~GivesUp
        /\ errtime' = (errtime + 1) % 256 /\ UNCHANGED <<ops, answered>>
  /\ UNCHANGED <<call, ret, calls>>

I2cStep == gpio_w_pin \/ SampleBit \/ WaitAck
I2cNext == WriteRegister \/ ReadRegister \/ I2cStep

I2cSpec == I2cInit /\ [][I2cNext]_i2cVars

\* The task goes on inside a call; nobody has to call.
I2cFairSpec == I2cSpec /\ WF_i2cVars(I2cStep)

-----------------------------------------------------------------------------
Returned == ops = <<>> /\ calls > 0

\* The ranges; and the pin is read only while its data bit is set, so that making it
\* an input never moves the line.
I2cTypeOK ==
  /\ call[2] \in Byte /\ call[3] \in Byte /\ calls \in 0 .. MaxCalls /\ answered \in BOOLEAN
  /\ errtime \in 0 .. Tries /\ ret \in Byte
  /\ ddr \in [{"sda", "scl"} -> 0 .. 1] /\ dr \in [{"sda", "scl"} -> 0 .. 1]
  /\ ops # <<>> /\ Head(ops) \in {Poll, Sample} => dr["sda"] = 1
  /\ device.regs \in [Registers -> Byte] /\ device.ptr \in Byte /\ device.drive \in 0 .. 1

\* A register changes only to what the call under way writes to it, also when the
\* device leaves bytes unanswered: the stop of i2c_wait_ack and the bytes that
\* mpu6050_w_byte still sends after it make a start with a wrong address, never a write.
OnlyAsWritten ==
  [][device'.regs # device.regs =>
       call[1] = "write" /\ device'.regs = [device.regs EXCEPT ![call[2]] = call[3]]]_i2cVars

\* When a call has returned, both lines are high and the device waits for a start.
BusFree == Returned => Level(ddr, dr, "scl") = 1 /\ Sda(ddr, dr) = 1 /\ device.mode = "idle"

\* When every byte was answered the device has what mpu6050_w_byte was given, and
\* mpu6050_r_byte what the device has: each start, bit and answer is where the device looks
\* for it, in every order of calls.
WorkDone ==
  Returned /\ answered =>
    /\ call[1] = "write" => device.regs[call[2]] = call[3]
    /\ call[1] = "read" => ret = device.regs[call[2]]

\* Every call returns, with a device that answers nothing too, and then it is right.
EachCallIsRight == []<>(ops = <<>>) /\ [](BusFree /\ WorkDone)
=============================================================================
