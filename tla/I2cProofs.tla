----------------------------- MODULE I2cProofs ------------------------------
(***************************************************************************)
(* Theorems about SoftI2C: where a call is in its pin accesses, and what   *)
(* the lines and the device are there.                                     *)
(***************************************************************************)
EXTENDS SoftI2C, SequenceTheorems, TLAPS

-----------------------------------------------------------------------------
(* Where a call is                                                         *)

Modes == {"idle", "receive", "ack", "send", "wait", "more"}
Accesses == ({"sda", "scl"} \X (0 .. 1)) \cup {Poll, Sample}

\* The functions a call of mpu6050_w_byte or mpu6050_r_byte calls one after the other.
Kinds(c) ==
  IF c[1] = "write" THEN <<"start", "byte", "byte", "byte", "stop">>
  ELSE <<"start", "byte", "byte", "start", "byte", "read", "stop">>
ByteOf(c, j) ==
  CASE j = 2 -> Address [] j = 3 -> c[2] [] j = 4 -> c[3] [] OTHER -> Address + 1
StageOf(j) == CASE j = 3 -> "pointer" [] j = 4 -> "data" [] OTHER -> "address"
Fun(c, j) ==
  CASE Kinds(c)[j] = "start" -> i2c_start
    [] Kinds(c)[j] = "byte" -> i2c_w_byte(ByteOf(c, j))
    [] Kinds(c)[j] = "read" -> i2c_r_byte(1)
    [] Kinds(c)[j] = "stop" -> i2c_stop

\* The accesses behind the j-th function.
Then(f, t) == f \o t
Behind(c, j) ==
  IF c[1] = "write"
    THEN CASE j = 1 -> Then(Fun(c, 2), Then(Fun(c, 3), Then(Fun(c, 4), Fun(c, 5))))
           [] j = 2 -> Then(Fun(c, 3), Then(Fun(c, 4), Fun(c, 5)))
           [] j = 3 -> Then(Fun(c, 4), Fun(c, 5))
           [] j = 4 -> Fun(c, 5)
           [] j = 5 -> <<>>
    ELSE CASE j = 1 -> Then(Fun(c, 2), Then(Fun(c, 3), Then(Fun(c, 4), Then(Fun(c, 5), Then(Fun(c, 6), Fun(c, 7))))))
           [] j = 2 -> Then(Fun(c, 3), Then(Fun(c, 4), Then(Fun(c, 5), Then(Fun(c, 6), Fun(c, 7)))))
           [] j = 3 -> Then(Fun(c, 4), Then(Fun(c, 5), Then(Fun(c, 6), Fun(c, 7))))
           [] j = 4 -> Then(Fun(c, 5), Then(Fun(c, 6), Fun(c, 7)))
           [] j = 5 -> Then(Fun(c, 6), Fun(c, 7))
           [] j = 6 -> Fun(c, 7)
           [] j = 7 -> <<>>

\* f from its n-th access on, and then t.
From(f, n, t) == SubSeq(f, n, Len(f)) \o t

-----------------------------------------------------------------------------
(* The lines and the device                                                *)

SdaIs(v) == ddr["sda"] = 1 /\ dr["sda"] = v
SclIs(v) == ddr["scl"] = 1 /\ dr["scl"] = v
SdaSafe == ddr["sda"] = 0 => dr["sda"] = 1

\* The upper k bits of a byte.
Top(b, k) == b \div 2^(8 - k)

Idle == device.mode = "idle" /\ device.drive = 1
Hears(stage, k, b) ==
  /\ device.mode = "receive" /\ device.stage = stage /\ device.count = k
  /\ device.byte = b /\ device.drive = 1
Fresh == device.mode = "receive" /\ device.count = 0 /\ device.drive = 1
Sends(k) == device.mode = "send" /\ device.count = k /\ device.drive = BitOf(device.byte, 7 - k)
Answers(stage, b) ==
  device.mode = "ack" /\ device.stage = stage /\ device.byte = b /\ device.drive = 0

\* A byte was not answered: the lines are high, and the device waits for a start.
Unanswered == ~answered /\ SclIs(1) /\ dr["sda"] = 1 /\ Idle

\* Nobody gave up in this call; a read may go on behind its second start.
Heard == call[1] = "write" => answered

\* What was reached before function j.
Known(j) ==
  answered =>
    /\ call[1] = "write" /\ j = 4 => device.ptr = call[2]
    /\ call[1] = "write" /\ j > 4 => device.regs[call[2]] = call[3]
    /\ call[1] = "read" /\ j \in 4 .. 5 => device.ptr = call[2]
    /\ call[1] = "read" /\ j = 6 => device.byte = device.regs[call[2]]
    /\ call[1] = "read" /\ j > 6 => ret = device.regs[call[2]]

-----------------------------------------------------------------------------
StartInv(j, n) ==
  CASE n = 1 /\ j = 1 -> /\ Level(ddr, dr, "scl") = 1
                         /\ \/ Level(ddr, dr, "sda") = 1 /\ Idle
                            \/ SdaIs(0) /\ device.drive = 1
    [] n = 1 /\ j # 1 -> (SclIs(0) /\ SdaSafe /\ Fresh) \/ Unanswered
    [] n = 2 -> SdaIs(1) /\ (Idle \/ (Fresh /\ SclIs(0))) /\ (j # 1 => ddr["scl"] = 1)
    [] n = 3 -> SdaIs(1) /\ SclIs(1) /\ device.drive = 1
    [] n = 4 -> SdaIs(0) /\ SclIs(1) /\ Hears("address", 0, 0)

\* Bit k of function j, before its access r.
BitInv(j, k, r) ==
  LET heard == IF r = 2 THEN k + 1 ELSE k IN
  /\ IF r = 0 THEN SdaSafe ELSE SdaIs(BitOf(ByteOf(call, j), 7 - k))
  /\ \/ Heard /\ SclIs(IF r = 2 THEN 1 ELSE 0) /\ Hears(StageOf(j), heard, Top(ByteOf(call, j), heard))
     \/ /\ ~answered /\ device.drive = 1 /\ device.mode \in {"idle", "receive"}
        /\ SclIs(IF r = 2 \/ k = 0 THEN 1 ELSE 0)
        /\ k = 0 /\ r = 0 => Idle /\ dr["sda"] = 1
        /\ device.mode = "receive" => device.count <= IF r = 2 \/ k = 0 THEN k ELSE k - 1

WaitInv(j, n) ==
  /\ IF n = 25 THEN SdaSafe ELSE dr["sda"] = 1
  /\ n = 26 => ddr["sda"] = 1
  /\ SclIs(IF n = 27 THEN 1 ELSE 0)
  /\ \/ Heard /\ Answers(StageOf(j), ByteOf(call, j))
     \/ Heard /\ Idle
     \/ ~answered /\ Idle
     \/ ~answered /\ device.drive = 1 /\ device.mode = "receive" /\ (n # 27 => device.count <= 7)

ByteInv(j, n) ==
  IF n <= 24 THEN BitInv(j, (n - 1) \div 3, (n - 1) % 3) ELSE WaitInv(j, n)

\* i2c_wait_ack found an answer; it gives up.
Released(j) == SclIs(1) /\ SdaSafe /\ Heard /\ Answers(StageOf(j), ByteOf(call, j))
GivingUp(n) ==
  ~answered /\ SclIs(1) /\ device.drive = 1 /\ IF n = 1 THEN dr["sda"] = 1 ELSE SdaIs(0)

SampleInv(k, r) ==
  LET seen == IF r = 2 THEN k + 1 ELSE k IN
  /\ dr["sda"] = 1
  /\ \/ Sends(k) /\ ret = Top(device.byte, seen) /\ SclIs(IF r = 0 THEN 0 ELSE 1)
     \/ ~answered /\ Idle /\ ret <= Top(255, seen) /\ SclIs(IF r = 0 /\ k > 0 THEN 0 ELSE 1)

ReadInv(n) ==
  IF n = 1 THEN ret = 0 /\ ((SclIs(0) /\ SdaSafe /\ Sends(0)) \/ Unanswered)
  ELSE IF n <= 25 THEN SampleInv((n - 2) \div 3, (n - 2) % 3)
  ELSE IF n <= 28
    THEN /\ dr["sda"] = 1 /\ (n = 28 => ddr["sda"] = 1) /\ SclIs(0)
         /\ device.mode \in {"idle", "wait"} /\ device.drive = 1
    ELSE SdaIs(1) /\ SclIs(1) /\ Idle

StopInv(n) ==
  CASE n = 1 -> (SclIs(0) /\ SdaSafe /\ (Idle \/ Fresh)) \/ Unanswered
    [] n = 2 -> SdaIs(0) /\ ((SclIs(0) /\ (Idle \/ Fresh)) \/ (SclIs(1) /\ device.drive = 1))
    [] n = 3 -> SdaIs(0) /\ SclIs(1) /\ device.drive = 1

\* What is reached: known from before, but for the read byte, which is known when it was read.
KnownAt(j, n) == IF Kinds(call)[j] = "read" /\ n > 25 THEN Known(7) ELSE Known(j)

FunInv(j, n) ==
  /\ KnownAt(j, n)
  /\ call[1] = "read" /\ j < 6 => ret = 0
  /\ j = 1 => answered
  /\ CASE Kinds(call)[j] = "start" -> StartInv(j, n)
       [] Kinds(call)[j] = "byte" -> ByteInv(j, n)
       [] Kinds(call)[j] = "read" -> ReadInv(n)
       [] Kinds(call)[j] = "stop" -> StopInv(n)

Quiet ==
  /\ Level(ddr, dr, "scl") = 1 /\ Level(ddr, dr, "sda") = 1 /\ Idle
  /\ calls > 0 => Known(8)

-----------------------------------------------------------------------------
ByteStages == {"address", "pointer", "data"}
Devices ==
  [mode : Modes, stage : ByteStages, byte : Byte, count : 0 .. 8,
   drive : 0 .. 1, ptr : Byte, regs : [Registers -> Byte]]
DeviceOK == device \in Devices

Shape(c) == \E r \in Registers, v \in Byte : c = <<"write", r, v>> \/ c = <<"read", r, 0>>
CallOK ==
  \/ call = <<"none", 0, 0>> /\ calls = 0 /\ ops = <<>> /\ Quiet
  \/ calls > 0 /\ Shape(call)

PortOK ==
  /\ calls \in 0 .. MaxCalls /\ answered \in BOOLEAN /\ errtime \in 0 .. Tries /\ ret \in Byte
  /\ ddr \in [{"sda", "scl"} -> 0 .. 1] /\ dr \in [{"sda", "scl"} -> 0 .. 1]

\* The places of a call.
InFun(j, n) == ops = From(Fun(call, j), n, Behind(call, j)) /\ FunInv(j, n)
InRelease(j) ==
  /\ ops = <<scl(0)>> \o Behind(call, j)
  /\ Released(j) /\ Known(j) /\ (call[1] = "read" /\ j < 6 => ret = 0)
InGivingUp(j, n) ==
  /\ ops = From(i2c_stop, n, Behind(call, j))
  /\ GivingUp(n) /\ (call[1] = "read" /\ j < 6 => ret = 0)

CallPlace ==
  \/ ops = <<>> /\ Quiet
  \/ \E j \in 1 .. Len(Kinds(call)) : \E n \in 1 .. Len(Fun(call, j)) : InFun(j, n)
  \/ \E j \in 1 .. Len(Kinds(call)) :
       Kinds(call)[j] = "byte" /\ (InRelease(j) \/ \E n \in 1 .. 3 : InGivingUp(j, n))

I2cInv == DeviceOK /\ CallOK /\ PortOK /\ CallPlace

-----------------------------------------------------------------------------
(* Bytes and bits                                                          *)

LEMMA Weights ==
  2^0 = 1 /\ 2^1 = 2 /\ 2^2 = 4 /\ 2^3 = 8 /\ 2^4 = 16 /\ 2^5 = 32 /\ 2^6 = 64 /\ 2^7 = 128 /\ 2^8 = 256
OBVIOUS

\* The weight of bit i, case by case: the prover divides by numbers only.
LEMMA BitCases ==
  ASSUME NEW b \in Byte
  PROVE  /\ BitOf(b, 0) = b % 2 /\ BitOf(b, 1) = (b \div 2) % 2 /\ BitOf(b, 2) = (b \div 4) % 2
         /\ BitOf(b, 3) = (b \div 8) % 2 /\ BitOf(b, 4) = (b \div 16) % 2 /\ BitOf(b, 5) = (b \div 32) % 2
         /\ BitOf(b, 6) = (b \div 64) % 2 /\ BitOf(b, 7) = (b \div 128) % 2
BY Weights DEF BitOf, Byte

LEMMA TopCases ==
  ASSUME NEW b \in Byte
  PROVE  /\ Top(b, 0) = 0 /\ Top(b, 1) = b \div 128 /\ Top(b, 2) = b \div 64 /\ Top(b, 3) = b \div 32
         /\ Top(b, 4) = b \div 16 /\ Top(b, 5) = b \div 8 /\ Top(b, 6) = b \div 4 /\ Top(b, 7) = b \div 2
         /\ Top(b, 8) = b
BY Weights DEF Top, Byte

LEMMA BitRange ==
  ASSUME NEW b \in Byte, NEW i \in 0 .. 7
  PROVE  BitOf(b, i) \in 0 .. 1
<1>1. i = 0 \/ i = 1 \/ i = 2 \/ i = 3 \/ i = 4 \/ i = 5 \/ i = 6 \/ i = 7
  OBVIOUS
<1> QED BY <1>1, BitCases DEF Byte

\* Each bit doubles what was sent of the byte and adds to it.
LEMMA TopStep ==
  ASSUME NEW b \in Byte, NEW k \in 0 .. 7
  PROVE  Top(b, k + 1) = 2 * Top(b, k) + BitOf(b, 7 - k) /\ Top(b, k + 1) = (2 * Top(b, k) + BitOf(b, 7 - k)) % 256
         /\ Top(b, k) \in Byte /\ Top(b, k + 1) \in Byte
<1>1. k = 0 \/ k = 1 \/ k = 2 \/ k = 3 \/ k = 4 \/ k = 5 \/ k = 6 \/ k = 7
  OBVIOUS
<1> QED BY <1>1, BitCases, TopCases DEF Byte

LEMMA TopOnes ==
  ASSUME NEW k \in 0 .. 7
  PROVE  Top(255, k + 1) = 2 * Top(255, k) + 1 /\ Top(255, k) \in Byte /\ Top(255, k + 1) \in Byte
<1>1. k = 0 \/ k = 1 \/ k = 2 \/ k = 3 \/ k = 4 \/ k = 5 \/ k = 6 \/ k = 7
  OBVIOUS
<1> QED BY <1>1, TopCases DEF Byte

-----------------------------------------------------------------------------
(* What the device makes of it                                             *)

LEMMA Names == Modes = {"idle", "receive", "ack", "send", "wait", "more"} /\ ByteStages = {"address", "pointer", "data"}
               /\ 0 \in Byte
BY DEF Modes, ByteStages, Byte

LEMMA RestIs ==
  ASSUME NEW d \in Devices
  PROVE  /\ AtRest(d) \in Devices /\ AtRest(d).mode = "idle" /\ AtRest(d).drive = 1
         /\ AtRest(d).ptr = d.ptr /\ AtRest(d).regs = d.regs
<1>1. PICK m \in Modes, s \in ByteStages, b \in Byte, k \in 0 .. 8, v \in 0 .. 1 :
        m = "idle" /\ s = "address" /\ b = 0 /\ k = 0 /\ v = 1
  BY Names
<1>2. AtRest(d) = [d EXCEPT !.mode = m, !.stage = s, !.byte = b, !.count = k, !.drive = v]
  BY <1>1 DEF AtRest
<1>3. AtRest(d) \in Devices
  BY <1>2 DEF Devices
<1> QED BY <1>3 DEF AtRest, Devices

LEMMA ListenIs ==
  ASSUME NEW d \in Devices, NEW stage \in ByteStages
  PROVE  /\ Listen(d, stage) \in Devices /\ Listen(d, stage).mode = "receive"
         /\ Listen(d, stage).stage = stage /\ Listen(d, stage).byte = 0
         /\ Listen(d, stage).count = 0 /\ Listen(d, stage).drive = 1
         /\ Listen(d, stage).ptr = d.ptr /\ Listen(d, stage).regs = d.regs
<1>1. PICK m \in Modes, b \in Byte, k \in 0 .. 8, v \in 0 .. 1 : m = "receive" /\ b = 0 /\ k = 0 /\ v = 1
  BY Names
<1>2. Listen(d, stage) = [d EXCEPT !.mode = m, !.stage = stage, !.byte = b, !.count = k, !.drive = v]
  BY <1>1 DEF Listen
<1>3. Listen(d, stage) \in Devices
  BY <1>2 DEF Devices
<1> QED BY <1>3 DEF Listen, Devices

LEMMA RiseIs ==
  ASSUME NEW d \in Devices, NEW a \in 0 .. 1
  PROVE  /\ Rise(d, a) \in Devices /\ Rise(d, a).ptr = d.ptr /\ Rise(d, a).regs = d.regs
         /\ d.mode \in {"idle", "ack", "send"} => Rise(d, a) = d
         /\ d.mode = "receive" =>
              /\ Rise(d, a).mode = "receive" /\ Rise(d, a).stage = d.stage /\ Rise(d, a).drive = d.drive
              /\ d.count < 8 => /\ Rise(d, a).count = d.count + 1
                                /\ Rise(d, a).byte = (2 * d.byte + a) % 256
         /\ d.mode = "wait" /\ a = 1 => Rise(d, a).mode = "idle" /\ Rise(d, a).drive = 1
<1>1. CASE d.mode = "receive" /\ d.count < 8
  <2>1. Rise(d, a) = [d EXCEPT !.byte = (2 * d.byte + a) % 256, !.count = d.count + 1]
    BY <1>1 DEF Rise
  <2>2. (2 * d.byte + a) % 256 \in Byte /\ d.count + 1 \in 0 .. 8
    BY <1>1 DEF Devices, Byte
  <2>3. Rise(d, a) \in Devices
    <3>1. PICK b \in Byte, k \in 0 .. 8 : b = (2 * d.byte + a) % 256 /\ k = d.count + 1
      BY <2>2
    <3>2. Rise(d, a) = [d EXCEPT !.byte = b, !.count = k]
      BY <2>1, <3>1
    <3> QED BY <3>2 DEF Devices
  <2> QED BY <1>1, <2>1, <2>3 DEF Devices
<1>2. CASE d.mode = "wait"
  BY <1>2, RestIs DEF Rise, Devices, Modes
<1>3. CASE ~(d.mode = "receive" /\ d.count < 8) /\ d.mode # "wait"
  BY <1>3 DEF Rise
<1> QED BY <1>1, <1>2, <1>3

\* A fall of scl, but for the one behind an answer.
LEMMA FallIs ==
  ASSUME NEW d \in Devices, NEW ok \in BOOLEAN, d.mode \in {"idle", "receive", "send", "wait"},
         d.mode = "send" => d.count < 8
  PROVE  /\ Fall(d, ok) \in Devices /\ Fall(d, ok).ptr = d.ptr /\ Fall(d, ok).regs = d.regs
         /\ d.mode \in {"idle", "wait"} \/ (d.mode = "receive" /\ d.count < 8) => Fall(d, ok) = d
         /\ d.mode = "receive" /\ d.count = 8 =>
              \/ /\ Fall(d, ok).mode = "ack" /\ Fall(d, ok).drive = 0
                 /\ Fall(d, ok).stage = d.stage /\ Fall(d, ok).byte = d.byte
              \/ Fall(d, ok).mode = "idle" /\ Fall(d, ok).drive = 1
         /\ d.mode = "send" =>
              /\ Fall(d, ok).byte = d.byte
              /\ d.count = 7 => Fall(d, ok).mode = "wait" /\ Fall(d, ok).drive = 1
              /\ d.count < 7 => /\ Fall(d, ok).mode = "send" /\ Fall(d, ok).count = d.count + 1
                                /\ Fall(d, ok).drive = BitOf(d.byte, 6 - d.count)
<1>1. CASE d.mode = "receive" /\ d.count = 8
  <2>1. Fall(d, ok) = [d EXCEPT !.mode = "ack", !.drive = 0] \/ Fall(d, ok) = AtRest(d)
    BY <1>1 DEF Fall
  <2>3. [d EXCEPT !.mode = "ack", !.drive = 0] \in Devices
    <3>1. PICK m \in Modes, v \in 0 .. 1 : m = "ack" /\ v = 0
      BY Names
    <3> QED BY <3>1 DEF Devices
  <2>4. CASE Fall(d, ok) = [d EXCEPT !.mode = "ack", !.drive = 0]
    BY <1>1, <2>3, <2>4 DEF Devices
  <2>5. CASE Fall(d, ok) = AtRest(d)
    BY <1>1, <2>5, RestIs
  <2> QED BY <2>1, <2>4, <2>5
<1>2. CASE d.mode = "send" /\ d.count = 7
  <2>1. Fall(d, ok) = [d EXCEPT !.mode = "wait", !.drive = 1]
    BY <1>2 DEF Fall
  <2>3. [d EXCEPT !.mode = "wait", !.drive = 1] \in Devices
    <3>1. PICK m \in Modes, v \in 0 .. 1 : m = "wait" /\ v = 1
      BY Names
    <3> QED BY <3>1 DEF Devices
  <2> QED BY <1>2, <2>1, <2>3 DEF Devices
<1>3. CASE d.mode = "send" /\ d.count # 7
  <2>1. Fall(d, ok) = [d EXCEPT !.count = d.count + 1, !.drive = BitOf(d.byte, 6 - d.count)]
    BY <1>3 DEF Fall
  <2>2. d.count \in 0 .. 6 /\ BitOf(d.byte, 6 - d.count) \in 0 .. 1
    <3>1. d.count \in 0 .. 6 /\ d.byte \in Byte
      BY <1>3 DEF Devices
    <3> QED BY <3>1, BitRange
  <2>3. d.count + 1 \in 0 .. 8
    BY <2>2
  <2>4. Fall(d, ok) \in Devices
    <3>1. PICK k \in 0 .. 8, v \in 0 .. 1 : k = d.count + 1 /\ v = BitOf(d.byte, 6 - d.count)
      BY <2>2, <2>3
    <3>2. Fall(d, ok) = [d EXCEPT !.count = k, !.drive = v]
      BY <2>1, <3>1
    <3> QED BY <3>2 DEF Devices
  <2> QED BY <1>3, <2>1, <2>2, <2>4 DEF Devices
<1>4. CASE d.mode \in {"idle", "wait"} \/ (d.mode = "receive" /\ d.count # 8)
  <2>1. Fall(d, ok) = d
    BY <1>4 DEF Fall
  <2> QED BY <1>4, <2>1 DEF Devices
<1> QED BY <1>1, <1>2, <1>3, <1>4

-----------------------------------------------------------------------------
(* One pin access                                                          *)

\* What a change of sda does to the device, the value of scl being c.
SdaMoves(c, a, a1) ==
  device' = IF c = 1 /\ a > a1 THEN Listen(device, "address")
            ELSE IF c = 1 /\ a < a1 THEN AtRest(device) ELSE device

LEMMA SdaStep ==
  ASSUME DeviceOK, PortOK, NEW v \in 0 .. 1, ops # <<>>, Head(ops) = sda(v), I2cStep
  PROVE  /\ UNCHANGED <<call, errtime, ret, calls, answered>>
         /\ \/ /\ ddr["sda"] = 0 /\ ddr' = [ddr EXCEPT !["sda"] = 1] /\ dr' = dr /\ ops' = ops
               /\ SdaMoves(Level(ddr, dr, "scl"), device.drive, dr["sda"] * device.drive)
            \/ /\ ddr["sda"] = 1 /\ ddr' = ddr /\ dr' = [dr EXCEPT !["sda"] = v] /\ ops' = Tail(ops)
               /\ SdaMoves(Level(ddr, dr, "scl"), dr["sda"] * device.drive, v * device.drive)
<1>1. gpio_w_pin /\ Head(ops)[1] = "sda" /\ Head(ops)[2] = v
  BY DEF I2cStep, SampleBit, WaitAck, sda, Sample, Poll
<1>2. CASE ddr["sda"] = 0
  <2>1. SetPort([ddr EXCEPT !["sda"] = 1], dr) /\ ops' = ops
    BY <1>1, <1>2 DEF gpio_w_pin
  <2>2. Level(ddr, dr, "sda") = 1 /\ Level(ddr', dr', "sda") = dr["sda"]
        /\ Level(ddr', dr', "scl") = Level(ddr, dr, "scl")
    BY <1>2, <2>1 DEF SetPort, Level, PortOK
  <2> QED BY <1>1, <1>2, <2>1, <2>2 DEF gpio_w_pin, SetPort, Sees, Sda, SdaMoves, DeviceOK, Devices, PortOK, Level
<1>3. CASE ddr["sda"] # 0
  <2>1. SetPort(ddr, [dr EXCEPT !["sda"] = v]) /\ ops' = Tail(ops)
    BY <1>1, <1>3 DEF gpio_w_pin
  <2>2. ddr["sda"] = 1 /\ Level(ddr, dr, "sda") = dr["sda"] /\ Level(ddr', dr', "sda") = v
        /\ Level(ddr', dr', "scl") = Level(ddr, dr, "scl")
    BY <1>3, <2>1 DEF SetPort, Level, PortOK
  <2> QED BY <1>1, <2>1, <2>2 DEF gpio_w_pin, SetPort, Sees, Sda, SdaMoves, DeviceOK, Devices, PortOK, Level
<1> QED BY <1>2, <1>3

\* What a change of scl does to it.
SclMoves(c, c1) ==
  IF c < c1 THEN device' = Rise(device, Sda(ddr, dr))
  ELSE IF c > c1 THEN \E ok \in BOOLEAN : device' = Fall(device, ok)
  ELSE device' = device

LEMMA SclStep ==
  ASSUME DeviceOK, PortOK, NEW v \in 0 .. 1, ops # <<>>, Head(ops) = scl(v), I2cStep
  PROVE  /\ UNCHANGED <<call, errtime, ret, calls, answered>>
         /\ \/ /\ ddr["scl"] = 0 /\ ddr' = [ddr EXCEPT !["scl"] = 1] /\ dr' = dr /\ ops' = ops
               /\ SclMoves(1, dr["scl"])
            \/ /\ ddr["scl"] = 1 /\ ddr' = ddr /\ dr' = [dr EXCEPT !["scl"] = v] /\ ops' = Tail(ops)
               /\ SclMoves(dr["scl"], v)
<1>1. gpio_w_pin /\ Head(ops)[1] = "scl" /\ Head(ops)[2] = v
  BY DEF I2cStep, SampleBit, WaitAck, scl, Sample, Poll
<1>2. CASE ddr["scl"] = 0
  <2>1. SetPort([ddr EXCEPT !["scl"] = 1], dr) /\ ops' = ops
    BY <1>1, <1>2 DEF gpio_w_pin
  <2>2. Level(ddr, dr, "scl") = 1 /\ Level(ddr', dr', "scl") = dr["scl"]
        /\ Level(ddr', dr', "sda") = Level(ddr, dr, "sda")
    BY <1>2, <2>1 DEF SetPort, Level, PortOK
  <2> QED BY <1>1, <1>2, <2>1, <2>2 DEF gpio_w_pin, SetPort, Sees, Sda, SclMoves, DeviceOK, Devices, PortOK, Level
<1>3. CASE ddr["scl"] # 0
  <2>1. SetPort(ddr, [dr EXCEPT !["scl"] = v]) /\ ops' = Tail(ops)
    BY <1>1, <1>3 DEF gpio_w_pin
  <2>2. ddr["scl"] = 1 /\ Level(ddr, dr, "scl") = dr["scl"] /\ Level(ddr', dr', "scl") = v
        /\ Level(ddr', dr', "sda") = Level(ddr, dr, "sda")
    BY <1>3, <2>1 DEF SetPort, Level, PortOK
  <2> QED BY <1>1, <2>1, <2>2 DEF gpio_w_pin, SetPort, Sees, Sda, SclMoves, DeviceOK, Devices, PortOK, Level
<1> QED BY <1>2, <1>3

\* Reading sda moves no line as long as its data bit is set.
LEMMA ReadStep ==
  ASSUME DeviceOK, PortOK, dr["sda"] = 1, ReadsPin
  PROVE  device' = device /\ dr' = dr /\ ddr' = [ddr EXCEPT !["sda"] = 0]
<1>1. Level(ddr, dr, "sda") = 1 /\ Level(ddr', dr', "sda") = 1 /\ Level(ddr', dr', "scl") = Level(ddr, dr, "scl")
      /\ Level(ddr, dr, "scl") \in 0 .. 1
  BY DEF ReadsPin, SetPort, Level, PortOK
<1> QED BY <1>1 DEF ReadsPin, SetPort, Sees, Sda, DeviceOK, Devices, PortOK

LEMMA SampleStep ==
  ASSUME DeviceOK, PortOK, dr["sda"] = 1, ops # <<>>, Head(ops) = Sample, I2cStep
  PROVE  /\ UNCHANGED <<call, errtime, calls, answered, device, dr>> /\ ddr' = [ddr EXCEPT !["sda"] = 0]
         /\ ops' = Tail(ops) /\ ret' = 2 * ret + device.drive
<1>1. SampleBit
  BY DEF I2cStep, gpio_w_pin, WaitAck, Sample, Poll
<1> QED BY <1>1, ReadStep DEF SampleBit

LEMMA PollStep ==
  ASSUME DeviceOK, PortOK, dr["sda"] = 1, ops # <<>>, Head(ops) = Poll, I2cStep
  PROVE  /\ UNCHANGED <<call, ret, calls, device, dr>> /\ ddr' = [ddr EXCEPT !["sda"] = 0]
         /\ errtime' \in 0 .. Tries
         /\ \/ device.drive = 0 /\ ops' = <<scl(0)>> \o Tail(ops) /\ UNCHANGED answered
            \/ device.drive = 1 /\ ops' = i2c_stop \o Tail(ops) /\ answered' = FALSE
            \/ device.drive = 1 /\ UNCHANGED <<ops, answered>>
<1>1. WaitAck
  BY DEF I2cStep, gpio_w_pin, SampleBit, Sample, Poll
<1>2. Tries \in Nat /\ errtime \in Nat /\ errtime <= Tries
  BY I2cAssumption DEF PortOK
<1>3. errtime' \in 0 .. Tries
  BY <1>1, <1>2 DEF WaitAck, GivesUp
<1> QED BY <1>1, <1>3, ReadStep DEF WaitAck

-----------------------------------------------------------------------------
(* The functions, access by access                                         *)

Keeps == device'.ptr = device.ptr /\ device'.regs = device.regs
Steady == UNCHANGED <<call, errtime, ret, calls, answered>> /\ PortOK'

LEMMA SdaRanges ==
  ASSUME DeviceOK, PortOK, NEW v \in 0 .. 1, ops # <<>>, Head(ops) = sda(v), I2cStep
  PROVE  Steady /\ DeviceOK' /\ Keeps
<1>1. AtRest(device) \in Devices /\ AtRest(device).ptr = device.ptr /\ AtRest(device).regs = device.regs
  BY RestIs DEF DeviceOK
<1>2. Listen(device, "address") \in Devices
      /\ Listen(device, "address").ptr = device.ptr /\ Listen(device, "address").regs = device.regs
  BY ListenIs, Names DEF DeviceOK
<1>3. DeviceOK' /\ Keeps
  BY <1>1, <1>2, SdaStep DEF DeviceOK, SdaMoves, Keeps
<1> QED BY <1>3, SdaStep DEF PortOK, Steady

\* While scl is low, sda may change.
LEMMA SdaLow ==
  ASSUME DeviceOK, PortOK, NEW v \in 0 .. 1, ops # <<>>, Head(ops) = sda(v), I2cStep, SclIs(0)
  PROVE  /\ device' = device /\ SclIs(0)'
         /\ \/ ddr["sda"] = 0 /\ ddr'["sda"] = 1 /\ dr' = dr /\ ops' = ops
            \/ SdaIs(v)' /\ ops' = Tail(ops)
BY SdaStep DEF SdaMoves, Level, SclIs, SdaIs, PortOK

\* While it is high, a fall of sda is a start and a rise a stop, unless the device holds it.
LEMMA SdaHigh ==
  ASSUME DeviceOK, PortOK, NEW v \in 0 .. 1, ops # <<>>, Head(ops) = sda(v), I2cStep, SclIs(1),
         SdaSafe, device.drive = 1
  PROVE  /\ SclIs(1)'
         /\ \/ ddr["sda"] = 0 /\ ddr'["sda"] = 1 /\ dr' = dr /\ ops' = ops /\ device' = device
            \/ /\ ddr["sda"] = 1 /\ SdaIs(v)' /\ ops' = Tail(ops)
               /\ device' = IF dr["sda"] > v THEN Listen(device, "address")
                            ELSE IF dr["sda"] < v THEN AtRest(device) ELSE device
BY SdaStep DEF SdaMoves, Level, SclIs, SdaIs, SdaSafe, PortOK

LEMMA SclSame ==
  ASSUME DeviceOK, PortOK, NEW v \in 0 .. 1, ops # <<>>, Head(ops) = scl(v), I2cStep, SclIs(v)
  PROVE  Steady /\ device' = device /\ DeviceOK' /\ Keeps /\ UNCHANGED <<ddr, dr>> /\ ops' = Tail(ops)
<1>1. ddr' = ddr /\ dr' = [dr EXCEPT !["scl"] = v] /\ ops' = Tail(ops) /\ device' = device
  BY SclStep DEF SclMoves, SclIs
<1>2. dr' = dr
  BY <1>1 DEF SclIs, PortOK
<1> QED BY <1>1, <1>2, SclStep DEF Steady, PortOK, DeviceOK, Keeps

LEMMA SclUp ==
  ASSUME DeviceOK, PortOK, ops # <<>>, Head(ops) = scl(1), I2cStep, SclIs(0)
  PROVE  /\ Steady /\ DeviceOK' /\ Keeps /\ SclIs(1)' /\ ddr' = ddr /\ dr'["sda"] = dr["sda"] /\ ops' = Tail(ops)
         /\ device' = Rise(device, Sda(ddr, dr)) /\ Sda(ddr, dr) \in 0 .. 1
<1>1. ddr' = ddr /\ dr' = [dr EXCEPT !["scl"] = 1] /\ ops' = Tail(ops) /\ device' = Rise(device, Sda(ddr, dr))
  BY SclStep DEF SclMoves, SclIs
<1>2. Sda(ddr, dr) \in 0 .. 1
  BY DEF Sda, Level, PortOK, DeviceOK, Devices
<1> QED BY <1>1, <1>2, SclStep, RiseIs DEF Steady, PortOK, DeviceOK, Keeps, SclIs

LEMMA SclDown ==
  ASSUME DeviceOK, PortOK, ops # <<>>, Head(ops) = scl(0), I2cStep, SclIs(1)
  PROVE  /\ Steady /\ SclIs(0)' /\ ddr' = ddr /\ dr'["sda"] = dr["sda"] /\ ops' = Tail(ops)
         /\ \E ok \in BOOLEAN : device' = Fall(device, ok)
<1>1. ddr' = ddr /\ dr' = [dr EXCEPT !["scl"] = 0] /\ ops' = Tail(ops)
      /\ \E ok \in BOOLEAN : device' = Fall(device, ok)
  BY SclStep DEF SclMoves, SclIs
<1> QED BY <1>1, SclStep DEF Steady, PortOK, SclIs

\* scl falls, and no answer ends with it.
LEMMA SclDownCalm ==
  ASSUME DeviceOK, PortOK, ops # <<>>, Head(ops) = scl(0), I2cStep, SclIs(1),
         device.mode \in {"idle", "receive", "send", "wait"}, device.mode = "send" => device.count < 8
  PROVE  DeviceOK' /\ Keeps
BY SclDown, FallIs DEF DeviceOK, Keeps

\* Behind its last access i2c_start leaves scl low and the device waiting for an address.
Started == SclIs(0) /\ SdaSafe /\ Hears("address", 0, 0)

LEMMA StartMoves ==
  ASSUME DeviceOK, PortOK, NEW j \in Nat, NEW n \in 1 .. 4, StartInv(j, n),
         ops # <<>>, Head(ops) = i2c_start[n], I2cStep
  PROVE  /\ Steady /\ DeviceOK' /\ Keeps
         /\ \/ ops' = ops /\ StartInv(j, n)'
            \/ ops' = Tail(ops) /\ n < 4 /\ StartInv(j, n + 1)'
            \/ ops' = Tail(ops) /\ n = 4 /\ Started'
<1>1. /\ i2c_start[1] = sda(1) /\ i2c_start[2] = scl(1) /\ i2c_start[3] = sda(0) /\ i2c_start[4] = scl(0)
  BY DEF i2c_start
<1>2. /\ AtRest(device).mode = "idle" /\ AtRest(device).drive = 1
      /\ Listen(device, "address").mode = "receive" /\ Listen(device, "address").stage = "address"
      /\ Listen(device, "address").byte = 0 /\ Listen(device, "address").count = 0
      /\ Listen(device, "address").drive = 1
  BY RestIs, ListenIs, Names DEF DeviceOK
<1>3. CASE n = 1
  <2>1. Head(ops) = sda(1) /\ Steady /\ DeviceOK' /\ Keeps
    BY <1>1, <1>3, SdaRanges
  <2>2. CASE j = 1
    <3>1. Level(ddr, dr, "scl") = 1 /\ Level(ddr', dr', "scl") = 1
      BY <1>3, <2>1, <2>2, SdaStep DEF StartInv, Level, PortOK
    <3>2. CASE ddr["sda"] = 0 /\ Idle
      <4>1. ops' = ops /\ ddr'["sda"] = 1 /\ dr'["sda"] = dr["sda"]
            /\ SdaMoves(1, 1, dr["sda"])
        BY <2>1, <3>1, <3>2, SdaStep DEF Idle, PortOK
      <4>2. \/ dr["sda"] = 1 /\ device' = device
            \/ dr["sda"] = 0 /\ device' = Listen(device, "address")
        BY <4>1 DEF SdaMoves, PortOK
      <4>3. StartInv(j, n)'
        BY <1>2, <1>3, <2>2, <3>1, <3>2, <4>1, <4>2 DEF StartInv, Level, Idle, SdaIs
      <4> QED BY <2>1, <4>1, <4>3
    <3>3. CASE ddr["sda"] = 1
      <4>1. ops' = Tail(ops) /\ SdaIs(1)' /\ SdaMoves(1, dr["sda"] * device.drive, device.drive)
        <5>1. device.drive \in 0 .. 1 /\ 1 * device.drive = device.drive
          BY DEF DeviceOK, Devices
        <5> QED BY <2>1, <3>1, <3>3, <5>1, SdaStep DEF SdaIs, PortOK
      <4>2. device.drive = 1 /\ (dr["sda"] = 1 => Idle)
        BY <1>3, <2>2, <3>3 DEF StartInv, Level, Idle, SdaIs
      <4>3. dr["sda"] \in 0 .. 1
        BY DEF PortOK
      <4>4. Idle'
        BY <1>2, <4>1, <4>2, <4>3 DEF SdaMoves, Idle
      <4> QED BY <1>3, <2>1, <2>2, <4>1, <4>4 DEF StartInv
    <3> QED BY <1>3, <2>2, <3>2, <3>3 DEF StartInv, SdaIs, PortOK
  <2>3. CASE j # 1 /\ SclIs(0)
    BY <1>3, <2>1, <2>3, SdaLow DEF StartInv, Fresh, Unanswered, Idle, SdaSafe, SdaIs, SclIs
  <2>4. CASE j # 1 /\ SclIs(1)
    BY <1>3, <2>1, <2>4, SdaHigh DEF StartInv, Fresh, Unanswered, Idle, SdaSafe, SdaIs, SclIs, Steady
  <2>5. j # 1 => SclIs(0) \/ SclIs(1)
    BY <1>3 DEF StartInv, Unanswered
  <2> QED BY <2>2, <2>3, <2>4, <2>5
<1>4. CASE n = 2
  <2>1. Head(ops) = scl(1) /\ SdaIs(1) /\ (Idle \/ (Fresh /\ SclIs(0))) /\ (j # 1 => ddr["scl"] = 1)
    BY <1>1, <1>4 DEF StartInv
  <2>2. CASE SclIs(0)
    <3>1. Sda(ddr, dr) \in 0 .. 1 /\ device' = Rise(device, Sda(ddr, dr)) /\ Steady /\ DeviceOK' /\ Keeps /\ SclIs(1)'
          /\ SdaIs(1)' /\ ops' = Tail(ops)
      BY <2>1, <2>2, SclUp DEF SdaIs
    <3>2. device'.drive = 1
      BY <2>1, <3>1, RiseIs DEF DeviceOK, Devices, Idle, Fresh
    <3> QED BY <1>4, <3>1, <3>2 DEF StartInv
  <2>3. CASE SclIs(1)
    <3>1. Steady /\ DeviceOK' /\ Keeps /\ SclIs(1)' /\ SdaIs(1)' /\ ops' = Tail(ops) /\ device' = device
      BY <2>1, <2>3, SclSame DEF SdaIs, SclIs
    <3> QED BY <1>4, <2>1, <3>1 DEF StartInv, Idle, Fresh
  <2>4. CASE ddr["scl"] = 0
    <3>1. Steady /\ ops' = ops /\ ddr'["scl"] = 1 /\ SdaIs(1)' /\ SclMoves(1, dr["scl"])
      BY <2>1, <2>4, SclStep DEF Steady, PortOK, SdaIs
    <3>2. Idle
      BY <2>1, <2>4 DEF SclIs
    <3>3. device' = device
      BY <3>1, <3>2, FallIs DEF SclMoves, DeviceOK, Idle, PortOK
    <3> QED BY <1>4, <3>1, <3>2, <3>3 DEF StartInv, Idle, DeviceOK, Keeps
  <2> QED BY <2>2, <2>3, <2>4 DEF SclIs, PortOK
<1>5. CASE n = 3
  <2>1. Head(ops) = sda(0) /\ SdaIs(1) /\ SclIs(1) /\ device.drive = 1
    BY <1>1, <1>5 DEF StartInv
  <2>2. Steady /\ DeviceOK' /\ Keeps
    BY <2>1, SdaRanges
  <2>3. SclIs(1)' /\ SdaIs(0)' /\ ops' = Tail(ops) /\ device' = Listen(device, "address")
    BY <2>1, SdaHigh DEF SdaIs, SdaSafe
  <2> QED BY <1>2, <1>5, <2>2, <2>3 DEF StartInv, Hears
<1>6. CASE n = 4
  <2>1. Head(ops) = scl(0) /\ SdaIs(0) /\ SclIs(1) /\ Hears("address", 0, 0)
    BY <1>1, <1>6 DEF StartInv
  <2>2. Steady /\ DeviceOK' /\ Keeps /\ SclIs(0)' /\ SdaIs(0)' /\ ops' = Tail(ops)
    BY <2>1, SclDown, SclDownCalm DEF Hears, SdaIs
  <2>3. device' = device
    BY <2>1, SclDown, FallIs DEF Hears, DeviceOK
  <2> QED BY <1>6, <2>1, <2>2, <2>3 DEF Started, Hears, SdaSafe, SdaIs
<1> QED BY <1>3, <1>4, <1>5, <1>6

\* The accesses of one bit.
BitAccess(b, k) == <<sda(BitOf(b, 7 - k)), scl(1), scl(0)>>

LEMMA BitMoves ==
  ASSUME DeviceOK, PortOK, NEW j \in Nat, NEW k \in 0 .. 7, NEW r \in 0 .. 2,
         NEW b \in Byte, b = ByteOf(call, j), NEW bit \in 0 .. 1, bit = BitOf(b, 7 - k),
         BitInv(j, k, r), ops # <<>>, Head(ops) = BitAccess(b, k)[r + 1], I2cStep
  PROVE  /\ Steady /\ DeviceOK' /\ Keeps
         /\ \/ ops' = ops /\ r = 0 /\ BitInv(j, k, 0)'
            \/ ops' = Tail(ops) /\ r < 2 /\ BitInv(j, k, r + 1)'
            \/ ops' = Tail(ops) /\ r = 2 /\ k < 7 /\ BitInv(j, k + 1, 0)'
            \/ ops' = Tail(ops) /\ r = 2 /\ k = 7 /\ WaitInv(j, 25)'
<1> DEFINE Fine == Heard /\ Hears(StageOf(j), IF r = 2 THEN k + 1 ELSE k, Top(b, IF r = 2 THEN k + 1 ELSE k))
           Astray == ~answered /\ device.drive = 1 /\ device.mode \in {"idle", "receive"}
<1>1. Top(b, k + 1) = (2 * Top(b, k) + bit) % 256
  BY TopStep
<1>2. Head(ops) = IF r = 0 THEN sda(bit) ELSE IF r = 1 THEN scl(1) ELSE scl(0)
  BY DEF BitAccess
<1>3. Steady => call' = call /\ answered' = answered /\ b = ByteOf(call', j)
  BY DEF Steady
<1>4. CASE r = 0
  <2>1. Head(ops) = sda(bit) /\ SdaSafe
    BY <1>2, <1>4 DEF BitInv
  <2>2. Steady /\ DeviceOK' /\ Keeps
    BY <1>1, <2>1, SdaRanges
  <2>3. CASE SclIs(0)
    <3>1. /\ device' = device /\ SclIs(0)'
          /\ \/ ddr'["sda"] = 1 /\ ops' = ops
             \/ SdaIs(bit)' /\ ops' = Tail(ops)
      BY <1>1, <2>1, <2>3, SdaLow
    <3>2. Fine \/ (Astray /\ k > 0 /\ (device.mode = "receive" => device.count <= k - 1))
      BY <1>4, <2>3 DEF BitInv, SclIs
    <3>3. Fine' \/ (Astray' /\ k > 0 /\ (device'.mode = "receive" => device'.count <= k - 1))
      BY <1>3, <2>2, <3>1, <3>2 DEF Heard, Hears, Idle
    <3>4. CASE ddr'["sda"] = 1 /\ ops' = ops
      BY <1>3, <1>4, <2>2, <3>1, <3>3, <3>4 DEF BitInv, SdaSafe
    <3>5. CASE SdaIs(bit)' /\ ops' = Tail(ops)
      BY <1>3, <1>4, <2>2, <3>1, <3>3, <3>5 DEF BitInv
    <3> QED BY <3>1, <3>4, <3>5
  <2>4. CASE SclIs(1)
    <3>1. k = 0 /\ Astray /\ Idle /\ dr["sda"] = 1
      BY <1>4, <2>4 DEF BitInv, SclIs
    <3>2. SclIs(1)'
      BY <1>1, <2>1, <2>4, <3>1, SdaHigh
    <3>3. CASE ddr["sda"] = 0
      <4>1. ddr'["sda"] = 1 /\ dr' = dr /\ ops' = ops /\ device' = device
        BY <1>1, <2>1, <2>4, <3>1, <3>3, SdaHigh
      <4> QED BY <1>3, <1>4, <2>2, <3>1, <3>2, <4>1 DEF BitInv, SdaSafe, Idle
    <3>4. CASE ddr["sda"] = 1
      <4>1. SdaIs(bit)' /\ ops' = Tail(ops) /\ (device' = device \/ device' = Listen(device, "address"))
        BY <1>1, <2>1, <2>4, <3>1, <3>4, SdaHigh
      <4>2. /\ Listen(device, "address").mode = "receive"
            /\ Listen(device, "address").count = 0 /\ Listen(device, "address").drive = 1
        BY ListenIs, Names DEF DeviceOK
      <4>3. Astray' /\ (device'.mode = "receive" => device'.count <= 0)
        BY <1>3, <2>2, <3>1, <4>1, <4>2 DEF Idle
      <4> QED BY <1>3, <1>4, <2>2, <3>1, <3>2, <4>1, <4>3 DEF BitInv
    <3> QED BY <3>3, <3>4 DEF PortOK
  <2> QED BY <1>4, <2>3, <2>4 DEF BitInv
<1>5. CASE r = 1
  <2>1. Head(ops) = scl(1) /\ SdaIs(bit)
    BY <1>2, <1>5 DEF BitInv
  <2>2. CASE SclIs(0)
    <3>1. /\ Steady /\ DeviceOK' /\ Keeps /\ SclIs(1)' /\ SdaIs(bit)' /\ ops' = Tail(ops)
          /\ device' = Rise(device, Sda(ddr, dr)) /\ Sda(ddr, dr) \in 0 .. 1
      BY <2>1, <2>2, SclUp DEF SdaIs
    <3>2. CASE Fine
      <4>1. Sda(ddr, dr) = bit
        BY <1>1, <1>5, <2>1, <3>2 DEF Sda, Level, SdaIs, Hears
      <4>2. /\ device.mode = "receive" /\ device.stage = StageOf(j) /\ device.count = k
            /\ device.byte = Top(b, k) /\ device.drive = 1
        BY <1>5, <3>2 DEF Hears
      <4>3. /\ device'.mode = "receive" /\ device'.stage = StageOf(j) /\ device'.count = k + 1
            /\ device'.byte = (2 * Top(b, k) + bit) % 256 /\ device'.drive = 1
        BY <3>1, <4>1, <4>2, RiseIs DEF DeviceOK
      <4>5. Hears(StageOf(j), k + 1, Top(b, k + 1))'
        BY <1>1, <4>3, <1>3, <3>1 DEF Hears
      <4>6. Heard'
        BY <1>3, <3>1, <3>2 DEF Heard
      <4>7. BitInv(j, k, r + 1)'
        BY <1>3, <1>5, <3>1, <4>5, <4>6 DEF BitInv
      <4> QED BY <1>5, <3>1, <4>7
    <3>3. CASE Astray /\ (device.mode = "receive" => device.count <= k - 1) /\ k > 0
      <4>0. device.count \in 0 .. 8
        BY DEF DeviceOK, Devices
      <4>1. device'.mode \in {"idle", "receive"} /\ device'.drive = 1 /\ (device'.mode = "receive" => device'.count <= k)
        <5>1. CASE device.mode = "idle"
          <6>1. device' = device
            BY <3>1, <5>1, RiseIs DEF DeviceOK
          <6> QED BY <3>3, <5>1, <6>1
        <5>2. CASE device.mode = "receive"
          <6>1. device'.mode = "receive" /\ device'.drive = device.drive /\ device'.count = device.count + 1
            BY SMTT(40), <3>1, <3>3, <4>0, <5>2, RiseIs DEF DeviceOK
          <6> QED BY <3>3, <4>0, <5>2, <6>1
        <5> QED BY <3>3, <5>1, <5>2
      <4> QED BY <1>3, <1>5, <3>1, <3>3, <4>1 DEF BitInv
    <3> QED BY <1>5, <2>2, <3>2, <3>3 DEF BitInv, SclIs
  <2>3. CASE SclIs(1)
    <3>1. Astray /\ k = 0 /\ (device.mode = "receive" => device.count <= 0)
      BY <1>5, <2>3 DEF BitInv, SclIs
    <3>2. Steady /\ DeviceOK' /\ Keeps /\ SclIs(1)' /\ SdaIs(bit)' /\ ops' = Tail(ops) /\ device' = device
      BY <1>3, <2>1, <2>3, SclSame DEF SdaIs, SclIs
    <3> QED BY <1>3, <1>5, <3>1, <3>2 DEF BitInv
  <2> QED BY <1>5, <2>2, <2>3 DEF BitInv
<1>6. CASE r = 2
  <2>1. Head(ops) = scl(0) /\ SdaIs(bit) /\ SclIs(1)
    BY <1>2, <1>6 DEF BitInv
  <2>2. device.mode \in {"idle", "receive"}
    BY <1>6 DEF BitInv, Hears
  <2>3. /\ Steady /\ DeviceOK' /\ Keeps /\ SclIs(0)' /\ SdaIs(bit)' /\ SdaSafe' /\ ops' = Tail(ops)
    BY <2>1, <2>2, SclDown, SclDownCalm DEF SdaIs, SdaSafe
  <2>4. PICK ok \in BOOLEAN : device' = Fall(device, ok)
    BY <2>1, SclDown
  <2>5. CASE Fine /\ k < 7
    <3>1. device' = device
      BY <1>6, <2>4, <2>5, FallIs DEF DeviceOK, Hears
    <3> QED BY <1>3, <1>6, <2>3, <2>5, <3>1 DEF BitInv, Heard, Hears
  <2>6. CASE Fine /\ k = 7
    <3>1. /\ device.mode = "receive" /\ device.stage = StageOf(j) /\ device.count = 8 /\ device.byte = b
      BY <1>6, <2>6, TopCases DEF Hears
    <3>2. Answers(StageOf(j), b)' \/ Idle'
      BY <1>3, <2>3, <2>4, <3>1, FallIs DEF DeviceOK, Answers, Idle
    <3>3. Heard'
      BY <1>3, <2>3, <2>6 DEF Heard
    <3>4. WaitInv(j, 25)'
      BY <1>3, <2>3, <3>2, <3>3 DEF WaitInv
    <3> QED BY <1>6, <2>3, <2>6, <3>4
  <2>7. CASE Astray /\ (device.mode = "receive" => device.count <= k)
    <3>1. device' = device
      BY <2>4, <2>7, FallIs DEF DeviceOK, Devices
    <3>2. CASE k < 7
      BY <1>3, <1>6, <2>3, <2>7, <3>1, <3>2 DEF BitInv
    <3>3. CASE k = 7
      <4>1. WaitInv(j, 25)'
        BY <1>3, <2>3, <2>7, <3>1, <3>3 DEF WaitInv, Idle
      <4> QED BY <1>6, <2>3, <3>3, <4>1
    <3> QED BY <3>2, <3>3
  <2> QED BY <1>6, <2>5, <2>6, <2>7 DEF BitInv
<1> QED BY <1>4, <1>5, <1>6

\* What every access but Sample leaves alone: in i2c_wait_ack the call may be given up.
Going == UNCHANGED <<call, ret, calls>> /\ (answered' => answered) /\ PortOK' /\ DeviceOK' /\ Keeps

LEMMA WaitMoves ==
  ASSUME DeviceOK, PortOK, NEW j \in Nat, NEW n \in 25 .. 27, WaitInv(j, n),
         ops # <<>>, Head(ops) = i2c_wait_ack[n - 24], I2cStep
  PROVE  /\ Going
         /\ \/ ops' = ops /\ WaitInv(j, n)'
            \/ ops' = Tail(ops) /\ n < 27 /\ WaitInv(j, n + 1)'
            \/ ops' = <<scl(0)>> \o Tail(ops) /\ n = 27 /\ Released(j)'
            \/ ops' = i2c_stop \o Tail(ops) /\ n = 27 /\ GivingUp(1)'
<1> DEFINE Stays == UNCHANGED <<call, answered>>
<1>1. i2c_wait_ack[1] = sda(1) /\ i2c_wait_ack[2] = scl(1) /\ i2c_wait_ack[3] = Poll
  BY DEF i2c_wait_ack
<1>2. \/ Heard /\ Answers(StageOf(j), ByteOf(call, j))
      \/ Heard /\ Idle
      \/ ~answered /\ Idle
      \/ ~answered /\ device.drive = 1 /\ device.mode = "receive" /\ (n # 27 => device.count <= 7)
  BY DEF WaitInv
<1>3. Steady => Stays
  BY DEF Steady
<1>4. Steady /\ DeviceOK' /\ Keeps => Going
  BY DEF Steady, Going
<1>5. Stays => (Heard' <=> Heard) /\ ByteOf(call', j) = ByteOf(call, j) /\ (answered' <=> answered)
  BY DEF Heard
<1>6. CASE n = 25
  <2>1. Head(ops) = sda(1) /\ SdaSafe /\ SclIs(0)
    BY <1>1, <1>6 DEF WaitInv
  <2>2. Steady /\ DeviceOK' /\ Keeps
    BY <2>1, SdaRanges
  <2>3. /\ device' = device /\ SclIs(0)'
        /\ \/ ddr'["sda"] = 1 /\ ops' = ops
           \/ SdaIs(1)' /\ ops' = Tail(ops)
    BY <2>1, SdaLow
  <2>4. CASE ddr'["sda"] = 1 /\ ops' = ops
    <3>1. WaitInv(j, 25)'
      BY <1>2, <1>3, <1>5, <1>6, <2>2, <2>3, <2>4 DEF WaitInv, Answers, Idle, SdaSafe
    <3> QED BY <1>4, <1>6, <2>2, <2>4, <3>1
  <2>5. CASE SdaIs(1)' /\ ops' = Tail(ops)
    <3>1. WaitInv(j, n + 1)'
      BY <1>2, <1>3, <1>5, <1>6, <2>2, <2>3, <2>5 DEF WaitInv, Answers, Idle, SdaIs
    <3> QED BY <1>4, <1>6, <2>2, <2>5, <3>1
  <2> QED BY <2>3, <2>4, <2>5
<1>7. CASE n = 26
  <2>1. Head(ops) = scl(1) /\ SdaIs(1) /\ SclIs(0)
    BY <1>1, <1>7 DEF WaitInv, SdaIs
  <2>2. /\ Steady /\ DeviceOK' /\ Keeps /\ SclIs(1)' /\ dr'["sda"] = 1 /\ ops' = Tail(ops)
        /\ device' = Rise(device, Sda(ddr, dr)) /\ Sda(ddr, dr) \in 0 .. 1
    BY <2>1, SclUp DEF SdaIs
  <2>3. CASE device.mode \in {"ack", "idle"}
    <3>1. device' = device
      BY <2>2, <2>3, RiseIs DEF DeviceOK
    <3>2. WaitInv(j, n + 1)'
      BY <1>2, <1>3, <1>5, <1>7, <2>2, <2>3, <3>1 DEF WaitInv, Answers, Idle
    <3> QED BY <1>4, <1>7, <2>2, <3>2
  <2>4. CASE ~answered /\ device.drive = 1 /\ device.mode = "receive"
    <3>1. device'.mode = "receive" /\ device'.drive = 1
      BY <2>2, <2>4, RiseIs DEF DeviceOK
    <3>2. WaitInv(j, n + 1)'
      BY <1>3, <1>5, <1>7, <2>2, <2>4, <3>1 DEF WaitInv
    <3> QED BY <1>4, <1>7, <2>2, <3>2
  <2> QED BY <1>2, <2>3, <2>4 DEF Answers, Idle
<1>8. CASE n = 27
  <2>1. Head(ops) = Poll /\ dr["sda"] = 1 /\ SclIs(1)
    BY <1>1, <1>8 DEF WaitInv
  <2>2. /\ UNCHANGED <<call, ret, calls, device, dr>> /\ ddr' = [ddr EXCEPT !["sda"] = 0]
        /\ errtime' \in 0 .. Tries
        /\ \/ device.drive = 0 /\ ops' = <<scl(0)>> \o Tail(ops) /\ UNCHANGED answered
           \/ device.drive = 1 /\ ops' = i2c_stop \o Tail(ops) /\ answered' = FALSE
           \/ device.drive = 1 /\ UNCHANGED <<ops, answered>>
    BY <2>1, PollStep
  <2>3. Going /\ SclIs(1)' /\ dr'["sda"] = 1 /\ SdaSafe'
    <3>1. answered' \in BOOLEAN /\ (answered' => answered)
      <4>1. answered' = answered \/ answered' = FALSE
        BY <2>2, Zenon
      <4>2. answered \in BOOLEAN
        BY DEF PortOK
      <4>3. CASE answered' = answered
        BY <4>2, <4>3
      <4>4. CASE answered' = FALSE
        BY <4>4
      <4> QED BY <4>1, <4>3, <4>4
    <3>2. ddr' \in [{"sda", "scl"} -> 0 .. 1] /\ ddr'["scl"] = ddr["scl"]
      BY <2>2 DEF PortOK
    <3>3. PortOK'
      BY <2>2, <3>1, <3>2 DEF PortOK
    <3>4. DeviceOK' /\ Keeps /\ SclIs(1)' /\ dr'["sda"] = 1
      BY <2>1, <2>2, <3>2 DEF DeviceOK, Keeps, SclIs
    <3> QED BY <2>2, <3>1, <3>3, <3>4 DEF Going, SdaSafe
  <2>4. CASE device.drive = 0 /\ ops' = <<scl(0)>> \o Tail(ops) /\ UNCHANGED answered
    <3>1. Heard /\ Answers(StageOf(j), ByteOf(call, j))
      BY <1>2, <2>4 DEF Idle
    <3>2. Released(j)'
      BY <1>5, <2>2, <2>3, <2>4, <3>1 DEF Released, Answers
    <3> QED BY <1>8, <2>3, <2>4, <3>2
  <2>5. CASE device.drive = 1 /\ ops' = i2c_stop \o Tail(ops) /\ answered' = FALSE
    <3>1. GivingUp(1)'
      BY <2>2, <2>3, <2>5 DEF GivingUp
    <3> QED BY <1>8, <2>3, <2>5, <3>1
  <2>6. CASE device.drive = 1 /\ UNCHANGED <<ops, answered>>
    <3>1. WaitInv(j, n)'
      BY <1>2, <1>5, <1>8, <2>2, <2>3, <2>6 DEF WaitInv, Answers, Idle
    <3> QED BY <1>8, <2>3, <2>6, <3>1
  <2> QED BY <2>2, <2>4, <2>5, <2>6
<1> QED BY <1>6, <1>7, <1>8

-----------------------------------------------------------------------------
(* The answered byte takes effect                                          *)

LEMMA TalkIs ==
  ASSUME NEW d \in Devices, NEW ptr \in Byte
  PROVE  /\ Talk(d, ptr) \in Devices /\ Talk(d, ptr).mode = "send" /\ Talk(d, ptr).count = 0
         /\ Talk(d, ptr).byte = Content(d, ptr) /\ Talk(d, ptr).drive = BitOf(Content(d, ptr), 7)
         /\ Talk(d, ptr).regs = d.regs
         /\ ptr \in Registers => Content(d, ptr) = d.regs[ptr]
<1>1. Content(d, ptr) \in Byte
  BY DEF Content, Devices, Byte
<1>2. BitOf(Content(d, ptr), 7) \in 0 .. 1
  BY <1>1, BitRange
<1>3. PICK m \in Modes, s \in ByteStages, b \in Byte, k \in 0 .. 8, v \in 0 .. 1 :
        m = "send" /\ s = "data" /\ b = Content(d, ptr) /\ k = 0 /\ v = BitOf(Content(d, ptr), 7)
  BY <1>1, <1>2, Names
<1>4. Talk(d, ptr) = [d EXCEPT !.mode = m, !.stage = s, !.byte = b, !.count = k, !.drive = v, !.ptr = ptr]
  BY <1>3 DEF Talk
<1>5. Talk(d, ptr) \in Devices
  BY <1>4 DEF Devices
<1>6. /\ Talk(d, ptr).mode = m /\ Talk(d, ptr).count = k /\ Talk(d, ptr).byte = b
      /\ Talk(d, ptr).drive = v /\ Talk(d, ptr).regs = d.regs
  BY <1>4 DEF Devices
<1>7. ptr \in Registers => Content(d, ptr) = d.regs[ptr]
  BY DEF Content
<1> QED BY <1>3, <1>5, <1>6, <1>7

\* Which byte was answered tells what it does.
LEMMA TakeIs ==
  ASSUME NEW d \in Devices
  PROVE  /\ d.stage = "address" /\ d.byte % 2 = 0 => Take(d) = Listen(d, "pointer")
         /\ d.stage = "address" /\ d.byte % 2 = 1 => Take(d) = Talk(d, d.ptr)
         /\ d.stage = "pointer" => \E e \in Devices : e.ptr = d.byte /\ e.regs = d.regs /\ Take(d) = Listen(e, "data")
         /\ d.stage = "data" =>
              \E e \in Devices : /\ e.regs = [r \in Registers |-> IF r = d.ptr THEN d.byte ELSE d.regs[r]]
                                 /\ Take(d) = Listen(e, "data")
<1>1. CASE d.stage = "pointer"
  <2>1. Take(d) = Listen([d EXCEPT !.ptr = d.byte], "data")
    BY <1>1 DEF Take
  <2>2. [d EXCEPT !.ptr = d.byte] \in Devices
    BY DEF Devices
  <2>3. [d EXCEPT !.ptr = d.byte].ptr = d.byte /\ [d EXCEPT !.ptr = d.byte].regs = d.regs
    BY DEF Devices
  <2> QED BY <1>1, <2>1, <2>2, <2>3
<1>2. CASE d.stage = "data"
  <2> DEFINE new == [r \in Registers |-> IF r = d.ptr THEN d.byte ELSE d.regs[r]]
             e == [d EXCEPT !.regs = new, !.ptr = (d.ptr + 1) % 256]
  <2>1. Take(d) = Listen(e, "data")
    BY <1>2 DEF Take
  <2>2. new \in [Registers -> Byte] /\ (d.ptr + 1) % 256 \in Byte
    BY DEF Devices, Byte
  <2>3. e \in Devices /\ e.regs = new
    <3>1. PICK regs \in [Registers -> Byte], p \in Byte : regs = new /\ p = (d.ptr + 1) % 256
      BY <2>2
    <3>2. e = [d EXCEPT !.regs = regs, !.ptr = p]
      BY <3>1
    <3> HIDE DEF new, e
    <3>3. [d EXCEPT !.regs = regs, !.ptr = p] \in Devices
      BY DEF Devices
    <3>4. [d EXCEPT !.regs = regs, !.ptr = p].regs = regs
      BY DEF Devices
    <3> QED BY <3>1, <3>2, <3>3, <3>4
  <2> QED BY <1>2, <2>1, <2>3
<1>3. CASE d.stage = "address"
  BY <1>3 DEF Take
<1> QED BY <1>1, <1>2, <1>3 DEF Devices, ByteStages

\* What the calls are.
LEMMA KindsAre ==
  ASSUME NEW c
  PROVE  /\ c[1] = "write" =>
              /\ Len(Kinds(c)) = 5 /\ Kinds(c)[1] = "start" /\ Kinds(c)[2] = "byte" /\ Kinds(c)[3] = "byte"
              /\ Kinds(c)[4] = "byte" /\ Kinds(c)[5] = "stop"
         /\ c[1] = "read" =>
              /\ Len(Kinds(c)) = 7 /\ Kinds(c)[1] = "start" /\ Kinds(c)[2] = "byte" /\ Kinds(c)[3] = "byte"
              /\ Kinds(c)[4] = "start" /\ Kinds(c)[5] = "byte" /\ Kinds(c)[6] = "read" /\ Kinds(c)[7] = "stop"
BY DEF Kinds

LEMMA CallIs ==
  ASSUME NEW c, Shape(c)
  PROVE  /\ c[1] = "write" \/ c[1] = "read"
         /\ c[2] \in Registers /\ c[2] \in Byte /\ c[3] \in Byte
         /\ Address \in Byte /\ Address + 1 \in Byte /\ Address % 2 = 0 /\ (Address + 1) % 2 = 1
<1>1. PICK r \in Registers, v \in Byte : c = <<"write", r, v>> \/ c = <<"read", r, 0>>
  BY DEF Shape
<1>2. c[1] \in {"write", "read"} /\ c[2] = r /\ (c[3] = v \/ c[3] = 0)
  BY <1>1
<1>3. Registers \subseteq Byte /\ Address \in Byte /\ Address % 2 = 0
  BY I2cAssumption
<1>4. Address + 1 \in Byte /\ (Address + 1) % 2 = 1
  BY <1>3 DEF Byte
<1> QED BY <1>2, <1>3, <1>4 DEF Byte

LEMMA FunIs ==
  ASSUME NEW c, Shape(c), NEW j \in 1 .. Len(Kinds(c)), Kinds(c)[j] = "byte"
  PROVE  /\ j \in {2, 3} \/ (j = 4 /\ c[1] = "write") \/ (j = 5 /\ c[1] = "read")
         /\ ByteOf(c, j) \in Byte
<1>1. (j \in 1 .. 5 /\ j # 1 /\ j # 5) \/ (c[1] = "read" /\ j \in 1 .. 7 /\ j # 1 /\ j # 4 /\ j # 6 /\ j # 7)
  BY CallIs, KindsAre
<1>2. j \in {2, 3} \/ (j = 4 /\ c[1] = "write") \/ (j = 5 /\ c[1] = "read")
  BY <1>1, CallIs, KindsAre
<1> QED BY <1>2, CallIs DEF ByteOf

\* The registers of the device as the call may leave them.
Written == device'.regs = device.regs \/ (call[1] = "write" /\ device'.regs = [device.regs EXCEPT ![call[2]] = call[3]])

\* Behind the answer the device is where the next function expects it.
LEMMA ReleaseMoves ==
  ASSUME DeviceOK, PortOK, Shape(call), NEW j \in 1 .. Len(Kinds(call)), Kinds(call)[j] = "byte",
         Released(j), Known(j), call[1] = "read" /\ j < 6 => ret = 0,
         ops # <<>>, Head(ops) = scl(0), I2cStep
  PROVE  Steady /\ DeviceOK' /\ Written /\ FunInv(j + 1, 1)' /\ ops' = Tail(ops)
<1>1. /\ Steady /\ SclIs(0)' /\ ops' = Tail(ops) /\ SdaSafe'
  BY SclDown DEF Released, SdaSafe
<1>2. call' = call /\ answered' = answered /\ ret' = ret
  BY <1>1 DEF Steady
<1>3. device' = Take(device)
  <2>1. PICK ok \in BOOLEAN : device' = Fall(device, ok)
    BY SclDown DEF Released
  <2>2. device.mode = "ack"
    BY DEF Released, Answers
  <2> QED BY <2>1, <2>2 DEF Fall
<1>4. device.stage = StageOf(j) /\ device.byte = ByteOf(call, j) /\ Heard
  BY DEF Released, Answers
<1>5. /\ j \in {2, 3} \/ (j = 4 /\ call[1] = "write") \/ (j = 5 /\ call[1] = "read")
      /\ call[1] \in {"write", "read"} /\ call[2] \in Registers /\ call[2] \in Byte /\ call[3] \in Byte
      /\ Address % 2 = 0 /\ (Address + 1) % 2 = 1
  BY FunIs, CallIs
<1>6. CASE j = 2
  <2>1. device' = Listen(device, "pointer")
    BY <1>3, <1>4, <1>5, <1>6, TakeIs DEF DeviceOK, StageOf, ByteOf
  <2>2. /\ DeviceOK' /\ device'.regs = device.regs
        /\ device'.mode = "receive" /\ device'.stage = "pointer" /\ device'.byte = 0 /\ device'.count = 0 /\ device'.drive = 1
    BY <2>1, ListenIs, Names DEF DeviceOK
  <2>3. BitInv(3, 0, 0)'
    BY <1>1, <1>2, <1>4, <1>5, <2>2, TopCases DEF BitInv, Hears, StageOf, ByteOf, Heard
  <2>4. ByteInv(3, 1)'
    BY <2>3 DEF ByteInv
  <2>5. Kinds(call)[3] = "byte"
    BY <1>5, KindsAre
  <2>6. KnownAt(3, 1)'
    BY <1>2, <2>5 DEF KnownAt, Known
  <2>7. FunInv(3, 1)'
    BY <1>2, <1>6, <2>4, <2>5, <2>6 DEF FunInv
  <2> QED BY <1>1, <1>6, <2>2, <2>7 DEF Written
<1>7. CASE j = 3
  <2>1. PICK e \in Devices : e.ptr = device.byte /\ e.regs = device.regs /\ device' = Listen(e, "data")
    BY <1>3, <1>4, <1>7, TakeIs DEF DeviceOK, StageOf
  <2>2. /\ DeviceOK' /\ device'.regs = device.regs /\ device'.ptr = call[2]
        /\ device'.mode = "receive" /\ device'.stage = "data" /\ device'.byte = 0 /\ device'.count = 0 /\ device'.drive = 1
    <3>1. e.ptr = call[2]
      BY <1>4, <1>7, <2>1 DEF ByteOf
    <3> QED BY <2>1, <3>1, ListenIs, Names DEF DeviceOK
  <2>3. CASE call[1] = "write"
    <3>1. BitInv(4, 0, 0)'
      BY <1>1, <1>2, <1>4, <1>5, <2>2, TopCases DEF BitInv, Hears, StageOf, ByteOf, Heard
    <3>2. ByteInv(4, 1)'
      BY <3>1 DEF ByteInv
    <3>3. Kinds(call)[4] = "byte"
      BY <2>3, KindsAre
    <3>4. KnownAt(4, 1)'
      BY <1>2, <2>2, <2>3, <3>3 DEF KnownAt, Known
    <3>5. FunInv(4, 1)'
      BY <1>2, <1>7, <2>3, <3>2, <3>3, <3>4 DEF FunInv
    <3> QED BY <1>1, <1>7, <2>2, <3>5 DEF Written
  <2>4. CASE call[1] = "read"
    <3>1. StartInv(4, 1)'
      BY <1>1, <2>2 DEF StartInv, Fresh
    <3>2. Kinds(call)[4] = "start"
      BY <2>4, KindsAre
    <3>3. KnownAt(4, 1)'
      BY <1>2, <2>2, <2>4, <3>2 DEF KnownAt, Known
    <3>4. FunInv(4, 1)'
      BY <1>2, <1>7, <2>4, <3>1, <3>2, <3>3 DEF FunInv
    <3> QED BY <1>1, <1>7, <2>2, <3>4 DEF Written
  <2> QED BY <1>5, <2>3, <2>4
<1>8. CASE j = 4 /\ call[1] = "write"
  <2>1. PICK e \in Devices : /\ e.regs = [r \in Registers |-> IF r = device.ptr THEN device.byte ELSE device.regs[r]]
                             /\ device' = Listen(e, "data")
    <3>1. device.stage = "data" /\ device \in Devices
      BY <1>4, <1>8 DEF StageOf, DeviceOK
    <3> QED BY <1>3, <3>1, TakeIs, Zenon
  <2>2. answered /\ device.ptr = call[2] /\ device.byte = call[3]
    BY <1>4, <1>8 DEF Known, Heard, ByteOf
  <2>3. /\ DeviceOK' /\ device'.regs = e.regs
        /\ device'.mode = "receive" /\ device'.count = 0 /\ device'.drive = 1
    BY <2>1, ListenIs, Names DEF DeviceOK
  <2>4. device.regs \in [Registers -> Byte]
    BY DEF DeviceOK, Devices
  <2>5. device'.regs = [device.regs EXCEPT ![call[2]] = call[3]]
    BY <2>1, <2>2, <2>3, <2>4
  <2>6. device'.regs[call[2]] = call[3]
    BY <1>5, <2>4, <2>5
  <2>7. StopInv(1)'
    BY <1>1, <2>3 DEF StopInv, Fresh
  <2>8. Kinds(call)[5] = "stop"
    BY <1>8, KindsAre
  <2>9. KnownAt(5, 1)'
    BY <1>2, <1>8, <2>6, <2>8 DEF KnownAt, Known
  <2>10. FunInv(5, 1)'
    BY <1>2, <1>8, <2>7, <2>8, <2>9 DEF FunInv
  <2> QED BY <1>1, <1>8, <2>3, <2>5, <2>10 DEF Written
<1>9. CASE j = 5 /\ call[1] = "read"
  <2>1. device.ptr \in Byte
    BY DEF DeviceOK, Devices
  <2>2. device' = Talk(device, device.ptr)
    BY <1>3, <1>4, <1>5, <1>9, TakeIs DEF DeviceOK, StageOf, ByteOf
  <2>3. /\ DeviceOK' /\ device'.regs = device.regs /\ device'.mode = "send" /\ device'.count = 0
        /\ device'.drive = BitOf(device'.byte, 7)
        /\ device.ptr \in Registers => device'.byte = device.regs[device.ptr]
    BY <2>1, <2>2, TalkIs DEF DeviceOK
  <2>4. answered => device'.byte = device'.regs[call[2]]
    BY <1>5, <1>9, <2>3 DEF Known
  <2>5. Sends(0)'
    BY <2>3 DEF Sends
  <2>6. ReadInv(1)'
    BY <1>1, <1>2, <1>9, <2>5 DEF ReadInv
  <2>7. Kinds(call)[6] = "read"
    BY <1>9, KindsAre
  <2>8. KnownAt(6, 1)'
    BY <1>2, <1>9, <2>4, <2>7 DEF KnownAt, Known
  <2>9. FunInv(6, 1)'
    BY <1>2, <1>9, <2>6, <2>7, <2>8 DEF FunInv
  <2> QED BY <1>1, <1>9, <2>3, <2>9 DEF Written
<1> QED BY <1>5, <1>6, <1>7, <1>8, <1>9

-----------------------------------------------------------------------------
(* Giving up, reading and stopping                                         *)

LEMMA GiveUpMoves ==
  ASSUME DeviceOK, PortOK, NEW n \in 1 .. 3, GivingUp(n), ops # <<>>, Head(ops) = i2c_stop[n], I2cStep
  PROVE  /\ Steady /\ DeviceOK' /\ Keeps
         /\ \/ ops' = ops /\ GivingUp(n)'
            \/ ops' = Tail(ops) /\ n < 3 /\ GivingUp(n + 1)'
            \/ ops' = Tail(ops) /\ n = 3 /\ Unanswered'
<1>1. i2c_stop[1] = sda(0) /\ i2c_stop[2] = scl(1) /\ i2c_stop[3] = sda(1)
  BY DEF i2c_stop
<1>2. /\ AtRest(device).mode = "idle" /\ AtRest(device).drive = 1 /\ Listen(device, "address").drive = 1
  BY RestIs, ListenIs, Names DEF DeviceOK
<1>3. ~answered /\ SclIs(1) /\ device.drive = 1
  BY DEF GivingUp
<1>4. CASE n = 1
  <2>1. dr["sda"] = 1 /\ Head(ops) = sda(0)
    BY <1>1, <1>4 DEF GivingUp
  <2>2. Steady /\ DeviceOK' /\ Keeps
    BY <2>1, SdaRanges
  <2>3. /\ SclIs(1)'
        /\ \/ dr' = dr /\ ops' = ops /\ device' = device
           \/ SdaIs(0)' /\ ops' = Tail(ops) /\ device' = Listen(device, "address")
    BY <1>3, <2>1, SdaHigh DEF SdaSafe
  <2>4. ~answered'
    BY <1>3, <2>2 DEF Steady
  <2> QED BY <1>2, <1>3, <1>4, <2>1, <2>2, <2>3, <2>4 DEF GivingUp
<1>5. CASE n = 2
  <2>1. SdaIs(0) /\ Head(ops) = scl(1)
    BY <1>1, <1>5 DEF GivingUp
  <2>2. Steady /\ DeviceOK' /\ Keeps /\ SclIs(1)' /\ SdaIs(0)' /\ ops' = Tail(ops) /\ device' = device
    BY <1>3, <2>1, SclSame DEF SdaIs, SclIs
  <2>4. ~answered'
    BY <1>3, <2>2 DEF Steady
  <2> QED BY <1>3, <1>5, <2>2, <2>4 DEF GivingUp
<1>6. CASE n = 3
  <2>1. SdaIs(0) /\ Head(ops) = sda(1)
    BY <1>1, <1>6 DEF GivingUp
  <2>2. Steady /\ DeviceOK' /\ Keeps
    BY <2>1, SdaRanges
  <2>3. SclIs(1)' /\ SdaIs(1)' /\ ops' = Tail(ops) /\ device' = AtRest(device)
    BY <1>3, <2>1, SdaHigh DEF SdaSafe, SdaIs
  <2>4. ~answered'
    BY <1>3, <2>2 DEF Steady
  <2> QED BY <1>2, <1>6, <2>2, <2>3, <2>4 DEF Unanswered, Idle, SdaIs
<1> QED BY <1>4, <1>5, <1>6

\* Behind i2c_stop both lines are high and the device waits for a start.
Calm == Level(ddr, dr, "scl") = 1 /\ Level(ddr, dr, "sda") = 1 /\ Idle

LEMMA StopMoves ==
  ASSUME DeviceOK, PortOK, NEW n \in 1 .. 3, StopInv(n), ops # <<>>, Head(ops) = i2c_stop[n], I2cStep
  PROVE  /\ Steady /\ DeviceOK' /\ Keeps
         /\ \/ ops' = ops /\ StopInv(n)'
            \/ ops' = Tail(ops) /\ n < 3 /\ StopInv(n + 1)'
            \/ ops' = Tail(ops) /\ n = 3 /\ Calm'
<1>1. i2c_stop[1] = sda(0) /\ i2c_stop[2] = scl(1) /\ i2c_stop[3] = sda(1)
  BY DEF i2c_stop
<1>2. /\ AtRest(device).mode = "idle" /\ AtRest(device).drive = 1 /\ Listen(device, "address").drive = 1
  BY RestIs, ListenIs, Names DEF DeviceOK
<1>4. CASE n = 1
  <2>1. Head(ops) = sda(0)
    BY <1>1, <1>4
  <2>2. Steady /\ DeviceOK' /\ Keeps
    BY <2>1, SdaRanges
  <2>3. CASE SclIs(0) /\ SdaSafe /\ (Idle \/ Fresh)
    <3>1. /\ device' = device /\ SclIs(0)'
          /\ \/ ddr'["sda"] = 1 /\ ops' = ops
             \/ SdaIs(0)' /\ ops' = Tail(ops)
      BY <2>1, <2>3, SdaLow
    <3> QED BY <1>4, <2>2, <2>3, <3>1 DEF StopInv, Idle, Fresh, SdaSafe
  <2>4. CASE Unanswered
    <3>1. /\ SclIs(1)'
          /\ \/ dr' = dr /\ ops' = ops /\ device' = device
             \/ SdaIs(0)' /\ ops' = Tail(ops) /\ device' = Listen(device, "address")
      BY <2>1, <2>4, SdaHigh DEF SdaSafe, Unanswered, Idle
    <3>2. ~answered'
      BY <2>2, <2>4 DEF Steady, Unanswered
    <3> QED BY <1>2, <1>4, <2>2, <2>4, <3>1, <3>2 DEF StopInv, Unanswered, Idle
  <2> QED BY <1>4, <2>3, <2>4 DEF StopInv
<1>5. CASE n = 2
  <2>1. SdaIs(0) /\ Head(ops) = scl(1) /\ ((SclIs(0) /\ (Idle \/ Fresh)) \/ (SclIs(1) /\ device.drive = 1))
    BY <1>1, <1>5 DEF StopInv
  <2>2. CASE SclIs(0) /\ (Idle \/ Fresh)
    <3>1. /\ Steady /\ DeviceOK' /\ Keeps /\ SclIs(1)' /\ SdaIs(0)' /\ ops' = Tail(ops)
          /\ device' = Rise(device, Sda(ddr, dr)) /\ Sda(ddr, dr) \in 0 .. 1
      BY <2>1, <2>2, SclUp DEF SdaIs
    <3>2. device'.drive = 1
      BY <2>2, <3>1, RiseIs DEF DeviceOK, Idle, Fresh
    <3> QED BY <1>5, <3>1, <3>2 DEF StopInv
  <2>3. CASE SclIs(1) /\ device.drive = 1
    <3>1. Steady /\ DeviceOK' /\ Keeps /\ SclIs(1)' /\ SdaIs(0)' /\ ops' = Tail(ops) /\ device' = device
      BY <2>1, <2>3, SclSame DEF SdaIs, SclIs
    <3> QED BY <1>5, <2>3, <3>1 DEF StopInv
  <2> QED BY <2>1, <2>2, <2>3
<1>6. CASE n = 3
  <2>1. SdaIs(0) /\ Head(ops) = sda(1) /\ SclIs(1) /\ device.drive = 1
    BY <1>1, <1>6 DEF StopInv
  <2>2. Steady /\ DeviceOK' /\ Keeps
    BY <2>1, SdaRanges
  <2>3. SclIs(1)' /\ SdaIs(1)' /\ ops' = Tail(ops) /\ device' = AtRest(device)
    BY <2>1, SdaHigh DEF SdaSafe, SdaIs
  <2> QED BY <1>2, <1>6, <2>2, <2>3 DEF Calm, Idle, SdaIs, SclIs, Level
<1> QED BY <1>4, <1>5, <1>6

LEMMA SampleMoves ==
  ASSUME DeviceOK, PortOK, NEW k \in 0 .. 7, NEW r \in 0 .. 2, SampleInv(k, r),
         ops # <<>>, Head(ops) = <<scl(1), Sample, scl(0)>>[r + 1], I2cStep
  PROVE  /\ UNCHANGED <<call, calls, answered>> /\ PortOK' /\ DeviceOK' /\ Keeps /\ ops' = Tail(ops)
         /\ answered => device'.byte = device.byte
         /\ r < 2 => SampleInv(k, r + 1)'
         /\ r = 2 /\ k < 7 => SampleInv(k + 1, 0)'
         /\ r = 2 /\ k = 7 => ReadInv(26)' /\ (answered => ret' = device.byte)
<1> DEFINE Good == Sends(k) /\ ret = Top(device.byte, IF r = 2 THEN k + 1 ELSE k) /\ SclIs(IF r = 0 THEN 0 ELSE 1)
           Bad == /\ ~answered /\ Idle /\ ret <= Top(255, IF r = 2 THEN k + 1 ELSE k)
                  /\ SclIs(IF r = 0 /\ k > 0 THEN 0 ELSE 1)
<1>1. dr["sda"] = 1 /\ (Good \/ Bad)
  BY DEF SampleInv
<1>2. device.byte \in Byte /\ device.count \in 0 .. 8 /\ device.drive \in 0 .. 1 /\ ret \in Byte
  BY DEF DeviceOK, Devices, PortOK
<1>3. PICK b \in Byte, bit \in 0 .. 1 : b = device.byte /\ bit = BitOf(b, 7 - k)
  BY <1>2, BitRange
<1>4. Top(b, k + 1) = 2 * Top(b, k) + bit /\ Top(b, k + 1) \in Byte
      /\ Top(255, k + 1) = 2 * Top(255, k) + 1 /\ Top(255, k) \in Byte /\ Top(255, k + 1) \in Byte
  BY <1>3, TopStep, TopOnes
<1>5. Sends(k) => device.mode = "send" /\ device.count = k /\ device.drive = bit
  BY <1>3 DEF Sends
<1>6. Steady => UNCHANGED <<call, calls, answered>> /\ ret' = ret /\ PortOK' /\ (answered' <=> answered)
  BY DEF Steady
<1>7. CASE r = 0
  <2>1. Head(ops) = scl(1)
    BY <1>7
  <2>2. SclIs(0) \/ (SclIs(1) /\ k = 0 /\ Bad)
    BY <1>1, <1>7
  <2>3. /\ Steady /\ DeviceOK' /\ Keeps /\ SclIs(1)' /\ dr'["sda"] = 1 /\ ops' = Tail(ops) /\ device' = device
    <3>1. CASE SclIs(0)
      <4>1. /\ Steady /\ DeviceOK' /\ Keeps /\ SclIs(1)' /\ dr'["sda"] = 1 /\ ops' = Tail(ops)
            /\ device' = Rise(device, Sda(ddr, dr)) /\ Sda(ddr, dr) \in 0 .. 1
        BY <1>1, <2>1, <3>1, SclUp
      <4>2. device.mode \in {"idle", "send"}
        BY <1>1, <1>5 DEF Idle
      <4> QED BY <4>1, <4>2, RiseIs DEF DeviceOK
    <3>2. CASE SclIs(1)
      BY <1>1, <2>1, <3>2, SclSame DEF SclIs
    <3> QED BY <2>2, <3>1, <3>2
  <2>4. SampleInv(k, 1)'
    BY <1>1, <1>6, <1>7, <2>3 DEF SampleInv, Sends, Idle
  <2> QED BY <1>6, <1>7, <2>3, <2>4
<1>8. CASE r = 1
  <2>1. Head(ops) = Sample
    BY <1>8
  <2>2. /\ UNCHANGED <<call, errtime, calls, answered, device, dr>> /\ ddr' = [ddr EXCEPT !["sda"] = 0]
        /\ ops' = Tail(ops) /\ ret' = 2 * ret + device.drive
    BY <1>1, <2>1, SampleStep
  <2>3. ddr' \in [{"sda", "scl"} -> 0 .. 1] /\ SclIs(1)' /\ (answered' <=> answered)
    BY <1>1, <1>8, <2>2 DEF PortOK, SclIs
  <2>4. (Good /\ ret' = Top(b, k + 1)) \/ (Bad /\ ret' <= Top(255, k + 1))
    <3>1. CASE Good
      BY <1>3, <1>4, <1>5, <1>8, <2>2, <3>1
    <3>2. CASE Bad
      <4>1. PICK low \in Byte, high \in Byte, was \in Byte :
              low = Top(255, k) /\ high = Top(255, k + 1) /\ was = ret
        BY <1>2, <1>4
      <4>2. high = 2 * low + 1
        BY <1>4, <4>1
      <4>3. was <= low /\ ret' = 2 * was + 1
        BY <1>8, <2>2, <3>2, <4>1 DEF Idle
      <4>4. ret' <= high
        BY <4>2, <4>3 DEF Byte
      <4> QED BY <3>2, <4>1, <4>4
    <3> QED BY <1>1, <3>1, <3>2
  <2>5. ret' \in Byte
    <3>1. PICK bound \in Byte : ret' <= bound
      <4>1. CASE ret' = Top(b, k + 1)
        <5>1. PICK high \in Byte : high = Top(b, k + 1)
          BY <1>4
        <5>2. ret' = high
          BY <4>1, <5>1
        <5>3. high <= high
          BY DEF Byte
        <5> QED BY <5>2, <5>3
      <4>2. CASE ret' <= Top(255, k + 1)
        BY <1>4, <4>2
      <4> QED BY <2>4, <4>1, <4>2
    <3>2. PICK was \in Byte, drive \in 0 .. 1 : was = ret /\ drive = device.drive
      BY <1>2
    <3>3. ret' = 2 * was + drive
      BY <2>2, <3>2
    <3>4. 2 * was + drive \in Byte
      BY <3>1, <3>3 DEF Byte
    <3> QED BY <3>3, <3>4
  <2>6. PortOK'
    BY <2>2, <2>3, <2>5 DEF PortOK
  <2>7. SampleInv(k, 2)'
    BY <1>1, <1>3, <1>8, <2>2, <2>3, <2>4 DEF SampleInv, Sends, Idle
  <2> QED BY <1>8, <2>2, <2>6, <2>7 DEF Keeps, DeviceOK
<1>9. CASE r = 2
  <2>1. Head(ops) = scl(0) /\ SclIs(1)
    BY <1>1, <1>9
  <2>2. device.mode \in {"idle", "send"} /\ (device.mode = "send" => device.count < 8)
    BY <1>1, <1>5 DEF Idle
  <2>3. Steady /\ DeviceOK' /\ Keeps /\ SclIs(0)' /\ dr'["sda"] = 1 /\ ops' = Tail(ops)
    BY <1>1, <2>1, <2>2, SclDown, SclDownCalm
  <2>4. PICK ok \in BOOLEAN : device' = Fall(device, ok)
    BY <2>1, SclDown
  <2>5. CASE Good
    <3>1. /\ device'.byte = device.byte
          /\ k = 7 => device'.mode = "wait" /\ device'.drive = 1
          /\ k < 7 => device'.mode = "send" /\ device'.count = k + 1 /\ device'.drive = BitOf(device.byte, 6 - k)
      BY <1>5, <2>2, <2>4, <2>5, FallIs DEF DeviceOK
    <3>2. CASE k < 7
      <4>1. 7 - (k + 1) = 6 - k
        OBVIOUS
      <4>2. SampleInv(k + 1, 0)'
        BY <1>6, <1>9, <2>3, <2>5, <3>1, <3>2, <4>1 DEF SampleInv, Sends
      <4> QED BY <1>6, <1>9, <2>3, <3>1, <3>2, <4>2
    <3>3. CASE k = 7
      <4>1. ReadInv(26)'
        BY <2>3, <3>1, <3>3 DEF ReadInv
      <4>2. ret = b
        BY <1>3, <1>9, <2>5, <3>3, TopCases
      <4> QED BY <1>3, <1>6, <1>9, <2>3, <3>1, <3>3, <4>1, <4>2
    <3> QED BY <3>2, <3>3
  <2>6. CASE Bad
    <3>1. device' = device
      BY <2>4, <2>6, FallIs DEF DeviceOK, Idle
    <3>2. CASE k < 7
      <4>1. SampleInv(k + 1, 0)'
        BY <1>6, <1>9, <2>3, <2>6, <3>1, <3>2 DEF SampleInv, Idle
      <4> QED BY <1>6, <1>9, <2>3, <3>1, <3>2, <4>1
    <3>3. CASE k = 7
      <4>1. ReadInv(26)'
        BY <2>3, <2>6, <3>1, <3>3 DEF ReadInv, Idle
      <4> QED BY <1>6, <1>9, <2>3, <2>6, <3>1, <3>3, <4>1
    <3> QED BY <3>2, <3>3
  <2> QED BY <1>1, <2>5, <2>6
<1> QED BY <1>7, <1>8, <1>9

LEMMA ReadIs ==
  ASSUME NEW n \in 1 .. 29, NEW k \in 0 .. 7, NEW r \in 0 .. 2, n = 3 * k + r + 2
  PROVE  (ReadInv(n) <=> SampleInv(k, r)) /\ (ReadInv(n)' <=> SampleInv(k, r)')
<1>1. n # 1 /\ n <= 25
  OBVIOUS
<1>2. (n - 2) \div 3 = k /\ (n - 2) % 3 = r
  OBVIOUS
<1> QED BY <1>1, <1>2 DEF ReadInv

LEMMA ReadMoves ==
  ASSUME DeviceOK, PortOK, NEW n \in 1 .. 29, ReadInv(n), ops # <<>>, I2cStep,
         n = 1 => Head(ops) = sda(1),
         n \in 2 .. 25 => Head(ops) = <<scl(1), Sample, scl(0)>>[((n - 2) % 3) + 1],
         n > 25 => Head(ops) = i2c_w_ack(1)[n - 25]
  PROVE  /\ UNCHANGED <<call, calls, answered>> /\ PortOK' /\ DeviceOK' /\ Keeps
         /\ n < 26 => (answered => device'.byte = device.byte)
         /\ n = 25 => (answered => ret' = device.byte)
         /\ n > 25 => ret' = ret
         /\ \/ ops' = ops /\ ReadInv(n)' /\ n # 25
            \/ ops' = Tail(ops) /\ n < 29 /\ ReadInv(n + 1)'
            \/ ops' = Tail(ops) /\ n = 29 /\ StopInv(1)'
<1>1. i2c_w_ack(1)[1] = scl(0) /\ i2c_w_ack(1)[2] = sda(1) /\ i2c_w_ack(1)[3] = scl(1) /\ i2c_w_ack(1)[4] = scl(0)
  BY DEF i2c_w_ack
<1>2. Steady => UNCHANGED <<call, calls, answered>> /\ ret' = ret /\ PortOK' /\ (answered' <=> answered)
  BY DEF Steady
<1>3. device.byte \in Byte
  BY DEF DeviceOK, Devices
<1>4. CASE n = 1
  <2>1. Head(ops) = sda(1) /\ ret = 0 /\ ((SclIs(0) /\ SdaSafe /\ Sends(0)) \/ Unanswered)
    BY <1>4 DEF ReadInv
  <2>2. Steady /\ DeviceOK' /\ Keeps
    BY <2>1, SdaRanges
  <2>3. Top(255, 0) = 0 /\ Top(device.byte, 0) = 0
    <3>1. 255 \in Byte
      BY DEF Byte
    <3> QED BY <1>3, <3>1, TopCases
  <2>4. CASE SclIs(0) /\ SdaSafe /\ Sends(0)
    <3>1. /\ device' = device /\ SclIs(0)'
          /\ \/ ddr'["sda"] = 1 /\ ops' = ops
             \/ SdaIs(1)' /\ ops' = Tail(ops)
      BY <2>1, <2>4, SdaLow
    <3>2. CASE ddr'["sda"] = 1 /\ ops' = ops
      <4>1. ReadInv(1)'
        BY <1>2, <2>1, <2>2, <2>4, <3>1, <3>2 DEF ReadInv, Sends, SdaSafe
      <4> QED BY <1>2, <1>4, <2>2, <3>1, <3>2, <4>1
    <3>3. CASE SdaIs(1)' /\ ops' = Tail(ops)
      <4>1. SampleInv(0, 0)'
        BY <1>2, <2>1, <2>2, <2>3, <2>4, <3>1, <3>3 DEF SampleInv, Sends, SdaIs
      <4>2. ReadInv(2)'
        BY <4>1 DEF ReadInv
      <4> QED BY <1>2, <1>4, <2>2, <3>1, <3>3, <4>2
    <3> QED BY <3>1, <3>2, <3>3
  <2>5. CASE Unanswered
    <3>1. /\ SclIs(1)'
          /\ \/ dr' = dr /\ ops' = ops /\ device' = device
             \/ SdaIs(1)' /\ ops' = Tail(ops) /\ device' = device
      BY <2>1, <2>5, SdaHigh DEF SdaSafe, Unanswered, Idle
    <3>2. Idle' /\ ~answered'
      BY <1>2, <2>2, <2>5, <3>1 DEF Unanswered, Idle
    <3>3. CASE dr' = dr /\ ops' = ops
      <4>1. ReadInv(1)'
        BY <1>2, <2>1, <2>2, <2>5, <3>1, <3>2, <3>3 DEF ReadInv, Unanswered
      <4> QED BY <1>2, <1>4, <2>2, <3>1, <3>3, <4>1
    <3>4. CASE SdaIs(1)' /\ ops' = Tail(ops)
      <4>1. SampleInv(0, 0)'
        BY <1>2, <2>1, <2>2, <2>3, <2>5, <3>1, <3>2, <3>4 DEF SampleInv, SdaIs
      <4>2. ReadInv(2)'
        BY <4>1 DEF ReadInv
      <4> QED BY <1>2, <1>4, <2>2, <3>1, <3>4, <4>2
    <3> QED BY <3>1, <3>3, <3>4
  <2> QED BY <2>1, <2>4, <2>5
<1>5. CASE n \in 2 .. 25
  <2>1. PICK k \in 0 .. 7, r \in 0 .. 2 : k = (n - 2) \div 3 /\ r = (n - 2) % 3
    <3>1. (n - 2) \div 3 \in 0 .. 7 /\ (n - 2) % 3 \in 0 .. 2
      BY <1>5
    <3> QED BY <3>1
  <2>2. n = 3 * k + r + 2
    BY <1>5, <2>1
  <2>3. SampleInv(k, r)
    BY <2>2, ReadIs
  <2>4. Head(ops) = <<scl(1), Sample, scl(0)>>[r + 1]
    BY <1>5, <2>1
  <2>5. /\ UNCHANGED <<call, calls, answered>> /\ PortOK' /\ DeviceOK' /\ Keeps /\ ops' = Tail(ops)
        /\ answered => device'.byte = device.byte
        /\ r < 2 => SampleInv(k, r + 1)'
        /\ r = 2 /\ k < 7 => SampleInv(k + 1, 0)'
        /\ r = 2 /\ k = 7 => ReadInv(26)' /\ (answered => ret' = device.byte)
    BY <2>3, <2>4, SampleMoves
  <2>6. n = 25 <=> r = 2 /\ k = 7
    BY <2>2
  <2>7. CASE r < 2
    <3>1. n + 1 \in 1 .. 29 /\ r + 1 \in 0 .. 2 /\ n + 1 = 3 * k + (r + 1) + 2
      BY <2>2, <2>7
    <3>2. ReadInv(n + 1)'
      BY <2>5, <2>7, <3>1, ReadIs
    <3>3. n < 26 /\ ~(n > 25) /\ n < 29 /\ n # 25
      BY <1>5, <2>6, <2>7
    <3> QED BY <2>5, <3>2, <3>3, Zenon
  <2>8. CASE r = 2 /\ k < 7
    <3>1. n + 1 # 1 /\ n + 1 <= 25 /\ (n + 1 - 2) \div 3 = k + 1 /\ (n + 1 - 2) % 3 = 0
      BY <2>2, <2>8
    <3>2. ReadInv(n + 1)'
      <4>1. SampleInv(k + 1, 0)'
        BY <2>5, <2>8
      <4> QED BY <3>1, <4>1 DEF ReadInv
    <3>3. n < 26 /\ ~(n > 25) /\ n < 29 /\ n # 25
      BY <1>5, <2>6, <2>8
    <3> QED BY <2>5, <3>2, <3>3, Zenon
  <2>9. CASE r = 2 /\ k = 7
    <3>1. n + 1 = 26
      BY <2>2, <2>9
    <3> QED BY <1>5, <2>5, <2>6, <2>9, <3>1
  <2> QED BY <2>7, <2>8, <2>9
<1>6. CASE n \in 26 .. 28
  <2>1. /\ dr["sda"] = 1 /\ (n = 28 => ddr["sda"] = 1) /\ SclIs(0)
        /\ device.mode \in {"idle", "wait"} /\ device.drive = 1
    <3>1. n # 1 /\ ~(n <= 25) /\ n <= 28
      BY <1>6
    <3> QED BY <3>1 DEF ReadInv
  <2>2. CASE n = 26
    <3>1. Head(ops) = scl(0)
      BY <1>1, <2>2
    <3>2. Steady /\ device' = device /\ DeviceOK' /\ Keeps /\ UNCHANGED <<ddr, dr>> /\ ops' = Tail(ops)
      BY <2>1, <3>1, SclSame
    <3>3. ReadInv(27)'
      BY <2>1, <3>2 DEF ReadInv, SclIs
    <3> QED BY <1>2, <2>2, <3>2, <3>3
  <2>3. CASE n = 27
    <3>1. Head(ops) = sda(1)
      BY <1>1, <2>3
    <3>2. Steady /\ DeviceOK' /\ Keeps
      BY <3>1, SdaRanges
    <3>3. /\ device' = device /\ SclIs(0)'
          /\ \/ dr' = dr /\ ops' = ops
             \/ SdaIs(1)' /\ ops' = Tail(ops)
      BY <2>1, <3>1, SdaLow
    <3>4. CASE dr' = dr /\ ops' = ops
      <4>1. ReadInv(27)'
        BY <2>1, <3>3, <3>4 DEF ReadInv
      <4> QED BY <1>2, <2>3, <3>2, <3>4, <4>1
    <3>5. CASE SdaIs(1)' /\ ops' = Tail(ops)
      <4>1. ReadInv(28)'
        BY <2>1, <3>3, <3>5 DEF ReadInv, SdaIs
      <4> QED BY <1>2, <2>3, <3>2, <3>5, <4>1
    <3> QED BY <3>3, <3>4, <3>5
  <2>4. CASE n = 28
    <3>1. Head(ops) = scl(1) /\ SdaIs(1)
      BY <1>1, <2>1, <2>4 DEF SdaIs
    <3>2. Sda(ddr, dr) = 1
      BY <2>1, <3>1 DEF Sda, Level, SdaIs
    <3>3. /\ Steady /\ DeviceOK' /\ Keeps /\ SclIs(1)' /\ SdaIs(1)' /\ ops' = Tail(ops) /\ device' = Rise(device, 1)
      BY <2>1, <3>1, <3>2, SclUp DEF SdaIs
    <3>4. Idle'
      <4>1. CASE device.mode = "idle"
        <5>1. device' = device
          BY <3>3, <4>1, RiseIs DEF DeviceOK
        <5> QED BY <2>1, <4>1, <5>1 DEF Idle
      <4>2. CASE device.mode = "wait"
        BY <3>3, <4>2, RiseIs DEF DeviceOK, Idle
      <4> QED BY <2>1, <4>1, <4>2
    <3>5. ReadInv(29)'
      BY <3>3, <3>4 DEF ReadInv
    <3> QED BY <1>2, <2>4, <3>3, <3>5
  <2> QED BY <1>6, <2>2, <2>3, <2>4
<1>7. CASE n = 29
  <2>1. Head(ops) = scl(0) /\ SdaIs(1) /\ SclIs(1) /\ Idle
    BY <1>1, <1>7 DEF ReadInv
  <2>2. /\ Steady /\ DeviceOK' /\ Keeps /\ SclIs(0)' /\ SdaIs(1)' /\ ops' = Tail(ops)
    BY <2>1, SclDown, SclDownCalm DEF SdaIs, Idle
  <2>3. device' = device
    BY <2>1, SclDown, FallIs DEF DeviceOK, Idle
  <2>4. StopInv(1)'
    BY <2>1, <2>2, <2>3 DEF StopInv, Idle, SdaIs, SdaSafe
  <2> QED BY <1>2, <1>7, <2>2, <2>4
<1>8. n = 1 \/ n \in 2 .. 25 \/ n \in 26 .. 28 \/ n = 29
  OBVIOUS
<1> QED BY <1>4, <1>5, <1>6, <1>7, <1>8, Zenon

-----------------------------------------------------------------------------
(* The accesses of the functions                                           *)

LEMMA AccessesAre ==
  /\ \A v \in 0 .. 1 : sda(v) \in Accesses /\ scl(v) \in Accesses
  /\ Poll \in Accesses /\ Sample \in Accesses
BY DEF Accesses, sda, scl, Poll, Sample

LEMMA ShortFuns ==
  /\ i2c_start \in Seq(Accesses) /\ Len(i2c_start) = 4
  /\ i2c_stop \in Seq(Accesses) /\ Len(i2c_stop) = 3
  /\ i2c_wait_ack \in Seq(Accesses) /\ Len(i2c_wait_ack) = 3
  /\ i2c_w_ack(1) \in Seq(Accesses) /\ Len(i2c_w_ack(1)) = 4
  /\ <<sda(1)>> \in Seq(Accesses) /\ Len(<<sda(1)>>) = 1
  /\ <<scl(0)>> \in Seq(Accesses) /\ Len(<<scl(0)>>) = 1
BY AccessesAre DEF i2c_start, i2c_stop, i2c_wait_ack, i2c_w_ack

LEMMA Joined ==
  ASSUME NEW S, NEW s \in Seq(S), NEW t \in Seq(S)
  PROVE  /\ s \o t \in Seq(S) /\ Len(s \o t) = Len(s) + Len(t)
         /\ \A i \in 1 .. Len(s) : (s \o t)[i] = s[i]
         /\ \A i \in (Len(s) + 1) .. (Len(s) + Len(t)) : (s \o t)[i] = t[i - Len(s)]
BY ConcatProperties

LEMMA TableSeq ==
  ASSUME NEW S, NEW m \in Nat, NEW f \in [1 .. m -> S]
  PROVE  f \in Seq(S) /\ Len(f) = m
OBVIOUS

LEMMA PlaceOfBit ==
  ASSUME NEW n \in 1 .. 24
  PROVE  (n - 1) \div 3 \in 0 .. 7 /\ ((n - 1) % 3) \in 0 .. 2
OBVIOUS

LEMMA ByteFun ==
  ASSUME NEW b \in Byte
  PROVE  /\ i2c_w_byte(b) \in Seq(Accesses) /\ Len(i2c_w_byte(b)) = 27
         /\ \A n \in 1 .. 24 : i2c_w_byte(b)[n] = BitAccess(b, (n - 1) \div 3)[((n - 1) % 3) + 1]
         /\ \A n \in 25 .. 27 : i2c_w_byte(b)[n] = i2c_wait_ack[n - 24]
<1> DEFINE bits == [n \in 1 .. 24 |-> BitAccess(b, (n - 1) \div 3)[((n - 1) % 3) + 1]]
<1>1. i2c_w_byte(b) = bits \o i2c_wait_ack
  <2> DEFINE access == [i \in 0 .. 7 |-> <<sda(BitOf(b, i)), scl(1), scl(0)>>]
  <2>1. \A n \in 1 .. 24 : access[7 - ((n - 1) \div 3)] = BitAccess(b, (n - 1) \div 3)
    BY PlaceOfBit DEF BitAccess
  <2> HIDE DEF access
  <2>2. EachBit(access) = bits
    BY <2>1 DEF EachBit
  <2> QED BY <2>2 DEF i2c_w_byte, access
<1>2. \A n \in 1 .. 24 : bits[n] \in Accesses
  <2> SUFFICES ASSUME NEW n \in 1 .. 24 PROVE bits[n] \in Accesses
    OBVIOUS
  <2>1. PICK k \in 0 .. 7, r \in 0 .. 2 : k = (n - 1) \div 3 /\ r = (n - 1) % 3
    BY PlaceOfBit
  <2>2. BitOf(b, 7 - k) \in 0 .. 1
    BY BitRange
  <2>3. bits[n] = BitAccess(b, k)[r + 1]
    BY <2>1
  <2>4. BitAccess(b, k)[1] \in Accesses /\ BitAccess(b, k)[2] \in Accesses /\ BitAccess(b, k)[3] \in Accesses
    BY <2>2, AccessesAre DEF BitAccess
  <2>5. r = 0 \/ r = 1 \/ r = 2
    OBVIOUS
  <2> QED BY <2>3, <2>4, <2>5
<1>3. bits \in Seq(Accesses) /\ Len(bits) = 24
  <2> HIDE DEF bits
  <2>1. bits \in [1 .. 24 -> Accesses]
    <3>1. bits = [n \in 1 .. 24 |-> bits[n]]
      BY DEF bits
    <3> QED BY <1>2, <3>1
  <2> QED BY <2>1, TableSeq
<1>4. \A n \in 1 .. 24 : bits[n] = BitAccess(b, (n - 1) \div 3)[((n - 1) % 3) + 1]
  OBVIOUS
<1> HIDE DEF bits
<1>5. /\ bits \o i2c_wait_ack \in Seq(Accesses) /\ Len(bits \o i2c_wait_ack) = 24 + 3
      /\ \A n \in 1 .. 24 : (bits \o i2c_wait_ack)[n] = bits[n]
      /\ \A n \in (24 + 1) .. (24 + 3) : (bits \o i2c_wait_ack)[n] = i2c_wait_ack[n - 24]
  <2>1. bits \in Seq(Accesses) /\ i2c_wait_ack \in Seq(Accesses) /\ Len(bits) = 24 /\ Len(i2c_wait_ack) = 3
    BY <1>3, ShortFuns
  <2>2. /\ bits \o i2c_wait_ack \in Seq(Accesses) /\ Len(bits \o i2c_wait_ack) = Len(bits) + Len(i2c_wait_ack)
        /\ \A i \in 1 .. Len(bits) : (bits \o i2c_wait_ack)[i] = bits[i]
        /\ \A i \in (Len(bits) + 1) .. (Len(bits) + Len(i2c_wait_ack)) : (bits \o i2c_wait_ack)[i] = i2c_wait_ack[i - Len(bits)]
    BY <2>1, Joined, ZenonT(60)
  <2> QED BY <2>1, <2>2
<1>6. 24 + 1 = 25 /\ 24 + 3 = 27
  OBVIOUS
<1> QED BY <1>1, <1>4, <1>5, <1>6

LEMMA ReadFun ==
  /\ i2c_r_byte(1) \in Seq(Accesses) /\ Len(i2c_r_byte(1)) = 29 /\ i2c_r_byte(1)[1] = sda(1)
  /\ \A n \in 2 .. 25 : i2c_r_byte(1)[n] = <<scl(1), Sample, scl(0)>>[((n - 2) % 3) + 1]
  /\ \A n \in 26 .. 29 : i2c_r_byte(1)[n] = i2c_w_ack(1)[n - 25]
<1> DEFINE bits == [n \in 1 .. 24 |-> <<scl(1), Sample, scl(0)>>[((n - 1) % 3) + 1]]
<1>1. i2c_r_byte(1) = (<<sda(1)>> \o bits) \o i2c_w_ack(1)
  <2> DEFINE access == [i \in 0 .. 7 |-> <<scl(1), Sample, scl(0)>>]
  <2>1. \A n \in 1 .. 24 : access[7 - ((n - 1) \div 3)] = <<scl(1), Sample, scl(0)>>
    BY PlaceOfBit
  <2> HIDE DEF access
  <2>2. EachBit(access) = bits
    BY <2>1 DEF EachBit
  <2> QED BY <2>2 DEF i2c_r_byte, access
<1>2. \A n \in 1 .. 24 : bits[n] \in Accesses
  <2> SUFFICES ASSUME NEW n \in 1 .. 24 PROVE bits[n] \in Accesses
    OBVIOUS
  <2>1. PICK r \in 0 .. 2 : r = (n - 1) % 3
    BY PlaceOfBit
  <2>2. bits[n] = <<scl(1), Sample, scl(0)>>[r + 1]
    BY <2>1
  <2>3. r = 0 \/ r = 1 \/ r = 2
    OBVIOUS
  <2> QED BY <2>2, <2>3, AccessesAre
<1>3. bits \in Seq(Accesses) /\ Len(bits) = 24
  <2> HIDE DEF bits
  <2>1. bits \in [1 .. 24 -> Accesses]
    <3>1. bits = [n \in 1 .. 24 |-> bits[n]]
      BY DEF bits
    <3> QED BY <1>2, <3>1
  <2> QED BY <2>1, TableSeq
<1>4. \A n \in 1 .. 24 : bits[n] = <<scl(1), Sample, scl(0)>>[((n - 1) % 3) + 1]
  OBVIOUS
<1> DEFINE one == <<sda(1)>>
           front == one \o bits
<1>9. i2c_r_byte(1) = front \o i2c_w_ack(1)
  BY <1>1
<1>10. one \in Seq(Accesses) /\ Len(one) = 1 /\ one[1] = sda(1)
  BY ShortFuns
<1> HIDE DEF bits, one
<1>5. /\ front \in Seq(Accesses) /\ Len(front) = 25 /\ front[1] = sda(1)
      /\ \A n \in 2 .. 25 : front[n] = bits[n - 1]
  <2>1. /\ one \o bits \in Seq(Accesses) /\ Len(one \o bits) = Len(one) + Len(bits)
        /\ \A i \in 1 .. Len(one) : (one \o bits)[i] = one[i]
        /\ \A i \in (Len(one) + 1) .. (Len(one) + Len(bits)) : (one \o bits)[i] = bits[i - Len(one)]
    BY <1>3, <1>10, Joined, ZenonT(60)
  <2>2. front \in Seq(Accesses) /\ Len(front) = 25
    BY <1>3, <1>10, <2>1
  <2>3. 1 \in 1 .. Len(one) /\ \A n \in 2 .. 25 : n \in (Len(one) + 1) .. (Len(one) + Len(bits)) /\ n - Len(one) = n - 1
    BY <1>3, <1>10
  <2>4. front[1] = one[1] /\ \A n \in 2 .. 25 : front[n] = bits[n - Len(one)]
    BY <2>1, <2>3, Zenon
  <2> QED BY <1>10, <2>2, <2>3, <2>4
<1>6. \A n \in 2 .. 25 : front[n] = <<scl(1), Sample, scl(0)>>[((n - 2) % 3) + 1]
  <2> SUFFICES ASSUME NEW n \in 2 .. 25
               PROVE  front[n] = <<scl(1), Sample, scl(0)>>[((n - 2) % 3) + 1]
    OBVIOUS
  <2>1. n - 1 \in 1 .. 24 /\ (n - 1) - 1 = n - 2
    OBVIOUS
  <2>2. bits[n - 1] = <<scl(1), Sample, scl(0)>>[(((n - 1) - 1) % 3) + 1]
    BY <1>4, <2>1
  <2> QED BY <1>5, <2>1, <2>2
<1> HIDE DEF front
<1>7. /\ front \o i2c_w_ack(1) \in Seq(Accesses) /\ Len(front \o i2c_w_ack(1)) = 25 + 4
      /\ \A n \in 1 .. 25 : (front \o i2c_w_ack(1))[n] = front[n]
      /\ \A n \in (25 + 1) .. (25 + 4) : (front \o i2c_w_ack(1))[n] = i2c_w_ack(1)[n - 25]
  <2>1. front \in Seq(Accesses) /\ i2c_w_ack(1) \in Seq(Accesses) /\ Len(front) = 25 /\ Len(i2c_w_ack(1)) = 4
    BY <1>5, ShortFuns
  <2>2. /\ front \o i2c_w_ack(1) \in Seq(Accesses) /\ Len(front \o i2c_w_ack(1)) = Len(front) + Len(i2c_w_ack(1))
        /\ \A i \in 1 .. Len(front) : (front \o i2c_w_ack(1))[i] = front[i]
        /\ \A i \in (Len(front) + 1) .. (Len(front) + Len(i2c_w_ack(1))) : (front \o i2c_w_ack(1))[i] = i2c_w_ack(1)[i - Len(front)]
    BY <2>1, Joined, ZenonT(60)
  <2> QED BY <2>1, <2>2
<1>8. 25 + 1 = 26 /\ 25 + 4 = 29 /\ 1 \in 1 .. 25 /\ \A n \in 2 .. 25 : n \in 1 .. 25
  OBVIOUS
<1> QED BY <1>5, <1>6, <1>7, <1>8, <1>9

LEMMA FunSeq ==
  ASSUME NEW c, Shape(c), NEW j \in 1 .. Len(Kinds(c))
  PROVE  /\ Fun(c, j) \in Seq(Accesses)
         /\ Kinds(c)[j] \in {"start", "byte", "read", "stop"}
         /\ Kinds(c)[j] = "start" => Fun(c, j) = i2c_start /\ Len(Fun(c, j)) = 4
         /\ Kinds(c)[j] = "byte" =>
              ByteOf(c, j) \in Byte /\ Fun(c, j) = i2c_w_byte(ByteOf(c, j)) /\ Len(Fun(c, j)) = 27
         /\ Kinds(c)[j] = "read" => Fun(c, j) = i2c_r_byte(1) /\ Len(Fun(c, j)) = 29
         /\ Kinds(c)[j] = "stop" => Fun(c, j) = i2c_stop /\ Len(Fun(c, j)) = 3
<1>1. Kinds(c)[j] \in {"start", "byte", "read", "stop"}
  <2>1. CASE c[1] = "write"
    <3>1. j \in 1 .. 5
      BY <2>1, KindsAre
    <3>2. j = 1 \/ j = 2 \/ j = 3 \/ j = 4 \/ j = 5
      BY <3>1
    <3> QED BY <2>1, <3>2, KindsAre
  <2>2. CASE c[1] = "read"
    <3>1. j \in 1 .. 7
      BY <2>2, KindsAre
    <3>2. j = 1 \/ j = 2 \/ j = 3 \/ j = 4 \/ j = 5 \/ j = 6 \/ j = 7
      BY <3>1
    <3> QED BY <2>2, <3>2, KindsAre
  <2> QED BY <2>1, <2>2, CallIs
<1>2. CASE Kinds(c)[j] = "byte"
  BY <1>2, FunIs, ByteFun DEF Fun
<1>3. CASE Kinds(c)[j] = "start"
  BY <1>3, ShortFuns DEF Fun
<1>4. CASE Kinds(c)[j] = "read"
  BY <1>4, ReadFun DEF Fun
<1>5. CASE Kinds(c)[j] = "stop"
  BY <1>5, ShortFuns DEF Fun
<1> QED BY <1>1, <1>2, <1>3, <1>4, <1>5

\* One access further.
LEMMA FromIs ==
  ASSUME NEW f \in Seq(Accesses), NEW t \in Seq(Accesses), NEW n \in 1 .. Len(f)
  PROVE  /\ From(f, n, t) # <<>> /\ Head(From(f, n, t)) = f[n]
         /\ n < Len(f) => Tail(From(f, n, t)) = From(f, n + 1, t)
         /\ n = Len(f) => Tail(From(f, n, t)) = t
         /\ From(f, 1, t) = f \o t
<1> DEFINE s == SubSeq(f, n, Len(f))
           rest == SubSeq(f, n + 1, Len(f))
<1>1. Len(f) \in Nat /\ n \in Int /\ \A i \in n .. Len(f) : f[i] \in Accesses
  BY ElementOfSeq
<1>2. s \in Seq(Accesses) /\ Len(s) = Len(f) - n + 1 /\ s # <<>>
  <2>1. s \in Seq(Accesses) /\ Len(s) = IF n <= Len(f) THEN Len(f) - n + 1 ELSE 0
    BY <1>1, SubSeqProperties
  <2>2. n <= Len(f)
    BY <1>1
  <2> HIDE DEF s
  <2>3. Len(s) = Len(f) - n + 1 /\ Len(s) > 0
    BY <1>1, <2>1, <2>2
  <2> QED BY <2>1, <2>3
<1>3. Head(s) = f[n] /\ Tail(s) = rest
  BY HeadTailOfSubSeq
<1>4. Head(s \o t) = Head(s) /\ Tail(s \o t) = Tail(s) \o t
  BY <1>2
<1>5. s \o t # <<>>
  BY <1>2, ConcatProperties
<1>6. n = Len(f) => rest \o t = t
  BY <1>1, SubSeqEmpty, ConcatEmptySeq
<1>7. SubSeq(f, 1, Len(f)) = f
  BY SubSeqFull
<1> QED BY <1>3, <1>4, <1>5, <1>6, <1>7 DEF From

LEMMA Closed == \A s, t \in Seq(Accesses) : s \o t \in Seq(Accesses)
BY ConcatProperties

\* A name for what is the same: the provers rewrite with it only where it is asked for.
Groups(s, t, u) == (s \o t) \o u = s \o (t \o u)

LEMMA Regroup == \A s, t, u \in Seq(Accesses) : Groups(s, t, u)
BY ConcatAssociative DEF Groups

Chain(a, b, c, d, e) == (((a \o b) \o c) \o d) \o e

LEMMA ToTheRight ==
  ASSUME NEW a \in Seq(Accesses), NEW b \in Seq(Accesses), NEW c \in Seq(Accesses),
         NEW d \in Seq(Accesses), NEW e \in Seq(Accesses)
  PROVE  Chain(a, b, c, d, e) = Then(a, Then(b, Then(c, Then(d, e))))
<1>1. PICK ab \in Seq(Accesses), de \in Seq(Accesses) : ab = a \o b /\ de = d \o e
  BY Closed
<1>2. PICK abc \in Seq(Accesses), cde \in Seq(Accesses) : abc = ab \o c /\ cde = c \o de
  BY Closed
<1>3. Groups(abc, d, e) /\ Groups(ab, c, de) /\ Groups(a, b, cde)
  BY Regroup
<1>4. /\ (abc \o d) \o e = abc \o de /\ abc \o de = (ab \o c) \o de
      /\ (ab \o c) \o de = ab \o cde /\ ab \o cde = a \o (b \o cde)
  BY <1>1, <1>2, <1>3, Zenon DEF Groups
<1> QED BY <1>1, <1>2, <1>4, Zenon DEF Then, Chain

LEMMA FromFirst == \A f, t \in Seq(Accesses) : From(f, 1, t) = Then(f, t)
BY SubSeqFull DEF From, Then

LEMMA BehindIs ==
  ASSUME NEW c, Shape(c), NEW j \in 1 .. Len(Kinds(c))
  PROVE  /\ Behind(c, j) \in Seq(Accesses)
         /\ j < Len(Kinds(c)) => Behind(c, j) = From(Fun(c, j + 1), 1, Behind(c, j + 1))
         /\ j = Len(Kinds(c)) => Behind(c, j) = <<>>
<1>1. \A i \in 1 .. Len(Kinds(c)) : Fun(c, i) \in Seq(Accesses)
  BY FunSeq
<1>3. <<>> \in Seq(Accesses) /\ \A f \in Seq(Accesses) : f \o <<>> = f
  BY ConcatEmptySeq
<1>4. CASE c[1] = "write"
  <2>1. Len(Kinds(c)) = 5
    BY <1>4, KindsAre
  <2>2. /\ Behind(c, 1) = Then(Fun(c, 2), Behind(c, 2)) /\ Behind(c, 2) = Then(Fun(c, 3), Behind(c, 3))
        /\ Behind(c, 3) = Then(Fun(c, 4), Behind(c, 4)) /\ Behind(c, 4) = Fun(c, 5)
        /\ Behind(c, 5) = <<>>
    BY <1>4 DEF Behind
  <2>3. /\ Fun(c, 2) \in Seq(Accesses) /\ Fun(c, 3) \in Seq(Accesses)
        /\ Fun(c, 4) \in Seq(Accesses) /\ Fun(c, 5) \in Seq(Accesses)
    BY <1>1, <2>1
  <2>4. Behind(c, 5) \in Seq(Accesses) /\ Behind(c, 4) \in Seq(Accesses)
    BY <1>3, <2>2, <2>3
  <2>5. Behind(c, 3) \in Seq(Accesses)
    BY <2>2, <2>3, <2>4, Closed DEF Then
  <2>6. Behind(c, 2) \in Seq(Accesses)
    BY <2>2, <2>3, <2>5, Closed DEF Then
  <2>7. Behind(c, 1) \in Seq(Accesses)
    BY <2>2, <2>3, <2>6, Closed DEF Then
  <2>8. Behind(c, 4) = Then(Fun(c, 5), Behind(c, 5))
    BY <1>3, <2>2, <2>3 DEF Then
  <2>9. /\ Behind(c, 1) = From(Fun(c, 2), 1, Behind(c, 2))
        /\ Behind(c, 2) = From(Fun(c, 3), 1, Behind(c, 3))
        /\ Behind(c, 3) = From(Fun(c, 4), 1, Behind(c, 4))
        /\ Behind(c, 4) = From(Fun(c, 5), 1, Behind(c, 5))
    BY FromFirst, <2>2, <2>3, <2>4, <2>5, <2>6, <2>8
  <2>10. j = 1 \/ j = 2 \/ j = 3 \/ j = 4 \/ j = 5
    BY <2>1
  <2> QED BY <2>1, <2>2, <2>4, <2>5, <2>6, <2>7, <2>9, <2>10
<1>5. CASE c[1] = "read"
  <2>1. Len(Kinds(c)) = 7
    BY <1>5, KindsAre
  <2>2. /\ Behind(c, 1) = Then(Fun(c, 2), Behind(c, 2)) /\ Behind(c, 2) = Then(Fun(c, 3), Behind(c, 3))
        /\ Behind(c, 3) = Then(Fun(c, 4), Behind(c, 4)) /\ Behind(c, 4) = Then(Fun(c, 5), Behind(c, 5))
        /\ Behind(c, 5) = Then(Fun(c, 6), Behind(c, 6)) /\ Behind(c, 6) = Fun(c, 7)
        /\ Behind(c, 7) = <<>>
    BY <1>5 DEF Behind
  <2>3. /\ Fun(c, 2) \in Seq(Accesses) /\ Fun(c, 3) \in Seq(Accesses)
        /\ Fun(c, 4) \in Seq(Accesses) /\ Fun(c, 5) \in Seq(Accesses)
        /\ Fun(c, 6) \in Seq(Accesses) /\ Fun(c, 7) \in Seq(Accesses)
    BY <1>1, <2>1
  <2>4. Behind(c, 7) \in Seq(Accesses) /\ Behind(c, 6) \in Seq(Accesses)
    BY <1>3, <2>2, <2>3
  <2>5. Behind(c, 5) \in Seq(Accesses)
    BY <2>2, <2>3, <2>4, Closed DEF Then
  <2>6. Behind(c, 4) \in Seq(Accesses)
    BY <2>2, <2>3, <2>5, Closed DEF Then
  <2>7. Behind(c, 3) \in Seq(Accesses)
    BY <2>2, <2>3, <2>6, Closed DEF Then
  <2>8. Behind(c, 2) \in Seq(Accesses)
    BY <2>2, <2>3, <2>7, Closed DEF Then
  <2>9. Behind(c, 1) \in Seq(Accesses)
    BY <2>2, <2>3, <2>8, Closed DEF Then
  <2>10. Behind(c, 6) = Then(Fun(c, 7), Behind(c, 7))
    BY <1>3, <2>2, <2>3 DEF Then
  <2>11. /\ Behind(c, 1) = From(Fun(c, 2), 1, Behind(c, 2))
         /\ Behind(c, 2) = From(Fun(c, 3), 1, Behind(c, 3))
         /\ Behind(c, 3) = From(Fun(c, 4), 1, Behind(c, 4))
         /\ Behind(c, 4) = From(Fun(c, 5), 1, Behind(c, 5))
         /\ Behind(c, 5) = From(Fun(c, 6), 1, Behind(c, 6))
         /\ Behind(c, 6) = From(Fun(c, 7), 1, Behind(c, 7))
    BY FromFirst, <2>2, <2>3, <2>4, <2>5, <2>6, <2>7, <2>8, <2>10
  <2>12. j = 1 \/ j = 2 \/ j = 3 \/ j = 4 \/ j = 5 \/ j = 6 \/ j = 7
    BY <2>1
  <2> QED BY <2>1, <2>2, <2>4, <2>5, <2>6, <2>7, <2>8, <2>9, <2>11, <2>12
<1> QED BY <1>4, <1>5, CallIs

\* A call begins with its first function.
LEMMA WriteProgram ==
  ASSUME NEW c, Shape(c), c[1] = "write"
  PROVE  mpu6050_w_byte(c[2], c[3]) = From(Fun(c, 1), 1, Behind(c, 1))
<1>1. Len(Kinds(c)) = 5
  BY KindsAre
<1>2. Fun(c, 1) = i2c_start /\ Fun(c, 2) = i2c_w_byte(Address) /\ Fun(c, 3) = i2c_w_byte(c[2])
      /\ Fun(c, 4) = i2c_w_byte(c[3]) /\ Fun(c, 5) = i2c_stop
  BY <1>1, KindsAre DEF Fun, ByteOf
<1>3. /\ Fun(c, 1) \in Seq(Accesses) /\ Fun(c, 2) \in Seq(Accesses) /\ Fun(c, 3) \in Seq(Accesses)
      /\ Fun(c, 4) \in Seq(Accesses) /\ Fun(c, 5) \in Seq(Accesses) /\ Len(Fun(c, 1)) = 4
  BY <1>1, <1>2, FunSeq, ShortFuns
<1>4. mpu6050_w_byte(c[2], c[3]) =
        Chain(Fun(c, 1), Fun(c, 2), Fun(c, 3), Fun(c, 4), Fun(c, 5))
  BY <1>2 DEF mpu6050_w_byte, Chain
<1>5. Behind(c, 1) = Then(Fun(c, 2), Then(Fun(c, 3), Then(Fun(c, 4), Fun(c, 5))))
  BY DEF Behind
<1>6. mpu6050_w_byte(c[2], c[3]) = Then(Fun(c, 1), Behind(c, 1))
  BY <1>3, <1>4, <1>5, ToTheRight
<1>7. Behind(c, 1) \in Seq(Accesses)
  <2>1. 1 \in 1 .. Len(Kinds(c))
    BY <1>1
  <2> QED BY <2>1, BehindIs
<1> QED BY <1>3, <1>6, <1>7, FromFirst

LEMMA ReadProgram ==
  ASSUME NEW c, Shape(c), c[1] = "read"
  PROVE  mpu6050_r_byte(c[2]) = From(Fun(c, 1), 1, Behind(c, 1))
<1>1. Len(Kinds(c)) = 7
  BY KindsAre
<1>2. Fun(c, 1) = i2c_start /\ Fun(c, 2) = i2c_w_byte(Address) /\ Fun(c, 3) = i2c_w_byte(c[2])
      /\ Fun(c, 4) = i2c_start /\ Fun(c, 5) = i2c_w_byte(Address + 1)
      /\ Fun(c, 6) = i2c_r_byte(1) /\ Fun(c, 7) = i2c_stop
  BY <1>1, KindsAre DEF Fun, ByteOf
<1>3. /\ Fun(c, 1) \in Seq(Accesses) /\ Fun(c, 2) \in Seq(Accesses) /\ Fun(c, 3) \in Seq(Accesses)
      /\ Fun(c, 4) \in Seq(Accesses) /\ Fun(c, 5) \in Seq(Accesses) /\ Fun(c, 6) \in Seq(Accesses)
      /\ Fun(c, 7) \in Seq(Accesses)
  <2>1. \A i \in 1 .. 7 : Fun(c, i) \in Seq(Accesses)
    BY <1>1, FunSeq
  <2> QED BY <2>1
<1> DEFINE front == ((Fun(c, 1) \o Fun(c, 2)) \o Fun(c, 3)) \o Fun(c, 4)
           back == Then(Fun(c, 5), Then(Fun(c, 6), Fun(c, 7)))
<1>4. mpu6050_r_byte(c[2]) = ((front \o Fun(c, 5)) \o Fun(c, 6)) \o Fun(c, 7)
  BY <1>2 DEF mpu6050_r_byte
<1>5. front \in Seq(Accesses) /\ back \in Seq(Accesses)
  BY <1>3, Closed DEF Then
<1>6. ((front \o Fun(c, 5)) \o Fun(c, 6)) \o Fun(c, 7) = front \o back
  <2>1. front \o Fun(c, 5) \in Seq(Accesses) /\ Fun(c, 6) \o Fun(c, 7) \in Seq(Accesses)
    BY <1>3, <1>5, Closed DEF Then
  <2> HIDE DEF front
  <2>2. /\ Groups(front \o Fun(c, 5), Fun(c, 6), Fun(c, 7))
        /\ Groups(front, Fun(c, 5), Fun(c, 6) \o Fun(c, 7))
    BY <1>3, <1>5, <2>1, Regroup
  <2> QED BY <2>2, Zenon DEF Groups, Then
<1>7. Behind(c, 1) = Then(Fun(c, 2), Then(Fun(c, 3), Then(Fun(c, 4), back)))
  BY DEF Behind
<1> HIDE DEF back
<1>8. front \o back = Chain(Fun(c, 1), Fun(c, 2), Fun(c, 3), Fun(c, 4), back)
  BY DEF Chain
<1> HIDE DEF front
<1>10. front \o back = Then(Fun(c, 1), Behind(c, 1))
  BY <1>3, <1>5, <1>7, <1>8, ToTheRight
<1>9. Behind(c, 1) \in Seq(Accesses)
  <2>1. 1 \in 1 .. Len(Kinds(c))
    BY <1>1
  <2> QED BY <2>1, BehindIs
<1> QED BY <1>3, <1>4, <1>6, <1>9, <1>10, FromFirst

-----------------------------------------------------------------------------
(* From function to function                                               *)

LEMMA HereIs ==
  ASSUME NEW c, Shape(c), NEW j \in 1 .. Len(Kinds(c)), NEW n \in 1 .. Len(Fun(c, j)),
         ops = From(Fun(c, j), n, Behind(c, j))
  PROVE  /\ ops # <<>> /\ Head(ops) = Fun(c, j)[n]
         /\ n < Len(Fun(c, j)) => Tail(ops) = From(Fun(c, j), n + 1, Behind(c, j))
         /\ n = Len(Fun(c, j)) => Tail(ops) = Behind(c, j)
<1>1. Fun(c, j) \in Seq(Accesses) /\ Behind(c, j) \in Seq(Accesses)
  BY FunSeq, BehindIs
<1> QED BY <1>1, FromIs

\* Where a step may lead to.
LEMMA PlaceHere ==
  ASSUME NEW j \in 1 .. Len(Kinds(call)), NEW n \in 1 .. Len(Fun(call, j)), call' = call,
         ops' = From(Fun(call, j), n, Behind(call, j)), FunInv(j, n)'
  PROVE  CallPlace'
<1>1. InFun(j, n)' /\ j \in 1 .. Len(Kinds(call')) /\ n \in 1 .. Len(Fun(call', j))
  BY DEF InFun
<1> QED BY <1>1 DEF CallPlace

LEMMA PlaceNext ==
  ASSUME Shape(call), NEW j \in 1 .. Len(Kinds(call)), j < Len(Kinds(call)), call' = call,
         ops' = Behind(call, j), FunInv(j + 1, 1)'
  PROVE  CallPlace'
<1>1. PICK i \in 1 .. Len(Kinds(call)) : i = j + 1
  <2>1. Len(Kinds(call)) \in Nat
    BY KindsAre, CallIs
  <2> QED BY <2>1
<1>2. 1 \in 1 .. Len(Fun(call, i))
  <2>1. PICK l \in {3, 4, 27, 29} : l = Len(Fun(call, i))
    BY FunSeq
  <2> QED BY <2>1
<1>3. ops' = From(Fun(call, i), 1, Behind(call, i))
  BY <1>1, BehindIs
<1>4. FunInv(i, 1)'
  BY <1>1
<1> QED BY <1>2, <1>3, <1>4, PlaceHere

LEMMA KnownKept ==
  ASSUME NEW j \in Nat, j # 6 \/ (answered => device'.byte = device.byte),
         Known(j), UNCHANGED <<call, ret>>, answered' => answered, Keeps
  PROVE  Known(j)'
<1> QED BY DEF Known, Keeps

\* A byte was not answered, and the call goes on with its next function.
LEMMA LostGoesOn ==
  ASSUME NEW j \in Nat, j > 2, Unanswered', Kinds(call')[j] \in {"start", "byte", "read", "stop"},
         (call[1] = "read" /\ j <= 6 => ret = 0)', Kinds(call')[j] = "read" => call'[1] = "read" /\ j = 6
  PROVE  FunInv(j, 1)'
<1>1. KnownAt(j, 1)'
  BY DEF KnownAt, Known, Unanswered
<1>2. (call[1] = "read" /\ j < 6 => ret = 0)' /\ j # 1
  OBVIOUS
<1>3. CASE Kinds(call')[j] = "start"
  <2>1. StartInv(j, 1)'
    BY <1>2 DEF StartInv
  <2> QED BY <1>1, <1>2, <1>3, <2>1 DEF FunInv
<1>4. CASE Kinds(call')[j] = "byte"
  <2>1. BitInv(j, 0, 0)'
    BY DEF BitInv, Unanswered, Idle, SdaSafe
  <2>2. ByteInv(j, 1)'
    BY <2>1 DEF ByteInv
  <2> QED BY <1>1, <1>2, <1>4, <2>2 DEF FunInv
<1>5. CASE Kinds(call')[j] = "read"
  <2>1. ReadInv(1)'
    BY <1>5 DEF ReadInv
  <2> QED BY <1>1, <1>2, <1>5, <2>1 DEF FunInv
<1>6. CASE Kinds(call')[j] = "stop"
  <2>1. StopInv(1)'
    BY DEF StopInv
  <2> QED BY <1>1, <1>2, <1>6, <2>1 DEF FunInv
<1> QED BY <1>3, <1>4, <1>5, <1>6

\* What a step of a call keeps.
Moves == DeviceOK' /\ PortOK' /\ CallPlace' /\ Written /\ call' = call /\ calls' = calls

LEMMA StartGoes ==
  ASSUME DeviceOK, PortOK, Shape(call), NEW j \in 1 .. Len(Kinds(call)), Kinds(call)[j] = "start",
         NEW n \in 1 .. Len(Fun(call, j)), InFun(j, n), I2cStep
  PROVE  Moves
<1>1. Fun(call, j) = i2c_start /\ Len(Fun(call, j)) = 4 /\ j \in Nat
  BY FunSeq
<1>2. /\ ops # <<>> /\ Head(ops) = i2c_start[n] /\ n \in 1 .. 4
      /\ n < 4 => Tail(ops) = From(Fun(call, j), n + 1, Behind(call, j))
      /\ n = 4 => Tail(ops) = Behind(call, j)
  BY <1>1, HereIs DEF InFun
<1>3. KnownAt(j, n) /\ StartInv(j, n) /\ (call[1] = "read" /\ j < 6 => ret = 0) /\ (j = 1 => answered)
  BY DEF InFun, FunInv
<1>4. Known(j)
  BY <1>3 DEF KnownAt
<1>5. j = 1 \/ (j = 4 /\ call[1] = "read")
  <2>1. CASE call[1] = "write"
    <3>1. j = 1 \/ j = 2 \/ j = 3 \/ j = 4 \/ j = 5
      <4>1. Len(Kinds(call)) = 5
        BY <2>1, KindsAre
      <4> QED BY <4>1
    <3> QED BY <2>1, <3>1, KindsAre
  <2>2. CASE call[1] = "read"
    <3>1. j = 1 \/ j = 2 \/ j = 3 \/ j = 4 \/ j = 5 \/ j = 6 \/ j = 7
      <4>1. Len(Kinds(call)) = 7
        BY <2>2, KindsAre
      <4> QED BY <4>1
    <3>2. /\ Kinds(call)[2] = "byte" /\ Kinds(call)[3] = "byte" /\ Kinds(call)[5] = "byte"
          /\ Kinds(call)[6] = "read" /\ Kinds(call)[7] = "stop"
      BY <2>2, KindsAre
    <3> QED BY <2>2, <3>1, <3>2
  <2> QED BY <2>1, <2>2, CallIs
<1>6. /\ Steady /\ DeviceOK' /\ Keeps
      /\ \/ ops' = ops /\ StartInv(j, n)'
         \/ ops' = Tail(ops) /\ n < 4 /\ StartInv(j, n + 1)'
         \/ ops' = Tail(ops) /\ n = 4 /\ Started'
  BY <1>1, <1>2, <1>3, StartMoves
<1>7. UNCHANGED <<call, ret, calls, answered>> /\ PortOK' /\ Written
  BY <1>6 DEF Steady, Keeps, Written
<1>8. Known(j)'
  BY <1>1, <1>4, <1>5, <1>6, <1>7, KnownKept
<1>9. (call[1] = "read" /\ j < 6 => ret = 0)' /\ (j = 1 => answered)' /\ Kinds(call')[j] = "start"
  BY <1>3, <1>7
<1>10. CASE ops' = ops /\ StartInv(j, n)'
  <2>1. FunInv(j, n)'
    BY <1>8, <1>9, <1>10 DEF FunInv, KnownAt
  <2>2. ops' = From(Fun(call, j), n, Behind(call, j))
    BY <1>10 DEF InFun
  <2> QED BY <1>6, <1>7, <2>1, <2>2, PlaceHere DEF Moves
<1>11. CASE ops' = Tail(ops) /\ n < 4 /\ StartInv(j, n + 1)'
  <2>1. FunInv(j, n + 1)'
    BY <1>8, <1>9, <1>11 DEF FunInv, KnownAt
  <2>2. ops' = From(Fun(call, j), n + 1, Behind(call, j)) /\ n + 1 \in 1 .. Len(Fun(call, j))
    BY <1>1, <1>2, <1>11
  <2> QED BY <1>6, <1>7, <2>1, <2>2, PlaceHere DEF Moves
<1>12. CASE ops' = Tail(ops) /\ n = 4 /\ Started'
  <2>1. Kinds(call')[j + 1] = "byte" /\ StageOf(j + 1) = "address" /\ j < Len(Kinds(call))
    BY SMTT(40), <1>5, <1>7, CallIs, KindsAre DEF StageOf
  <2>2. Heard'
    BY <1>3, <1>5, <1>7 DEF Heard
  <2>3. ByteOf(call', j + 1) \in Byte
    BY <1>5, <1>7, CallIs DEF ByteOf
  <2>4. BitInv(j + 1, 0, 0)'
    BY <1>12, <2>1, <2>2, <2>3, TopCases DEF BitInv, Started, Hears
  <2>5. ByteInv(j + 1, 1)'
    BY <2>4 DEF ByteInv
  <2>6. Known(j + 1)'
    BY <1>5, <1>7, <1>8 DEF Known
  <2>7. FunInv(j + 1, 1)'
    BY <1>1, <1>5, <1>9, <2>1, <2>5, <2>6 DEF FunInv, KnownAt
  <2> QED BY <1>2, <1>6, <1>7, <1>12, <2>1, <2>7, PlaceNext DEF Moves
<1> QED BY <1>6, <1>10, <1>11, <1>12

LEMMA ByteGoes ==
  ASSUME DeviceOK, PortOK, Shape(call), NEW j \in 1 .. Len(Kinds(call)), Kinds(call)[j] = "byte",
         NEW n \in 1 .. Len(Fun(call, j)), InFun(j, n), I2cStep
  PROVE  Moves
<1>1. /\ Fun(call, j) = i2c_w_byte(ByteOf(call, j)) /\ Len(Fun(call, j)) = 27 /\ ByteOf(call, j) \in Byte
      /\ j \in Nat /\ j \in {2, 3, 4, 5}
  BY FunSeq, FunIs
<1>2. PICK b \in Byte : b = ByteOf(call, j)
  BY <1>1
<1>3. Fun(call, j) = i2c_w_byte(b) /\ n \in 1 .. 27
  BY <1>1, <1>2
<1>4. /\ ops # <<>> /\ Head(ops) = Fun(call, j)[n]
      /\ n < Len(Fun(call, j)) => Tail(ops) = From(Fun(call, j), n + 1, Behind(call, j))
      /\ n = Len(Fun(call, j)) => Tail(ops) = Behind(call, j)
  BY HereIs DEF InFun
<1>5. /\ ops # <<>> /\ Head(ops) = i2c_w_byte(b)[n]
      /\ n \in 1 .. 27
      /\ n < 27 => Tail(ops) = From(Fun(call, j), n + 1, Behind(call, j))
      /\ n = 27 => Tail(ops) = Behind(call, j)
  BY <1>1, <1>3, <1>4
<1>6. KnownAt(j, n) /\ ByteInv(j, n) /\ (call[1] = "read" /\ j < 6 => ret = 0)
  BY DEF InFun, FunInv
<1>7. Known(j)
  BY <1>6 DEF KnownAt
<1>8. ASSUME UNCHANGED <<call, ret>>, answered' => answered, Keeps
      PROVE  Known(j)' /\ (call[1] = "read" /\ j < 6 => ret = 0)'
  <2>1. j \in Nat /\ j # 6
    BY <1>1
  <2>2. Known(j)'
    BY <1>7, <1>8, <2>1, KnownKept
  <2> QED BY <1>6, <1>8, <2>2
<1>9. ASSUME UNCHANGED <<call, ret, calls>>, answered' => answered, Keeps, DeviceOK', PortOK',
             NEW m \in 1 .. 27, ops' = From(Fun(call, j), m, Behind(call, j)), ByteInv(j, m)'
      PROVE  Moves
  <2>1. FunInv(j, m)'
    <3>1. Known(j)' /\ (call[1] = "read" /\ j < 6 => ret = 0)'
      BY <1>8, <1>9
    <3>2. Kinds(call')[j] = "byte" /\ j # 1
      BY <1>1, <1>9
    <3>3. KnownAt(j, m)'
      BY <3>1, <3>2 DEF KnownAt
    <3> QED BY <1>9, <3>1, <3>2, <3>3 DEF FunInv
  <2> QED BY <1>1, <1>9, <2>1, PlaceHere DEF Moves, Written, Keeps
<1>10. CASE n <= 24
  <2>1. PICK k \in 0 .. 7, r \in 0 .. 2 : k = (n - 1) \div 3 /\ r = (n - 1) % 3
    BY <1>5, <1>10, PlaceOfBit
  <2>2. n = 3 * k + r + 1
    <3>1. n - 1 = 3 * ((n - 1) \div 3) + ((n - 1) % 3)
      BY <1>5
    <3> QED BY <1>5, <2>1, <3>1
  <2>3. BitInv(j, k, r)
    BY <1>6, <1>10, <2>1 DEF ByteInv
  <2>4. Head(ops) = BitAccess(b, k)[r + 1]
    <3>1. n \in 1 .. 24
      BY <1>5, <1>10
    <3>2. i2c_w_byte(b)[n] = BitAccess(b, (n - 1) \div 3)[((n - 1) % 3) + 1]
      BY <3>1, ByteFun
    <3> QED BY <1>5, <2>1, <3>2
  <2>5. PICK bit \in 0 .. 1 : bit = BitOf(b, 7 - k)
    BY BitRange
  <2>6. /\ Steady /\ DeviceOK' /\ Keeps
        /\ \/ ops' = ops /\ r = 0 /\ BitInv(j, k, 0)'
           \/ ops' = Tail(ops) /\ r < 2 /\ BitInv(j, k, r + 1)'
           \/ ops' = Tail(ops) /\ r = 2 /\ k < 7 /\ BitInv(j, k + 1, 0)'
           \/ ops' = Tail(ops) /\ r = 2 /\ k = 7 /\ WaitInv(j, 25)'
    BY <1>1, <1>2, <1>5, <2>3, <2>4, <2>5, BitMoves
  <2>7. UNCHANGED <<call, ret, calls>> /\ (answered' => answered) /\ PortOK'
    BY <2>6 DEF Steady
  <2>8. CASE ops' = ops /\ r = 0 /\ BitInv(j, k, 0)'
    <3>1. ByteInv(j, n)'
      BY <1>10, <2>1, <2>8 DEF ByteInv
    <3> QED BY <1>5, <1>9, <2>6, <2>7, <2>8, <3>1 DEF InFun
  <2>9. CASE ops' = Tail(ops) /\ r < 2 /\ BitInv(j, k, r + 1)'
    <3>1. n + 1 <= 24 /\ (n + 1 - 1) \div 3 = k /\ (n + 1 - 1) % 3 = r + 1
      BY <2>2, <2>9
    <3>2. ByteInv(j, n + 1)'
      BY <2>9, <3>1 DEF ByteInv
    <3>3. n + 1 \in 1 .. 27 /\ ops' = From(Fun(call, j), n + 1, Behind(call, j))
      BY <1>5, <1>10, <2>9
    <3> QED BY <1>9, <2>6, <2>7, <3>2, <3>3
  <2>10. CASE ops' = Tail(ops) /\ r = 2 /\ k < 7 /\ BitInv(j, k + 1, 0)'
    <3>1. n + 1 <= 24 /\ (n + 1 - 1) \div 3 = k + 1 /\ (n + 1 - 1) % 3 = 0
      BY <2>2, <2>10
    <3>2. ByteInv(j, n + 1)'
      BY <2>10, <3>1 DEF ByteInv
    <3>3. n + 1 \in 1 .. 27 /\ ops' = From(Fun(call, j), n + 1, Behind(call, j))
      BY <1>5, <1>10, <2>10
    <3> QED BY <1>9, <2>6, <2>7, <3>2, <3>3
  <2>11. CASE ops' = Tail(ops) /\ r = 2 /\ k = 7 /\ WaitInv(j, 25)'
    <3>1. n = 24
      BY <2>2, <2>11
    <3>2. ByteInv(j, 25)'
      BY <2>11 DEF ByteInv
    <3>3. 25 \in 1 .. 27 /\ ops' = From(Fun(call, j), 25, Behind(call, j))
      BY <1>5, <2>11, <3>1
    <3> QED BY <1>9, <2>6, <2>7, <3>2, <3>3
  <2> QED BY <2>6, <2>8, <2>9, <2>10, <2>11
<1>11. CASE n > 24
  <2>1. n \in 25 .. 27
    BY <1>5, <1>11
  <2>2. WaitInv(j, n)
    BY <1>6, <2>1 DEF ByteInv
  <2>3. Head(ops) = i2c_wait_ack[n - 24]
    BY <1>5, <2>1, ByteFun
  <2>4. /\ Going
        /\ \/ ops' = ops /\ WaitInv(j, n)'
           \/ ops' = Tail(ops) /\ n < 27 /\ WaitInv(j, n + 1)'
           \/ ops' = <<scl(0)>> \o Tail(ops) /\ n = 27 /\ Released(j)'
           \/ ops' = i2c_stop \o Tail(ops) /\ n = 27 /\ GivingUp(1)'
    BY <1>1, <1>5, <2>1, <2>2, <2>3, WaitMoves
  <2>5. UNCHANGED <<call, ret, calls>> /\ (answered' => answered) /\ PortOK' /\ DeviceOK' /\ Keeps
    BY <2>4 DEF Going
  <2>6. Known(j)' /\ (call[1] = "read" /\ j < 6 => ret = 0)'
    BY <1>8, <2>5
  <2>7. CASE ops' = ops /\ WaitInv(j, n)'
    <3>1. ByteInv(j, n)'
      BY <2>1, <2>7 DEF ByteInv
    <3> QED BY <1>5, <1>9, <2>5, <2>7, <3>1 DEF InFun
  <2>8. CASE ops' = Tail(ops) /\ n < 27 /\ WaitInv(j, n + 1)'
    <3>1. ~(n + 1 <= 24)
      BY <2>1
    <3>2. ByteInv(j, n + 1)'
      BY <2>8, <3>1 DEF ByteInv
    <3>3. n + 1 \in 1 .. 27 /\ ops' = From(Fun(call, j), n + 1, Behind(call, j))
      BY <1>5, <2>8
    <3> QED BY <1>9, <2>5, <3>2, <3>3
  <2>9. CASE ops' = <<scl(0)>> \o Tail(ops) /\ n = 27 /\ Released(j)'
    <3>1. ops' = <<scl(0)>> \o Behind(call, j)
      BY <1>5, <2>9
    <3>2. InRelease(j)' /\ j \in 1 .. Len(Kinds(call')) /\ Kinds(call')[j] = "byte"
      BY <2>5, <2>6, <2>9, <3>1 DEF InRelease
    <3>3. CallPlace'
      BY <3>2 DEF CallPlace
    <3> QED BY <2>5, <3>3 DEF Moves, Written, Keeps
  <2>10. CASE ops' = i2c_stop \o Tail(ops) /\ n = 27 /\ GivingUp(1)'
    <3>1. Behind(call, j) \in Seq(Accesses)
      BY BehindIs
    <3>2. ops' = From(i2c_stop, 1, Behind(call, j))
      BY <1>5, <2>10, <3>1, ShortFuns, FromFirst DEF Then
    <3>3. InGivingUp(j, 1)' /\ j \in 1 .. Len(Kinds(call')) /\ Kinds(call')[j] = "byte"
      BY <2>5, <2>6, <2>10, <3>2 DEF InGivingUp
    <3>4. CallPlace'
      BY <3>3 DEF CallPlace
    <3> QED BY <2>5, <3>4 DEF Moves, Written, Keeps
  <2> QED BY <2>4, <2>7, <2>8, <2>9, <2>10
<1> QED BY <1>5, <1>10, <1>11

LEMMA ReadGoes ==
  ASSUME DeviceOK, PortOK, Shape(call), NEW j \in 1 .. Len(Kinds(call)), Kinds(call)[j] = "read",
         NEW n \in 1 .. Len(Fun(call, j)), InFun(j, n), I2cStep
  PROVE  Moves
<1>1. Fun(call, j) = i2c_r_byte(1) /\ Len(Fun(call, j)) = 29
  BY FunSeq
<1>2. j = 6 /\ call[1] = "read" /\ Len(Kinds(call)) = 7
  <2>1. CASE call[1] = "write"
    <3>1. j = 1 \/ j = 2 \/ j = 3 \/ j = 4 \/ j = 5
      <4>1. Len(Kinds(call)) = 5
        BY <2>1, KindsAre
      <4> QED BY <4>1
    <3> QED BY <2>1, <3>1, KindsAre
  <2>2. CASE call[1] = "read"
    <3>1. Len(Kinds(call)) = 7
      BY <2>2, KindsAre
    <3>2. j = 1 \/ j = 2 \/ j = 3 \/ j = 4 \/ j = 5 \/ j = 6 \/ j = 7
      BY <3>1
    <3>3. /\ Kinds(call)[1] = "start" /\ Kinds(call)[2] = "byte" /\ Kinds(call)[3] = "byte"
          /\ Kinds(call)[4] = "start" /\ Kinds(call)[5] = "byte" /\ Kinds(call)[7] = "stop"
      BY <2>2, KindsAre
    <3> QED BY <2>2, <3>1, <3>2, <3>3
  <2> QED BY <2>1, <2>2, CallIs
<1>3. n \in 1 .. 29
  BY <1>1
<1>4. /\ ops # <<>> /\ Head(ops) = Fun(call, j)[n]
      /\ n < Len(Fun(call, j)) => Tail(ops) = From(Fun(call, j), n + 1, Behind(call, j))
      /\ n = Len(Fun(call, j)) => Tail(ops) = Behind(call, j)
  BY HereIs DEF InFun
<1>5. /\ n = 1 => Head(ops) = sda(1)
      /\ n \in 2 .. 25 => Head(ops) = <<scl(1), Sample, scl(0)>>[((n - 2) % 3) + 1]
      /\ n > 25 => Head(ops) = i2c_w_ack(1)[n - 25]
  <2>1. Head(ops) = i2c_r_byte(1)[n]
    BY <1>1, <1>4
  <2>2. n = 1 => Head(ops) = sda(1)
    BY <2>1, ReadFun
  <2>3. ASSUME n \in 2 .. 25 PROVE Head(ops) = <<scl(1), Sample, scl(0)>>[((n - 2) % 3) + 1]
    <3>1. i2c_r_byte(1)[n] = <<scl(1), Sample, scl(0)>>[((n - 2) % 3) + 1]
      BY <2>3, ReadFun
    <3> QED BY <2>1, <3>1
  <2>4. ASSUME n > 25 PROVE Head(ops) = i2c_w_ack(1)[n - 25]
    <3>1. n \in 26 .. 29
      BY <1>3, <2>4
    <3>2. i2c_r_byte(1)[n] = i2c_w_ack(1)[n - 25]
      BY <3>1, ReadFun
    <3> QED BY <2>1, <3>2
  <2> QED BY <2>2, <2>3, <2>4
<1>6. KnownAt(j, n) /\ ReadInv(n)
  BY DEF InFun, FunInv
<1>7. /\ UNCHANGED <<call, calls, answered>> /\ PortOK' /\ DeviceOK' /\ Keeps
      /\ n < 26 => (answered => device'.byte = device.byte)
      /\ n = 25 => (answered => ret' = device.byte)
      /\ n > 25 => ret' = ret
      /\ \/ ops' = ops /\ ReadInv(n)' /\ n # 25
         \/ ops' = Tail(ops) /\ n < 29 /\ ReadInv(n + 1)'
         \/ ops' = Tail(ops) /\ n = 29 /\ StopInv(1)'
  <2>1. ops # <<>>
    BY <1>4
  <2> QED BY <1>3, <1>5, <1>6, <2>1, ReadMoves
<1>8. /\ n < 26 => Known(6)'
      /\ n = 25 => Known(7)'
      /\ n > 25 => Known(7)'
  <2>1. ASSUME n < 26 PROVE Known(6) /\ Known(6)'
    <3>1. Known(6)
      BY <1>2, <1>3, <1>6, <2>1 DEF KnownAt
    <3> QED BY <1>2, <1>7, <2>1, <3>1 DEF Known, Keeps
  <2>2. ASSUME n = 25 PROVE Known(7)'
    <3>1. Known(6)
      BY <2>1, <2>2
    <3> QED BY <1>2, <1>7, <2>2, <3>1 DEF Known, Keeps
  <2>3. ASSUME n > 25 PROVE Known(7)'
    <3>1. Known(7)
      BY <1>2, <1>3, <1>6, <2>3 DEF KnownAt
    <3> QED BY <1>2, <1>7, <2>3, <3>1 DEF Known, Keeps
  <2> QED BY <2>1, <2>2, <2>3
<1>9. ASSUME NEW m \in 1 .. 29, ops' = From(Fun(call, j), m, Behind(call, j)), ReadInv(m)',
             IF m > 25 THEN Known(7)' ELSE Known(6)'
      PROVE  Moves
  <2>1. Kinds(call')[j] = "read" /\ j = 6
    BY <1>2, <1>7
  <2>2. KnownAt(j, m)'
    BY <1>9, <2>1 DEF KnownAt
  <2>3. FunInv(j, m)'
    BY <1>9, <2>1, <2>2 DEF FunInv
  <2>4. CallPlace'
    <3>1. m \in 1 .. Len(Fun(call, j)) /\ call' = call
      BY <1>1, <1>7
    <3> QED BY <1>9, <2>3, <3>1, PlaceHere
  <2> QED BY <1>7, <2>4 DEF Moves, Written, Keeps
<1>10. CASE ops' = ops /\ ReadInv(n)' /\ n # 25
  <2>1. ops' = From(Fun(call, j), n, Behind(call, j))
    BY <1>10 DEF InFun
  <2>2. IF n > 25 THEN Known(7)' ELSE Known(6)'
    BY <1>3, <1>8, <1>10
  <2> QED BY <1>3, <1>9, <1>10, <2>1, <2>2
<1>11. CASE ops' = Tail(ops) /\ n < 29 /\ ReadInv(n + 1)'
  <2>1. n + 1 \in 1 .. 29 /\ ops' = From(Fun(call, j), n + 1, Behind(call, j))
    <3>1. n + 1 \in 1 .. 29
      BY <1>3, <1>11
    <3>2. n < Len(Fun(call, j))
      BY <1>1, <1>11
    <3> QED BY <1>4, <1>11, <3>1, <3>2
  <2>2. IF n + 1 > 25 THEN Known(7)' ELSE Known(6)'
    BY <1>3, <1>8
  <2> QED BY <1>9, <1>11, <2>1, <2>2
<1>12. CASE ops' = Tail(ops) /\ n = 29 /\ StopInv(1)'
  <2>1. ops' = Behind(call, j) /\ j < Len(Kinds(call)) /\ j + 1 = 7
    BY <1>1, <1>2, <1>4, <1>12
  <2>2. Kinds(call')[7] = "stop"
    BY <1>2, <1>7, KindsAre
  <2>3. KnownAt(7, 1)'
    BY <1>8, <1>12, <2>2 DEF KnownAt
  <2>4. FunInv(7, 1)'
    BY <1>12, <2>2, <2>3 DEF FunInv
  <2>5. FunInv(j + 1, 1)'
    <3>1. FunInv(6 + 1, 1)'
      BY <2>4
    <3> QED BY <1>2, <3>1
  <2>6. CallPlace'
    <3>1. call' = call
      BY <1>7
    <3> QED BY <2>1, <2>5, <3>1, PlaceNext
  <2> QED BY <1>7, <2>6 DEF Moves, Written, Keeps
<1> QED BY <1>7, <1>10, <1>11, <1>12

LEMMA StopGoes ==
  ASSUME DeviceOK, PortOK, Shape(call), NEW j \in 1 .. Len(Kinds(call)), Kinds(call)[j] = "stop",
         NEW n \in 1 .. Len(Fun(call, j)), InFun(j, n), I2cStep
  PROVE  Moves
<1>1. Fun(call, j) = i2c_stop /\ Len(Fun(call, j)) = 3 /\ j \in Nat
  BY FunSeq
<1>2. j = Len(Kinds(call)) /\ ((call[1] = "write" /\ j = 5) \/ (call[1] = "read" /\ j = 7))
  <2>1. CASE call[1] = "write"
    <3>1. Len(Kinds(call)) = 5
      BY <2>1, KindsAre
    <3>2. j = 1 \/ j = 2 \/ j = 3 \/ j = 4 \/ j = 5
      BY <3>1
    <3> QED BY <2>1, <3>1, <3>2, KindsAre
  <2>2. CASE call[1] = "read"
    <3>1. Len(Kinds(call)) = 7
      BY <2>2, KindsAre
    <3>2. j = 1 \/ j = 2 \/ j = 3 \/ j = 4 \/ j = 5 \/ j = 6 \/ j = 7
      BY <3>1
    <3>3. /\ Kinds(call)[1] = "start" /\ Kinds(call)[2] = "byte" /\ Kinds(call)[3] = "byte"
          /\ Kinds(call)[4] = "start" /\ Kinds(call)[5] = "byte" /\ Kinds(call)[6] = "read"
      BY <2>2, KindsAre
    <3> QED BY <2>2, <3>1, <3>2, <3>3
  <2> QED BY <2>1, <2>2, CallIs
<1>3. n \in 1 .. 3
  BY <1>1
<1>4. /\ ops # <<>> /\ Head(ops) = Fun(call, j)[n]
      /\ n < Len(Fun(call, j)) => Tail(ops) = From(Fun(call, j), n + 1, Behind(call, j))
      /\ n = Len(Fun(call, j)) => Tail(ops) = Behind(call, j)
  BY HereIs DEF InFun
<1>5. KnownAt(j, n) /\ StopInv(n)
  BY DEF InFun, FunInv
<1>6. Known(j)
  BY <1>5 DEF KnownAt
<1>7. /\ Steady /\ DeviceOK' /\ Keeps
      /\ \/ ops' = ops /\ StopInv(n)'
         \/ ops' = Tail(ops) /\ n < 3 /\ StopInv(n + 1)'
         \/ ops' = Tail(ops) /\ n = 3 /\ Calm'
  <2>1. ops # <<>> /\ Head(ops) = i2c_stop[n]
    BY <1>1, <1>4
  <2> QED BY <1>3, <1>5, <2>1, StopMoves
<1>8. UNCHANGED <<call, ret, calls, answered>> /\ PortOK'
  BY <1>7 DEF Steady
<1>9. Known(j)'
  BY <1>1, <1>2, <1>6, <1>7, <1>8, KnownKept
<1>10. ASSUME NEW m \in 1 .. 3, ops' = From(Fun(call, j), m, Behind(call, j)), StopInv(m)'
       PROVE  Moves
  <2>1. Kinds(call')[j] = "stop" /\ j # 1 /\ (call[1] = "read" /\ j < 6 => ret = 0)'
    <3>1. call[1] = "read" => j = 7
      BY <1>2
    <3>2. j = 5 \/ j = 7
      BY <1>2
    <3> QED BY <1>8, <3>1, <3>2
  <2>2. KnownAt(j, m)'
    BY <1>9, <2>1 DEF KnownAt
  <2>3. FunInv(j, m)'
    BY <1>10, <2>1, <2>2 DEF FunInv
  <2>4. CallPlace'
    <3>1. m \in 1 .. Len(Fun(call, j)) /\ call' = call
      BY <1>1, <1>8
    <3> QED BY <1>10, <2>3, <3>1, PlaceHere
  <2> QED BY <1>7, <1>8, <2>4 DEF Moves, Written, Keeps
<1>11. CASE ops' = ops /\ StopInv(n)'
  <2>1. ops' = From(Fun(call, j), n, Behind(call, j))
    BY <1>11 DEF InFun
  <2> QED BY <1>3, <1>10, <1>11, <2>1
<1>12. CASE ops' = Tail(ops) /\ n < 3 /\ StopInv(n + 1)'
  <2>1. n + 1 \in 1 .. 3
    BY <1>3, <1>12
  <2>2. n < Len(Fun(call, j))
    BY <1>1, <1>12
  <2> QED BY <1>4, <1>10, <1>12, <2>1, <2>2
<1>13. CASE ops' = Tail(ops) /\ n = 3 /\ Calm'
  <2>1. ops' = <<>>
    BY <1>1, <1>2, <1>4, <1>13, BehindIs
  <2>2. Known(8)'
    <3>1. CASE call[1] = "write" /\ j = 5
      <4>1. Known(5)' /\ call'[1] = "write"
        BY <1>8, <1>9, <3>1
      <4> QED BY <4>1 DEF Known
    <3>2. CASE call[1] = "read" /\ j = 7
      <4>1. Known(7)' /\ call'[1] = "read"
        BY <1>8, <1>9, <3>2
      <4> QED BY <4>1 DEF Known
    <3> QED BY <1>2, <3>1, <3>2
  <2>3. Quiet'
    BY <1>13, <2>2 DEF Calm, Quiet
  <2>4. CallPlace'
    BY <2>1, <2>3 DEF CallPlace
  <2> QED BY <1>7, <1>8, <2>4 DEF Moves, Written, Keeps
<1> QED BY <1>7, <1>11, <1>12, <1>13

LEMMA ReleaseGoes ==
  ASSUME DeviceOK, PortOK, Shape(call), NEW j \in 1 .. Len(Kinds(call)), Kinds(call)[j] = "byte",
         InRelease(j), I2cStep
  PROVE  Moves
<1>1. Behind(call, j) \in Seq(Accesses) /\ <<scl(0)>> \in Seq(Accesses) /\ Len(<<scl(0)>>) = 1
  BY BehindIs, ShortFuns
<1>2. ops # <<>> /\ Head(ops) = scl(0) /\ Tail(ops) = Behind(call, j)
  <2>1. ops = From(<<scl(0)>>, 1, Behind(call, j))
    BY <1>1, FromFirst DEF InRelease, Then
  <2>2. PICK f \in Seq(Accesses) : f = <<scl(0)>>
    BY <1>1
  <2>3. Len(f) = 1 /\ f[1] = scl(0) /\ 1 \in 1 .. Len(f)
    BY <2>2, <1>1
  <2> QED BY <1>1, <2>1, <2>2, <2>3, FromIs
<1>3. Steady /\ DeviceOK' /\ Written /\ FunInv(j + 1, 1)' /\ ops' = Tail(ops)
  BY <1>2, ReleaseMoves DEF InRelease
<1>4. UNCHANGED <<call, calls>> /\ PortOK'
  BY <1>3 DEF Steady
<1>5. j < Len(Kinds(call))
  <2>1. CASE call[1] = "write"
    <3>1. Len(Kinds(call)) = 5
      BY <2>1, KindsAre
    <3>2. j # 5
      BY <2>1, KindsAre
    <3> QED BY <3>1, <3>2
  <2>2. CASE call[1] = "read"
    <3>1. Len(Kinds(call)) = 7
      BY <2>2, KindsAre
    <3>2. j # 7
      BY <2>2, KindsAre
    <3> QED BY <3>1, <3>2
  <2> QED BY <2>1, <2>2, CallIs
<1>6. CallPlace'
  <2>1. call' = call /\ ops' = Behind(call, j)
    BY <1>2, <1>3, <1>4
  <2> QED BY <1>3, <1>5, <2>1, PlaceNext
<1> QED BY <1>3, <1>4, <1>6 DEF Moves

LEMMA GiveUpGoes ==
  ASSUME DeviceOK, PortOK, Shape(call), NEW j \in 1 .. Len(Kinds(call)), Kinds(call)[j] = "byte",
         NEW n \in 1 .. 3, InGivingUp(j, n), I2cStep
  PROVE  Moves
<1>1. Behind(call, j) \in Seq(Accesses) /\ i2c_stop \in Seq(Accesses) /\ Len(i2c_stop) = 3
  BY BehindIs, ShortFuns
<1>2. /\ ops # <<>> /\ Head(ops) = i2c_stop[n]
      /\ n < 3 => Tail(ops) = From(i2c_stop, n + 1, Behind(call, j))
      /\ n = 3 => Tail(ops) = Behind(call, j)
  <2>1. PICK f \in Seq(Accesses) : f = i2c_stop
    BY <1>1
  <2>2. Len(f) = 3 /\ n \in 1 .. Len(f) /\ ops = From(f, n, Behind(call, j))
    BY <1>1, <2>1 DEF InGivingUp
  <2>3. /\ ops # <<>> /\ Head(ops) = f[n]
        /\ n < Len(f) => Tail(ops) = From(f, n + 1, Behind(call, j))
        /\ n = Len(f) => Tail(ops) = Behind(call, j)
    BY <1>1, <2>2, FromIs
  <2> QED BY <2>1, <2>2, <2>3
<1>3. GivingUp(n) /\ (call[1] = "read" /\ j < 6 => ret = 0)
  BY DEF InGivingUp
<1>4. /\ Steady /\ DeviceOK' /\ Keeps
      /\ \/ ops' = ops /\ GivingUp(n)'
         \/ ops' = Tail(ops) /\ n < 3 /\ GivingUp(n + 1)'
         \/ ops' = Tail(ops) /\ n = 3 /\ Unanswered'
  BY <1>2, <1>3, GiveUpMoves
<1>5. UNCHANGED <<call, ret, calls, answered>> /\ PortOK'
  BY <1>4 DEF Steady
<1>6. ASSUME NEW m \in 1 .. 3, ops' = From(i2c_stop, m, Behind(call, j)), GivingUp(m)'
      PROVE  Moves
  <2>1. InGivingUp(j, m)' /\ j \in 1 .. Len(Kinds(call')) /\ Kinds(call')[j] = "byte"
    BY <1>3, <1>5, <1>6 DEF InGivingUp
  <2>2. CallPlace'
    BY <2>1 DEF CallPlace
  <2> QED BY <1>4, <1>5, <2>2 DEF Moves, Written, Keeps
<1>7. CASE ops' = ops /\ GivingUp(n)'
  BY <1>6, <1>7 DEF InGivingUp
<1>8. CASE ops' = Tail(ops) /\ n < 3 /\ GivingUp(n + 1)'
  <2>1. n + 1 \in 1 .. 3
    BY <1>8
  <2> QED BY <1>2, <1>6, <1>8, <2>1
<1>9. CASE ops' = Tail(ops) /\ n = 3 /\ Unanswered'
  <2>1. j \in {2, 3} \/ (j = 4 /\ call[1] = "write") \/ (j = 5 /\ call[1] = "read")
    BY FunIs
  <2>2. j < Len(Kinds(call)) /\ Kinds(call)[j + 1] \in {"start", "byte", "read", "stop"}
        /\ (Kinds(call)[j + 1] = "read" => call[1] = "read" /\ j = 5)
    <3>1. CASE call[1] = "write"
      BY <2>1, <3>1, KindsAre
    <3>2. CASE call[1] = "read"
      BY <2>1, <3>2, KindsAre
    <3> QED BY <3>1, <3>2, CallIs
  <2>3. (call[1] = "read" /\ j + 1 <= 6 => ret = 0)'
    BY <1>3, <1>5, <2>1
  <2>4. FunInv(j + 1, 1)'
    <3>1. PICK i \in Nat : i = j + 1 /\ i > 2
      BY <2>1
    <3>2. Kinds(call')[i] \in {"start", "byte", "read", "stop"}
          /\ (Kinds(call')[i] = "read" => call'[1] = "read" /\ i = 6)
          /\ (call[1] = "read" /\ i <= 6 => ret = 0)'
      BY <1>5, <2>1, <2>2, <2>3, <3>1
    <3>3. FunInv(i, 1)'
      BY <1>9, <3>1, <3>2, LostGoesOn
    <3> QED BY <3>1, <3>3
  <2>5. CallPlace'
    <3>1. call' = call /\ ops' = Behind(call, j)
      BY <1>2, <1>5, <1>9
    <3> QED BY <2>2, <2>4, <3>1, PlaceNext
  <2> QED BY <1>4, <1>5, <2>5 DEF Moves, Written, Keeps
<1> QED BY <1>4, <1>7, <1>8, <1>9

-----------------------------------------------------------------------------
(* The invariant                                                           *)

LEMMA StepGoes ==
  ASSUME I2cInv, I2cStep
  PROVE  Moves /\ CallOK'
<1>1. DeviceOK /\ CallOK /\ PortOK /\ CallPlace
  BY DEF I2cInv
<1>2. ops # <<>>
  BY DEF I2cStep, gpio_w_pin, SampleBit, WaitAck, ReadsPin
<1>3. calls > 0 /\ Shape(call)
  BY <1>1, <1>2 DEF CallOK
<1>4. Moves
  <2>1. ASSUME NEW j \in 1 .. Len(Kinds(call)), NEW n \in 1 .. Len(Fun(call, j)), InFun(j, n)
        PROVE  Moves
    <3>1. Kinds(call)[j] \in {"start", "byte", "read", "stop"}
      BY <1>3, FunSeq
    <3> QED BY <1>1, <1>3, <2>1, <3>1, StartGoes, ByteGoes, ReadGoes, StopGoes
  <2>2. ASSUME NEW j \in 1 .. Len(Kinds(call)), Kinds(call)[j] = "byte", InRelease(j)
        PROVE  Moves
    BY <1>1, <1>3, <2>2, ReleaseGoes
  <2>3. ASSUME NEW j \in 1 .. Len(Kinds(call)), Kinds(call)[j] = "byte", NEW n \in 1 .. 3, InGivingUp(j, n)
        PROVE  Moves
    BY <1>1, <1>3, <2>3, GiveUpGoes
  <2> QED BY <1>1, <1>2, <2>1, <2>2, <2>3 DEF CallPlace
<1>5. CallOK'
  BY <1>3, <1>4 DEF CallOK, Moves
<1> QED BY <1>4, <1>5

\* Between two calls the lines are high and the device waits for a start.
LEMMA NowQuiet ==
  ASSUME CallOK, CallPlace, ops = <<>>
  PROVE  Quiet
<1>1. ops = <<>>
  OBVIOUS
<1>2. CASE calls > 0 /\ Shape(call)
  <2>1. ASSUME NEW j \in 1 .. Len(Kinds(call)), NEW n \in 1 .. Len(Fun(call, j)), InFun(j, n)
        PROVE  FALSE
    <3>1. ops = From(Fun(call, j), n, Behind(call, j))
      BY <2>1 DEF InFun
    <3> QED BY <1>2, <3>1, HereIs
  <2>2. ASSUME NEW j \in 1 .. Len(Kinds(call)), NEW t \in Seq(Accesses), t = Behind(call, j),
               InRelease(j) \/ \E n \in 1 .. 3 : InGivingUp(j, n)
        PROVE  FALSE
    <3>1. CASE InRelease(j)
      <4>1. PICK f \in Seq(Accesses) : f = <<scl(0)>> /\ Len(f) = 1
        BY ShortFuns
      <4>2. ops = f \o t /\ 1 \in 1 .. Len(f)
        BY <2>2, <3>1, <4>1 DEF InRelease
      <4>3. From(f, 1, t) # <<>> /\ From(f, 1, t) = f \o t
        BY <2>2, <4>2, FromIs
      <4> QED BY <1>1, <4>2, <4>3
    <3>2. ASSUME NEW n \in 1 .. 3, InGivingUp(j, n)
          PROVE  FALSE
      <4>1. PICK f \in Seq(Accesses) : f = i2c_stop /\ Len(f) = 3
        BY ShortFuns
      <4>2. ops = From(f, n, t) /\ n \in 1 .. Len(f)
        BY <2>2, <3>2, <4>1 DEF InGivingUp
      <4> QED BY <1>1, <4>2, FromIs
    <3> QED BY <2>2, <3>1, <3>2
  <2>3. \A j \in 1 .. Len(Kinds(call)) : Behind(call, j) \in Seq(Accesses)
    BY <1>2, BehindIs
  <2> QED BY <2>1, <2>2, <2>3 DEF CallPlace
<1> QED BY <1>2 DEF CallOK

LEMMA CallGoes ==
  ASSUME I2cInv, I2cAssumption, WriteRegister \/ ReadRegister
  PROVE  I2cInv' /\ device' = device
<1>1. DeviceOK /\ CallOK /\ PortOK /\ CallPlace /\ ops = <<>>
  BY DEF I2cInv, WriteRegister, ReadRegister, Call
<1>2. Quiet
  BY <1>1, NowQuiet
<1>3. /\ calls < MaxCalls /\ calls' = calls + 1 /\ ret' = 0 /\ answered' = TRUE
      /\ ddr' = ddr /\ dr' = dr /\ errtime' = errtime /\ device' = device
  BY DEF WriteRegister, ReadRegister, Call
<1>4. DeviceOK' /\ PortOK' /\ calls' > 0
  <2>1. calls \in 0 .. MaxCalls /\ MaxCalls \in Nat
    BY <1>1 DEF PortOK, I2cAssumption
  <2>2. calls' \in 0 .. MaxCalls /\ calls' > 0
    BY <1>3, <2>1
  <2> QED BY <1>1, <1>3, <2>2, Names DEF DeviceOK, PortOK
<1>5. Shape(call') /\ ops' = From(Fun(call', 1), 1, Behind(call', 1))
  <2>1. CASE WriteRegister
    <3>1. PICK w \in Writes : call' = <<"write", w[1], w[2]>> /\ ops' = mpu6050_w_byte(w[1], w[2])
      BY <2>1 DEF WriteRegister, Call
    <3>2. w[1] \in Registers /\ w[2] \in Byte
      BY <3>1 DEF I2cAssumption
    <3>3. Shape(call') /\ call'[1] = "write" /\ call'[2] = w[1] /\ call'[3] = w[2]
      BY <3>1, <3>2 DEF Shape
    <3>4. mpu6050_w_byte(call'[2], call'[3]) = From(Fun(call', 1), 1, Behind(call', 1))
      BY <3>3, WriteProgram
    <3> QED BY <3>1, <3>3, <3>4
  <2>2. CASE ReadRegister
    <3>1. PICK r \in Reads : call' = <<"read", r, 0>> /\ ops' = mpu6050_r_byte(r)
      BY <2>2 DEF ReadRegister, Call
    <3>2. r \in Registers /\ 0 \in Byte
      BY <3>1 DEF I2cAssumption, Byte
    <3>3. Shape(call') /\ call'[1] = "read" /\ call'[2] = r
      BY <3>1, <3>2 DEF Shape
    <3>4. mpu6050_r_byte(call'[2]) = From(Fun(call', 1), 1, Behind(call', 1))
      BY <3>3, ReadProgram
    <3> QED BY <3>1, <3>3, <3>4
  <2> QED BY <2>1, <2>2
<1>6. CallOK'
  BY <1>4, <1>5 DEF CallOK
<1>7. 1 \in 1 .. Len(Kinds(call')) /\ Kinds(call')[1] = "start"
  <2>1. CASE call'[1] = "write"
    <3>1. Len(Kinds(call')) = 5
      BY <2>1, KindsAre
    <3> QED BY <2>1, <3>1, KindsAre
  <2>2. CASE call'[1] = "read"
    <3>1. Len(Kinds(call')) = 7
      BY <2>2, KindsAre
    <3> QED BY <2>2, <3>1, KindsAre
  <2> QED BY <1>5, <2>1, <2>2, CallIs
<1>8. FunInv(1, 1)'
  <2>1. StartInv(1, 1)'
    BY <1>2, <1>3 DEF Quiet, StartInv, Idle
  <2>2. KnownAt(1, 1)'
    BY <1>7 DEF KnownAt, Known
  <2> QED BY <1>3, <1>7, <2>1, <2>2 DEF FunInv
<1>9. 1 \in 1 .. Len(Fun(call', 1))
  <2>1. Len(Fun(call', 1)) = 4
    BY <1>5, <1>7, FunSeq
  <2> QED BY <2>1
<1>10. InFun(1, 1)'
  BY <1>5, <1>8 DEF InFun
<1>11. CallPlace'
  BY <1>7, <1>9, <1>10 DEF CallPlace
<1> QED BY <1>3, <1>4, <1>6, <1>11 DEF I2cInv

LEMMA I2cStarts ==
  ASSUME I2cAssumption, I2cInit
  PROVE  I2cInv
<1>1. DeviceOK
  BY Names DEF I2cInit, DeviceOK, Devices, Byte
<1>2. PortOK
  BY Names DEF I2cInit, PortOK, I2cAssumption
<1>3. Quiet
  BY DEF I2cInit, Quiet, Level, Idle
<1> QED BY <1>1, <1>2, <1>3 DEF I2cInv, CallOK, CallPlace, I2cInit

LEMMA StandsStill ==
  ASSUME I2cInv, UNCHANGED i2cVars
  PROVE  I2cInv'
<1>1. UNCHANGED <<call, ops, ddr, dr, errtime, ret, calls, answered, device>>
  BY DEF i2cVars
<1>2. Quiet' <=> Quiet
  BY <1>1 DEF Quiet, Idle, Known
<1>3. DeviceOK' /\ CallOK' /\ PortOK'
  BY <1>1, <1>2 DEF I2cInv, DeviceOK, CallOK, PortOK
<1>4. ASSUME NEW j \in 1 .. Len(Kinds(call))
      PROVE  Kinds(call)[j] \in {"start", "byte", "read", "stop"}
  <2>1. CASE call[1] = "write"
    BY <2>1 DEF Kinds
  <2>2. CASE call[1] # "write"
    BY <2>2 DEF Kinds
  <2> QED BY <2>1, <2>2
<1>5. ASSUME NEW j \in 1 .. Len(Kinds(call)), NEW n, FunInv(j, n)
      PROVE  FunInv(j, n)'
  <2>1. /\ KnownAt(j, n)' <=> KnownAt(j, n)
        /\ StartInv(j, n)' <=> StartInv(j, n)
        /\ StopInv(n)' <=> StopInv(n)
    BY <1>1 DEF KnownAt, Known, StartInv, StopInv, SclIs, SdaIs, SdaSafe, Idle, Fresh, Unanswered, Hears
  <2>2. ByteInv(j, n)' <=> ByteInv(j, n)
    BY <1>1 DEF ByteInv, BitInv, WaitInv, SclIs, SdaIs, SdaSafe, Idle, Hears, Heard, Answers
  <2>3. ReadInv(n)' <=> ReadInv(n)
    BY <1>1 DEF ReadInv, SampleInv, SclIs, SdaIs, SdaSafe, Idle, Sends, Unanswered
  <2>4. KnownAt(j, n)' /\ (call[1] = "read" /\ j < 6 => ret = 0)' /\ (j = 1 => answered)' /\ call' = call
    BY <1>1, <1>5, <2>1 DEF FunInv
  <2>5. CASE Kinds(call)[j] = "start"
    BY <1>5, <2>1, <2>4, <2>5 DEF FunInv
  <2>6. CASE Kinds(call)[j] = "byte"
    BY <1>5, <2>2, <2>4, <2>6 DEF FunInv
  <2>7. CASE Kinds(call)[j] = "read"
    BY <1>5, <2>3, <2>4, <2>7 DEF FunInv
  <2>8. CASE Kinds(call)[j] = "stop"
    BY <1>5, <2>1, <2>4, <2>8 DEF FunInv
  <2> QED BY <1>4, <2>5, <2>6, <2>7, <2>8
<1>6. CallPlace'
  BY <1>1, <1>2, <1>5 DEF I2cInv, CallPlace, InFun, InRelease, InGivingUp, Released, GivingUp, Known,
     SclIs, SdaIs, SdaSafe, Heard, Answers
<1> QED BY <1>3, <1>6 DEF I2cInv

LEMMA I2cKeeps ==
  ASSUME I2cAssumption, I2cInv, [I2cNext]_i2cVars
  PROVE  I2cInv' /\ (Written \/ device' = device)
<1>1. CASE I2cStep
  BY <1>1, StepGoes DEF Moves, I2cInv
<1>2. CASE WriteRegister \/ ReadRegister
  BY <1>2, CallGoes
<1>3. CASE UNCHANGED i2cVars
  BY <1>3, StandsStill DEF i2cVars
<1> QED BY <1>1, <1>2, <1>3 DEF I2cNext

\* sda is made an input only where its data bit is set.
LEMMA ReadWhileHigh ==
  ASSUME CallOK, CallPlace, ops # <<>>, Head(ops) \in {Poll, Sample}
  PROVE  dr["sda"] = 1
<1>1. Shape(call)
  BY DEF CallOK
<1>2. \A v \in 0 .. 1 : Head(ops) # sda(v) /\ Head(ops) # scl(v)
  BY DEF Poll, Sample, sda, scl
<1>3. ASSUME NEW j \in 1 .. Len(Kinds(call)), NEW n \in 1 .. Len(Fun(call, j)), InFun(j, n)
      PROVE  dr["sda"] = 1
  <2>1. Head(ops) = Fun(call, j)[n] /\ FunInv(j, n)
    <3>1. ops = From(Fun(call, j), n, Behind(call, j))
      BY <1>3 DEF InFun
    <3> QED BY <1>1, <1>3, <3>1, HereIs DEF InFun
  <2>2. CASE Kinds(call)[j] = "start"
    <3>1. n \in 1 .. 4 /\ Head(ops) = i2c_start[n]
      BY <1>1, <1>3, <2>1, <2>2, FunSeq
    <3> QED BY <1>2, <3>1 DEF i2c_start
  <2>3. CASE Kinds(call)[j] = "byte"
    <3>1. PICK b \in Byte : b = ByteOf(call, j)
      BY <1>1, <2>3, FunSeq
    <3>2. Fun(call, j) = i2c_w_byte(b) /\ n \in 1 .. 27
      <4>1. Fun(call, j) = i2c_w_byte(b) /\ Len(Fun(call, j)) = 27
        BY <1>1, <2>3, <3>1, FunSeq
      <4> QED BY <4>1
    <3>3. CASE n <= 24
      <4>1. n \in 1 .. 24
        BY <3>2, <3>3
      <4>2. PICK k \in 0 .. 7, r \in 0 .. 2 : k = (n - 1) \div 3 /\ r = (n - 1) % 3
        BY <4>1, PlaceOfBit
      <4>3. i2c_w_byte(b)[n] = BitAccess(b, (n - 1) \div 3)[((n - 1) % 3) + 1]
        BY <4>1, ByteFun
      <4>4. Head(ops) = BitAccess(b, k)[r + 1]
        BY <2>1, <3>2, <4>2, <4>3
      <4>5. PICK v \in 0 .. 1 : v = BitOf(b, 7 - k)
        BY BitRange
      <4>6. r = 0 \/ r = 1 \/ r = 2
        OBVIOUS
      <4> QED BY <1>2, <4>4, <4>5, <4>6 DEF BitAccess
    <3>4. CASE n > 24
      <4>1. n \in 25 .. 27
        BY <3>2, <3>4
      <4>2. i2c_w_byte(b)[n] = i2c_wait_ack[n - 24]
        BY <4>1, ByteFun
      <4>3. Head(ops) = i2c_wait_ack[n - 24]
        BY <2>1, <3>2, <4>2
      <4>4. n = 27
        BY <1>2, <4>1, <4>3 DEF i2c_wait_ack
      <4>5. WaitInv(j, 27)
        BY <2>1, <2>3, <4>4 DEF FunInv, ByteInv
      <4> QED BY <4>5 DEF WaitInv
    <3> QED BY <3>2, <3>3, <3>4
  <2>4. CASE Kinds(call)[j] = "read"
    <3>1. Fun(call, j) = i2c_r_byte(1) /\ n \in 1 .. 29
      <4>1. Fun(call, j) = i2c_r_byte(1) /\ Len(Fun(call, j)) = 29
        BY <1>1, <2>4, FunSeq
      <4> QED BY <4>1
    <3>2. ReadInv(n)
      BY <2>1, <2>4 DEF FunInv
    <3>3. CASE n = 1
      <4>1. Head(ops) = sda(1)
        BY <2>1, <3>1, <3>3, ReadFun
      <4>2. 1 \in 0 .. 1
        OBVIOUS
      <4> QED BY <1>2, <4>1, <4>2
    <3>4. CASE n > 1 /\ n <= 25
      BY <3>2, <3>4 DEF ReadInv, SampleInv
    <3>5. CASE n > 25 /\ n <= 28
      BY <3>2, <3>5 DEF ReadInv
    <3>6. CASE n > 28
      BY <3>2, <3>6 DEF ReadInv, SdaIs
    <3> QED BY <3>1, <3>3, <3>4, <3>5, <3>6
  <2>5. CASE Kinds(call)[j] = "stop"
    <3>1. n \in 1 .. 3 /\ Head(ops) = i2c_stop[n]
      BY <1>1, <1>3, <2>1, <2>5, FunSeq
    <3> QED BY <1>2, <3>1 DEF i2c_stop
  <2> QED BY <1>1, <2>2, <2>3, <2>4, <2>5, FunSeq
<1>4. ASSUME NEW j \in 1 .. Len(Kinds(call)), InRelease(j)
      PROVE  FALSE
  <2>1. PICK f \in Seq(Accesses) : f = <<scl(0)>> /\ Len(f) = 1 /\ f[1] = scl(0)
    BY ShortFuns
  <2>2. PICK t \in Seq(Accesses) : t = Behind(call, j)
    BY <1>1, BehindIs
  <2>3. ops = f \o t /\ 1 \in 1 .. Len(f)
    BY <1>4, <2>1, <2>2 DEF InRelease
  <2>4. Head(From(f, 1, t)) = f[1] /\ From(f, 1, t) = f \o t
    BY <2>3, FromIs
  <2> QED BY <1>2, <2>1, <2>3, <2>4
<1>5. ASSUME NEW j \in 1 .. Len(Kinds(call)), NEW n \in 1 .. 3, InGivingUp(j, n)
      PROVE  FALSE
  <2>1. PICK f \in Seq(Accesses) : f = i2c_stop /\ Len(f) = 3
    BY ShortFuns
  <2>2. PICK t \in Seq(Accesses) : t = Behind(call, j)
    BY <1>1, BehindIs
  <2>3. ops = From(f, n, t) /\ n \in 1 .. Len(f)
    BY <1>5, <2>1, <2>2 DEF InGivingUp
  <2>4. Head(ops) = i2c_stop[n]
    BY <2>1, <2>3, FromIs
  <2> QED BY <1>2, <2>4 DEF i2c_stop
<1> QED BY <1>3, <1>4, <1>5 DEF CallPlace

LEMMA TypeFollows ==
  ASSUME I2cInv
  PROVE  I2cTypeOK
<1>1. DeviceOK /\ CallOK /\ PortOK /\ CallPlace
  BY DEF I2cInv
<1>2. call[2] \in Byte /\ call[3] \in Byte
  <2>1. CASE call = <<"none", 0, 0>>
    BY <2>1, Names
  <2>2. CASE Shape(call)
    BY <2>2, CallIs
  <2> QED BY <1>1, <2>1, <2>2 DEF CallOK
<1>3. ops # <<>> /\ Head(ops) \in {Poll, Sample} => dr["sda"] = 1
  BY <1>1, ReadWhileHigh
<1> QED BY <1>1, <1>2, <1>3 DEF I2cTypeOK, PortOK, DeviceOK, Devices

LEMMA RightFollows ==
  ASSUME I2cInv
  PROVE  BusFree /\ WorkDone
<1>1. SUFFICES ASSUME Returned PROVE BusFree /\ WorkDone
  BY DEF BusFree, WorkDone
<1>2. Quiet /\ calls > 0
  BY <1>1, NowQuiet DEF I2cInv, Returned
<1>3. call[1] = "write" \/ call[1] = "read"
  <2>1. Shape(call)
    BY <1>2 DEF I2cInv, CallOK
  <2> QED BY <2>1, CallIs
<1>4. Sda(ddr, dr) = 1
  BY <1>2 DEF Quiet, Idle, Sda
<1> QED BY <1>2, <1>3, <1>4 DEF BusFree, WorkDone, Quiet, Idle, Known

-----------------------------------------------------------------------------
(* The theorems                                                            *)

LEMMA I2cInvariant == I2cSpec => []I2cInv
<1>1. I2cInit => I2cInv
  BY I2cAssumption, I2cStarts
<1>2. I2cInv /\ [I2cNext]_i2cVars => I2cInv'
  BY I2cAssumption, I2cKeeps
<1> QED BY <1>1, <1>2, PTL DEF I2cSpec

\* The ranges of the variables of the software I2C, errtime and ret of i2c_r_byte among
\* them, and that gpio_r_pin makes sda an input only while its data bit is set, so that
\* reading the answer never moves the line: for every register, byte and number of tries.
THEOREM I2cTypeCorrect == I2cSpec => []I2cTypeOK
<1>1. I2cInv => I2cTypeOK
  BY TypeFollows
<1> QED BY <1>1, I2cInvariant, PTL

\* A register of the MPU6050 changes only to what the call of mpu6050_w_byte under way
\* writes to it, whichever bytes the device leaves unanswered: what mpu6050_w_byte still
\* sends behind the stop of i2c_wait_ack is never taken for a write.
THEOREM RegistersAsWritten == I2cSpec => OnlyAsWritten
<1>1. I2cInv /\ [I2cNext]_i2cVars =>
        [device'.regs # device.regs =>
           call[1] = "write" /\ device'.regs = [device.regs EXCEPT ![call[2]] = call[3]]]_i2cVars
  BY I2cAssumption, I2cKeeps DEF Written
<1> QED BY <1>1, I2cInvariant, PTL DEF I2cSpec, OnlyAsWritten

\* When mpu6050_w_byte or mpu6050_r_byte has returned, both lines are high and the device
\* waits for a start; when every byte was answered, the register holds what was written,
\* and what was read is the register: for every sequence of calls.
THEOREM CallsAreRight == I2cSpec => [](BusFree /\ WorkDone)
<1>1. I2cInv => BusFree /\ WorkDone
  BY RightFollows
<1> QED BY <1>1, I2cInvariant, PTL
=============================================================================
