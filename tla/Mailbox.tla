------------------------------ MODULE Mailbox -------------------------------
(***************************************************************************)
(* The mailbox between the big core (Linux, mailbox_comm of Robot/src/     *)
(* main.c) and the small core (FreeRTOS, Robot/comm_main.c).  Both cores   *)
(* write messages into the slots of one buffer under a spinlock that they  *)
(* share; a message raises an interrupt on the other core, whose handler   *)
(* empties the slot without the lock.  On the small core prvQueueISR hands *)
(* the commands to mailbox_task through a queue, and prvDetectISR sets     *)
(* gFreertos_Data, which the next reply carries to Linux.                  *)
(* The Linux kernel driver is external: it is modelled from how main.c     *)
(* calls it and from what comm_main.c expects of it.  Every attempt of a   *)
(* command has a number of its own; sent[n] is the command it belongs to.  *)
(***************************************************************************)
EXTENDS Integers, Sequences, FiniteSets, Functions

CONSTANTS
  MaxSlot,      \* MAILBOX_MAX_NUM
  QueueLen,     \* the length given to xQueueCreate
  MaxTry,       \* the count of TRY_IF_FAILED
  MaxCommand,   \* bound on the commands of mailbox_comm
  MaxEvent,     \* bound on the GPIO interrupts
  MaxLockFail   \* bound on the spinlock giving up

ASSUME MailboxAssumption ==
  /\ MaxSlot \in Nat /\ QueueLen \in Nat /\ MaxTry \in Nat \ {0}
  /\ MaxCommand \in Nat /\ MaxEvent \in Nat /\ MaxLockFail \in Nat

VARIABLES
  \* shared
  slot,            \* mailbox_context: what every slot holds
  lock,            \* mailbox_lock: "free" or the core that holds it
  rtosInt,         \* the slots whose interrupt is pending on the small core
  linuxInt,        \* the slots whose interrupt is pending on the big core
  \* big core
  lpc,             \* where the sending thread is
  command,         \* the command it is sending
  attempts,        \* ioctl calls for that command so far
  sent,            \* history: sent[n] is the command of attempt n
  \* small core, interrupt handler
  isr,             \* where prvQueueISR is
  set_val,         \* the interrupts it still has to look at
  rtos_cmdq,       \* its copy of the slot
  \* small core, task
  queue,           \* queue_handle
  tpc,             \* where mailbox_task is
  from_linux,      \* the attempt it handles
  gLinux_Data,     \* the command whose data it stored last
  addr,            \* the address of the shared buffer has arrived
  gFreertos_Data,  \* bit 0
  \* history
  unreported,      \* a GPIO event has not been put into a reply yet
  handled,         \* the attempts mailbox_task took, in order
  dropped,         \* the attempts for which the queue was full
  events, lockFails

shared == <<slot, lock, rtosInt, linuxInt>>
bigCore == <<lpc, command, attempts, sent>>
handler == <<isr, set_val, rtos_cmdq>>
stored == <<gLinux_Data, addr>>
smallCore == <<queue, tpc, from_linux, stored>>
eventVars == <<gFreertos_Data, unreported, events>>
history == <<handled, dropped, lockFails>>
vars == <<shared, bigCore, handler, smallCore, eventVars, history>>

Slots == 0 .. MaxSlot - 1

\* Contents of a slot: nothing, an attempt of Linux (linux_valid), or the reply to
\* one (rtos_valid).
Empty == [from |-> "nobody", attempt |-> 0]
Command(n) == [from |-> "linux", attempt |-> n]
Reply(n) == [from |-> "rtos", attempt |-> n]

\* mailbox_comm sends the address once with CMD_TEST_B, then data with CMD_TEST_C.
Kind(c) == IF c = 1 THEN "CMD_TEST_B" ELSE "CMD_TEST_C"

MinSlot(S) == CHOOSE s \in S : \A t \in S : s <= t

\* A slot is free when neither core's valid flag is set.  A slip: only the flag of
\* Linux is looked at.
FreeOfLinux == {s \in Slots : slot[s].from # "linux"}
Free == {s \in Slots : slot[s] = Empty}

\* The order in which prvQueueISR treats a slot.  Slips: the interrupt cleared after
\* the slot, which the other core may have used again; the slot zeroed before it
\* is copied.
ClearLate == [enter |-> "copy", copy |-> "zero", zero |-> "clear", clear |-> "send"]
CopyLate == [enter |-> "clear", clear |-> "zero", zero |-> "copy", copy |-> "send"]
After == [enter |-> "clear", clear |-> "copy", copy |-> "zero", zero |-> "send"]

-----------------------------------------------------------------------------
Init ==
  /\ slot = [s \in Slots |-> Empty]
  /\ lock = "free" /\ rtosInt = {} /\ linuxInt = {}
  /\ lpc = "ready" /\ command = 1 /\ attempts = 0 /\ sent = <<>>
  /\ isr = "off" /\ set_val = {} /\ rtos_cmdq = Empty
  /\ queue = <<>> /\ tpc = "receive" /\ from_linux = 0
  /\ gLinux_Data = 0 /\ addr = FALSE /\ gFreertos_Data = 0
  /\ unreported = FALSE /\ handled = <<>> /\ dropped = {}
  /\ events = 0 /\ lockFails = 0

-----------------------------------------------------------------------------
(* The big core: ioctl(RTOS_CMDQU_SEND_WAIT) in TRY_IF_FAILED              *)

LinuxLock ==
  /\ lpc = "ready" /\ command <= MaxCommand
  /\ lock = "free" /\ lock' = "linux"
  /\ lpc' = "write"
  /\ UNCHANGED <<slot, rtosInt, linuxInt, command, attempts, sent, handler, smallCore,
                 eventVars, history>>

\* A slip: ioctl is called again without end.
FailedForEver == attempts' = attempts + 1 /\ lpc' = "ready"

\* The attempt failed: TRY_IF_FAILED calls ioctl again, or mailbox_comm gives up.
Failed ==
  /\ attempts' = attempts + 1
  /\ lpc' = IF attempts' = MaxTry THEN "stopped" ELSE "ready"

LinuxNoSlot ==
  /\ lpc = "write" /\ Free = {}
  /\ lock' = "free"
  /\ Failed
  /\ UNCHANGED <<slot, rtosInt, linuxInt, command, sent, handler, smallCore, eventVars, history>>

LinuxWrite ==
  /\ lpc = "write" /\ Free # {}
  /\ sent' = Append(sent, command)
  /\ slot' = [slot EXCEPT ![MinSlot(Free)] = Command(Len(sent'))]
  /\ lpc' = "trigger"
  /\ UNCHANGED <<lock, rtosInt, linuxInt, command, attempts, handler, smallCore, eventVars, history>>

\* The slot with the attempt just written.
Written == {s \in Slots : slot[s] = Command(Len(sent))}

LinuxTrigger ==
  /\ lpc = "trigger"
  /\ rtosInt' = rtosInt \cup Written
  /\ lock' = "free"
  /\ lpc' = "wait"
  /\ UNCHANGED <<slot, linuxInt, command, attempts, sent, handler, smallCore, eventVars, history>>

\* The reply did not come within cmd.resv.mstime.
LinuxTimeout ==
  /\ lpc = "wait"
  /\ Failed
  /\ UNCHANGED <<shared, command, sent, handler, smallCore, eventVars, history>>

\* The interrupt handler of Linux empties the slot; the reply wakes the thread that
\* waits for one of that kind: a reply names no more than the kind of its command.
LinuxIrq ==
  /\ linuxInt # {}
  /\ LET s == MinSlot(linuxInt) IN
       /\ linuxInt' = linuxInt \ {s}
       /\ slot' = [slot EXCEPT ![s] = Empty]
  /\ LET answered == sent[slot[MinSlot(linuxInt)].attempt] IN
       IF lpc = "wait" /\ Kind(answered) = Kind(command)
       THEN command' = command + 1 /\ attempts' = 0 /\ lpc' = "ready"
       ELSE UNCHANGED <<command, attempts, lpc>>
  /\ UNCHANGED <<lock, rtosInt, sent, handler, smallCore, eventVars, history>>

-----------------------------------------------------------------------------
(* The small core: interrupts.  They are masked while the task holds the   *)
(* spinlock, and one does not interrupt another.                           *)

Interruptible == isr = "off" /\ lock # "rtos"

\* prvDetectISR: an edge on GPIOA 23.
DetectISR ==
  /\ Interruptible
  /\ events < MaxEvent /\ events' = events + 1
  /\ gFreertos_Data' = 1
  /\ unreported' = TRUE
  /\ UNCHANGED <<shared, bigCore, handler, smallCore, history>>

\* prvQueueISR reads the interrupt register once and looks at its bits in order.
EnterISR ==
  /\ Interruptible
  /\ rtosInt # {}
  /\ set_val' = rtosInt
  /\ isr' = After["enter"]
  /\ UNCHANGED <<shared, bigCore, rtos_cmdq, smallCore, eventVars, history>>

ISRClear ==
  /\ isr = "clear"
  /\ rtosInt' = rtosInt \ {MinSlot(set_val)}
  /\ isr' = After["clear"]
  /\ UNCHANGED <<slot, lock, linuxInt, bigCore, set_val, rtos_cmdq, smallCore, eventVars, history>>

ISRCopy ==
  /\ isr = "copy"
  /\ rtos_cmdq' = slot[MinSlot(set_val)]
  /\ isr' = After["copy"]
  /\ UNCHANGED <<shared, bigCore, set_val, smallCore, eventVars, history>>

\* The other core may use the slot from here on.
ISRZero ==
  /\ isr = "zero"
  /\ slot' = [slot EXCEPT ![MinSlot(set_val)] = Empty]
  /\ isr' = After["zero"]
  /\ UNCHANGED <<lock, rtosInt, linuxInt, bigCore, set_val, rtos_cmdq, smallCore, eventVars, history>>

\* xQueueSendFromISR: a full queue drops the command.
ISRSend ==
  /\ isr = "send"
  /\ \/ /\ rtos_cmdq.from = "linux" /\ Len(queue) < QueueLen
        /\ queue' = Append(queue, rtos_cmdq.attempt)
        /\ UNCHANGED dropped
     \/ /\ rtos_cmdq.from = "linux" /\ Len(queue) = QueueLen
        /\ dropped' = dropped \cup {rtos_cmdq.attempt}
        /\ UNCHANGED queue
     \/ rtos_cmdq.from # "linux" /\ UNCHANGED <<queue, dropped>>
  /\ set_val' = set_val \ {MinSlot(set_val)}
  /\ rtos_cmdq' = Empty
  /\ isr' = IF set_val' = {} THEN "off" ELSE After["enter"]
  /\ UNCHANGED <<shared, bigCore, tpc, from_linux, stored, eventVars, handled, lockFails>>

-----------------------------------------------------------------------------
(* The small core: mailbox_task, which runs when no handler does           *)

\* What the two cases of mailbox_task store.  A slip: the case of CMD_TEST_C falls
\* through to the reply with nothing stored.
StoreAddrOnly(c) == addr' = (addr \/ Kind(c) = "CMD_TEST_B") /\ UNCHANGED gLinux_Data
Store(c) ==
  /\ addr' = (addr \/ Kind(c) = "CMD_TEST_B")
  /\ gLinux_Data' = IF Kind(c) = "CMD_TEST_C" THEN c ELSE gLinux_Data

\* xQueueReceive; the address or the data of the command is stored.
Receive ==
  /\ isr = "off" /\ tpc = "receive"
  /\ queue # <<>>
  /\ from_linux' = Head(queue) /\ queue' = Tail(queue)
  /\ Store(sent[Head(queue)])
  /\ handled' = Append(handled, Head(queue))
  /\ tpc' = "lock"
  /\ UNCHANGED <<shared, bigCore, handler, eventVars, dropped, lockFails>>

TaskLock ==
  /\ isr = "off" /\ tpc = "lock"
  /\ lock = "free" /\ lock' = "rtos"
  /\ tpc' = "send"
  /\ UNCHANGED <<slot, rtosInt, linuxInt, bigCore, handler, queue, from_linux, stored,
                 eventVars, history>>

\* MAILBOX_LOCK_FAILED: the reply is dropped.
TaskLockFailed ==
  /\ isr = "off" /\ tpc = "lock"
  /\ lock = "linux"
  /\ lockFails < MaxLockFail /\ lockFails' = lockFails + 1
  /\ tpc' = "receive"
  /\ UNCHANGED <<shared, bigCore, handler, queue, from_linux, stored, eventVars,
                 handled, dropped>>

\* The reply takes the event along; the unlock lets the interrupts in again.
TaskSend ==
  /\ tpc = "send" /\ Free # {}
  /\ slot' = [slot EXCEPT ![MinSlot(Free)] = Reply(from_linux)]
  /\ linuxInt' = linuxInt \cup {MinSlot(Free)}
  /\ IF gFreertos_Data = 1 THEN unreported' = FALSE ELSE UNCHANGED unreported
  /\ gFreertos_Data' = 0
  /\ lock' = "free"
  /\ tpc' = "reset"
  /\ UNCHANGED <<rtosInt, bigCore, handler, queue, from_linux, stored, events, history>>

\* No slot: the task function returns.
TaskNoSlot ==
  /\ tpc = "send" /\ Free = {}
  /\ lock' = "free"
  /\ tpc' = "returned"
  /\ UNCHANGED <<slot, rtosInt, linuxInt, bigCore, handler, queue, from_linux, stored,
                 eventVars, history>>

\* gFreertos_Data is reset again, after the unlock.
TaskReset ==
  /\ isr = "off" /\ tpc = "reset"
  /\ gFreertos_Data' = 0
  /\ tpc' = "receive"
  /\ UNCHANGED <<shared, bigCore, handler, queue, from_linux, stored, unreported, events,
                 history>>

-----------------------------------------------------------------------------
LinuxSend == LinuxLock \/ LinuxNoSlot \/ LinuxWrite \/ LinuxTrigger
QueueISR == EnterISR \/ ISRClear \/ ISRCopy \/ ISRZero \/ ISRSend
Task == Receive \/ TaskLock \/ TaskSend \/ TaskNoSlot \/ TaskReset

\* Nothing is sent any more and everything sent is dealt with, or mailbox_task is
\* gone.
Quiet ==
  /\ lpc = "stopped" \/ (lpc = "ready" /\ command > MaxCommand)
  /\ rtosInt = {} /\ linuxInt = {} /\ isr = "off"
  /\ tpc = "returned" \/ (tpc = "receive" /\ queue = <<>>)
  /\ UNCHANGED vars

Next ==
  \/ LinuxSend \/ LinuxTimeout \/ LinuxIrq
  \/ QueueISR \/ DetectISR
  \/ Task \/ TaskLockFailed
  \/ Quiet

Spec == Init /\ [][Next]_vars

\* Both cores run and take the interrupts that stay pending.  Nothing is assumed of
\* GPIO events, of timeouts and of the spinlock giving up.
Fairness == WF_vars(LinuxSend) /\ WF_vars(LinuxIrq) /\ WF_vars(QueueISR) /\ WF_vars(Task)
FairSpec == Spec /\ Fairness

-----------------------------------------------------------------------------
Attempts == 1 .. Len(sent)
Content == {Empty} \cup {Command(n) : n \in Attempts} \cup {Reply(n) : n \in Attempts}

TypeOK ==
  /\ slot \in [Slots -> Content] /\ lock \in {"free", "linux", "rtos"}
  /\ rtosInt \subseteq Slots /\ linuxInt \subseteq Slots
  /\ lpc \in {"ready", "write", "trigger", "wait", "stopped"}
  /\ command \in 1 .. MaxCommand + 1 /\ attempts \in 0 .. MaxTry
  /\ sent \in Seq(1 .. MaxCommand)
  /\ isr \in {"off", "clear", "copy", "zero", "send"}
  /\ set_val \subseteq Slots /\ rtos_cmdq \in Content
  /\ queue \in Seq(Attempts) /\ Len(queue) <= QueueLen
  /\ tpc \in {"receive", "lock", "send", "reset", "returned"}
  /\ from_linux \in 0 .. Len(sent) /\ gLinux_Data \in 0 .. MaxCommand /\ addr \in BOOLEAN
  /\ gFreertos_Data \in {0, 1} /\ unreported \in BOOLEAN
  /\ handled \in Seq(Attempts) /\ dropped \subseteq Attempts
  /\ events \in 0 .. MaxEvent /\ lockFails \in 0 .. MaxLockFail

\* No message is stranded: one that is in a slot has its interrupt pending on the
\* core that must read it, or its writer is about to raise it, or the handler has
\* cleared the interrupt and is about to read and free the slot.
NothingStranded ==
  \A s \in Slots :
    /\ slot[s].from = "linux" =>
         \/ s \in rtosInt
         \/ lpc = "trigger" /\ s \in Written
         \/ isr \in {"copy", "zero"} /\ s = MinSlot(set_val)
    /\ slot[s].from = "rtos" => s \in linuxInt

\* Every attempt is in exactly one place: a slot, the copy of the handler, the queue,
\* or it was handled or dropped; so mailbox_task never handles one twice and none
\* vanishes between the cores.
Places(n) ==
  Cardinality({s \in Slots : slot[s] = Command(n)})
    + (IF isr = "send" /\ rtos_cmdq = Command(n) THEN 1 ELSE 0)
    + Cardinality({k \in DOMAIN queue : queue[k] = n})
    + Cardinality({k \in DOMAIN handled : handled[k] = n})
    + (IF n \in dropped THEN 1 ELSE 0)
OnePlace == \A n \in Attempts : Places(n) = 1

\* A message is never overwritten: a slot goes from free to a message and from a
\* message to free, though the readers do not take the lock.
NeverOverwritten ==
  [][\A s \in Slots : slot'[s] # slot[s] => Empty \in {slot[s], slot'[s]}]_vars

\* As long as no attempt had to be repeated the two cores go in step: a command
\* that ioctl reports as sent was stored, and only the next one can have been
\* stored after it.  (A repeated attempt can be handled after a later command,
\* because the handler goes by slot and not by age.)
Repeated == ~IsInjective(sent)
InStep ==
  ~Repeated => /\ command > 1 => addr
               /\ command > 2 => gLinux_Data \in {command - 1, command}

\* Every attempt that reached a slot is handled or dropped, or mailbox_task has
\* returned for want of a slot.
AttemptsHandled ==
  \A n \in 1 .. MaxTry * MaxCommand :
    (n \in Attempts) ~> (n \in Range(handled) \cup dropped \/ tpc = "returned")

-----------------------------------------------------------------------------
(* The inductive invariant behind them (MailboxProofs)                     *)

\* Who holds the spinlock, and what the sending thread and the task have in hand.
LockInv ==
  /\ lock = "linux" <=> lpc \in {"write", "trigger"}
  /\ lock = "rtos" <=> tpc = "send"
  /\ tpc = "send" => isr = "off"
  /\ lpc \in {"write", "trigger", "wait"} => command <= MaxCommand
  /\ lpc # "stopped" => attempts < MaxTry
  /\ tpc \in {"lock", "send"} => from_linux \in Attempts

\* An interrupt is pending only for a message; the reply's is as long as the reply is
\* there.
PendingInv ==
  /\ \A s \in rtosInt : slot[s].from = "linux"
  /\ \A s \in Slots : s \in linuxInt <=> slot[s].from = "rtos"
  /\ lpc = "trigger" => Written \cap rtosInt = {}

\* The handler goes through interrupts that are pending, but for the one it has cleared,
\* whose slot nobody else changes until it is free.
Current == MinSlot(set_val)
HandlerInv ==
  /\ isr = "off" <=> set_val = {}
  /\ isr # "off" => set_val \ {Current} \subseteq rtosInt
  /\ isr = "clear" => Current \in rtosInt
  /\ isr \in {"copy", "zero"} =>
       /\ slot[Current].from = "linux" /\ Current \notin rtosInt
       /\ lpc = "trigger" => Current \notin Written
  /\ isr = "zero" => rtos_cmdq = slot[Current]
  /\ isr = "send" => rtos_cmdq.from = "linux"

MailInv == TypeOK /\ LockInv /\ PendingInv /\ HandlerInv /\ NothingStranded

\* The attempts that are in a slot, in the hand of the handler, queued, and handled.
InSlots == {slot[s].attempt : s \in {t \in Slots : slot[t].from = "linux"}}
InHand == IF isr = "send" THEN {rtos_cmdq.attempt} ELSE {}
InSequence(seq) == {seq[k] : k \in DOMAIN seq}
Once(seq) == \A k, l \in DOMAIN seq : seq[k] = seq[l] => k = l

\* These and the dropped ones share out the attempts, and none is in one of them twice.
PlaceInv ==
  /\ Attempts = InSlots \cup InHand \cup InSequence(queue) \cup InSequence(handled) \cup dropped
  /\ InSlots \cap (InHand \cup InSequence(queue) \cup InSequence(handled) \cup dropped) = {}
  /\ InHand \cap (InSequence(queue) \cup InSequence(handled) \cup dropped) = {}
  /\ InSequence(queue) \cap (InSequence(handled) \cup dropped) = {}
  /\ InSequence(handled) \cap dropped = {}
  /\ \A s, t \in Slots : slot[s] = slot[t] /\ slot[s].from = "linux" => s = t
  /\ Once(queue) /\ Once(handled)

\* As long as no attempt was repeated the attempts are the commands: those behind the
\* one in hand were handled and answered, and its own reply is the only one under way.
Handled == InSequence(handled)
StepInv ==
  ~Repeated =>
    /\ \A n \in Attempts : sent[n] = n
    /\ Len(sent) \in {command - 1, command}
    /\ lpc \in {"trigger", "wait"} => Len(sent) = command
    /\ 1 .. command - 1 \subseteq Handled
    /\ \A s \in Slots : slot[s].from = "rtos" =>
         /\ slot[s].attempt = command /\ command \in Handled
         /\ tpc \notin {"lock", "send"}
         /\ \A t \in Slots : slot[t].from = "rtos" => t = s
    /\ tpc \in {"lock", "send"} => from_linux = command /\ command \in Handled
    /\ 1 \in Handled => addr
    /\ command > 1 /\ command \in Handled => gLinux_Data = command
    /\ command > 2 /\ command \notin Handled => gLinux_Data = command - 1

-----------------------------------------------------------------------------
(* What the comments of comm_main.c say and the code does not do           *)

\* comm_main.c:176 says that the small core hands its data to the big core here: a
\* GPIO event that no reply has carried yet is still in gFreertos_Data.
EventsReported == unreported => gFreertos_Data = 1
=============================================================================
