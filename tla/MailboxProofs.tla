---------------------------- MODULE MailboxProofs ----------------------------
(***************************************************************************)
(* Proofs about Mailbox, for any number of slots, commands, attempts and   *)
(* failures and any length of the queue.  MailInv is inductive, and with   *)
(* it no message is stranded or overwritten.  PlaceInv is inductive on top *)
(* of it: an attempt moves from one place to the next as the handler and   *)
(* the task go, and is in one of them only.                                *)
(***************************************************************************)
EXTENDS Mailbox, FiniteSetTheorems, WellFoundedInduction, TLAPS

(* Who owns what                                                           *)


\* The order of the numbers is well-founded.
LEMMA NumbersWellFounded == IsWellFoundedOn({ss \in Nat \X Nat : ss[1] < ss[2]}, Nat)
BY NatLessThanWellFounded DEF OpToRel

\* The least element of a set of numbers is one of them.
LEMMA MinSlotIn ==
  ASSUME NEW S \in SUBSET Nat, S # {}
  PROVE  MinSlot(S) \in S
<1> DEFINE R == {ss \in Nat \X Nat : ss[1] < ss[2]}
<1>1. IsWellFoundedOn(R, Nat)
  BY NumbersWellFounded
<1>2. \E x \in S : \A y \in S : ~ (<<y, x>> \in R)
  <2> HIDE DEF R
  <2> QED BY <1>1, WFMin
<1>3. \A x, y \in S : <<y, x>> \in R <=> y < x
  OBVIOUS
<1>4. \E x \in S : \A y \in S : x <= y
  <2> HIDE DEF R
  <2>1. \A x, y \in S : ~ (y < x) => x <= y
    OBVIOUS
  <2> QED BY <1>2, <1>3, <2>1
<1> QED BY <1>4 DEF MinSlot

\* A free slot that is chosen is a free slot.
LEMMA FreeSlot ==
  ASSUME MailboxAssumption, Free # {}
  PROVE  MinSlot(Free) \in Slots /\ slot[MinSlot(Free)] = Empty
<1>1. Free \in SUBSET Nat
  BY DEF Free, Slots, MailboxAssumption
<1> QED BY <1>1, MinSlotIn DEF Free

\* The slot the handler is at.
LEMMA CurrentSlot ==
  ASSUME MailboxAssumption, TypeOK, HandlerInv, isr # "off"
  PROVE  Current \in set_val /\ Current \in Slots
<1>1. set_val \in SUBSET Nat /\ set_val # {}
  BY DEF TypeOK, HandlerInv, Slots, MailboxAssumption
<1> QED BY <1>1, MinSlotIn DEF Current, TypeOK

\* What a slot, or the handler's copy of one, can hold.
LEMMA ContentKinds ==
  /\ Empty \in Content /\ Empty.from = "nobody"
  /\ \A n \in Attempts : Command(n) \in Content /\ Reply(n) \in Content
  /\ \A n : /\ Command(n).from = "linux" /\ Command(n).attempt = n
            /\ Reply(n).from = "rtos" /\ Reply(n).attempt = n
  /\ \A c \in Content : /\ c = Empty \/ c = Command(c.attempt) \/ c = Reply(c.attempt)
                        /\ c # Empty => c.attempt \in Attempts
                        /\ c = Empty <=> c.from = "nobody"
                        /\ c.from \in {"nobody", "linux", "rtos"}
<1>1. \A n : /\ Command(n).from = "linux" /\ Command(n).attempt = n
             /\ Reply(n).from = "rtos" /\ Reply(n).attempt = n
  BY DEF Command, Reply
<1>2. Empty.from = "nobody"
  BY DEF Empty
<1>3. \A c \in Content : c = Empty \/ \E n \in Attempts : c = Command(n) \/ c = Reply(n)
  BY DEF Content
<1>4. Empty \in Content /\ \A n \in Attempts : Command(n) \in Content /\ Reply(n) \in Content
  BY DEF Content
<1> QED BY <1>1, <1>2, <1>3, <1>4

-----------------------------------------------------------------------------
LEMMA MailInit == MailboxAssumption /\ Init => MailInv
<1> SUFFICES ASSUME MailboxAssumption, Init PROVE MailInv
  OBVIOUS
<1>1. TypeOK
  <2>1. slot \in [Slots -> Content] /\ rtos_cmdq \in Content
    BY ContentKinds DEF Init
  <2>2. sent = <<>> /\ Len(sent) = 0 /\ queue = <<>> /\ handled = <<>>
    BY DEF Init
  <2>3. sent \in Seq(1 .. MaxCommand) /\ queue \in Seq(Attempts) /\ handled \in Seq(Attempts)
    BY <2>2
  <2>4. lock \in {"free", "linux", "rtos"} /\ lpc \in {"ready", "write", "trigger", "wait", "stopped"}
    BY DEF Init
  <2>5. isr \in {"off", "clear", "copy", "zero", "send"} /\ tpc \in {"receive", "lock", "send", "reset", "returned"}
    BY DEF Init
  <2>6. addr \in BOOLEAN /\ unreported \in BOOLEAN
    BY DEF Init
  <2>7. /\ command \in 1 .. MaxCommand + 1 /\ attempts \in 0 .. MaxTry /\ Len(queue) <= QueueLen
        /\ from_linux \in 0 .. Len(sent) /\ gLinux_Data \in 0 .. MaxCommand /\ gFreertos_Data \in {0, 1}
        /\ events \in 0 .. MaxEvent /\ lockFails \in 0 .. MaxLockFail
    BY <2>2 DEF Init, MailboxAssumption
  <2> QED BY <2>1, <2>3, <2>4, <2>5, <2>6, <2>7 DEF Init, TypeOK
<1>2. LockInv
  BY DEF MailboxAssumption, Init, LockInv
<1>3. PendingInv /\ HandlerInv /\ NothingStranded
  BY DEF Init, PendingInv, HandlerInv, NothingStranded, Empty
<1> QED BY <1>1, <1>2, <1>3 DEF MailInv

\* The steps of the sending thread that leave the slots alone.
LEMMA SenderStep ==
  ASSUME MailboxAssumption, MailInv, LinuxLock \/ LinuxNoSlot \/ LinuxTimeout
  PROVE  MailInv'
<1> USE DEF MailInv
<1>1. /\ UNCHANGED <<slot, rtosInt, linuxInt, command, sent, handler, smallCore, eventVars, history>>
      /\ lpc # "trigger" /\ lpc' # "trigger"
  BY DEF LinuxLock, LinuxNoSlot, LinuxTimeout, Failed, shared
<1>2. TypeOK'
  BY <1>1 DEF TypeOK, LockInv, LinuxLock, LinuxNoSlot, LinuxTimeout, Failed, shared, Content, Attempts,
              handler, smallCore, stored, eventVars, history, MailboxAssumption
<1>3. LockInv'
  BY <1>1 DEF TypeOK, LockInv, LinuxLock, LinuxNoSlot, LinuxTimeout, Failed, shared, Attempts,
              handler, smallCore, MailboxAssumption
<1>4. PendingInv' /\ HandlerInv' /\ NothingStranded'
  BY <1>1 DEF PendingInv, HandlerInv, NothingStranded, Current, handler
<1> QED BY <1>2, <1>3, <1>4

\* A new attempt: what was an attempt still is one.
LEMMA OneMoreAttempt ==
  ASSUME TypeOK, sent' = Append(sent, command), command \in 1 .. MaxCommand
  PROVE  /\ Len(sent') = Len(sent) + 1 /\ sent' \in Seq(1 .. MaxCommand)
         /\ Attempts' = Attempts \cup {Len(sent')} /\ Len(sent') \notin Attempts
         /\ Content \subseteq Content' /\ Command(Len(sent')) \in Content'
         /\ Seq(Attempts) \subseteq Seq(Attempts')
<1>1. Len(sent) \in Nat /\ Len(sent') = Len(sent) + 1 /\ sent' \in Seq(1 .. MaxCommand)
  BY DEF TypeOK
<1>2. Attempts' = Attempts \cup {Len(sent')} /\ Len(sent') \notin Attempts
  BY <1>1 DEF Attempts
<1>3. Content \subseteq Content' /\ Command(Len(sent')) \in Content'
  BY <1>2 DEF Content
<1>4. Seq(Attempts) \subseteq Seq(Attempts')
  BY <1>2
<1> QED BY <1>1, <1>2, <1>3, <1>4

\* An attempt is written to a free slot.
LEMMA WriteStep ==
  ASSUME MailboxAssumption, MailInv, LinuxWrite
  PROVE  MailInv'
<1> USE DEF MailInv
<1> DEFINE m == MinSlot(Free)
           n == Len(sent')
<1>1. /\ m \in Slots /\ slot[m] = Empty /\ slot' = [slot EXCEPT ![m] = Command(n)]
      /\ lpc = "write" /\ lpc' = "trigger" /\ sent' = Append(sent, command) /\ command \in 1 .. MaxCommand
      /\ UNCHANGED <<lock, rtosInt, linuxInt, command, attempts, handler, smallCore, eventVars, history>>
  BY FreeSlot DEF LinuxWrite, TypeOK, LockInv
<1> HIDE DEF m
<1>2. /\ n = Len(sent) + 1 /\ sent' \in Seq(1 .. MaxCommand) /\ n \notin Attempts /\ Len(sent) \in Nat
      /\ Content \subseteq Content' /\ Command(n) \in Content' /\ Seq(Attempts) \subseteq Seq(Attempts')
      /\ Attempts' = Attempts \cup {n}
  BY <1>1, OneMoreAttempt DEF TypeOK
<1> HIDE DEF n
<1>3. /\ slot' \in [Slots -> Content'] /\ slot'[m] = Command(n)
      /\ \A s \in Slots \ {m} : slot'[s] = slot[s] /\ slot[s] # Command(n)
  <2>1. slot \in [Slots -> Content]
    BY DEF TypeOK
  <2>2. \A s \in Slots : slot[s] # Command(n)
    BY <2>1, <1>2, ContentKinds
  <2> QED BY <2>1, <2>2, <1>1, <1>2
<1>4. TypeOK'
  <2>1. rtos_cmdq' \in Content' /\ queue' \in Seq(Attempts') /\ handled' \in Seq(Attempts') /\ dropped' \subseteq Attempts'
    BY <1>1, <1>2 DEF TypeOK, handler, smallCore, history
  <2>2. from_linux' \in 0 .. Len(sent')
    BY <1>1, <1>2 DEF TypeOK, smallCore, n
  <2>3. addr' \in BOOLEAN /\ unreported' \in BOOLEAN
    BY <1>1 DEF TypeOK, smallCore, stored, eventVars
  <2> QED BY <1>1, <1>2, <1>3, <2>1, <2>2, <2>3
           DEF TypeOK, handler, smallCore, stored, eventVars, history
<1>5. LockInv'
  BY <1>1, <1>2 DEF LockInv, handler, smallCore
<1>6. m \notin rtosInt /\ (isr \in {"copy", "zero"} => m # Current) /\ m \notin linuxInt
  BY <1>1, ContentKinds DEF PendingInv, HandlerInv
<1>7. Written' = {m}
  BY <1>1, <1>3 DEF Written, n
<1>8. Command(n).from = "linux"
  BY ContentKinds
<1>9. PendingInv'
  BY <1>1, <1>3, <1>6, <1>7, <1>8 DEF PendingInv, TypeOK
<1>10. HandlerInv'
  <2>1. isr \in {"copy", "zero"} => Current \in Slots
    BY CurrentSlot
  <2> QED BY <1>1, <1>3, <1>6, <1>7, <2>1 DEF HandlerInv, Current, handler
<1>11. NothingStranded'
  BY <1>1, <1>3, <1>7, <1>8 DEF NothingStranded, handler
<1> QED BY <1>4, <1>5, <1>9, <1>10, <1>11

\* The interrupt of the attempt is raised, and the lock given up.
LEMMA TriggerStep ==
  ASSUME MailboxAssumption, MailInv, LinuxTrigger
  PROVE  MailInv'
<1> USE DEF MailInv
<1>1. /\ lpc = "trigger" /\ lpc' = "wait" /\ rtosInt' = rtosInt \cup Written /\ lock' = "free"
      /\ UNCHANGED <<slot, linuxInt, command, attempts, sent, handler, smallCore, eventVars, history>>
  BY DEF LinuxTrigger
<1>2. Written \subseteq Slots /\ \A s \in Written : slot[s].from = "linux"
  BY ContentKinds DEF Written
<1>3. TypeOK'
  BY <1>1, <1>2 DEF TypeOK, handler, smallCore, stored, eventVars, history, Content, Attempts
<1>4. LockInv'
  BY <1>1 DEF LockInv, handler, smallCore, Attempts
<1>5. PendingInv'
  BY <1>1, <1>2 DEF PendingInv
<1>6. HandlerInv'
  BY <1>1 DEF HandlerInv, Current, handler
<1>7. NothingStranded'
  BY <1>1 DEF NothingStranded, handler
<1> QED BY <1>3, <1>4, <1>5, <1>6, <1>7

\* A reply is read and its slot freed.
LEMMA ReplyStep ==
  ASSUME MailboxAssumption, MailInv, LinuxIrq
  PROVE  MailInv'
<1> USE DEF MailInv
<1> DEFINE m == MinSlot(linuxInt)
<1>1. m \in linuxInt /\ m \in Slots
  <2>1. linuxInt \in SUBSET Nat /\ linuxInt \subseteq Slots /\ linuxInt # {}
    BY DEF LinuxIrq, TypeOK, Slots, MailboxAssumption
  <2> QED BY <2>1, MinSlotIn
<1>2. /\ linuxInt' = linuxInt \ {m} /\ slot' = [slot EXCEPT ![m] = Empty]
      /\ UNCHANGED <<lock, rtosInt, sent, handler, smallCore, eventVars, history>>
      /\ \/ lpc = "wait" /\ command' = command + 1 /\ attempts' = 0 /\ lpc' = "ready"
         \/ UNCHANGED <<command, attempts, lpc>>
  BY DEF LinuxIrq
<1> HIDE DEF m
<1>3. slot[m].from = "rtos"
  BY <1>1 DEF PendingInv
<1>4. /\ slot' \in [Slots -> Content] /\ slot'[m] = Empty /\ \A s \in Slots \ {m} : slot'[s] = slot[s]
  BY <1>1, <1>2, ContentKinds DEF TypeOK
<1>5. TypeOK'
  <2>1. UNCHANGED <<sent, set_val, isr, rtos_cmdq, queue, tpc, from_linux, gLinux_Data, addr, gFreertos_Data,
                    unreported, events, handled, dropped, lockFails, Content, Attempts, lock, rtosInt>>
    BY <1>2 DEF handler, smallCore, stored, eventVars, history, Content, Attempts
  <2>2. /\ command' \in 1 .. MaxCommand + 1 /\ attempts' \in 0 .. MaxTry
        /\ lpc' \in {"ready", "write", "trigger", "wait", "stopped"}
    BY <1>2 DEF TypeOK, LockInv, MailboxAssumption
  <2>3. linuxInt' \subseteq Slots
    BY <1>2 DEF TypeOK
  <2> QED BY <1>4, <2>1, <2>2, <2>3 DEF TypeOK
<1>6. LockInv'
  BY <1>2 DEF LockInv, TypeOK, handler, smallCore, Attempts, MailboxAssumption
<1>7. Written' = Written \ {m}
  BY <1>2, <1>4, ContentKinds DEF Written
<1>8. PendingInv'
  BY <1>1, <1>2, <1>3, <1>4, <1>7, ContentKinds DEF PendingInv, TypeOK
<1>9. HandlerInv'
  <2>1. isr \in {"copy", "zero"} => Current \in Slots /\ Current # m
    BY <1>3, CurrentSlot DEF HandlerInv
  <2> QED BY <1>2, <1>4, <1>7, <2>1 DEF HandlerInv, Current, handler
<1>10. NothingStranded'
  BY <1>1, <1>2, <1>3, <1>4, <1>7, ContentKinds DEF NothingStranded, handler
<1> QED BY <1>5, <1>6, <1>8, <1>9, <1>10

-----------------------------------------------------------------------------
\* An edge of the pin, and the handler's start.
LEMMA InterruptStep ==
  ASSUME MailboxAssumption, MailInv, DetectISR \/ EnterISR
  PROVE  MailInv'
<1> USE DEF MailInv
<1>1. CASE DetectISR
  <2>1. /\ UNCHANGED <<shared, bigCore, handler, smallCore, history>> /\ gFreertos_Data' = 1
        /\ events' \in 0 .. MaxEvent /\ unreported' \in BOOLEAN
    BY <1>1 DEF DetectISR, TypeOK, MailboxAssumption
  <2>2. TypeOK'
    BY SMTT(40), <2>1 DEF TypeOK, shared, bigCore, handler, smallCore, stored, history, Content, Attempts
  <2> QED BY <2>1, <2>2 DEF LockInv, PendingInv, HandlerInv, NothingStranded, Current, Written, Attempts,
                            shared, bigCore, handler, smallCore
<1>2. CASE EnterISR
  <2>1. /\ isr = "off" /\ lock # "rtos" /\ rtosInt # {} /\ set_val' = rtosInt /\ isr' = "clear"
        /\ UNCHANGED <<shared, bigCore, rtos_cmdq, smallCore, eventVars, history>>
    BY <1>2 DEF EnterISR, Interruptible, After
  <2>2. TypeOK'
    BY <2>1 DEF TypeOK, shared, bigCore, smallCore, stored, eventVars, history, Content, Attempts
  <2>3. Current' \in rtosInt
    <3>1. rtosInt \in SUBSET Nat
      BY DEF TypeOK, Slots, MailboxAssumption
    <3> QED BY <3>1, <2>1, MinSlotIn DEF Current
  <2>4. LockInv' /\ PendingInv' /\ NothingStranded'
    BY <2>1 DEF LockInv, PendingInv, NothingStranded, Written, Attempts, shared, bigCore, smallCore
  <2>5. HandlerInv'
    BY <2>1, <2>3 DEF HandlerInv, shared, bigCore
  <2> QED BY <2>2, <2>4, <2>5
<1> QED BY <1>1, <1>2

\* The handler clears the interrupt of its slot, and copies the slot.
LEMMA ClearStep ==
  ASSUME MailboxAssumption, MailInv, ISRClear
  PROVE  MailInv'
<1> USE DEF MailInv
<1>1. /\ isr = "clear" /\ isr' = "copy" /\ rtosInt' = rtosInt \ {Current}
      /\ UNCHANGED <<slot, lock, linuxInt, bigCore, set_val, rtos_cmdq, smallCore, eventVars, history>>
  BY DEF ISRClear, After, Current
<1>2. Current' = Current /\ Written' = Written /\ Current \in set_val /\ Current \in Slots
  BY <1>1, CurrentSlot DEF Current, Written, bigCore
<1>3. TypeOK'
  BY SMTT(40), <1>1 DEF TypeOK, bigCore, smallCore, stored, eventVars, history, Content, Attempts
<1>4. LockInv' /\ PendingInv'
  BY <1>1, <1>2 DEF LockInv, PendingInv, Attempts, bigCore, smallCore
<1>5. HandlerInv'
  BY <1>1, <1>2 DEF HandlerInv, PendingInv, bigCore
<1>6. NothingStranded'
  BY <1>1, <1>2 DEF NothingStranded, Current, bigCore
<1> QED BY <1>3, <1>4, <1>5, <1>6

LEMMA CopyStep ==
  ASSUME MailboxAssumption, MailInv, ISRCopy
  PROVE  MailInv'
<1> USE DEF MailInv
<1>1. /\ isr = "copy" /\ isr' = "zero" /\ rtos_cmdq' = slot[Current]
      /\ UNCHANGED <<shared, bigCore, set_val, smallCore, eventVars, history>>
  BY DEF ISRCopy, After, Current
<1>2. Current' = Current /\ Written' = Written /\ Current \in Slots
  BY <1>1, CurrentSlot DEF Current, Written, bigCore, shared
<1>3. TypeOK'
  BY ZenonT(60), <1>1, <1>2 DEF TypeOK, shared, bigCore, smallCore, stored, eventVars, history, Content, Attempts
<1>4. LockInv' /\ PendingInv'
  BY <1>1, <1>2 DEF LockInv, PendingInv, Attempts, shared, bigCore, smallCore
<1>5. HandlerInv'
  BY <1>1, <1>2 DEF HandlerInv, shared, bigCore
<1>6. NothingStranded'
  BY <1>1, <1>2 DEF NothingStranded, Current, shared, bigCore
<1> QED BY <1>3, <1>4, <1>5, <1>6

\* The slot is free again.
LEMMA ZeroStep ==
  ASSUME MailboxAssumption, MailInv, ISRZero
  PROVE  MailInv'
<1> USE DEF MailInv
<1>1. /\ isr = "zero" /\ isr' = "send" /\ slot' = [slot EXCEPT ![Current] = Empty]
      /\ UNCHANGED <<lock, rtosInt, linuxInt, bigCore, set_val, rtos_cmdq, smallCore, eventVars, history>>
  BY DEF ISRZero, After, Current
<1>2. /\ Current' = Current /\ Current \in Slots /\ Current \notin rtosInt
      /\ slot[Current].from = "linux" /\ (lpc = "trigger" => Current \notin Written)
  BY <1>1, CurrentSlot DEF Current, HandlerInv
<1>3. /\ slot' \in [Slots -> Content] /\ slot'[Current] = Empty
      /\ \A s \in Slots \ {Current} : slot'[s] = slot[s]
  BY <1>1, <1>2, ContentKinds DEF TypeOK
<1>4. TypeOK'
  <2>1. Attempts' = Attempts
    BY <1>1 DEF bigCore, history, Attempts
  <2>2. Content' = Content
    BY <2>1 DEF Content
  <2>3. isr' \in {"off", "clear", "copy", "zero", "send"} /\ slot' \in [Slots -> Content]
    BY <1>1, <1>3
  <2> QED BY <1>1, <2>1, <2>2, <2>3 DEF TypeOK, bigCore, smallCore, stored, eventVars, history
<1>5. Written' = Written \ {Current}
  BY <1>1, <1>2, <1>3, ContentKinds DEF Written, bigCore
<1>6. LockInv'
  BY <1>1 DEF LockInv, Attempts, bigCore, smallCore
<1>7. PendingInv'
  BY <1>1, <1>2, <1>3, <1>5, ContentKinds DEF PendingInv, TypeOK, bigCore
<1>8. HandlerInv'
  BY <1>1, <1>2 DEF HandlerInv
<1>9. NothingStranded'
  BY <1>1, <1>2, <1>3, <1>5, ContentKinds DEF NothingStranded, Current, bigCore
<1> QED BY <1>4, <1>6, <1>7, <1>8, <1>9

\* The command goes to the queue, or is dropped.
LEMMA SendStep ==
  ASSUME MailboxAssumption, MailInv, ISRSend
  PROVE  MailInv'
<1> USE DEF MailInv
<1>1. /\ isr = "send" /\ set_val' = set_val \ {Current} /\ rtos_cmdq' = Empty
      /\ isr' = IF set_val' = {} THEN "off" ELSE "clear"
      /\ rtos_cmdq.from = "linux"
      /\ UNCHANGED <<shared, bigCore, tpc, from_linux, stored, eventVars, handled, lockFails>>
  BY DEF ISRSend, After, Current, HandlerInv
<1>2. rtos_cmdq.attempt \in Attempts
  BY <1>1, ContentKinds DEF TypeOK
<1>3. queue' \in Seq(Attempts) /\ Len(queue') <= QueueLen /\ dropped' \subseteq Attempts
  <2>1. queue \in Seq(Attempts) /\ Len(queue) <= QueueLen /\ QueueLen \in Nat /\ dropped \subseteq Attempts
    BY DEF TypeOK, MailboxAssumption
  <2>2. \/ /\ Len(queue) < QueueLen /\ queue' = Append(queue, rtos_cmdq.attempt)
           /\ dropped' = dropped
        \/ queue' = queue /\ dropped' = dropped \cup {rtos_cmdq.attempt}
    BY <1>1 DEF ISRSend
  <2> QED BY <1>2, <2>1, <2>2
<1>4. TypeOK'
  <2>1. UNCHANGED <<Attempts, Content>>
    BY <1>1 DEF Content, Attempts, bigCore
  <2>2. rtos_cmdq' \in Content
    BY <1>1, ContentKinds
  <2> QED BY <1>1, <1>3, <2>1, <2>2 DEF TypeOK, shared, bigCore, stored, eventVars
<1>5. LockInv' /\ PendingInv'
  BY <1>1 DEF LockInv, PendingInv, Written, Attempts, shared, bigCore
<1>6. HandlerInv'
  <2>1. set_val' \subseteq rtosInt /\ set_val' \in SUBSET Nat
    <3>1. set_val' \subseteq rtosInt
      BY <1>1 DEF HandlerInv
    <3>2. rtosInt \in SUBSET Nat
      BY DEF TypeOK, Slots, MailboxAssumption
    <3> QED BY <3>1, <3>2
  <2>2. set_val' # {} => Current' \in set_val'
    BY <2>1, MinSlotIn DEF Current
  <2> QED BY <1>1, <2>1, <2>2 DEF HandlerInv, shared, bigCore
<1>7. NothingStranded'
  BY <1>1 DEF NothingStranded, Written, shared, bigCore
<1> QED BY <1>4, <1>5, <1>6, <1>7

-----------------------------------------------------------------------------
\* The steps of mailbox_task that leave the slots alone.
LEMMA TaskStep ==
  ASSUME MailboxAssumption, MailInv,
         Receive \/ TaskLock \/ TaskLockFailed \/ TaskNoSlot \/ TaskReset
  PROVE  MailInv'
<1> USE DEF MailInv
<1>1. /\ UNCHANGED <<slot, rtosInt, linuxInt, bigCore, handler, events, unreported, dropped>>
  BY DEF Receive, TaskLock, TaskLockFailed, TaskNoSlot, TaskReset, shared, eventVars, history
<1>2. /\ queue' \in Seq(Attempts) /\ Len(queue') <= QueueLen /\ handled' \in Seq(Attempts)
      /\ from_linux' \in 0 .. Len(sent) /\ (tpc' \in {"lock", "send"} => from_linux' \in Attempts)
      /\ gLinux_Data' \in 0 .. MaxCommand /\ addr' \in BOOLEAN
  <2>1. CASE Receive
    <3>1. queue \in Seq(Attempts) /\ queue # <<>> /\ Head(queue) \in Attempts /\ Tail(queue) \in Seq(Attempts)
          /\ Len(Tail(queue)) <= QueueLen
      BY <2>1 DEF Receive, TypeOK, MailboxAssumption
    <3>2. sent[Head(queue)] \in 1 .. MaxCommand
      BY SMTT(40), <3>1 DEF TypeOK, Attempts
    <3>3. gLinux_Data' \in 0 .. MaxCommand
      BY <2>1, <3>2 DEF Receive, Store, TypeOK, MailboxAssumption
    <3>4. addr' \in BOOLEAN
      BY <2>1 DEF Receive, Store, TypeOK
    <3>5. from_linux' \in Attempts /\ Attempts \subseteq 0 .. Len(sent)
      BY <2>1, <3>1 DEF Receive, Attempts
    <3> QED BY SMTT(40), <2>1, <3>1, <3>3, <3>4, <3>5 DEF Receive, TypeOK
  <2>2. CASE ~Receive
    <3>1. UNCHANGED <<queue, handled, from_linux, gLinux_Data, addr>>
      BY <2>2 DEF TaskLock, TaskLockFailed, TaskNoSlot, TaskReset, stored, history
    <3>2. tpc' \in {"lock", "send"} => tpc = "lock"
      BY <2>2 DEF TaskLock, TaskLockFailed, TaskNoSlot, TaskReset
    <3> QED BY <3>1, <3>2 DEF TypeOK, LockInv
  <2> QED BY <2>1, <2>2
<1>3. /\ lock' \in {"free", "linux", "rtos"} /\ tpc' \in {"receive", "lock", "send", "reset", "returned"}
      /\ gFreertos_Data' \in {0, 1} /\ lockFails' \in 0 .. MaxLockFail
      /\ lock' = "linux" <=> lock = "linux"
      /\ lock' = "rtos" <=> tpc' = "send"
      /\ tpc' = "send" => isr = "off"
  BY SMTT(40) DEF Receive, TaskLock, TaskLockFailed, TaskNoSlot, TaskReset, TypeOK, LockInv, shared, eventVars, history,
         MailboxAssumption
<1>4. TypeOK'
  <2>1. UNCHANGED <<Attempts, Content>>
    BY <1>1 DEF Content, Attempts, bigCore
  <2> QED BY <1>1, <1>2, <1>3, <2>1 DEF TypeOK, bigCore, handler
<1>5. LockInv'
  BY <1>1, <1>2, <1>3 DEF LockInv, Attempts, bigCore, handler
<1>6. PendingInv' /\ HandlerInv' /\ NothingStranded'
  BY <1>1 DEF PendingInv, HandlerInv, NothingStranded, Current, Written, bigCore, handler
<1> QED BY <1>4, <1>5, <1>6

\* The reply is written to a free slot, with its interrupt.
LEMMA ReplySent ==
  ASSUME MailboxAssumption, MailInv, TaskSend
  PROVE  MailInv'
<1> USE DEF MailInv
<1> DEFINE m == MinSlot(Free)
<1>1. /\ m \in Slots /\ slot[m] = Empty /\ slot' = [slot EXCEPT ![m] = Reply(from_linux)]
      /\ linuxInt' = linuxInt \cup {m} /\ gFreertos_Data' = 0 /\ lock' = "free" /\ lock = "rtos"
      /\ tpc = "send" /\ tpc' = "reset" /\ isr = "off" /\ from_linux \in Attempts
      /\ UNCHANGED <<rtosInt, bigCore, handler, queue, from_linux, stored, events, history>>
  BY FreeSlot DEF TaskSend, LockInv
<1>2. unreported' \in BOOLEAN
  BY DEF TaskSend, TypeOK
<1> HIDE DEF m
<1>3. /\ slot' \in [Slots -> Content] /\ slot'[m] = Reply(from_linux) /\ slot'[m].from = "rtos"
      /\ \A s \in Slots \ {m} : slot'[s] = slot[s]
  BY <1>1, ContentKinds DEF TypeOK
<1>4. TypeOK'
  <2>1. UNCHANGED <<Attempts, Content>>
    BY <1>1 DEF Content, Attempts, bigCore
  <2> QED BY <1>1, <1>2, <1>3, <2>1 DEF TypeOK, bigCore, handler, stored, history
<1>5. LockInv'
  BY <1>1 DEF LockInv, Attempts, bigCore, handler
<1>6. m \notin rtosInt /\ Written' = Written
  BY <1>1, <1>3, ContentKinds DEF PendingInv, Written, bigCore
<1>7. PendingInv'
  BY <1>1, <1>3, <1>6 DEF PendingInv, TypeOK, bigCore
<1>8. HandlerInv'
  BY <1>1 DEF HandlerInv, handler
<1>9. NothingStranded'
  BY <1>1, <1>3, <1>6 DEF NothingStranded, bigCore, handler
<1> QED BY <1>4, <1>5, <1>7, <1>8, <1>9

-----------------------------------------------------------------------------
LEMMA MailNext == MailboxAssumption /\ MailInv /\ [Next]_vars => MailInv'
<1> SUFFICES ASSUME MailboxAssumption, MailInv, [Next]_vars PROVE MailInv'
  OBVIOUS
<1>1. CASE UNCHANGED vars
  <2>1. UNCHANGED <<shared, bigCore, handler, smallCore, eventVars, history>>
    BY <1>1 DEF vars
  <2>2. UNCHANGED <<Attempts, Content, Written, Current>>
    BY <2>1 DEF Attempts, Content, Written, Current, bigCore, handler, shared
  <2>3. TypeOK'
    BY <2>1, <2>2 DEF MailInv, TypeOK, shared, bigCore, handler, smallCore, stored, eventVars, history
  <2>4. LockInv' /\ PendingInv'
    BY <2>1, <2>2 DEF MailInv, LockInv, PendingInv, shared, bigCore, handler, smallCore
  <2>5. HandlerInv'
    BY <2>1, <2>2 DEF MailInv, HandlerInv, shared, bigCore, handler
  <2>6. NothingStranded'
    BY <2>1, <2>2 DEF MailInv, NothingStranded, shared, bigCore, handler
  <2> QED BY <2>3, <2>4, <2>5, <2>6 DEF MailInv
<1>2. CASE LinuxSend \/ LinuxTimeout \/ LinuxIrq
  BY <1>2, SenderStep, WriteStep, TriggerStep, ReplyStep DEF LinuxSend
<1>3. CASE QueueISR \/ DetectISR
  BY <1>3, InterruptStep, ClearStep, CopyStep, ZeroStep, SendStep DEF QueueISR
<1>4. CASE Task \/ TaskLockFailed
  BY <1>4, TaskStep, ReplySent DEF Task
<1>5. CASE Quiet
  BY <1>1, <1>5 DEF Quiet
<1> QED BY <1>1, <1>2, <1>3, <1>4, <1>5 DEF Next

LEMMA MailAlways == Spec => []MailInv
<1> QED BY MailInit, MailNext, MailboxAssumption, PTL DEF Spec

\* The variables keep their ranges: the task handles, and the queue and the slots hold,
\* only attempts that were made.
THEOREM TypeCorrect == Spec => []TypeOK
<1>1. MailInv => TypeOK
  BY DEF MailInv
<1> QED BY <1>1, MailAlways, PTL

\* A message in a slot has its interrupt pending on the core that must read it, or about
\* to be raised, or its reader is at it: none lies there for ever, although the handlers
\* free slots without the spinlock.
THEOREM NoneStranded == Spec => []NothingStranded
<1>1. MailInv => NothingStranded
  BY DEF MailInv
<1> QED BY <1>1, MailAlways, PTL

\* Each core writes to free slots only, and frees what it has read, so that no message is
\* written over.
THEOREM NoneOverwritten == Spec => NeverOverwritten
<1> DEFINE Kept == \A s \in Slots : slot'[s] # slot[s] => Empty \in {slot[s], slot'[s]}
<1>1. MailboxAssumption /\ MailInv /\ [Next]_vars => [Kept]_vars
  <2> SUFFICES ASSUME MailboxAssumption, MailInv, Next PROVE Kept
    BY DEF Kept
  <2>1. slot \in [Slots -> Content]
    BY DEF MailInv, TypeOK
  <2>2. CASE LinuxWrite \/ TaskSend
    BY <2>1, <2>2, FreeSlot DEF LinuxWrite, TaskSend
  <2>3. CASE LinuxIrq \/ ISRZero
    BY <2>1, <2>3 DEF LinuxIrq, ISRZero
  <2>4. CASE ~(LinuxWrite \/ TaskSend \/ LinuxIrq \/ ISRZero)
    <3>1. slot' = slot
      BY <2>4 DEF Next, LinuxSend, LinuxLock, LinuxNoSlot, LinuxTrigger, LinuxTimeout, QueueISR, EnterISR, ISRClear,
                  ISRCopy, ISRSend, DetectISR, Task, Receive, TaskLock, TaskNoSlot, TaskReset, TaskLockFailed,
                  Quiet, shared, vars
    <3> QED BY <3>1
  <2> QED BY <2>2, <2>3, <2>4
<1> QED BY <1>1, MailAlways, MailboxAssumption, PTL DEF Spec, NeverOverwritten

-----------------------------------------------------------------------------
(* The places of an attempt                                                *)


\* An attempt at the tail of a sequence that does not have it.
LEMMA AppendOnce ==
  ASSUME NEW S, NEW q \in Seq(S), NEW a \in S, Once(q), a \notin InSequence(q)
  PROVE  Once(Append(q, a)) /\ InSequence(Append(q, a)) = InSequence(q) \cup {a}
<1> DEFINE r == Append(q, a)
<1>1. /\ DOMAIN q = 1 .. Len(q) /\ Len(q) \in Nat /\ DOMAIN r = 1 .. Len(q) + 1
      /\ r[Len(q) + 1] = a /\ \A k \in DOMAIN q : r[k] = q[k]
  OBVIOUS
<1>2. DOMAIN r = DOMAIN q \cup {Len(q) + 1}
  BY <1>1
<1> HIDE DEF r
<1>3. \A k \in DOMAIN q : r[k] # a
  BY <1>1 DEF InSequence
<1>4. Once(r)
  <2> SUFFICES ASSUME NEW k \in DOMAIN r, NEW l \in DOMAIN r, r[k] = r[l] PROVE k = l
    BY DEF Once
  <2>1. CASE k \in DOMAIN q /\ l \in DOMAIN q
    BY <1>1, <2>1 DEF Once
  <2>2. CASE k = Len(q) + 1 \/ l = Len(q) + 1
    BY <1>1, <1>2, <1>3, <2>2
  <2> QED BY <1>2, <2>1, <2>2
<1>5. InSequence(r) = InSequence(q) \cup {a}
  BY <1>1, <1>2 DEF InSequence
<1> QED BY <1>4, <1>5 DEF r

\* The head goes from a sequence that has it once.
LEMMA TailOnce ==
  ASSUME NEW S, NEW q \in Seq(S), q # <<>>, Once(q)
  PROVE  Once(Tail(q)) /\ InSequence(Tail(q)) = InSequence(q) \ {Head(q)} /\ Head(q) \in InSequence(q)
<1> DEFINE r == Tail(q)
<1>1. /\ DOMAIN q = 1 .. Len(q) /\ Len(q) \in Nat \ {0} /\ DOMAIN r = 1 .. Len(q) - 1
      /\ Head(q) = q[1] /\ \A k \in DOMAIN r : r[k] = q[k + 1] /\ k + 1 \in DOMAIN q
  OBVIOUS
<1> HIDE DEF r
<1>2. Once(r)
  <2> SUFFICES ASSUME NEW k \in DOMAIN r, NEW l \in DOMAIN r, r[k] = r[l] PROVE k = l
    BY DEF Once
  <2>1. k + 1 = l + 1
    BY <1>1 DEF Once
  <2> QED BY <1>1, <2>1
<1>3. Head(q) \in InSequence(q)
  BY <1>1 DEF InSequence
<1>4. \A x : x \in InSequence(r) => x \in InSequence(q) \ {Head(q)}
  <2> SUFFICES ASSUME NEW k \in DOMAIN r PROVE r[k] \in InSequence(q) \ {Head(q)}
    BY DEF InSequence
  <2>1. k + 1 \in DOMAIN q /\ k + 1 # 1 /\ 1 \in DOMAIN q
    BY <1>1
  <2>2. q[k + 1] # q[1]
    BY <2>1 DEF Once
  <2> QED BY <1>1, <2>1, <2>2 DEF InSequence
<1>5. \A x : x \in InSequence(q) \ {Head(q)} => x \in InSequence(r)
  <2> SUFFICES ASSUME NEW k \in DOMAIN q, q[k] # Head(q) PROVE q[k] \in InSequence(r)
    BY DEF InSequence
  <2>1. k - 1 \in DOMAIN r /\ r[k - 1] = q[k]
    BY <1>1
  <2> QED BY <2>1 DEF InSequence
<1> QED BY <1>2, <1>3, <1>4, <1>5 DEF r

\* The attempts in the slots, and those in the slots but for one slot.
LEMMA SlotAttempts ==
  ASSUME TypeOK
  PROVE  \A n : n \in InSlots <=> \E s \in Slots : slot[s] = Command(n)
<1>1. \A s \in Slots : slot[s].from = "linux" => slot[s] = Command(slot[s].attempt)
  BY ContentKinds DEF TypeOK
<1> QED BY <1>1, ContentKinds DEF InSlots

-----------------------------------------------------------------------------
LEMMA PlaceInit == Init => PlaceInv
<1> SUFFICES ASSUME Init PROVE PlaceInv
  OBVIOUS
<1>1. \A s \in Slots : slot[s].from # "linux"
  BY DEF Init, Empty
<1>2. InSlots = {} /\ InHand = {} /\ dropped = {}
  BY <1>1 DEF Init, InSlots, InHand
<1>3. queue = <<>> /\ handled = <<>> /\ Len(sent) = 0
  BY DEF Init
<1>4. InSequence(queue) = {} /\ InSequence(handled) = {} /\ Once(queue) /\ Once(handled)
  BY <1>3 DEF InSequence, Once
<1>5. Attempts = {}
  BY <1>3 DEF Attempts
<1> QED BY <1>1, <1>2, <1>4, <1>5 DEF PlaceInv

\* A new attempt is in its slot and nowhere else.
LEMMA PlaceWrite ==
  ASSUME MailboxAssumption, MailInv, PlaceInv, LinuxWrite
  PROVE  PlaceInv'
<1> DEFINE m == MinSlot(Free)
           n == Len(sent')
<1>1. /\ m \in Slots /\ slot[m] = Empty /\ slot' = [slot EXCEPT ![m] = Command(n)]
      /\ sent' = Append(sent, command) /\ command \in 1 .. MaxCommand
      /\ UNCHANGED <<isr, rtos_cmdq, queue, handled, dropped>>
  BY FreeSlot DEF LinuxWrite, MailInv, TypeOK, LockInv, handler, smallCore, history
<1>2. Attempts' = Attempts \cup {n} /\ n \notin Attempts
  BY <1>1, OneMoreAttempt DEF MailInv
<1> HIDE DEF m, n
<1>3. slot \in [Slots -> Content]
  BY DEF MailInv, TypeOK
<1>4. \A s \in Slots : slot[s] # Command(n)
  BY <1>2, <1>3, ContentKinds
<1>5. /\ slot'[m] = Command(n) /\ slot'[m].from = "linux" /\ slot'[m].attempt = n /\ slot[m].from # "linux"
      /\ \A s \in Slots \ {m} : slot'[s] = slot[s]
  BY <1>1, <1>3, ContentKinds
<1>6. InSlots' = InSlots \cup {n}
  BY <1>1, <1>5 DEF InSlots
<1>7. \A s, t \in Slots : slot'[s] = slot'[t] /\ slot'[s].from = "linux" => s = t
  BY <1>4, <1>5 DEF PlaceInv
<1>8. UNCHANGED <<InHand, InSequence(queue), InSequence(handled), dropped, Once(queue), Once(handled)>>
  BY <1>1 DEF InHand, InSequence, Once
<1> QED BY <1>2, <1>6, <1>7, <1>8 DEF PlaceInv

\* The handler has copied a slot and frees it: the attempt is in its hand.
LEMMA PlaceZero ==
  ASSUME MailboxAssumption, MailInv, PlaceInv, ISRZero
  PROVE  PlaceInv'
<1> DEFINE a == slot[Current].attempt
<1>1. /\ isr = "zero" /\ isr' = "send" /\ slot' = [slot EXCEPT ![Current] = Empty] /\ rtos_cmdq = slot[Current]
      /\ slot[Current].from = "linux" /\ Current \in Slots
      /\ UNCHANGED <<sent, rtos_cmdq, queue, handled, dropped>>
  BY CurrentSlot DEF ISRZero, After, Current, MailInv, HandlerInv, bigCore, smallCore, history
<1>2. slot \in [Slots -> Content]
  BY DEF MailInv, TypeOK
<1>3. InHand = {} /\ InHand' = {a}
  BY <1>1 DEF InHand
<1>4. slot'[Current].from # "linux" /\ \A s \in Slots \ {Current} : slot'[s] = slot[s]
  BY <1>1, <1>2, ContentKinds
<1>5. \A s \in Slots \ {Current} : slot[s].from = "linux" => slot[s].attempt # a
  BY <1>1, <1>2, ContentKinds DEF PlaceInv
<1>6. InSlots' = InSlots \ {a} /\ a \in InSlots
  BY <1>1, <1>4, <1>5 DEF InSlots
<1>7. \A s, t \in Slots : slot'[s] = slot'[t] /\ slot'[s].from = "linux" => s = t
  BY <1>4 DEF PlaceInv
<1>8. UNCHANGED <<Attempts, InSequence(queue), InSequence(handled), dropped, Once(queue), Once(handled)>>
  BY <1>1 DEF Attempts, InSequence, Once
<1> HIDE DEF a
<1> QED BY <1>3, <1>6, <1>7, <1>8 DEF PlaceInv

\* From its hand the attempt goes to the queue, or is dropped.
LEMMA PlaceSend ==
  ASSUME MailboxAssumption, MailInv, PlaceInv, ISRSend
  PROVE  PlaceInv'
<1> DEFINE a == rtos_cmdq.attempt
<1>1. /\ isr = "send" /\ isr' # "send" /\ rtos_cmdq.from = "linux"
      /\ UNCHANGED <<slot, sent, handled>>
      /\ \/ queue' = Append(queue, a) /\ dropped' = dropped
         \/ queue' = queue /\ dropped' = dropped \cup {a}
  BY DEF ISRSend, After, MailInv, HandlerInv, shared, bigCore
<1>2. a \in Attempts /\ queue \in Seq(Attempts)
  BY <1>1, ContentKinds DEF MailInv, TypeOK
<1>3. InHand = {a} /\ InHand' = {}
  BY <1>1 DEF InHand
<1> HIDE DEF a
<1>4. a \notin InSequence(queue) /\ Once(queue)
  BY <1>3 DEF PlaceInv
<1>5. /\ Once(queue)'
      /\ \/ InSequence(queue)' = InSequence(queue) \cup {a} /\ dropped' = dropped
         \/ InSequence(queue)' = InSequence(queue) /\ dropped' = dropped \cup {a}
  <2>1. CASE queue' = Append(queue, a) /\ dropped' = dropped
    <3>1. Once(Append(queue, a)) /\ InSequence(Append(queue, a)) = InSequence(queue) \cup {a}
      BY <1>2, <1>4, AppendOnce
    <3> QED BY <2>1, <3>1
  <2>2. CASE queue' = queue /\ dropped' = dropped \cup {a}
    BY <1>4, <2>2 DEF InSequence, Once
  <2> QED BY <1>1, <2>1, <2>2
<1>6. UNCHANGED <<Attempts, InSlots, InSequence(handled), Once(handled)>>
  BY <1>1 DEF Attempts, InSlots, InSequence, Once
<1>7. \A s, t \in Slots : slot'[s] = slot'[t] /\ slot'[s].from = "linux" => s = t
  BY <1>1 DEF PlaceInv
<1> QED BY <1>3, <1>5, <1>6, <1>7 DEF PlaceInv

\* mailbox_task takes the first attempt of the queue.
LEMMA PlaceReceive ==
  ASSUME MailboxAssumption, MailInv, PlaceInv, Receive
  PROVE  PlaceInv'
<1> DEFINE a == Head(queue)
<1>1. /\ queue # <<>> /\ queue' = Tail(queue) /\ handled' = Append(handled, a)
      /\ UNCHANGED <<slot, sent, isr, rtos_cmdq, dropped>>
  BY DEF Receive, shared, bigCore, handler
<1>2. queue \in Seq(Attempts) /\ handled \in Seq(Attempts) /\ Once(queue) /\ Once(handled) /\ a \in Attempts
  BY <1>1 DEF MailInv, TypeOK, PlaceInv
<1>3. Once(Tail(queue)) /\ InSequence(Tail(queue)) = InSequence(queue) \ {a} /\ a \in InSequence(queue)
  BY <1>1, <1>2, TailOnce
<1> HIDE DEF a
<1>4. a \notin InSequence(handled)
  BY <1>3 DEF PlaceInv
<1>5. Once(Append(handled, a)) /\ InSequence(Append(handled, a)) = InSequence(handled) \cup {a}
  BY <1>2, <1>4, AppendOnce
<1>6. /\ Once(queue)' /\ InSequence(queue)' = InSequence(queue) \ {a}
      /\ Once(handled)' /\ InSequence(handled)' = InSequence(handled) \cup {a}
  BY <1>1, <1>3, <1>5
<1>7. UNCHANGED <<Attempts, InSlots, InHand, dropped>>
  BY <1>1 DEF Attempts, InSlots, InHand
<1>8. \A s, t \in Slots : slot'[s] = slot'[t] /\ slot'[s].from = "linux" => s = t
  BY <1>1 DEF PlaceInv
<1> QED BY <1>3, <1>6, <1>7, <1>8 DEF PlaceInv

\* A reply takes a free slot, and gives it back: no attempt is concerned.
LEMMA PlaceReply ==
  ASSUME MailboxAssumption, MailInv, PlaceInv, TaskSend \/ LinuxIrq
  PROVE  PlaceInv'
<1>1. UNCHANGED <<sent, isr, rtos_cmdq, queue, handled, dropped>>
  BY DEF TaskSend, LinuxIrq, bigCore, handler, smallCore, history
<1>2. slot \in [Slots -> Content]
  BY DEF MailInv, TypeOK
<1>3. PICK m \in Slots : /\ slot[m].from # "linux" /\ slot'[m].from # "linux"
                         /\ \A s \in Slots \ {m} : slot'[s] = slot[s]
  <2>1. CASE TaskSend
    <3>1. MinSlot(Free) \in Slots /\ slot[MinSlot(Free)] = Empty
      BY <2>1, FreeSlot DEF TaskSend
    <3>2. slot' = [slot EXCEPT ![MinSlot(Free)] = Reply(from_linux)]
      BY <2>1 DEF TaskSend
    <3> QED BY <1>2, <3>1, <3>2, ContentKinds
  <2>2. CASE LinuxIrq
    <3>1. linuxInt \in SUBSET Nat /\ linuxInt \subseteq Slots /\ linuxInt # {}
      BY <2>2 DEF LinuxIrq, MailInv, TypeOK, Slots, MailboxAssumption
    <3>2. MinSlot(linuxInt) \in linuxInt
      BY <3>1, MinSlotIn
    <3>3. slot[MinSlot(linuxInt)].from = "rtos"
      BY <3>1, <3>2 DEF MailInv, PendingInv
    <3>4. slot' = [slot EXCEPT ![MinSlot(linuxInt)] = Empty]
      BY <2>2 DEF LinuxIrq
    <3> QED BY <1>2, <3>1, <3>2, <3>3, <3>4, ContentKinds
  <2> QED BY <2>1, <2>2
<1>4. InSlots' = InSlots
  BY <1>3 DEF InSlots
<1>5. \A s, t \in Slots : slot'[s] = slot'[t] /\ slot'[s].from = "linux" => s = t
  BY <1>3 DEF PlaceInv
<1>6. UNCHANGED <<Attempts, InHand, InSequence(queue), InSequence(handled), dropped, Once(queue), Once(handled)>>
  BY <1>1 DEF Attempts, InHand, InSequence, Once
<1> QED BY <1>4, <1>5, <1>6 DEF PlaceInv

\* Nothing else moves an attempt.
LEMMA PlaceStays ==
  ASSUME MailboxAssumption, MailInv, PlaceInv, [Next]_vars,
         ~(LinuxWrite \/ ISRZero \/ ISRSend \/ Receive \/ TaskSend \/ LinuxIrq)
  PROVE  PlaceInv'
<1>1. /\ UNCHANGED <<slot, sent, queue, handled, dropped>>
      /\ UNCHANGED <<isr, rtos_cmdq>> \/ (isr # "send" /\ isr' # "send")
  BY DEF Next, LinuxSend, LinuxLock, LinuxNoSlot, LinuxTrigger, LinuxTimeout, QueueISR, EnterISR, ISRClear, ISRCopy,
         Interruptible, After, DetectISR, Task, TaskLock, TaskNoSlot, TaskReset, TaskLockFailed, Quiet, vars, shared,
         bigCore, handler, smallCore, history
<1>2. UNCHANGED <<Attempts, InSlots, InSequence(queue), InSequence(handled), Once(queue), Once(handled)>>
  BY <1>1 DEF Attempts, InSlots, InSequence, Once
<1>3. InHand' = InHand
  BY <1>1 DEF InHand
<1> QED BY <1>1, <1>2, <1>3 DEF PlaceInv

LEMMA PlaceNext == MailboxAssumption /\ MailInv /\ PlaceInv /\ [Next]_vars => PlaceInv'
BY PlaceWrite, PlaceZero, PlaceSend, PlaceReceive, PlaceReply, PlaceStays

LEMMA PlaceAlways == Spec => [](MailInv /\ PlaceInv)
BY PlaceInit, PlaceNext, MailAlways, MailboxAssumption, PTL DEF Spec

-----------------------------------------------------------------------------
\* A set without an element, or with one.
LEMMA CountOne ==
  ASSUME NEW S, NEW P \in BOOLEAN, ~P => S = {}, P => \E x : S = {x}
  PROVE  Cardinality(S) = IF P THEN 1 ELSE 0
BY FS_EmptySet, FS_Singleton

\* What the sets say, counted.
LEMMA PlacesCounted ==
  ASSUME MailInv, PlaceInv, NEW n \in Attempts
  PROVE  Places(n) = 1
<1> DEFINE Those == {s \in Slots : slot[s] = Command(n)}
           Held(seq) == {k \in DOMAIN seq : seq[k] = n}
<1>1. Cardinality(Those) = IF n \in InSlots THEN 1 ELSE 0
  <2>1. n \in InSlots <=> \E s \in Slots : slot[s] = Command(n)
    BY SlotAttempts DEF MailInv
  <2>2. \A s, t \in Those : s = t
    BY ContentKinds DEF PlaceInv
  <2>3. n \notin InSlots => Those = {}
    BY <2>1
  <2>4. n \in InSlots => \E s : Those = {s}
    BY <2>1, <2>2
  <2> HIDE DEF Those
  <2> QED BY <2>3, <2>4, CountOne
<1>2. ASSUME NEW seq, Once(seq)
      PROVE  Cardinality(Held(seq)) = IF n \in InSequence(seq) THEN 1 ELSE 0
  <2>1. n \notin InSequence(seq) => Held(seq) = {}
    BY DEF InSequence
  <2>2. \A k, l \in Held(seq) : k = l
    BY <1>2 DEF Once
  <2>3. n \in InSequence(seq) => \E k : Held(seq) = {k}
    BY <2>2 DEF InSequence
  <2> HIDE DEF Held
  <2> QED BY <2>1, <2>3, CountOne
<1>3. /\ Cardinality(Held(queue)) = IF n \in InSequence(queue) THEN 1 ELSE 0
      /\ Cardinality(Held(handled)) = IF n \in InSequence(handled) THEN 1 ELSE 0
  BY <1>2 DEF PlaceInv
<1>4. (isr = "send" /\ rtos_cmdq = Command(n)) <=> n \in InHand
  <2>1. rtos_cmdq \in Content /\ (isr = "send" => rtos_cmdq.from = "linux")
    BY DEF MailInv, TypeOK, HandlerInv
  <2> QED BY <2>1, ContentKinds DEF InHand
<1>5. /\ n \in InSlots \cup InHand \cup InSequence(queue) \cup InSequence(handled) \cup dropped
      /\ n \in InSlots => n \notin InHand \cup InSequence(queue) \cup InSequence(handled) \cup dropped
      /\ n \in InHand => n \notin InSequence(queue) \cup InSequence(handled) \cup dropped
      /\ n \in InSequence(queue) => n \notin InSequence(handled) \cup dropped
      /\ n \in InSequence(handled) => n \notin dropped
  BY DEF PlaceInv
<1>6. Places(n) = Cardinality(Those) + (IF n \in InHand THEN 1 ELSE 0) + Cardinality(Held(queue))
                    + Cardinality(Held(handled)) + (IF n \in dropped THEN 1 ELSE 0)
  BY <1>4 DEF Places
<1> HIDE DEF Those, Held
<1> QED BY <1>1, <1>3, <1>5, <1>6

\* Every attempt that reached a slot is in a slot, in the handler's hand or in the queue, or
\* it was handled or dropped, and it is in one of these places once: mailbox_task never
\* handles one twice, and none vanishes between the cores.
THEOREM OnePlaceCorrect == Spec => []OnePlace
<1>1. MailInv /\ PlaceInv => OnePlace
  BY PlacesCounted DEF OnePlace
<1> QED BY <1>1, PlaceAlways, PTL

-----------------------------------------------------------------------------
(* The two cores in step                                                   *)

\* A sequence without repetitions has none up to any place of it.
LEMMA PrefixInjective ==
  ASSUME NEW S, NEW q \in Seq(S), NEW e \in S, IsInjective(Append(q, e))
  PROVE  IsInjective(q) /\ \A k \in 1 .. Len(q) : q[k] # e
<1>1. /\ DOMAIN q = 1 .. Len(q) /\ DOMAIN Append(q, e) = 1 .. Len(q) + 1 /\ Len(q) \in Nat
      /\ \A k \in 1 .. Len(q) : Append(q, e)[k] = q[k]
      /\ Append(q, e)[Len(q) + 1] = e
  OBVIOUS
<1>2. \A k \in 1 .. Len(q) : k \in 1 .. Len(q) + 1 /\ Len(q) + 1 \in 1 .. Len(q) + 1 /\ k # Len(q) + 1
  BY <1>1
<1> DEFINE r == Append(q, e)
<1> HIDE DEF r
<1>3. /\ \A k \in DOMAIN q : k \in DOMAIN r /\ r[k] = q[k]
      /\ Len(q) + 1 \in DOMAIN r /\ r[Len(q) + 1] = e
      /\ \A k \in DOMAIN q : k # Len(q) + 1
  BY <1>1, <1>2 DEF r
<1>4. \A j, k \in DOMAIN r : r[j] = r[k] => j = k
  BY DEF IsInjective, r
<1>5. IsInjective(q)
  BY <1>3, <1>4 DEF IsInjective
<1>6. \A k \in DOMAIN q : q[k] # e
  BY <1>3, <1>4
<1> QED BY <1>1, <1>5, <1>6

\* What the types say about the numbers the lemmas speak of.
LEMMA StepFacts ==
  ASSUME MailboxAssumption, MailInv
  PROVE  /\ command \in Nat \ {0} /\ Len(sent) \in Nat /\ Attempts = 1 .. Len(sent)
         /\ sent \in Seq(1 .. MaxCommand) /\ MaxCommand \in Nat
         /\ slot \in [Slots -> Content] /\ Handled \subseteq Attempts
         /\ \A s \in Slots : slot[s].from = "rtos" => slot[s].attempt \in Attempts
<1>1. sent \in Seq(1 .. MaxCommand) /\ command \in 1 .. MaxCommand + 1 /\ MaxCommand \in Nat
      /\ slot \in [Slots -> Content] /\ handled \in Seq(Attempts)
  BY DEF MailInv, TypeOK, MailboxAssumption
<1>2. Handled \subseteq Attempts
  BY <1>1 DEF Handled, InSequence
<1>3. \A s \in Slots : slot[s].from = "rtos" => slot[s].attempt \in Attempts
  BY <1>1, ContentKinds
<1> QED BY <1>1, <1>2, <1>3 DEF Attempts

LEMMA StepInit == MailboxAssumption /\ Init => StepInv
<1> SUFFICES ASSUME MailboxAssumption, Init
             PROVE  StepInv
  OBVIOUS
<1>1. /\ sent = <<>> /\ command = 1 /\ lpc = "ready" /\ tpc = "receive"
      /\ \A s \in Slots : slot[s].from # "rtos"
  BY DEF Init, Empty
<1>2. Handled = {} /\ Attempts = {} /\ Len(sent) = 0
  BY <1>1 DEF Init, Handled, InSequence, Attempts
<1> QED BY <1>1, <1>2 DEF StepInv

\* A command that is written for the first time follows those that were sent.
LEMMA StepWrite ==
  ASSUME MailboxAssumption, MailInv, PlaceInv, StepInv, LinuxWrite
  PROVE  StepInv'
<1>1. /\ MinSlot(Free) \in Slots /\ slot' = [slot EXCEPT ![MinSlot(Free)] = Command(Len(sent'))]
      /\ sent' = Append(sent, command) /\ command \in 1 .. MaxCommand
      /\ lpc' = "trigger" /\ UNCHANGED <<command, tpc, from_linux, handled, gLinux_Data, addr>>
  BY FreeSlot DEF LinuxWrite, MailInv, TypeOK, LockInv, handler, smallCore, stored, history
<1>2. SUFFICES ASSUME ~Repeated'
               PROVE  StepInv'
  BY DEF StepInv
<1>3. sent \in Seq(1 .. MaxCommand) /\ command \in Nat \ {0} /\ Len(sent) \in Nat
      /\ slot \in [Slots -> Content]
  BY StepFacts
<1>4. ~Repeated /\ \A k \in 1 .. Len(sent) : sent[k] # command
  BY <1>1, <1>2, <1>3, PrefixInjective DEF Repeated
<1>5. Len(sent) = command - 1
  BY <1>3, <1>4 DEF StepInv, Attempts
<1>6. /\ Len(sent') = command /\ \A n \in 1 .. Len(sent) : sent'[n] = sent[n]
      /\ sent'[command] = command
  BY <1>1, <1>3, <1>5
<1>7. \A n \in 1 .. Len(sent') : sent'[n] = n
  BY <1>3, <1>4, <1>5, <1>6 DEF StepInv, Attempts
<1>8. Handled' = Handled
  BY <1>1 DEF Handled, InSequence
<1>9. \A s \in Slots : slot'[s].from = "rtos" => slot'[s] = slot[s]
  BY <1>1, <1>3, ContentKinds
<1> QED BY <1>1, <1>4, <1>5, <1>6, <1>7, <1>8, <1>9 DEF StepInv, Attempts

\* The task takes the attempt in hand, which it has not handled yet.
LEMMA StepReceive ==
  ASSUME MailboxAssumption, MailInv, PlaceInv, StepInv, Receive
  PROVE  StepInv'
<1> DEFINE a == Head(queue)
<1>1. /\ queue # <<>> /\ handled' = Append(handled, a) /\ from_linux' = a
      /\ tpc = "receive" /\ tpc' = "lock" /\ Store(sent[a])
      /\ UNCHANGED <<slot, sent, lpc, command>>
  BY DEF Receive, shared, bigCore
<1>2. SUFFICES ASSUME ~Repeated
               PROVE  StepInv'
  BY <1>1 DEF StepInv, Repeated
<1>3. queue \in Seq(Attempts) /\ handled \in Seq(Attempts) /\ Once(queue) /\ Once(handled) /\ a \in Attempts
  BY <1>1 DEF MailInv, TypeOK, PlaceInv
<1>4. a \in InSequence(queue)
  BY <1>1, <1>3, TailOnce
<1> HIDE DEF a
<1>5. a \notin Handled
  BY <1>4 DEF PlaceInv, Handled
<1>6. /\ command \in Nat \ {0} /\ Len(sent) \in Nat /\ Attempts = 1 .. Len(sent)
  BY StepFacts
<1>7. a = command /\ Len(sent) = command
  BY <1>2, <1>3, <1>5, <1>6 DEF StepInv
<1>8. Handled' = Handled \cup {a}
  BY <1>1, <1>3, <1>5, AppendOnce DEF Handled
<1>9. sent[a] = command
  BY <1>2, <1>3, <1>7 DEF StepInv
<1>10. \A s \in Slots : slot[s].from # "rtos"
  BY <1>2, <1>5, <1>7 DEF StepInv
<1>11. (command = 1 => addr') /\ (command > 1 => gLinux_Data' = command) /\ (addr => addr')
  <2>1. addr' = (addr \/ Kind(command) = "CMD_TEST_B")
        /\ gLinux_Data' = IF Kind(command) = "CMD_TEST_C" THEN command ELSE gLinux_Data
    BY <1>1, <1>9, Zenon DEF Store
  <2>2. /\ command = 1 => Kind(command) = "CMD_TEST_B"
        /\ command > 1 => Kind(command) = "CMD_TEST_C"
    BY <1>6 DEF Kind
  <2> QED BY <2>1, <2>2, Zenon
<1>12. 1 \in Handled' => addr'
  BY <1>2, <1>7, <1>8, <1>11 DEF StepInv
<1>13. command \in Handled'
  BY <1>7, <1>8
<1> QED BY <1>1, <1>2, <1>7, <1>8, <1>10, <1>11, <1>12, <1>13 DEF StepInv, Attempts

\* It answers it, once.
LEMMA StepReply ==
  ASSUME MailboxAssumption, MailInv, PlaceInv, StepInv, TaskSend
  PROVE  StepInv'
<1>1. /\ MinSlot(Free) \in Slots /\ slot' = [slot EXCEPT ![MinSlot(Free)] = Reply(from_linux)]
      /\ tpc = "send" /\ tpc' = "reset"
      /\ UNCHANGED <<sent, lpc, command, from_linux, handled, gLinux_Data, addr>>
  BY FreeSlot DEF TaskSend, bigCore, stored, history
<1>2. SUFFICES ASSUME ~Repeated
               PROVE  StepInv'
  BY <1>1 DEF StepInv, Repeated
<1>3. slot \in [Slots -> Content]
  BY StepFacts
<1>4. from_linux = command /\ command \in Handled /\ \A s \in Slots : slot[s].from # "rtos"
  BY <1>1, <1>2 DEF StepInv
<1>5. /\ slot'[MinSlot(Free)].attempt = command
      /\ \A s \in Slots : slot'[s].from = "rtos" => s = MinSlot(Free)
  BY <1>1, <1>3, <1>4 DEF Reply
<1>6. Handled' = Handled
  BY <1>1 DEF Handled, InSequence
<1> QED BY <1>1, <1>2, <1>4, <1>5, <1>6 DEF StepInv, Attempts

\* The reply is the one of the command in hand, and Linux goes on to the next.
LEMMA StepAnswer ==
  ASSUME MailboxAssumption, MailInv, PlaceInv, StepInv, LinuxIrq
  PROVE  StepInv'
<1> DEFINE m == MinSlot(linuxInt)
<1>1. /\ slot' = [slot EXCEPT ![m] = Empty]
      /\ UNCHANGED <<sent, tpc, from_linux, handled, gLinux_Data, addr>>
      /\ \/ lpc = "wait" /\ command' = command + 1 /\ lpc' = "ready"
         \/ UNCHANGED <<command, lpc>>
  BY DEF LinuxIrq, smallCore, stored, history
<1>2. SUFFICES ASSUME ~Repeated
               PROVE  StepInv'
  BY <1>1 DEF StepInv, Repeated
<1>3. /\ command \in Nat \ {0} /\ Len(sent) \in Nat /\ Attempts = 1 .. Len(sent)
      /\ slot \in [Slots -> Content] /\ Handled \subseteq Attempts
  BY StepFacts
<1>4. m \in Slots /\ slot[m].from = "rtos"
  <2>1. linuxInt \in SUBSET Nat /\ linuxInt \subseteq Slots /\ linuxInt # {}
    BY SMTT(40) DEF LinuxIrq, MailInv, TypeOK, Slots, MailboxAssumption
  <2>2. m \in linuxInt
    BY <2>1, MinSlotIn
  <2> QED BY <2>1, <2>2 DEF MailInv, PendingInv
<1> HIDE DEF m
<1>5. /\ slot[m].attempt = command /\ command \in Handled /\ tpc \notin {"lock", "send"}
      /\ \A t \in Slots : slot[t].from = "rtos" => t = m
  BY <1>2, <1>4 DEF StepInv
<1>6. \A s \in Slots : slot'[s].from # "rtos"
  BY <1>1, <1>3, <1>4, <1>5 DEF Empty
<1>7. Handled' = Handled /\ Attempts' = Attempts
  BY <1>1 DEF Handled, InSequence, Attempts
<1>8. CASE UNCHANGED <<command, lpc>>
  BY <1>1, <1>2, <1>6, <1>7, <1>8 DEF StepInv
<1>9. CASE lpc = "wait" /\ command' = command + 1 /\ lpc' = "ready"
  <2>1. Len(sent) = command
    BY <1>2, <1>9 DEF StepInv
  <2>2. 1 .. command' - 1 \subseteq Handled /\ command' \notin Handled
    BY <1>2, <1>3, <1>5, <1>9, <2>1 DEF StepInv
  <2>3. command > 1 => gLinux_Data = command
    BY <1>2, <1>5 DEF StepInv
  <2>4. command' > 2 => gLinux_Data' = command' - 1
    BY <1>1, <1>3, <1>9, <2>3
  <2>5. Len(sent') \in {command' - 1, command'}
    BY <1>1, <1>3, <1>9, <2>1
  <2> QED BY <1>1, <1>2, <1>5, <1>6, <1>7, <1>9, <2>2, <2>4, <2>5 DEF StepInv
<1> QED BY <1>1, <1>8, <1>9

\* Nothing else concerns the commands, the replies and what the task has stored.
LEMMA StepStays ==
  ASSUME MailboxAssumption, MailInv, PlaceInv, StepInv, [Next]_vars,
         ~(LinuxWrite \/ Receive \/ TaskSend \/ LinuxIrq)
  PROVE  StepInv'
<1>1. /\ UNCHANGED <<sent, command, handled, from_linux, gLinux_Data, addr>>
      /\ lpc' \in {"trigger", "wait"} => lpc \in {"trigger", "wait"}
      /\ tpc' \in {"lock", "send"} => tpc \in {"lock", "send"}
  BY DEF Next, LinuxSend, LinuxLock, LinuxNoSlot, LinuxTrigger, LinuxTimeout, Failed, QueueISR, EnterISR, ISRClear,
         ISRCopy, ISRZero, ISRSend, DetectISR, Task, TaskLock, TaskNoSlot, TaskReset, TaskLockFailed,
         Quiet, vars, shared, bigCore, handler, smallCore, stored, history
<1>2. \A s \in Slots : slot'[s].from = "rtos" => slot'[s] = slot[s]
  <2>1. CASE ISRZero
    <3>1. slot \in [Slots -> Content] /\ slot' = [slot EXCEPT ![Current] = Empty]
      BY <2>1, StepFacts DEF ISRZero, Current
    <3> QED BY <3>1 DEF Empty
  <2>2. CASE ~ISRZero
    BY <2>2 DEF Next, LinuxSend, LinuxLock, LinuxNoSlot, LinuxTrigger, LinuxTimeout, QueueISR, EnterISR, ISRClear,
         ISRCopy, ISRSend, DetectISR, Task, TaskLock, TaskNoSlot, TaskReset, TaskLockFailed,
         Quiet, vars, shared
  <2> QED BY <2>1, <2>2
<1>3. Handled' = Handled /\ Attempts' = Attempts /\ Repeated' = Repeated
  BY <1>1 DEF Handled, InSequence, Attempts, Repeated
<1> QED BY <1>1, <1>2, <1>3 DEF StepInv

LEMMA StepNext == MailboxAssumption /\ MailInv /\ PlaceInv /\ StepInv /\ [Next]_vars => StepInv'
BY StepWrite, StepReceive, StepReply, StepAnswer, StepStays

\* InStep: as long as no ioctl had to be repeated, a command that Linux takes for sent was
\* stored by the small core, and no later one but the next (main.c:151-179 and
\* comm_main.c:131-149), whatever the slots, the queue and the interrupts do.
THEOREM CoresInStep == Spec => []InStep
<1>1. MailInv /\ PlaceInv /\ StepInv => InStep
  <2> SUFFICES ASSUME MailInv, PlaceInv, StepInv, ~Repeated
               PROVE  (command > 1 => addr) /\ (command > 2 => gLinux_Data \in {command - 1, command})
    BY DEF InStep
  <2>1. command \in Nat \ {0}
    BY StepFacts, MailboxAssumption
  <2>2. command > 1 => 1 \in Handled
    BY <2>1 DEF StepInv
  <2> QED BY <2>1, <2>2 DEF StepInv
<1>2. Spec => [](MailInv /\ PlaceInv /\ StepInv)
  BY PlaceAlways, StepInit, StepNext, MailboxAssumption, PTL DEF Spec
<1> QED BY <1>1, <1>2, PTL
=============================================================================
