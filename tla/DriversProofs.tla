---------------------------- MODULE DriversProofs ----------------------------
(***************************************************************************)
(* Proofs about the kernel modules, for every clock, time and number of    *)
(* events: what each of them holds at each step of its loading and         *)
(* unloading, and what of it can still run.  At the end, that the modules  *)
(* and the camera program stay what they are side by side (MCDrivers).     *)
(***************************************************************************)
EXTENDS MCDrivers, MiddlewareProofs

(* KeyDriver: KeyInv is inductive                                          *)


\* The two tables, entry by entry.
LEMMA LoadTable ==
  /\ DOMAIN Load = {"alloc_chrdev_region", "cdev_add", "class_create", "device_create",
                    "request_irq"}
  /\ Load["alloc_chrdev_region"] =
       [next |-> "cdev_add", gets |-> "devid", else |-> "FAIL_DEVID"]
  /\ Load["cdev_add"] = [next |-> "class_create", gets |-> "cdev", else |-> "FAIL_CDEV"]
  /\ Load["class_create"] = [next |-> "device_create", gets |-> "class", else |-> "FAIL_CLASS"]
  /\ Load["device_create"] = [next |-> "find_node", gets |-> "device", else |-> "FAIL_DEVICE"]
  /\ Load["request_irq"] = [next |-> "timer_setup", gets |-> "irq", else |-> "FAIL_IRQ"]
BY DEF Load, AfterIrq

LEMMA UnloadTable ==
  /\ DOMAIN Unload = {"FAIL_IRQ", "FAIL_GPIO_INIT", "FAIL_DEVICE", "FAIL_CLASS", "FAIL_CDEV",
                      "free_irq", "gpio_free", "cdev_del", "unregister", "device_destroy",
                      "class_destroy"}
  /\ Unload["FAIL_IRQ"] = [next |-> "FAIL_GPIO_INIT", what |-> "gpio"]
  /\ Unload["FAIL_GPIO_INIT"] = [next |-> "FAIL_DEVICE", what |-> "device"]
  /\ Unload["FAIL_DEVICE"] = [next |-> "FAIL_CLASS", what |-> "class"]
  /\ Unload["FAIL_CLASS"] = [next |-> "FAIL_CDEV", what |-> "cdev"]
  /\ Unload["FAIL_CDEV"] = [next |-> "FAIL_DEVID", what |-> "devid"]
  /\ Unload["free_irq"] = [next |-> "gpio_free", what |-> "irq"]
  /\ Unload["gpio_free"] = [next |-> "del_timer_sync", what |-> "gpio"]
  /\ Unload["cdev_del"] = [next |-> "unregister", what |-> "cdev"]
  /\ Unload["unregister"] = [next |-> "device_destroy", what |-> "devid"]
  /\ Unload["device_destroy"] = [next |-> "class_destroy", what |-> "device"]
  /\ Unload["class_destroy"] = [next |-> "gone", what |-> "class"]
BY DEF Unload

\* Before insmod nothing is held.
LEMMA KeyInit == KeyAssumption /\ Init => KeyInv
<1> SUFFICES ASSUME KeyAssumption, Init PROVE KeyInv
  OBVIOUS
<1>1. pc \in DOMAIN Load
  BY LoadTable DEF Init
<1>2. Boot \in Nat /\ MaxJiffies \in Nat /\ MaxEdges \in Nat /\ Boot <= MaxJiffies
  BY DEF KeyAssumption
<1>3. TypeOK
  <2>1. running \in BOOLEAN /\ irq \in BOOLEAN
    BY DEF Init
  <2>2. jiffies \in Boot .. MaxJiffies /\ edges \in 0 .. MaxEdges
    BY <1>2 DEF Init
  <2>3. {pin, seen} \subseteq 0 .. 1 /\ expires \in Nat /\ startAt \in Nat
    BY DEF Init
  <2>4. held \subseteq {"devid", "cdev", "class", "device", "gpio", "irq"}
        /\ timer \in {"unset", "idle", "pending"}
    BY DEF Init
  <2>5. pc \notin {"loaded", "free_irq", "gpio_free", "del_timer_sync"}
    BY DEF Init
  <2> QED BY <1>1, <2>1, <2>2, <2>3, <2>4, <2>5 DEF TypeOK
<1>4. HeldInv /\ IrqInv /\ TimerInv
  BY DEF Init, HeldInv, IrqInv, TimerInv
<1> QED BY <1>3, <1>4 DEF KeyInv

\* A call of mykey_init acquires its resource and goes on, or goes to its label.
LEMMA AcquireStep ==
  ASSUME KeyInv, Acquire
  PROVE  KeyInv'
<1> DEFINE Calls(from, to, gotten, label) ==
      /\ pc = from
      /\ \/ pc' = to /\ held' = held \cup {gotten}
         \/ pc' = label /\ held' = held
<1>1. /\ UNCHANGED <<timer, expires, running, jiffies, pin, irq, edges, startAt, seen>>
      /\ \/ Calls("alloc_chrdev_region", "cdev_add", "devid", "FAIL_DEVID")
         \/ Calls("cdev_add", "class_create", "cdev", "FAIL_CDEV")
         \/ Calls("class_create", "device_create", "class", "FAIL_CLASS")
         \/ Calls("device_create", "find_node", "device", "FAIL_DEVICE")
         \/ Calls("request_irq", "timer_setup", "irq", "FAIL_IRQ")
  BY LoadTable DEF Acquire, timerVars, keyVars
<1>2. TypeOK'
  BY <1>1, LoadTable, UnloadTable DEF KeyInv, TypeOK
<1>3. HeldInv'
  BY <1>1 DEF KeyInv, HeldInv
<1>4. IrqInv' /\ TimerInv'
  BY <1>1 DEF KeyInv, IrqInv, TimerInv
<1> QED BY <1>2, <1>3, <1>4 DEF KeyInv

\* A label, or a call of mykey_exit, gives its resource back; with the interrupt goes
\* the edge that waits for it.
LEMMA DropStep ==
  ASSUME KeyInv, Drop
  PROVE  KeyInv'
<1> DEFINE Drops(from, to, what) ==
      /\ pc = from /\ pc' = to /\ held' = held \ {what}
      /\ irq' = (irq /\ what # "irq")
<1>1. /\ UNCHANGED <<timer, expires, running, jiffies, pin, edges, startAt, seen>>
      /\ \/ Drops("FAIL_IRQ", "FAIL_GPIO_INIT", "gpio")
         \/ Drops("FAIL_GPIO_INIT", "FAIL_DEVICE", "device")
         \/ Drops("FAIL_DEVICE", "FAIL_CLASS", "class")
         \/ Drops("FAIL_CLASS", "FAIL_CDEV", "cdev")
         \/ Drops("FAIL_CDEV", "FAIL_DEVID", "devid")
         \/ Drops("free_irq", "gpio_free", "irq")
         \/ Drops("gpio_free", "del_timer_sync", "gpio")
         \/ Drops("cdev_del", "unregister", "cdev")
         \/ Drops("unregister", "device_destroy", "devid")
         \/ Drops("device_destroy", "class_destroy", "device")
         \/ Drops("class_destroy", "gone", "class")
  BY UnloadTable DEF Drop, timerVars
<1>2. TypeOK'
  BY <1>1, LoadTable, UnloadTable DEF KeyInv, TypeOK
<1>3. HeldInv'
  BY <1>1 DEF KeyInv, HeldInv
<1>4. IrqInv' /\ TimerInv'
  BY <1>1 DEF KeyInv, IrqInv, TimerInv
<1> QED BY <1>2, <1>3, <1>4 DEF KeyInv

\* KeyInv is inductive.  The interrupt and the timer function run between the steps of
\* mykey_exit: IrqInv and TimerInv say from which step on they cannot any more.
LEMMA KeyStep ==
  ASSUME KeyAssumption, KeyInv, [Next]_vars
  PROVE  KeyInv'
<1> USE LoadTable, UnloadTable
    DEF KeyInv, TypeOK, HeldInv, IrqInv, TimerInv, timerVars, keyVars, KeyAssumption
<1>0. Debounce \in Nat /\ Boot \in Nat /\ MaxJiffies \in Nat /\ MaxEdges \in Nat
      /\ jiffies \in Nat
  BY DEF KeyAssumption
<1>1. CASE FindNode
  BY <1>1 DEF FindNode
<1>2. CASE TimerSetup
  BY <1>2 DEF TimerSetup
<1>3. CASE Exit
  BY <1>3 DEF Exit
<1>4. CASE DelTimerSync
  BY <1>4 DEF DelTimerSync, TimerOver
<1>5. CASE Edge
  BY <1>5 DEF Edge
<1>6. CASE KeyIrqHandler
  <2>1. timer' = "pending" /\ irq' = FALSE /\ expires' \in Nat /\ startAt' \in Nat
        /\ UNCHANGED <<pc, held, running, jiffies, pin, edges, seen>>
    BY <1>0, <1>6 DEF KeyIrqHandler, Restarts, Expiry
  <2>2. TypeOK'
    BY <2>1
  <2>3. HeldInv'
    BY <2>1
  <2>4. IrqInv'
    BY <2>1
  <2>5. TimerInv'
    BY <1>6, <2>1 DEF KeyIrqHandler
  <2> QED BY <2>2, <2>3, <2>4, <2>5
<1>7. CASE KeyIrqTooEarly
  BY <1>7 DEF KeyIrqTooEarly
<1>8. CASE TimerFires
  BY <1>8 DEF TimerFires
<1>9. CASE TimerReturns
  <2>1. TypeOK'
    BY <1>9 DEF TimerReturns
  <2>2. HeldInv'
    BY <1>9 DEF TimerReturns
  <2>3. IrqInv'
    BY <1>9 DEF TimerReturns
  <2>4. TimerInv'
    BY <1>9 DEF TimerReturns
  <2> QED BY <2>1, <2>2, <2>3, <2>4
<1>10. CASE Tick
  BY <1>10 DEF Tick
<1>11. CASE UNCHANGED vars
  BY <1>11 DEF vars
<1> QED
  BY <1>1, <1>2, <1>3, <1>4, <1>5, <1>6, <1>7, <1>8, <1>9, <1>10, <1>11, AcquireStep, DropStep
     DEF Next

LEMMA KeyInvariant == Spec => []KeyInv
<1>1. Init => KeyInv
  BY KeyInit, KeyAssumption
<1>2. KeyInv /\ [Next]_vars => KeyInv'
  BY KeyStep, KeyAssumption
<1> QED BY <1>1, <1>2, PTL DEF Spec

\* TypeOK: the variables keep their ranges; in particular the timer is set up whenever
\* mykey_exit takes it out (key.c:208).
THEOREM TypeCorrect == Spec => []TypeOK
<1>1. KeyInv => TypeOK
  BY DEF KeyInv
<1> QED BY <1>1, KeyInvariant, PTL

\* NothingRemains: after a failed mykey_init and after mykey_exit (key.c:140 and
\* key.c:201) nothing is held, and no handler or timer function runs or will run,
\* however long the clock runs and however often the key bounces.
THEOREM UnloadCorrect == Spec => []NothingRemains
<1>1. KeyInv => NothingRemains
  BY DEF KeyInv, TypeOK, HeldInv, IrqInv, TimerInv, NothingRemains
<1> QED BY <1>1, KeyInvariant, PTL

-----------------------------------------------------------------------------
(* TaskletDriver: TaskletInv is inductive                                  *)

\* The two tables, entry by entry.
LEMMA LoadsTable ==
  /\ DOMAIN Loads = {"alloc_chrdev_region", "cdev_add", "class_create", "device_create",
                     "find_node", "request_irq"}
  /\ Loads["alloc_chrdev_region"] =
       [next |-> "cdev_add", gets |-> "devid", else |-> "FAIL_DEVID"]
  /\ Loads["cdev_add"] = [next |-> "class_create", gets |-> "cdev", else |-> "FAIL_CDEV"]
  /\ Loads["class_create"] = [next |-> "device_create", gets |-> "class", else |-> "FAIL_CLASS"]
  /\ Loads["device_create"] = [next |-> "find_node", gets |-> "device", else |-> "FAIL_DEVICE"]
  /\ Loads["find_node"] = [next |-> "request_irq", gets |-> "gpio", else |-> "FAIL_GPIO_INIT"]
  /\ Loads["request_irq"] = [next |-> "tasklet_init", gets |-> "irq", else |-> "FAIL_IRQ"]
BY DEF Loads, AfterRequest

LEMMA UnloadsTable ==
  /\ DOMAIN Unloads = {"FAIL_IRQ", "FAIL_GPIO_INIT", "FAIL_DEVICE", "FAIL_CLASS", "FAIL_CDEV",
                       "free_irq", "gpio_free", "cdev_del", "unregister", "device_destroy",
                       "class_destroy"}
  /\ Unloads["FAIL_IRQ"] = [next |-> "FAIL_GPIO_INIT", what |-> "gpio"]
  /\ Unloads["FAIL_GPIO_INIT"] = [next |-> "FAIL_DEVICE", what |-> "device"]
  /\ Unloads["FAIL_DEVICE"] = [next |-> "FAIL_CLASS", what |-> "class"]
  /\ Unloads["FAIL_CLASS"] = [next |-> "FAIL_CDEV", what |-> "cdev"]
  /\ Unloads["FAIL_CDEV"] = [next |-> "FAIL_DEVID", what |-> "devid"]
  /\ Unloads["free_irq"] = [next |-> "gpio_free", what |-> "irq"]
  /\ Unloads["gpio_free"] = [next |-> "del_timer_sync", what |-> "gpio"]
  /\ Unloads["cdev_del"] = [next |-> "unregister", what |-> "cdev"]
  /\ Unloads["unregister"] = [next |-> "device_destroy", what |-> "devid"]
  /\ Unloads["device_destroy"] = [next |-> "class_destroy", what |-> "device"]
  /\ Unloads["class_destroy"] = [next |-> "gone", what |-> "class"]
BY DEF Unloads

\* Before insmod nothing is held, and nothing runs.
LEMMA TaskletStart == TaskletAssumption /\ TaskletInit => TaskletInv
<1> SUFFICES ASSUME TaskletAssumption, TaskletInit PROVE TaskletInv
  OBVIOUS
<1>1. stage \in DOMAIN Loads /\ turns \in 0 .. MaxTurns /\ {level, printed} \subseteq 0 .. 1
  BY LoadsTable DEF TaskletInit, TaskletAssumption
<1>2. TaskletTypeOK
  BY <1>1 DEF TaskletInit, TaskletTypeOK
<1>3. OwnsInv /\ HalvesInv
  BY LoadsTable DEF TaskletInit, OwnsInv, HalvesInv
<1> QED BY <1>2, <1>3 DEF TaskletInv

\* A call of mykey_init gets its resource and goes on, or goes to its label.
LEMMA GetsStep ==
  ASSUME TaskletInv, Gets
  PROVE  TaskletInv'
<1> DEFINE Calls(from, to, gotten, label) ==
      /\ stage = from
      /\ \/ stage' = to /\ owns' = owns \cup {gotten}
         \/ stage' = label /\ owns' = owns
<1>1. /\ UNCHANGED <<level, turns, raised, tasklet, scheduled, inTasklet, keyTimer, inTimer,
                     printed, late>>
      /\ \/ Calls("alloc_chrdev_region", "cdev_add", "devid", "FAIL_DEVID")
         \/ Calls("cdev_add", "class_create", "cdev", "FAIL_CDEV")
         \/ Calls("class_create", "device_create", "class", "FAIL_CLASS")
         \/ Calls("device_create", "find_node", "device", "FAIL_DEVICE")
         \/ Calls("find_node", "request_irq", "gpio", "FAIL_GPIO_INIT")
         \/ Calls("request_irq", "tasklet_init", "irq", "FAIL_IRQ")
  BY LoadsTable DEF Gets, pinVars, halfVars, lookVars
<1>2. TaskletTypeOK'
  BY <1>1, LoadsTable, UnloadsTable DEF TaskletInv, TaskletTypeOK
<1>3. OwnsInv'
  BY <1>1 DEF TaskletInv, OwnsInv
<1>4. HalvesInv'
  BY <1>1, LoadsTable DEF TaskletInv, HalvesInv
<1> QED BY <1>2, <1>3, <1>4 DEF TaskletInv

\* A label, or a call of mykey_exit, gives its resource back; with the interrupt goes the
\* edge that waits for it.
LEMMA GiveBackStep ==
  ASSUME TaskletInv, GiveBack
  PROVE  TaskletInv'
<1> DEFINE Drops(from, to, what) ==
      /\ stage = from /\ stage' = to /\ owns' = owns \ {what}
      /\ raised' = (raised /\ what # "irq")
<1>1. /\ UNCHANGED <<level, turns, tasklet, scheduled, inTasklet, keyTimer, inTimer, printed,
                     late>>
      /\ \/ Drops("FAIL_IRQ", "FAIL_GPIO_INIT", "gpio")
         \/ Drops("FAIL_GPIO_INIT", "FAIL_DEVICE", "device")
         \/ Drops("FAIL_DEVICE", "FAIL_CLASS", "class")
         \/ Drops("FAIL_CLASS", "FAIL_CDEV", "cdev")
         \/ Drops("FAIL_CDEV", "FAIL_DEVID", "devid")
         \/ Drops("free_irq", "gpio_free", "irq")
         \/ Drops("gpio_free", "del_timer_sync", "gpio")
         \/ Drops("cdev_del", "unregister", "cdev")
         \/ Drops("unregister", "device_destroy", "devid")
         \/ Drops("device_destroy", "class_destroy", "device")
         \/ Drops("class_destroy", "gone", "class")
  BY UnloadsTable DEF GiveBack, halfVars, lookVars
<1>2. TaskletTypeOK'
  BY <1>1, LoadsTable, UnloadsTable DEF TaskletInv, TaskletTypeOK
<1>3. OwnsInv'
  BY <1>1 DEF TaskletInv, OwnsInv
<1>4. HalvesInv'
  BY <1>1, LoadsTable DEF TaskletInv, HalvesInv
<1> QED BY <1>2, <1>3, <1>4 DEF TaskletInv

\* TaskletInv is inductive.  The handler runs up to free_irq only, and schedules; the
\* tasklet runs at any time behind it, and starts the timer; HalvesInv follows both past
\* del_timer_sync.
LEMMA TaskletStep ==
  ASSUME TaskletAssumption, TaskletInv, [TaskletNext]_taskletVars
  PROVE  TaskletInv'
<1> USE LoadsTable, UnloadsTable
    DEF TaskletInv, TaskletTypeOK, OwnsInv, HalvesInv, moduleVars, pinVars, halfVars, lookVars
<1>0. MaxTurns \in Nat
  BY DEF TaskletAssumption
<1>1. CASE InitTasklet
  BY <1>1 DEF InitTasklet
<1>2. CASE InitTimer
  BY <1>2 DEF InitTimer
<1>3. CASE TooEarly
  <2>1. TaskletTypeOK'
    BY <1>3 DEF TooEarly
  <2>2. OwnsInv'
    BY <1>3 DEF TooEarly
  <2>3. HalvesInv'
    BY <1>3 DEF TooEarly
  <2> QED BY <2>1, <2>2, <2>3
<1>4. CASE Leave
  <2>1. TaskletTypeOK'
    BY <1>4 DEF Leave, FirstOut
  <2>2. OwnsInv'
    BY <1>4 DEF Leave, FirstOut
  <2>3. HalvesInv'
    BY <1>4 DEF Leave, FirstOut
  <2> QED BY <2>1, <2>2, <2>3
<1>5. CASE WaitForTimer
  <2>1. TaskletTypeOK'
    BY <1>5 DEF WaitForTimer, FunctionOver
  <2>2. OwnsInv'
    BY <1>5 DEF WaitForTimer, FunctionOver
  <2>3. HalvesInv'
    BY <1>5 DEF WaitForTimer, FunctionOver
  <2> QED BY <2>1, <2>2, <2>3
<1>6. CASE Turn
  <2>1. turns' \in 0 .. MaxTurns /\ level' \in 0 .. 1
    BY <1>0, <1>6 DEF Turn
  <2>2. raised' \in BOOLEAN /\ (raised' => "irq" \in owns)
    BY <1>6 DEF Turn
  <2> QED BY <1>6, <2>1, <2>2 DEF Turn
<1>7. CASE Interrupt
  <2>1. stage \in {"tasklet_init", "timer_setup", "loaded", "free_irq", "oops"}
    BY <1>7 DEF Interrupt
  <2> QED BY ZenonT(60), <1>7, <2>1 DEF Interrupt
<1>8. CASE TaskletStarts
  <2>1. TaskletTypeOK'
    BY <1>8 DEF TaskletStarts
  <2>2. OwnsInv'
    BY <1>8 DEF TaskletStarts
  <2>3. HalvesInv'
    BY <1>8 DEF TaskletStarts
  <2> QED BY <2>1, <2>2, <2>3
<1>9. CASE TaskletReturns
  <2>1. TaskletTypeOK'
    BY <1>9 DEF TaskletReturns, Restarted
  <2>2. OwnsInv'
    BY <1>9 DEF TaskletReturns, Restarted
  <2>3. HalvesInv'
    BY <1>9 DEF TaskletReturns, Restarted
  <2> QED BY <2>1, <2>2, <2>3
<1>10. CASE FunctionLooks
  <2>1. TaskletTypeOK'
    BY <1>10 DEF FunctionLooks
  <2>2. OwnsInv'
    BY <1>10 DEF FunctionLooks
  <2>3. HalvesInv'
    BY <1>10 DEF FunctionLooks
  <2> QED BY <2>1, <2>2, <2>3
<1>11. CASE FunctionEnds
  <2>1. TaskletTypeOK'
    BY <1>11 DEF FunctionEnds
  <2>2. OwnsInv'
    BY <1>11 DEF FunctionEnds
  <2>3. HalvesInv'
    BY <1>11 DEF FunctionEnds
  <2> QED BY <2>1, <2>2, <2>3
<1>12. CASE UNCHANGED taskletVars
  BY <1>12 DEF taskletVars
<1> QED
  BY <1>1, <1>2, <1>3, <1>4, <1>5, <1>6, <1>7, <1>8, <1>9, <1>10, <1>11, <1>12, GetsStep,
     GiveBackStep DEF TaskletNext, KernelStep

LEMMA TaskletInvariant == TaskletSpec => []TaskletInv
<1>1. TaskletInit => TaskletInv
  BY TaskletStart, TaskletAssumption
<1>2. TaskletInv /\ [TaskletNext]_taskletVars => TaskletInv'
  BY TaskletStep, TaskletAssumption
<1> QED BY <1>1, <1>2, PTL DEF TaskletSpec

\* TaskletTypeOK: the variables of tasklet.c's model keep their ranges, a loaded module has
\* its tasklet set up, and an interrupt waits only while it is requested.
THEOREM TaskletTypeCorrect == TaskletSpec => []TaskletTypeOK
<1>1. TaskletInv => TaskletTypeOK
  BY DEF TaskletInv
<1> QED BY <1>1, TaskletInvariant, PTL

\* OnlyTheTaskletRemains: after a failed mykey_init and after mykey_exit (tasklet.c) nothing
\* is held and no interrupt waits, and what still runs was started by a tasklet that nobody
\* had killed at del_timer_sync, however often the key bounces.
THEOREM TaskletUnloadCorrect == TaskletSpec => []OnlyTheTaskletRemains
<1>1. TaskletInv => OnlyTheTaskletRemains
  BY LoadsTable DEF TaskletInv, TaskletTypeOK, OwnsInv, HalvesInv, OnlyTheTaskletRemains
<1> QED BY <1>1, TaskletInvariant, PTL

-----------------------------------------------------------------------------
(* CharDrivers: CharInv is inductive                                       *)

\* The two tables, entry by entry.
LEMMA MakesTable ==
  /\ DOMAIN Makes = {"alloc_chrdev_region", "cdev_add", "class_create", "device_create"}
  /\ Makes["alloc_chrdev_region"] = [next |-> "cdev_add", what |-> "devid", else |-> "over"]
  /\ Makes["cdev_add"] = [next |-> "class_create", what |-> "cdev", else |-> "FAIL_CDEV"]
  /\ Makes["class_create"] = [next |-> "device_create", what |-> "class", else |-> "FAIL_CLASS"]
  /\ Makes["device_create"] = [next |-> "made", what |-> "device", else |-> "FAIL_DEVICE"]
BY DEF Makes, DeviceLabel

LEMMA UndoesTable ==
  /\ DOMAIN Undoes = {"FAIL_DEVICE", "FAIL_CLASS", "FAIL_CDEV", "cdev_del", "unregister",
                      "device_destroy", "class_destroy"}
  /\ Undoes["FAIL_DEVICE"] = [next |-> "FAIL_CLASS", what |-> "class"]
  /\ Undoes["FAIL_CLASS"] = [next |-> "FAIL_CDEV", what |-> "cdev"]
  /\ Undoes["FAIL_CDEV"] = [next |-> "over", what |-> "devid"]
  /\ Undoes["cdev_del"] = [next |-> "unregister", what |-> "cdev"]
  /\ Undoes["unregister"] = [next |-> "device_destroy", what |-> "devid"]
  /\ Undoes["device_destroy"] = [next |-> "class_destroy", what |-> "device"]
  /\ Undoes["class_destroy"] = [next |-> "over", what |-> "class"]
BY DEF Undoes

\* Before insmod no driver is loaded, bound or open.
LEMMA CharStart == CharAssumption /\ CharInit => CharInv
<1> SUFFICES ASSUME CharAssumption, CharInit PROVE CharInv
  OBVIOUS
<1>1. CharRanges
  BY DEF CharInit, CharRanges
<1>2. MaxFiles \in Nat /\ MaxRefs \in Nat
  BY DEF CharAssumption
<1>3. ASSUME NEW d \in Drivers PROVE DriverInv(d)
  <2>1. walk[d] = "rest" /\ gets[d] = {} /\ leaves[d] = "nothing" /\ refs[d] = 0 /\ files[d] = 0
        /\ d \notin bound
    BY DEF CharInit
  <2>2. HoldsInv(d)
    BY <2>1 DEF HoldsInv
  <2>3. BoundInv(d)
    BY <2>1, MakesTable DEF BoundInv
  <2>4. RefsInv(d) /\ FilesInv(d)
    BY <1>2, <2>1 DEF RefsInv, FilesInv, WithCdev
  <2> QED BY <2>2, <2>3, <2>4 DEF DriverInv
<1> QED BY <1>1, <1>3 DEF CharInv

\* A step of one driver, as the others see it.
SameDriver(e) ==
  /\ walk'[e] = walk[e] /\ gets'[e] = gets[e] /\ leaves'[e] = leaves[e]
  /\ refs'[e] = refs[e] /\ files'[e] = files[e]
  /\ (e \in loaded') = (e \in loaded) /\ (e \in devices') = (e \in devices)
  /\ (e \in bound') = (e \in bound)
  /\ (e \in reused') = (e \in reused) /\ (e \in early') = (e \in early)

CharStepOf(d) ==
  \/ LoadDriver(d) \/ LoadDevice(d) \/ UnloadDriver(d) \/ UnloadDevice(d)
  \/ Make(d) \/ Made(d) \/ GiveUp(d) \/ Over(d)
  \/ OpenChar(d) \/ CloseChar(d)

LEMMA SameDriverKeeps ==
  ASSUME NEW e \in Drivers, DriverInv(e), SameDriver(e)
  PROVE  DriverInv(e)'
BY DEF SameDriver, DriverInv, HoldsInv, BoundInv, RefsInv, FilesInv

\* A step of a driver keeps the ranges.
LEMMA CharRangesStep ==
  ASSUME CharAssumption, CharInv, NEW d \in Drivers, CharStepOf(d)
  PROVE  CharRanges'
<1> USE MakesTable, UndoesTable DEF CharRanges, Drivers, Goto, Remove
<1>0. CharRanges /\ DriverInv(d)
  BY DEF CharInv
<1>1. CASE LoadDriver(d)
  BY <1>0, <1>1 DEF LoadDriver
<1>2. CASE LoadDevice(d)
  BY <1>0, <1>2 DEF LoadDevice
<1>3. CASE UnloadDriver(d)
  BY <1>0, <1>3 DEF UnloadDriver
<1>4. CASE UnloadDevice(d)
  BY <1>0, <1>4 DEF UnloadDevice
<1>5. CASE Make(d)
  BY <1>0, <1>5 DEF Make
<1>6. CASE Made(d)
  BY <1>0, <1>6 DEF Made
<1>7. CASE GiveUp(d)
  BY <1>0, <1>7 DEF GiveUp
<1>8. CASE Over(d)
  BY <1>0, <1>8 DEF Over
<1>9. CASE OpenChar(d)
  BY <1>0, <1>9 DEF OpenChar
<1>10. CASE CloseChar(d)
  BY <1>0, <1>10 DEF CloseChar
<1> QED BY <1>1, <1>2, <1>3, <1>4, <1>5, <1>6, <1>7, <1>8, <1>9, <1>10 DEF CharStepOf

\* A step of a driver does not touch another one.
LEMMA OthersStay ==
  ASSUME CharInv, NEW d \in Drivers, NEW e \in Drivers \ {d}, CharStepOf(d)
  PROVE  SameDriver(e)
<1> USE DEF SameDriver, Goto, Remove
<1>0. CharRanges
  BY DEF CharInv
<1>1. CASE LoadDriver(d) \/ LoadDevice(d)
  BY <1>0, <1>1 DEF CharRanges, LoadDriver, LoadDevice
<1>2. CASE UnloadDriver(d) \/ UnloadDevice(d)
  BY <1>0, <1>2 DEF CharRanges, UnloadDriver, UnloadDevice
<1>3. CASE Make(d)
  BY <1>0, <1>3 DEF CharRanges, Make
<1>4. CASE Made(d) \/ Over(d)
  BY <1>0, <1>4 DEF CharRanges, Made, Over
<1>5. CASE GiveUp(d)
  BY <1>0, <1>5 DEF CharRanges, GiveUp
<1>6. CASE OpenChar(d) \/ CloseChar(d)
  BY <1>0, <1>6 DEF CharRanges, OpenChar, CloseChar
<1> QED BY <1>1, <1>2, <1>3, <1>4, <1>5, <1>6 DEF CharStepOf

\* init and probe: a call succeeds, or goes to its label.
LEMMA MakeStep ==
  ASSUME CharAssumption, CharInv, NEW d \in Drivers, Make(d)
  PROVE  DriverInv(d)'
<1>0. CharRanges /\ HoldsInv(d) /\ BoundInv(d) /\ RefsInv(d) /\ FilesInv(d)
  BY DEF CharInv, DriverInv
<1> DEFINE Calls(from, to, gotten, label) ==
      /\ walk[d] = from
      /\ \/ walk'[d] = to /\ gets'[d] = gets[d] \cup {gotten}
         \/ walk'[d] = label /\ gets'[d] = gets[d]
<1>1. /\ \/ Calls("alloc_chrdev_region", "cdev_add", "devid", "over")
         \/ Calls("cdev_add", "class_create", "cdev", "FAIL_CDEV")
         \/ Calls("class_create", "device_create", "class", "FAIL_CLASS")
         \/ Calls("device_create", "made", "device", "FAIL_DEVICE")
      /\ UNCHANGED <<loaded, devices, bound, leaves, files, early>>
  BY <1>0, MakesTable DEF CharRanges, Make, Goto
<1>2. IF walk[d] = "cdev_add"
        THEN refs'[d] = 1 /\ (files[d] > 0 => d \in reused') /\ (d \in reused => d \in reused')
        ELSE refs'[d] = refs[d] /\ reused' = reused
  BY <1>0 DEF CharRanges, Make
<1>3. MaxRefs \in Nat \ {0} /\ MaxFiles \in Nat
  BY DEF CharAssumption
<1>4. d \notin bound /\ d \in loaded /\ (d \in OnBus => d \in devices)
  BY <1>0, <1>1, MakesTable DEF BoundInv
<1>5. HoldsInv(d)'
  BY <1>0, <1>1, <1>4 DEF HoldsInv
<1>6. BoundInv(d)'
  BY <1>1, <1>4 DEF BoundInv
<1>7. RefsInv(d)'
  <2>1. files[d] \in 0 .. MaxFiles /\ refs[d] \in 0 .. MaxRefs
    BY <1>0 DEF RefsInv
  <2>2. CASE walk[d] = "cdev_add"
    BY <1>1, <1>2, <1>3, <2>1, <2>2 DEF RefsInv
  <2>3. CASE walk[d] # "cdev_add"
    <3>1. d \in bound' \/ walk'[d] \in WithCdev => walk[d] \in WithCdev
      BY <1>1, <1>4, <2>3 DEF WithCdev
    <3> QED BY <1>0, <1>1, <1>2, <2>3, <3>1 DEF RefsInv
  <2> QED BY <2>2, <2>3
<1>8. FilesInv(d)'
  BY <1>0, <1>1, MakesTable DEF FilesInv
<1> QED BY <1>5, <1>6, <1>7, <1>8 DEF DriverInv

\* exit, remove and the labels: a call gives back what it names, and the cdev its first
\* reference.
LEMMA GiveUpStep ==
  ASSUME CharAssumption, CharInv, NEW d \in Drivers, GiveUp(d)
  PROVE  DriverInv(d)'
<1>0. CharRanges /\ HoldsInv(d) /\ BoundInv(d) /\ RefsInv(d) /\ FilesInv(d)
  BY DEF CharInv, DriverInv
<1> DEFINE Drops(from, to, what) ==
      /\ walk[d] = from /\ walk'[d] = to /\ gets'[d] = gets[d] \ {what}
      /\ IF what = "cdev" /\ refs[d] > 0 THEN refs'[d] = refs[d] - 1 ELSE refs'[d] = refs[d]
<1>1. /\ UNCHANGED <<loaded, devices, bound, leaves, files, reused, early>>
      /\ \/ Drops("FAIL_DEVICE", "FAIL_CLASS", "class")
         \/ Drops("FAIL_CLASS", "FAIL_CDEV", "cdev")
         \/ Drops("FAIL_CDEV", "over", "devid")
         \/ Drops("cdev_del", "unregister", "cdev")
         \/ Drops("unregister", "device_destroy", "devid")
         \/ Drops("device_destroy", "class_destroy", "device")
         \/ Drops("class_destroy", "over", "class")
  BY <1>0, UndoesTable DEF CharRanges, GiveUp, Goto, Puts
<1>2. d \notin bound
  BY <1>0, <1>1 DEF BoundInv
<1>3. HoldsInv(d)'
  BY <1>0, <1>1, <1>2 DEF HoldsInv
<1>4. BoundInv(d)'
  BY <1>1, <1>2, MakesTable DEF BoundInv
<1>5. RefsInv(d)'
  <2>1. files[d] \in Nat /\ refs[d] \in 0 .. MaxRefs /\ MaxRefs \in Nat
    BY <1>0 DEF RefsInv, CharAssumption
  <2>2. CASE walk[d] \in {"FAIL_CLASS", "cdev_del"}
    BY <1>0, <1>1, <1>2, <2>1, <2>2 DEF RefsInv, WithCdev
  <2>3. CASE walk[d] \notin {"FAIL_CLASS", "cdev_del"}
    BY <1>0, <1>1, <1>2, <2>3 DEF RefsInv, WithCdev
  <2> QED BY <2>2, <2>3
<1>6. FilesInv(d)'
  BY <1>0, <1>1 DEF FilesInv
<1> QED BY <1>3, <1>4, <1>5, <1>6 DEF DriverInv

\* A driver's modules come and go, and programs open and close its file.
LEMMA DriverStep ==
  ASSUME CharAssumption, CharInv, NEW d \in Drivers, CharStepOf(d)
  PROVE  DriverInv(d)'
<1>0. CharRanges /\ HoldsInv(d) /\ BoundInv(d) /\ RefsInv(d) /\ FilesInv(d)
  BY DEF CharInv, DriverInv
<1>a. MaxRefs \in Nat \ {0} /\ MaxFiles \in Nat /\ OnBus \cap Direct = {}
      /\ refs[d] \in 0 .. MaxRefs /\ files[d] \in 0 .. MaxFiles
  BY <1>0 DEF CharAssumption, RefsInv
<1> USE <1>0, <1>a, MakesTable, UndoesTable DEF CharRanges, Goto, Remove, WithCdev
<1> DEFINE Same == UNCHANGED <<refs[d], files[d], gets[d], reused, early>>
<1>1. CASE LoadDriver(d)
  <2>1. Same /\ bound' = bound /\ devices' = devices /\ d \in loaded' /\ leaves' = leaves
        /\ walk[d] = "rest" /\ files[d] = 0 /\ d \notin bound
        /\ walk'[d] = IF d \in Direct \/ d \in devices THEN "alloc_chrdev_region" ELSE "rest"
    BY <1>1 DEF LoadDriver, BoundInv
  <2>2. HoldsInv(d)'
    BY <2>1 DEF HoldsInv
  <2>3. BoundInv(d)'
    BY <2>1 DEF BoundInv
  <2>4. RefsInv(d)' /\ FilesInv(d)'
    BY <2>1 DEF RefsInv, FilesInv
  <2> QED BY <2>2, <2>3, <2>4 DEF DriverInv
<1>2. CASE LoadDevice(d)
  <2>1. Same /\ bound' = bound /\ d \in devices' /\ loaded' = loaded /\ leaves' = leaves
        /\ walk[d] = "rest" /\ d \notin bound /\ d \notin Direct
        /\ walk'[d] = IF d \in loaded THEN "alloc_chrdev_region" ELSE "rest"
    BY <1>2 DEF LoadDevice, BoundInv
  <2>2. HoldsInv(d)'
    BY <2>1 DEF HoldsInv
  <2>3. BoundInv(d)'
    BY <2>1 DEF BoundInv
  <2>4. RefsInv(d)' /\ FilesInv(d)'
    BY <2>1 DEF RefsInv, FilesInv
  <2> QED BY <2>2, <2>3, <2>4 DEF DriverInv
<1>3. CASE UnloadDriver(d) \/ UnloadDevice(d)
  <2>1. Same /\ d \notin bound' /\ UNCHANGED <<loaded, devices>> /\ walk[d] = "rest"
        /\ walk'[d] = (IF d \in bound THEN "cdev_del" ELSE "over")
        /\ \/ leaves'[d] = "driver" /\ files[d] = 0
           \/ leaves'[d] = "device" /\ d \notin Direct
    BY <1>3 DEF UnloadDriver, UnloadDevice, MayGo
  <2>2. HoldsInv(d)'
    BY <2>1 DEF HoldsInv
  <2>3. BoundInv(d)'
    BY <2>1 DEF BoundInv
  <2>4. RefsInv(d)' /\ FilesInv(d)'
    BY <2>1 DEF RefsInv, FilesInv
  <2> QED BY <2>2, <2>3, <2>4 DEF DriverInv
<1>4. CASE Made(d)
  <2>1. Same /\ bound' = bound \cup {d} /\ UNCHANGED <<loaded, devices, leaves>>
        /\ walk[d] = "made" /\ walk'[d] = "rest"
    BY <1>4 DEF Made
  <2>2. HoldsInv(d)'
    BY <2>1 DEF HoldsInv
  <2>3. BoundInv(d)'
    BY <2>1 DEF BoundInv
  <2>4. RefsInv(d)' /\ FilesInv(d)'
    BY <2>1 DEF RefsInv, FilesInv
  <2> QED BY <2>2, <2>3, <2>4 DEF DriverInv
<1>5. CASE Over(d)
  <2>1. Same /\ bound' = bound /\ walk[d] = "over" /\ walk'[d] = "rest" /\ d \notin bound
        /\ leaves'[d] = "nothing"
        /\ (d \in loaded' \/ leaves[d] = "driver" \/ (d \in Direct /\ leaves[d] = "nothing")
             \/ d \notin loaded)
    BY <1>5 DEF Over, BoundInv
  <2>2. HoldsInv(d)'
    BY <2>1 DEF HoldsInv
  <2>3. BoundInv(d)'
    BY <2>1 DEF BoundInv
  <2>4. RefsInv(d)' /\ FilesInv(d)'
    BY <2>1 DEF RefsInv, FilesInv
  <2> QED BY <2>2, <2>3, <2>4 DEF DriverInv
<1>6. CASE OpenChar(d)
  <2>1. /\ UNCHANGED <<loaded, devices, bound, walk, gets, leaves, reused>>
        /\ "cdev" \in gets[d] /\ leaves[d] # "driver" /\ files[d] < MaxFiles /\ refs[d] < MaxRefs
        /\ files'[d] = files[d] + 1 /\ refs'[d] = refs[d] + 1
        /\ (d \notin bound => d \in early') /\ (d \in early => d \in early')
    BY <1>6 DEF OpenChar
  <2>2. HoldsInv(d)'
    BY <2>1 DEF HoldsInv
  <2>3. BoundInv(d)'
    BY <2>1 DEF BoundInv
  <2>4. RefsInv(d)'
    BY <2>1 DEF RefsInv
  <2>5. FilesInv(d)'
    BY <2>1 DEF FilesInv, BoundInv
  <2> QED BY <2>2, <2>3, <2>4, <2>5 DEF DriverInv
<1>7. CASE CloseChar(d)
  <2>1. /\ UNCHANGED <<loaded, devices, bound, walk, gets, leaves, reused, early>>
        /\ files[d] > 0 /\ files'[d] = files[d] - 1
        /\ refs'[d] = IF refs[d] > 0 THEN refs[d] - 1 ELSE refs[d]
    BY <1>7 DEF CloseChar
  <2>2. HoldsInv(d)'
    BY <2>1 DEF HoldsInv
  <2>3. BoundInv(d)'
    BY <2>1 DEF BoundInv
  <2>4. RefsInv(d)'
    BY <2>1 DEF RefsInv
  <2>5. FilesInv(d)'
    BY <2>1 DEF FilesInv
  <2> QED BY <2>2, <2>3, <2>4, <2>5 DEF DriverInv
<1> QED
  BY <1>1, <1>2, <1>3, <1>4, <1>5, <1>6, <1>7, MakeStep, GiveUpStep DEF CharStepOf

LEMMA CharStep ==
  ASSUME CharAssumption, CharInv, [CharNext]_charVars
  PROVE  CharInv'
<1>1. CASE UNCHANGED charVars
  <2>1. CharRanges'
    BY <1>1 DEF CharInv, CharRanges, charVars
  <2>2. ASSUME NEW e \in Drivers PROVE DriverInv(e)'
    <3>1. SameDriver(e)
      BY <1>1 DEF charVars, SameDriver
    <3> QED BY <3>1, SameDriverKeeps DEF CharInv
  <2> QED BY <2>1, <2>2 DEF CharInv
<1>2. ASSUME NEW d \in Drivers, CharStepOf(d) PROVE CharInv'
  <2>1. CharRanges' /\ DriverInv(d)'
    BY <1>2, CharRangesStep, DriverStep
  <2>2. ASSUME NEW e \in Drivers PROVE DriverInv(e)'
    <3>1. CASE e = d
      BY <2>1, <3>1
    <3>2. CASE e # d
      <4>1. SameDriver(e)
        BY <1>2, <3>2, OthersStay
      <4> QED BY <4>1, SameDriverKeeps DEF CharInv
    <3> QED BY <3>1, <3>2
  <2> QED BY <2>1, <2>2 DEF CharInv
<1> QED BY <1>1, <1>2 DEF CharNext, CharStepOf

LEMMA CharInvariant == CharSpec => []CharInv
<1>1. CharInit => CharInv
  BY CharStart, CharAssumption
<1>2. CharInv /\ [CharNext]_charVars => CharInv'
  BY CharStep, CharAssumption
<1> QED BY <1>1, <1>2, PTL DEF CharSpec

\* CharTypeOK: in every order of loading and unloading leddriver and leddevice, and after
\* every failure of an init or a probe, a driver that is bound has made everything, and one
\* that rests unbound has nothing.
THEOREM CharTypeCorrect == CharSpec => []CharTypeOK
<1>1. CharInv => CharTypeOK
  BY DEF CharInv, CharRanges, DriverInv, HoldsInv, BoundInv, RefsInv, CharTypeOK
<1> QED BY <1>1, CharInvariant, PTL

\* FilesHold: however programs open and close chardev's and leddriver's files while the
\* modules come and go, a cdev has the references of its files, unless it was initialized
\* again under one, and a module goes only without open files, unless its init failed
\* behind a program's back.
THEOREM CharFilesHold == CharSpec => []FilesHold
<1>1. CharInv => RefsAreHeld
  BY DEF CharInv, DriverInv, RefsInv, RefsAreHeld
<1>2. CharInv => NoFileOfTheGone
  BY DEF CharInv, DriverInv, FilesInv, NoFileOfTheGone
<1> QED BY <1>1, <1>2, CharInvariant, PTL DEF FilesHold

-----------------------------------------------------------------------------
(* TimerDriver: TimerDriverInv is inductive                                *)

\* The two tables, entry by entry.
LEMMA LoadingTable ==
  /\ DOMAIN Loading = {"alloc_chrdev_region", "cdev_add", "class_create", "device_create"}
  /\ Loading["alloc_chrdev_region"] =
       [next |-> "cdev_add", gets |-> "devid", else |-> "FAIL_DEVID"]
  /\ Loading["cdev_add"] = [next |-> "class_create", gets |-> "cdev", else |-> "FAIL_CDEV"]
  /\ Loading["class_create"] = [next |-> "device_create", gets |-> "class", else |-> "FAIL_CLASS"]
  /\ Loading["device_create"] = [next |-> "set_function", gets |-> "device", else |-> "FAIL_DEVICE"]
BY DEF Loading, AfterDevice

LEMMA UnloadingTable ==
  /\ DOMAIN Unloading = {"FAIL_DEVICE", "FAIL_CLASS", "FAIL_CDEV", "cdev_del", "unregister",
                         "device_destroy", "class_destroy"}
  /\ Unloading["FAIL_DEVICE"] = [next |-> "FAIL_CLASS", what |-> "class"]
  /\ Unloading["FAIL_CLASS"] = [next |-> "FAIL_CDEV", what |-> "cdev"]
  /\ Unloading["FAIL_CDEV"] = [next |-> "FAIL_DEVID", what |-> "devid"]
  /\ Unloading["cdev_del"] = [next |-> "unregister", what |-> "cdev"]
  /\ Unloading["unregister"] = [next |-> "device_destroy", what |-> "devid"]
  /\ Unloading["device_destroy"] = [next |-> "class_destroy", what |-> "device"]
  /\ Unloading["class_destroy"] = [next |-> "gone", what |-> "class"]
BY DEF Unloading

\* A period is a number of ticks, and what is left of one a tick later is one too.
LEMMA TicksAre ==
  ASSUME TimerAssumption
  PROVE  /\ Periods \subseteq Ticks /\ 0 \in Ticks
         /\ \A n \in Ticks : Less(n) \in Ticks
<1>1. Periods \subseteq Nat /\ DefaultPeriod \in Periods
  BY DEF TimerAssumption
<1>2. Periods \subseteq Ticks /\ 0 \in Ticks
  BY <1>1 DEF Ticks
<1>3. ASSUME NEW n \in Ticks PROVE Less(n) \in Ticks
  <2>1. PICK q \in Periods : n \in Nat /\ n <= q
    BY DEF Ticks
  <2>2. q \in Nat /\ Less(n) \in Nat /\ Less(n) <= q
    BY <1>1, <2>1 DEF Less
  <2> QED BY <2>1, <2>2 DEF Ticks
<1> QED BY <1>2, <1>3

LEMMA LeftTicks == TimerTypeOK => left \in Ticks
BY DEF TimerTypeOK, Ticks

LEMMA TimerStart == TimerAssumption /\ TimerInit => TimerDriverInv
<1> SUFFICES ASSUME TimerAssumption, TimerInit PROVE TimerDriverInv
  OBVIOUS
<1>1. MaxIoctl \in Nat /\ DefaultPeriod \in Periods /\ Periods \subseteq Nat \ {0} /\ 0 \in Ticks
  BY TicksAre DEF TimerAssumption
<1>2. TimerTypeOK
  <2>1. at \in DOMAIN Loading /\ holds \subseteq {"devid", "cdev", "class", "device"}
        /\ (at = "loaded" => tm # "unset")
    BY LoadingTable DEF TimerInit
  <2>2. left \in Nat /\ \E q \in Periods : left <= q
    BY <1>1 DEF TimerInit
  <2>3. ioctls \in 0 .. MaxIoctl /\ period \in Periods
    BY <1>1 DEF TimerInit
  <2>4. {wanted, quiet, raced} \subseteq BOOLEAN /\ open \subseteq Programs
        /\ \A p \in Programs : doing[p] # "none" => p \in open
    BY DEF TimerInit
  <2> QED BY <2>1, <2>2, <2>3, <2>4 DEF TimerInit, TimerTypeOK
<1>3. CallsInv /\ BehindExit /\ StaysClosed
  BY <1>1, LoadingTable DEF TimerInit, CallsInv, BehindExit, StaysClosed
<1> QED BY <1>2, <1>3 DEF TimerDriverInv

\* timer_init and timer_exit: the calls that acquire and give back.
LEMMA TimerAcquireStep ==
  ASSUME TimerDriverInv, TimerAcquire
  PROVE  TimerDriverInv'
<1> DEFINE Calls(from, to, gotten, label) ==
      /\ at = from
      /\ \/ at' = to /\ holds' = holds \cup {gotten}
         \/ at' = label /\ holds' = holds
<1>1. /\ UNCHANGED <<tm, left, period, open, doing, asked, ioctls, fn, fnAsked, wanted, quiet,
                     raced>>
      /\ \/ Calls("alloc_chrdev_region", "cdev_add", "devid", "FAIL_DEVID")
         \/ Calls("cdev_add", "class_create", "cdev", "FAIL_CDEV")
         \/ Calls("class_create", "device_create", "class", "FAIL_CLASS")
         \/ Calls("device_create", "set_function", "device", "FAIL_DEVICE")
  BY LoadingTable DEF TimerAcquire, tmVars, userVars, fnVars, histVars
<1>2. TimerTypeOK'
  BY <1>1, LoadingTable, UnloadingTable DEF TimerDriverInv, TimerTypeOK
<1>3. BehindExit'
  BY <1>1 DEF TimerDriverInv, BehindExit
<1>4. CallsInv' /\ StaysClosed'
  BY <1>1 DEF TimerDriverInv, CallsInv, StaysClosed
<1> QED BY <1>2, <1>3, <1>4 DEF TimerDriverInv

LEMMA TimerDropStep ==
  ASSUME TimerDriverInv, TimerDrop
  PROVE  TimerDriverInv'
<1> DEFINE Drops(from, to, what) == at = from /\ at' = to /\ holds' = holds \ {what}
<1>1. /\ UNCHANGED <<tm, left, period, open, doing, asked, ioctls, fn, fnAsked, wanted, quiet,
                     raced>>
      /\ \/ Drops("FAIL_DEVICE", "FAIL_CLASS", "class")
         \/ Drops("FAIL_CLASS", "FAIL_CDEV", "cdev")
         \/ Drops("FAIL_CDEV", "FAIL_DEVID", "devid")
         \/ Drops("cdev_del", "unregister", "cdev")
         \/ Drops("unregister", "device_destroy", "devid")
         \/ Drops("device_destroy", "class_destroy", "device")
         \/ Drops("class_destroy", "gone", "class")
  BY UnloadingTable DEF TimerDrop, tmVars, userVars, fnVars, histVars
<1>2. TimerTypeOK'
  BY <1>1, LoadingTable, UnloadingTable DEF TimerDriverInv, TimerTypeOK
<1>3. BehindExit'
  BY <1>1 DEF TimerDriverInv, BehindExit
<1>4. CallsInv' /\ StaysClosed'
  BY <1>1 DEF TimerDriverInv, CallsInv, StaysClosed
<1> QED BY <1>2, <1>3, <1>4 DEF TimerDriverInv

\* The ranges, whatever step is taken: only ticks of some period reach the timer.
LEMMA TimerRangesStep ==
  ASSUME TimerAssumption, TimerDriverInv, TimerNext
  PROVE  TimerTypeOK' /\ CallsInv'
<1> USE LoadingTable, UnloadingTable
    DEF TimerTypeOK, CallsInv, Commands, modVars, tmVars, userVars, fnVars, histVars
<1>0. /\ TimerTypeOK /\ CallsInv /\ left \in Ticks /\ period \in Ticks /\ MaxIoctl \in Nat
      /\ Periods \subseteq Ticks /\ 0 \in Ticks /\ \A n \in Ticks : Less(n) \in Ticks
  BY TicksAre, LeftTicks DEF TimerDriverInv, TimerAssumption
<1>a. ASSUME left' \in Ticks PROVE left' \in Nat /\ \E q \in Periods : left' <= q
  BY <1>a DEF Ticks
<1>1. CASE TimerAcquire \/ TimerDrop
  BY <1>1, TimerAcquireStep, TimerDropStep DEF TimerDriverInv
<1>2. CASE SetFunction
  BY <1>0, <1>a, <1>2 DEF SetFunction
<1>3. CASE AddTimer
  BY <1>0, <1>3 DEF AddTimer
<1>4. CASE Oops
  BY <1>0, <1>4 DEF Oops
<1>5. CASE TimerExit
  BY <1>0, <1>5 DEF TimerExit, DelTimer
<1>6. CASE \E p \in Programs : OpenFile(p)
  BY <1>0, <1>6 DEF OpenFile
<1>7. CASE \E p \in Programs : CloseFile(p)
  BY <1>0, <1>7 DEF CloseFile
<1>8. CASE \E p \in Programs, cmd \in {"OPEN_CMD", "CLOSE_CMD", "SET_PERIOD"} : Ioctl(p, cmd)
  BY <1>0, <1>8 DEF Ioctl
<1>9. CASE \E p \in Programs : TakePeriod(p)
  BY <1>0, <1>9 DEF TakePeriod
<1>10. CASE \E p \in Programs : ComputeExpiry(p)
  BY <1>0, <1>10 DEF ComputeExpiry
<1>11. CASE \E p \in Programs : ModTimer(p)
  <2>1. PICK p \in Programs : ModTimer(p)
    BY <1>11
  <2>2. left' \in Ticks
    BY <1>0, <2>1 DEF ModTimer
  <2>3. CallsInv'
    BY <1>0, <2>1 DEF ModTimer
  <2>4. TimerTypeOK'
    BY <1>0, <1>a, <2>1, <2>2 DEF ModTimer
  <2> QED BY <2>3, <2>4
<1>12. CASE \E p \in Programs : CloseTimer(p)
  <2>1. PICK p \in Programs : CloseTimer(p)
    BY <1>12
  <2>2. doing' = [doing EXCEPT ![p] = "none"] /\ tm' \in {"unset", "idle"} /\ quiet' \in BOOLEAN
        /\ wanted' = FALSE /\ (tm # "unset" => tm' # "unset")
        /\ UNCHANGED <<at, holds, left, period, open, asked, ioctls, fn, fnAsked, raced>>
    BY <1>0, <2>1 DEF CloseTimer, DelTimer
  <2>3. CallsInv'
    BY <1>0, <2>2
  <2>4. TimerTypeOK'
    BY <1>0, <2>2
  <2> QED BY <2>3, <2>4
<1>13. CASE FunctionStarts
  BY <1>0, <1>13 DEF FunctionStarts
<1>14. CASE FunctionComputes
  BY <1>0, <1>14 DEF FunctionComputes, Interval
<1>15. CASE FunctionRestarts
  BY <1>0, <1>a, <1>15 DEF FunctionRestarts, Again
<1>16. CASE TickPasses
  <2>1. left' \in Ticks /\ fnAsked' \in Ticks /\ asked' \in [Programs -> Ticks]
    BY <1>0, <1>16 DEF TickPasses
  <2> QED BY <1>0, <1>a, <1>16, <2>1 DEF TickPasses
<1> QED
  BY <1>1, <1>2, <1>3, <1>4, <1>5, <1>6, <1>7, <1>8, <1>9, <1>10, <1>11, <1>12, <1>13, <1>14,
     <1>15, <1>16 DEF TimerNext, Serve, FunctionStep

\* What is left behind timer_exit, and what a CLOSE_CMD ends, whatever step is taken: an ioctl
\* needs an open file, which timer_exit waits for, and a function that starts needs a timer
\* that is pending.
LEMMA TimerRaceStep ==
  ASSUME TimerDriverInv, TimerNext
  PROVE  BehindExit' /\ StaysClosed'
<1> USE DEF BehindExit, StaysClosed, modVars, tmVars, userVars, fnVars, histVars
<1>0. TimerTypeOK /\ CallsInv /\ BehindExit /\ StaysClosed
  BY DEF TimerDriverInv
<1>a. \A p \in Programs : doing[p] # "none" => p \in open
  BY <1>0 DEF TimerTypeOK
<1>1. CASE TimerAcquire \/ TimerDrop
  BY <1>1, TimerAcquireStep, TimerDropStep DEF TimerDriverInv
<1>2. CASE SetFunction \/ AddTimer \/ Oops
  BY <1>0, <1>2 DEF SetFunction, AddTimer, Oops
<1>3. CASE TimerExit
  BY <1>0, <1>3 DEF TimerExit, DelTimer
<1>4. CASE \E p \in Programs : OpenFile(p)
  BY <1>0, <1>4, UnloadingTable DEF OpenFile
<1>5. CASE \E p \in Programs : CloseFile(p)
  BY <1>0, <1>5 DEF CloseFile
<1>6. CASE \E p \in Programs, cmd \in {"OPEN_CMD", "CLOSE_CMD", "SET_PERIOD"} : Ioctl(p, cmd)
  BY <1>0, <1>6 DEF Ioctl
<1>7. CASE \E p \in Programs : TakePeriod(p) \/ ComputeExpiry(p)
  BY <1>0, <1>7 DEF TakePeriod, ComputeExpiry
<1>8. CASE \E p \in Programs : ModTimer(p)
  BY <1>0, <1>a, <1>8 DEF ModTimer
<1>9. CASE \E p \in Programs : CloseTimer(p)
  BY <1>0, <1>a, <1>9 DEF CloseTimer, DelTimer
<1>10. CASE FunctionStep
  BY <1>0, <1>10 DEF FunctionStep, FunctionStarts, FunctionComputes, FunctionRestarts
<1>11. CASE TickPasses
  BY <1>0, <1>11 DEF TickPasses
<1> QED
  BY <1>1, <1>2, <1>3, <1>4, <1>5, <1>6, <1>7, <1>8, <1>9, <1>10, <1>11 DEF TimerNext, Serve

LEMMA TimerDriverInvariant == TimerSpec => []TimerDriverInv
<1>1. TimerInit => TimerDriverInv
  BY TimerStart, TimerAssumption
<1>2. TimerDriverInv /\ [TimerNext]_timerDriverVars => TimerDriverInv'
  <2> SUFFICES ASSUME TimerDriverInv, [TimerNext]_timerDriverVars PROVE TimerDriverInv'
    OBVIOUS
  <2>1. CASE TimerNext
    BY <2>1, TimerRangesStep, TimerRaceStep, TimerAssumption DEF TimerDriverInv
  <2>2. CASE UNCHANGED timerDriverVars
    BY <2>2 DEF timerDriverVars, modVars, tmVars, userVars, fnVars, histVars, TimerDriverInv,
                TimerTypeOK, CallsInv, BehindExit, StaysClosed
  <2> QED BY <2>1, <2>2
<1> QED BY <1>1, <1>2, PTL DEF TimerSpec

\* TimerTypeOK: the variables of timer.c's model keep their ranges, and a loaded module has
\* set its timer up.
THEOREM TimerTypeCorrect == TimerSpec => []TimerTypeOK
<1>1. TimerDriverInv => TimerTypeOK
  BY DEF TimerDriverInv
<1> QED BY <1>1, TimerDriverInvariant, PTL

\* The safety part of TimerObeys: behind timer_exit only what met timer_function running is
\* left, and a CLOSE_CMD that did not meet it ends the timer until a program starts it again.
THEOREM TimerGone == TimerSpec => [](OnlyTheRaceRemains /\ StaysClosed)
<1>1. TimerDriverInv => OnlyTheRaceRemains /\ StaysClosed
  BY DEF TimerDriverInv, BehindExit, OnlyTheRaceRemains
<1> QED BY <1>1, TimerDriverInvariant, PTL

-----------------------------------------------------------------------------
(* The parts side by side                                                  *)

\* Each part of MCDrivers behaves as it does alone: no other part touches its state.
LEMMA PartsAlone == MCSpec => Spec /\ TaskletSpec /\ TimerSpec /\ CharSpec /\ CamSpec
<1>1. MCInit => Init /\ TaskletInit /\ TimerInit /\ CharInit /\ CamInit
  BY DEF MCInit
<1>2. [MCNext]_mcVars => /\ [Next]_vars /\ [TaskletNext]_taskletVars
                         /\ [TimerNext]_timerDriverVars /\ [CharNext]_charVars
                         /\ [CamNext]_camVars
  <2> SUFFICES ASSUME [MCNext]_mcVars
               PROVE  /\ Next \/ UNCHANGED vars
                      /\ TaskletNext \/ UNCHANGED taskletVars
                      /\ TimerNext \/ UNCHANGED timerDriverVars
                      /\ CharNext \/ UNCHANGED charVars
                      /\ CamNext \/ UNCHANGED camVars
    OBVIOUS
  <2>1. CASE KeyOnly(Next)
    BY <2>1 DEF KeyOnly, Follow
  <2>2. CASE TaskletOnly(TaskletNext)
    BY <2>2 DEF TaskletOnly, Follow
  <2>3. CASE TimerOnly(TimerNext)
    BY <2>3 DEF TimerOnly, Follow
  <2>4. CASE CharOnly(CharNext)
    BY <2>4 DEF CharOnly, Follow
  <2>5. CASE CamOnly(CamNext)
    BY <2>5 DEF CamOnly, Follow
  <2>6. CASE UNCHANGED mcVars
    BY <2>6 DEF mcVars
  <2> QED BY <2>1, <2>2, <2>3, <2>4, <2>5, <2>6 DEF MCNext
<1> QED BY <1>1, <1>2, PTL DEF MCSpec, Spec, TaskletSpec, TimerSpec, CharSpec, CamSpec

\* The state of the four kernel modules and of the camera program keeps its type, whichever
\* of them runs, for any number of edges, calls, files, references and frames.
THEOREM DriversTypes == MCSpec => []TypesOK
<1>1. TypeOK /\ TaskletTypeOK /\ TimerTypeOK /\ CharTypeOK /\ CamTypeOK => TypesOK
  BY DEF TypesOK
<1> QED BY <1>1, PartsAlone, TypeCorrect, TaskletTypeCorrect, TimerTypeCorrect, CharTypeCorrect,
           CamTypeCorrect, PTL
=============================================================================
