--------------------------- MODULE TaskletDriver ----------------------------
(***************************************************************************)
(* drivers/tasklet/tasklet.c: the key driver with a lower half.  The       *)
(* handler of the key's interrupt schedules a tasklet, the tasklet starts  *)
(* the timer, and the timer function looks at the pin.  Handler, tasklet,  *)
(* timer function and the unloading of the module run on different CPUs.   *)
(* The kernel is external: free_irq waits for the handler and              *)
(* del_timer_sync for the timer function, but nobody waits for the         *)
(* tasklet; a tasklet scheduled again while it runs, runs again.  Its      *)
(* expiry lies in the past, as in KeyDriver, so the clock is left out.     *)
(***************************************************************************)
EXTENDS Naturals

CONSTANT MaxTurns  \* bound on the edges of the pin

ASSUME TaskletAssumption == MaxTurns \in Nat

VARIABLES
  stage,      \* where mykey_init or mykey_exit is
  owns,       \* what the module holds
  level,      \* the value of the pin
  turns,      \* edges so far
  raised,     \* the interrupt waits for its handler
  tasklet,    \* zero as stKey_Dev is, or initialized
  scheduled,  \* TASKLET_STATE_SCHED
  inTasklet,  \* key_tasklet runs
  keyTimer,   \* not set up, not pending, pending
  inTimer,    \* timer_func runs
  printed,    \* what timer_func printed last
  late        \* history: the tasklet was scheduled or running at del_timer_sync

moduleVars == <<stage, owns>>
pinVars == <<level, turns, raised>>
halfVars == <<tasklet, scheduled, inTasklet>>
lookVars == <<keyTimer, inTimer, printed>>
taskletVars == <<moduleVars, pinVars, halfVars, lookVars, late>>

\* What follows the request of the interrupt.
AfterRequest == "tasklet_init"

Loads ==
  [alloc_chrdev_region |-> [next |-> "cdev_add",      gets |-> "devid",  else |-> "FAIL_DEVID"],
   cdev_add            |-> [next |-> "class_create",  gets |-> "cdev",   else |-> "FAIL_CDEV"],
   class_create        |-> [next |-> "device_create", gets |-> "class",  else |-> "FAIL_CLASS"],
   device_create       |-> [next |-> "find_node",     gets |-> "device", else |-> "FAIL_DEVICE"],
   find_node           |-> [next |-> "request_irq",   gets |-> "gpio",   else |-> "FAIL_GPIO_INIT"],
   request_irq         |-> [next |-> AfterRequest,    gets |-> "irq",    else |-> "FAIL_IRQ"]]

\* The first call of mykey_exit.  A slip: the pin is freed, and its interrupt is not.
FirstOutGpio == "gpio_free"
FirstOut == "free_irq"

\* The labels, and the calls of mykey_exit.
Unloads ==
  [FAIL_IRQ       |-> [next |-> "FAIL_GPIO_INIT", what |-> "gpio"],
   FAIL_GPIO_INIT |-> [next |-> "FAIL_DEVICE",    what |-> "device"],
   FAIL_DEVICE    |-> [next |-> "FAIL_CLASS",     what |-> "class"],
   FAIL_CLASS     |-> [next |-> "FAIL_CDEV",      what |-> "cdev"],
   FAIL_CDEV      |-> [next |-> "FAIL_DEVID",     what |-> "devid"],
   free_irq       |-> [next |-> "gpio_free",      what |-> "irq"],
   gpio_free      |-> [next |-> "del_timer_sync", what |-> "gpio"],
   cdev_del       |-> [next |-> "unregister",     what |-> "cdev"],
   unregister     |-> [next |-> "device_destroy", what |-> "devid"],
   device_destroy |-> [next |-> "class_destroy",  what |-> "device"],
   class_destroy  |-> [next |-> "gone",           what |-> "class"]]

TaskletInit ==
  /\ stage = "alloc_chrdev_region" /\ owns = {}
  /\ level = 1 /\ turns = 0 /\ raised = FALSE
  /\ tasklet = "zero" /\ scheduled = FALSE /\ inTasklet = FALSE
  /\ keyTimer = "unset" /\ inTimer = FALSE /\ printed = 1
  /\ late = FALSE

-----------------------------------------------------------------------------
\* The answer of gpio_request is not looked at.
Gets ==
  /\ stage \in DOMAIN Loads
  /\ \/ stage' = Loads[stage].next /\ owns' = owns \cup {Loads[stage].gets}
     \/ stage' = Loads[stage].else /\ UNCHANGED owns
  /\ UNCHANGED <<pinVars, halfVars, lookVars, late>>

\* tasklet_init.
InitTasklet ==
  /\ stage = "tasklet_init" /\ ~scheduled /\ ~inTasklet
  /\ stage' = "timer_setup" /\ tasklet' = "ready"
  /\ UNCHANGED <<owns, pinVars, scheduled, inTasklet, lookVars, late>>

\* timer_setup and add_timer.
InitTimer ==
  /\ stage = "timer_setup" /\ stage' = "loaded"
  /\ keyTimer' = "pending"
  /\ UNCHANGED <<owns, pinVars, halfVars, inTimer, printed, late>>

\* The interrupt is live before tasklet and timer are set up: a zero tasklet has no
\* function, one that is scheduled cannot be initialized, and mod_timer stops the kernel
\* on a timer without a function.
TooEarly ==
  /\ \/ scheduled /\ tasklet = "zero"
     \/ inTasklet /\ keyTimer = "unset"
  /\ stage' = "oops"
  /\ UNCHANGED <<owns, pinVars, halfVars, lookVars, late>>

Leave ==
  /\ stage = "loaded" /\ stage' = FirstOut
  /\ UNCHANGED <<owns, pinVars, halfVars, lookVars, late>>

GiveBack ==
  /\ stage \in DOMAIN Unloads
  /\ stage' = Unloads[stage].next /\ owns' = owns \ {Unloads[stage].what}
  /\ raised' = (raised /\ Unloads[stage].what # "irq")
  /\ UNCHANGED <<level, turns, halfVars, lookVars, late>>

\* A slip, del_timer: it does not wait for the timer function.
AnyTime == TRUE
FunctionOver == ~inTimer

WaitForTimer ==
  /\ stage = "del_timer_sync" /\ FunctionOver
  /\ stage' = "cdev_del" /\ keyTimer' = "idle"
  /\ late' = (scheduled \/ inTasklet)
  /\ UNCHANGED <<owns, pinVars, halfVars, inTimer, printed>>

-----------------------------------------------------------------------------
Turn ==
  /\ turns < MaxTurns /\ turns' = turns + 1
  /\ level' = 1 - level /\ raised' = (raised \/ "irq" \in owns)
  /\ UNCHANGED <<moduleVars, halfVars, lookVars, late>>

\* key_irq_handler: tasklet_schedule, which does nothing when the tasklet is scheduled.
Interrupt ==
  /\ raised /\ raised' = FALSE
  /\ scheduled' = TRUE
  /\ UNCHANGED <<moduleVars, level, turns, tasklet, inTasklet, lookVars, late>>

\* The kernel takes the tasklet from its list, and key_tasklet starts.
TaskletStarts ==
  /\ scheduled /\ ~inTasklet /\ tasklet = "ready" /\ stage # "gone"
  /\ scheduled' = FALSE /\ inTasklet' = TRUE
  /\ UNCHANGED <<moduleVars, pinVars, tasklet, lookVars, late>>

\* What mod_timer makes of the timer, also when its function runs.
Restarted == "pending"

\* key_tasklet: mod_timer, and its return.
TaskletReturns ==
  /\ inTasklet /\ keyTimer # "unset" /\ stage # "gone"
  /\ inTasklet' = FALSE /\ keyTimer' = Restarted
  /\ UNCHANGED <<moduleVars, pinVars, tasklet, scheduled, inTimer, printed, late>>

FunctionLooks ==
  /\ keyTimer = "pending" /\ ~inTimer /\ stage # "gone"
  /\ keyTimer' = "idle" /\ inTimer' = TRUE /\ printed' = level
  /\ UNCHANGED <<moduleVars, pinVars, halfVars, late>>

FunctionEnds ==
  /\ inTimer /\ stage # "gone" /\ inTimer' = FALSE
  /\ UNCHANGED <<moduleVars, pinVars, halfVars, keyTimer, printed, late>>

-----------------------------------------------------------------------------
KernelStep == Interrupt \/ TaskletStarts \/ TaskletReturns \/ FunctionLooks \/ FunctionEnds

TaskletNext ==
  /\ stage # "oops"
  /\ \/ Gets \/ InitTasklet \/ InitTimer \/ TooEarly
     \/ Leave \/ GiveBack \/ WaitForTimer
     \/ Turn \/ KernelStep

TaskletSpec == TaskletInit /\ [][TaskletNext]_taskletVars

\* The kernel serves interrupts, tasklets and timers.
TaskletFairSpec == TaskletSpec /\ WF_taskletVars(KernelStep)

-----------------------------------------------------------------------------
\* The ranges; a loaded module has set its tasklet up, and an interrupt waits only while
\* it is requested.
TaskletTypeOK ==
  /\ stage \in DOMAIN Loads \cup DOMAIN Unloads
       \cup {"tasklet_init", "timer_setup", "loaded", "del_timer_sync", "gone", "FAIL_DEVID", "oops"}
  /\ owns \subseteq {"devid", "cdev", "class", "device", "gpio", "irq"}
  /\ tasklet \in {"zero", "ready"} /\ (stage = "loaded" => tasklet = "ready")
  /\ keyTimer \in {"unset", "idle", "pending"} /\ {scheduled, inTasklet, inTimer, late} \subseteq BOOLEAN
  /\ raised => "irq" \in owns
  /\ turns \in 0 .. MaxTurns /\ {level, printed} \subseteq 0 .. 1

\* An unloaded module holds nothing, and nothing of it runs or will run, unless the
\* tasklet was still scheduled or running at del_timer_sync: nobody kills the tasklet,
\* which then runs, and starts the timer, behind it.
OnlyTheTaskletRemains ==
  stage \in {"gone", "FAIL_DEVID"} =>
    /\ owns = {} /\ ~raised
    /\ scheduled \/ inTasklet \/ keyTimer = "pending" \/ inTimer => late

\* When the key comes to rest and the module stays, the last value printed is the
\* pin's: an edge that meets the tasklet or the timer function running is not lost.
RestIsSeen == <>[](stage = "loaded") => <>[](printed = level)

-----------------------------------------------------------------------------
(* The inductive invariant behind OnlyTheTaskletRemains (DriversProofs)    *)

\* What mykey_init has acquired so far, and mykey_exit not yet given back.
OwnsInv ==
  LET node == {"devid", "cdev", "class", "device"} IN
  /\ stage \in {"alloc_chrdev_region", "FAIL_DEVID", "gone"} => owns = {}
  /\ stage \in {"cdev_add", "FAIL_CDEV"} => owns = {"devid"}
  /\ stage \in {"class_create", "FAIL_CLASS"} => owns = {"devid", "cdev"}
  /\ stage \in {"device_create", "FAIL_DEVICE"} => owns = {"devid", "cdev", "class"}
  /\ stage \in {"find_node", "FAIL_GPIO_INIT", "del_timer_sync", "cdev_del"} => owns = node
  /\ stage \in {"request_irq", "FAIL_IRQ", "gpio_free"} => owns = node \cup {"gpio"}
  /\ stage \in {"tasklet_init", "timer_setup", "loaded", "free_irq", "oops"} =>
       owns = node \cup {"gpio", "irq"}
  /\ stage = "unregister" => owns = {"devid", "class", "device"}
  /\ stage = "device_destroy" => owns = {"class", "device"}
  /\ stage = "class_destroy" => owns = {"class"}

\* Nothing runs before the interrupt is requested, only the tasklet between its
\* initialization and that of the timer, and what runs behind del_timer_sync was started
\* by a tasklet that was scheduled or running there.
HalvesInv ==
  /\ raised \in BOOLEAN
  /\ stage \in (DOMAIN Loads \cup {"FAIL_IRQ", "FAIL_GPIO_INIT", "FAIL_DEVICE", "FAIL_CLASS",
                                   "FAIL_CDEV", "FAIL_DEVID"}) => ~scheduled
  /\ stage \in (DOMAIN Loads \cup {"tasklet_init", "FAIL_IRQ", "FAIL_GPIO_INIT", "FAIL_DEVICE",
                                   "FAIL_CLASS", "FAIL_CDEV", "FAIL_DEVID"}) =>
       tasklet = "zero" /\ ~inTasklet /\ keyTimer = "unset" /\ ~inTimer
  /\ stage = "timer_setup" => tasklet = "ready" /\ keyTimer = "unset" /\ ~inTimer
  /\ stage \in {"loaded", "free_irq", "gpio_free", "del_timer_sync"} =>
       tasklet = "ready" /\ keyTimer # "unset"
  /\ stage \in {"cdev_del", "unregister", "device_destroy", "class_destroy", "gone"} =>
       /\ tasklet = "ready" /\ keyTimer # "unset"
       /\ scheduled \/ inTasklet \/ keyTimer = "pending" \/ inTimer => late

TaskletInv == TaskletTypeOK /\ OwnsInv /\ HalvesInv
=============================================================================
