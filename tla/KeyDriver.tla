----------------------------- MODULE KeyDriver ------------------------------
(***************************************************************************)
(* drivers/key/key.c: a key on a GPIO whose edges interrupt; the handler   *)
(* starts a timer, and the timer function looks at the pin.  Loading and   *)
(* unloading the module race with the interrupt and with the timer         *)
(* function, which runs on another CPU.  The kernel is external: an        *)
(* interrupt handler runs to its end before free_irq returns, a timer runs *)
(* at the first tick at or after its expiry.                               *)
(***************************************************************************)
EXTENDS Naturals, Sequences, FiniteSets

CONSTANTS
  Boot,        \* jiffies when the module is loaded
  Debounce,    \* msecs_to_jiffies(10)
  MaxJiffies,  \* bound on the clock
  MaxEdges     \* bound on the edges of the pin

ASSUME KeyAssumption ==
  /\ {Boot, Debounce, MaxJiffies, MaxEdges} \subseteq Nat
  /\ Debounce < Boot /\ Boot <= MaxJiffies

VARIABLES
  pc,       \* where mykey_init or mykey_exit is
  held,     \* what the module holds
  timer,    \* key_timer: not set up, not pending, pending
  expires,
  running,  \* timer_func runs
  jiffies,
  pin,      \* the value of the pin
  irq,      \* the edge interrupt waits for its handler
  edges,    \* edges so far
  startAt,  \* jiffies when the handler last started the timer
  seen      \* what timer_func printed last

vars == <<pc, held, timer, expires, running, jiffies, pin, irq, edges, startAt, seen>>
timerVars == <<timer, expires, running>>
keyVars == <<pin, irq, edges, startAt, seen>>

\* What follows the request of the interrupt.  A slip: the timer is forgotten.
AfterIrqLoaded == "loaded"
AfterIrq == "timer_setup"

\* mykey_init and the calls of key_gpio_init: what follows, what is acquired, and
\* the label a failure goes to.
Load ==
  [alloc_chrdev_region |-> [next |-> "cdev_add",      gets |-> "devid",  else |-> "FAIL_DEVID"],
   cdev_add            |-> [next |-> "class_create",  gets |-> "cdev",   else |-> "FAIL_CDEV"],
   class_create        |-> [next |-> "device_create", gets |-> "class",  else |-> "FAIL_CLASS"],
   device_create       |-> [next |-> "find_node",     gets |-> "device", else |-> "FAIL_DEVICE"],
   request_irq         |-> [next |-> AfterIrq,        gets |-> "irq",    else |-> "FAIL_IRQ"]]

\* The labels, and the calls of mykey_exit.
Unload ==
  [FAIL_IRQ                 |-> [next |-> "FAIL_GPIO_INIT", what |-> "gpio"],
   FAIL_GPIO_INIT           |-> [next |-> "FAIL_DEVICE",    what |-> "device"],
   FAIL_DEVICE              |-> [next |-> "FAIL_CLASS",     what |-> "class"],
   FAIL_CLASS               |-> [next |-> "FAIL_CDEV",      what |-> "cdev"],
   FAIL_CDEV                |-> [next |-> "FAIL_DEVID",     what |-> "devid"],
   free_irq                 |-> [next |-> "gpio_free",      what |-> "irq"],
   gpio_free                |-> [next |-> "del_timer_sync", what |-> "gpio"],
   cdev_del                 |-> [next |-> "unregister",     what |-> "cdev"],
   unregister               |-> [next |-> "device_destroy", what |-> "devid"],
   device_destroy           |-> [next |-> "class_destroy",  what |-> "device"],
   class_destroy            |-> [next |-> "gone",           what |-> "class"]]

Init ==
  /\ pc = "alloc_chrdev_region" /\ held = {}
  /\ timer = "unset" /\ expires = 0 /\ running = FALSE
  /\ jiffies = Boot
  /\ pin = 1 /\ irq = FALSE /\ edges = 0 /\ startAt = 0 /\ seen = 1

-----------------------------------------------------------------------------
Acquire ==
  /\ pc \in DOMAIN Load
  /\ \/ pc' = Load[pc].next /\ held' = held \cup {Load[pc].gets}
     \/ pc' = Load[pc].else /\ UNCHANGED held
  /\ UNCHANGED <<timerVars, jiffies, keyVars>>

\* key_gpio_init up to the interrupt; gpio_request's answer is not looked at.
FindNode ==
  /\ pc = "find_node"
  /\ \/ pc' = "request_irq" /\ held' = held \cup {"gpio"}
     \/ pc' = "FAIL_GPIO_INIT" /\ UNCHANGED held
  /\ UNCHANGED <<timerVars, jiffies, keyVars>>

\* timer_setup and add_timer, with the zero of the static stKey_Dev as its expiry.
TimerSetup ==
  /\ pc = "timer_setup" /\ pc' = "loaded"
  /\ timer' = "pending"
  /\ UNCHANGED <<held, expires, running, jiffies, keyVars>>

\* rmmod
Exit ==
  /\ pc = "loaded" /\ pc' = "free_irq"
  /\ UNCHANGED <<held, timerVars, jiffies, keyVars>>

Drop ==
  /\ pc \in DOMAIN Unload
  /\ pc' = Unload[pc].next
  /\ held' = held \ {Unload[pc].what}
  /\ irq' = (irq /\ Unload[pc].what # "irq")
  /\ UNCHANGED <<timerVars, jiffies, pin, edges, startAt, seen>>

\* del_timer_sync takes the timer out and waits for its function.  A slip,
\* del_timer: it does not wait.
NoWait == TRUE
TimerOver == ~running

DelTimerSync ==
  /\ pc = "del_timer_sync" /\ pc' = "cdev_del"
  /\ TimerOver
  /\ timer' = "idle"
  /\ UNCHANGED <<held, expires, running, jiffies, keyVars>>

-----------------------------------------------------------------------------
\* The key is pressed, released, or bounces.
Edge ==
  /\ edges < MaxEdges /\ edges' = edges + 1
  /\ pin' = 1 - pin
  /\ irq' = (irq \/ "irq" \in held)
  /\ UNCHANGED <<pc, held, timerVars, jiffies, startAt, seen>>

\* What key_irq_handler asks of mod_timer: 10 ms as an absolute time.
Expiry == Debounce

\* A slip: the handler leaves a timer alone whose function runs.
RestartsUnlessRunning == ~running
Restarts == TRUE

KeyIrqHandler ==
  /\ irq /\ timer # "unset"
  /\ irq' = FALSE
  /\ IF Restarts THEN timer' = "pending" /\ expires' = Expiry ELSE UNCHANGED <<timer, expires>>
  /\ startAt' = jiffies
  /\ UNCHANGED <<pc, held, running, jiffies, pin, edges, seen>>

\* mod_timer stops the kernel on a timer without a function.
KeyIrqTooEarly ==
  /\ irq /\ timer = "unset"
  /\ pc' = "oops"
  /\ UNCHANGED <<held, timerVars, jiffies, keyVars>>

\* timer_func reads the pin, then prints what it read.
TimerFires ==
  /\ timer = "pending" /\ expires <= jiffies /\ ~running
  /\ timer' = "idle" /\ running' = TRUE
  /\ seen' = pin
  /\ UNCHANGED <<pc, held, expires, jiffies, pin, irq, edges, startAt>>

TimerReturns ==
  /\ running /\ running' = FALSE
  /\ UNCHANGED <<pc, held, timer, expires, jiffies, keyVars>>

Tick ==
  /\ jiffies < MaxJiffies /\ jiffies' = jiffies + 1
  /\ UNCHANGED <<pc, held, timerVars, keyVars>>

-----------------------------------------------------------------------------
Next ==
  /\ pc # "oops"
  /\ \/ Acquire \/ FindNode \/ TimerSetup
     \/ Exit \/ Drop \/ DelTimerSync
     \/ Edge \/ KeyIrqHandler \/ KeyIrqTooEarly
     \/ TimerFires \/ TimerReturns \/ Tick

Spec == Init /\ [][Next]_vars

\* The kernel serves interrupts and timers; nobody has to press, load or unload.
FairSpec == Spec /\ WF_vars(KeyIrqHandler) /\ WF_vars(TimerFires) /\ WF_vars(TimerReturns)

-----------------------------------------------------------------------------
TypeOK ==
  /\ pc \in DOMAIN Load \cup DOMAIN Unload
            \cup {"find_node", "timer_setup", "loaded", "del_timer_sync", "gone", "FAIL_DEVID", "oops"}
  /\ pc \in {"loaded", "free_irq", "gpio_free", "del_timer_sync"} => timer # "unset"
  /\ held \subseteq {"devid", "cdev", "class", "device", "gpio", "irq"}
  /\ timer \in {"unset", "idle", "pending"} /\ running \in BOOLEAN /\ irq \in BOOLEAN
  /\ expires \in Nat /\ jiffies \in Boot .. MaxJiffies
  /\ edges \in 0 .. MaxEdges /\ startAt \in Nat /\ {pin, seen} \subseteq 0 .. 1

\* A module whose load failed, or that was unloaded, holds nothing that is modelled
\* (the reference to its device node is not), and no handler or timer function of it runs or
\* will run: its memory can go.
NothingRemains ==
  pc \in {"gone", "FAIL_DEVID"} =>
    /\ held = {}
    /\ ~irq /\ ~running /\ timer # "pending"

\* Once the pin is steady and the module stays, the last value timer_func printed is
\* the pin's: no edge is lost to a timer function that runs already.
LastEdgeSeen == <>[](pc = "loaded") => <>[](seen = pin)

-----------------------------------------------------------------------------
(* The inductive invariant behind NothingRemains (DriversProofs)           *)

\* What mykey_init has acquired so far, and mykey_exit not yet given back.
HeldInv ==
  LET node == {"devid", "cdev", "class", "device"} IN
  /\ pc \in {"alloc_chrdev_region", "FAIL_DEVID", "gone"} => held = {}
  /\ pc \in {"cdev_add", "FAIL_CDEV"} => held = {"devid"}
  /\ pc \in {"class_create", "FAIL_CLASS"} => held = {"devid", "cdev"}
  /\ pc \in {"device_create", "FAIL_DEVICE"} => held = {"devid", "cdev", "class"}
  /\ pc \in {"find_node", "FAIL_GPIO_INIT", "del_timer_sync", "cdev_del"} => held = node
  /\ pc \in {"request_irq", "FAIL_IRQ", "gpio_free"} => held = node \cup {"gpio"}
  /\ pc \in {"timer_setup", "loaded", "free_irq"} => held = node \cup {"gpio", "irq"}
  /\ pc = "unregister" => held = {"devid", "class", "device"}
  /\ pc = "device_destroy" => held = {"class", "device"}
  /\ pc = "class_destroy" => held = {"class"}

\* The interrupt waits only between its request and free_irq; the timer runs only
\* between timer_setup and del_timer_sync, and is out behind the latter.
IrqInv == irq => pc \in {"timer_setup", "loaded", "free_irq", "oops"}
TimerInv ==
  /\ pc \notin {"loaded", "free_irq", "gpio_free", "del_timer_sync", "oops"} => ~running
  /\ pc \in {"cdev_del", "unregister", "device_destroy", "class_destroy", "gone"} => timer = "idle"
  /\ pc \in {"alloc_chrdev_region", "cdev_add", "class_create", "device_create", "find_node",
             "request_irq", "timer_setup", "FAIL_IRQ", "FAIL_GPIO_INIT", "FAIL_DEVICE",
             "FAIL_CLASS", "FAIL_CDEV", "FAIL_DEVID"} => timer = "unset"

KeyInv == TypeOK /\ HeldInv /\ IrqInv /\ TimerInv

-----------------------------------------------------------------------------
(* What the comments say and the code does not do                          *)

\* key.c:69 has the timer function run 10 ms after the interrupt, to debounce the
\* key: a timer the handler has started fires 10 ms later or after.
Debounced == [][TimerFires /\ expires # 0 => jiffies - startAt >= Debounce]_vars
=============================================================================
