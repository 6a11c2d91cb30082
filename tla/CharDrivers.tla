---------------------------- MODULE CharDrivers -----------------------------
(***************************************************************************)
(* The character devices of drivers/chardev/chardev.c, which the module's  *)
(* init makes, and of drivers/platform1/leddriver.c, which its probe makes *)
(* when the bus has both the driver and the device of leddevice.c.  The    *)
(* two modules of the LED are loaded and unloaded in any order, under the  *)
(* lock of the device.  Each device file has a struct cdev in the static   *)
(* memory of its module, whose references the kernel counts: one of        *)
(* cdev_init, which cdev_del gives back, and one of every open file.  The  *)
(* kernel is external; it does not unload a module whose file is open, but *)
(* it does unload leddevice.                                               *)
(***************************************************************************)
EXTENDS Naturals

CONSTANTS
  OnBus,      \* the drivers that are probed: leddriver
  Direct,     \* the drivers whose init makes the device: chardev
  MaxFiles,   \* bound on the open files of a device
  MaxRefs     \* bound on the references that are counted

Drivers == OnBus \cup Direct

ASSUME CharAssumption == OnBus \cap Direct = {} /\ MaxFiles \in Nat /\ MaxRefs \in Nat \ {0}

VARIABLES
  loaded,     \* drivers whose module is in
  devices,    \* drivers whose platform device is registered
  bound,      \* drivers that are bound to their device
  walk,       \* per driver: the call of init, probe, remove or exit it is at
  gets,       \* per driver: what it holds
  leaves,     \* per driver: what is unregistered when its remove is over
  refs,       \* per driver: the references of its cdev
  files,      \* per driver: its open files
  reused,     \* history: drivers whose cdev was initialized again under an open file
  early       \* history: drivers whose file was opened before init or probe was over

charVars == <<loaded, devices, bound, walk, gets, leaves, refs, files, reused, early>>

\* The calls of chardev_init and of driver_probe, with the labels of a failure.
DeviceLabel == "FAIL_DEVICE"

Makes ==
  [alloc_chrdev_region |-> [next |-> "cdev_add",      what |-> "devid",  else |-> "over"],
   cdev_add            |-> [next |-> "class_create",  what |-> "cdev",   else |-> "FAIL_CDEV"],
   class_create        |-> [next |-> "device_create", what |-> "class",  else |-> "FAIL_CLASS"],
   device_create       |-> [next |-> "made",          what |-> "device", else |-> DeviceLabel]]

\* The labels, and the calls of chardev_exit and of driver_remove.
Undoes ==
  [FAIL_DEVICE    |-> [next |-> "FAIL_CLASS",     what |-> "class"],
   FAIL_CLASS     |-> [next |-> "FAIL_CDEV",      what |-> "cdev"],
   FAIL_CDEV      |-> [next |-> "over",           what |-> "devid"],
   cdev_del       |-> [next |-> "unregister",     what |-> "cdev"],
   unregister     |-> [next |-> "device_destroy", what |-> "devid"],
   device_destroy |-> [next |-> "class_destroy",  what |-> "device"],
   class_destroy  |-> [next |-> "over",           what |-> "class"]]

CharInit ==
  /\ loaded = {} /\ devices = {} /\ bound = {} /\ reused = {} /\ early = {}
  /\ walk = [d \in Drivers |-> "rest"] /\ gets = [d \in Drivers |-> {}]
  /\ leaves = [d \in Drivers |-> "nothing"]
  /\ refs = [d \in Drivers |-> 0] /\ files = [d \in Drivers |-> 0]

Goto(d, where) == walk' = [walk EXCEPT ![d] = where]

-----------------------------------------------------------------------------
(* The modules                                                             *)

\* chardev_init, or platform_driver_register, which probes when the device is there.
LoadDriver(d) ==
  /\ d \notin loaded /\ walk[d] = "rest" /\ files[d] = 0
  /\ loaded' = loaded \cup {d}
  /\ IF d \in Direct \/ d \in devices THEN Goto(d, "alloc_chrdev_region") ELSE UNCHANGED walk
  /\ UNCHANGED <<devices, bound, gets, leaves, refs, files, reused, early>>

\* platform_device_register, which probes when the driver is there.
LoadDevice(d) ==
  /\ d \in OnBus \ devices /\ walk[d] = "rest"
  /\ devices' = devices \cup {d}
  /\ IF d \in loaded THEN Goto(d, "alloc_chrdev_region") ELSE UNCHANGED walk
  /\ UNCHANGED <<loaded, bound, gets, leaves, refs, files, reused, early>>

\* A driver that is bound is removed before it, or its device, goes.
Remove(d, what) ==
  /\ walk[d] = "rest"
  /\ IF d \in bound THEN Goto(d, "cdev_del") ELSE Goto(d, "over")
  /\ leaves' = [leaves EXCEPT ![d] = what] /\ bound' = bound \ {d}
  /\ UNCHANGED <<loaded, devices, gets, refs, files, reused, early>>

\* The cdev and its operations name their module as owner, which stays while a file is
\* open.
MayGo(d) == files[d] = 0

UnloadDriver(d) == d \in loaded /\ MayGo(d) /\ Remove(d, "driver")
UnloadDevice(d) == d \in devices /\ Remove(d, "device")

-----------------------------------------------------------------------------
(* init and probe, exit and remove                                         *)

\* cdev_init is called before cdev_add and makes the references one, whatever they were.
Make(d) ==
  /\ walk[d] \in DOMAIN Makes
  /\ LET call == Makes[walk[d]]
     IN  \/ Goto(d, call.next) /\ gets' = [gets EXCEPT ![d] = @ \cup {call.what}]
         \/ Goto(d, call.else) /\ UNCHANGED gets
  /\ IF walk[d] = "cdev_add"
       THEN /\ refs' = [refs EXCEPT ![d] = 1]
            /\ reused' = IF files[d] > 0 THEN reused \cup {d} ELSE reused
       ELSE UNCHANGED <<refs, reused>>
  /\ UNCHANGED <<loaded, devices, bound, leaves, files, early>>

Made(d) ==
  /\ walk[d] = "made" /\ Goto(d, "rest")
  /\ bound' = bound \cup {d}
  /\ UNCHANGED <<loaded, devices, gets, leaves, refs, files, reused, early>>

\* Which call gives back the reference of cdev_init.  A slip: the cdev is deleted once
\* more with the device.
PutsTwice(call) == call.what \in {"cdev", "device"}
Puts(call) == call.what = "cdev"

GiveUp(d) ==
  /\ walk[d] \in DOMAIN Undoes
  /\ LET call == Undoes[walk[d]]
     IN  /\ Goto(d, call.next)
         /\ gets' = [gets EXCEPT ![d] = @ \ {call.what}]
         /\ refs' = IF Puts(call) /\ refs[d] > 0 THEN [refs EXCEPT ![d] = @ - 1] ELSE refs
  /\ UNCHANGED <<loaded, devices, bound, leaves, files, reused, early>>

\* init or remove is over: a module whose init failed goes, a driver whose probe failed
\* stays registered.
Over(d) ==
  /\ walk[d] = "over" /\ Goto(d, "rest")
  /\ loaded' = IF leaves[d] = "driver" \/ (leaves[d] = "nothing" /\ d \in Direct)
                 THEN loaded \ {d} ELSE loaded
  /\ devices' = IF leaves[d] = "device" THEN devices \ {d} ELSE devices
  /\ leaves' = [leaves EXCEPT ![d] = "nothing"]
  /\ UNCHANGED <<bound, gets, refs, files, reused, early>>

-----------------------------------------------------------------------------
(* Programs                                                                *)

OpenChar(d) ==
  /\ "cdev" \in gets[d] /\ leaves[d] # "driver" /\ files[d] < MaxFiles
  /\ 0 < refs[d] /\ refs[d] < MaxRefs
  /\ files' = [files EXCEPT ![d] = @ + 1] /\ refs' = [refs EXCEPT ![d] = @ + 1]
  /\ early' = IF d \in bound THEN early ELSE early \cup {d}
  /\ UNCHANGED <<loaded, devices, bound, walk, gets, leaves, reused>>

CloseChar(d) ==
  /\ files[d] > 0
  /\ files' = [files EXCEPT ![d] = @ - 1]
  /\ refs' = IF refs[d] > 0 THEN [refs EXCEPT ![d] = @ - 1] ELSE refs
  /\ UNCHANGED <<loaded, devices, bound, walk, gets, leaves, reused, early>>

CharNext ==
  \E d \in Drivers :
    \/ LoadDriver(d) \/ LoadDevice(d) \/ UnloadDriver(d) \/ UnloadDevice(d)
    \/ Make(d) \/ Made(d) \/ GiveUp(d) \/ Over(d)
    \/ OpenChar(d) \/ CloseChar(d)

CharSpec == CharInit /\ [][CharNext]_charVars

-----------------------------------------------------------------------------
\* The ranges; a driver that is bound has made everything and one that rests unbound has
\* nothing, in every order of loading and unloading and after every failure.
CharTypeOK ==
  /\ loaded \subseteq Drivers /\ devices \subseteq OnBus /\ bound \subseteq loaded
  /\ walk \in [Drivers -> DOMAIN Makes \cup DOMAIN Undoes \cup {"rest", "made", "over"}]
  /\ \A d \in Drivers :
       /\ refs[d] \in 0 .. MaxRefs /\ files[d] \in 0 .. MaxFiles
       /\ walk[d] = "rest" =>
            gets[d] = IF d \in bound THEN {"devid", "cdev", "class", "device"} ELSE {}

\* The references of a cdev are those of its registration and of the open files, and the
\* files keep theirs when the device goes under them (a failed cdev_add leaves one too
\* many); but not when it comes back, and the cdev of an open file is initialized a
\* second time.
RefsAreHeld ==
  \A d \in Drivers \ reused :
    walk[d] = "rest" =>
      IF d \in bound THEN refs[d] = files[d] + 1 ELSE refs[d] >= files[d]

\* The memory of a driver's module goes only when no file leads to it, unless the file was
\* opened between cdev_add and a later failure of init.
NoFileOfTheGone == \A d \in Drivers \ (loaded \cup early) : files[d] = 0

\* A file that was opened finds its cdev and the code behind it, however the modules come
\* and go, but for the two cases named.
FilesHold == RefsAreHeld /\ NoFileOfTheGone

-----------------------------------------------------------------------------
(* The inductive invariant behind FilesHold (DriversProofs)                *)

\* Where init, probe or a label is that has the cdev registered.
WithCdev == {"class_create", "device_create", "made", "FAIL_DEVICE", "FAIL_CLASS", "cdev_del"}

\* What driver d holds at each call; only a driver at rest is bound, and only one that is
\* loaded and has its device is made.
HoldsInv(d) ==
  /\ walk[d] = "rest" =>
       gets[d] = IF d \in bound THEN {"devid", "cdev", "class", "device"} ELSE {}
  /\ walk[d] \in {"alloc_chrdev_region", "over"} => gets[d] = {}
  /\ walk[d] \in {"cdev_add", "FAIL_CDEV"} => gets[d] = {"devid"}
  /\ walk[d] \in {"class_create", "FAIL_CLASS"} => gets[d] = {"devid", "cdev"}
  /\ walk[d] \in {"device_create", "FAIL_DEVICE"} => gets[d] = {"devid", "cdev", "class"}
  /\ walk[d] \in {"made", "cdev_del"} => gets[d] = {"devid", "cdev", "class", "device"}
  /\ walk[d] = "unregister" => gets[d] = {"devid", "class", "device"}
  /\ walk[d] = "device_destroy" => gets[d] = {"class", "device"}
  /\ walk[d] = "class_destroy" => gets[d] = {"class"}
BoundInv(d) ==
  /\ d \in bound => walk[d] = "rest"
  /\ d \in bound \/ walk[d] \in DOMAIN Makes \cup {"made"} =>
       d \in loaded /\ (d \in OnBus => d \in devices)

\* The references of a registered cdev are one more than the open files, and of any other
\* at least as many.
RefsInv(d) ==
  /\ refs[d] \in 0 .. MaxRefs /\ files[d] \in 0 .. MaxFiles
  /\ d \notin reused => refs[d] >= files[d]
  /\ d \notin reused /\ (d \in bound \/ walk[d] \in WithCdev) => refs[d] = files[d] + 1

\* A module that is being unloaded has no open file, nor has one whose init goes on but for
\* the files opened before it is over.
FilesInv(d) ==
  /\ leaves[d] = "driver" => files[d] = 0
  /\ d \in Direct /\ d \notin early /\ walk[d] # "rest" => files[d] = 0
  /\ d \notin loaded \cup early => files[d] = 0

DriverInv(d) == HoldsInv(d) /\ BoundInv(d) /\ RefsInv(d) /\ FilesInv(d)

CharRanges ==
  /\ loaded \subseteq Drivers /\ devices \subseteq OnBus /\ bound \subseteq Drivers
  /\ walk \in [Drivers -> DOMAIN Makes \cup DOMAIN Undoes \cup {"rest", "made", "over"}]
  /\ DOMAIN gets = Drivers /\ DOMAIN leaves = Drivers
  /\ DOMAIN refs = Drivers /\ DOMAIN files = Drivers

CharInv == CharRanges /\ \A d \in Drivers : DriverInv(d)
=============================================================================
