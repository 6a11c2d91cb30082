---------------------------- MODULE TimerDriver -----------------------------
(***************************************************************************)
(* drivers/timer/timer.c: a kernel timer whose function starts it again,   *)
(* and a device file whose ioctl stops it, starts it and sets its period.  *)
(* Programs that have the file open run ioctl side by side, and the timer  *)
(* function runs on another CPU.  Time is kept relative: a timer holds some  *)
(* ticks left, and so holds an expiry that was computed and not yet passed   *)
(* to mod_timer.  The kernel is external: it does not unload a module      *)
(* whose file is open, and a timer that is due runs before the next tick   *)
(* only if it does.                                                        *)
(***************************************************************************)
EXTENDS Naturals

CONSTANTS
  Programs,      \* that open the file
  Periods,       \* in ticks, that SET_PERIOD is given, or finds in value
  DefaultPeriod, \* msecs_to_jiffies(500)
  MaxIoctl       \* bound on the calls of ioctl

ASSUME TimerAssumption ==
  /\ Periods \subseteq Nat \ {0} /\ DefaultPeriod \in Periods /\ MaxIoctl \in Nat

VARIABLES
  at,         \* where timer_init or timer_exit is
  holds,      \* what the module holds
  tm,         \* the timer: without a function, not pending, pending
  left,       \* ticks until it is due
  period,
  open,       \* the programs that have the file open
  doing,      \* per program: the ioctl under way
  asked,      \* per program: ticks left of the expiry it computed
  fn,         \* where timer_function is
  fnAsked,    \* ticks left of the expiry it computed
  ioctls,     \* calls so far
  wanted,     \* history: the last mod_timer or del_timer of an ioctl started the timer
  quiet,      \* history: a CLOSE_CMD found timer_function not running, no start since
  raced       \* history: timer_exit found timer_function running

modVars == <<at, holds>>
tmVars == <<tm, left>>
userVars == <<open, doing, asked, ioctls>>
fnVars == <<fn, fnAsked>>
histVars == <<wanted, quiet, raced>>
timerDriverVars == <<modVars, tmVars, period, userVars, fnVars, histVars>>

\* What follows the creation of the device.
AfterDevice == "set_function"

Loading ==
  [alloc_chrdev_region |-> [next |-> "cdev_add",      gets |-> "devid",  else |-> "FAIL_DEVID"],
   cdev_add            |-> [next |-> "class_create",  gets |-> "cdev",   else |-> "FAIL_CDEV"],
   class_create        |-> [next |-> "device_create", gets |-> "class",  else |-> "FAIL_CLASS"],
   device_create       |-> [next |-> AfterDevice,     gets |-> "device", else |-> "FAIL_DEVICE"]]

Unloading ==
  [FAIL_DEVICE    |-> [next |-> "FAIL_CLASS",     what |-> "class"],
   FAIL_CLASS     |-> [next |-> "FAIL_CDEV",      what |-> "cdev"],
   FAIL_CDEV      |-> [next |-> "FAIL_DEVID",     what |-> "devid"],
   cdev_del       |-> [next |-> "unregister",     what |-> "cdev"],
   unregister     |-> [next |-> "device_destroy", what |-> "devid"],
   device_destroy |-> [next |-> "class_destroy",  what |-> "device"],
   class_destroy  |-> [next |-> "gone",           what |-> "class"]]

TimerInit ==
  /\ at = "alloc_chrdev_region" /\ holds = {}
  /\ tm = "unset" /\ left = 0 /\ period = DefaultPeriod
  /\ open = {} /\ doing = [p \in Programs |-> "none"] /\ asked = [p \in Programs |-> 0]
  /\ ioctls = 0
  /\ fn = "off" /\ fnAsked = 0
  /\ wanted = TRUE /\ quiet = FALSE /\ raced = FALSE

-----------------------------------------------------------------------------
(* timer_init and timer_exit                                               *)

TimerAcquire ==
  /\ at \in DOMAIN Loading
  /\ \/ at' = Loading[at].next /\ holds' = holds \cup {Loading[at].gets}
     \/ at' = Loading[at].else /\ UNCHANGED holds
  /\ UNCHANGED <<tmVars, period, userVars, fnVars, histVars>>

SetFunction ==
  /\ at = "set_function" /\ at' = "add_timer"
  /\ tm' = "idle" /\ left' = period
  /\ UNCHANGED <<holds, period, userVars, fnVars, histVars>>

AddTimer ==
  /\ at = "add_timer" /\ tm = "idle"
  /\ at' = "loaded" /\ tm' = "pending"
  /\ wanted' = TRUE /\ quiet' = FALSE
  /\ UNCHANGED <<holds, left, period, userVars, fnVars, raced>>

\* add_timer stops the kernel on a timer that is pending, mod_timer on one without a
\* function: the file can be opened before timer_init is over.
Oops ==
  /\ \/ at = "add_timer" /\ tm = "pending"
     \/ tm = "unset" /\ \E p \in Programs : doing[p] = "mod_timer"
  /\ at' = "oops"
  /\ UNCHANGED <<holds, tmVars, period, userVars, fnVars, histVars>>

\* del_timer takes the timer out and does not wait for its function.  A slip: the timer
\* stays in.
KeepTimer == tm
DelTimer == "idle"

TimerExit ==
  /\ at = "loaded" /\ open = {}
  /\ at' = "cdev_del"
  /\ tm' = DelTimer /\ raced' = (fn # "off")
  /\ UNCHANGED <<holds, left, period, userVars, fnVars, wanted, quiet>>

TimerDrop ==
  /\ at \in DOMAIN Unloading
  /\ at' = Unloading[at].next /\ holds' = holds \ {Unloading[at].what}
  /\ UNCHANGED <<tmVars, period, userVars, fnVars, histVars>>

-----------------------------------------------------------------------------
(* Programs                                                                *)

OpenFile(p) ==
  /\ p \notin open /\ "cdev" \in holds /\ at \notin DOMAIN Unloading
  /\ open' = open \cup {p}
  /\ UNCHANGED <<modVars, tmVars, period, doing, asked, ioctls, fnVars, histVars>>

CloseFile(p) ==
  /\ p \in open /\ doing[p] = "none"
  /\ open' = open \ {p}
  /\ UNCHANGED <<modVars, tmVars, period, doing, asked, ioctls, fnVars, histVars>>

Ioctl(p, cmd) ==
  /\ p \in open /\ doing[p] = "none" /\ ioctls < MaxIoctl
  /\ doing' = [doing EXCEPT ![p] = cmd] /\ ioctls' = ioctls + 1
  /\ UNCHANGED <<modVars, tmVars, period, open, asked, fnVars, histVars>>

\* SET_PERIOD.  copy_from_user answers how much it did not copy, which is never below
\* zero: a bad pointer sets whatever value holds.
TakePeriod(p) ==
  /\ doing[p] = "SET_PERIOD" /\ doing' = [doing EXCEPT ![p] = "OPEN_CMD"]
  /\ period' \in Periods
  /\ UNCHANGED <<modVars, tmVars, open, asked, ioctls, fnVars, histVars>>

\* OPEN_CMD, and the end of SET_PERIOD: the expiry is computed, and passed on.
ComputeExpiry(p) ==
  /\ doing[p] = "OPEN_CMD" /\ doing' = [doing EXCEPT ![p] = "mod_timer"]
  /\ asked' = [asked EXCEPT ![p] = period]
  /\ UNCHANGED <<modVars, tmVars, period, open, ioctls, fnVars, histVars>>

ModTimer(p) ==
  /\ doing[p] = "mod_timer" /\ tm # "unset"
  /\ doing' = [doing EXCEPT ![p] = "none"]
  /\ tm' = "pending" /\ left' = asked[p] /\ asked' = [asked EXCEPT ![p] = 0]
  /\ wanted' = TRUE /\ quiet' = FALSE
  /\ UNCHANGED <<modVars, period, open, ioctls, fnVars, raced>>

\* CLOSE_CMD
CloseTimer(p) ==
  /\ doing[p] = "CLOSE_CMD" /\ doing' = [doing EXCEPT ![p] = "none"]
  /\ tm' = IF tm = "unset" THEN tm ELSE DelTimer
  /\ wanted' = FALSE /\ quiet' = (fn = "off")
  /\ UNCHANGED <<modVars, left, period, open, asked, ioctls, fnVars, raced>>

-----------------------------------------------------------------------------
(* The timer                                                               *)

\* The timer is due, and timer_function starts.
FunctionStarts ==
  /\ tm = "pending" /\ left = 0 /\ fn = "off" /\ at # "gone"
  /\ tm' = "idle" /\ fn' = "started"
  /\ UNCHANGED <<modVars, left, period, userVars, fnAsked, histVars>>

\* The interval it asks for.
Interval == period

FunctionComputes ==
  /\ fn = "started" /\ fn' = "computed" /\ fnAsked' = Interval
  /\ UNCHANGED <<modVars, tmVars, period, userVars, histVars>>

\* Its mod_timer, and its return.
Again == "pending"

FunctionRestarts ==
  /\ fn = "computed" /\ fn' = "off" /\ fnAsked' = 0
  /\ tm' = Again /\ left' = fnAsked
  /\ UNCHANGED <<modVars, period, userVars, histVars>>

\* A tick; it waits for a timer that is due and can run.
Less(n) == IF n = 0 THEN 0 ELSE n - 1

TickPasses ==
  /\ ~(tm = "pending" /\ left = 0 /\ fn = "off")
  /\ tm = "pending" \/ fn = "computed" \/ \E p \in Programs : doing[p] = "mod_timer"
  /\ left' = Less(left) /\ fnAsked' = Less(fnAsked)
  /\ asked' = [p \in Programs |-> Less(asked[p])]
  /\ UNCHANGED <<modVars, tm, period, open, doing, ioctls, fn, histVars>>

-----------------------------------------------------------------------------
FunctionStep == FunctionStarts \/ FunctionComputes \/ FunctionRestarts
Serve(p) == TakePeriod(p) \/ ComputeExpiry(p) \/ ModTimer(p) \/ CloseTimer(p)

TimerNext ==
  /\ at # "oops"
  /\ \/ TimerAcquire \/ SetFunction \/ AddTimer \/ Oops \/ TimerExit \/ TimerDrop
     \/ \E p \in Programs :
          \/ OpenFile(p) \/ CloseFile(p) \/ Serve(p)
          \/ \E cmd \in {"OPEN_CMD", "CLOSE_CMD", "SET_PERIOD"} : Ioctl(p, cmd)
     \/ FunctionStep \/ TickPasses

TimerSpec == TimerInit /\ [][TimerNext]_timerDriverVars

\* Time passes, and the kernel runs what is due and the calls under way.
TimerFairSpec ==
  TimerSpec /\ WF_timerDriverVars(FunctionStep) /\ WF_timerDriverVars(TickPasses)
            /\ \A p \in Programs : WF_timerDriverVars(Serve(p))

-----------------------------------------------------------------------------
\* The ranges; a loaded module has set its timer up, and an ioctl runs on an open file.
TimerTypeOK ==
  /\ at \in DOMAIN Loading \cup DOMAIN Unloading
            \cup {"set_function", "add_timer", "loaded", "gone", "FAIL_DEVID", "oops"}
  /\ holds \subseteq {"devid", "cdev", "class", "device"} /\ (at = "loaded" => tm # "unset")
  /\ tm \in {"unset", "idle", "pending"} /\ period \in Periods
  /\ left \in Nat /\ \E q \in Periods : left <= q
  /\ open \subseteq Programs /\ ioctls \in 0 .. MaxIoctl
  /\ \A p \in Programs : doing[p] # "none" => p \in open
  /\ fn \in {"off", "started", "computed"} /\ {wanted, quiet, raced} \subseteq BOOLEAN

\* An unloaded module holds nothing, and neither its timer nor the timer's function is
\* left, unless the function was running when timer_exit took the timer out: del_timer
\* does not wait for it.
OnlyTheRaceRemains ==
  at = "gone" => holds = {} /\ (tm = "pending" \/ fn # "off" => raced)

\* CLOSE_CMD ends the timer until a program starts it again, unless it met the function
\* running, which then starts it once more.
StaysClosed == quiet => tm # "pending" /\ fn = "off"

\* The timer does as the programs ask.  It is gone, or closed, when they say so, but for
\* the race with its function; one that was started and not closed since keeps firing,
\* whatever the ioctls did to it and to its period before, and however they met its
\* function; and when no program calls any more it comes to keep the period set last,
\* although an expiry of an older one may reach mod_timer later.
TimerObeys ==
  /\ [](OnlyTheRaceRemains /\ StaysClosed)
  /\ <>[](at = "loaded" /\ wanted) => []<>(fn = "started")
  /\ <>[](at = "loaded") => <>[](tm = "pending" => left <= period)

-----------------------------------------------------------------------------
(* The inductive invariant behind OnlyTheRaceRemains (DriversProofs)       *)

Commands == {"OPEN_CMD", "CLOSE_CMD", "SET_PERIOD", "mod_timer"}

\* Ticks that a period set at some time had, or what of them is left.
Ticks == {n \in Nat : \E q \in Periods : n <= q}

\* An ioctl runs on an open file, and what it computed is a period or what is left of one.
CallsInv ==
  /\ doing \in [Programs -> Commands \cup {"none"}] /\ asked \in [Programs -> Ticks]
  /\ fnAsked \in Ticks

\* Behind timer_exit no file is open, and a timer or a function that is still there met it.
\* A file can be opened only while the cdev is registered.
BehindExit ==
  /\ at = "gone" => holds = {}
  /\ at = "class_destroy" => holds = {"class"}
  /\ at = "device_destroy" => holds = {"class", "device"}
  /\ at = "unregister" => holds = {"devid", "class", "device"}
  /\ at \in {"loaded", "cdev_del"} => holds = {"devid", "cdev", "class", "device"}
  /\ at \in {"set_function", "add_timer"} => holds = {"devid", "cdev", "class", "device"}
  /\ at = "device_create" => holds = {"devid", "cdev", "class"}
  /\ at = "class_create" => holds = {"devid", "cdev"}
  /\ at = "cdev_add" => holds = {"devid"}
  /\ at = "alloc_chrdev_region" => holds = {}
  /\ at \in {"cdev_del", "unregister", "device_destroy", "class_destroy", "gone"} =>
       open = {} /\ (tm = "pending" \/ fn # "off" => raced)

TimerDriverInv == TimerTypeOK /\ CallsInv /\ BehindExit /\ StaysClosed
=============================================================================
