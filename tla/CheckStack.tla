---------------------------- MODULE CheckStack -----------------------------
(***************************************************************************)
(* freertos/duo_utils/duo_check.c and the check_task of Robot/comm_main.c: *)
(* before the small core uses its pins, it waits until the big core has    *)
(* switched their multiplexers.  The registers to look at and the values   *)
(* expected of them are on a stack.  The big core is external: it changes  *)
(* the registers at any time.                                              *)
(***************************************************************************)
EXTENDS Naturals, Sequences

CONSTANTS
  Wanted,     \* the calls <<reg, value>> of check_system_push, in order
  PinValues,  \* what a register may hold
  StackSize,  \* CHECK_STACK_SIZE
  WaitTime,   \* 300
  MaxSwitch   \* bound on the changes the big core makes

\* The values of a uint8_t, and the number of those of a uint16_t.
Bytes == 0 .. 255
Counts == 256 * 256

ASSUME CheckAssumption ==
  /\ PinValues \subseteq Nat /\ Wanted \in Seq(Nat \X (PinValues \cap Bytes))
  /\ {StackSize, WaitTime, MaxSwitch} \subseteq Nat /\ WaitTime > 0 /\ WaitTime < Counts

VARIABLES
  pin,       \* the registers
  switches,  \* changes so far
  stack,     \* stCS_Config up to its pointer
  look,      \* i of check_system_run
  waittime,  \* of check_register
  at,        \* where check_task is
  met,       \* history: registers seen with their value in this run of check_system_run
  started    \* how many oled_tasks check_task has created

checkVars == <<pin, switches, stack, look, waittime, at, met, started>>
runVars == <<look, waittime, met>>

Pins == {Wanted[i][1] : i \in DOMAIN Wanted}

CheckInit ==
  /\ pin = [r \in Pins |-> CHOOSE v \in PinValues : \A u \in PinValues : v <= u]
  /\ switches = 0
  /\ stack = <<>> /\ look = 1 /\ waittime = WaitTime /\ at = "push"
  /\ met = {} /\ started = 0

\* The big core switches a pin.
Switch ==
  /\ switches < MaxSwitch /\ switches' = switches + 1
  /\ \E r \in Pins, v \in PinValues : pin[r] # v /\ pin' = [pin EXCEPT ![r] = v]
  /\ UNCHANGED <<stack, runVars, at, started>>

HasRoom == Len(stack) < StackSize

\* check_system_push, whose answer check_task does not look at; a value keeps eight bits.
Push ==
  /\ at = "push" /\ Len(stack) < Len(Wanted)
  /\ HasRoom
  /\ LET w == Wanted[Len(stack) + 1] IN stack' = Append(stack, <<w[1], w[2] % 256>>)
  /\ UNCHANGED <<pin, switches, runVars, at, started>>

\* The count check_register starts with.
FreshWait == WaitTime

\* check_task does not give up with check_system_run.
Delayed == at = "delay"

\* check_task turns to check_system_run, at first and after every vTaskDelay.
Run ==
  /\ \/ at = "push" /\ (Len(stack) = Len(Wanted) \/ ~HasRoom)
     \/ Delayed
  /\ at' = "run" /\ look' = 1 /\ met' = {}
  /\ waittime' = FreshWait
  /\ UNCHANGED <<pin, switches, stack, started>>

\* A slip: the loop ends one entry early.
LastButOne == Len(stack) - 1
LastEntry == Len(stack)

\* check_register finds the value, and check_system_run goes on to the next entry.
Right ==
  /\ at = "run" /\ look <= LastEntry
  /\ pin[stack[look][1]] = stack[look][2]
  /\ met' = met \cup {stack[look][1]}
  /\ look' = look + 1 /\ waittime' = FreshWait
  /\ UNCHANGED <<pin, switches, stack, at, started>>

\* It does not: after WaitTime attempts check_system_run gives up.
Wrong ==
  /\ at = "run" /\ look <= LastEntry
  /\ pin[stack[look][1]] # stack[look][2]
  /\ waittime' = (waittime + Counts - 1) % Counts
  /\ at' = IF waittime' = 0 THEN "delay" ELSE "run"
  /\ UNCHANGED <<pin, switches, stack, look, met, started>>

\* check_system_destroy, oled_init, and the oled_task takes over.
Ready ==
  /\ at = "run" /\ look > LastEntry
  /\ at' = "deleted" /\ started' = started + 1 /\ stack' = <<>>
  /\ UNCHANGED <<pin, switches, runVars>>

CheckStep == Push \/ Run \/ Right \/ Wrong \/ Ready
CheckNext == Switch \/ CheckStep
CheckSpec == CheckInit /\ [][CheckNext]_checkVars

\* check_task is scheduled; the big core need not switch anything.
CheckFairSpec == CheckSpec /\ WF_checkVars(CheckStep)

-----------------------------------------------------------------------------
\* The ranges; the stack holds what was pushed, and every wait starts with its full time.
CheckTypeOK ==
  /\ pin \in [Pins -> PinValues] /\ switches \in 0 .. MaxSwitch
  /\ Len(stack) <= StackSize /\ \A i \in DOMAIN stack : stack[i] = Wanted[i]
  /\ look \in 1 .. Len(Wanted) + 1 /\ waittime \in 0 .. WaitTime
  /\ at \in {"push", "run", "delay", "deleted"} /\ met \subseteq Pins /\ started \in 0 .. 1

\* The pins are used only when each of them was seen right in one and the same run of
\* check_system_run, however the big core switches them meanwhile.
SeenBefore == started > 0 => met = Pins

\* SeenBefore at every moment; and when the big core has switched the pins and leaves them,
\* they come into use: a run that has given up is followed by another one.
UsedWhenReady ==
  /\ [](started > 0 => met = Pins)
  /\ <>[](\A i \in DOMAIN Wanted : pin[Wanted[i][1]] = Wanted[i][2]) => <>(started > 0)

-----------------------------------------------------------------------------
(* The inductive invariant behind SeenBefore (SmallCoreProofs)             *)

\* What is on the stack is what was wanted, in order.
StackInv ==
  /\ stack \in Seq(Nat \X PinValues) /\ Len(stack) <= Len(Wanted) /\ Len(stack) <= StackSize
  /\ \A i \in DOMAIN stack : stack[i] = Wanted[i]

\* check_register looks with attempts left, and the oled_task is the end of check_task.
StageInv ==
  /\ pin \in [Pins -> PinValues] /\ switches \in 0 .. MaxSwitch
  /\ look \in 1 .. Len(Wanted) + 1 /\ waittime \in 0 .. WaitTime /\ (at = "run" => waittime > 0)
  /\ at \in {"push", "run", "delay", "deleted"}
  /\ started \in 0 .. 1 /\ (started > 0 => at = "deleted")

\* check_system_run looks only when all is pushed, and has seen the entries before the one
\* it looks at right.
Entries(k) == {stack[i][1] : i \in 1 .. k}
SeenInv ==
  /\ met \subseteq Pins
  /\ at \in {"run", "delay"} =>
       /\ Len(Wanted) <= StackSize => Len(stack) = Len(Wanted)
       /\ look <= Len(stack) + 1
       /\ met = Entries(look - 1)
  /\ at = "deleted" /\ Len(Wanted) <= StackSize => met = Pins

CheckInv == StackInv /\ StageInv /\ SeenInv
=============================================================================
