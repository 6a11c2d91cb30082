----------------------------- MODULE MCDrivers ------------------------------
(* The kernel modules, and the camera program, side by side: a behaviour follows one of  *)
(* them, and the others stay as they are.                                                *)
EXTENDS KeyDriver, TaskletDriver, TimerDriver, CharDrivers, Camera

CONSTANTS prog1, prog2, leddriver, chardev

VARIABLE followed

mcVars == <<followed, vars, taskletVars, timerDriverVars, charVars, camVars>>

Follow(part, A, others) == followed = part /\ A /\ UNCHANGED <<followed, others>>
KeyOnly(A) == Follow("key", A, <<taskletVars, timerDriverVars, charVars, camVars>>)
TaskletOnly(A) == Follow("tasklet", A, <<vars, timerDriverVars, charVars, camVars>>)
TimerOnly(A) == Follow("timer", A, <<vars, taskletVars, charVars, camVars>>)
CharOnly(A) == Follow("char", A, <<vars, taskletVars, timerDriverVars, camVars>>)
CamOnly(A) == Follow("camera", A, <<vars, taskletVars, timerDriverVars, charVars>>)

MCInit ==
  /\ Init /\ TaskletInit /\ TimerInit /\ CharInit /\ CamInit
  /\ followed \in {"key", "tasklet", "timer", "char", "camera"}

MCNext ==
  \/ KeyOnly(Next) \/ TaskletOnly(TaskletNext) \/ TimerOnly(TimerNext) \/ CharOnly(CharNext)
  \/ CamOnly(CamNext)

\* The fairness of each of them.
MCFairness ==
  /\ WF_mcVars(KeyOnly(KeyIrqHandler))
  /\ WF_mcVars(KeyOnly(TimerFires)) /\ WF_mcVars(KeyOnly(TimerReturns))
  /\ WF_mcVars(TaskletOnly(KernelStep))
  /\ WF_mcVars(TimerOnly(FunctionStep)) /\ WF_mcVars(TimerOnly(TickPasses))
  /\ \A prog \in Programs : WF_mcVars(TimerOnly(Serve(prog)))
  /\ WF_mcVars(CamOnly(Main)) /\ WF_mcVars(CamOnly(VideoCapture))

MCSpec == MCInit /\ [][MCNext]_mcVars /\ MCFairness

\* The state of each part has its type.
TypesOK == TypeOK /\ TaskletTypeOK /\ TimerTypeOK /\ CharTypeOK /\ CamTypeOK

\* The last position of the key is seen, by key.c and by tasklet.c, when the module stays:
\* no edge is lost that meets the interrupt's other half running.
KeyIsSeen == LastEdgeSeen /\ RestIsSeen
=============================================================================
