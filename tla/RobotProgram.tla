---------------------------- MODULE RobotProgram ----------------------------
(***************************************************************************)
(* RobotTasks with the middleware in it: what is one step of video_capture *)
(* there, middleware_init and SAMPLE_TDL_Destroy_MW, is here the calls of  *)
(* Middleware, one by one, between which the other tasks run, the signal   *)
(* arrives and the process may crash.  A middleware_init that fails is the *)
(* end of the task: it returns and destroys nothing.                       *)
(***************************************************************************)
EXTENDS RobotTasks, Middleware

progVars == <<vars, mwVars>>

ProgInit == Init /\ MwInit

\* middleware_init at work, inside video_capture's first statement.
Initializes == video = "middleware_init" /\ (InitBegins \/ InitCall \/ UndoStep)

\* SAMPLE_TDL_Destroy_MW at work, inside video_capture's last.
Destroys == video = "FREE_MIDDLEWARE" /\ (DestroyBegins \/ UndoStep)

MiddlewareWorks == alive /\ (Initializes \/ Destroys) /\ UNCHANGED vars

\* A slip: the result of middleware_init is not looked at.
ReturnsAnyway == mw \in {"ready", "failed"} => video' = "CreateHandle2"
\* middleware_init returns: video_capture goes on if the middleware is ready and leaves
\* if it is not.
Returns ==
  /\ mw = "ready" => video' = "CreateHandle2"
  /\ mw = "failed" => video' = "done"

VideoGoesOn ==
  /\ video = "middleware_init" => mw \in {"ready", "failed"} /\ Returns
  /\ video = "FREE_MIDDLEWARE" => mw = "down"
  /\ Video

ProgVideo == VideoGoesOn /\ UNCHANGED mwVars

Others == Signal \/ Mailbox \/ (\E t \in loops : Leave(t)) \/ CreateMood \/ FetchFrame
ProgOthers == Others /\ UNCHANGED mwVars

ProgNext == MiddlewareWorks \/ ProgVideo \/ ProgOthers
ProgSpec == ProgInit /\ [][ProgNext]_progVars

\* As in RobotTasks: the tasks run and the vendor's calls return.
ProgFairness ==
  /\ WF_progVars(MiddlewareWorks) /\ WF_progVars(ProgVideo)
  /\ WF_progVars(Mailbox /\ UNCHANGED mwVars)
  /\ \A t \in {"get_activate_thread", "mood_sys_update"} : WF_progVars(Leave(t) /\ UNCHANGED mwVars)
ProgFairSpec == ProgSpec /\ ProgFairness

-----------------------------------------------------------------------------
\* video_capture makes its TDL handles, takes frames and gives them back only upon a
\* middleware that is wholly there; it gives everything back, and leaves, after it is down
\* or has failed to come up.
MiddlewareIsThere ==
  /\ video \in DOMAIN Setup \cup {"CreateImage", "loop", "GetChnFrame", "ScrFDFace", "FREE_FACE",
                                  "FREE_FRAME", "FREE_CVI_HANDLE", "FREE_CVI_SERVICE_HANDLE"}
       => mw = "ready" /\ Running \subseteq has
  /\ video = "done" => mw \in {"failed", "down"}

\* The composition implements the five tasks as RobotTasks describes them, with their
\* fairness.
ImplementsTasks == FairSpec

-----------------------------------------------------------------------------
(* The inductive invariant behind it (RobotProgramProofs)                  *)

Coming == {"idle", "ready", "failed"} \cup DOMAIN InitCalls \cup Labels

WhereInv ==
  /\ video = "middleware_init" => mw \in Coming
  /\ video = "FREE_MIDDLEWARE" => mw \in {"ready", "down"} \cup Destroying
  /\ video = "done" => mw \in {"failed", "down"}
  /\ video \notin {"middleware_init", "FREE_MIDDLEWARE", "done"} => mw = "ready"

ProgInv == MwInv /\ WhereInv
=============================================================================
