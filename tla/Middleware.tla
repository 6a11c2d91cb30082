----------------------------- MODULE Middleware -----------------------------
(***************************************************************************)
(* The middleware of cvimpi/include/utils/middleware_utils.c:              *)
(* SAMPLE_TDL_Init_WM, which starts the camera's chain VI - VPSS - VENC -  *)
(* RTSP stage by stage, its error labels, and SAMPLE_TDL_Destroy_MW.  A    *)
(* vendor call succeeds or fails; what a failing one leaves behind is what *)
(* the vendor's sample code (3rdparty/middleware) leaves.  The settings    *)
(* (sizes, pools, rates) have no behaviour here.  Who starts and destroys  *)
(* the middleware, and what follows a failure, is RobotProgram and Camera. *)
(***************************************************************************)
EXTENDS Naturals, FiniteSets, Sequences

VARIABLES
  mw,        \* where the middleware is: a call, a label, or idle, ready, failed, down
  has,       \* what it has got from the vendor's libraries
  twice,     \* what it has given back without having it
  begun      \* Init_WM succeeded

mwVars == <<mw, has, twice, begun>>

MwInit == mw = "idle" /\ has = {} /\ twice = {} /\ begun = FALSE

\* The calls of SAMPLE_TDL_Init_WM: what follows, what a success gets (one of several
\* outcomes), what a failure has got nevertheless, and the label to go to then.
\* VPSS_Init fails before or after it has created the group, VENC_Start before or after
\* it has created the channel, and nobody looks at the result of CreateSession.
InitCalls ==
  [SYS_Init     |-> [next |-> "VI_INIT",      gets |-> {{"sys"}},  leaves |-> {{}}, else |-> "failed"],
   VI_INIT      |-> [next |-> "VPSS_Init",    gets |-> {{"vi"}},   leaves |-> {{}}, else |-> "PLAT_ERR_Exit"],
   VPSS_Init    |-> [next |-> "VPSS_Start",   gets |-> {{"group"}},
                     leaves |-> {{}, {"group"}},                                    else |-> "vpss_start_error"],
   VPSS_Start   |-> [next |-> "VI_Bind_VPSS", gets |-> {{}},       leaves |-> {{}}, else |-> "vpss_start_error"],
   VI_Bind_VPSS |-> [next |-> "AttachVbPool", gets |-> {{"bind"}}, leaves |-> {{}}, else |-> "vpss_start_error"],
   AttachVbPool |-> [next |-> "VENC_Start",   gets |-> {{}},       leaves |-> {{}}, else |-> "vpss_start_error"],
   VENC_Start   |-> [next |-> "RTSP_Create",  gets |-> {{"venc"}},
                     leaves |-> {{}, {"venc"}},                                     else |-> "vpss_start_error"],
   RTSP_Create  |-> [next |-> "RTSP_Start",   gets |-> {{"rtsp"}, {"rtsp", "session"}},
                     leaves |-> {{}},                                               else |-> "rtsp_create_error"],
   RTSP_Start   |-> [next |-> "ready",        gets |-> {{}},       leaves |-> {{}}, else |-> "rts_start_error"]]

\* The steps that give back: the labels of Init_WM, each with what it falls through to
\* (venc_start_error is vpss_start_error), the error exit of SAMPLE_PLAT_VI_INIT, and
\* the calls of Destroy_MW.
UndoSteps ==
  [rts_start_error   |-> [what |-> {"session", "rtsp"}, next |-> "rtsp_create_error"],
   rtsp_create_error |-> [what |-> {"venc"},            next |-> "vpss_start_error"],
   vpss_start_error  |-> [what |-> {"vi"},              next |-> "vi_start_error"],
   PLAT_ERR_Exit     |-> [what |-> {"sys"},             next |-> "vi_start_error"],
   vi_start_error    |-> [what |-> {"sys"},             next |-> "failed"],
   RTSP_Destroy      |-> [what |-> {"session", "rtsp"}, next |-> "VENC_Stop"],
   VENC_Stop         |-> [what |-> {"venc"},            next |-> "DestroyVi"],
   DestroyVi         |-> [what |-> {"vi"},              next |-> "VPSS_Stop"],
   VPSS_Stop         |-> [what |-> {"group"},           next |-> "SYS_Exit"],
   SYS_Exit          |-> [what |-> {"sys"},             next |-> "down"]]

\* A slip: a return before vi_start_error.
UndoStepsToVi == [UndoSteps EXCEPT !.vpss_start_error.next = "failed"]
\* A slip: the loop of Stop_VPSS does not count its groups.
UndoStepsForever == [UndoSteps EXCEPT !.VPSS_Stop.next = "VPSS_Stop"]
Undo == UndoSteps

-----------------------------------------------------------------------------
\* The call with the settings; the sensor or the number of pools may be refused.
InitBegins ==
  /\ mw = "idle" /\ mw' \in {"SYS_Init", "failed"}
  /\ UNCHANGED <<has, twice, begun>>

InitCall ==
  /\ mw \in DOMAIN InitCalls
  /\ \/ /\ mw' = InitCalls[mw].next
        /\ \E g \in InitCalls[mw].gets : has' = has \cup g
     \/ /\ mw' = InitCalls[mw].else
        /\ \E l \in InitCalls[mw].leaves : has' = has \cup l
  /\ begun' = (mw' = "ready")
  /\ UNCHANGED twice

\* What DestroyGrp, StopGrp or DisableChn refuse stays, and Stop_VPSS has no result.
MayStay == IF mw = "VPSS_Stop" THEN {{}, {"group"}} ELSE {{}}

UndoStep ==
  /\ mw \in DOMAIN Undo
  /\ mw' = Undo[mw].next
  /\ \E stays \in MayStay : has' = has \ (Undo[mw].what \ stays)
  /\ twice' = twice \cup (Undo[mw].what \ has)
  /\ UNCHANGED begun

\* SAMPLE_TDL_Destroy_MW is called, whatever became of Init_WM.
DestroyBegins ==
  /\ mw \in {"ready", "failed"} /\ mw' = "RTSP_Destroy"
  /\ UNCHANGED <<has, twice, begun>>

MwNext == InitBegins \/ InitCall \/ UndoStep \/ DestroyBegins
MwSpec == MwInit /\ [][MwNext]_mwVars

-----------------------------------------------------------------------------
Resources == {"sys", "vi", "group", "bind", "venc", "rtsp", "session"}

MwTypeOK ==
  /\ mw \in {"idle", "ready", "failed", "down"} \cup DOMAIN InitCalls \cup DOMAIN UndoSteps
  /\ has \subseteq Resources /\ twice \subseteq Resources /\ begun \in BOOLEAN

\* Whatever call of Init_WM fails, and however the middleware is destroyed, only what no
\* step gives back remains: the binding of VI and VPSS, a VPSS group that was left
\* running, and the channel of a VENC_Start that failed half-way.
OnlyTheseRemain ==
  /\ mw = "failed" => has \subseteq {"group", "bind", "venc"}
  /\ mw = "down" => has \subseteq {"group", "bind"}

\* Each stage stands on the one before it at every point of Init_WM, of its labels and
\* of Destroy_MW: nothing is given back while what was started upon it is still there,
\* except the group that failures leave.
StandsOn ==
  /\ "session" \in has => "rtsp" \in has
  /\ "rtsp" \in has => {"venc", "vi", "group", "bind", "sys"} \subseteq has
  /\ "vi" \in has => "sys" \in has
  /\ "bind" \in has /\ mw \in DOMAIN InitCalls \cup {"ready"} => {"vi", "group"} \subseteq has

\* A middleware that came up is given back once.  One that did not has its system given
\* back a second time when VI_INIT had failed, and an RTSP session that was never made.
GivenBackOnce ==
  /\ begun => twice \subseteq {"session"}
  /\ mw = "failed" => twice \subseteq {"sys", "session"} /\ ("sys" \in twice => has = {})

\* However Init_WM fails and whoever calls Destroy_MW, the stages go as they came: none
\* loses its base, none goes twice but those named, and only what no step gives back stays.
StagesGoAsTheyCame == OnlyTheseRemain /\ StandsOn /\ GivenBackOnce

-----------------------------------------------------------------------------
(* The inductive invariant behind the three (MiddlewareProofs): what       *)
(* there is at each call and at each label                                 *)

Labels == {"PLAT_ERR_Exit", "rts_start_error", "rtsp_create_error", "vpss_start_error", "vi_start_error"}
Destroying == {"RTSP_Destroy", "VENC_Stop", "DestroyVi", "VPSS_Stop", "SYS_Exit"}
Base == {"sys", "vi", "group", "bind"}
Encoding == {"sys", "vi", "group", "bind", "venc"}
\* Everything but the session, of which nobody knows.
Running == {"sys", "vi", "group", "bind", "venc", "rtsp"}
Left == {"group", "bind", "venc"}

InitHas ==
  /\ mw \in {"idle", "SYS_Init"} => has = {}
  /\ mw \in {"VI_INIT", "PLAT_ERR_Exit"} => has = {"sys"}
  /\ mw = "VPSS_Init" => has = {"sys", "vi"}
  /\ mw \in {"VPSS_Start", "VI_Bind_VPSS"} => has = {"sys", "vi", "group"}
  /\ mw \in {"AttachVbPool", "VENC_Start"} => has = Base
  /\ mw \in {"RTSP_Create", "rtsp_create_error"} => has = Encoding
  /\ mw \in {"RTSP_Start", "rts_start_error", "ready"} => Running \subseteq has
  /\ mw = "vpss_start_error" => {"sys", "vi"} \subseteq has /\ has \subseteq Encoding
  /\ mw = "vi_start_error" => has \subseteq {"sys"} \cup Left /\ ("sys" \notin has => has = {})
  /\ mw = "failed" => has \subseteq Left

DestroyHas ==
  /\ mw = "RTSP_Destroy" => IF begun THEN Running \subseteq has ELSE has \subseteq Left
  /\ mw = "VENC_Stop" => IF begun THEN has = Encoding ELSE has \subseteq Left
  /\ mw = "DestroyVi" => IF begun THEN has = Base ELSE has \subseteq {"group", "bind"}
  /\ mw = "VPSS_Stop" => IF begun THEN has = {"sys", "group", "bind"} ELSE has \subseteq {"group", "bind"}
  /\ mw = "SYS_Exit" => has \subseteq {"sys", "group", "bind"} /\ (begun => "sys" \in has)
  /\ mw = "down" => has \subseteq {"group", "bind"}

TwiceInv ==
  /\ mw = "ready" => begun
  /\ begun => mw \in {"ready", "down"} \cup Destroying
  /\ begun \/ mw \in DOMAIN InitCalls \cup Labels \cup {"idle"} => twice \subseteq {"session"}
  /\ mw = "failed" => twice \subseteq {"sys", "session"} /\ ("sys" \in twice => has = {})

MwInv == MwTypeOK /\ InitHas /\ DestroyHas /\ TwiceInv
=============================================================================
