--------------------------- MODULE MiddlewareProofs --------------------------
(***************************************************************************)
(* Proofs about Middleware and about Camera, the smaller of the programs   *)
(* upon it.  MwInv says at each call and label of the middleware what is   *)
(* there: it is inductive for every failure of every call.  CamInv says    *)
(* where main() of the camera program can be while its thread is where it  *)
(* is, and what the two hold there.                                        *)
(***************************************************************************)
EXTENDS Camera, FiniteSetTheorems, TLAPS

(* The middleware                                                          *)

\* The table of the calls, read as steps.
LEMMA CallSteps ==
  ASSUME InitCall
  PROVE  /\ UNCHANGED twice
         /\ begun' = (mw' = "ready")
         /\ \/ mw = "SYS_Init" /\ mw' = "VI_INIT" /\ has' = has \cup {"sys"}
            \/ mw = "SYS_Init" /\ mw' = "failed" /\ has' = has
            \/ mw = "VI_INIT" /\ mw' = "VPSS_Init" /\ has' = has \cup {"vi"}
            \/ mw = "VI_INIT" /\ mw' = "PLAT_ERR_Exit" /\ has' = has
            \/ mw = "VPSS_Init" /\ mw' = "VPSS_Start" /\ has' = has \cup {"group"}
            \/ mw = "VPSS_Init" /\ mw' = "vpss_start_error" /\ has' \in {has, has \cup {"group"}}
            \/ mw = "VPSS_Start" /\ mw' = "VI_Bind_VPSS" /\ has' = has
            \/ mw = "VPSS_Start" /\ mw' = "vpss_start_error" /\ has' = has
            \/ mw = "VI_Bind_VPSS" /\ mw' = "AttachVbPool" /\ has' = has \cup {"bind"}
            \/ mw = "VI_Bind_VPSS" /\ mw' = "vpss_start_error" /\ has' = has
            \/ mw = "AttachVbPool" /\ mw' = "VENC_Start" /\ has' = has
            \/ mw = "AttachVbPool" /\ mw' = "vpss_start_error" /\ has' = has
            \/ mw = "VENC_Start" /\ mw' = "RTSP_Create" /\ has' = has \cup {"venc"}
            \/ mw = "VENC_Start" /\ mw' = "vpss_start_error" /\ has' \in {has, has \cup {"venc"}}
            \/ mw = "RTSP_Create" /\ mw' = "RTSP_Start"
                 /\ has' \in {has \cup {"rtsp"}, has \cup {"rtsp", "session"}}
            \/ mw = "RTSP_Create" /\ mw' = "rtsp_create_error" /\ has' = has
            \/ mw = "RTSP_Start" /\ mw' = "ready" /\ has' = has
            \/ mw = "RTSP_Start" /\ mw' = "rts_start_error" /\ has' = has
<1> DEFINE Step(from, to, gets, leaves, label) ==
      /\ mw = from
      /\ \/ mw' = to /\ \E g \in gets : has' = has \cup g
         \/ mw' = label /\ \E l \in leaves : has' = has \cup l
<1>1. mw \in DOMAIN InitCalls
  BY DEF InitCall
<1>2. DOMAIN InitCalls = {"SYS_Init", "VI_INIT", "VPSS_Init", "VPSS_Start", "VI_Bind_VPSS",
                          "AttachVbPool", "VENC_Start", "RTSP_Create", "RTSP_Start"}
  BY DEF InitCalls
<1>3. CASE mw = "SYS_Init"
  <2>1. Step("SYS_Init", "VI_INIT", {{"sys"}}, {{}}, "failed")
    BY <1>3 DEF InitCall, InitCalls
  <2> QED BY <2>1 DEF InitCall
<1>4. CASE mw = "VI_INIT"
  <2>1. Step("VI_INIT", "VPSS_Init", {{"vi"}}, {{}}, "PLAT_ERR_Exit")
    BY <1>4 DEF InitCall, InitCalls
  <2> QED BY <2>1 DEF InitCall
<1>5. CASE mw = "VPSS_Init"
  <2>1. Step("VPSS_Init", "VPSS_Start", {{"group"}}, {{}, {"group"}}, "vpss_start_error")
    BY <1>5 DEF InitCall, InitCalls
  <2> QED BY <2>1 DEF InitCall
<1>6. CASE mw = "VPSS_Start"
  <2>1. Step("VPSS_Start", "VI_Bind_VPSS", {{}}, {{}}, "vpss_start_error")
    BY <1>6 DEF InitCall, InitCalls
  <2> QED BY <2>1 DEF InitCall
<1>7. CASE mw = "VI_Bind_VPSS"
  <2>1. Step("VI_Bind_VPSS", "AttachVbPool", {{"bind"}}, {{}}, "vpss_start_error")
    BY <1>7 DEF InitCall, InitCalls
  <2> QED BY <2>1 DEF InitCall
<1>8. CASE mw = "AttachVbPool"
  <2>1. Step("AttachVbPool", "VENC_Start", {{}}, {{}}, "vpss_start_error")
    BY <1>8 DEF InitCall, InitCalls
  <2> QED BY <2>1 DEF InitCall
<1>9. CASE mw = "VENC_Start"
  <2>1. Step("VENC_Start", "RTSP_Create", {{"venc"}}, {{}, {"venc"}}, "vpss_start_error")
    BY <1>9 DEF InitCall, InitCalls
  <2> QED BY <2>1 DEF InitCall
<1>10. CASE mw = "RTSP_Create"
  <2>1. Step("RTSP_Create", "RTSP_Start", {{"rtsp"}, {"rtsp", "session"}}, {{}}, "rtsp_create_error")
    BY <1>10 DEF InitCall, InitCalls
  <2> QED BY <2>1 DEF InitCall
<1>11. CASE mw = "RTSP_Start"
  <2>1. Step("RTSP_Start", "ready", {{}}, {{}}, "rts_start_error")
    BY <1>11 DEF InitCall, InitCalls
  <2> QED BY <2>1 DEF InitCall
<1> QED BY <1>1, <1>2, <1>3, <1>4, <1>5, <1>6, <1>7, <1>8, <1>9, <1>10, <1>11

\* The table of what is given back, read as steps.
LEMMA UndoTable ==
  ASSUME UndoStep
  PROVE  /\ UNCHANGED begun
         /\ \E what, stays \in SUBSET Resources :
              /\ has' = has \ (what \ stays)
              /\ twice' = twice \cup (what \ has)
              /\ stays = {} \/ (mw = "VPSS_Stop" /\ stays = {"group"})
              /\ \/ mw = "rts_start_error" /\ mw' = "rtsp_create_error" /\ what = {"session", "rtsp"}
                 \/ mw = "rtsp_create_error" /\ mw' = "vpss_start_error" /\ what = {"venc"}
                 \/ mw = "vpss_start_error" /\ mw' = "vi_start_error" /\ what = {"vi"}
                 \/ mw = "PLAT_ERR_Exit" /\ mw' = "vi_start_error" /\ what = {"sys"}
                 \/ mw = "vi_start_error" /\ mw' = "failed" /\ what = {"sys"}
                 \/ mw = "RTSP_Destroy" /\ mw' = "VENC_Stop" /\ what = {"session", "rtsp"}
                 \/ mw = "VENC_Stop" /\ mw' = "DestroyVi" /\ what = {"venc"}
                 \/ mw = "DestroyVi" /\ mw' = "VPSS_Stop" /\ what = {"vi"}
                 \/ mw = "VPSS_Stop" /\ mw' = "SYS_Exit" /\ what = {"group"}
                 \/ mw = "SYS_Exit" /\ mw' = "down" /\ what = {"sys"}
<1>1. PICK stays \in MayStay : has' = has \ (Undo[mw].what \ stays)
  BY DEF UndoStep
<1>2. /\ mw \in DOMAIN UndoSteps /\ UNCHANGED begun
      /\ twice' = twice \cup (UndoSteps[mw].what \ has) /\ mw' = UndoSteps[mw].next
      /\ has' = has \ (UndoSteps[mw].what \ stays)
  BY <1>1 DEF UndoStep, Undo
<1>3. stays = {} \/ (mw = "VPSS_Stop" /\ stays = {"group"})
  BY <1>1 DEF MayStay
<1>4. DOMAIN UndoSteps = Labels \cup Destroying
  BY DEF UndoSteps, Labels, Destroying
<1> DEFINE what == UndoSteps[mw].what
<1>5. \/ mw = "rts_start_error" /\ mw' = "rtsp_create_error" /\ what = {"session", "rtsp"}
      \/ mw = "rtsp_create_error" /\ mw' = "vpss_start_error" /\ what = {"venc"}
      \/ mw = "vpss_start_error" /\ mw' = "vi_start_error" /\ what = {"vi"}
      \/ mw = "PLAT_ERR_Exit" /\ mw' = "vi_start_error" /\ what = {"sys"}
      \/ mw = "vi_start_error" /\ mw' = "failed" /\ what = {"sys"}
      \/ mw = "RTSP_Destroy" /\ mw' = "VENC_Stop" /\ what = {"session", "rtsp"}
      \/ mw = "VENC_Stop" /\ mw' = "DestroyVi" /\ what = {"venc"}
      \/ mw = "DestroyVi" /\ mw' = "VPSS_Stop" /\ what = {"vi"}
      \/ mw = "VPSS_Stop" /\ mw' = "SYS_Exit" /\ what = {"group"}
      \/ mw = "SYS_Exit" /\ mw' = "down" /\ what = {"sys"}
  BY <1>2, <1>4 DEF Labels, Destroying, UndoSteps
<1>6. what \in SUBSET Resources /\ stays \in SUBSET Resources
  <2> HIDE DEF what
  <2> QED BY <1>3, <1>5 DEF Resources
<1> HIDE DEF what
<1>7. has' = has \ (what \ stays) /\ twice' = twice \cup (what \ has)
  BY <1>2 DEF what
<1> QED BY <1>2, <1>3, <1>5, <1>6, <1>7

\* The places.
LEMMA Places ==
  /\ DOMAIN InitCalls = {"SYS_Init", "VI_INIT", "VPSS_Init", "VPSS_Start", "VI_Bind_VPSS",
                         "AttachVbPool", "VENC_Start", "RTSP_Create", "RTSP_Start"}
  /\ DOMAIN UndoSteps = Labels \cup Destroying
BY DEF InitCalls, UndoSteps, Labels, Destroying

LEMMA CallKeeps ==
  ASSUME MwInv, InitCall
  PROVE  MwInv'
<1>1. MwTypeOK'
  <2>1. mw' \in {"ready", "failed"} \cup DOMAIN InitCalls \cup DOMAIN UndoSteps
    BY CallSteps, Places DEF Labels
  <2>2. has' \subseteq Resources
    BY CallSteps DEF MwInv, MwTypeOK, Resources
  <2> QED BY <2>1, <2>2, CallSteps DEF MwInv, MwTypeOK
<1>2. InitHas'
  BY CallSteps DEF MwInv, InitHas, Base, Encoding, Running, Left
<1>3. DestroyHas'
  BY CallSteps DEF DestroyHas
<1>4. TwiceInv'
  <2>1. twice \subseteq {"session"}
    BY CallSteps, Places DEF MwInv, TwiceInv
  <2>2. mw' # "failed" \/ has' = {}
    BY CallSteps DEF MwInv, InitHas
  <2> QED BY <2>1, <2>2, CallSteps, Places DEF TwiceInv, Labels, Destroying
<1> QED BY <1>1, <1>2, <1>3, <1>4 DEF MwInv

LEMMA UndoKeeps ==
  ASSUME MwInv, UndoStep
  PROVE  MwInv'
<1>1. PICK what, stays \in SUBSET Resources :
        /\ has' = has \ (what \ stays)
        /\ twice' = twice \cup (what \ has)
        /\ stays = {} \/ (mw = "VPSS_Stop" /\ stays = {"group"})
        /\ \/ mw = "rts_start_error" /\ mw' = "rtsp_create_error" /\ what = {"session", "rtsp"}
           \/ mw = "rtsp_create_error" /\ mw' = "vpss_start_error" /\ what = {"venc"}
           \/ mw = "vpss_start_error" /\ mw' = "vi_start_error" /\ what = {"vi"}
           \/ mw = "PLAT_ERR_Exit" /\ mw' = "vi_start_error" /\ what = {"sys"}
           \/ mw = "vi_start_error" /\ mw' = "failed" /\ what = {"sys"}
           \/ mw = "RTSP_Destroy" /\ mw' = "VENC_Stop" /\ what = {"session", "rtsp"}
           \/ mw = "VENC_Stop" /\ mw' = "DestroyVi" /\ what = {"venc"}
           \/ mw = "DestroyVi" /\ mw' = "VPSS_Stop" /\ what = {"vi"}
           \/ mw = "VPSS_Stop" /\ mw' = "SYS_Exit" /\ what = {"group"}
           \/ mw = "SYS_Exit" /\ mw' = "down" /\ what = {"sys"}
  BY UndoTable
<1>2. begun' = begun
  BY UndoTable
<1>3. MwTypeOK'
  <2>1. mw' \in {"failed", "down"} \cup Labels \cup Destroying
    BY <1>1 DEF Labels, Destroying
  <2> QED BY <1>1, <1>2, <2>1, Places DEF MwInv, MwTypeOK
<1>4. InitHas'
  <2>1. CASE mw = "rts_start_error"
    BY ZenonT(60), <1>1, <2>1 DEF MwInv, MwTypeOK, InitHas, Running, Encoding, Resources
  <2>2. CASE mw # "rts_start_error"
    BY <1>1, <2>2 DEF MwInv, InitHas, Encoding, Left
  <2> QED BY <2>1, <2>2
<1>5. DestroyHas'
  <2>1. CASE mw = "RTSP_Destroy"
    BY <1>1, <1>2, <2>1 DEF MwInv, MwTypeOK, DestroyHas, Running, Encoding, Left, Resources
  <2>2. CASE mw # "RTSP_Destroy"
    BY <1>1, <1>2, <2>2 DEF MwInv, DestroyHas, Encoding, Base, Left
  <2> QED BY <2>1, <2>2
<1>6. TwiceInv'
  <2>1. CASE mw \in Destroying
    <3>1. begun => what \ has \subseteq {"session"}
      BY <1>1, <2>1 DEF MwInv, DestroyHas, Running, Encoding, Base, Destroying
    <3> QED BY <1>1, <1>2, <2>1, <3>1, Places DEF MwInv, TwiceInv, Destroying, Labels
  <2>2. CASE mw \in Labels \ {"vi_start_error"}
    <3>1. what \ has \subseteq {"session"}
      BY <1>1, <2>2 DEF MwInv, InitHas, Running, Encoding, Labels
    <3> QED BY <1>1, <1>2, <2>2, <3>1, Places DEF MwInv, TwiceInv, Destroying, Labels
  <2>3. CASE mw = "vi_start_error"
    <3>1. what = {"sys"} /\ mw' = "failed" /\ has' = has \ {"sys"} /\ twice' = twice \cup ({"sys"} \ has)
      BY <1>1, <2>3
    <3>2. twice \subseteq {"session"} /\ ~begun /\ ("sys" \notin has => has = {})
      BY <2>3, Places DEF MwInv, TwiceInv, InitHas, Labels, Destroying
    <3> QED BY <1>2, <3>1, <3>2, Places DEF TwiceInv, Labels, Destroying
  <2> QED BY <1>1, <2>1, <2>2, <2>3 DEF Labels, Destroying
<1> QED BY <1>3, <1>4, <1>5, <1>6 DEF MwInv

LEMMA MwKeeps ==
  ASSUME MwInv, [MwNext]_mwVars
  PROVE  MwInv'
<1>1. CASE InitBegins
  BY <1>1, Places DEF InitBegins, MwInv, MwTypeOK, InitHas, DestroyHas, TwiceInv, Labels, Destroying
<1>2. CASE InitCall
  BY <1>2, CallKeeps
<1>3. CASE UndoStep
  BY <1>3, UndoKeeps
<1>4. CASE DestroyBegins
  BY <1>4, Places DEF DestroyBegins, MwInv, MwTypeOK, InitHas, DestroyHas, TwiceInv, Labels, Destroying
<1>5. CASE UNCHANGED mwVars
  BY <1>5 DEF mwVars, MwInv, MwTypeOK, InitHas, DestroyHas, TwiceInv
<1> QED BY <1>1, <1>2, <1>3, <1>4, <1>5 DEF MwNext

LEMMA MwStarts == MwInit => MwInv
BY Places DEF MwInit, MwInv, MwTypeOK, InitHas, DestroyHas, TwiceInv, Labels, Destroying

LEMMA MwInvariant == MwSpec => []MwInv
BY MwStarts, MwKeeps, PTL DEF MwSpec

LEMMA InvSaysAll ==
  ASSUME MwInv
  PROVE  OnlyTheseRemain /\ StandsOn /\ GivenBackOnce
<1>1. OnlyTheseRemain
  BY DEF MwInv, InitHas, DestroyHas, OnlyTheseRemain, Left
<1>2. GivenBackOnce
  BY DEF MwInv, TwiceInv, GivenBackOnce
<1>3. StandsOn
  <2>1. mw \in {"idle", "ready", "failed", "down"} \cup DOMAIN InitCalls \cup DOMAIN UndoSteps
    BY DEF MwInv, MwTypeOK
  <2>2. CASE mw \in {"idle", "ready", "failed"} \cup DOMAIN InitCalls \cup Labels
    BY <2>2, Places DEF MwInv, InitHas, StandsOn, Running, Encoding, Base, Left, Labels
  <2>3. CASE mw \in Destroying \cup {"down"}
    BY <2>3, Places DEF MwInv, DestroyHas, StandsOn, Running, Encoding, Base, Left, Destroying
  <2> QED BY <2>1, <2>2, <2>3, Places
<1> QED BY <1>1, <1>2, <1>3

\* OnlyTheseRemain, StandsOn and GivenBackOnce: whichever call of SAMPLE_TDL_Init_WM
\* (middleware_utils.c:107-376) fails, and whether SAMPLE_TDL_Destroy_MW is then called or
\* not, only the three things remain, no stage loses its base, and only the system and
\* the session are ever given back without being there.
THEOREM RemainsAndStands == MwSpec => []StagesGoAsTheyCame
<1>1. MwInv => StagesGoAsTheyCame
  BY InvSaysAll DEF StagesGoAsTheyCame
<1> QED BY <1>1, MwInvariant, PTL

-----------------------------------------------------------------------------
(* The camera program: CamInv is inductive                                 *)

LEMMA MainTable ==
  /\ DOMAIN MainCalls = {"CreateHandle2", "SetVBPool", "SetVpssTimeout", "CreateService"}
  /\ MainCalls["CreateHandle2"] =
       [gets |-> {"handle"}, next |-> "SetVBPool", else |-> "Destroy_MW"]
  /\ MainCalls["SetVBPool"] = [gets |-> {}, next |-> "SetVpssTimeout", else |-> "DestroyHandle"]
  /\ MainCalls["SetVpssTimeout"] =
       [gets |-> {}, next |-> "CreateService", else |-> "CreateService"]
  /\ MainCalls["CreateService"] = [gets |-> {"service"}, next |-> "thread", else |-> "DestroyHandle"]
BY DEF MainCalls

LEMMA CamStarts == CamInit => CamInv
BY MwStarts, MainTable
   DEF CamInit, FirstRet, CamInv, CamTypeOK, MainInv, CaptureInv, StrayInv

\* main() makes its handles, starts the thread and waits for it.
LEMMA MainStep ==
  ASSUME CamInv, Main
  PROVE  CamInv'
<1> USE MainTable DEF CamInv, CamTypeOK, MainInv, CaptureInv, StrayInv
<1>1. CASE MainMiddleware
  <2>1. MwNext
    BY <1>1 DEF MainMiddleware, MwNext
  <2>2. MwInv'
    BY <2>1, MwKeeps
  <2>3. main # "done"
    BY <1>1 DEF MainMiddleware
  <2> QED BY <1>1, <2>2, <2>3 DEF Main, MainMiddleware
<1>2. CASE MainCall
  <2>1. MwInv'
    BY <1>2, MwKeeps DEF MainCall
  <2> DEFINE Calls(from, to, gotten, label) ==
        /\ main = from
        /\ \/ main' = to /\ camHeld' = camHeld \cup gotten
           \/ main' = label /\ camHeld' = camHeld
  <2>2. /\ \/ Calls("CreateHandle2", "SetVBPool", {"handle"}, "Destroy_MW")
           \/ Calls("SetVBPool", "SetVpssTimeout", {}, "DestroyHandle")
           \/ Calls("SetVpssTimeout", "CreateService", {}, "CreateService")
           \/ Calls("CreateService", "thread", {"service"}, "DestroyHandle")
        /\ UNCHANGED <<mw, capture, camStray, camRet, camExit, crashed>>
    BY <1>2 DEF Main, MainCall, mwVars
  <2>3. CamTypeOK' /\ MainInv'
    BY <2>2
  <2>4. CaptureInv' /\ StrayInv'
    BY <2>2
  <2> QED BY <2>1, <2>3, <2>4
<1>3. CASE MainGoesOn
  <2>1. MwInv'
    BY <1>3, MwKeeps DEF MainGoesOn
  <2>2. CamTypeOK' /\ MainInv'
    BY <1>3 DEF Main, MainGoesOn, Joined, mwVars
  <2>3. CaptureInv' /\ StrayInv'
    BY <1>3 DEF Main, MainGoesOn, Joined
  <2> QED BY <2>1, <2>2, <2>3
<1> QED BY <1>1, <1>2, <1>3 DEF Main

\* A turn of VideoCapture, call by call.
LEMMA CaptureStep ==
  ASSUME CamInv, VideoCapture
  PROVE  CamInv'
<1> USE MainTable DEF CamTypeOK, MainInv, CaptureInv, StrayInv
<1>0. CamTypeOK /\ MainInv /\ CaptureInv /\ StrayInv
  BY DEF CamInv
<1>a. MwInv' /\ mw' = mw /\ main' = main
  BY MwKeeps DEF CamInv, VideoCapture, mwVars
<1>1. CASE NextFrame
  BY <1>0, <1>a, <1>1 DEF NextFrame, CamInv
<1>2. CASE GetFrame
  BY <1>0, <1>a, <1>2 DEF GetFrame, CamInv
<1>3. CASE SendFrame
  BY <1>0, <1>a, <1>3 DEF SendFrame, CamInv
<1>4. CASE GetStream
  BY <1>0, <1>a, <1>4 DEF GetStream, CamInv
<1>5. CASE WriteFrame
  BY <1>0, <1>a, <1>5 DEF WriteFrame, StreamLabel, CamInv
<1>6. CASE SendFailed
  BY <1>0, <1>a, <1>6 DEF SendFailed, CamInv
<1>7. CASE Error
  <2>1. capture = "ERROR" /\ capture' = "loop" /\ camHeld' = camHeld \ {"frame"}
        /\ camStray' = camStray \cup ({"frame"} \ camHeld) /\ camExit' = (camExit \/ camRet)
        /\ camRet' = camRet /\ crashed' = crashed
    BY <1>7 DEF Error, ExitIfFailed
  <2>2. camExit' \in BOOLEAN /\ (camRet => camExit')
    BY <1>0, <2>1
  <2>3. "frame" \notin camHeld => camStray = {} /\ camRet
    BY <1>0, <2>1
  <2>4. CamTypeOK' /\ MainInv' /\ CaptureInv'
    BY <1>0, <1>a, <2>1, <2>2
  <2>5. StrayInv'
    BY <1>0, <2>1, <2>2, <2>3
  <2> QED BY <1>a, <2>4, <2>5 DEF CamInv
<1> QED BY <1>1, <1>2, <1>3, <1>4, <1>5, <1>6, <1>7 DEF VideoCapture

LEMMA CamKeeps ==
  ASSUME CamInv, [CamNext]_camVars
  PROVE  CamInv'
<1>1. CASE CamSignal
  <2>1. MwInv'
    BY <1>1, MwKeeps DEF CamSignal, CamInv
  <2> QED BY <1>1, <2>1 DEF CamSignal, CamInv, CamTypeOK, MainInv, CaptureInv, StrayInv, mwVars
<1>2. CASE UNCHANGED camVars
  <2>1. MwInv'
    BY <1>2, MwKeeps DEF camVars, CamInv
  <2> QED BY <1>2, <2>1
          DEF camVars, CamInv, CamTypeOK, MainInv, CaptureInv, StrayInv, mwVars
<1> QED BY <1>1, <1>2, MainStep, CaptureStep DEF CamNext

LEMMA CamInvariant == CamSpec => []CamInv
BY CamStarts, CamKeeps, PTL DEF CamSpec

\* CamTypeOK: the variables of the camera program's model keep their ranges.
THEOREM CamTypeCorrect == CamSpec => []CamTypeOK
<1>1. CamInv => CamTypeOK
  BY DEF CamInv
<1> QED BY <1>1, CamInvariant, PTL

\* The safety part of CameraEnds: whichever call of a turn of camera-64-3.c's VideoCapture
\* fails, the turn leaves neither frame nor stream, and gives one of them back in vain at
\* most, in its last turn; main() destroys nothing before the thread is over, and ends with
\* nothing but the service and what the middleware leaves.
THEOREM CamGivesBack == CamSpec => [](OneStray /\ DestroyedAfterCapture)
<1>1. CamInv => OneStray
  <2> SUFFICES ASSUME CamInv PROVE OneStray
    OBVIOUS
  <2>1. Cardinality(camStray) <= 1
    <3>1. Cardinality({}) = 0 /\ Cardinality({"frame"}) = 1 /\ Cardinality({"stream"}) = 1
      BY FS_EmptySet, FS_Singleton
    <3> QED BY <3>1 DEF CamInv, StrayInv
  <2> QED BY <2>1 DEF CamInv, CaptureInv, StrayInv, OneStray
<1>2. CamInv => DestroyedAfterCapture
  <2> SUFFICES ASSUME CamInv PROVE DestroyedAfterCapture
    OBVIOUS
  <2>1. "stream" \in camHeld => "frame" \in camHeld
    BY DEF CamInv, CamTypeOK, CaptureInv
  <2>2. main = "done" => mw = "down" /\ camHeld \subseteq {"service"}
    BY DEF CamInv, CamTypeOK, MainInv, CaptureInv
  <2>3. main = "done" => has \subseteq {"group", "bind"}
    BY <2>2 DEF CamInv, MwInv, DestroyHas
  <2> QED BY <2>1, <2>2, <2>3 DEF CamInv, MainInv, DestroyedAfterCapture
<1> QED BY <1>1, <1>2, CamInvariant, PTL
=============================================================================
