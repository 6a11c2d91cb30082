------------------------------- MODULE Camera -------------------------------
(***************************************************************************)
(* The camera program linux/camera/camera-64-3.c: main() starts the        *)
(* middleware without looking at the result, makes the TDL handles and     *)
(* waits for the thread VideoCapture, which takes frames and sends them    *)
(* with SAMPLE_TDL_Send_Frame_RTSP until a signal or a failure sets bExit; *)
(* then everything is given back.  pthread_create is taken to succeed, and *)
(* frames come only out of a group that is bound to a video input.         *)
(***************************************************************************)
EXTENDS Middleware

VARIABLES
  main,      \* where main() is
  capture,   \* where VideoCapture is: a call, or not started, or over
  camHeld,   \* what the two hold besides the middleware
  camStray,  \* what they have given back without having it
  camRet,    \* VideoCapture's ret is not 0
  camExit,   \* bExit
  crashed    \* the process has followed a null pointer

camVars == <<mwVars, main, capture, camHeld, camStray, camRet, camExit, crashed>>

\* VideoCapture's ret before its first call.
FirstRet == FALSE

CamInit ==
  /\ MwInit
  /\ main = "MiddleWare_Config" /\ capture = "none" /\ camHeld = {} /\ camStray = {}
  /\ camRet = FirstRet /\ camExit = FALSE /\ crashed = FALSE

-----------------------------------------------------------------------------
\* SampleHandleSig; before it is installed a signal ends the process.
CamSignal ==
  /\ main \notin {"MiddleWare_Config", "done"} /\ ~crashed
  /\ camExit' = TRUE
  /\ UNCHANGED <<mwVars, main, capture, camHeld, camStray, camRet, crashed>>

\* main() between and after the calls that make its handles: what a call gets, and where
\* main goes when it succeeds and when it fails (itself, when nobody looks).
MainCalls ==
  [CreateHandle2 |-> [gets |-> {"handle"},  next |-> "SetVBPool",      else |-> "Destroy_MW"],
   SetVBPool     |-> [gets |-> {},          next |-> "SetVpssTimeout", else |-> "DestroyHandle"],
   SetVpssTimeout|-> [gets |-> {},          next |-> "CreateService",  else |-> "CreateService"],
   CreateService |-> [gets |-> {"service"}, next |-> "thread",         else |-> "DestroyHandle"]]

\* MiddleWare_Config, whose result nobody looks at, and Destroy_MW.
MainMiddleware ==
  /\ \/ main = "MiddleWare_Config" /\ (InitBegins \/ InitCall \/ UndoStep)
     \/ main = "Destroy_MW" /\ (DestroyBegins \/ UndoStep)
  /\ UNCHANGED <<main, capture, camHeld>>

MainCall ==
  /\ main \in DOMAIN MainCalls
  /\ \/ main' = MainCalls[main].next /\ camHeld' = camHeld \cup MainCalls[main].gets
     \/ main' = MainCalls[main].else /\ UNCHANGED camHeld
  /\ UNCHANGED <<mwVars, capture>>

\* pthread_join.
Joined == capture = "over"

MainGoesOn ==
  /\ \/ /\ main = "MiddleWare_Config" /\ mw \in {"ready", "failed"} /\ main' = "CreateHandle2"
        /\ UNCHANGED <<capture, camHeld>>
     \/ /\ main = "thread" /\ main' = "join" /\ capture' = "loop"
        /\ UNCHANGED camHeld
     \/ /\ main = "join" /\ Joined /\ main' = "DestroyHandle"
        /\ UNCHANGED <<capture, camHeld>>
     \/ /\ main = "DestroyHandle" /\ main' = "Destroy_MW" /\ camHeld' = camHeld \ {"handle"}
        /\ UNCHANGED capture
     \/ /\ main = "Destroy_MW" /\ mw = "down" /\ main' = "done"
        /\ UNCHANGED <<capture, camHeld>>
  /\ UNCHANGED mwVars

Main ==
  /\ ~crashed
  /\ MainMiddleware \/ MainCall \/ MainGoesOn
  /\ UNCHANGED <<camStray, camRet, camExit, crashed>>

-----------------------------------------------------------------------------
\* VideoCapture's loop.
NextFrame ==
  /\ capture = "loop"
  /\ capture' = IF camExit THEN "over" ELSE "GetChnFrame"
  /\ UNCHANGED <<camHeld, camStray, camRet, camExit, crashed>>

\* A frame, or after two seconds none: both go on to the label.
GetFrame ==
  /\ capture = "GetChnFrame"
  /\ \/ /\ {"vi", "group", "bind"} \subseteq has
        /\ capture' = "SendFrame" /\ camHeld' = camHeld \cup {"frame"} /\ camRet' = FALSE
     \/ capture' = "ERROR" /\ camRet' = TRUE /\ UNCHANGED camHeld
  /\ UNCHANGED <<camStray, camExit, crashed>>

\* SAMPLE_TDL_Send_Frame_RTSP: SendFrame, GetChnAttr and QueryStatus fail; or there is
\* no stream yet, or no memory for it, which is a success; or there is one.
SendFrame ==
  /\ capture = "SendFrame"
  /\ \/ capture' = "ERROR" /\ camRet' \in BOOLEAN
     \/ capture' = "GetStream" /\ UNCHANGED camRet
  /\ UNCHANGED <<camHeld, camStray, camExit, crashed>>

\* A slip: a frame that was sent keeps its stream.
StreamLeft == capture' = "ERROR"
StreamLabel == capture' = "send_failed"

GetStream ==
  /\ capture = "GetStream"
  /\ \/ capture' = "WriteFrame" /\ camHeld' = camHeld \cup {"stream"} /\ UNCHANGED camRet
     \/ capture' = "send_failed" /\ camRet' = TRUE /\ UNCHANGED camHeld
  /\ UNCHANGED <<camStray, camExit, crashed>>

\* It reads the session's video, whether CreateSession has made one or not.
WriteFrame ==
  /\ capture = "WriteFrame"
  /\ IF "session" \in has
     THEN StreamLabel /\ camRet' \in BOOLEAN /\ UNCHANGED crashed
     ELSE crashed' = TRUE /\ UNCHANGED <<capture, camRet>>
  /\ UNCHANGED <<camHeld, camStray, camExit>>

\* ReleaseStream, got or not.
SendFailed ==
  /\ capture = "send_failed" /\ capture' = "ERROR"
  /\ camHeld' = camHeld \ {"stream"} /\ camStray' = camStray \cup ({"stream"} \ camHeld)
  /\ UNCHANGED <<camRet, camExit, crashed>>

\* The failure reaches bExit.
ExitIfFailed == camExit' = (camExit \/ camRet)

\* The label ERROR, which every turn comes to: ReleaseChnFrame, got or not.
Error ==
  /\ capture = "ERROR" /\ capture' = "loop"
  /\ camHeld' = camHeld \ {"frame"} /\ camStray' = camStray \cup ({"frame"} \ camHeld)
  /\ ExitIfFailed
  /\ UNCHANGED <<camRet, crashed>>

VideoCapture ==
  /\ ~crashed
  /\ NextFrame \/ GetFrame \/ SendFrame \/ GetStream \/ WriteFrame \/ SendFailed \/ Error
  /\ UNCHANGED <<mwVars, main>>

CamNext == CamSignal \/ Main \/ VideoCapture
CamSpec == CamInit /\ [][CamNext]_camVars

-----------------------------------------------------------------------------
CamTypeOK ==
  /\ main \in {"MiddleWare_Config", "thread", "join", "DestroyHandle", "Destroy_MW", "done"}
              \cup DOMAIN MainCalls
  /\ capture \in {"none", "loop", "GetChnFrame", "SendFrame", "GetStream", "WriteFrame",
                  "send_failed", "ERROR", "over"}
  /\ camHeld \subseteq {"handle", "service", "frame", "stream"}
  /\ camStray \subseteq {"frame", "stream"}
  /\ {camRet, camExit, crashed} \subseteq BOOLEAN

\* Between two turns VideoCapture holds neither frame nor stream, whichever call of the
\* turn failed; it is one frame, or one stream, that it gives back without having it, and
\* that is its last turn.
OneStray ==
  /\ capture \in {"none", "loop", "over"} => camHeld \cap {"frame", "stream"} = {}
  /\ camStray # {} => camRet /\ capture \in {"ERROR", "loop", "over"}
  /\ Cardinality(camStray) <= 1

\* The frame outlives the stream made from it, and the middleware both: the thread is
\* over before main() destroys anything.
DestroyedAfterCapture ==
  /\ "stream" \in camHeld => "frame" \in camHeld
  /\ main \in {"DestroyHandle", "Destroy_MW", "done"} => capture \in {"none", "over"}
  /\ main = "done" => mw = "down" /\ camHeld \subseteq {"service"} /\ has \subseteq {"group", "bind"}

\* A signal, or a frame that could not be taken or sent, ends the program, unless it
\* crashed for want of a session; the vendor's calls return.  On the way to its end each
\* thing goes back before what it was made from.
CameraEnds ==
  /\ [](OneStray /\ DestroyedAfterCapture)
  /\ (camExit \/ (capture = "ERROR" /\ camRet)) ~> (main = "done" \/ crashed)

-----------------------------------------------------------------------------
(* The inductive invariant behind the two (MiddlewareProofs)               *)

\* main() waits for the thread it has started, and has its handle only on the way there.
MainInv ==
  /\ main \in {"MiddleWare_Config", "thread"} \cup DOMAIN MainCalls => capture = "none"
  /\ main \in {"DestroyHandle", "Destroy_MW", "done"} => capture \in {"none", "over"}
  /\ main \in {"MiddleWare_Config", "CreateHandle2", "Destroy_MW", "done"} => "handle" \notin camHeld
  /\ main = "done" => mw = "down"

\* What VideoCapture holds at each call of its turn.
CaptureInv ==
  /\ capture \in {"none", "loop", "GetChnFrame", "over"} => camHeld \cap {"frame", "stream"} = {}
  /\ capture \in {"SendFrame", "GetStream"} => "frame" \in camHeld /\ "stream" \notin camHeld
  /\ capture = "WriteFrame" => {"frame", "stream"} \subseteq camHeld
  /\ capture = "send_failed" => "frame" \in camHeld /\ ("stream" \in camHeld \/ camRet)
  /\ capture = "ERROR" => "stream" \notin camHeld /\ ("frame" \in camHeld \/ camRet)

\* A thing given back without having it ends the loop.
StrayInv ==
  /\ camStray \in {{}, {"frame"}, {"stream"}}
  /\ camStray # {} => camRet /\ capture \in {"ERROR", "loop", "over"}
  /\ camStray # {} /\ capture = "ERROR" => "frame" \in camHeld
  /\ camStray # {} /\ capture = "loop" => camExit

CamInv == MwInv /\ CamTypeOK /\ MainInv /\ CaptureInv /\ StrayInv
=============================================================================
