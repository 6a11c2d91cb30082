------------------------- MODULE RobotProgramProofs --------------------------
(***************************************************************************)
(* Proofs about RobotTasks and RobotProgram, its composition with          *)
(* Middleware, for every list of moods.  HoldInv says at each call, label  *)
(* and loop of video_capture and mailbox_comm what the task holds.  The    *)
(* steps of the composition are steps of RobotTasks or leave the tasks     *)
(* alone, so that what is proved of the tasks holds of it; and ProgInv     *)
(* says where the middleware is while video_capture is where it is.        *)
(***************************************************************************)
EXTENDS RobotProgram, MiddlewareProofs

-----------------------------------------------------------------------------
(* The tasks                                                               *)

\* The two tables, entry by entry.
LEMMA SetupTable ==
  /\ DOMAIN Setup = {"CreateHandle2", "SetVBPool", "SetVpssTimeout", "CreateService", "OpenModel"}
  /\ Setup["CreateHandle2"] =
       [next |-> "SetVBPool", gets |-> {"handle"}, else |-> "FREE_MIDDLEWARE"]
  /\ Setup["SetVBPool"] = [next |-> "SetVpssTimeout", gets |-> {}, else |-> "FREE_CVI_HANDLE"]
  /\ Setup["SetVpssTimeout"] = [next |-> "CreateService", gets |-> {}, else |-> "FREE_CVI_HANDLE"]
  /\ Setup["CreateService"] = [next |-> "OpenModel", gets |-> {"service"}, else |-> "FREE_CVI_HANDLE"]
  /\ Setup["OpenModel"] = [next |-> "CreateImage", gets |-> {}, else |-> "FREE_CVI_SERVICE_HANDLE"]
BY DEF Setup

LEMMA ReleaseTable ==
  /\ DOMAIN Release = {"FREE_FRAME", "FREE_CVI_SERVICE_HANDLE", "FREE_CVI_HANDLE", "FREE_MIDDLEWARE"}
  /\ Release["FREE_FRAME"] = [what |-> "frame", next |-> "FREE_FACE"]
  /\ Release["FREE_CVI_SERVICE_HANDLE"] = [what |-> "service", next |-> "FREE_CVI_HANDLE"]
  /\ Release["FREE_CVI_HANDLE"] = [what |-> "handle", next |-> "FREE_MIDDLEWARE"]
  /\ Release["FREE_MIDDLEWARE"] = [what |-> "middleware", next |-> "done"]
BY DEF Release

\* The resources up to each one of the chain.
LEMMA Chains ==
  /\ DOMAIN Chain = 1 .. 4
  /\ Chain[1] = "middleware" /\ Chain[2] = "handle" /\ Chain[3] = "service" /\ Chain[4] = "frame"
  /\ Built(0) = {}
  /\ Built(1) = {"middleware"}
  /\ Built(2) = {"middleware", "handle"}
  /\ Built(3) = {"middleware", "handle", "service"}
  /\ Built(4) = {"middleware", "handle", "service", "frame"}
<1>1. /\ DOMAIN Chain = 1 .. 4
      /\ Chain[1] = "middleware" /\ Chain[2] = "handle" /\ Chain[3] = "service" /\ Chain[4] = "frame"
  BY DEF Chain
<1>2. 1 .. 0 = {} /\ 1 .. 1 = {1} /\ 1 .. 2 = {1, 2} /\ 1 .. 3 = {1, 2, 3} /\ 1 .. 4 = {1, 2, 3, 4}
  OBVIOUS
<1> QED BY <1>1, <1>2 DEF Built

LEMMA HoldInit == TasksAssumption /\ Init => HoldInv
<1> SUFFICES ASSUME TasksAssumption, Init PROVE HoldInv
  OBVIOUS
<1>1. todo \in Seq(ToSet(Moods)) /\ status \in Seq({"READY", "PEND"})
  BY DEF Init, TasksAssumption, ToSet
<1>2. TypeOK
  BY <1>1 DEF Init, TypeOK
<1>3. VideoInv /\ MailboxInv
  BY SetupTable, ReleaseTable DEF Init, VideoInv, MailboxInv, GivesBackBuffer
<1> QED BY <1>2, <1>3 DEF HoldInv

\* A call of video_capture's set-up acquires and goes on, or goes to its label.
LEMMA SetupStep ==
  ASSUME HoldInv, SetupCall, UNCHANGED <<mailboxVars, loops, moodVars, alive>>
  PROVE  HoldInv'
<1> DEFINE Calls(from, to, gets, label) ==
      /\ video = from
      /\ \/ video' = to /\ held' = held \cup gets /\ failed' = FALSE
         \/ video' = label /\ held' = held /\ failed' = TRUE
<1>1. /\ UNCHANGED <<bExit, mailbox, open, loops, todo, status, alive>>
      /\ \/ Calls("CreateHandle2", "SetVBPool", {"handle"}, "FREE_MIDDLEWARE")
         \/ Calls("SetVBPool", "SetVpssTimeout", {}, "FREE_CVI_HANDLE")
         \/ Calls("SetVpssTimeout", "CreateService", {}, "FREE_CVI_HANDLE")
         \/ Calls("CreateService", "OpenModel", {"service"}, "FREE_CVI_HANDLE")
         \/ Calls("OpenModel", "CreateImage", {}, "FREE_CVI_SERVICE_HANDLE")
  BY SetupTable DEF SetupCall, mailboxVars, moodVars
<1>2. TypeOK'
  BY <1>1, SetupTable, ReleaseTable DEF HoldInv, TypeOK
<1>3. VideoInv'
  BY <1>1, Chains DEF HoldInv, VideoInv, Holds, Built
<1>4. MailboxInv'
  BY <1>1 DEF HoldInv, MailboxInv, GivesBackBuffer
<1> QED BY <1>2, <1>3, <1>4 DEF HoldInv

\* A label of video_capture gives its resource back and falls through.
LEMMA GiveBackStep ==
  ASSUME HoldInv, GiveBack, UNCHANGED <<mailboxVars, loops, moodVars, alive>>
  PROVE  HoldInv'
<1> DEFINE Drops(from, to, what) == video = from /\ video' = to /\ held' = held \ {what}
<1>1. /\ UNCHANGED <<bExit, failed, mailbox, open, loops, todo, status, alive>>
      /\ \/ Drops("FREE_FRAME", "FREE_FACE", "frame")
         \/ Drops("FREE_CVI_SERVICE_HANDLE", "FREE_CVI_HANDLE", "service")
         \/ Drops("FREE_CVI_HANDLE", "FREE_MIDDLEWARE", "handle")
         \/ Drops("FREE_MIDDLEWARE", "done", "middleware")
  BY ReleaseTable DEF GiveBack, mailboxVars, moodVars
<1>2. TypeOK'
  BY <1>1, SetupTable, ReleaseTable DEF HoldInv, TypeOK
<1>3. VideoInv'
  BY <1>1, Chains DEF HoldInv, VideoInv, Holds, Built
<1>4. MailboxInv'
  BY <1>1 DEF HoldInv, MailboxInv, GivesBackBuffer
<1> QED BY <1>2, <1>3, <1>4 DEF HoldInv

\* The loop of video_capture.
LEMMA LoopStep ==
  ASSUME HoldInv, UNCHANGED <<mailboxVars, loops, moodVars, alive>>,
         MiddlewareInit \/ CreateImage \/ VideoLoop \/ GetChnFrame \/ ScrFDFace \/ FreeFace
  PROVE  HoldInv'
<1>1. UNCHANGED <<mailbox, open, loops, todo, status, alive>>
  BY DEF mailboxVars, moodVars
<1>2. TypeOK'
  <2>1. /\ {bExit, failed, bExit', failed'} \subseteq BOOLEAN
        /\ held' \subseteq {"middleware", "handle", "service", "frame", "face", "image"}
        /\ video' \in {"CreateHandle2", "done", "FREE_CVI_SERVICE_HANDLE", "GetChnFrame", "ScrFDFace",
                       "FREE_FACE", "FREE_FRAME", "loop"}
    BY DEF HoldInv, TypeOK, MiddlewareInit, CreateImage, VideoLoop, GetChnFrame, ScrFDFace, FreeFace,
           AfterNoFrame, StopIfFailed
  <2> QED BY <1>1, <2>1, SetupTable, ReleaseTable DEF HoldInv, TypeOK
<1>3. VideoInv'
  <2>1. CASE MiddlewareInit \/ CreateImage
    BY <2>1, Chains DEF HoldInv, VideoInv, Holds, Built, MiddlewareInit, CreateImage
  <2>2. CASE VideoLoop
    BY <2>2, Chains DEF HoldInv, VideoInv, Holds, Built, VideoLoop
  <2>3. CASE GetChnFrame
    BY <2>3, Chains DEF HoldInv, VideoInv, Holds, Built, GetChnFrame, AfterNoFrame
  <2>4. CASE ScrFDFace
    BY <2>4, Chains DEF HoldInv, VideoInv, Holds, Built, ScrFDFace
  <2>5. CASE FreeFace
    BY <2>5, Chains DEF HoldInv, VideoInv, Holds, Built, FreeFace
  <2> QED BY <2>1, <2>2, <2>3, <2>4, <2>5
<1>4. MailboxInv'
  BY <1>1 DEF HoldInv, MailboxInv, GivesBackBuffer
<1> QED BY <1>2, <1>3, <1>4 DEF HoldInv

LEMMA MailboxStep ==
  ASSUME HoldInv, Mailbox
  PROVE  HoldInv'
<1>1. UNCHANGED <<bExit, video, failed, held, loops, todo, status, alive>>
  BY DEF Mailbox, videoVars, moodVars
<1>2. MailboxInv' /\ open' \subseteq {"fd", "sys", "ion", "lost"}
      /\ mailbox' \in {"SysInit", "IonAlloc", "address", "loop", "send", "IOCTL_ERROR", "ION_ERROR", "done"}
  <2>0. Open \/ SysInit \/ IonAlloc \/ Send \/ MailboxLoop \/ IonFree \/ Close
    BY DEF Mailbox
  <2>1. CASE Open
    BY <2>1 DEF HoldInv, TypeOK, MailboxInv, GivesBackBuffer, Open
  <2>2. CASE IonAlloc
    BY <2>2 DEF HoldInv, TypeOK, MailboxInv, GivesBackBuffer, IonAlloc
  <2>3. CASE Send
    BY <2>3 DEF HoldInv, TypeOK, MailboxInv, GivesBackBuffer, Send, IoctlError
  <2>4. CASE MailboxLoop
    BY <2>4 DEF HoldInv, TypeOK, MailboxInv, GivesBackBuffer, MailboxLoop
  <2>5. CASE IonFree
    BY <2>5 DEF HoldInv, TypeOK, MailboxInv, GivesBackBuffer, IonFree
  <2>6. CASE Close
    BY <2>6 DEF HoldInv, TypeOK, MailboxInv, GivesBackBuffer, Close
  <2>7. CASE SysInit
    BY <2>7 DEF HoldInv, TypeOK, MailboxInv, GivesBackBuffer, SysInit
  <2> QED BY <2>0, <2>1, <2>2, <2>3, <2>4, <2>5, <2>6, <2>7
<1>3. TypeOK'
  BY <1>1, <1>2 DEF HoldInv, TypeOK
<1>4. VideoInv'
  BY <1>1 DEF HoldInv, VideoInv, Holds
<1> QED BY <1>2, <1>3, <1>4 DEF HoldInv

\* The signal, the other loops and the frame task leave both tasks alone.
LEMMA OtherStep ==
  ASSUME HoldInv, Signal \/ (\E t \in loops : Leave(t)) \/ CreateMood \/ FetchFrame
  PROVE  HoldInv'
<1>1. UNCHANGED <<video, failed, held, mailbox, open>>
  BY DEF Signal, Leave, CreateMood, FetchFrame, videoVars, mailboxVars
<1>2. /\ {bExit', alive'} \subseteq BOOLEAN
      /\ loops' \subseteq loops
  BY DEF HoldInv, TypeOK, Signal, Leave, CreateMood, FetchFrame, moodVars
<1>3. todo' \in Seq(ToSet(Moods)) /\ status' \in Seq({"READY", "PEND"})
  <2>1. todo \in Seq(ToSet(Moods)) /\ status \in Seq({"READY", "PEND"})
    BY DEF HoldInv, TypeOK
  <2>2. CASE CreateMood
    <3>1. todo' = Tail(todo) /\ todo # <<>>
      BY <2>2 DEF CreateMood
    <3>2. status' = Append(status, "PEND") \/ status' = status
      BY <2>2 DEF CreateMood, FreshStatus
    <3> QED BY <2>1, <3>1, <3>2
  <2>3. CASE ~CreateMood
    <3>1. UNCHANGED <<todo, status>>
      BY <2>3 DEF Signal, Leave, FetchFrame, moodVars
    <3> QED BY <2>1, <3>1
  <2> QED BY <2>2, <2>3
<1>4. TypeOK'
  BY <1>1, <1>2, <1>3 DEF HoldInv, TypeOK
<1>5. VideoInv' /\ MailboxInv'
  BY <1>1 DEF HoldInv, VideoInv, Holds, MailboxInv, GivesBackBuffer
<1> QED BY <1>4, <1>5 DEF HoldInv

LEMMA HoldInvariant == Spec => []HoldInv
<1>1. Init => HoldInv
  BY HoldInit, TasksAssumption
<1>2. HoldInv /\ [Next]_vars => HoldInv'
  <2>1. ASSUME HoldInv, Video
        PROVE  HoldInv'
    BY <2>1, SetupStep, GiveBackStep, LoopStep DEF Video
  <2>2. ASSUME HoldInv, UNCHANGED vars
        PROVE  HoldInv'
    BY <2>2 DEF vars, videoVars, mailboxVars, moodVars, HoldInv, TypeOK, VideoInv, Holds,
                MailboxInv, GivesBackBuffer
  <2> QED BY <2>1, <2>2, MailboxStep, OtherStep DEF Next
<1> QED BY <1>1, <1>2, PTL DEF Spec

\* TypeOK: the variables keep their ranges.
THEOREM TypeCorrect == Spec => []TypeOK
<1>1. HoldInv => TypeOK
  BY DEF HoldInv
<1> QED BY <1>1, HoldInvariant, PTL

\* GivesBackInOrder: on every path of failing calls video_capture (main.c:36-118) gives
\* back what it built, the last acquired first, a round of the loop leaves neither frame nor
\* faces, and only the image of main.c:53 is left in the end.
THEOREM VideoGivesBack == Spec => []GivesBackInOrder
<1>1. ASSUME HoldInv
      PROVE  GivesBackInOrder
  <2>1. CASE video = "FREE_FRAME"
    BY <1>1, <2>1, Chains, ReleaseTable DEF HoldInv, VideoInv, Holds, GivesBackInOrder
  <2>2. CASE video = "FREE_CVI_SERVICE_HANDLE"
    BY <1>1, <2>2, Chains, ReleaseTable DEF HoldInv, VideoInv, Holds, GivesBackInOrder
  <2>3. CASE video = "FREE_CVI_HANDLE"
    BY <1>1, <2>3, Chains, ReleaseTable DEF HoldInv, VideoInv, Holds, GivesBackInOrder
  <2>4. CASE video = "FREE_MIDDLEWARE"
    BY <1>1, <2>4, Chains, ReleaseTable DEF HoldInv, VideoInv, Holds, GivesBackInOrder
  <2>5. CASE video \notin DOMAIN Release
    BY <1>1, <2>5, Chains DEF HoldInv, VideoInv, Holds, GivesBackInOrder
  <2> QED BY <2>1, <2>2, <2>3, <2>4, <2>5, ReleaseTable
<1> QED BY <1>1, HoldInvariant, PTL

\* GivesBackBuffer: mailbox_comm (main.c:120-215) frees the shared buffer before it
\* closes the device, and leaves with neither; its CVI_SYS_Init is all it may leave behind.
THEOREM MailboxGivesBack == Spec => []GivesBackBuffer
<1>1. HoldInv => GivesBackBuffer
  BY DEF HoldInv, MailboxInv
<1> QED BY <1>1, HoldInvariant, PTL

\* GivesBack: video_capture and mailbox_comm give back what they build, in order, and leave
\* nothing behind but the image (main.c:53) and the second CVI_SYS_Init (main.c:137).
THEOREM BothGiveBack == Spec => []GivesBack
<1>1. GivesBackInOrder /\ GivesBackBuffer => GivesBack
  BY DEF GivesBack
<1> QED BY <1>1, VideoGivesBack, MailboxGivesBack, PTL

-----------------------------------------------------------------------------
(* The composition                                                         *)

\* A step of the composition is one of the tasks', or none of theirs.
LEMMA StepIsStep ==
  ASSUME [ProgNext]_progVars
  PROVE  [Next]_vars
<1>1. CASE MiddlewareWorks
  BY <1>1 DEF MiddlewareWorks
<1>2. CASE ProgVideo
  BY <1>2 DEF ProgVideo, VideoGoesOn, Next
<1>3. CASE ProgOthers
  BY <1>3 DEF ProgOthers, Others, Next
<1>4. CASE UNCHANGED progVars
  BY <1>4 DEF progVars
<1> QED BY <1>1, <1>2, <1>3, <1>4 DEF ProgNext

\* The refinement: in the variables of the five tasks of main() (main.c:36-325) a
\* behaviour of the composition is one of RobotTasks, the middleware's calls being
\* stuttering steps of middleware_init and of the label FREE_MIDDLEWARE.
THEOREM ImplementsRobotTasks == ProgSpec => Spec
<1>1. ProgInit => Init
  BY DEF ProgInit
<1>2. [ProgNext]_progVars => [Next]_vars
  BY StepIsStep
<1> QED BY <1>1, <1>2, PTL DEF ProgSpec, Spec

\* GivesBack holds of the composition, by the refinement: the two exceptions are the same.
THEOREM ProgramGivesBack == ProgSpec => []GivesBack
BY ImplementsRobotTasks, BothGiveBack

LEMMA ComingStays ==
  ASSUME mw \in Coming, InitBegins \/ InitCall \/ UndoStep
  PROVE  mw' \in Coming
<1>1. CASE InitBegins
  BY <1>1, Places DEF InitBegins, Coming
<1>2. CASE InitCall
  BY <1>2, CallSteps, Places DEF Coming, Labels
<1>3. CASE UndoStep
  BY <1>3, UndoTable, Places DEF Coming, Labels
<1> QED BY <1>1, <1>2, <1>3

LEMMA DestroyingStays ==
  ASSUME mw \in {"ready", "down"} \cup Destroying, DestroyBegins \/ UndoStep
  PROVE  mw' \in {"ready", "down"} \cup Destroying
<1>1. CASE DestroyBegins
  BY <1>1 DEF DestroyBegins, Destroying
<1>2. CASE UndoStep
  BY <1>2, UndoTable DEF Destroying
<1> QED BY <1>1, <1>2

\* The steps of video_capture between its places.
LEMMA VideoSteps ==
  ASSUME Video
  PROVE  /\ video = "middleware_init" => video' \in {"CreateHandle2", "done"}
         /\ video = "FREE_MIDDLEWARE" => video' = "done"
         /\ video # "done"
         /\ video \notin {"middleware_init", "FREE_MIDDLEWARE"}
              => video' \notin {"middleware_init", "done"}
<1>0. \/ MiddlewareInit \/ SetupCall \/ CreateImage \/ VideoLoop
      \/ GetChnFrame \/ ScrFDFace \/ FreeFace \/ GiveBack
  BY DEF Video
<1>1. CASE MiddlewareInit
  BY <1>1 DEF MiddlewareInit
<1>2. CASE SetupCall
  <2>1. video \in DOMAIN Setup /\ video' \in {Setup[video].next, Setup[video].else}
    BY <1>2 DEF SetupCall
  <2> QED BY <2>1, SetupTable
<1>3. CASE CreateImage \/ VideoLoop \/ GetChnFrame \/ ScrFDFace \/ FreeFace
  BY <1>3 DEF CreateImage, VideoLoop, GetChnFrame, ScrFDFace, FreeFace, AfterNoFrame
<1>4. CASE GiveBack
  <2>1. video \in DOMAIN Release /\ video' = Release[video].next
    BY <1>4 DEF GiveBack
  <2> QED BY <2>1, ReleaseTable
<1> QED BY <1>0, <1>1, <1>2, <1>3, <1>4

LEMMA ProgKeeps ==
  ASSUME ProgInv, [ProgNext]_progVars
  PROVE  ProgInv'
<1>1. CASE MiddlewareWorks
  <2>1. [MwNext]_mwVars /\ video' = video
    BY <1>1 DEF MiddlewareWorks, Initializes, Destroys, MwNext, vars, videoVars
  <2>2. MwInv'
    BY <2>1, MwKeeps DEF ProgInv
  <2>3. ASSUME Initializes
        PROVE  WhereInv'
    BY <2>1, <2>3, ComingStays DEF Initializes, ProgInv, WhereInv
  <2>4. ASSUME Destroys
        PROVE  WhereInv'
    BY <2>1, <2>4, DestroyingStays DEF Destroys, ProgInv, WhereInv
  <2> QED BY <1>1, <2>2, <2>3, <2>4 DEF MiddlewareWorks, ProgInv
<1>2. CASE ProgVideo
  <2>1. UNCHANGED mwVars /\ mw' = mw
    BY <1>2 DEF ProgVideo, mwVars
  <2>2. MwInv'
    BY <2>1, MwKeeps DEF ProgInv
  <2>3. WhereInv'
    BY <1>2, <2>1, VideoSteps DEF ProgVideo, VideoGoesOn, Returns, ProgInv, WhereInv
  <2> QED BY <2>2, <2>3 DEF ProgInv
<1>3. CASE ProgOthers \/ UNCHANGED progVars
  <2>1. UNCHANGED mwVars /\ mw' = mw
    BY <1>3 DEF ProgOthers, progVars, mwVars
  <2>2. video' = video
    BY <1>3 DEF ProgOthers, Others, Signal, Mailbox, Leave, CreateMood, FetchFrame, progVars,
                vars, videoVars
  <2>3. MwInv'
    BY <2>1, MwKeeps DEF ProgInv
  <2>4. WhereInv'
    BY <2>1, <2>2 DEF ProgInv, WhereInv
  <2> QED BY <2>3, <2>4 DEF ProgInv
<1> QED BY <1>1, <1>2, <1>3 DEF ProgNext

LEMMA ProgInvariant == ProgSpec => []ProgInv
<1>1. ProgInit => ProgInv
  BY MwStarts DEF ProgInit, Init, MwInit, ProgInv, WhereInv, Coming
<1> QED BY <1>1, ProgKeeps, PTL DEF ProgSpec

\* MiddlewareIsThere: video_capture (main.c:36-118) makes its handles, takes its frames and
\* gives them back only upon a middleware of which every stage is there, and it leaves only
\* when the middleware is down or has failed to come up.
THEOREM ThereForTheTasks == ProgSpec => []MiddlewareIsThere
<1>1. ASSUME ProgInv
      PROVE  MiddlewareIsThere
  <2>1. mw = "ready" => Running \subseteq has
    BY <1>1 DEF ProgInv, MwInv, InitHas
  <2>2. "middleware_init" \notin DOMAIN Setup /\ "FREE_MIDDLEWARE" \notin DOMAIN Setup
        /\ "done" \notin DOMAIN Setup
    BY SetupTable
  <2> QED BY <1>1, <2>1, <2>2 DEF ProgInv, WhereInv, MiddlewareIsThere
<1> QED BY <1>1, ProgInvariant, PTL

\* StagesGoAsTheyCame in the program: also when it is video_capture that brings the
\* middleware up and takes it down (main.c:46, main.c:117), and the process may crash in
\* between, no stage goes before those that stand on it, and only the known ones stay behind.
THEOREM ProgramStages == ProgSpec => []StagesGoAsTheyCame
<1>1. ProgInv => StagesGoAsTheyCame
  BY InvSaysAll DEF ProgInv, StagesGoAsTheyCame
<1> QED BY <1>1, ProgInvariant, PTL
=============================================================================
