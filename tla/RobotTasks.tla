----------------------------- MODULE RobotTasks -----------------------------
(***************************************************************************)
(* The five tasks main() of Robot/src/main.c hands to the thread pool, as  *)
(* they share bExit and the process: what video_capture and mailbox_comm   *)
(* acquire from the vendor's libraries and give back when a call fails or  *)
(* a signal arrives, and what mood_sys_get_frame does to all of them.      *)
(* How a command travels is Mailbox, how a task gets a thread ThreadPool.  *)
(* A vendor call returns at some time; it succeeds or fails.  The photo    *)
(* branch of video_capture and the trigger branch of mood_sys_update are   *)
(* left out: nothing sets gVideoCapture to 2 or gTrigger.                  *)
(***************************************************************************)
EXTENDS Naturals, Sequences, FiniteSets, Functions, SequencesExt

CONSTANTS
  Moods      \* the moods mood_init creates, in order; BASE is there before

ASSUME TasksAssumption == Moods \in Seq(STRING) /\ IsInjective(Moods)

VARIABLES
  bExit,
  video,     \* where video_capture is: a call or a label
  failed,    \* its ret is not 0
  held,      \* what it holds
  mailbox,   \* where mailbox_comm is
  open,      \* what it holds
  loops,     \* get_activate_thread and mood_sys_update, while they loop
  todo,      \* the moods mood_init has still to create
  status,    \* RUN_BIT of the moods in the list
  alive      \* the process has not crashed

vars == <<bExit, video, failed, held, mailbox, open, loops, todo, status, alive>>
videoVars == <<video, failed, held>>
mailboxVars == <<mailbox, open>>
moodVars == <<todo, status>>

\* The calls before video_capture's loop: what follows, what they acquire, and the
\* label to go to when they fail.
Setup ==
  [CreateHandle2 |-> [next |-> "SetVBPool",      gets |-> {"handle"},  else |-> "FREE_MIDDLEWARE"],
   SetVBPool     |-> [next |-> "SetVpssTimeout", gets |-> {},          else |-> "FREE_CVI_HANDLE"],
   SetVpssTimeout|-> [next |-> "CreateService",  gets |-> {},          else |-> "FREE_CVI_HANDLE"],
   CreateService |-> [next |-> "OpenModel",      gets |-> {"service"}, else |-> "FREE_CVI_HANDLE"],
   OpenModel     |-> [next |-> "CreateImage",    gets |-> {},
                      else |-> "FREE_CVI_SERVICE_HANDLE"]]

\* The labels, each with what it gives back and where it falls through to.  None
\* of them frees the image.
Release ==
  [FREE_FRAME              |-> [what |-> "frame",      next |-> "FREE_FACE"],
   FREE_CVI_SERVICE_HANDLE |-> [what |-> "service",    next |-> "FREE_CVI_HANDLE"],
   FREE_CVI_HANDLE         |-> [what |-> "handle",     next |-> "FREE_MIDDLEWARE"],
   FREE_MIDDLEWARE         |-> [what |-> "middleware", next |-> "done"]]

Init ==
  /\ bExit = FALSE /\ alive = TRUE
  /\ video = "middleware_init" /\ failed = FALSE /\ held = {}
  /\ mailbox = "open" /\ open = {}
  /\ loops = {"get_activate_thread", "mood_sys_update"}
  /\ todo = Moods /\ status = << "PEND" >>

-----------------------------------------------------------------------------
\* SampleHandleSig
Signal == alive /\ bExit' = TRUE /\ UNCHANGED <<videoVars, mailboxVars, loops, moodVars, alive>>

MiddlewareInit ==
  /\ video = "middleware_init"
  /\ \/ video' = "CreateHandle2" /\ held' = {"middleware"}
     \/ video' = "done" /\ UNCHANGED held
  /\ UNCHANGED <<failed, bExit>>

SetupCall ==
  /\ video \in DOMAIN Setup
  /\ \/ /\ video' = Setup[video].next
        /\ held' = held \cup Setup[video].gets
        /\ failed' = FALSE
     \/ video' = Setup[video].else /\ failed' = TRUE /\ UNCHANGED held
  /\ UNCHANGED bExit

\* Its result is not looked at.
CreateImage ==
  /\ video = "CreateImage" /\ video' = "loop"
  /\ held' \in {held, held \cup {"image"}}
  /\ UNCHANGED <<failed, bExit>>

VideoLoop ==
  /\ video = "loop"
  /\ video' = IF bExit THEN "FREE_CVI_SERVICE_HANDLE" ELSE "GetChnFrame"
  /\ UNCHANGED <<failed, held, bExit>>

\* Where a failed GetChnFrame goes.  A slip: to the label that releases a frame.
AfterNoFrameToFrame == "FREE_FRAME"
AfterNoFrame == "FREE_FACE"

GetChnFrame ==
  /\ video = "GetChnFrame"
  /\ \/ video' = "ScrFDFace" /\ held' = held \cup {"frame"} /\ failed' = FALSE
     \/ video' = AfterNoFrame /\ failed' = TRUE /\ UNCHANGED held
  /\ UNCHANGED bExit

\* The faces it found it allocates, also when it fails; one goes to gFace_data.
ScrFDFace ==
  /\ video = "ScrFDFace" /\ video' = "FREE_FRAME"
  /\ failed' \in BOOLEAN
  /\ held' \in {held, held \cup {"face"}}
  /\ UNCHANGED bExit

\* A slip: the failure is not passed on.
StopIfFailedNever == bExit' = bExit
StopIfFailed == bExit' = (bExit \/ failed)

FreeFace ==
  /\ video = "FREE_FACE" /\ video' = "loop"
  /\ held' = held \ {"face"}
  /\ StopIfFailed
  /\ UNCHANGED failed

GiveBack ==
  /\ video \in DOMAIN Release
  /\ video' = Release[video].next
  /\ held' = held \ {Release[video].what}
  /\ UNCHANGED <<failed, bExit>>

Video ==
  /\ alive
  /\ \/ MiddlewareInit \/ SetupCall \/ CreateImage \/ VideoLoop
     \/ GetChnFrame \/ ScrFDFace \/ FreeFace \/ GiveBack
  /\ UNCHANGED <<mailboxVars, loops, moodVars, alive>>

-----------------------------------------------------------------------------
Open ==
  /\ mailbox = "open"
  /\ \/ mailbox' = "SysInit" /\ open' = {"fd"}
     \/ mailbox' = "done" /\ UNCHANGED open

\* CVI_SYS_Init, the second of the process: its result is overwritten by the next
\* call's, and nothing undoes it.
SysInit ==
  /\ mailbox = "SysInit" /\ mailbox' = "IonAlloc"
  /\ open' \in {open, open \cup {"sys"}}

IonAlloc ==
  /\ mailbox = "IonAlloc"
  /\ \/ mailbox' = "address" /\ open' = open \cup {"ion"}
     \/ mailbox' = "ION_ERROR" /\ UNCHANGED open

\* Ten attempts to send the address of the buffer, or a face, end in 0 or above, or
\* below 0.  Where the latter goes.
IoctlError == "IOCTL_ERROR"

Send ==
  /\ mailbox \in {"address", "send"}
  /\ mailbox' \in {"loop", IoctlError}
  /\ UNCHANGED open

\* The test of mailbox_comm's loop.
Over == bExit

MailboxLoop ==
  /\ mailbox = "loop"
  /\ mailbox' = IF Over THEN "IOCTL_ERROR" ELSE "send"
  /\ UNCHANGED open

\* The memory of an IonFree that fails ten times is lost.
IonFree ==
  /\ mailbox = "IOCTL_ERROR" /\ mailbox' = "ION_ERROR"
  /\ \/ open' = open \ {"ion"}
     \/ open' = (open \ {"ion"}) \cup {"lost"}

Close == mailbox = "ION_ERROR" /\ mailbox' = "done" /\ open' = open \ {"fd"}

Mailbox ==
  /\ alive
  /\ Open \/ SysInit \/ IonAlloc \/ Send \/ MailboxLoop \/ IonFree \/ Close
  /\ UNCHANGED <<bExit, videoVars, loops, moodVars, alive>>

-----------------------------------------------------------------------------
\* get_activate_thread, and mood_sys_update without a trigger, only watch bExit.
Leave(t) ==
  /\ alive /\ bExit /\ t \in loops
  /\ loops' = loops \ {t}
  /\ UNCHANGED <<bExit, videoVars, mailboxVars, moodVars, alive>>

\* What mood_list_create makes of the status malloc left behind.
FreshStatus == "PEND"

\* mood_init, one mood_create at a time; without memory there is no mood.
CreateMood ==
  /\ alive /\ todo # <<>>
  /\ todo' = Tail(todo)
  /\ status' \in {Append(status, FreshStatus), status}
  /\ UNCHANGED <<bExit, videoVars, mailboxVars, loops, alive>>

\* mood_locate_ready: the READY moods, of which it takes the first; NULL if none.
LocateReady == SelectInSeq(status, LAMBDA s : s = "READY")

\* mood_sys_get_frame tests bExit once mood_init is done.
Fetches == alive /\ ~bExit /\ todo = <<>>

\* It follows the pointer it got.
FetchFrame ==
  /\ Fetches /\ LocateReady = 0
  /\ alive' = FALSE
  /\ UNCHANGED <<bExit, videoVars, mailboxVars, loops, moodVars>>

-----------------------------------------------------------------------------
Next ==
  \/ Signal \/ Video \/ Mailbox
  \/ \E t \in loops : Leave(t)
  \/ CreateMood \/ FetchFrame

Spec == Init /\ [][Next]_vars

\* The scheduler runs every task and the vendor's calls return: GetChnFrame waits 2000,
\* the scaler 1000 (SetVpssTimeout), the mailbox's ioctl mstime.  The others are given
\* no time by the code; that they return is assumed.  Nothing is asked of the mood
\* task, so that the process need not crash, nor of the signal.
FairSpec ==
  /\ Spec
  /\ WF_vars(Video) /\ WF_vars(Mailbox)
  /\ \A t \in {"get_activate_thread", "mood_sys_update"} : WF_vars(Leave(t))

-----------------------------------------------------------------------------
TypeOK ==
  /\ {bExit, failed, alive} \subseteq BOOLEAN
  /\ video \in {"middleware_init", "CreateImage", "loop", "GetChnFrame", "ScrFDFace", "FREE_FACE",
                "done"} \cup DOMAIN Setup \cup DOMAIN Release
  /\ held \subseteq {"middleware", "handle", "service", "frame", "face", "image"}
  /\ mailbox \in {"open", "SysInit", "IonAlloc", "address", "loop", "send",
                  "IOCTL_ERROR", "ION_ERROR", "done"}
  /\ open \subseteq {"fd", "sys", "ion", "lost"}
  /\ loops \subseteq {"get_activate_thread", "mood_sys_update"}
  /\ todo \in Seq(ToSet(Moods)) /\ status \in Seq({"READY", "PEND"})

\* What is built upon what in video_capture; the image and the faces stand on none.
Chain == <<"middleware", "handle", "service", "frame">>
Built(n) == {Chain[k] : k \in 1 .. n}

\* video_capture gives back what it built, the last acquired first, on every path of
\* failing calls: a label is reached only while its resource is there and nothing
\* built upon it is, and a round of the loop leaves neither its frame nor its faces.
\* What is left when the task is done is at most the image, which no label frees.
GivesBackInOrder ==
  /\ video \in DOMAIN Release =>
       \E n \in DOMAIN Chain :
         Chain[n] = Release[video].what /\ held \ {"face", "image"} = Built(n)
  /\ video = "loop" => held \ {"image"} = Built(3)
  /\ video = "done" => held \subseteq {"image"}

\* mailbox_comm frees the buffer it shares with the small core before it closes the
\* device and leaves with neither, however its calls failed; only its CVI_SYS_Init is
\* never undone.
GivesBackBuffer ==
  /\ mailbox = "IOCTL_ERROR" => open \ {"sys"} = {"fd", "ion"}
  /\ mailbox = "ION_ERROR" => "fd" \in open /\ "ion" \notin open
  /\ mailbox = "done" => open \subseteq {"lost", "sys"}

AllLeft == video = "done" /\ mailbox = "done" /\ loops = {}

\* What the two tasks built goes back, the last acquired first, on every path of
\* failing calls, but for the image and the second CVI_SYS_Init.
GivesBack == GivesBackInOrder /\ GivesBackBuffer

\* After a signal, and after a frame that could not be taken or examined, every
\* task but the frame task leaves its loop, unless the process crashes first.
EachStopIsHeard ==
  /\ bExit ~> (AllLeft \/ ~alive)
  /\ (video = "FREE_FACE" /\ failed) ~> (AllLeft \/ ~alive)

-----------------------------------------------------------------------------
(* The inductive invariant behind the two (RobotProgramProofs): what is    *)
(* held at each call, label and loop                                       *)

\* The chain's first n, and at most the things of E besides.
Holds(n, E) == held \ E = Built(n)

VideoInv ==
  /\ video = "middleware_init" => held = {}
  /\ video = "done" => Holds(0, {"image"})
  /\ video = "CreateHandle2" => Holds(1, {})
  /\ video \in {"SetVBPool", "SetVpssTimeout", "CreateService"} => Holds(2, {})
  /\ video \in {"OpenModel", "CreateImage"} => Holds(3, {})
  /\ video = "FREE_MIDDLEWARE" => Holds(1, {"image"})
  /\ video = "FREE_CVI_HANDLE" => Holds(2, {"image"})
  /\ video \in {"loop", "GetChnFrame", "FREE_CVI_SERVICE_HANDLE"} => Holds(3, {"image"})
  /\ video = "ScrFDFace" => Holds(4, {"image"})
  /\ video = "FREE_FRAME" => Holds(4, {"image", "face"})
  /\ video = "FREE_FACE" => Holds(3, {"image", "face"})

MailboxInv ==
  /\ mailbox = "open" => open = {}
  /\ mailbox = "SysInit" => open = {"fd"}
  /\ mailbox = "IonAlloc" => open \ {"sys"} = {"fd"}
  /\ mailbox \in {"address", "loop", "send"} => open \ {"sys"} = {"fd", "ion"}
  /\ GivesBackBuffer

HoldInv == TypeOK /\ VideoInv /\ MailboxInv

-----------------------------------------------------------------------------
(* What the comments say and the code does not do                          *)

\* wp_mood_sys.c:668 says that mood_locate_ready gets the mood that is READY, and
\* main.c:268 that the task updates the frame from it: when the task asks, there is one.
AMoodIsReady == Fetches => LocateReady # 0
=============================================================================
