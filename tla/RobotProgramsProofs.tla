-------------------------- MODULE RobotProgramsProofs --------------------------
(***************************************************************************)
(* The programs that hold the robot, its hand, its voice and its           *)
(* simulation: their safety for any number of notices, reactions, sounds,  *)
(* pieces, motions and samples.                                            *)
(***************************************************************************)
EXTENDS SafeAction, WanderInterlock, VoiceLine, MujocoRobot, ArmTrajectory, SpeechCache,
        MainProgram, ArmMotion, DemoLauncher,
        SequenceTheorems, FiniteSetTheorems, TLAPS

(***************************************************************************)
(* Notices over SSH: the process on the robot and the adapter on the PC.   *)
(***************************************************************************)

Askers  == {"idle", "asking", "starting", "waiting", "ending"}
Helpers == {"none", "preparing", "acting", "holding", "releasing", "reporting", "gone"}

\* A helper that may still move the hand belongs to the notice that is waited for, or to
\* one whose failure is latched.
HelperIsWaitedFor ==
    /\ latched => asker = "idle"
    /\ ~latched /\ asker \in {"idle", "asking", "starting"} => helper \in {"none", "gone"}
    /\ succeeded => asker = "idle" /\ helper = "gone" /\ hand = "down"
    /\ asker = "starting" => stopping # "returned"

\* A helper that has acted releases before it reports.
ReleasesBeforeReport ==
    /\ helper \in {"preparing", "acting"} => answer23 = "no"
    /\ helper \in {"reporting", "gone"} /\ answer23 # "no" => answer99 # "no"
    /\ answer99 = "ok" => hand = "down" /\ helper \in {"reporting", "gone"}

SafeIInv == asker \in Askers /\ helper \in Helpers /\ HelperIsWaitedFor /\ ReleasesBeforeReport

\* Nothing has been asked for at first.
LEMMA SafeInitInv == SafeInit => SafeIInv
BY DEF SafeInit, SafeIInv, Askers, Helpers, HelperIsWaitedFor, ReleasesBeforeReport

\* Every step of the PC, of the connection and of the helper keeps the invariant.
LEMMA SafeNextInv == SafeIInv /\ [SafeNext]_safeVars => SafeIInv'
<1> SUFFICES ASSUME SafeIInv, [SafeNext]_safeVars PROVE SafeIInv'
  OBVIOUS
<1> USE DEF SafeIInv, Askers, Helpers, HelperIsWaitedFor, ReleasesBeforeReport,
            pcVars, helperVars, PcFrame, Fails
<1>1. CASE AskNotice
  BY <1>1 DEF AskNotice
<1>2. CASE LookAtShutdown
  BY <1>2 DEF LookAtShutdown
<1>3. CASE StartHelper
  BY <1>3 DEF StartHelper
<1>4. CASE StartFails
  BY <1>4 DEF StartFails
<1>5. CASE Judge
  BY <1>5 DEF Judge, CycleConfirmed
<1>6. CASE NoReport
  BY <1>6 DEF NoReport
<1>7. CASE TimeOut
  BY <1>7 DEF TimeOut
<1>8. CASE Terminate
  BY <1>8 DEF Terminate
<1>9. CASE AskShutdown
  BY <1>9 DEF AskShutdown
<1>10. CASE CloseAdapter \/ CloseWaited \/ LinkBreaks \/ UNCHANGED safeVars
  BY <1>10 DEF CloseAdapter, CloseWaited, LinkBreaks, safeVars
<1>11. CASE Signal
  BY <1>11 DEF Signal
<1>12. CASE HelperWorks
  <2>1. ASSUME NEW ok \in BOOLEAN, Prepare(ok) PROVE SafeIInv'
    BY <2>1 DEF Prepare
  <2>2. ASSUME NEW how \in {"ok", "bad"}, Act(how) PROVE SafeIInv'
    BY <2>2 DEF Act
  <2>3. ASSUME NEW how \in {"ok", "bad"}, Release(how) PROVE SafeIInv'
    BY <2>3 DEF Release
  <2>4. CASE Hold \/ Leave
    BY <2>4 DEF Hold, Leave
  <2> QED BY <1>12, <2>1, <2>2, <2>3, <2>4 DEF HelperWorks
<1> QED BY <1>1, <1>2, <1>3, <1>4, <1>5, <1>6, <1>7, <1>8, <1>9, <1>10, <1>11, <1>12 DEF SafeNext

(* A notice called complete left the hand down; no helper is started while *)
(* one that was given up may still move the arm, and none at all once      *)
(* request_shutdown has returned (SshG1SafeActionAdapter).                 *)
THEOREM SafeActionSafety == SafeSpec => []NoticesAreOver
<1>1. SafeIInv => NoticesAreOver
  BY DEF SafeIInv, HelperIsWaitedFor, NoticesAreOver
<1> QED BY SafeInitInv, SafeNextInv, <1>1, PTL DEF SafeSpec

(* The helper never lets the hand go unreleased: whatever becomes of the   *)
(* PC and the connection, a helper that has raised the hand has asked for  *)
(* its release before it reports or ends (g1_local_safe_action_main).      *)
RaisedThenReleased == helper \in {"reporting", "gone"} /\ answer23 # "no" => answer99 # "no"
\* The helper of a notice has released before it reports, whatever became of the PC.
THEOREM HelperReleases == SafeSpec => []RaisedThenReleased
<1>1. SafeIInv => RaisedThenReleased
  BY DEF SafeIInv, ReleasesBeforeReport, RaisedThenReleased
<1> QED BY SafeInitInv, SafeNextInv, <1>1, PTL DEF SafeSpec

(***************************************************************************)
(* The wander interlock: who holds the process, and where it may be.       *)
(***************************************************************************)

LoopAt == {"first", "cleanup", "idle", "stop", "ready", "start", "closing", "close", "closed"}
WanderTypes ==
    /\ loop \in LoopAt
    /\ resumer \in {"none", "waits", "starts"} /\ linkWork \in {"none", "start", "stop"}
    /\ launcher \in {"none", "asked", "found", "launched", "saved"}
    /\ stopper \in {"none", "asked", "told"} /\ walker \in {"none", "up", "ending"}
    /\ reaction \in {"none", "moving", "good", "bad"}
WanderFlags == shut \in BOOLEAN /\ running \in BOOLEAN /\ pidFile \in BOOLEAN /\ gaveUp \in BOOLEAN
               /\ closeFailed \in BOOLEAN

\* Whose the call under the lock is.
CallOwned ==
    /\ linkWork = "start" <=> loop \in {"first", "start"} \/ resumer = "starts"
    /\ linkWork = "stop" <=> loop \in {"cleanup", "stop", "close"}
    /\ resumer = "starts" => loop \in {"idle", "closing"}
    /\ loop \in {"first", "cleanup", "stop", "ready", "start"} => resumer = "none" /\ reaction # "moving"
    /\ loop = "stop" => running /\ launcher = "none"
    /\ loop = "first" \/ loop = "cleanup" => ~running

\* What the robot does while nobody waits for a launch: nothing launches unless a call was
\* given up, and the PID file names whoever walks.
Standing == walker = "none" /\ launcher = "none" /\ ~running /\ linkWork # "start"
Knows ==
    /\ running => launcher = "none" /\ linkWork # "start"
    /\ reaction = "moving" \/ loop = "ready" => Standing
    /\ resumer = "waits" => launcher = "none" /\ ~running /\ linkWork # "start"
    /\ ~gaveUp /\ linkWork # "start" => launcher = "none"
    /\ walker # "none" => pidFile \/ launcher = "launched"

\* After a close, or the cleanup of a start that failed.
ShutDown ==
    /\ loop = "closed" => shut
    /\ shut /\ loop # "closed" => loop \in {"idle", "closing"} /\ ~running /\ resumer = "none"
                                  /\ reaction # "moving"
    /\ shut /\ ~closeFailed /\ ~gaveUp => Standing

WanderIInv == WanderTypes /\ WanderFlags /\ CallOwned /\ Knows /\ ShutDown

\* The process of an earlier run may still walk, and is named by the PID file.
LEMMA WanderInitInv == InterlockInit => WanderIInv
<1> SUFFICES ASSUME InterlockInit PROVE WanderIInv
  OBVIOUS
<1> USE DEF InterlockInit
<1>1. WanderTypes
  BY DEF WanderTypes, LoopAt
<1>2. WanderFlags
  BY DEF WanderFlags
<1>3. CallOwned /\ Knows /\ ShutDown
  BY <1>2 DEF CallOwned, Knows, ShutDown, Standing, WanderFlags
<1> QED BY <1>1, <1>2, <1>3 DEF WanderIInv

\* The scripts and the process on the robot.
LEMMA RobotGoesOn ==
  ASSUME WanderIInv, Launch \/ SavePid \/ WalkerEnds \/ SendTerm \/ Unheard
  PROVE  WanderIInv'
<1> USE DEF WanderIInv
<1>1. WanderTypes' /\ WanderFlags'
  BY DEF Launch, SavePid, WalkerEnds, SendTerm, Unheard, WanderTypes, WanderFlags
<1>2. CallOwned'
  BY DEF Launch, SavePid, WalkerEnds, SendTerm, Unheard, WanderTypes, CallOwned, Knows
<1>3. Knows'
  <2>1. CASE Launch
    BY <2>1 DEF Launch, WanderTypes, Knows, Standing
  <2>2. CASE SavePid \/ WalkerEnds \/ SendTerm
    BY <2>2 DEF SavePid, WalkerEnds, SendTerm, WanderTypes, Knows, Standing
  <2>3. CASE Unheard
    BY <2>3 DEF Unheard, WanderTypes, Knows, Standing
  <2> QED BY <2>1, <2>2, <2>3
<1>4. ShutDown'
  BY DEF Launch, SavePid, WalkerEnds, SendTerm, Unheard, WanderTypes, CallOwned, Knows, Standing, ShutDown
<1> QED BY <1>1, <1>2, <1>3, <1>4

\* A call comes back to the thread that made it: a first start that failed is cleaned up,
\* a close shuts the controller, and the lock is free.
CleansUp == loop = "first" /\ loop' = "cleanup" /\ linkWork' = "stop" /\ stopper' = "asked"
            /\ UNCHANGED << shut, resumer, closeFailed >>
Freed == linkWork' = "none" /\ stopper' \in {"none", stopper}
Started(ok) == loop \in {"first", "start"} /\ (loop = "first" => ok) /\ loop' = "idle" /\ Freed
               /\ UNCHANGED << shut, resumer, closeFailed >>
StopBack(ok) == loop = "stop" /\ loop' = (IF ok THEN "ready" ELSE "idle") /\ Freed
                /\ UNCHANGED << shut, resumer, closeFailed >>
CloseBack(ok) == loop \in {"cleanup", "close"} /\ loop' = (IF loop = "close" THEN "closed" ELSE "idle")
                 /\ shut' = TRUE /\ closeFailed' = (closeFailed \/ ~ok) /\ Freed /\ UNCHANGED resumer
ResumeBack == resumer = "starts" /\ resumer' = "none" /\ Freed /\ UNCHANGED << loop, shut, closeFailed >>

\* Return is one of these ways back.
LEMMA WaysBack ==
  ASSUME NEW ok \in BOOLEAN, WanderTypes, CallOwned, linkWork # "none", Return(ok)
  PROVE  (CleansUp /\ ~ok) \/ Started(ok) \/ StopBack(ok) \/ CloseBack(ok) \/ ResumeBack
<1>1. CASE loop = "first" /\ ~ok
  BY <1>1 DEF Return, CleansUp
<1>2. CASE (loop = "first" /\ ok) \/ loop = "start"
  BY <1>2 DEF Return, Started, Freed
<1>3. CASE loop = "stop"
  BY <1>3 DEF Return, StopBack, Freed
<1>4. CASE loop \in {"cleanup", "close"}
  BY <1>4 DEF Return, CloseBack, Freed
<1>5. CASE loop \notin {"first", "start", "stop", "cleanup", "close"}
  <2>1. resumer = "starts"
    BY <1>5 DEF WanderTypes, CallOwned
  <2> QED BY <2>1, <1>5 DEF Return, ResumeBack, Freed
<1> QED BY <1>1, <1>2, <1>3, <1>4, <1>5

\* A start script is heard.
LEMMA StartIsHeard == ASSUME WanderIInv, StartReturns PROVE WanderIInv'
<1> DEFINE ok == launcher = "found" \/ walker # "none"
<1> USE DEF WanderIInv
<1>1. /\ linkWork = "start" /\ launcher \in {"found", "saved"} /\ launcher' = "none"
      /\ Return(ok) /\ running' = (running \/ ok) /\ pidFile' = ok
      /\ UNCHANGED << walker, reaction, gaveUp, asked >>
  BY DEF StartReturns
<1>2. (CleansUp /\ ~ok) \/ Started(ok) \/ ResumeBack
  <2>1. (CleansUp /\ ~ok) \/ Started(ok) \/ StopBack(ok) \/ CloseBack(ok) \/ ResumeBack
    BY <1>1, WaysBack
  <2> QED BY <2>1, <1>1 DEF StopBack, CloseBack, CallOwned, WanderTypes
<1>3. (launcher = "saved" /\ walker = "none") \/ ok
  BY <1>1
<1>4. WanderTypes'
  BY <1>1, <1>2 DEF WanderTypes, LoopAt, CleansUp, Started, ResumeBack, Freed
<1>5. WanderFlags'
  BY <1>1, <1>2 DEF WanderFlags, CleansUp, Started, ResumeBack, Freed
<1>6. CASE CleansUp /\ ~ok
  BY <1>1, <1>4, <1>5, <1>6 DEF CleansUp, CallOwned, Knows, Standing, ShutDown, WanderTypes, WanderFlags
<1>7. CASE Started(ok)
  BY <1>1, <1>4, <1>5, <1>7 DEF Started, Freed, CallOwned, Knows, Standing, ShutDown, WanderTypes, WanderFlags
<1>8. CASE ResumeBack
  BY <1>1, <1>4, <1>5, <1>8 DEF ResumeBack, Freed, CallOwned, Knows, Standing, ShutDown, WanderTypes, WanderFlags
<1> QED BY <1>2, <1>6, <1>7, <1>8

\* A stop script is heard: the process is gone, was never there, or is still there.
LEMMA StopIsHeard == ASSUME WanderIInv, Stopped \/ Absent \/ StillThere PROVE WanderIInv'
<1> USE DEF WanderIInv
<1> DEFINE Back(ok) == StopBack(ok) \/ CloseBack(ok)
<1>1. ASSUME NEW ok \in BOOLEAN, linkWork = "stop", Return(ok) PROVE Back(ok)
  <2>1. (CleansUp /\ ~ok) \/ Started(ok) \/ StopBack(ok) \/ CloseBack(ok) \/ ResumeBack
    BY <1>1, WaysBack
  <2> QED BY <2>1, <1>1 DEF CleansUp, Started, ResumeBack, CallOwned, WanderTypes
<1>2. CASE Stopped
  <2>1. Back(TRUE)
    BY <1>1, <1>2 DEF Stopped
  <2>2. /\ linkWork = "stop" /\ walker = "none" /\ pidFile' = FALSE /\ running' = FALSE
        /\ UNCHANGED << launcher, walker, reaction, gaveUp >>
    BY <1>2 DEF Stopped
  <2>3. WanderTypes' /\ WanderFlags'
    BY <2>1, <2>2 DEF WanderTypes, WanderFlags, LoopAt, StopBack, CloseBack, Freed
  <2> QED BY <2>1, <2>2, <2>3 DEF StopBack, CloseBack, Freed, CallOwned, Knows, Standing, ShutDown,
                                  WanderTypes, WanderFlags
<1>3. CASE Absent
  <2> DEFINE ok == loop \in {"cleanup", "close"} /\ ~running
  <2>1. Back(ok)
    BY <1>1, <1>3 DEF Absent
  <2>2. /\ linkWork = "stop" /\ ~(pidFile /\ walker # "none") /\ pidFile' = FALSE
        /\ UNCHANGED << running, launcher, walker, reaction, gaveUp >>
    BY <1>3 DEF Absent
  <2>3. /\ WanderTypes'
        /\ WanderFlags'
    <3>1. WanderTypes'
      BY <2>1, <2>2 DEF WanderTypes, LoopAt, StopBack, CloseBack, Freed
    <3>2. WanderFlags'
      BY <2>1, <2>2 DEF WanderFlags, StopBack, CloseBack, Freed
    <3> QED BY <3>1, <3>2
  <2>4. CallOwned'
    BY <2>1, <2>2 DEF StopBack, CloseBack, Freed, CallOwned, WanderTypes
  <2>5. Knows'
    BY <2>1, <2>2 DEF StopBack, CloseBack, Freed, CallOwned, Knows, Standing
  <2>6. ShutDown'
    <3>1. CASE StopBack(ok)
      BY <2>2, <3>1 DEF StopBack, Freed, CallOwned, Knows, Standing, ShutDown
    <3>2. CASE CloseBack(ok)
      BY <2>2, <3>2 DEF CloseBack, Freed, CallOwned, Knows, Standing, ShutDown
    <3> QED BY <2>1, <3>1, <3>2
  <2> QED BY <2>3, <2>4, <2>5, <2>6
<1>4. CASE StillThere
  <2>1. Back(FALSE)
    BY <1>1, <1>4 DEF StillThere
  <2>2. linkWork = "stop" /\ UNCHANGED << running, launcher, walker, pidFile, reaction, gaveUp >>
    BY <1>4 DEF StillThere
  <2>3. WanderTypes'
    BY <2>1, <2>2 DEF WanderTypes, LoopAt, StopBack, CloseBack, Freed
  <2>4. WanderFlags'
    BY <2>1, <2>2 DEF WanderFlags, StopBack, CloseBack, Freed
  <2> QED BY <2>1, <2>2, <2>3, <2>4 DEF StopBack, CloseBack, Freed, CallOwned, Knows, Standing, ShutDown,
                                  WanderTypes, WanderFlags
<1> QED BY <1>2, <1>3, <1>4

\* A call is not heard: the script never began, or nobody waits for it any more.
LEMMA CallFails == ASSUME WanderIInv, Unreached \/ GiveUp PROVE WanderIInv'
<1> USE DEF WanderIInv
<1>1. /\ linkWork # "none" /\ Return(FALSE) /\ UNCHANGED << running, walker, pidFile, reaction >>
      /\ \/ gaveUp' = gaveUp /\ linkWork = "start" /\ launcher = "asked" /\ launcher' = "none"
         \/ gaveUp' = gaveUp /\ linkWork = "stop" /\ launcher' = launcher
         \/ gaveUp' = TRUE /\ launcher' = launcher
  BY DEF Unreached, GiveUp
<1>2. CleansUp \/ Started(FALSE) \/ StopBack(FALSE) \/ CloseBack(FALSE) \/ ResumeBack
  BY <1>1, WaysBack
<1>3. WanderTypes' /\ WanderFlags'
  <2>1. WanderTypes'
    BY <1>1, <1>2 DEF WanderTypes, LoopAt, CleansUp, Started, StopBack, CloseBack, ResumeBack, Freed
  <2>2. WanderFlags'
    BY <1>1, <1>2 DEF WanderFlags, CleansUp, Started, StopBack, CloseBack, ResumeBack, Freed
  <2> QED BY <2>1, <2>2
<1>4. CASE CleansUp
  BY <1>1, <1>3, <1>4 DEF CleansUp, CallOwned, Knows, Standing, ShutDown, WanderTypes, WanderFlags
<1>5. CASE Started(FALSE)
  BY <1>1, <1>3, <1>5 DEF Started, Freed, CallOwned, Knows, Standing, ShutDown, WanderTypes, WanderFlags
<1>6. CASE StopBack(FALSE)
  BY <1>1, <1>3, <1>6 DEF StopBack, Freed, CallOwned, Knows, Standing, ShutDown, WanderTypes, WanderFlags
<1>7. CASE CloseBack(FALSE)
  BY <1>1, <1>3, <1>7 DEF CloseBack, Freed, CallOwned, Knows, Standing, ShutDown, WanderTypes, WanderFlags
<1>8. CASE ResumeBack
  BY <1>1, <1>3, <1>8 DEF ResumeBack, Freed, CallOwned, Knows, Standing, ShutDown, WanderTypes, WanderFlags
<1> QED BY <1>2, <1>4, <1>5, <1>6, <1>7, <1>8

\* The camera loop and the completion thread.
LEMMA ProgramGoesOn ==
  ASSUME WanderIInv, Trigger \/ React \/ ReactionEnds \/ Resume \/ BeginClose \/ CloseInterlock
  PROVE  WanderIInv'
<1> USE DEF WanderIInv, scriptVars, CallStop, CallStart
<1>1. WanderTypes'
  BY DEF Trigger, React, ReactionEnds, Resume, BeginClose, CloseInterlock, WanderTypes, LoopAt
<1>2. WanderFlags'
  BY DEF Trigger, React, ReactionEnds, Resume, BeginClose, CloseInterlock, WanderFlags
<1> USE DEF CallOwned, Knows, Standing, ShutDown, WanderTypes, WanderFlags
<1>3. CASE Trigger
  BY <1>1, <1>2, <1>3 DEF Trigger, Busy
<1>4. CASE React
  BY <1>1, <1>2, <1>4 DEF React
<1>5. CASE ReactionEnds
  BY <1>1, <1>2, <1>5 DEF ReactionEnds
<1>6. CASE Resume
  <2>1. CASE reaction = "good" /\ loop \notin {"closing", "close", "closed"}
    <3>1. /\ linkWork = "none" /\ linkWork' = "start" /\ launcher' = "asked" /\ resumer = "waits"
          /\ resumer' = "starts"
          /\ UNCHANGED << loop, shut, running, walker, pidFile, reaction, gaveUp, closeFailed >>
      BY <1>6, <2>1 DEF Resume
    <3>2. loop = "idle"
      BY <2>1, <3>1 DEF LoopAt
    <3>3. CallOwned' /\ ShutDown'
      BY <3>1, <3>2
    <3>4. Knows'
      BY <2>1, <3>1, <3>2
    <3> QED BY <1>1, <1>2, <3>3, <3>4
  <2>2. CASE ~(reaction = "good" /\ loop \notin {"closing", "close", "closed"})
    BY <1>1, <1>2, <1>6, <2>2 DEF Resume
  <2> QED BY <2>1, <2>2
<1>7. CASE BeginClose
  BY <1>1, <1>2, <1>7 DEF BeginClose
<1>8. CASE CloseInterlock
  BY <1>1, <1>2, <1>8 DEF CloseInterlock
<1> QED BY <1>3, <1>4, <1>5, <1>6, <1>7, <1>8

\* Every step keeps the invariant.
LEMMA WanderNextInv == WanderIInv /\ [InterlockNext]_interlockVars => WanderIInv'
<1> SUFFICES ASSUME WanderIInv, [InterlockNext]_interlockVars PROVE WanderIInv'
  OBVIOUS
<1>1. CASE InterlockRests \/ UNCHANGED interlockVars
  BY <1>1 DEF InterlockRests, interlockVars, WanderIInv, WanderTypes, WanderFlags, CallOwned, Knows,
              Standing, ShutDown
<1> QED BY <1>1, RobotGoesOn, StartIsHeard, StopIsHeard, CallFails, ProgramGoesOn DEF InterlockNext

(* The robot does not walk when the interlock says it stands: while the    *)
(* arms of a reaction move, and after a close that raised nothing and no   *)
(* call of which was given up (RemoteWanderController).                    *)
THEOREM WanderStands == InterlockSpec => []StandsWhenTold
<1>1. WanderIInv => StandsWhenTold
  BY DEF WanderIInv, Knows, ShutDown, Standing, StandsWhenTold, ReactsStanding, ClosedIsQuiet
<1> QED BY WanderInitInv, WanderNextInv, <1>1, PTL DEF InterlockSpec

(***************************************************************************)
(* The voice line: a sound is said to be played only when it was.          *)
(***************************************************************************)

Speeches == {"idle", "open", "piece", "sent", "stop", "stopping"}
VoiceTypes == speech \in Speeches /\ piece \in 0..Pieces /\ heard \in 0..(Pieces + 1)
VoiceFlags == failing \in BOOLEAN /\ voiceErr \in BOOLEAN /\ good \in BOOLEAN /\ active \in BOOLEAN
              /\ speaker \in BOOLEAN /\ refused \in BOOLEAN

\* While nothing has failed, at most one message is in the pipe: the request of the call
\* that waits, or its answer.
Quiet == orders = << >> /\ answers = << >>
InPipe(order, h) ==
    \/ Quiet
    \/ orders = << order >> /\ answers = << >> /\ heard = h
    \/ orders = << >> /\ answers = << FALSE >>
    \/ orders = << >> /\ answers = << TRUE >> /\ heard = h + 1
InStep ==
    /\ speech = "open" => Quiet /\ piece = 0 /\ heard = 0
    /\ speech = "piece" => Quiet /\ piece < Pieces /\ heard = piece
    /\ speech = "stop" => Quiet /\ piece = Pieces /\ heard = Pieces
    /\ speech = "sent" => piece < Pieces /\ InPipe("PlayStream", piece)
    /\ speech = "stopping" => InPipe("PlayStop", Pieces)

\* A sound that failed is the last one, and one that was good left the pipe empty.
Ends ==
    /\ speech # "idle" => ~voiceErr /\ ~good
    /\ speech # "idle" /\ ~failing => InStep
    /\ speech = "idle" /\ ~voiceErr => Quiet
    /\ good => speech = "idle" /\ Quiet /\ heard = Pieces + 1
    /\ failing => speech \in {"idle", "stop", "stopping"}

\* What plays is the helper's own, unless the robot refused to stop it.
Plays ==
    /\ speaker => active \/ refused
    /\ server = "dead" /\ speaker => refused

VoiceIInv == VoiceTypes /\ VoiceFlags /\ Ends /\ Plays

\* Nothing has been said.
LEMMA VoiceInitInv == VoiceInit => VoiceIInv
<1> SUFFICES ASSUME VoiceInit PROVE VoiceIInv
  OBVIOUS
<1> USE VoiceAssumption DEF VoiceAssumption, VoiceInit
<1>1. VoiceTypes
  BY DEF VoiceTypes, Speeches
<1>2. VoiceFlags
  BY DEF VoiceFlags
<1>3. Ends /\ Plays
  BY DEF Ends, Plays, Quiet
<1> QED BY <1>1, <1>2, <1>3 DEF VoiceIInv

\* The program begins a sound and opens the line.
LEMMA SpeechBegins == ASSUME VoiceIInv, Speak \/ OpenLine \/ LineReady PROVE VoiceIInv'
<1> USE VoiceAssumption DEF VoiceAssumption, VoiceIInv, EndSpeech, robotSide
<1>1. VoiceTypes'
  BY DEF Speak, OpenLine, LineReady, VoiceTypes, Speeches
<1>2. VoiceFlags'
  <2>1. CASE Speak
    BY <2>1 DEF Speak, VoiceFlags
  <2>2. CASE OpenLine
    BY <2>2 DEF OpenLine, VoiceFlags
  <2>3. CASE LineReady
    BY <2>3 DEF LineReady, VoiceFlags
  <2> QED BY <2>1, <2>2, <2>3
<1>3. Plays'
  BY DEF Speak, OpenLine, LineReady, Plays
<1> USE DEF Ends, InStep, Quiet, VoiceTypes, VoiceFlags
<1>4. CASE Speak
  BY <1>1, <1>2, <1>3, <1>4 DEF Speak
<1>5. CASE OpenLine
  BY <1>1, <1>2, <1>3, <1>5 DEF OpenLine
<1>6. CASE LineReady
  BY <1>1, <1>2, <1>3, <1>6 DEF LineReady
<1> QED BY <1>4, <1>5, <1>6

\* A call writes its request.
LEMMA RequestIsSent == ASSUME VoiceIInv, SendPiece \/ SendStop PROVE VoiceIInv'
<1> USE VoiceAssumption DEF VoiceAssumption, VoiceIInv, EndSpeech, robotSide
<1>1. VoiceTypes'
  BY DEF SendPiece, SendStop, VoiceTypes, Speeches
<1>2. VoiceFlags'
  <2>1. CASE SendPiece
    BY <2>1 DEF SendPiece, VoiceFlags
  <2>2. CASE SendStop
    BY <2>2 DEF SendStop, VoiceFlags
  <2> QED BY <2>1, <2>2
<1>3. Plays'
  BY DEF SendPiece, SendStop, Plays
<1>4. \A x : Append(<< >>, x) = << x >>
  OBVIOUS
<1>5. CASE SendPiece
  BY <1>1, <1>2, <1>3, <1>4, <1>5 DEF SendPiece, Ends, InStep, InPipe, Quiet, VoiceFlags
<1>6. CASE SendStop
  BY <1>1, <1>2, <1>3, <1>4, <1>6 DEF SendStop, Ends, InStep, InPipe, Quiet, VoiceFlags
<1> QED BY <1>5, <1>6

\* A pipe with one message in it is empty once it is taken.
LEMMA OneMessage == \A m : Head(<< m >>) = m /\ Tail(<< m >>) = << >> /\ << m >> # << >>
OBVIOUS

\* The answer at the head of the pipe is taken, or the call waits no longer.
LEMMA AnswerIsTaken == ASSUME VoiceIInv, TakeAnswer \/ NoAnswer PROVE VoiceIInv'
<1> USE VoiceAssumption DEF VoiceAssumption, VoiceIInv, EndSpeech, robotSide
<1>1. Plays'
  <2>1. UNCHANGED << server, active, speaker, refused >>
    BY DEF TakeAnswer, NoAnswer
  <2> QED BY <2>1 DEF Plays
<1>2. CASE TakeAnswer /\ speech = "sent"
  <2>1. ~failing /\ ~voiceErr /\ ~good /\ piece < Pieces /\ InPipe("PlayStream", piece)
    BY <1>2 DEF Ends, InStep, VoiceFlags
  <2>2. /\ orders = << >> /\ orders' = << >> /\ answers' = << >>
        /\ \/ answers = << FALSE >>
           \/ answers = << TRUE >> /\ heard = piece + 1
    <3>1. answers # << >> /\ answers' = Tail(answers) /\ orders' = orders
      BY <1>2 DEF TakeAnswer
    <3>2. \/ orders = << >> /\ answers = << FALSE >>
          \/ orders = << >> /\ answers = << TRUE >> /\ heard = piece + 1
      BY <2>1, <3>1 DEF InPipe, Quiet
    <3> QED BY <3>1, <3>2, OneMessage
  <2>3. UNCHANGED << heard, voiceErr, good, active, speaker, refused >>
    BY <1>2 DEF TakeAnswer
  <2>4. CASE answers = << FALSE >>
    <3>1. failing' = TRUE /\ piece' = piece /\ speech' = "stop"
      BY <1>2, <2>4, OneMessage DEF TakeAnswer
    <3>2. VoiceTypes' /\ VoiceFlags'
      BY <2>3, <3>1 DEF VoiceTypes, VoiceFlags, Speeches
    <3> QED BY <1>1, <2>1, <2>3, <3>1, <3>2 DEF Ends
  <2>5. CASE answers = << TRUE >> /\ heard = piece + 1
    <3>1. failing' = FALSE /\ piece' = piece + 1
          /\ speech' = IF piece + 1 < Pieces THEN "piece" ELSE "stop"
      BY <1>2, <2>5, OneMessage DEF TakeAnswer
    <3>2. VoiceTypes'
      BY <2>1, <2>3, <3>1 DEF VoiceTypes, Speeches
    <3>3. VoiceFlags'
      BY <2>3, <3>1 DEF VoiceFlags
    <3> QED BY <1>1, <2>1, <2>2, <2>3, <2>5, <3>1, <3>2, <3>3 DEF Ends, InStep, Quiet, VoiceTypes
  <2> QED BY <2>2, <2>4, <2>5
<1>3. CASE TakeAnswer /\ speech = "stopping"
  <2>1. ~voiceErr /\ ~good /\ (~failing => InPipe("PlayStop", Pieces))
    BY <1>3 DEF Ends, InStep, VoiceFlags
  <2>2. /\ answers # << >> /\ answers' = Tail(answers) /\ orders' = orders /\ speech' = "idle"
        /\ good' = (Head(answers) /\ ~failing) /\ voiceErr' = (voiceErr \/ ~(Head(answers) /\ ~failing))
        /\ UNCHANGED << piece, failing, heard, active, speaker, refused >>
    BY <1>3 DEF TakeAnswer
  <2>3. VoiceTypes'
    BY <2>2 DEF VoiceTypes, Speeches
  <2>4. VoiceFlags'
    BY <2>2 DEF VoiceFlags
  <2>5. CASE failing
    BY <1>1, <2>2, <2>3, <2>4, <2>5 DEF Ends
  <2>6. CASE ~failing
    <3>1. /\ orders' = << >> /\ answers' = << >>
          /\ \/ answers = << FALSE >>
             \/ answers = << TRUE >> /\ heard = Pieces + 1
      <4>1. \/ orders = << >> /\ answers = << FALSE >>
            \/ orders = << >> /\ answers = << TRUE >> /\ heard = Pieces + 1
        BY <2>1, <2>2, <2>6 DEF InPipe, Quiet
      <4> QED BY <2>2, <4>1, OneMessage
    <3>2. Head(answers) => heard = Pieces + 1
      BY <3>1, OneMessage
    <3> QED BY <1>1, <3>2, <2>2, <2>3, <2>4, <2>6, <3>1 DEF Ends, Quiet
  <2> QED BY <2>5, <2>6 DEF VoiceFlags
<1>4. CASE NoAnswer
  <2>1. VoiceTypes'
    BY <1>4 DEF NoAnswer, VoiceTypes, Speeches
  <2>2. VoiceFlags'
    BY <1>4 DEF NoAnswer, VoiceFlags
  <2> QED BY <1>1, <1>4, <2>1, <2>2 DEF NoAnswer, Ends, VoiceFlags
<1> QED BY <1>2, <1>3, <1>4 DEF TakeAnswer

\* The helper serves one request, and its answer takes the request's place in the pipe.
LEMMA RequestIsServed == ASSUME VoiceIInv, Serve PROVE VoiceIInv'
<1> USE VoiceAssumption DEF VoiceAssumption, VoiceIInv, talkVars
<1>1. PICK code \in BOOLEAN :
       /\ answers' = IF cable = "up" THEN Append(answers, code) ELSE answers
       /\ IF Head(orders) = "PlayStream"
            THEN /\ active' = TRUE /\ speaker' \in {TRUE, code \/ speaker}
                 /\ heard' = IF code /\ heard < Pieces THEN heard + 1 ELSE heard
                 /\ UNCHANGED refused
            ELSE /\ active' = FALSE /\ speaker' = (speaker /\ ~code)
                 /\ heard' = IF code /\ heard = Pieces THEN Pieces + 1 ELSE heard
                 /\ refused' = (refused \/ ~code)
  BY DEF Serve
<1>2. /\ server = "up" /\ orders # << >> /\ orders' = Tail(orders)
      /\ UNCHANGED << speech, piece, failing, voiceErr, good, server >>
  BY DEF Serve
<1>3. VoiceTypes'
  <2>1. heard' \in 0..(Pieces + 1)
    <3>1. \/ heard' = IF code /\ heard < Pieces THEN heard + 1 ELSE heard
          \/ heard' = IF code /\ heard = Pieces THEN Pieces + 1 ELSE heard
      BY <1>1
    <3> QED BY <3>1 DEF VoiceTypes
  <2> QED BY <1>2, <2>1 DEF VoiceTypes
<1>4. VoiceFlags'
  <2>1. active' \in BOOLEAN /\ speaker' \in BOOLEAN /\ refused' \in BOOLEAN
    BY <1>1 DEF VoiceFlags
  <2> QED BY <1>2, <2>1 DEF VoiceFlags
<1>5. Plays'
  BY <1>1, <1>2 DEF Plays, VoiceFlags
<1>6. ASSUME NEW order \in {"PlayStream", "PlayStop"}, NEW h \in 0..Pieces, InPipe(order, h),
             h < Pieces \/ order = "PlayStop", h = Pieces \/ order = "PlayStream"
      PROVE  InPipe(order, h)'
  <2>1. orders = << order >> /\ answers = << >> /\ heard = h /\ orders' = << >>
    <3>1. orders = << order >> /\ answers = << >> /\ heard = h
      BY <1>2, <1>6 DEF InPipe, Quiet
    <3> QED BY <1>2, <3>1, OneMessage
  <2>2. answers' = << >> \/ answers' = << code >>
    BY <1>1, <2>1
  <2>3. code => heard' = h + 1
    <3>1. Head(orders) = order
      BY <2>1, OneMessage
    <3>2. CASE order = "PlayStream"
      BY <1>1, <1>6, <2>1, <3>1, <3>2
    <3>3. CASE order = "PlayStop"
      BY <1>1, <1>6, <2>1, <3>1, <3>3
    <3> QED BY <1>6, <3>2, <3>3
  <2> QED BY <2>1, <2>2, <2>3 DEF InPipe, Quiet
<1>7. ~Quiet
  BY <1>2 DEF Quiet
<1>8. ASSUME speech # "idle", ~failing PROVE InStep'
  <2>1. InStep
    BY <1>8 DEF Ends
  <2>2. CASE speech = "sent"
    <3>1. InPipe("PlayStream", piece)'
      BY <1>2, <1>6, <2>1, <2>2 DEF InStep, VoiceTypes, InPipe
    <3> QED BY <1>2, <2>1, <2>2, <3>1 DEF InStep
  <2>3. CASE speech = "stopping"
    <3>1. InPipe("PlayStop", Pieces)'
      BY <1>6, <2>1, <2>3 DEF InStep
    <3> QED BY <1>2, <2>3, <3>1 DEF InStep
  <2> QED BY <1>2, <1>7, <1>8, <2>1, <2>2, <2>3 DEF InStep, VoiceTypes, Speeches
<1>9. Ends'
  BY <1>2, <1>7, <1>8 DEF Ends
<1> QED BY <1>3, <1>4, <1>5, <1>9

\* The helper starts, leaves and ends, and the connection goes.
LEMMA LineGoesOn ==
  ASSUME VoiceIInv, CloseLine \/ CableBreaks \/ ServerStarts \/ ServerLeaves \/ ServerEnds
  PROVE  VoiceIInv'
<1> USE DEF VoiceIInv, talkVars, robotSide
<1>1. /\ UNCHANGED << speech, piece, failing, voiceErr, good, heard >>
      /\ orders' = orders \/ orders' = << >>
      /\ answers' = answers \/ answers' = << >>
  BY DEF CloseLine, CableBreaks, ServerStarts, ServerLeaves, ServerEnds
<1>2. Quiet => Quiet'
  BY <1>1 DEF Quiet
<1>3. InPipe("PlayStream", piece) => InPipe("PlayStream", piece)'
  BY <1>1 DEF InPipe, Quiet
<1>4. InStep => InStep'
  <2>1. InPipe("PlayStop", Pieces) => InPipe("PlayStop", Pieces)'
    BY <1>1 DEF InPipe, Quiet
  <2> QED BY <1>1, <1>2, <1>3, <2>1 DEF InStep
<1>5. VoiceTypes' /\ Ends'
  BY <1>1, <1>2, <1>4 DEF VoiceTypes, Ends
<1>6. VoiceFlags' /\ Plays'
  <2>1. CASE CloseLine \/ CableBreaks
    BY <2>1, <1>1 DEF CloseLine, CableBreaks, VoiceFlags, Plays
  <2>2. CASE ServerStarts
    BY <2>2, <1>1 DEF ServerStarts, VoiceFlags, Plays
  <2>3. CASE ServerLeaves
    <3>1. /\ server' = "leaving" /\ UNCHANGED refused
          /\ \/ UNCHANGED << active, speaker >>
             \/ /\ active' = (active \/ Head(orders) = "PlayStream")
                /\ speaker' \in {speaker, Head(orders) = "PlayStream"}
      BY <2>3 DEF ServerLeaves
    <3>2. active' \in BOOLEAN /\ speaker' \in BOOLEAN
      BY <3>1 DEF VoiceFlags
    <3>3. speaker' => active' \/ refused'
      BY <3>1 DEF Plays, VoiceFlags
    <3> QED BY <1>1, <3>1, <3>2, <3>3 DEF VoiceFlags, Plays
  <2>4. CASE ServerEnds
    BY <2>4, <1>1 DEF ServerEnds, VoiceFlags, Plays
  <2> QED BY <2>1, <2>2, <2>3, <2>4
<1> QED BY <1>5, <1>6

\* Every step keeps the invariant.
LEMMA VoiceNextInv == VoiceIInv /\ [VoiceNext]_voiceVars => VoiceIInv'
<1> SUFFICES ASSUME VoiceIInv, [VoiceNext]_voiceVars PROVE VoiceIInv'
  OBVIOUS
<1>1. CASE VoiceRests \/ UNCHANGED voiceVars
  <2>1. UNCHANGED voiceVars
    BY <1>1 DEF VoiceRests
  <2>2. VoiceTypes' /\ VoiceFlags' /\ Plays'
    BY <2>1 DEF voiceVars, VoiceIInv, VoiceTypes, VoiceFlags, Plays
  <2>3. Ends'
    BY <2>1 DEF voiceVars, VoiceIInv, Ends, InStep, InPipe, Quiet
  <2> QED BY <2>2, <2>3 DEF VoiceIInv
<1> QED BY <1>1, SpeechBegins, RequestIsSent, AnswerIsTaken, RequestIsServed, LineGoesOn DEF VoiceNext

(* The answers carry no number, and still one that comes late is never     *)
(* taken for a sound that was played, for sounds of any number of pieces;  *)
(* and the robot falls silent with the helper (G1SshAudioOutput,           *)
(* serve_remote_cached_audio).                                             *)
THEOREM VoiceSafety == VoiceSpec => []VoiceIsHonest
<1>1. VoiceIInv => VoiceIsHonest
  BY DEF VoiceIInv, VoiceFlags, Ends, Plays, VoiceIsHonest, PlayedIsHeard, GoneIsSilent
<1> QED BY VoiceInitInv, VoiceNextInv, <1>1, PTL DEF VoiceSpec

(***************************************************************************)
(* The robot of the simulation: what it reports was played.                *)
(***************************************************************************)

MujocoTypes == ordered \in Nat /\ commands \in Seq(Nat)
MujocoFlags == stopSet \in BOOLEAN /\ idle \in BOOLEAN /\ failed \in BOOLEAN

\* Until the robot stops, a motion that was asked for has been played, is queued or is being
\* played, and nothing else is queued.
Queues(m) == \E i \in 1..Len(commands) : commands[i] = m
NothingIsLost ==
    ~stopSet => /\ ~Queues(0)
                /\ \A m \in 1..ordered : m \in played \/ Queues(m) \/ (worker = "plays" /\ m = playing)

\* The event is about the whole queue.
IdleIsIdle ==
    /\ worker = "leaves" \/ closing # "none" => stopSet
    /\ idle /\ ~stopSet => commands = << >> /\ worker # "plays"
    /\ caller = "waits" => ordered # 0

MujocoIInv == MujocoTypes /\ MujocoFlags /\ NothingIsLost /\ IdleIsIdle /\ ReadyMeansPlayed

\* Nothing has been asked for.
LEMMA MujocoInitInv == MujocoInit => MujocoIInv
<1> SUFFICES ASSUME MujocoInit PROVE MujocoIInv
  OBVIOUS
<1> USE DEF MujocoInit
<1>1. MujocoTypes
  BY EmptySeq DEF MujocoTypes
<1>2. MujocoFlags
  BY DEF MujocoFlags
<1>3. NothingIsLost /\ IdleIsIdle /\ ReadyMeansPlayed
  BY DEF NothingIsLost, Queues, IdleIsIdle, ReadyMeansPlayed
<1> QED BY <1>1, <1>2, <1>3 DEF MujocoIInv

\* What a command put into the queue, or taken out of it, leaves there.
LEMMA PutQueues ==
  ASSUME commands \in Seq(Nat), NEW c \in Nat, commands' = Append(commands, c)
  PROVE  commands' \in Seq(Nat) /\ \A m : Queues(m)' <=> Queues(m) \/ m = c
<1>1. /\ Len(commands') = Len(commands) + 1 /\ commands'[Len(commands) + 1] = c
      /\ \A i \in 1..Len(commands) : commands'[i] = commands[i]
      /\ Len(commands) \in Nat
  BY AppendProperties
<1> QED BY <1>1, AppendProperties DEF Queues

\* What is taken from the queue of pieces leaves a queue.
LEMMA TakeQueues ==
  ASSUME commands \in Seq(Nat), commands # << >>, commands' = Tail(commands)
  PROVE  /\ commands' \in Seq(Nat) /\ Head(commands) \in Nat /\ Queues(Head(commands))
         /\ \A m : Queues(m) => Queues(m)' \/ m = Head(commands)
         /\ \A m : Queues(m)' => Queues(m)
<1>1. /\ Len(commands) \in Nat \ {0} /\ Len(commands') = Len(commands) - 1
      /\ commands' \in Seq(Nat) /\ Head(commands) = commands[1] /\ Head(commands) \in Nat
      /\ \A i \in 1..Len(commands') : commands'[i] = commands[i + 1]
  BY HeadTailProperties
<1>2. ASSUME NEW m, Queues(m), m # Head(commands) PROVE Queues(m)'
  <2>1. PICK i \in 1..Len(commands) : commands[i] = m
    BY <1>2 DEF Queues
  <2>2. i - 1 \in 1..Len(commands') /\ commands'[i - 1] = m
    BY <1>1, <1>2, <2>1
  <2> QED BY <2>2 DEF Queues
<1>3. ASSUME NEW m, Queues(m)' PROVE Queues(m)
  <2>1. PICK i \in 1..Len(commands') : commands'[i] = m
    BY <1>3 DEF Queues
  <2>2. i + 1 \in 1..Len(commands) /\ commands[i + 1] = m
    BY <1>1, <2>1
  <2> QED BY <2>2 DEF Queues
<1>4. Queues(Head(commands))
  BY <1>1 DEF Queues
<1> QED BY <1>1, <1>2, <1>3, <1>4

\* Every step keeps the invariant.
LEMMA MujocoNextInv == MujocoIInv /\ [MujocoNext]_mujocoVars => MujocoIInv'
<1> SUFFICES ASSUME MujocoIInv, [MujocoNext]_mujocoVars PROVE MujocoIInv'
  OBVIOUS
<1> USE DEF MujocoIInv, bodyVars, askerVars, MujocoTypes, MujocoFlags
<1>1. CASE Initialize \/ LookAtStop \/ CloseWindow \/ UNCHANGED mujocoVars
  BY <1>1 DEF Initialize, LookAtStop, CloseWindow, mujocoVars, NothingIsLost, Queues, IdleIsIdle,
              ReadyMeansPlayed
<1>2. CASE PutMotion
  <2>1. /\ caller' = "waits" /\ ordered' = ordered + 1 /\ idle' = FALSE
        /\ commands' = Append(commands, ordered + 1)
        /\ UNCHANGED << worker, playing, failed, stopSet, closing, played, answered >>
    BY <1>2 DEF PutMotion
  <2>2. commands' \in Seq(Nat) /\ \A m : Queues(m)' <=> Queues(m) \/ m = ordered + 1
    BY <2>1, PutQueues
  <2>3. NothingIsLost'
    <3>1. \A m \in 1..(ordered + 1) : m \in 1..ordered \/ m = ordered + 1
      OBVIOUS
    <3> QED BY <2>1, <2>2, <3>1 DEF NothingIsLost
  <2>4. IdleIsIdle' /\ ReadyMeansPlayed'
    BY <2>1 DEF IdleIsIdle, ReadyMeansPlayed
  <2>5. ordered' \in Nat
    BY <2>1
  <2>6. MujocoFlags'
    BY <2>1
  <2> QED BY <2>2, <2>3, <2>4, <2>5, <2>6
<1>3. CASE WaitEnds
  <2>1. idle /\ ~failed /\ ~stopSet => ordered \in played
    <3>1. commands = << >> => ~Queues(ordered)
      BY DEF Queues
    <3> QED BY <1>3, <3>1 DEF WaitEnds, IdleIsIdle, NothingIsLost
  <2>2. ReadyMeansPlayed'
    BY <1>3, <2>1 DEF WaitEnds, ReadyMeansPlayed
  <2> QED BY <1>3, <2>2 DEF WaitEnds, NothingIsLost, Queues, IdleIsIdle
<1>4. CASE Close
  <2>1. commands' \in Seq(Nat)
    BY <1>4, PutQueues DEF Close
  <2> QED BY <1>4, <2>1 DEF Close, NothingIsLost, IdleIsIdle, ReadyMeansPlayed
<1>5. CASE CloseEnds
  BY <1>5 DEF CloseEnds, NothingIsLost, Queues, IdleIsIdle, ReadyMeansPlayed
<1>6. CASE TakeCommand
  <2>1. /\ worker = "looks" /\ ~stopSet /\ commands # << >> /\ commands' = Tail(commands)
        /\ UNCHANGED << stopSet, idle, failed, caller, ordered, answered, closing, played >>
    BY <1>6 DEF TakeCommand
  <2>2. /\ commands' \in Seq(Nat) /\ Queues(Head(commands))
        /\ \A m : Queues(m) => Queues(m)' \/ m = Head(commands)
        /\ \A m : Queues(m)' => Queues(m)
    BY <2>1, TakeQueues
  <2>3. worker' = "plays" /\ playing' = Head(commands)
    BY <1>6, <2>1, <2>2 DEF TakeCommand, NothingIsLost
  <2> QED BY <2>1, <2>2, <2>3 DEF NothingIsLost, IdleIsIdle, ReadyMeansPlayed
<1>7. CASE MotionEnds
  BY <1>7 DEF MotionEnds, NothingIsLost, Queues, IdleIsIdle, ReadyMeansPlayed
<1>8. CASE SayIdle
  BY <1>8 DEF SayIdle, NothingIsLost, Queues, IdleIsIdle, ReadyMeansPlayed
<1>9. CASE SeeEnd \/ FrameFails \/ WorkerLeaves
  BY <1>9 DEF SeeEnd, FrameFails, WorkerLeaves, NothingIsLost, Queues, IdleIsIdle, ReadyMeansPlayed
<1> QED BY <1>1, <1>2, <1>3, <1>4, <1>5, <1>6, <1>7, <1>8, <1>9 DEF MujocoNext

(* A reaction hears that its motion is complete only when it was played to *)
(* its end, however many motions are queued (MujocoRobotAdapter).          *)
THEOREM SimulationSafety == MujocoSpec => []ReadyMeansPlayed
<1>1. MujocoIInv => ReadyMeansPlayed
  BY DEF MujocoIInv
<1> QED BY MujocoInitInv, MujocoNextInv, <1>1, PTL DEF MujocoSpec

(***************************************************************************)
(* The positions of a custom motion.                                       *)
(***************************************************************************)

\* The smaller and the larger of two integers.
LEMMA MinOfTwo ==
  ASSUME NEW x \in Int, NEW y \in Int
  PROVE  Min({x, y}) \in {x, y} /\ Min({x, y}) <= x /\ Min({x, y}) <= y
<1>1. \E m \in {x, y} : \A z \in {x, y} : m =< z
  <2>1. CASE x <= y
    BY <2>1
  <2>2. CASE y <= x
    BY <2>2
  <2> QED BY <2>1, <2>2
<1> QED BY <1>1 DEF Min

\* The larger of two integers.
LEMMA MaxOfTwo ==
  ASSUME NEW x \in Int, NEW y \in Int
  PROVE  Max({x, y}) \in {x, y} /\ Max({x, y}) >= x /\ Max({x, y}) >= y
<1>1. \E m \in {x, y} : \A z \in {x, y} : m >= z
  <2>1. CASE x >= y
    BY <2>1
  <2>2. CASE y >= x
    BY <2>2
  <2> QED BY <2>1, <2>2
<1> QED BY <1>1 DEF Max

\* A clamped value lies between the bounds, and is the value itself when that does.
LEMMA Clamped ==
  ASSUME NEW x \in Int, NEW lo \in Int, NEW hi \in Int, lo <= hi
  PROVE  /\ Clamp(x, lo, hi) \in lo..hi
         /\ x \in lo..hi => Clamp(x, lo, hi) = x
         /\ x <= lo => Clamp(x, lo, hi) = lo
         /\ x >= hi => Clamp(x, lo, hi) = hi
<1>1. PICK m \in Int : m = Max({x, lo}) /\ m \in {x, lo} /\ m >= x /\ m >= lo
  BY MaxOfTwo
<1>2. PICK n \in Int : n = Min({m, hi}) /\ n \in {m, hi} /\ n <= m /\ n <= hi
  BY MinOfTwo
<1>3. Clamp(x, lo, hi) = n
  BY <1>1, <1>2 DEF Clamp
<1> QED BY <1>1, <1>2, <1>3

\* A step of the trajectory lies between where it comes from and where it goes to.
LEMMA SteppedTo ==
  ASSUME NEW from \in Int, NEW to \in Int, NEW delta \in Nat
  PROVE  LET next == from + Clamp(to - from, -delta, delta)
         IN  /\ next \in Int /\ next - from \in (-delta)..delta
             /\ from <= to => from <= next /\ next <= to
             /\ to <= from => to <= next /\ next <= from
<1>1. PICK c \in Int : /\ c = Clamp(to - from, -delta, delta) /\ c \in (-delta)..delta
                       /\ to - from \in (-delta)..delta => c = to - from
                       /\ to - from <= -delta => c = -delta
                       /\ to - from >= delta => c = delta
  <2>1. to - from \in Int /\ -delta \in Int /\ delta \in Int /\ -delta <= delta
    OBVIOUS
  <2>2. /\ Clamp(to - from, -delta, delta) \in (-delta)..delta
        /\ to - from \in (-delta)..delta => Clamp(to - from, -delta, delta) = to - from
        /\ to - from <= -delta => Clamp(to - from, -delta, delta) = -delta
        /\ to - from >= delta => Clamp(to - from, -delta, delta) = delta
    BY <2>1, Clamped
  <2> QED BY <2>1, <2>2
<1> QED BY <1>1

\* The keyframes start at the base, and so does the motion.
TrajectoryTypes ==
    /\ keyframes \in [1..3 -> Offsets] /\ sample \in Nat
    /\ stage \in {"loading", "posing", "sampling", "built", "refused"}
StartsAtBase ==
    /\ stage \in {"loading", "posing"} => sample = 0
    /\ stage \in {"posing", "sampling"} => keyframes[1] = 0
    /\ stage \in {"sampling", "built"} => base \in SafeLow..SafeHigh
TrajectoryIInv == TrajectoryTypes /\ StartsAtBase /\ NoJump

\* Nothing has been sampled.
LEMMA TrajectoryInitInv == TrajectoryInit => TrajectoryIInv
BY DEF TrajectoryInit, TrajectoryIInv, TrajectoryTypes, StartsAtBase, NoJump

\* The first sample asks for the pose the motion starts at.
LEMMA FirstIsBase ==
  ASSUME sample = 0, keyframes[1] = 0, NEW offset \in Asked
  PROVE  offset = 0
<1>1. 0 \div KeyPeriods = 0 /\ 0 % KeyPeriods = 0
  <2>1. KeyPeriods \in Nat \ {0}
    BY TrajectoryAssumption DEF TrajectoryAssumption
  <2>2. \A n \in Nat \ {0} : 0 \div n = 0 /\ 0 % n = 0
    OBVIOUS
  <2> QED BY <2>1, <2>2
<1>2. Min({0, 0}) = 0 /\ Max({0, 0}) = 0
  <2>1. 0 \in Int
    OBVIOUS
  <2>2. Min({0, 0}) = 0
    BY <2>1, MinOfTwo
  <2>3. Max({0, 0}) = 0
    BY <2>1, MaxOfTwo
  <2> QED BY <2>2, <2>3
<1>3. Asked = Min({0, 0})..Max({0, 0})
  <2>1. sample \div KeyPeriods + 1 = 1 /\ sample % KeyPeriods = 0
    BY <1>1
  <2>2. Asked = Min({keyframes[1], 0})..Max({keyframes[1], 0})
    BY <2>1 DEF Asked
  <2> QED BY <2>2
<1> QED BY <1>2, <1>3

\* Every sample keeps the invariant.
LEMMA SampleKeeps ==
  ASSUME TrajectoryIInv, TakeSample
  PROVE  TrajectoryIInv' /\ position' - position \in (-MaxDelta)..MaxDelta
<1>1. /\ stage = "sampling" /\ sample' = sample + 1 /\ UNCHANGED << keyframes, base >>
      /\ stage' \in {"sampling", "built", "refused"} /\ (stage' = "built" => position' = base)
  BY DEF TakeSample
<1>2. PICK offset \in Asked :
        position' = position + Clamp(Clamp(base + offset, SafeLow, SafeHigh) - position,
                                     -MaxDelta, MaxDelta)
  BY DEF TakeSample
<1>3. PICK low \in Int, high \in Int, b \in Int, p \in Int, delta \in Nat, o \in Int :
        /\ low = SafeLow /\ high = SafeHigh /\ b = base /\ p = position /\ delta = MaxDelta
        /\ o = offset /\ b \in low..high /\ p \in low..high
  <2>1. SafeLow \in Int /\ SafeHigh \in Int /\ MaxDelta \in Nat
    BY TrajectoryAssumption DEF TrajectoryAssumption, SafeLow, SafeHigh
  <2>2. offset \in Int
    BY DEF Asked
  <2> QED BY <1>1, <2>1, <2>2 DEF TrajectoryIInv, StartsAtBase, NoJump
<1>4. PICK to \in low..high : to = Clamp(b + o, low, high) /\ (b + o \in low..high => to = b + o)
  <2>1. b + o \in Int /\ low <= high
    BY <1>3
  <2>2. /\ Clamp(b + o, low, high) \in low..high
        /\ b + o \in low..high => Clamp(b + o, low, high) = b + o
    BY <2>1, Clamped
  <2> QED BY <2>2
<1>5. PICK n \in Int : /\ n = p + Clamp(to - p, -delta, delta)
                       /\ p <= to => p <= n /\ n <= to
                       /\ to <= p => to <= n /\ n <= p
                       /\ n - p \in (-delta)..delta
  <2>1. to \in Int
    OBVIOUS
  <2> QED BY <2>1, SteppedTo
<1>6. position' = n /\ n \in low..high
  <2>1. position' = n
    BY <1>2, <1>3, <1>4, <1>5
  <2>2. n \in low..high
    BY <1>3, <1>5
  <2> QED BY <2>1, <2>2
<1>7. sample = 0 => position' = base
  <2>1. sample = 0 => o = 0 /\ p = b
    BY <1>1, <1>3, FirstIsBase DEF TrajectoryIInv, StartsAtBase, NoJump
  <2>2. o = 0 /\ p = b => n = b
    <3>1. p \in low..high
      BY <1>3
    <3> QED BY <1>4, <1>5, <3>1
  <2> QED BY <1>3, <1>6, <2>1, <2>2
<1>8. TrajectoryTypes'
  BY <1>1 DEF TrajectoryIInv, TrajectoryTypes
<1>9. StartsAtBase'
  BY <1>1 DEF TrajectoryIInv, StartsAtBase, SafeLow, SafeHigh
<1>10. NoJump'
  <2>1. position' \in SafeLow..SafeHigh
    BY <1>3, <1>6
  <2>2. sample' <= 1 => sample = 0
    BY <1>1 DEF TrajectoryIInv, TrajectoryTypes
  <2> QED BY <1>1, <1>7, <2>1, <2>2 DEF NoJump, SafeLow, SafeHigh
<1>11. position' - position \in (-MaxDelta)..MaxDelta
  BY <1>3, <1>5, <1>6
<1> QED BY <1>8, <1>9, <1>10, <1>11 DEF TrajectoryIInv

\* Every step keeps the invariant.
LEMMA TrajectoryNextInv == TrajectoryIInv /\ [TrajectoryNext]_trajectoryVars => TrajectoryIInv'
<1> SUFFICES ASSUME TrajectoryIInv, [TrajectoryNext]_trajectoryVars PROVE TrajectoryIInv'
  OBVIOUS
<1> USE DEF TrajectoryIInv, TrajectoryTypes, StartsAtBase, NoJump, SafeLow, SafeHigh
<1>1. CASE Load
  BY <1>1 DEF Load, ValidMotion
<1>2. ASSUME NEW pose, TakePose(pose) PROVE TrajectoryIInv'
  BY <1>2 DEF TakePose
<1>3. CASE UNCHANGED trajectoryVars
  BY <1>3 DEF trajectoryVars
<1> QED BY <1>1, <1>2, <1>3, SampleKeeps DEF TrajectoryNext

(* A motion starts and ends at the pose the robot reported and stays in    *)
(* the envelope, for any range, margin, step width and keyframes           *)
(* (build_relative_trajectory).                                            *)
THEOREM TrajectorySafety == TrajectorySpec => []NoJump
<1>1. TrajectoryIInv => NoJump
  BY DEF TrajectoryIInv
<1> QED BY TrajectoryInitInv, TrajectoryNextInv, <1>1, PTL DEF TrajectorySpec

(* No sample lies further from the one before than a period allows, the    *)
(* first and the last included (max_delta_per_step_radians).               *)
SmallStep == stage = "sampling" => position' - position \in (-MaxDelta)..MaxDelta
\* The width of a step is that of TakeSample, which is the only one that samples.
THEOREM StepsAreSmall == TrajectorySpec => [][SmallStep]_trajectoryVars
<1>1. TrajectoryIInv /\ [TrajectoryNext]_trajectoryVars => [SmallStep]_trajectoryVars
  <2> SUFFICES ASSUME TrajectoryIInv, TrajectoryNext, stage = "sampling"
               PROVE  position' - position \in (-MaxDelta)..MaxDelta
    BY DEF SmallStep
  <2>1. TakeSample
    BY DEF TrajectoryNext, Load, TakePose
  <2> QED BY <2>1, SampleKeeps
<1> QED BY TrajectoryInitInv, TrajectoryNextInv, <1>1, PTL DEF TrajectorySpec

(***************************************************************************)
(* Speech kept on the disk, one process using the directory at a time (of  *)
(* two, TLC finds that one may play what the other is writing).  Nothing   *)
(* is needed of how a voice is resolved, only that the name of a file      *)
(* holds everything its synthesis is made of.                              *)
(***************************************************************************)

Alone == \A p, q \in Programs : p = q

\* What a file of this name must hold.
Recorded(path) ==
    Wav([text |-> path.text, style |-> path.style, scale |-> path.profile.scale], TRUE)
Holds(files, path) == File(files, path) \in {NoSound, Recorded(path)}

SpeechIndexed ==
    /\ DOMAIN talker = Programs /\ DOMAIN setup = Programs /\ DOMAIN voice = Programs
    /\ DOMAIN wish = Programs /\ DOMAIN uttered = Programs
CacheIsWhole == \A path : Holds(wavs, path)
RunsOn(p) ==
    /\ talker[p] = "replaces" => Holds(temps, PathFor(p))
    /\ talker[p] = "found" => File(wavs, PathFor(p)) # NoSound
    /\ uttered[p].by = "engine" => uttered[p].wav = Recorded(PathFor(p))
    /\ talker[p] = "idle" /\ wish[p] # NoSound /\ wish[p].plays => uttered[p].by # "nobody"
SpeechIInv == SpeechIndexed /\ CacheIsWhole /\ \A p \in Programs : RunsOn(p)

\* A file put where it belongs is found there, and leaves the others alone.
LEMMA PutHolds ==
  ASSUME NEW files, NEW path, NEW wav
  PROVE  /\ File(Put(files, path, wav), path) = wav
         /\ \A q : q # path => File(Put(files, path, wav), q) = File(files, q)
  BY DEF File, Put

\* The name says what is synthesized.
LEMMA NameSaysAll ==
  ASSUME NEW p \in Programs
  PROVE  Recorded(PathFor(p)) = Wav(Synthesis(p), TRUE)
  BY DEF Recorded, PathFor, Synthesis

\* A run keeps its names.
LEMMA SameName ==
  ASSUME NEW p \in Programs, UNCHANGED <<setup, voice, wish>>
  PROVE  PathFor(p)' = PathFor(p) /\ Synthesis(p)' = Synthesis(p)
  BY DEF PathFor, Synthesis, Profile, ProfileStyle

\* Nothing is stored, and nobody speaks.
LEMMA SpeechInitInv == SpeechInit => SpeechIInv
<1> SUFFICES ASSUME SpeechInit PROVE SpeechIInv
  OBVIOUS
<1>1. SpeechIndexed
  BY DEF SpeechInit, SpeechIndexed
<1>2. CacheIsWhole
  BY DEF SpeechInit, CacheIsWhole, Holds, File
<1>3. ASSUME NEW p \in Programs PROVE RunsOn(p)
  <2>1. talker[p] = "off" /\ uttered[p].by = "nobody"
    BY DEF SpeechInit, Nothing
  <2> QED BY <2>1 DEF RunsOn
<1> QED BY <1>1, <1>2, <1>3 DEF SpeechIInv

\* A process that starts, is asked or dies says nothing yet.
LEMMA TalkerTurns ==
  ASSUME Alone, SpeechIInv, NEW p \in Programs,
         \/ \E c \in Configs, engine \in Engines : StartTalker(p, c, engine)
         \/ \E text \in Texts, profile \in {"neutral", "happy"}, spoken \in BOOLEAN :
              Wanted(p, text, profile, spoken)
         \/ TalkerDies(p)
  PROVE  SpeechIInv'
<1>1. /\ wavs' = wavs /\ uttered'[p] = Nothing /\ DOMAIN uttered' = Programs
      /\ \E label \in {"idle", "fails", "looks", "off"} : talker' = [talker EXCEPT ![p] = label]
      /\ talker'[p] = "idle" => wish'[p] = NoSound
      /\ DOMAIN setup' = Programs /\ DOMAIN voice' = Programs /\ DOMAIN wish' = Programs
  BY DEF StartTalker, Wanted, TalkerDies, Becomes, SpeechIInv, SpeechIndexed
<1>2. SpeechIndexed'
  BY <1>1 DEF SpeechIInv, SpeechIndexed
<1>3. CacheIsWhole'
  BY <1>1 DEF SpeechIInv, CacheIsWhole, Holds
<1>4. talker'[p] \in {"idle", "fails", "looks", "off"}
  BY <1>1 DEF SpeechIInv, SpeechIndexed
<1>5. RunsOn(p)'
  BY <1>1, <1>4 DEF RunsOn, Nothing
<1> QED BY <1>2, <1>3, <1>5 DEF SpeechIInv, Alone

\* From the look to the sound: what is stored is what was asked for, and whole.
LEMMA TalkerWorks ==
  ASSUME Alone, SpeechIInv, NEW p \in Programs,
         Looks(p) \/ Synthesizes(p) \/ WritesAll(p) \/ Replaces(p) \/ PlaysFile(p) \/ FallsBack(p)
  PROVE  SpeechIInv'
<1> DEFINE path == PathFor(p)
<1>1. UNCHANGED <<setup, voice, wish>>
  BY DEF Looks, Synthesizes, WritesAll, Replaces, PlaysFile, FallsBack
<1>2. PathFor(p)' = path /\ Recorded(path) = Wav(Synthesis(p), TRUE)
  BY <1>1, SameName, NameSaysAll
<1>3. SpeechIndexed'
  BY <1>1 DEF SpeechIInv, SpeechIndexed, Becomes, Finds, Says, Looks, Synthesizes, WritesAll,
              Replaces, PlaysFile, FallsBack
<1>4. CacheIsWhole /\ RunsOn(p) /\ p \in DOMAIN talker /\ p \in DOMAIN uttered
  BY DEF SpeechIInv, SpeechIndexed
<1>5. CASE Looks(p)
  <2>1. wavs' = wavs /\ uttered' = uttered
    BY <1>5 DEF Looks
  <2>2. /\ talker'[p] \in {"found", "idle", "misses"}
        /\ talker'[p] = "found" => File(wavs, path) # NoSound
        /\ talker'[p] = "idle" => ~wish[p].plays
    BY <1>4, <1>5 DEF Looks, Finds, Becomes
  <2>3. RunsOn(p)'
    BY <1>1, <1>2, <1>4, <2>1, <2>2 DEF RunsOn
  <2> QED BY <1>3, <1>4, <2>1, <2>3 DEF SpeechIInv, CacheIsWhole, Holds, Alone
<1>6. CASE Synthesizes(p)
  <2>1. /\ wavs' = wavs
        /\ \/ uttered' = uttered /\ talker'[p] \in {"fails", "writes"}
           \/ uttered'[p].by = "raised" /\ talker'[p] = "idle"
    <3>1. CASE Becomes(p, "idle") /\ Says(p, "raised", NoSound)
      BY <1>4, <1>6, <3>1 DEF Synthesizes, Becomes, Says
    <3>2. CASE (Becomes(p, "fails") \/ Becomes(p, "writes")) /\ UNCHANGED uttered
      BY <1>4, <1>6, <3>2 DEF Synthesizes, Becomes
    <3> QED BY <1>6, <3>1, <3>2 DEF Synthesizes
  <2>2. RunsOn(p)'
    BY <1>1, <1>2, <1>4, <2>1 DEF RunsOn
  <2> QED BY <1>3, <1>4, <2>1, <2>2 DEF SpeechIInv, CacheIsWhole, Holds, Alone
<1>7. CASE WritesAll(p)
  <2> DEFINE wav == Wav(Synthesis(p), TRUE)
  <2>1. uttered' = uttered /\ talker'[p] \in {"fails", "replaces"}
    BY <1>4, <1>7 DEF WritesAll, Becomes
  <2>2. \/ talker'[p] = "fails" /\ wavs' = wavs
        \/ File(temps, path) # NoSound /\ temps' = Put(temps, path, wav) /\ wavs' = wavs
        \/ File(temps, path) = NoSound /\ wavs' = Put(wavs, path, wav) /\ temps' = temps
    BY <1>4, <1>7 DEF WritesAll, Becomes
  <2>6. wav = Recorded(path)
    BY <1>2
  <2> HIDE DEF wav, path
  <2>7. /\ File(Put(temps, path, wav), path) = wav /\ File(Put(wavs, path, wav), path) = wav
        /\ \A q : q # path => File(Put(wavs, path, wav), q) = File(wavs, q)
    BY PutHolds
  <2>3. CacheIsWhole'
    <3>1. ASSUME NEW q PROVE File(wavs', q) \in {NoSound, Recorded(q)}
      BY <1>4, <2>2, <2>6, <2>7 DEF CacheIsWhole, Holds
    <3> QED BY <3>1 DEF CacheIsWhole, Holds
  <2>4. talker'[p] = "replaces" => File(temps', path) \in {NoSound, Recorded(path)}
    BY <2>2, <2>6, <2>7
  <2>5. RunsOn(p)'
    BY <1>1, <1>2, <1>4, <2>1, <2>4 DEF RunsOn, Holds, path
  <2> QED BY <1>3, <2>3, <2>5 DEF SpeechIInv, Alone
<1>8. CASE Replaces(p)
  <2>1. uttered' = uttered
    BY <1>8 DEF Replaces
  <2>2. \/ talker'[p] = "fails" /\ wavs' = wavs
        \/ /\ File(temps, path) # NoSound /\ wavs' = Put(wavs, path, File(temps, path))
           /\ talker'[p] \in {"found", "idle"} /\ (talker'[p] = "idle" => ~wish[p].plays)
    BY <1>4, <1>8 DEF Replaces, Becomes, Finds
  <2>3. Holds(temps, path)
    BY <1>4, <1>8 DEF Replaces, RunsOn
  <2>4. CacheIsWhole'
    BY <1>4, <2>2, <2>3, PutHolds DEF CacheIsWhole, Holds
  <2>5. talker'[p] = "found" => File(wavs', path) # NoSound
    BY <2>2, PutHolds
  <2>6. RunsOn(p)'
    BY <1>1, <1>2, <1>4, <2>1, <2>2, <2>5 DEF RunsOn
  <2> QED BY <1>3, <2>4, <2>6 DEF SpeechIInv, Alone
<1>9. CASE PlaysFile(p)
  <2>1. /\ wavs' = wavs /\ talker'[p] \in {"idle", "fails"}
        /\ uttered'[p] = [by |-> "engine", wav |-> File(wavs, path)]
    BY <1>4, <1>9 DEF PlaysFile, Says, Becomes
  <2>2. File(wavs, path) = Recorded(path)
    BY <1>4, <1>9 DEF PlaysFile, RunsOn, CacheIsWhole, Holds
  <2>3. RunsOn(p)'
    <3>1. uttered'[p].by = "engine" /\ uttered'[p].wav = Recorded(path)
      BY <2>1, <2>2
    <3> QED BY <1>2, <2>1, <3>1 DEF RunsOn
  <2> QED BY <1>3, <1>4, <2>1, <2>3 DEF SpeechIInv, CacheIsWhole, Holds, Alone
<1>10. CASE FallsBack(p)
  <2>3. /\ wavs' = wavs /\ talker'[p] = "idle"
        /\ \E wav : \E by \in {"raised", "windows", "console"} : Says(p, by, wav)
    BY <1>4, <1>10 DEF FallsBack, Becomes
  <2>4. uttered'[p].by \in {"raised", "windows", "console"}
    BY <1>4, <2>3 DEF Says
  <2>1. /\ wavs' = wavs /\ talker'[p] = "idle"
        /\ uttered'[p].by \in {"raised", "windows", "console"}
    BY <2>3, <2>4
  <2>2. RunsOn(p)'
    BY <2>1 DEF RunsOn
  <2> QED BY <1>3, <1>4, <2>1, <2>2 DEF SpeechIInv, CacheIsWhole, Holds, Alone
<1> QED BY <1>5, <1>6, <1>7, <1>8, <1>9, <1>10

\* Every step of the program that is alone keeps the invariant.
LEMMA SpeechNextInv == ASSUME Alone, SpeechIInv, [SpeechNext]_speechVars PROVE SpeechIInv'
<1>1. ASSUME NEW p \in Programs,
             \/ \E c \in Configs, engine \in Engines : StartTalker(p, c, engine)
             \/ \E text \in Texts, profile \in {"neutral", "happy"}, spoken \in BOOLEAN :
                  Wanted(p, text, profile, spoken)
             \/ TalkerDies(p)
      PROVE  SpeechIInv'
  BY <1>1, TalkerTurns
<1>2. ASSUME NEW p \in Programs,
             Looks(p) \/ Synthesizes(p) \/ WritesAll(p) \/ Replaces(p) \/ PlaysFile(p) \/ FallsBack(p)
      PROVE  SpeechIInv'
  BY <1>2, TalkerWorks
<1>3. CASE UNCHANGED speechVars
  <2>1. ASSUME NEW p \in Programs PROVE RunsOn(p)'
    <3>1. PathFor(p)' = PathFor(p)
      BY <1>3, SameName DEF speechVars
    <3> QED BY <1>3, <3>1 DEF speechVars, SpeechIInv, RunsOn, Holds
  <2> QED BY <1>3, <2>1 DEF speechVars, SpeechIInv, SpeechIndexed, CacheIsWhole, Holds
<1> QED BY <1>1, <1>2, <1>3 DEF SpeechNext

(* One process at a time plays whole recordings of the words asked for,    *)
(* in the voice and with the settings of its configuration, whatever       *)
(* earlier runs of any configuration left in the directory and wherever    *)
(* they were killed (AivisSpeechBackend).                                  *)
THEOREM SpeechSafety == ASSUME Alone PROVE SpeechSpec => []WordsAreAsAsked
<1>1. SpeechIInv => WordsAreAsAsked
  BY NameSaysAll DEF SpeechIInv, RunsOn, WordsAreAsAsked
<1>2. SpeechIInv /\ [SpeechNext]_speechVars => SpeechIInv'
  BY SpeechNextInv
<1> QED BY SpeechInitInv, <1>1, <1>2, PTL DEF SpeechSpec

(***************************************************************************)
(* The command line's program: where each thing may be open.  (There are   *)
(* no constants: TLC's run is exhaustive, and the proof says why it holds.) *)
(***************************************************************************)

MainTypes ==
    /\ mode \in Modes
    /\ at \in {"robot", "navigation", "test", "looks", "preview", "speech", "app", "patrol", "source",
               "run", "monitor", "loop", "stop", "camera", "close", "coordinator", "halt", "over"}
    /\ mission \in BOOLEAN /\ faulty \in BOOLEAN

\* Where a thing may be open: from its step to its end.  Once the application has begun to
\* close, an open robot is one that could not be closed.
Closing    == {"coordinator", "halt"}
RobotOpen  == robot = "open" => /\ at \notin {"robot", "looks"} /\ mode # "camera_test"
                                /\ at \in Closing => dropped = "close"
NavOpen    == /\ navigation = "open" => at \notin {"robot", "navigation", "looks"} /\ mode # "camera_test"
              /\ at = "halt" => navigation = "open"
AppOpen    == app = "open" => at \notin {"robot", "navigation", "test", "looks", "preview", "speech", "app"}
                                       \cup Closing
AppClosed  == app = "closed" => at \in Closing \cup {"over"}
SoundOpen  == monitor = "open" => at \in {"loop", "stop", "over"}
CameraOpen == camera = "open" => /\ at \in {"looks", "monitor", "loop", "stop", "camera", "over"}
                                 /\ at \in {"loop", "stop"} => mode \in Cameras
OnPatrol   == mission => /\ navigation # "none"
                         /\ at \in {"source", "run", "monitor", "loop", "stop", "camera", "close", "over"}
                                   \cup Closing
Undropped  == /\ at \in Closing => dropped \in {"none", "close"}
              /\ at \notin Closing \cup {"over"} => dropped = "none"
ModeAt     == /\ at = "monitor" => mode \in Cameras
              /\ mode = "camera_test" => at \in {"test", "looks", "over"}
MainIInv   == MainTypes /\ RobotOpen /\ NavOpen /\ AppOpen /\ AppClosed /\ SoundOpen /\ CameraOpen
              /\ OnPatrol /\ Undropped /\ ModeAt /\ NothingStaysOpen

\* What is asked for says where the program begins.
LEMMA MainInitInv == MainInit => MainIInv
<1> SUFFICES ASSUME MainInit PROVE MainIInv
  OBVIOUS
<1>1. /\ mode \in Modes /\ at \in {"robot", "navigation", "test"} /\ mission = FALSE
      /\ faulty = FALSE /\ dropped = "none"
      /\ robot = "none" /\ navigation = "none" /\ app = "none" /\ monitor = "none"
      /\ camera = "none"
      /\ mode = "camera_test" => at = "test"
  BY DEF MainInit
<1> QED BY <1>1 DEF MainIInv, MainTypes, RobotOpen, NavOpen, AppOpen, AppClosed, SoundOpen,
                    CameraOpen, OnPatrol, Undropped, Closing, ModeAt, NothingStaysOpen

\* Every step keeps the invariant.
LEMMA MainNextInv == MainIInv /\ [MainNext]_mainVars => MainIInv'
<1> SUFFICES ASSUME MainIInv, [MainNext]_mainVars PROVE MainIInv'
  OBVIOUS
<1> USE DEF MainIInv, MainTypes, RobotOpen, NavOpen, AppOpen, AppClosed, SoundOpen, CameraOpen,
            OnPatrol, Undropped, Closing, ModeAt, NothingStaysOpen, Closed, CloseBoth, Drops, CloseApp,
            LeaveNavigation, owned, patrol, media,
            Tests, Previews, Simulations, Cameras, Modes
<1>1. CASE CreateRobot
  BY <1>1 DEF CreateRobot
<1>2. CASE CreateNavigation
  BY <1>2 DEF CreateNavigation, AfterNavigation
<1>3. CASE PreviewMotion \/ PreviewTracking \/ ShowViewer
  BY <1>3 DEF PreviewMotion, PreviewTracking, ShowViewer, EndsClosing
<1>4. CASE TestNavigation \/ TestNotice
  BY <1>4 DEF TestNavigation, TestNotice, EndsClosing
<1>5. CASE TestArm
  BY <1>5 DEF TestArm
<1>6. CASE TestCamera
  BY <1>6 DEF TestCamera
<1>7. CASE CreateSpeech
  <2>1. /\ at = "speech" /\ mode # "camera_test" /\ app # "closed" /\ mission = FALSE
        /\ monitor # "open" /\ camera # "open" /\ app # "open"
    BY <1>7 DEF CreateSpeech
  <2>2. UNCHANGED <<mode, app, monitor, camera, dropped>>
    BY <1>7 DEF CreateSpeech
  <2>3. CASE at' = "app" /\ UNCHANGED owned
    BY <2>1, <2>2, <2>3
  <2>4. CASE at' = "over" /\ CloseBoth
    BY <2>1, <2>2, <2>4
  <2> QED BY <1>7, <2>3, <2>4 DEF CreateSpeech
<1>8. CASE MakeApp
  BY <1>8 DEF MakeApp
<1>9. CASE StartPatrol
  <2>1. /\ at = "patrol" /\ dropped = "none" /\ mission = FALSE /\ mode # "camera_test"
        /\ app # "closed" /\ monitor # "open" /\ camera # "open"
    BY <1>9 DEF StartPatrol
  <2>2. UNCHANGED <<mode, robot, navigation, app, monitor, camera, dropped>>
    BY <1>9 DEF StartPatrol
  <2>3. /\ at' \in {"source", "close"} /\ mission' \in BOOLEAN /\ faulty' \in BOOLEAN
        /\ mission' => navigation = "open"
    BY <1>9, <2>1 DEF StartPatrol
  <2> QED BY <2>1, <2>2, <2>3
<1>10. CASE CreateSource
  BY <1>10 DEF CreateSource
<1>11. CASE ClassifyFile
  BY <1>11 DEF ClassifyFile
<1>12. CASE Simulate \/ SimulateAudio \/ SimulateStealth
  BY <1>12 DEF Simulate, SimulateAudio, SimulateStealth, SamplesEnd
<1>13. CASE StartAudio
  BY <1>13 DEF StartAudio
<1>14. CASE OpenCamera
  BY <1>14 DEF OpenCamera
<1>15. CASE StartMonitor
  BY <1>15 DEF StartMonitor
<1>16. CASE BottleLoopEnds \/ StealthLoopEnds \/ AudioLoopEnds
  BY <1>16 DEF BottleLoopEnds, StealthLoopEnds, AudioLoopEnds, LoopEnds
<1>17. CASE StopMonitor
  BY <1>17 DEF StopMonitor
<1>18. CASE CloseCamera
  BY <1>18 DEF CloseCamera
<1>19. CASE CloseEngine
  BY <1>19 DEF CloseEngine
<1>22. CASE CloseStatus
  BY <1>22 DEF CloseStatus
<1>23. CASE CloseStops
  <2>1. /\ at = "halt" /\ at' = "over" /\ dropped \in {"none", "close"}
        /\ app # "open" /\ monitor # "open" /\ camera # "open" /\ navigation' # "open"
        /\ robot = "open" => dropped = "close"
    BY <1>23 DEF CloseStops
  <2>2. UNCHANGED <<mode, robot, app, monitor, camera, dropped>>
    BY <1>23 DEF CloseStops
  <2>3. /\ mission' \in BOOLEAN /\ faulty' \in BOOLEAN
        /\ mission' => faulty'
    BY <1>23 DEF CloseStops
  <2>4. navigation' # "none"
    BY <1>23 DEF CloseStops
  <2> QED BY <2>1, <2>2, <2>3, <2>4
<1>24. CASE LateUpdate
  <2>1. monitor' = "closed" /\ UNCHANGED <<mode, at, robot, navigation, mission, faulty, app, camera, dropped>>
    BY <1>24 DEF LateUpdate
  <2> QED BY <2>1
<1>25. CASE LinkFails
  <2>1. faulty' = TRUE /\ UNCHANGED <<mode, at, robot, navigation, mission, app, monitor, camera, dropped>>
    BY <1>25 DEF LinkFails
  <2> QED BY <2>1
<1>20. CASE Interrupt
  BY <1>20 DEF Interrupt
<1>21. CASE UNCHANGED mainVars
  BY <1>21 DEF mainVars
<1> QED BY <1>1, <1>2, <1>3, <1>4, <1>5, <1>6, <1>7, <1>8, <1>9, <1>10, <1>11, <1>12, <1>13, <1>14, <1>15, <1>16, <1>17, <1>18, <1>19, <1>20,
         <1>21, <1>22, <1>23, <1>24, <1>25 DEF MainNext

(* However far main came and whatever failed, but for the failures that    *)
(* nobody handles, nothing is open at its end; a patrol that is left going *)
(* is one whose link the adapter has seen fail; and no microphone runs for *)
(* a closed application (main, app.run_webcam, NavigationCoordinator.close). *)
THEOREM MainSafety == MainSpec => []NothingStaysOpen
<1>1. MainIInv => NothingStaysOpen
  BY DEF MainIInv
<1> QED BY MainInitInv, MainNextInv, <1>1, PTL DEF MainSpec

(***************************************************************************)
(* The arms of the real robot.  What the adapter does not know yet it has  *)
(* written down: a request the robot may still act on, an arm that may     *)
(* still be up, is unconfirmed or in trouble, and the thread that writes   *)
(* arm_sdk starts on neither.                                              *)
(***************************************************************************)

ArmTypes ==
    /\ player \in {"idle", "starting", "acting", "holding", "releasing", "parting"}
    /\ custom \in {"off", "pose", "writing", "letting_go"}
    /\ motion \in Presets \cup {"custom_notice", NoMotion}
    /\ preset \in {"rest", "raised", "waving"} /\ weight \in Nat

\* The arms have one owner, and it is the one that works.
OneOwner ==
    /\ player # "idle" <=> armOwner = "preset"
    /\ custom # "off" <=> armOwner = "custom"
    /\ player # "idle" => motion \in Presets

\* The arm_sdk weight is that of a thread at work, or of a release that was lost.
WeightIsHeld ==
    /\ custom = "letting_go" => weight > 0
    /\ weight > 0 /\ custom \in {"off", "pose"} => trouble

\* What the arm service may still do is unconfirmed.
PresetIsKnown ==
    /\ player = "parting" => trouble
    /\ late # NoAction => unconfirmed \/ trouble
    /\ player \in {"idle", "starting", "acting"} => preset = "rest" \/ unconfirmed \/ trouble

\* The thread started when nothing was unconfirmed, and nothing has become so since.
CustomIsSure ==
    /\ custom # "off" => ~unconfirmed
    /\ motion = "custom_notice" /\ started => ~unconfirmed
    /\ motion \in Presets /\ started => custom = "off"

\* A completion that was confirmed, a close and a shutdown that have returned.
EndsAreSure ==
    /\ confirmed => player = "idle" /\ custom = "off" /\ ~unconfirmed
    /\ armsClosed => player = "idle" /\ custom = "off"
    /\ shutdown = "returned" => player # "acting"

ArmIInv == ArmTypes /\ OneOwner /\ WeightIsHeld /\ PresetIsKnown /\ CustomIsSure /\ EndsAreSure

\* Nobody has the arms at first.
LEMMA ArmInitInv == ArmInit => ArmIInv
BY DEF ArmInit, ArmIInv, ArmTypes, OneOwner, WeightIsHeld, PresetIsKnown, CustomIsSure,
       EndsAreSure, Presets, NoMotion, NoAction

\* What an answer of the arm service says of the robot.
LEMMA AnswerSays ==
  ASSUME NEW a \in Presets \cup {"release"}, NEW how \in Answers, Returns(a, how),
         preset \in {"rest", "raised", "waving"}, late \in Presets \cup {"release", NoAction}
  PROVE  /\ preset' \in {"rest", "raised", "waving"}
         /\ late' \in Presets \cup {"release", NoAction}
         /\ how # "timeout" => late' = NoAction
         /\ how = "ok" /\ a = "release" => preset' = "rest"
         /\ a = "release" /\ late = NoAction => preset' \in {preset, "rest"}
<1>1. After(a) \in {"rest", "raised", "waving"} /\ After(late) \in {"rest", "raised", "waving"}
      /\ (a = "release" => After(a) = "rest") /\ (late = NoAction => After(late) = preset)
  BY DEF After, Presets, NoAction
<1> QED BY <1>1 DEF Returns, Times, Executes, Ignores, Answers

\* The reaction's motions keep the invariant.
LEMMA PlayerKeeps ==
  ASSUME ArmIInv, late \in Presets \cup {"release", NoAction},
         PlayCustom \/ (\E m \in Presets : PlayPreset(m)) \/ Send \/ Held
  PROVE  ArmIInv'
<1> USE DEF ArmIInv, ArmTypes, OneOwner, WeightIsHeld, PresetIsKnown, CustomIsSure, EndsAreSure,
            customVars, robotVars, callVars, Playing, NoMotion, NoAction
<1>1. CASE PlayCustom
  BY <1>1 DEF PlayCustom, Presets
<1>2. ASSUME NEW m \in Presets, PlayPreset(m) PROVE ArmIInv'
  BY <1>2 DEF PlayPreset, Presets
<1>3. CASE Send
  BY <1>3 DEF Send
<1>4. CASE Held
  BY <1>4 DEF Held
<1> QED BY <1>1, <1>2, <1>3, <1>4

\* So do the answers of the arm service.
LEMMA AnswersKeep ==
  ASSUME ArmIInv, late \in Presets \cup {"release", NoAction},
         NEW how \in Answers, Acted(how) \/ Released(how)
  PROVE  ArmIInv' /\ late' \in Presets \cup {"release", NoAction}
<1> USE DEF ArmIInv, ArmTypes, OneOwner, WeightIsHeld, PresetIsKnown, CustomIsSure, EndsAreSure,
            customVars, callVars, NoMotion, NoAction
<1>1. CASE Acted(how)
  <2>1. player = "acting" /\ motion \in Presets /\ Returns(motion, how)
    BY <1>1 DEF Acted
  <2>2. /\ preset' \in {"rest", "raised", "waving"}
        /\ late' \in Presets \cup {"release", NoAction} /\ (how # "timeout" => late' = NoAction)
    BY <2>1, AnswerSays
  <2>3. UNCHANGED <<shutdown, custom, toWrite, customError, weight, confirmed, motion, armsClosed>>
    BY <1>1 DEF Acted
  <2>4. custom = "off" /\ ~confirmed /\ ~armsClosed /\ shutdown # "returned" /\ armOwner = "preset"
    BY <2>1
  <2>5. CASE how = "raised"
    <3>1. trouble' = TRUE /\ player' \in {"parting", "idle"} /\ unconfirmed' = unconfirmed
          /\ started' = started /\ (armOwner' = IF player' = "idle" THEN "none" ELSE armOwner)
      BY <1>1, <2>5 DEF Acted
    <3> QED BY <2>1, <2>2, <2>3, <2>4, <3>1 DEF Presets
  <2>6. CASE how # "raised"
    <3>1. /\ player' = (IF motion = "notice" THEN "holding" ELSE "idle") /\ trouble' = trouble
          /\ unconfirmed' = (how = "timeout" \/ motion # "notice")
          /\ armOwner' = IF player' = "idle" THEN "none" ELSE armOwner
      BY <1>1, <2>6 DEF Acted
    <3> QED BY <2>1, <2>2, <2>3, <2>4, <3>1 DEF Presets
  <2> QED BY <2>5, <2>6
<1>2. CASE Released(how)
  <2>1. player \in {"releasing", "parting"} /\ Returns("release", how)
    BY <1>2 DEF Released
  <2>2. /\ preset' \in {"rest", "raised", "waving"}
        /\ late' \in Presets \cup {"release", NoAction} /\ (how # "timeout" => late' = NoAction)
        /\ how = "ok" => preset' = "rest"
    BY <2>1, AnswerSays
  <2>3. UNCHANGED <<shutdown, custom, toWrite, customError, weight, confirmed, motion, armsClosed>>
    BY <1>2 DEF Released
  <2>4. custom = "off" /\ ~confirmed /\ ~armsClosed /\ armOwner = "preset" /\ motion \in Presets
    BY <2>1
  <2>5. /\ unconfirmed' = (unconfirmed \/ (player = "releasing" /\ how = "timeout"))
        /\ trouble' = (trouble \/ how = "raised")
        /\ player' = "idle" /\ armOwner' = "none"
    BY <1>2 DEF Released
  <2>6. how \in {"ok", "timeout", "raised"}
    BY DEF Answers
  <2> QED BY <2>1, <2>2, <2>3, <2>4, <2>5, <2>6 DEF Presets
<1> QED BY <1>1, <1>2

\* So do the thread that writes arm_sdk, the waiting, the shutdown and the robot.
LEMMA OthersKeep ==
  ASSUME ArmIInv, late \in Presets \cup {"release", NoAction},
         \/ PoseRead \/ PoseFails \/ WriteSample \/ WriteFails \/ LetGo \/ LetGoFails
         \/ Confirm \/ RequestShutdown \/ CloseArms \/ RobotActs
  PROVE  ArmIInv'
<1> USE DEF ArmIInv, ArmTypes, OneOwner, WeightIsHeld, PresetIsKnown, CustomIsSure, EndsAreSure,
            customVars, robotVars, callVars, NoMotion, NoAction, CustomFrame, CustomOver
<1>1. CASE PoseRead
  BY <1>1 DEF PoseRead
<1>2. CASE PoseFails
  BY <1>2 DEF PoseFails
<1>3. CASE WriteSample
  BY <1>3, ArmAssumption DEF WriteSample, ArmAssumption
<1>4. CASE WriteFails
  BY <1>4 DEF WriteFails
<1>5. CASE LetGo
  BY <1>5 DEF LetGo
<1>6. CASE LetGoFails
  BY <1>6 DEF LetGoFails
<1>7. CASE Confirm
  BY <1>7 DEF Confirm
<1>8. CASE RequestShutdown
  BY <1>8 DEF RequestShutdown
<1>9. CASE CloseArms
  BY <1>9 DEF CloseArms
<1>10. CASE RobotActs
  BY <1>10 DEF RobotActs, Executes, After, Presets
<1> QED BY <1>1, <1>2, <1>3, <1>4, <1>5, <1>6, <1>7, <1>8, <1>9, <1>10

\* A request that timed out is one that was made.
LateIsAsked == late \in Presets \cup {"release", NoAction}

\* Every step keeps the invariant.
LEMMA ArmNextInv ==
  ArmIInv /\ LateIsAsked /\ [ArmNext]_armVars => ArmIInv' /\ LateIsAsked'
<1> SUFFICES ASSUME ArmIInv, LateIsAsked, [ArmNext]_armVars PROVE ArmIInv' /\ LateIsAsked'
  OBVIOUS
<1> USE DEF LateIsAsked
<1>1. CASE PlayCustom \/ (\E m \in Presets : PlayPreset(m)) \/ Send \/ Held
  <2>1. late' = late
    BY <1>1 DEF PlayCustom, PlayPreset, Playing, Send, Held, robotVars
  <2> QED BY <1>1, <2>1, PlayerKeeps
<1>2. ASSUME NEW how \in Answers, Acted(how) \/ Released(how) PROVE ArmIInv' /\ LateIsAsked'
  BY <1>2, AnswersKeep
<1>3. CASE \/ PoseRead \/ PoseFails \/ WriteSample \/ WriteFails \/ LetGo \/ LetGoFails
           \/ Confirm \/ RequestShutdown \/ CloseArms \/ RobotActs
  <2>1. late' \in {late, NoAction}
    BY <1>3 DEF PoseRead, PoseFails, WriteSample, WriteFails, LetGo, LetGoFails, Confirm,
                RequestShutdown, CloseArms, RobotActs, Executes, CustomFrame, robotVars
  <2> QED BY <1>3, <2>1, OthersKeep
<1>4. CASE UNCHANGED armVars
  BY <1>4 DEF armVars, ArmIInv, ArmTypes, OneOwner, WeightIsHeld, PresetIsKnown, CustomIsSure,
              EndsAreSure
<1> QED BY <1>1, <1>2, <1>3, <1>4 DEF ArmNext, ArmWorks

\* After a shutdown has returned only the release of a raised hand is sent.
LEMMA ShutdownSendsNothing ==
  ASSUME ArmIInv, LateIsAsked, [ArmNext]_armVars, shutdown = "returned", late = NoAction
  PROVE  preset' \in {preset, "rest"}
<1>1. preset \in {"rest", "raised", "waving"} /\ player # "acting"
  BY DEF ArmIInv, ArmTypes, EndsAreSure
<1>2. ASSUME NEW how \in Answers, Released(how) PROVE preset' \in {preset, "rest"}
  <2>1. Returns("release", how)
    BY <1>2 DEF Released
  <2> QED BY <1>1, <2>1, AnswerSays DEF LateIsAsked
<1>3. CASE RobotActs
  BY <1>3 DEF RobotActs
<1>4. CASE \/ PlayCustom \/ (\E m \in Presets : PlayPreset(m)) \/ Send \/ Held
           \/ PoseRead \/ PoseFails \/ WriteSample \/ WriteFails \/ LetGo \/ LetGoFails
           \/ Confirm \/ RequestShutdown \/ CloseArms \/ UNCHANGED armVars
  <2>1. preset' = preset
    BY <1>4 DEF PlayCustom, PlayPreset, Playing, Send, Held, PoseRead, PoseFails, WriteSample,
                WriteFails, LetGo, LetGoFails, Confirm, RequestShutdown, CloseArms,
                CustomFrame, robotVars, armVars
  <2> QED BY <2>1
<1>5. ASSUME NEW how \in Answers, Acted(how) PROVE FALSE
  BY <1>1, <1>5 DEF Acted
<1> QED BY <1>2, <1>3, <1>4, <1>5 DEF ArmNext, ArmWorks

(* The arm_sdk thread and the arm service never move the arms together,    *)
(* also when a request was not confirmed; arms that are reported at rest   *)
(* are, unless an action was refused; and a shutdown is final - for any    *)
(* number of motions, samples and release steps (G1RobotAdapter,           *)
(* CustomArmMotionController).                                             *)
THEOREM ArmSafety == ArmSpec => ArmsAreOwned
<1>1. ArmInit => ArmIInv /\ LateIsAsked
  BY ArmInitInv DEF ArmInit, LateIsAsked
<1>2. ArmIInv => OneArmMaster /\ RestIsReal
  <2> SUFFICES ASSUME ArmIInv PROVE OneArmMaster /\ RestIsReal
    OBVIOUS
  <2> USE DEF ArmIInv, ArmTypes, OneOwner, WeightIsHeld, PresetIsKnown, CustomIsSure, EndsAreSure
  <2>1. weight > 0 => preset = "rest" \/ trouble
    OBVIOUS
  <2>2. confirmed => (weight = 0 /\ preset = "rest") \/ trouble
    OBVIOUS
  <2>3. armsClosed => (weight = 0 /\ preset # "raised") \/ unconfirmed \/ trouble
    OBVIOUS
  <2> QED BY <2>1, <2>2, <2>3 DEF OneArmMaster, RestIsReal
<1>3. ArmIInv /\ LateIsAsked /\ [ArmNext]_armVars =>
        [shutdown = "returned" /\ late = NoAction => preset' \in {preset, "rest"}]_armVars
  BY ShutdownSendsNothing
<1> QED BY <1>1, <1>2, <1>3, ArmNextInv, PTL DEF ArmSpec, ArmsAreOwned, ShutdownIsFinal

(***************************************************************************)
(* The launchers.  A supervisor's stage says which of its children may     *)
(* live, and nothing but its own steps starts a child; a patrol may drive  *)
(* only after it has seen that it is alone, and by then it is seen.        *)
(***************************************************************************)

DemoIndexed ==
    /\ DOMAIN tool = Games /\ DOMAIN supervisor = Games /\ DOMAIN target = Games
    /\ DOMAIN level = Games
    /\ DOMAIN child = Games /\ \A g \in Games : DOMAIN child[g] = Children

\* No two games have patrols that may drive.
OneDrives == \A g, h \in Games : Drives(g) /\ Drives(h) => g = h

Early == {"checks", "asks", "relays"}

\* Which children a game has not: by its supervisor's stage and the one that ends next.
NoPatrol(g) ==
    \/ supervisor[g] \in {"none", "preflight", "starts", "resident", "dry"}
    \/ supervisor[g] = "stops" /\ target[g] # "patrol"
    \/ supervisor[g] = "over" /\ g \notin cut
NoReaction(g) ==
    \/ supervisor[g] \in {"none", "preflight", "starts", "resident", "waits"}
    \/ supervisor[g] = "stops" /\ target[g] = "resident"
    \/ supervisor[g] = "over" /\ g \notin cut
NoResident(g) ==
    \/ supervisor[g] \in {"none", "preflight", "starts", "waits", "pairs", "watches"}
    \/ supervisor[g] = "over" /\ g \notin cut /\ g \notin forgotten
ChildrenKnown(g) ==
    /\ NoPatrol(g) => ~Alive(g, "patrol")
    /\ NoReaction(g) => ~Alive(g, "reaction")
    /\ NoResident(g) => ~Alive(g, "resident")
GameKnown(g) ==
    /\ tool[g] \in Early => supervisor[g] = "none"
    /\ supervisor[g] = "stops" => target[g] \in Children
    /\ ChildrenKnown(g)

DemoIInv == DemoIndexed /\ OneDrives /\ \A g \in Games : GameKnown(g)

\* A game that was not touched, but for children of it that ended or were released.
Untouched(h) ==
    /\ supervisor'[h] = supervisor[h] /\ target'[h] = target[h] /\ tool'[h] = tool[h]
    /\ (h \in cut' <=> h \in cut) /\ (h \in forgotten' <=> h \in forgotten)
    /\ \A c \in Children : Alive(h, c)' => Alive(h, c)

\* Such a game stays as it was known.
LEMMA UntouchedKeeps ==
  ASSUME NEW h \in Games, GameKnown(h), Untouched(h)
  PROVE  GameKnown(h)'
BY DEF GameKnown, Untouched, ChildrenKnown, NoPatrol, NoReaction, NoResident, Children, Alive

\* Children end, drive on, and start nothing: no patrol begins to drive.
Calmer ==
    /\ DemoIndexed'
    /\ \A h \in Games, c \in Children : Alive(h, c)' => Alive(h, c)
    /\ \A h \in Games : Drives(h)' => Drives(h)

\* A child changes its state, and no other does.
LEMMA OneBecomes ==
  ASSUME DemoIndexed, NEW g \in Games, NEW c \in Children, NEW s, Become(g, c, s)
  PROVE  /\ DOMAIN child' = Games /\ \A h \in Games : DOMAIN child'[h] = Children
         /\ child'[g][c] = s
         /\ \A h \in Games, d \in Children : h # g \/ d # c => child'[h][d] = child[h][d]
BY DEF DemoIndexed, Become

\* No game has a child yet.
LEMMA DemoInitInv == DemoInit => DemoIInv
<1> SUFFICES ASSUME DemoInit PROVE DemoIInv
  OBVIOUS
<1>1. DemoIndexed
  BY DEF DemoInit, DemoIndexed
<1>2. \A g \in Games, c \in Children : ~Alive(g, c)
  BY DEF DemoInit, Alive
<1>3. \A g \in Games : ~Drives(g)
  BY DEF DemoInit, Drives, Children
<1>4. ASSUME NEW g \in Games PROVE GameKnown(g)
  <2>1. supervisor[g] \in {"none", "preflight"} /\ (tool[g] \in Early => supervisor[g] = "none")
    BY DEF DemoInit, Early
  <2> QED BY <1>2, <2>1 DEF GameKnown, ChildrenKnown, Children
<1> QED BY <1>1, <1>3, <1>4 DEF DemoIInv, OneDrives

\* The tool's own steps and the supervisor's that start and end no child.
LEMMA StagesKeep ==
  ASSUME DemoIInv, NEW g \in Games,
         \/ Check(g) \/ Ask(g) \/ StartRelays(g) \/ SeeSupervisorEnd(g) \/ KillSupervisor(g)
         \/ StopRelays(g) \/ Preflight(g) \/ GiveUpWaiting(g) \/ Watch(g) \/ DryEnds(g)
         \/ SendSignal(g) \/ NextChild(g) \/ CtrlC(g) \/ StopTool(g)
  PROVE  /\ child' = child /\ DemoIndexed' /\ GameKnown(g)'
         /\ \A h \in Games \ {g} : Untouched(h)
<1>1. DemoIndexed /\ GameKnown(g)
  BY DEF DemoIInv
<1>2. child' = child /\ \A h \in Games, c \in Children : Alive(h, c)' <=> Alive(h, c)
  BY DEF Check, Ask, StartRelays, SeeSupervisorEnd, KillSupervisor, StopRelays, Preflight, Alive,
         GiveUpWaiting, Watch, DryEnds, SendSignal, NextChild, CtrlC, StopTool
<1> USE DEF Enter, ToolTo, Finally, toolVars, stopVars, Interrupted
<1>3. DemoIndexed'
  BY <1>1, <1>2 DEF Check, Ask, StartRelays, SeeSupervisorEnd, KillSupervisor, StopRelays,
         Preflight, GiveUpWaiting, Watch, DryEnds, SendSignal, NextChild, CtrlC, StopTool,
         DemoIndexed
<1>4. \A h \in Games \ {g} : Untouched(h)
  BY <1>1, <1>2 DEF Check, Ask, StartRelays, SeeSupervisorEnd, KillSupervisor, StopRelays,
         Preflight, GiveUpWaiting, Watch, DryEnds, SendSignal, NextChild, CtrlC, StopTool,
         DemoIndexed, Untouched
<1> USE DEF DemoIndexed, GameKnown, ChildrenKnown, NoPatrol, NoReaction, NoResident, Children, Early
<1>5. CASE Check(g)
  BY <1>1, <1>2, <1>3, <1>4, <1>5 DEF Check
<1>6. CASE Ask(g)
  BY <1>1, <1>2, <1>3, <1>4, <1>6 DEF Ask
<1>7. CASE StartRelays(g)
  BY <1>1, <1>2, <1>3, <1>4, <1>7 DEF StartRelays
<1>8. CASE SeeSupervisorEnd(g)
  BY <1>1, <1>2, <1>3, <1>4, <1>8 DEF SeeSupervisorEnd
<1>9. CASE KillSupervisor(g)
  BY <1>1, <1>2, <1>3, <1>4, <1>9 DEF KillSupervisor
<1>10. CASE StopRelays(g)
  BY <1>1, <1>2, <1>3, <1>4, <1>10 DEF StopRelays
<1>11. CASE Preflight(g)
  BY <1>1, <1>2, <1>3, <1>4, <1>11 DEF Preflight
<1>12. CASE GiveUpWaiting(g)
  BY <1>1, <1>2, <1>3, <1>4, <1>12 DEF GiveUpWaiting
<1>13. CASE Watch(g)
  BY <1>1, <1>2, <1>3, <1>4, <1>13 DEF Watch
<1>14. CASE DryEnds(g)
  BY <1>1, <1>2, <1>3, <1>4, <1>14 DEF DryEnds
<1>15. CASE SendSignal(g)
  BY <1>1, <1>2, <1>3, <1>4, <1>15 DEF SendSignal
<1>16. CASE NextChild(g)
  BY <1>1, <1>2, <1>3, <1>4, <1>16 DEF NextChild, ChildAfter
<1>17. CASE CtrlC(g)
  BY <1>1, <1>2, <1>3, <1>4, <1>17 DEF CtrlC
<1>18. CASE StopTool(g)
  BY <1>1, <1>2, <1>3, <1>4, <1>18 DEF StopTool
<1> QED BY <1>5, <1>6, <1>7, <1>8, <1>9, <1>10, <1>11, <1>12, <1>13, <1>14, <1>15, <1>16, <1>17, <1>18

\* A game with only fewer children than it had, and the stage it had.
LEMMA CalmKeeps ==
  ASSUME DemoIInv, Calmer, UNCHANGED <<tool, supervisor, target, level, cut, forgotten>>
  PROVE  DemoIInv'
<1>1. OneDrives'
  BY DEF Calmer, DemoIInv, OneDrives
<1>2. ASSUME NEW h \in Games PROVE GameKnown(h)'
  BY UntouchedKeeps DEF DemoIInv, Calmer, Untouched
<1> QED BY <1>1, <1>2 DEF DemoIInv, Calmer

\* A patrol that is released was one that drives.
LEMMA ReleaseIsCalm ==
  ASSUME DemoIInv, NEW h \in Games, Drives(h), Become(h, "patrol", "released")
  PROVE  /\ DOMAIN child' = Games /\ \A k \in Games : DOMAIN child'[k] = Children
         /\ \A k \in Games, c \in Children : Alive(k, c)' => Alive(k, c)
         /\ \A k \in Games : Drives(k)' => Drives(k)
<1>1. /\ DOMAIN child' = Games /\ \A k \in Games : DOMAIN child'[k] = Children
      /\ child'[h]["patrol"] = "released"
      /\ \A k \in Games, d \in Children : k # h \/ d # "patrol" => child'[k][d] = child[k][d]
  BY OneBecomes DEF DemoIInv, Children
<1> QED BY <1>1 DEF Drives, Alive, Children

\* The supervisor's steps that start a child or release a patrol.
LEMMA StartsKeep ==
  ASSUME DemoIInv, NEW g \in Games,
         LaunchPatrol(g) \/ SeePaused(g) \/ StartResident(g) \/ SeeResident(g)
  PROVE  DemoIInv'
<1>1. DemoIndexed /\ GameKnown(g)
  BY DEF DemoIInv
<1>2. PICK d \in Children, s \in {"observes", "up"} :
        /\ Become(g, d, s) \/ UNCHANGED child
        /\ s = "up" => d # "patrol"
  BY DEF LaunchPatrol, SeePaused, StartResident, SeeResident, Children
<1>3. /\ DOMAIN child' = Games /\ \A h \in Games : DOMAIN child'[h] = Children
      /\ child'[g][d] = s \/ child'[g][d] = child[g][d]
      /\ \A h \in Games, c \in Children : h # g \/ c # d => child'[h][c] = child[h][c]
  BY <1>1, <1>2, OneBecomes DEF DemoIndexed
<1> USE DEF Enter, ToolTo, Finally, toolVars, stopVars
<1>4. DemoIndexed'
  BY <1>1, <1>3 DEF LaunchPatrol, SeePaused, StartResident, SeeResident, DemoIndexed
<1>5. OneDrives'
  <2>1. \A h \in Games : Drives(h)' => Drives(h)
    BY <1>2, <1>3 DEF Drives, Children
  <2> QED BY <2>1 DEF DemoIInv, OneDrives
<1>6. \A h \in Games \ {g} : Untouched(h)
  <2>1. \A h \in Games \ {g}, c \in Children : Alive(h, c)' => Alive(h, c)
    BY <1>3 DEF Alive
  <2> QED BY <1>1, <2>1 DEF LaunchPatrol, SeePaused, StartResident, SeeResident, DemoIndexed,
                            Untouched
<1>7. GameKnown(g)'
  <2> USE DEF DemoIndexed, GameKnown, ChildrenKnown, NoPatrol, NoReaction, NoResident, Children,
              Early, Alive, Become
  <2>1. CASE LaunchPatrol(g)
    BY <1>1, <2>1 DEF LaunchPatrol
  <2>2. CASE SeePaused(g)
    BY <1>1, <2>2 DEF SeePaused
  <2>3. CASE StartResident(g)
    BY <1>1, <2>3 DEF StartResident
  <2>4. CASE SeeResident(g)
    BY <1>1, <2>4 DEF SeeResident
  <2> QED BY <2>1, <2>2, <2>3, <2>4
<1> QED BY <1>4, <1>5, <1>6, <1>7, UntouchedKeeps DEF DemoIInv

\* So do the releases of a patrol.
LEMMA ReleasesKeep ==
  ASSUME DemoIInv, NEW g \in Games, ReleasePatrol(g) \/ ReleaseFails(g)
  PROVE  DemoIInv'
<1>1. DemoIndexed /\ GameKnown(g)
  BY DEF DemoIInv
<1>2. /\ DOMAIN child' = Games /\ \A k \in Games : DOMAIN child'[k] = Children
      /\ \A k \in Games, c \in Children : Alive(k, c)' => Alive(k, c)
      /\ \A k \in Games : Drives(k)' => Drives(k)
  <2>1. CASE UNCHANGED child
    BY <1>1, <2>1 DEF DemoIndexed, Alive, Drives
  <2>2. ASSUME NEW h \in Games, Drives(h), Become(h, "patrol", "released")
        PROVE  /\ DOMAIN child' = Games /\ \A k \in Games : DOMAIN child'[k] = Children
               /\ \A k \in Games, c \in Children : Alive(k, c)' => Alive(k, c)
               /\ \A k \in Games : Drives(k)' => Drives(k)
    BY <2>2, ReleaseIsCalm
  <2> QED BY <2>1, <2>2 DEF ReleasePatrol, ReleaseFails
<1> USE DEF Enter, Finally, toolVars, stopVars
<1>3. DemoIndexed'
  BY <1>1, <1>2 DEF ReleasePatrol, ReleaseFails, DemoIndexed
<1>4. OneDrives'
  BY <1>2 DEF DemoIInv, OneDrives
<1>5. \A h \in Games \ {g} : Untouched(h)
  BY <1>1, <1>2 DEF ReleasePatrol, ReleaseFails, DemoIndexed, Untouched
<1>6. GameKnown(g)'
  BY <1>1, <1>2 DEF ReleasePatrol, ReleaseFails, DemoIndexed, GameKnown, ChildrenKnown, NoPatrol,
                    NoReaction, NoResident, Children, Early
<1> QED BY <1>3, <1>4, <1>5, <1>6, UntouchedKeeps DEF DemoIInv

\* So does a patrol that has looked around, and a child that ends.
LEMMA ChildStepsKeep ==
  ASSUME DemoIInv, NEW g \in Games,
         PatrolChecks(g) \/ \E c \in Children : ChildEnds(g, c)
  PROVE  DemoIInv'
<1>1. DemoIndexed
  BY DEF DemoIInv
<1>2. UNCHANGED <<tool, supervisor, target, level, cut, forgotten>>
  BY DEF PatrolChecks, ChildEnds, toolVars, stopVars
<1>3. ASSUME NEW c \in Children, Become(g, c, "over") PROVE DemoIInv'
  <2>1. /\ DOMAIN child' = Games /\ \A h \in Games : DOMAIN child'[h] = Children
        /\ child'[g][c] = "over"
        /\ \A h \in Games, d \in Children : h # g \/ d # c => child'[h][d] = child[h][d]
    BY <1>1, <1>3, OneBecomes
  <2>2. Calmer
    BY <1>1, <1>2, <2>1 DEF Calmer, DemoIndexed, Alive, Drives, Children
  <2> QED BY <1>2, <2>2, CalmKeeps
<1>4. CASE child[g]["patrol"] = "observes" /\ ~OtherPatrol(g) /\ Become(g, "patrol", "paused")
  <2>1. /\ DOMAIN child' = Games /\ \A h \in Games : DOMAIN child'[h] = Children
        /\ child'[g]["patrol"] = "paused"
        /\ \A h \in Games, d \in Children : h # g \/ d # "patrol" => child'[h][d] = child[h][d]
    BY <1>1, <1>4, OneBecomes DEF Children
  <2>2. \A h \in Games : Drives(h)' => h = g
    BY <1>4, <2>1 DEF Drives, OtherPatrol, Alive, Children
  <2>3. \A h \in Games, c \in Children : Alive(h, c)' => Alive(h, c)
    BY <1>4, <2>1 DEF Alive, Children
  <2>4. \A h \in Games : GameKnown(h)'
    BY <1>2, <2>3, UntouchedKeeps DEF DemoIInv, Untouched
  <2>5. DemoIndexed' /\ OneDrives'
    BY <1>1, <1>2, <2>1, <2>2 DEF DemoIndexed, OneDrives
  <2> QED BY <2>4, <2>5 DEF DemoIInv
<1> QED BY <1>3, <1>4 DEF PatrolChecks, ChildEnds, Children

\* Every step of a game, of its children and of the operator keeps the invariant.
LEMMA DemoNextInv == DemoIInv /\ [DemoNext]_demoVars => DemoIInv'
<1> SUFFICES ASSUME DemoIInv, [DemoNext]_demoVars PROVE DemoIInv'
  OBVIOUS
<1>1. ASSUME NEW g \in Games,
             \/ Check(g) \/ Ask(g) \/ StartRelays(g) \/ SeeSupervisorEnd(g) \/ KillSupervisor(g)
             \/ StopRelays(g) \/ Preflight(g) \/ GiveUpWaiting(g) \/ Watch(g) \/ DryEnds(g)
             \/ SendSignal(g) \/ NextChild(g) \/ CtrlC(g) \/ StopTool(g)
      PROVE  DemoIInv'
  <2>1. /\ child' = child /\ DemoIndexed' /\ GameKnown(g)'
        /\ \A h \in Games \ {g} : Untouched(h)
    BY <1>1, StagesKeep
  <2>2. OneDrives'
    BY <2>1 DEF DemoIInv, OneDrives, Drives
  <2> QED BY <2>1, <2>2, UntouchedKeeps DEF DemoIInv
<1>2. ASSUME NEW g \in Games,
             LaunchPatrol(g) \/ SeePaused(g) \/ StartResident(g) \/ SeeResident(g)
      PROVE  DemoIInv'
  BY <1>2, StartsKeep
<1>3. ASSUME NEW g \in Games, ReleasePatrol(g) \/ ReleaseFails(g) PROVE DemoIInv'
  BY <1>3, ReleasesKeep
<1>4. ASSUME NEW g \in Games, PatrolChecks(g) \/ \E c \in Children : ChildEnds(g, c)
      PROVE  DemoIInv'
  BY <1>4, ChildStepsKeep
<1>5. CASE UNCHANGED demoVars
  <2>1. Calmer
    BY <1>5 DEF demoVars, Calmer, DemoIInv, DemoIndexed, Alive, Drives
  <2> QED BY <1>5, <2>1, CalmKeeps DEF demoVars
<1> QED BY <1>1, <1>2, <1>3, <1>4, <1>5 DEF DemoNext, SupervisorStep

(* However games are launched, interrupted and killed, however many: one   *)
(* patrol at a time may drive the robot, and a supervisor that came to its *)
(* end leaves no child behind (the safety half of LaunchIsSafe).           *)
THEOREM LaunchSafety == DemoSpec => [](OnePatrolDrives /\ NothingIsLeft)
<1>1. DemoIInv => OnePatrolDrives
  <2> SUFFICES ASSUME DemoIInv PROVE OnePatrolDrives
    OBVIOUS
  <2>1. CASE \A g \in Games : ~Drives(g)
    <3>1. {g \in Games : Drives(g)} = {}
      BY <2>1
    <3> QED BY <3>1, FS_EmptySet DEF OnePatrolDrives
  <2>2. ASSUME NEW g \in Games, Drives(g) PROVE OnePatrolDrives
    <3>1. {h \in Games : Drives(h)} = {g}
      BY <2>2 DEF DemoIInv, OneDrives
    <3>2. Cardinality({g}) = 1
      BY FS_Singleton
    <3> QED BY <3>1, <3>2 DEF OnePatrolDrives
  <2> QED BY <2>1, <2>2
<1>2. DemoIInv => NothingIsLeft
  BY DEF DemoIInv, GameKnown, ChildrenKnown, NoPatrol, NoReaction, NoResident, Children,
         NothingIsLeft
<1> QED BY DemoInitInv, DemoNextInv, <1>1, <1>2, PTL DEF DemoSpec

================================================================================
