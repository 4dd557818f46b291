------------------------------ MODULE MainProgram ------------------------------
(* The command line's program (main.py) and the loops of app.py: it opens the   *)
(* robot, the navigation, the speech output, the application that owns them, a  *)
(* microphone and a camera, one after the other, and each of them may fail to    *)
(* open.  Who closes what is already open depends on how far the program came.   *)
(* Two threads go on beside it: the audio worker, which stop() waits for no more *)
(* than five seconds, and the navigation's heartbeat.                            *)

VARIABLES
  mode,      \* what the arguments ask for
  at,        \* the program's next step
  robot,     \* "none", "open" or "closed"; likewise the next four
  navigation,
  app,       \* the application owns robot and navigation; closing it closes them
  monitor,   \* the audio monitor: "none", "made", "open", "late" (stopped, but its worker
             \* is still in a classification) or "closed"
  camera,
  mission,   \* the robot has a patrol, going or paused
  faulty,    \* _resume_inhibited: the navigation's adapter has seen its link fail
  dropped    \* the step that failed where nobody closes what is open, or "none"

mainVars == << mode, at, robot, navigation, app, monitor, camera, mission, faulty,
               dropped >>
media    == << monitor, camera >>
patrol   == << mission, faulty >>
owned    == << robot, navigation, patrol >>

Tests       == {"navigation_test", "arm_test", "notice_test", "camera_test"}
Previews    == {"motion_preview", "tracking_preview", "viewer"}
Simulations == {"simulation", "audio_simulation", "stealth_simulation"}
Cameras     == {"bottle", "stealth"}
Modes       == Tests \cup Previews \cup Simulations \cup Cameras \cup {"file", "audio"}

MainInit ==
  /\ mode \in Modes
  /\ at = (CASE mode = "navigation_test" -> "navigation"
             [] mode = "camera_test" -> "test"
             [] OTHER -> "robot")
  /\ robot = "none" /\ navigation = "none" /\ app = "none" /\ monitor = "none"
  /\ camera = "none" /\ mission = FALSE /\ faulty = FALSE /\ dropped = "none"

Closed(thing) == IF thing = "open" THEN "closed" ELSE thing

\* Robot and navigation are closed without the application: nobody is told to stop.
CloseBoth ==
  robot' = Closed(robot) /\ navigation' = Closed(navigation) /\ UNCHANGED patrol

\* The step raises, and main reports it: what is open stays open.
Drops == at' = "over" /\ dropped' = at

-------------------------------------------------------------------------------
(* Opening. *)

\* A robot that fails to initialize has released itself.
CreateRobot ==
  /\ at = "robot"
  /\ \/ robot' = "open" /\ at' = (IF mode \in Tests THEN "test" ELSE "navigation")
     \/ robot' = robot /\ at' = "over"
  /\ UNCHANGED << mode, navigation, app, media, patrol, dropped >>

AfterNavigation ==
  CASE mode \in Tests -> "test" [] mode \in Previews -> "preview" [] OTHER -> "speech"

\* Navigation is asked for or not; one that cannot be created closes the robot.
CreateNavigation ==
  /\ at = "navigation"
  /\ \/ /\ navigation' \in {"none", "open"} /\ UNCHANGED robot
        /\ at' = AfterNavigation
     \/ at' = "over" /\ robot' = Closed(robot) /\ UNCHANGED navigation
  /\ UNCHANGED << mode, app, media, patrol, dropped >>

EndsClosing == at' = "over" /\ CloseBoth /\ UNCHANGED << mode, app, media, dropped >>

\* The previews and the bare viewer: the navigation is closed first, the robot in a
\* finally, also when the robot is of the wrong kind.
PreviewMotion   == at = "preview" /\ mode = "motion_preview" /\ EndsClosing
PreviewTracking == at = "preview" /\ mode = "tracking_preview" /\ EndsClosing
ShowViewer      == at = "preview" /\ mode = "viewer" /\ EndsClosing

\* --navigation-test and the custom notice end in a finally; the arm's test closes
\* nothing.
TestNavigation == at = "test" /\ mode = "navigation_test" /\ EndsClosing
TestNotice     == at = "test" /\ mode = "notice_test" /\ EndsClosing
TestArm        == at = "test" /\ mode = "arm_test" /\ Drops
                  /\ UNCHANGED << mode, owned, app, media >>

\* The camera's test opens it before its try.
TestCamera ==
  /\ mode = "camera_test"
  /\ \/ at = "test" /\ camera' = "open" /\ at' = "looks"
     \/ at = "test" /\ camera' = camera /\ at' = "over"
     \/ at = "looks" /\ camera' = "closed" /\ at' = "over"
  /\ UNCHANGED << mode, owned, app, monitor, dropped >>

CreateSpeech ==
  /\ at = "speech"
  /\ \/ at' = "app" /\ UNCHANGED owned
     \/ at' = "over" /\ CloseBoth
  /\ UNCHANGED << mode, app, media, dropped >>

MakeApp ==
  /\ at = "app"
  /\ \/ app' = "open" /\ at' = "patrol" /\ UNCHANGED dropped
     \/ Drops /\ UNCHANGED app
  /\ UNCHANGED << mode, owned, media >>

\* The application's close() begins; see below.
CloseApp == at' = "close"

\* --start-patrol; a patrol that is refused, or that starts while its answer is lost,
\* closes the application.
StartPatrol ==
  /\ at = "patrol"
  /\ \/ /\ at' = "source" /\ mission' \in BOOLEAN /\ UNCHANGED faulty
        /\ mission' => navigation = "open" /\ ~faulty
     \/ CloseApp /\ UNCHANGED patrol
     \/ /\ CloseApp /\ navigation = "open" /\ ~faulty
        /\ faulty' = TRUE /\ mission' \in BOOLEAN
  /\ UNCHANGED << mode, robot, navigation, app, media, dropped >>

\* The classifier of a file; the monitor with its source and classifier; a simulation
\* needs none of them.  "--no-camera" without a monitor is refused here as well.
CreateSource ==
  /\ at = "source"
  /\ \/ /\ at' = "run" /\ UNCHANGED dropped
        /\ CASE mode = "audio"  -> monitor' = "made"
             [] mode \in Cameras -> monitor' \in {"none", "made"}
             [] OTHER -> UNCHANGED monitor
     \/ mode \notin Simulations /\ Drops /\ UNCHANGED monitor
  /\ UNCHANGED << mode, owned, app, camera >>

-------------------------------------------------------------------------------
(* Running and closing. *)

\* classify_wav_file, in a try whose finally closes the application.
ClassifyFile ==
  /\ at = "run" /\ mode = "file" /\ CloseApp
  /\ UNCHANGED << mode, owned, app, media, dropped >>

\* The application is closed after the last sample, not when one fails.
SamplesEnd ==
  /\ \/ CloseApp /\ UNCHANGED dropped
     \/ Drops
  /\ UNCHANGED << mode, owned, app, media >>

Simulate        == at = "run" /\ mode = "simulation" /\ SamplesEnd
SimulateAudio   == at = "run" /\ mode = "audio_simulation" /\ SamplesEnd
SimulateStealth == at = "run" /\ mode = "stealth_simulation" /\ SamplesEnd

\* run_audio_only: a monitor that does not start has stopped its own worker, which no
\* chunk had reached.
StartAudio ==
  /\ at = "run" /\ mode = "audio"
  /\ \/ monitor' = "open" /\ at' = "loop"
     \/ CloseApp /\ UNCHANGED monitor
  /\ UNCHANGED << mode, owned, app, camera, dropped >>

\* run_webcam: the detector is loaded before anything is protected; a camera that does
\* not open closes the application; a monitor that does not start ends the loop.
OpenCamera ==
  /\ at = "run" /\ mode \in Cameras
  /\ \/ camera' = "open" /\ at' = "monitor" /\ UNCHANGED dropped
     \/ CloseApp /\ UNCHANGED << camera, dropped >>
     \/ Drops /\ UNCHANGED camera
  /\ UNCHANGED << mode, owned, app, monitor >>

StartMonitor ==
  /\ at = "monitor"
  /\ IF monitor = "none" THEN at' = "loop" /\ UNCHANGED monitor
     ELSE \/ at' = "loop" /\ monitor' = "open"
          \/ at' = "stop" /\ UNCHANGED monitor
  /\ UNCHANGED << mode, owned, app, camera, dropped >>

LoopEnds == at = "loop" /\ at' = "stop" /\ UNCHANGED << mode, owned, app, media, dropped >>

\* A key, Ctrl-C, a camera without frames, the detector's or the audio worker's error.
BottleLoopEnds  == mode = "bottle" /\ LoopEnds
StealthLoopEnds == mode = "stealth" /\ LoopEnds
AudioLoopEnds   == mode = "audio" /\ LoopEnds

\* finally: the microphone first, then its worker, which gets the sentinel and five
\* seconds (AudioMonitor.stop): one in a longer classification is left behind.
StopMonitor ==
  /\ at = "stop"
  /\ \/ monitor' \in (IF monitor = "open" THEN {"closed", "late"} ELSE {monitor})
        /\ at' = (IF mode \in Cameras THEN "camera" ELSE "close") /\ UNCHANGED dropped
     \/ monitor # "none" /\ Drops /\ UNCHANGED monitor
  /\ UNCHANGED << mode, owned, app, camera >>

\* The worker that was left behind hands its update to process_audio after all, whatever
\* has been closed meanwhile, and comes to the sentinel.  (What an engine that is closed
\* makes of its event: ReactionEngine.)
LateUpdate ==
  /\ monitor = "late" /\ monitor' = "closed"
  /\ UNCHANGED << mode, at, owned, app, camera, dropped >>

CloseCamera ==
  /\ at = "camera"
  /\ \/ camera' = Closed(camera) /\ at' = "close" /\ UNCHANGED dropped
     \/ Drops /\ UNCHANGED camera
  /\ UNCHANGED << mode, owned, app, monitor >>

-------------------------------------------------------------------------------
(* close() of the application: the engine and its robot, in a try whose finally *)
(* closes the navigation's coordinator.                                          *)

\* The engine drains its queue and closes the robot; an error or a Ctrl-C in the
\* meantime leaves the robot open, and the coordinator is closed all the same.
CloseEngine ==
  /\ at = "close" /\ at' = "coordinator" /\ app' = "closed"
  /\ \/ robot' = Closed(robot) /\ UNCHANGED dropped
     \/ robot' = robot /\ dropped' = at
  /\ UNCHANGED << mode, navigation, patrol, media >>

\* The finally of the coordinator's close(), after which the program ends.
LeaveNavigation == navigation' = Closed(navigation) /\ at' = "over"

\* Mutant: the application closes its navigation without the coordinator.
NavigationJustCloses ==
  /\ at = "coordinator" /\ LeaveNavigation
  /\ UNCHANGED << mode, robot, app, media, patrol, dropped >>

\* The coordinator asks for the status.  A fault seen before is answered from the latch,
\* without a request; a request that fails, in one of the ways the transport's contract
\* has, is remembered; either way no stop is sent.
CloseStatus ==
  /\ at = "coordinator"
  /\ \/ navigation = "none" /\ LeaveNavigation /\ UNCHANGED faulty
     \/ navigation = "open" /\ LeaveNavigation /\ faulty' = TRUE
     \/ navigation = "open" /\ ~mission /\ LeaveNavigation /\ UNCHANGED faulty
     \/ navigation = "open" /\ mission /\ at' = "halt" /\ UNCHANGED << navigation, faulty >>
  /\ UNCHANGED << mode, robot, app, media, mission, dropped >>

\* The stop of a patrol that goes or is paused; one that fails is swallowed, whether the
\* robot has carried it out or not.
CloseStops ==
  /\ at = "halt" /\ LeaveNavigation
  /\ \/ mission' = FALSE /\ UNCHANGED faulty
     \/ mission' \in BOOLEAN /\ faulty' = TRUE
  /\ UNCHANGED << mode, robot, app, media, dropped >>

\* A heartbeat fails, or a request of a reaction.
LinkFails ==
  /\ navigation = "open" /\ ~faulty /\ faulty' = TRUE
  /\ UNCHANGED << mode, at, robot, navigation, app, media, mission, dropped >>

\* Ctrl-C where no finally and no handler of it is around; in the coordinator's close()
\* there is the finally.
Interrupt ==
  /\ at \notin {"preview", "test", "looks", "monitor", "loop", "close", "over"}
  /\ ~(at = "run" /\ mode = "file")
  /\ Drops
  /\ navigation' = IF at \in {"coordinator", "halt"} THEN Closed(navigation) ELSE navigation
  /\ UNCHANGED << mode, robot, app, media, patrol >>

MainNext ==
  \/ CreateRobot \/ CreateNavigation \/ PreviewMotion \/ PreviewTracking \/ ShowViewer
  \/ TestNavigation \/ TestNotice \/ TestArm \/ TestCamera \/ CreateSpeech \/ MakeApp
  \/ StartPatrol \/ CreateSource \/ ClassifyFile \/ Simulate \/ SimulateAudio
  \/ SimulateStealth \/ StartAudio \/ OpenCamera \/ StartMonitor \/ BottleLoopEnds
  \/ StealthLoopEnds \/ AudioLoopEnds \/ StopMonitor \/ LateUpdate \/ CloseCamera
  \/ CloseEngine \/ CloseStatus \/ CloseStops \/ LinkFails \/ Interrupt

MainSpec == MainInit /\ [][MainNext]_mainVars

-------------------------------------------------------------------------------
(* However far the program came and whatever failed, but for the failures that   *)
(* nobody handles: at its end nothing is open; once the application has begun to *)
(* close, a patrol that is left going is one whose link the adapter has seen     *)
(* fail, even when closing the robot failed; and no microphone runs for a closed *)
(* application, whose last audio event can only be that of a worker stop() gave  *)
(* up on (main.main, app.run_webcam, run_audio_only, NavigationCoordinator.close). *)
NothingStaysOpen ==
  /\ at = "over" /\ dropped = "none" =>
       "open" \notin {robot, navigation, app, monitor, camera}
  /\ at = "over" /\ dropped \in {"none", "close"} =>
       navigation # "open" /\ (mission => faulty)
  /\ app = "closed" => monitor # "open"

=============================================================================
