---------------------------- MODULE MCRobotPrograms ----------------------------
(* The programs of the robot that do not talk to each other, side by side: one  *)
(* of them runs, the others rest in their initial states.                       *)
EXTENDS ArmMotion, ArmTrajectory, SafeAction, WanderInterlock, VoiceLine, DemoLauncher,
        MainProgram, MujocoRobot, SpeechCache

VARIABLE part    \* which of them runs

MinusFour   == -4
SomeOffsets == {-2, 0, 1, 5}

Style(name, id) == [name |-> name, id |-> id]
SomeEngines ==
  { << [name |-> "shigeru", styles |-> << Style("calm", 1), Style("mid", 2) >>] >>,
    << [name |-> "other", styles |-> << Style("normal", 3) >>],
       [name |-> "shigeru", styles |-> << Style("mid", 2) >>] >>,
    << >> }

\* The profiles of a run: happy may be said in a style and with a setting of its own.
Profiles(style, scale) ==
  [neutral |-> [style |-> NoSound, scale |-> 1], happy |-> [style |-> style, scale |-> scale]]
SomeConfigs ==
  { [speaker |-> "shigeru", styleNames |-> << "calm", "mid" >>, styleId |-> NoSound,
     profiles |-> Profiles("mid", 1), fallback |-> "windows"],
    [speaker |-> "shigeru", styleNames |-> << "calm" >>, styleId |-> NoSound,
     profiles |-> Profiles("mid", 2), fallback |-> "none"],
    [speaker |-> NoSound, styleNames |-> << >>, styleId |-> NoSound,
     profiles |-> Profiles("calm", 1), fallback |-> "console"],
    [speaker |-> NoSound, styleNames |-> << >>, styleId |-> 2,
     profiles |-> [neutral |-> [style |-> NoSound, scale |-> 1]], fallback |-> "none"] }

allVars ==
  << part, armVars, trajectoryVars, safeVars, interlockVars, voiceVars, demoVars, mainVars,
     mujocoVars, speechVars >>

RobotInit ==
  /\ part \in {"arm", "trajectory", "notice", "wander", "voice", "demo", "main", "simulator",
            "speech"}
  /\ ArmInit /\ TrajectoryInit /\ SafeInit /\ InterlockInit /\ VoiceInit
  /\ DemoInit /\ MainInit /\ MujocoInit /\ SpeechInit
  /\ part # "trajectory" => keyframes = << 0, 0, 0 >>
  /\ part # "wander" => walker = "none" /\ pidFile = FALSE
  /\ part # "demo" => walks = [g \in Games |-> TRUE]
  /\ part # "main" => mode = "viewer"

RobotNext ==
  /\ UNCHANGED part
  /\ \/ /\ part = "arm" /\ ArmNext
        /\ UNCHANGED << trajectoryVars, safeVars, interlockVars, voiceVars, demoVars,
                        mainVars, mujocoVars, speechVars >>
     \/ /\ part = "trajectory" /\ TrajectoryNext
        /\ UNCHANGED << armVars, safeVars, interlockVars, voiceVars, demoVars,
                        mainVars, mujocoVars, speechVars >>
     \/ /\ part = "notice" /\ SafeNext
        /\ UNCHANGED << armVars, trajectoryVars, interlockVars, voiceVars, demoVars,
                        mainVars, mujocoVars, speechVars >>
     \/ /\ part = "wander" /\ InterlockNext
        /\ UNCHANGED << armVars, trajectoryVars, safeVars, voiceVars, demoVars,
                        mainVars, mujocoVars, speechVars >>
     \/ /\ part = "voice" /\ VoiceNext
        /\ UNCHANGED << armVars, trajectoryVars, safeVars, interlockVars, demoVars,
                        mainVars, mujocoVars, speechVars >>
     \/ /\ part = "demo" /\ DemoNext
        /\ UNCHANGED << armVars, trajectoryVars, safeVars, interlockVars, voiceVars,
                        mainVars, mujocoVars, speechVars >>
     \/ /\ part = "main" /\ MainNext
        /\ UNCHANGED << armVars, trajectoryVars, safeVars, interlockVars, voiceVars,
                        demoVars, mujocoVars, speechVars >>
     \/ /\ part = "simulator" /\ MujocoNext
        /\ UNCHANGED << armVars, trajectoryVars, safeVars, interlockVars, voiceVars,
                        demoVars, mainVars, speechVars >>
     \/ /\ part = "speech" /\ SpeechNext
        /\ UNCHANGED << armVars, trajectoryVars, safeVars, interlockVars, voiceVars,
                        demoVars, mainVars, mujocoVars >>

\* The fairness of each module, for the part that runs.
RobotSpec ==
  /\ RobotInit /\ [][RobotNext]_allVars
  /\ WF_safeVars(part = "notice" /\ HelperWorks)
  /\ \A g \in Games : /\ WF_demoVars(part = "demo" /\ SupervisorStep(g))
                       /\ WF_demoVars(part = "demo" /\ Killed(g))
=============================================================================
