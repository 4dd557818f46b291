------------------------------- MODULE MCPictures -------------------------------
(* The parts that decide on what a sensor shows: the wander loop on the LiDAR's  *)
(* points, the viewer of the game on its images, the gate of the found reactions *)
(* on the detector's results and the SLAM session on the robot's pose.  One      *)
(* runs, the others rest.                                                        *)
EXTENDS Wander, GameView, FoundGate, SlamSession

VARIABLE part    \* which of them runs

SomePoints == {<<"front", 1>>, <<"left", 0>>}

allVars == << part, wanderVars, gameVars, gateVars, slamVars >>

PicturesInit ==
  /\ part \in {"wander", "game", "gate", "slam"}
  /\ WanderInit /\ GameInit /\ GateInit /\ SlamInit
  /\ part # "game" => source = "webcam" /\ inFov = TRUE /\ mixedUp = FALSE

PicturesNext ==
  /\ UNCHANGED part
  /\ \/ part = "wander" /\ WanderNext /\ UNCHANGED << gameVars, gateVars, slamVars >>
     \/ part = "game" /\ GameNext /\ UNCHANGED << wanderVars, gateVars, slamVars >>
     \/ part = "gate" /\ GateNext /\ UNCHANGED << wanderVars, gameVars, slamVars >>
     \/ part = "slam" /\ SlamNext /\ UNCHANGED << wanderVars, gameVars, gateVars >>

PicturesSpec == PicturesInit /\ [][PicturesNext]_allVars
=============================================================================
