----------------------------- MODULE PauseService -----------------------------
(***************************************************************************)
(* What the patrol promises to whoever asks it to stand still: between the *)
(* confirmation of a pause and its release the robot is not told to move,  *)
(* and a patrol that is over never is again.                               *)
(***************************************************************************)
VARIABLES mode,   \* "free": may move, "held": a confirmed pause, "over"
          cmd     \* the command last given to the robot

Init == mode \in {"free", "held"} /\ cmd = "STOP"

Move    == mode = "free" /\ cmd' = "MOVE" /\ UNCHANGED mode
Stop    == cmd' = "STOP" /\ UNCHANGED mode
Confirm == mode = "free" /\ cmd = "STOP" /\ mode' = "held" /\ UNCHANGED cmd
Release == mode = "held" /\ mode' = "free" /\ UNCHANGED cmd
Finish  == cmd = "STOP" /\ mode' = "over" /\ UNCHANGED cmd

Next == Move \/ Stop \/ Confirm \/ Release \/ Finish

Spec == Init /\ [][Next]_<<mode, cmd>>
===============================================================================
