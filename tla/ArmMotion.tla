------------------------------ MODULE ArmMotion ------------------------------
(***************************************************************************)
(* The arms of the real robot: G1RobotAdapter plays preset actions by RPC  *)
(* and, opted in, a custom motion that a thread writes to the arm_sdk      *)
(* topic; MotionOwnership keeps the two apart.  The reaction worker plays, *)
(* another thread asks for the shutdown, and the robot may act on a        *)
(* request whose answer timed out (3104) later, or never.                  *)
(*                                                                         *)
(* A trajectory is a number of writes at full weight followed by writes of *)
(* falling weight; its positions are in ArmTrajectory.                     *)
(***************************************************************************)
EXTENDS Naturals

CONSTANTS Samples,      \* writes of a custom trajectory
          ReleaseSteps, \* writes that let go of the arms; the full weight
          MaxPlays      \* bound: motions played

ASSUME ArmAssumption ==
    /\ Samples \in Nat \ {0} /\ ReleaseSteps \in Nat \ {0} /\ MaxPlays \in Nat

Presets == {"notice", "spot_target"}
NoMotion == "-"
NoAction == "-"

VARIABLES player,      \* where play_motion_timed is
          motion,      \* _last_motion_name
          started,     \* _last_motion_started
          unconfirmed, \* _preset_completion_unconfirmed
          armOwner,    \* MotionOwnership.owner
          shutdown,    \* request_shutdown: not asked, asked, returned
          custom,      \* what the custom thread does ("off": _busy is free)
          toWrite,     \* samples it has still to write
          customError, \* CustomArmMotionController.error
          weight,      \* the arm_sdk weight the robot has
          preset,      \* what the arm service does: at rest, hand up, waving
          late,        \* a timed-out request the robot may still act on
          trouble,     \* an action was refused, or a release write was lost
          confirmed,   \* the last wait_for_motion_complete said so
          armsClosed,  \* close() has returned
          plays        \* motions played

armVars == <<player, motion, started, unconfirmed, armOwner, shutdown, custom,
             toWrite, customError, weight, preset, late, trouble, confirmed,
             armsClosed, plays>>

callVars == <<motion, plays, armsClosed>>
customVars == <<custom, toWrite, customError, weight>>
robotVars == <<preset, late>>

ArmInit ==
    /\ player = "idle" /\ motion = NoMotion /\ started = FALSE
    /\ unconfirmed = FALSE /\ armOwner = "none" /\ shutdown = "no"
    /\ custom = "off" /\ toWrite = 0 /\ customError = FALSE /\ weight = 0
    /\ preset = "rest" /\ late = NoAction
    /\ trouble = FALSE /\ confirmed = FALSE /\ armsClosed = FALSE /\ plays = 0

(* play_motion_timed: a motion is asked for.                               *)
Playing(m) ==
    /\ player = "idle" /\ ~armsClosed /\ plays < MaxPlays
    /\ plays' = plays + 1
    /\ motion' = m
    /\ confirmed' = FALSE
    /\ UNCHANGED <<unconfirmed, shutdown, weight, robotVars, trouble, armsClosed>>

\* Mutant: a completion that was not confirmed does not keep the thread off the arms.
PlayCustomBlind ==
    /\ Playing("custom_notice")
    /\ LET free == custom = "off" /\ armOwner = "none"
       IN /\ started' = free
          /\ armOwner' = IF free THEN "custom" ELSE armOwner
          /\ custom' = IF free THEN "pose" ELSE custom
          /\ customError' = (customError /\ ~free)
    /\ UNCHANGED <<player, toWrite>>

\* The controller starts its thread if neither it nor an action has the arms.
PlayCustom ==
    /\ Playing("custom_notice")
    /\ LET free == ~unconfirmed /\ custom = "off" /\ armOwner = "none"
       IN /\ started' = free
          /\ armOwner' = IF free THEN "custom" ELSE armOwner
          /\ custom' = IF free THEN "pose" ELSE custom
          /\ customError' = (customError /\ ~free)
    /\ UNCHANGED <<player, toWrite>>

PlayPreset(m) ==
    /\ Playing(m)
    /\ started' = FALSE
    /\ LET free == armOwner = "none"
       IN /\ armOwner' = IF free THEN "preset" ELSE armOwner
          /\ player' = IF free THEN "starting" ELSE "idle"
    /\ UNCHANGED <<custom, toWrite, customError>>

(* The shutdown is looked at, and the action sent, under                   *)
(* _motion_start_lock, which "acting" holds until the answer.              *)
Send ==
    /\ player = "starting"
    /\ IF shutdown = "no"
       THEN player' = "acting" /\ UNCHANGED armOwner
       ELSE player' = "idle" /\ armOwner' = "none"
    /\ UNCHANGED <<started, unconfirmed, shutdown, customVars, robotVars, trouble,
                   confirmed, callVars>>

(* The arm service acts in order: what came late is done before.           *)
After(a) == CASE a = "notice" -> "raised" [] a = "spot_target" -> "waving"
              [] a = "release" -> "rest" [] a = NoAction -> preset

Executes(a) == preset' = After(a) /\ late' = NoAction
Ignores == preset' = After(late) /\ late' = NoAction
Times(a) == Executes(a) \/ Ignores \/ (preset' = After(late) /\ late' = a)

\* The answers of ExecuteAction: done, timed out (3104), or an exception.
Returns(a, how) ==
    CASE how = "ok" -> Executes(a)
      [] how = "timeout" -> Times(a)
      [] how = "raised" -> Executes(a) \/ Ignores

Answers == {"ok", "timeout", "raised"}

(* What follows the action: the hold and the release of a notice, or the   *)
(* end; an exception goes to the finally clause, which releases the arms   *)
(* only when a shutdown has been asked for.                                *)
Acted(how) ==
    /\ player = "acting"
    /\ Returns(motion, how)
    /\ IF how = "raised"
       THEN /\ player' = IF motion = "notice" /\ shutdown # "no" THEN "parting" ELSE "idle"
            /\ trouble' = TRUE
            /\ UNCHANGED <<unconfirmed, started>>
       ELSE /\ player' = IF motion = "notice" THEN "holding" ELSE "idle"
            /\ unconfirmed' = (how = "timeout" \/ motion # "notice")
            /\ started' = (motion # "notice")
            /\ UNCHANGED trouble
    /\ armOwner' = IF player' = "idle" THEN "none" ELSE armOwner
    /\ UNCHANGED <<shutdown, customVars, confirmed, callVars>>

Held ==
    /\ player = "holding" /\ player' = "releasing"
    /\ UNCHANGED <<started, unconfirmed, armOwner, shutdown, customVars, robotVars,
                   trouble, confirmed, callVars>>

\* The one release of a notice; that of the finally clause only logs.
Released(how) ==
    /\ player \in {"releasing", "parting"}
    /\ Returns("release", how)
    /\ started' = (player = "releasing" /\ how # "raised")
    /\ unconfirmed' = (unconfirmed \/ (player = "releasing" /\ how = "timeout"))
    /\ trouble' = (trouble \/ how = "raised")
    /\ player' = "idle" /\ armOwner' = "none"
    /\ UNCHANGED <<shutdown, customVars, confirmed, callVars>>

(* The custom thread (_run): the pose, the samples, then _release_control; *)
(* whatever happens it gives the arms back.                                *)
CustomFrame == UNCHANGED <<player, started, unconfirmed, shutdown, robotVars,
                           confirmed, callVars>>
CustomOver == custom' = "off" /\ armOwner' = "none"

PoseRead ==
    /\ custom = "pose"
    /\ custom' = "writing" /\ toWrite' = Samples
    /\ UNCHANGED <<armOwner, customError, weight, trouble>> /\ CustomFrame

\* No pose, or no trajectory from it: nothing has been written.
PoseFails ==
    /\ custom = "pose"
    /\ customError' = TRUE /\ CustomOver
    /\ UNCHANGED <<toWrite, weight, trouble>> /\ CustomFrame

WriteSample ==
    /\ custom = "writing"
    /\ weight' = ReleaseSteps /\ toWrite' = toWrite - 1
    /\ custom' = IF toWrite = 1 THEN "letting_go" ELSE "writing"
    /\ UNCHANGED <<armOwner, customError, trouble>> /\ CustomFrame

WriteFails ==
    /\ custom = "writing"
    /\ customError' = TRUE /\ toWrite' = 0
    /\ IF weight > 0 THEN custom' = "letting_go" /\ UNCHANGED armOwner ELSE CustomOver
    /\ UNCHANGED <<weight, trouble>> /\ CustomFrame

LetGo ==
    /\ custom = "letting_go"
    /\ weight' = weight - 1
    /\ IF weight = 1 THEN CustomOver ELSE UNCHANGED <<custom, armOwner>>
    /\ UNCHANGED <<toWrite, customError, trouble>> /\ CustomFrame

\* The release is given up with a log entry and no error.
LetGoFails ==
    /\ custom = "letting_go"
    /\ trouble' = TRUE /\ CustomOver
    /\ UNCHANGED <<toWrite, customError, weight>> /\ CustomFrame

(* wait_for_motion_complete of the last motion; a custom thread that is    *)
(* still alive has outlived the timeout.                                   *)
Confirm ==
    /\ player = "idle" /\ motion # NoMotion /\ ~armsClosed
    /\ confirmed' = /\ started
                    /\ IF motion = "custom_notice" THEN custom = "off" /\ ~customError
                       ELSE ~unconfirmed
    /\ UNCHANGED <<player, started, unconfirmed, armOwner, shutdown, customVars,
                   robotVars, trouble, callVars>>

(* request_shutdown sets the event, then passes once through the lock.     *)
RequestShutdown ==
    /\ \/ shutdown = "no" /\ shutdown' = "asked"
       \/ shutdown = "asked" /\ player # "acting" /\ shutdown' = "returned"
    /\ UNCHANGED <<player, started, unconfirmed, armOwner, customVars, robotVars,
                   trouble, confirmed, callVars>>

(* close(), after the worker: it joins the custom thread.                  *)
CloseArms ==
    /\ player = "idle" /\ custom = "off" /\ ~armsClosed
    /\ armsClosed' = TRUE
    /\ UNCHANGED <<player, motion, started, unconfirmed, armOwner, shutdown,
                   customVars, robotVars, trouble, confirmed, plays>>

\* The robot: a timed-out request takes effect, a wave comes to its end.
RobotActs ==
    /\ \/ late # NoAction /\ Executes(late)
       \/ preset = "waving" /\ preset' = "rest" /\ UNCHANGED late
    /\ UNCHANGED <<player, started, unconfirmed, armOwner, shutdown, customVars,
                   trouble, confirmed, callVars>>

ArmWorks ==
    \/ Send \/ Held \/ \E how \in Answers : Acted(how) \/ Released(how)
    \/ PoseRead \/ PoseFails \/ WriteSample \/ WriteFails \/ LetGo \/ LetGoFails
    \/ shutdown = "asked" /\ RequestShutdown
ArmNext ==
    \/ PlayCustom \/ \E m \in Presets : PlayPreset(m)
    \/ ArmWorks \/ Confirm \/ RequestShutdown \/ CloseArms \/ RobotActs

ArmSpec == ArmInit /\ [][ArmNext]_armVars
-----------------------------------------------------------------------------
\* The arm_sdk thread moves the arms only while the arm service leaves them alone.
OneArmMaster == weight > 0 => preset = "rest" \/ trouble

(* Once request_shutdown has returned no arm is raised any more, but by a  *)
(* request whose answer had already timed out.                             *)
ShutdownIsFinal ==
    [][shutdown = "returned" /\ late = NoAction => preset' \in {preset, "rest"}]_armVars

\* A completion that is confirmed, on which the patrol resumes, and a close that has
\* returned both mean arms that are down and let go.
RestIsReal ==
    /\ confirmed => (weight = 0 /\ preset = "rest") \/ trouble
    /\ armsClosed => (weight = 0 /\ preset # "raised") \/ unconfirmed \/ trouble

(* The arm_sdk thread and the arm service never move the arms together, also *)
(* when a request of the service has not been confirmed, and arms that are   *)
(* reported at rest are; an action that was refused is the exception, for    *)
(* the adapter then knows no more than before.  And a shutdown is final.     *)
ArmsAreOwned == [](OneArmMaster /\ RestIsReal) /\ ShutdownIsFinal
=============================================================================
