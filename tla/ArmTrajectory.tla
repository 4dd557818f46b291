---------------------------- MODULE ArmTrajectory ----------------------------
(***************************************************************************)
(* The positions of a custom motion, for one joint (the code treats each   *)
(* on its own): keyframes are validated when the configuration is loaded,  *)
(* the pose the robot reports becomes the base, and every sample is        *)
(* clamped to the joint's envelope and to the step a period allows.        *)
(* Angles are integers; smoothstep and the amplitude's scale are any value *)
(* between what the neighbouring keyframes ask for.                        *)
(***************************************************************************)
EXTENDS Integers, Sequences, FiniteSetsExt

CONSTANTS Low, High,     \* the joint's official range
          Margin,        \* safety_margin_radians
          MaxDelta,      \* max_delta_per_step_radians
          Offsets,       \* offsets a keyframe may ask for
          KeyPeriods     \* update periods between two keyframes

ASSUME TrajectoryAssumption ==
    /\ Low \in Int /\ High \in Int /\ Offsets \subseteq Int
    /\ Margin \in Nat /\ MaxDelta \in Nat /\ KeyPeriods \in Nat \ {0}

VARIABLES keyframes, \* the offsets of the motion's keyframes
          stage,     \* loading, posing, sampling, built or refused
          base,      \* base_pose
          sample,    \* index of the next sample
          position   \* the last sample's position ("previous")

trajectoryVars == <<keyframes, stage, base, sample, position>>

SafeLow == Low + Margin
SafeHigh == High - Margin
LastSample == KeyPeriods * (Len(keyframes) - 1)

Clamp(x, lo, hi) == Min({Max({x, lo}), hi})

TrajectoryInit ==
    /\ keyframes \in [1..3 -> Offsets]
    /\ stage = "loading" /\ base = 0 /\ sample = 0 /\ position = 0

(* load_custom_motion_config: a motion starts and ends at the current pose *)
(* and the margin leaves a range.                                          *)
ValidMotion == keyframes[1] = 0 /\ keyframes[Len(keyframes)] = 0
ValidConfig == High - Low > 2 * Margin

Load ==
    /\ stage = "loading"
    /\ stage' = IF ValidMotion /\ ValidConfig THEN "posing" ELSE "refused"
    /\ UNCHANGED <<keyframes, base, sample, position>>

(* The pose must lie in the envelope: the robot may report any.            *)
TakePose(pose) ==
    /\ stage = "posing"
    /\ base' = pose /\ position' = pose
    /\ stage' = IF pose \in SafeLow..SafeHigh THEN "sampling" ELSE "refused"
    /\ UNCHANGED <<keyframes, sample>>

\* What _sample_offsets, scaled, may ask for at the next sample.
Asked ==
    LET left == sample \div KeyPeriods + 1
        at   == keyframes[left]
        to   == keyframes[Min({left + 1, Len(keyframes)})]
    IN IF sample % KeyPeriods = 0 THEN Min({at, 0})..Max({at, 0})
       ELSE Min({at, to, 0})..Max({at, to, 0})

\* Mutant: a motion that did not come back to its base is not refused.
TakeSampleUnchecked ==
    /\ stage = "sampling"
    /\ \E offset \in Asked :
         position' = position + Clamp(Clamp(base + offset, SafeLow, SafeHigh) - position,
                                      -MaxDelta, MaxDelta)
    /\ sample' = sample + 1
    /\ stage' = IF sample < LastSample THEN "sampling" ELSE "built"
    /\ UNCHANGED <<keyframes, base>>

(* One round of build_relative_trajectory; the last sample must be back at *)
(* the base, or the motion is refused.                                     *)
TakeSample ==
    /\ stage = "sampling"
    /\ \E offset \in Asked :
         position' = position + Clamp(Clamp(base + offset, SafeLow, SafeHigh) - position,
                                      -MaxDelta, MaxDelta)
    /\ sample' = sample + 1
    /\ stage' = IF sample < LastSample THEN "sampling"
                ELSE IF position' = base THEN "built" ELSE "refused"
    /\ UNCHANGED <<keyframes, base>>

TrajectoryNext == Load \/ \E pose \in Low..High : TakePose(pose) \/ TakeSample
TrajectorySpec == TrajectoryInit /\ [][TrajectoryNext]_trajectoryVars
-----------------------------------------------------------------------------
(* From the pose it starts at to the pose at which the arms are let go, a  *)
(* motion stays in the joint's envelope and never steps wider than one     *)
(* period allows: neither where the weight is taken nor where it is given  *)
(* back does the arm jump.                                                 *)
NoJump ==
    /\ stage \in {"sampling", "built"} => position \in SafeLow..SafeHigh
    /\ stage = "sampling" /\ sample <= 1 => position = base
    /\ stage = "built" => position = base
=============================================================================
