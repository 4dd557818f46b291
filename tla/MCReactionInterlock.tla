-------------------------- MODULE MCReactionInterlock --------------------------
(* ReactionInterlock for TLC, in its two profiles: the normal one that is extended, *)
(* and the attended one of the hackathon, with status polls and recoverable aborts, *)
(* one reaction and a shorter backlog.                                              *)
EXTENDS ReactionInterlock

VARIABLE attended    \* --hackathon-runtime was given

H == INSTANCE ReactionInterlock WITH Hackathon <- TRUE, Backlog <- 2, MaxJobs <- 1

ProfileInit == Init /\ attended \in BOOLEAN

ProfileNext ==
    /\ UNCHANGED attended
    /\ (~attended /\ Next) \/ (attended /\ H!Next)

\* The fairness of ReactionInterlock, for the profile that runs.
ProfileSpec ==
    /\ ProfileInit /\ [][ProfileNext]_<<vars, attended>>
    /\ WF_vars(CameraGoesOn) /\ WF_vars(Voice) /\ WF_vars(Serve)
    /\ \A c \in Clients : WF_vars(GiveUp(c))
    /\ SF_vars(IF attended THEN H!CloseInterlock ELSE CloseInterlock)
    /\ WF_vars(IF attended THEN H!Worker ELSE Worker)
    /\ WF_vars(IF attended THEN H!Completion /\ ~H!Resume ELSE Completion /\ ~Resume)
    /\ SF_vars(IF attended THEN H!Resume ELSE Resume)

\* In both profiles a pause believed owned is in force.  In the normal one the arms
\* move only beside a standing patrol, and no abort is lost; the attended one can
\* break both (InterlockAbort.cfg, with either as its invariant).
InterlockInv ==
    /\ TypeOK /\ OwnershipIsReal
    /\ ~attended => ArmsOnlyWhileHeld /\ AbortIsFinal

\* The patrol is resumed only after the job, its motion and its voice have all been
\* confirmed, with the worker at rest, unless the operator attends.
ResumesAreEarned ==
    [][~attended /\ patrol = "paused" /\ patrol' = "going" => Earned]_vars

\* Every reaction and every closing ends, and in the normal profile every pause.  (The
\* attended server may have died of a late reply.)
InterlockEnds == ReactionEnds /\ CloseEnds /\ (attended \/ PauseEnds)
================================================================================
