-------------------------- MODULE MCPatrolController --------------------------
(* Instances of PatrolController for TLC.  A forward stage and a turn are the   *)
(* only two kinds of stage, so a route of one of each shows every step.         *)
EXTENDS PatrolInvariant

ShortRoute == <<"FORWARD_OUT", "TURN_BACK">>
ForwardRoute == <<"FORWARD_OUT">>
==============================================================================
