---------------------------- MODULE MCRobotTasks ----------------------------
(* RobotTasks with the six moods of mood_init. *)
EXTENDS RobotTasks

MCMoods == <<"HAPPY", "PEACE", "SAD", "FEAR", "ANGRY", "SPECAIL">>
=============================================================================
