--------------------------- MODULE MCRobotProgram ---------------------------
(* RobotProgram with two of the moods of mood_init: how many there are is nothing to the *)
(* tasks, that some are created and some are not (no memory) is.                         *)
EXTENDS RobotProgram

MCMoods == <<"HAPPY", "SAD">>
=============================================================================
