--------------------------- MODULE MCFrameConfig ----------------------------
(* FrameConfig with a number that does not fit a byte. *)
EXTENDS FrameConfig

MCNumbers == {260}
=============================================================================
