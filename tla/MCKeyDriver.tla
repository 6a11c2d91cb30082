---------------------------- MODULE MCKeyDriver -----------------------------
(* KeyDriver with the clock and the edges bounded. *)
EXTENDS KeyDriver
=============================================================================
