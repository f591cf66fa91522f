----------------------------- MODULE MCMainLoop -----------------------------
(* A clock of eight ticks; timesteps of zero (a word that is no number),   *)
(* two and three ticks, and one that was negative.                         *)
EXTENDS MainLoop

MCWrap == 8
MCWide == 18
MCTimesteps == {0, 2, 3, MCWide - 2}
=============================================================================
