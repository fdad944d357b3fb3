-------------------------------- MODULE TimeMC ---------------------------------
(* Instances of Time for TLC: a second of four nanoseconds.                   *)
EXTENDS Time

MCDurations == {0, 1, 2, 3, 4, 6, 8, 9}
===============================================================================
