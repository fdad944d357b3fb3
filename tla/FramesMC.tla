------------------------------ MODULE FramesMC -------------------------------
(* Instances of Frames for TLC: an arena that starts and ends off the largest *)
(* order's alignment, with reserved pages in its middle.                      *)
EXTENDS Frames
==============================================================================
