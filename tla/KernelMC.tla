------------------------------ MODULE KernelMC -------------------------------
(* Instances of Kernel for TLC: the code's four slots, and bounds on what    *)
(* the heap supplies and on what is typed.                                   *)
EXTENDS Kernel
==============================================================================
