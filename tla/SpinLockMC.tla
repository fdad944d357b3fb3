------------------------------ MODULE SpinLockMC -------------------------------
(* Two cores and the three locks of the kernel: SCHED, under which the heap   *)
(* is used, HEAP, and INPUT_BUFFER.                                           *)
EXTENDS SpinLock, TLC

MCInner == ("sched" :> {"heap"}) @@ ("heap" :> {}) @@ ("input" :> {})

Symmetry == Permutations(Cores)
===============================================================================
