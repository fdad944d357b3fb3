------------------------------- MODULE StartupMC -------------------------------
(* What kmain brings up one after the other, in one instance: what Boot says   *)
(* of the board and the interrupts, and mm::init.  A behavior is one of them,  *)
(* from each of its initial states, while the other rests in one of its own:   *)
(* all that passes between them is where the memory is, and MemoryMap takes    *)
(* every such region by itself.                                                *)
EXTENDS BootMC, MemoryMapMC

VARIABLE part   \* the one that moves

startupVars == <<part, bootVars, vars>>

\* While the memory is mapped the blob is the one with nothing behind its strings.
StartupInit ==
    /\ InitBoot /\ Init
    /\ \/ part = "boot"
       \/ part = "memory map" /\ dtb.bytes = StringsBlock

StartupNext ==
    /\ \/ part = "boot"       /\ NextBoot /\ UNCHANGED vars
       \/ part = "memory map" /\ Next     /\ UNCHANGED bootVars
    /\ UNCHANGED part

\* The fairness of BootSpec and of Spec.
StartupSpec ==
    /\ StartupInit /\ [][StartupNext]_startupVars
    /\ \A d \in {"uart", "timer"} : WF_bootVars(HandleInterrupt(d))
    /\ WF_vars(Iterate)
===============================================================================
