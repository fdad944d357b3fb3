------------------------------- MODULE PartsMC ---------------------------------
(* Three parts that share no state, side by side in one instance: the frame    *)
(* allocator, the lock such structures are used under, and the heartbeat.  A   *)
(* behavior is one of them, from its initial state, while the other two rest   *)
(* in theirs: what holds here holds of each by itself.                         *)
EXTENDS FramesMC, SpinLockMC, TimeMC

VARIABLE part   \* the one that moves

frameVars == vars

partsVars == <<part, frameVars, lockVars, clockVars>>

PartsInit == part \in {"frames", "lock", "time"} /\ Init /\ InitLock /\ InitTime

PartsNext ==
    /\ \/ part = "frames" /\ Next     /\ UNCHANGED <<lockVars, clockVars>>
       \/ part = "lock"   /\ NextLock /\ UNCHANGED <<frameVars, clockVars>>
       \/ part = "time"   /\ NextTime /\ UNCHANGED <<frameVars, lockVars>>
    /\ UNCHANGED part

PartsSpec == PartsInit /\ [][PartsNext]_partsVars
===============================================================================
