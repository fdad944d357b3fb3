---------------------------- MODULE InputChannel -----------------------------
(***************************************************************************)
(* What the keyboard promises the monitor, without interrupts, tasks or a  *)
(* scheduler.  Bytes arrive numbered; each crosses a device queue and then *)
(* a kernel queue, and is lost only where one of the two is full.  What    *)
(* the reader takes are the bytes that were not lost, in order, once each, *)
(* and every byte the kernel queue holds is taken in the end.              *)
(***************************************************************************)
EXTENDS Naturals, Sequences

CONSTANTS
    LineCapacity,   \* bytes the device queue holds
    Capacity,       \* bytes the kernel queue holds
    MaxBytes        \* bound: bytes that arrive

VARIABLES
    next,    \* the number of the next byte to arrive
    line,    \* in the device queue
    held,    \* in the kernel queue
    taken    \* all the reader has taken

vars == <<next, line, held, taken>>

Put(q, b, size) == IF Len(q) < size THEN Append(q, b) ELSE q

Init == next = 1 /\ line = <<>> /\ held = <<>> /\ taken = <<>>

Arrive ==
    /\ next <= MaxBytes
    /\ next' = next + 1
    /\ line' = Put(line, next, LineCapacity)
    /\ UNCHANGED <<held, taken>>

Accept ==
    /\ line # <<>>
    /\ line' = Tail(line)
    /\ held' = Put(held, Head(line), Capacity)
    /\ UNCHANGED <<next, taken>>

Take ==
    /\ held # <<>>
    /\ held' = Tail(held)
    /\ taken' = Append(taken, Head(held))
    /\ UNCHANGED <<next, line>>

Next == Arrive \/ Accept \/ Take

Spec == Init /\ [][Next]_vars /\ WF_vars(Accept) /\ WF_vars(Take)
==============================================================================
