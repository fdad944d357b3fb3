---------------------------- MODULE PageAllocator ----------------------------
(***************************************************************************)
(* What the frame allocator promises its callers, without lists, entries   *)
(* or buddies: it hands out naturally aligned runs of 2^order free pages,  *)
(* no two of which overlap, and it refuses an order only when no aligned   *)
(* run of that order is free.                                              *)
(***************************************************************************)
EXTENDS Integers

CONSTANTS
    Pages,      \* the pages that may be handed out
    MaxOrder    \* the largest order

VARIABLES
    held,       \* the blocks in callers' hands
    answer      \* what alloc returned last, its order and a page or NoPage,
                \* until the next release

vars == <<held, answer>>

NoPage == -1

Orders == 0 .. MaxOrder

NoAnswer == [order |-> 0, pfn |-> NoPage - 1]

Span(b) == b.pfn .. b.pfn + 2 ^ b.order - 1

Free == Pages \ UNION {Span(b) : b \in held}

\* The aligned runs of 2^k pages none of which is in a caller's hands.
Rooms(k) == {p \in Free : p % 2 ^ k = 0 /\ Span([pfn |-> p, order |-> k]) \subseteq Free}

Init == held = {} /\ answer = NoAnswer

Grant(k, p) ==
    /\ held' = held \cup {[pfn |-> p, order |-> k]}
    /\ answer' = [order |-> k, pfn |-> p]

Refuse(k) ==
    /\ Rooms(k) = {}
    /\ answer' = [order |-> k, pfn |-> NoPage]
    /\ UNCHANGED held

Release(b) == held' = held \ {b} /\ answer' = NoAnswer

Next ==
    \/ \E k \in Orders : Refuse(k) \/ \E p \in Rooms(k) : Grant(k, p)
    \/ \E b \in held : Release(b)

Spec == Init /\ [][Next]_vars
==============================================================================
