-------------------------------- MODULE HeapMC --------------------------------
(* Instance of Heap for TLC: three pages, two size classes of three and two   *)
(* slots, and requests for a slot of each, for one page, for two, and for     *)
(* more than the largest order holds.  A page leaves its class's list from    *)
(* the front, the middle and the end.                                         *)
EXTENDS Heap

MCSizes == [c \in {0, 1} |-> c + 2]

MCLayouts == {[size |-> 2, align |-> 1], [size |-> 1, align |-> 3],
              [size |-> 4, align |-> 1], [size |-> 4, align |-> 12],
              [size |-> 13, align |-> 1]}
==============================================================================
