----------------------------- MODULE MemoryMapMC ------------------------------
(* An instance of MemoryMap for TLC: two bytes to a page, memory of up to     *)
(* five pages, in one case from address 0 on, and reservations that begin and *)
(* end inside pages, at their edges, and outside the arena.                   *)
EXTENDS MemoryMap

MCMemories == {Region(1, 2), Region(5, 5), Region(2, 14), Region(3, 11), Region(2, 12),
                 Region(0, 8)}

MCClaims == {Region(b, b + n) : b \in {0, 2, 3, 5, 6, 9, 10, 11}, n \in {0, 2, 5}}
==============================================================================
