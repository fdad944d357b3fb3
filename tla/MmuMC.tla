-------------------------------- MODULE MmuMC ---------------------------------
(* An instance of Mmu for TLC: tables of three slots, so that a range may     *)
(* begin, cross and end a level, and two bytes to a page, so that an edge may *)
(* be inside one.  One region may lie below the memory.                       *)
EXTENDS Mmu

Memories == {Region(18, 54), Region(6, 44), Region(7, 43)}

Edges == {18, 20, 24, 29, 36, 40}

In(attr) ==
    {m \in {[region |-> Region(b, e), template |-> t] : b, e \in Edges, t \in {attr, None}} :
        m.region.size > 0}

Below == {[region |-> r, template |-> "tree"] : r \in {Region(2, 6), Region(12, 20)}}

MCBoards ==
    [memory : Memories, plan : {<<>>} \cup In("code") \X In("data")]
    \cup [memory : {Region(18, 54)}, plan : Below \X In("data")]
===============================================================================
