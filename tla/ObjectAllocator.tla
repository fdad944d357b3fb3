--------------------------- MODULE ObjectAllocator ----------------------------
(***************************************************************************)
(* What the heap promises as the global allocator: memory of the requested *)
(* size and alignment that overlaps no other object's, and a failure only  *)
(* when no page is unused and no page of the request's kind has room.      *)
(* Sizes and addresses count in units of the smallest size class.          *)
(***************************************************************************)
EXTENDS Integers, FiniteSets

CONSTANTS
    Pages,       \* the pages of the arena
    PageSize,
    Layouts,     \* the requests: records of a size and an align
    Extent(_)    \* the units set aside for an object of the layout: less than
                 \* a page, or whole pages

VARIABLES
    live,        \* the objects in use: an address and a layout each
    refused      \* the layout the last alloc failed for, if it did

vars == <<live, refused>>

Object(a, l) == [addr |-> a, layout |-> l]

Footprint(o) == o.addr .. o.addr + Extent(o.layout) - 1

PageOf(a) == a \div PageSize

\* The objects with a unit in page p.
On(p) == {o \in live : \E a \in Footprint(o) : PageOf(a) = p}

\* No page could take one more object of layout l.
Exhausted(l) ==
    \A p \in Pages :
        /\ On(p) # {}
        /\ \/ \E o \in On(p) : Extent(o.layout) # Extent(l)
           \/ Cardinality(On(p)) = PageSize \div Extent(l)

Init == live = {} /\ refused = {}

Grant(o) ==
    /\ live' = live \cup {o}
    /\ refused' = {}
    /\ o.addr % o.layout.align = 0
    /\ Extent(o.layout) >= o.layout.size
    /\ \A q \in live : Footprint(o) \cap Footprint(q) = {}

\* Requests for whole pages need a run of them; PageAllocator says when they
\* may fail.
Refuse(l) ==
    /\ refused' = {l}
    /\ UNCHANGED live
    /\ Extent(l) < PageSize => Exhausted(l)

Release(o) == live' = live \ {o} /\ refused' = {}

Next ==
    \/ \E l \in Layouts :
          \/ Refuse(l)
          \/ \E p \in Pages : \E i \in 0 .. PageSize - 1 : Grant(Object(p * PageSize + i, l))
    \/ \E o \in live : Release(o)

Spec == Init /\ [][Next]_vars
==============================================================================
