--------------------------------- MODULE Heap ---------------------------------
(***************************************************************************)
(* mm/heap.rs: the global allocator.  Small objects come from the slabs of *)
(* their class (Slab), everything else in whole pages; both get their      *)
(* pages from the frame allocator, of which the heap needs no more than    *)
(* what PageAllocator promises.  Every operation runs under the HEAP lock  *)
(* and is one action.                                                      *)
(***************************************************************************)
EXTENDS Slab, FiniteSets

CONSTANTS
    MaxOrder,   \* the frame allocator's largest order
    Layouts,    \* the requests: records of a size and an align
    MaxLive     \* bound: objects in use at one time

\* An alignment is a power of two, as PAGE_SIZE is.
ASSUME HeapAssumption ==
    /\ IsFiniteSet(Pages)
    /\ MaxOrder \in Nat
    /\ \A l \in Layouts :
          /\ l.size \in Nat \ {0} /\ l.align \in Nat \ {0}
          /\ PageSize % l.align = 0 \/ \E k \in 0 .. l.align : l.align = PageSize * 2 ^ k
    /\ MaxLive \in Nat

VARIABLES
    heap,       \* Heap.cache and Heap.pages, and the words in the slots
    held,       \* the blocks the heap has from the frame allocator
    live,       \* the objects in use: an address and a layout each
    refused     \* the layout the last alloc failed for, if it did

vars == <<heap, held, live, refused>>

\* Frames::alloc(0) and so on: a block from the Rooms the frame allocator has
\* for the order, or a failure when there are none.
Frames == INSTANCE PageAllocator WITH answer <- refused

Object(a, l) == [addr |-> a, layout |-> l]

PageOf(a) == a \div PageSize

\* The slots of page p in use by live objects.
SlotsInUse(p) ==
    {i \in Slots(heap.entry[p].class) :
        \E o \in live : o.addr = p * PageSize + i * Sizes[heap.entry[p].class]}

CeilDiv(a, b) == (a + b - 1) \div b

\* The order whose pages hold the layout: the larger of its size and its
\* alignment in pages, rounded up to a power of two.
OrderOf(l) ==
    LET pages == CeilDiv(l.size, PageSize)
        align == CeilDiv(l.align, PageSize)
    IN  CHOOSE k \in 0 .. pages + align :
            /\ 2 ^ k >= pages /\ 2 ^ k >= align
            /\ k > 0 => 2 ^ (k - 1) < pages \/ 2 ^ (k - 1) < align

\* Where Frames::alloc finds pages for the layout: it looks at no order above
\* the largest.
Rooms(l) == IF OrderOf(l) <= MaxOrder THEN Frames!Rooms(OrderOf(l)) ELSE {}

(* Faulty variants of definitions below, used by no specification. *)

\* a page that was full is not put back on its class's list
FreedUnlisted(h, p, i) == FreeSlot(h, p, i)

\* an emptied page is kept for the next request of its class
GivesBackNever(h, p) == FALSE

-------------------------------------------------------------------------------
\* Cache::alloc, once the class has a page with a free slot: take a slot, and
\* drop the page from the list if that was its last.
Taken(h, p) == LET t == TakeSlot(h, p) IN IF IsFull(t, p) THEN UnlinkSlab(t, p) ELSE t

Address(h, p) == p * PageSize + h.entry[p].free_head * Sizes[h.entry[p].class]

\* From a page of the class that has room.
AllocPartial(l) ==
    /\ Cardinality(live) < MaxLive
    /\ ClassOf(l) # NoClass
    /\ heap.heads[ClassOf(l)] # None
    /\ LET p == heap.heads[ClassOf(l)]
       IN  /\ heap' = Taken(heap, p)
           /\ live' = live \cup {Object(Address(heap, p), l)}
    /\ refused' = {}
    /\ UNCHANGED held

\* From a new page, which becomes the only one of its list.
AllocFresh(l) ==
    /\ Cardinality(live) < MaxLive
    /\ ClassOf(l) # NoClass
    /\ heap.heads[ClassOf(l)] = None
    /\ \E p \in Frames!Rooms(0) :
          /\ held' = held \cup {[pfn |-> p, order |-> 0]}
          /\ LET h == [InitSlab(heap, p, ClassOf(l)) EXCEPT !.heads[ClassOf(l)] = p]
             IN  /\ heap' = Taken(h, p)
                 /\ live' = live \cup {Object(Address(h, p), l)}
    /\ refused' = {}

AllocFreshFails(l) ==
    /\ ClassOf(l) # NoClass
    /\ heap.heads[ClassOf(l)] = None
    /\ Frames!Rooms(0) = {}
    /\ refused' = {l}
    /\ UNCHANGED <<heap, held, live>>

\* Whole pages, for what no class can serve.
AllocPages(l) ==
    /\ Cardinality(live) < MaxLive
    /\ ClassOf(l) = NoClass
    /\ \E p \in Rooms(l) :
          /\ held' = held \cup {[pfn |-> p, order |-> OrderOf(l)]}
          /\ heap' = [heap EXCEPT !.entry[p] = Buddy]
          /\ live' = live \cup {Object(p * PageSize, l)}
    /\ refused' = {}

AllocPagesFails(l) ==
    /\ ClassOf(l) = NoClass
    /\ Rooms(l) = {}
    /\ refused' = {l}
    /\ UNCHANGED <<heap, held, live>>

\* Cache::free up to the test for an empty page: free the slot, and list the
\* page again if it had been full.
Freed(h, p, i) == LET f == FreeSlot(h, p, i) IN IF IsFull(h, p) THEN PushSlab(f, p) ELSE f

GivesBack(h, p) == IsEmpty(h, p)

SlotOf(o) == (o.addr % PageSize) \div Sizes[heap.entry[PageOf(o.addr)].class]

\* dealloc of a small object.  (The asserts on the way are FreeAssertsHold.)
FreeObject(o) ==
    /\ IsSlab(heap, PageOf(o.addr))
    /\ live' = live \ {o}
    /\ refused' = {}
    /\ ~GivesBack(Freed(heap, PageOf(o.addr), SlotOf(o)), PageOf(o.addr))
    /\ heap' = Freed(heap, PageOf(o.addr), SlotOf(o))
    /\ UNCHANGED held

\* dealloc of the last object of its page, which goes back to the frame
\* allocator.  That rewrites the entry of the first page of the free block the
\* page becomes part of, so the page's own entry may still say it is a slab.
FreeLastObject(o) ==
    LET p == PageOf(o.addr)
        f == Freed(heap, p, SlotOf(o))
    IN  /\ IsSlab(heap, p)
        /\ GivesBack(f, p)
        /\ held' = held \ {[pfn |-> p, order |-> 0]}
        /\ \E e \in {Buddy, UnlinkSlab(f, p).entry[p]} :
              heap' = [UnlinkSlab(f, p) EXCEPT !.entry[p] = e]
        /\ live' = live \ {o}
        /\ refused' = {}

\* dealloc of whole pages; the frame allocator knows the order.
FreePages(o) ==
    /\ ~IsSlab(heap, PageOf(o.addr))
    /\ held' = {b \in held : b.pfn # PageOf(o.addr)}
    /\ live' = live \ {o}
    /\ refused' = {}
    /\ UNCHANGED heap

-------------------------------------------------------------------------------
Init ==
    /\ heap = EmptyHeap
    /\ held = {}
    /\ live = {}
    /\ refused = {}

Next ==
    \/ \E l \in Layouts :
          \/ AllocPartial(l) \/ AllocFresh(l) \/ AllocFreshFails(l)
          \/ AllocPages(l) \/ AllocPagesFails(l)
    \/ \E o \in live : FreeObject(o) \/ FreeLastObject(o) \/ FreePages(o)

Spec == Init /\ [][Next]_vars

-------------------------------------------------------------------------------
(* What must hold.                                                         *)

\* The pages that serve as slabs.  (A free page's entry may be stale.)
SlabPages == {p \in Pages : [pfn |-> p, order |-> 0] \in held /\ IsSlab(heap, p)}

\* The variables hold values of their kind (mm/heap.rs, mm/slab, mm/pages.rs).
TypeOK ==
    /\ heap.heads \in [Classes -> Pages \cup {None}]
    /\ DOMAIN heap.entry = Pages
    /\ \A p \in SlabPages :
          LET e == heap.entry[p]
          IN  /\ e.class \in Classes
              /\ e.free_head \in Slots(e.class) \cup {None}
              /\ e.in_use \in 0 .. Cardinality(Slots(e.class))
              /\ {e.next_partial, e.prev_partial} \subseteq Pages \cup {None}
    /\ held \subseteq [pfn : Pages, order : 0 .. MaxOrder]
    /\ \A o \in live : PageOf(o.addr) \in Pages /\ o.layout \in Layouts
    /\ refused \subseteq Layouts

\* The free slots of page p in the order of their links.
FreeChain(p) ==
    LET at[n \in 0 .. PageSize] ==
            IF n = 0 THEN heap.entry[p].free_head
            ELSE IF at[n - 1] \in Slots(heap.entry[p].class) THEN heap.word[p][at[n - 1]] ELSE None
    IN  {at[n] : n \in 0 .. PageSize} \ {None}

\* On every slab the links reach exactly the slots no object is in: none is
\* handed out twice, none is lost, and in_use counts the others.
SlotsAccounted ==
    /\ TypeOK
    /\ \A p \in SlabPages :
          /\ FreeChain(p) = Slots(heap.entry[p].class) \ SlotsInUse(p)
          /\ heap.entry[p].in_use = Cardinality(SlotsInUse(p))

\* The slabs of class c in the order of their links.
PartialChain(c) ==
    LET at[n \in 0 .. Cardinality(Pages)] ==
            IF n = 0 THEN heap.heads[c]
            ELSE IF at[n - 1] \in SlabPages THEN heap.entry[at[n - 1]].next_partial ELSE None
    IN  {at[n] : n \in 0 .. Cardinality(Pages)} \ {None}

\* The list of a class holds exactly its slabs with a free slot, linked both
\* ways; a full slab is on none, and its links point nowhere.
PartialLists ==
    /\ \A c \in Classes :
          /\ PartialChain(c) =
                {p \in SlabPages : heap.entry[p].class = c /\ ~IsFull(heap, p)}
          /\ heap.heads[c] # None => heap.entry[heap.heads[c]].prev_partial = None
    /\ \A p \in SlabPages :
          LET after == heap.entry[p].next_partial
          IN  /\ after # None => heap.entry[after].prev_partial = p
              /\ IsFull(heap, p) => after = None /\ heap.entry[p].prev_partial = None

\* Freeing an object that is in use, with its own layout, passes every assert
\* of free_layout, Slab::free and Cache::unlink.
FreeAssertsHold ==
    \A o \in live :
        LET p == PageOf(o.addr)
        IN  /\ (ClassOf(o.layout) # NoClass) = IsSlab(heap, p)
            /\ IsSlab(heap, p) =>
                 LET c == heap.entry[p].class
                     i == SlotOf(o)
                     f == Freed(heap, p, i)
                 IN  /\ (o.addr % PageSize) % Sizes[c] = 0
                     /\ heap.entry[p].in_use # 0
                     /\ heap.entry[p].free_head # i
                     /\ GivesBack(f, p) /\ f.entry[p].prev_partial = None => f.heads[c] = p

\* The kernel sees an ObjectAllocator: objects aligned as asked that never
\* overlap, and a small request fails only when every page is in use and those
\* of its class are full.
Objects ==
    INSTANCE ObjectAllocator WITH
        Extent <- LAMBDA l : IF ClassOf(l) = NoClass THEN PageSize * 2 ^ OrderOf(l)
                             ELSE Sizes[ClassOf(l)]

ImplementsObjectAllocator == Objects!Spec
==============================================================================
