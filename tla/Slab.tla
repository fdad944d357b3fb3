-------------------------------- MODULE Slab ---------------------------------
(***************************************************************************)
(* mm/slab/mod.rs and mm/slab/cache.rs: pages cut into slots of one size   *)
(* class, whose free slots are linked through the slots themselves, and    *)
(* per class a list of the pages that have a free slot.  A heap is a       *)
(* record of the list heads, the entry of each page, and the words in the  *)
(* slots.  Sizes count in units of the smallest class.                     *)
(***************************************************************************)
EXTENDS Integers

CONSTANTS
    Pages,      \* the pages of the arena
    PageSize,
    Sizes       \* CLASSES: a function from 0 .. n - 1 to the slot sizes

\* The sizes ascend, and are powers of two as PAGE_SIZE is.
ASSUME SlabAssumption ==
    /\ Pages \subseteq Nat
    /\ PageSize \in Nat \ {0}
    /\ DOMAIN Sizes \subseteq Nat
    /\ \A c \in DOMAIN Sizes : Sizes[c] \in 1 .. PageSize \div 2 /\ PageSize % Sizes[c] = 0
    /\ \A c, d \in DOMAIN Sizes : c < d => Sizes[c] < Sizes[d]

Classes == DOMAIN Sizes

NoClass == -1

None == -1      \* no page, no slot

Junk == -2      \* a word the owner of the slot wrote

\* class_of: the first class that is large enough and a multiple of the
\* alignment.
ClassOf(l) ==
    LET fits == {c \in Classes : Sizes[c] >= l.size /\ Sizes[c] % l.align = 0}
    IN  IF fits = {} THEN NoClass ELSE CHOOSE c \in fits : \A d \in fits : c <= d

Slots(c) == 0 .. PageSize \div Sizes[c] - 1

\* The entries of pages: Entry::Slab, and Entry::Buddy, of which the slabs
\* need nothing but that it is not a slab.
Buddy == [kind |-> "buddy"]

SlabEntry(c, head, n, after, before) ==
    [kind |-> "slab", class |-> c, free_head |-> head, in_use |-> n,
     next_partial |-> after, prev_partial |-> before]

IsSlab(h, p) == h.entry[p].kind = "slab"

EmptyHeap ==
    [heads |-> [c \in Classes |-> None],
     entry |-> [p \in Pages |-> Buddy],
     word  |-> [p \in Pages |-> [i \in 0 .. PageSize - 1 |-> Junk]]]

\* A faulty variant of Slab::init: the last slot is linked as the others are.
InitSlabOpen(h, p, c) ==
    [h EXCEPT !.entry[p] = SlabEntry(c, 0, 0, None, None),
              !.word[p] = [i \in 0 .. PageSize - 1 |-> IF i \in Slots(c) THEN i + 1 ELSE Junk]]

\* Slab::init: every slot is linked to the one after it.
InitSlab(h, p, c) ==
    [h EXCEPT !.entry[p] = SlabEntry(c, 0, 0, None, None),
              !.word[p] = [i \in 0 .. PageSize - 1 |->
                             IF i + 1 \in Slots(c) THEN i + 1
                             ELSE IF i \in Slots(c) THEN None ELSE Junk]]

IsFull(h, p) == h.entry[p].free_head = None

IsEmpty(h, p) == h.entry[p].in_use = 0

\* Slab::alloc takes the first free slot, and its owner overwrites the link.
TakeSlot(h, p) ==
    LET e == h.entry[p]
        i == e.free_head
    IN  [h EXCEPT !.entry[p] = [e EXCEPT !.free_head = h.word[p][i], !.in_use = e.in_use + 1],
                  !.word[p][i] = Junk]

(* Faulty variants of definitions below, used by no specification. *)

\* the freed slot ends the chain
FreeSlotUnlinked(h, p, i) ==
    LET e == h.entry[p]
    IN  [h EXCEPT !.entry[p] = [e EXCEPT !.free_head = i, !.in_use = e.in_use - 1],
                  !.word[p][i] = None]

\* the page behind keeps its pointer to the one unlinked
UnlinkSlabOneWay(h, p) ==
    LET c      == h.entry[p].class
        after  == h.entry[p].next_partial
        before == h.entry[p].prev_partial
        own    == [h.entry[p] EXCEPT !.next_partial = None, !.prev_partial = None]
    IN  [h EXCEPT !.heads = IF before = None THEN [@ EXCEPT ![c] = after] ELSE @,
                  !.entry = [q \in Pages |->
                               IF q = p THEN own
                               ELSE IF q = before THEN [@[q] EXCEPT !.next_partial = after]
                               ELSE @[q]]]

-------------------------------------------------------------------------------
\* Slab::free links the slot before the free ones.
FreeSlot(h, p, i) ==
    LET e == h.entry[p]
    IN  [h EXCEPT !.entry[p] = [e EXCEPT !.free_head = i, !.in_use = e.in_use - 1],
                  !.word[p][i] = e.free_head]

\* Cache::push
PushSlab(h, p) ==
    LET c   == h.entry[p].class
        old == h.heads[c]
    IN  [h EXCEPT !.heads[c] = p,
                  !.entry = [q \in Pages |->
                               IF q = p THEN [@[q] EXCEPT !.next_partial = old, !.prev_partial = None]
                               ELSE IF q = old THEN [@[q] EXCEPT !.prev_partial = p]
                               ELSE @[q]]]

\* Cache::unlink.  A link is followed only to a page that is a slab.
UnlinkSlab(h, p) ==
    LET c      == h.entry[p].class
        Link(q) == IF q \in Pages /\ IsSlab(h, q) THEN q ELSE None
        after  == Link(h.entry[p].next_partial)
        before == Link(h.entry[p].prev_partial)
        own    == [h.entry[p] EXCEPT !.next_partial = None, !.prev_partial = None]
    IN  [h EXCEPT !.heads = IF before = None THEN [@ EXCEPT ![c] = after] ELSE @,
                  !.entry = [q \in Pages |->
                               IF q = p THEN own
                               ELSE IF q = before THEN [@[q] EXCEPT !.next_partial = after]
                               ELSE IF q = after THEN [@[q] EXCEPT !.prev_partial = before]
                               ELSE @[q]]]
==============================================================================
