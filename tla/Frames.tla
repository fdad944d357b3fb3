-------------------------------- MODULE Frames -------------------------------
(***************************************************************************)
(* mm/frames/mod.rs: the buddy allocator of page frames, from the seeding  *)
(* of its lists to any sequence of alloc and free.                         *)
(*                                                                         *)
(* The allocator runs under the HEAP lock, so one operation ends before    *)
(* the next begins; its loops take one action per turn, and `op' is the    *)
(* operation in progress with its local variables.                         *)
(***************************************************************************)
EXTENDS FreeLists, FiniteSets

CONSTANTS
    Reserved,   \* the pages the memory map has reserved
    MaxHeld     \* bound: blocks that callers hold at one time

ASSUME ReservedAssumption == Reserved \subseteq Int /\ MaxHeld \in Nat

VARIABLES
    lists,      \* Frames.lists, with the memory the links live in
    entry,      \* the Buddy or Slab entry of each page, in Pages
    op,         \* the operation in progress
    held,       \* the blocks callers hold
    answer,     \* what alloc returned last, forgotten at the next free
    listed      \* auxiliary: the blocks on the lists

vars == <<lists, entry, op, held, answer, listed>>

Size(k) == 2 ^ k

Block(p, k) == [pfn |-> p, order |-> k]

Span(b) == b.pfn .. b.pfn + Size(b.order) - 1

\* Entry::Slab has no free flag and counts as order 0; Pages starts zeroed.
Entry(kind, free, k) == [kind |-> kind, free |-> free, order |-> k]

Entries == [kind : {"buddy", "slab"}, free : BOOLEAN, order : Orders]

\* order, want and pfn are alloc's available_order, order and pfn, or free's
\* order and pfn; seed has block in pfn.
Op(phase, p, k, w) == [phase |-> phase, pfn |-> p, order |-> k, want |-> w]

Idle == Op("idle", NoPage, 0, 0)

Phases == {"idle", "seed", "split", "merge"}

NoAnswer == Block(NoPage - 1, 0)

\* Pfn::buddy, pfn XOR 2^k: the other half of the pair that makes order k + 1.
Buddy(p, k) == IF (p \div Size(k)) % 2 = 0 THEN p + Size(k) ELSE p - Size(k)

(* Faulty variants of definitions below, used by no specification. *)

\* a block merges only with a buddy above it
FreeBuddyAbove(p, k) ==
    /\ k < MaxOrder
    /\ Buddy(p, k) \in Pages
    /\ Buddy(p, k) > p
    /\ entry[Buddy(p, k)] = Entry("buddy", TRUE, k)

\* a split lists the lower half, which is also the one handed out
SplitLower ==
    /\ op.phase = "split"
    /\ op.order > op.want
    /\ LET b == Block(op.pfn, op.order - 1)
       IN  /\ lists' = Push(lists, b.pfn, b.order)
           /\ listed' = listed \cup {b}
           /\ entry' = [entry EXCEPT ![b.pfn] = Entry("buddy", TRUE, b.order)]
           /\ op' = [op EXCEPT !.order = b.order]
    /\ UNCHANGED <<held, answer>>

\* alloc leaves the entry of the block it hands out as it was on the list
GrantUnmarked ==
    /\ op.phase = "split"
    /\ op.order = op.want
    /\ LET b == Block(op.pfn, op.want)
       IN  /\ held' = held \cup {b}
           /\ answer' = b
           /\ lists' = Scribble(lists, Span(b))
    /\ op' = Idle
    /\ UNCHANGED <<entry, listed>>

\* alloc looks at the list of its own order only
AvailableExact(k) == {j \in {k} : lists.heads[j] # NoPage}

-------------------------------------------------------------------------------
(* seed: every run between reserved pages, cut from its start into the     *)
(* largest blocks that alignment and the run's end allow.                  *)

RunEnd(p) ==
    LET stops == {q \in p .. Base + Count : q = Base + Count \/ q \in Reserved}
    IN  CHOOSE q \in stops : \A r \in stops : q <= r

SeedOrder(p) ==
    LET fits == {k \in Orders : p % Size(k) = 0 /\ p + Size(k) <= RunEnd(p)}
    IN  CHOOSE k \in fits : \A j \in fits : j <= k

SeedBlock ==
    /\ op.phase = "seed"
    /\ op.pfn \in Pages \ Reserved
    /\ LET b == Block(op.pfn, SeedOrder(op.pfn))
       IN  /\ lists' = Push(lists, b.pfn, b.order)
           /\ listed' = listed \cup {b}
           /\ entry' = [entry EXCEPT ![b.pfn] = Entry("buddy", TRUE, b.order)]
           /\ op' = [op EXCEPT !.pfn = @ + Size(b.order)]
    /\ UNCHANGED <<held, answer>>

SeedSkip ==
    /\ op.phase = "seed"
    /\ op.pfn \in Pages \cap Reserved
    /\ op' = [op EXCEPT !.pfn = @ + 1]
    /\ UNCHANGED <<lists, entry, held, answer, listed>>

SeedDone ==
    /\ op.phase = "seed"
    /\ op.pfn \notin Pages
    /\ op' = Idle
    /\ UNCHANGED <<lists, entry, held, answer, listed>>

-------------------------------------------------------------------------------
(* alloc                                                                   *)

\* The orders whose list can serve an alloc of order k.
Available(k) == {j \in k .. MaxOrder : lists.heads[j] # NoPage}

Alloc(k) ==
    /\ op = Idle
    /\ Cardinality(held) < MaxHeld
    /\ Available(k) # {}
    /\ LET j == CHOOSE j \in Available(k) : \A i \in Available(k) : j <= i
           p == lists.heads[j]
       IN  /\ lists' = Unlink(lists, p, j)
           /\ listed' = listed \ {Block(p, j)}
           /\ op' = Op("split", p, j, k)
    /\ UNCHANGED <<entry, held, answer>>

AllocFails(k) ==
    /\ op = Idle
    /\ Available(k) = {}
    /\ answer' = Block(NoPage, k)
    /\ UNCHANGED <<lists, entry, op, held, listed>>

\* The upper half of a block too large goes to the list below.
Split ==
    /\ op.phase = "split"
    /\ op.order > op.want
    /\ LET b == Block(op.pfn + Size(op.order - 1), op.order - 1)
       IN  /\ lists' = Push(lists, b.pfn, b.order)
           /\ listed' = listed \cup {b}
           /\ entry' = [entry EXCEPT ![b.pfn] = Entry("buddy", TRUE, b.order)]
           /\ op' = [op EXCEPT !.order = b.order]
    /\ UNCHANGED <<held, answer>>

\* The block is marked and handed out, and its owner may write all over it.
Grant ==
    /\ op.phase = "split"
    /\ op.order = op.want
    /\ LET b == Block(op.pfn, op.want)
       IN  /\ entry' = [entry EXCEPT ![b.pfn] = Entry("buddy", FALSE, b.order)]
           /\ held' = held \cup {b}
           /\ answer' = b
           /\ lists' = Scribble(lists, Span(b))
    /\ op' = Idle
    /\ UNCHANGED listed

\* Slab::init turns a page the heap holds into a slab.
BecomeSlab(b) ==
    /\ op = Idle
    /\ b.order = 0
    /\ entry' = [entry EXCEPT ![b.pfn] = Entry("slab", FALSE, 0)]
    /\ UNCHANGED <<lists, op, held, answer, listed>>

-------------------------------------------------------------------------------
(* free                                                                    *)

\* A caller gives back a block it holds, by its first page; the order is read
\* from that page's entry.  An entry that says the block is free already is
\* the panic of a double free.
Free(b) ==
    /\ op = Idle
    /\ held' = held \ {b}
    /\ answer' = NoAnswer
    /\ op' = IF entry[b.pfn].free THEN Op("panic", b.pfn, 0, 0)
             ELSE Op("merge", b.pfn, entry[b.pfn].order, 0)
    /\ UNCHANGED <<lists, entry, listed>>

\* What the loop asks of the buddy: a free block of the same order.
FreeBuddy(p, k) ==
    /\ k < MaxOrder
    /\ Buddy(p, k) \in Pages
    /\ entry[Buddy(p, k)] = Entry("buddy", TRUE, k)

\* (The words of a block that left its list are links no more: Junk until a
\* push writes them again, so that a step that read them would be seen.)
Merge ==
    /\ op.phase = "merge"
    /\ FreeBuddy(op.pfn, op.order)
    /\ LET b == Block(Buddy(op.pfn, op.order), op.order)
       IN  /\ lists' = Scribble(Unlink(lists, b.pfn, b.order), {b.pfn})
           /\ listed' = listed \ {b}
           /\ op' = [op EXCEPT !.pfn = IF b.pfn < @ THEN b.pfn ELSE @, !.order = @ + 1]
    /\ UNCHANGED <<entry, held, answer>>

MergeDone ==
    /\ op.phase = "merge"
    /\ ~FreeBuddy(op.pfn, op.order)
    /\ lists' = Push(lists, op.pfn, op.order)
    /\ listed' = listed \cup {Block(op.pfn, op.order)}
    /\ entry' = [entry EXCEPT ![op.pfn] = Entry("buddy", TRUE, op.order)]
    /\ op' = Idle
    /\ UNCHANGED <<held, answer>>

-------------------------------------------------------------------------------
Init ==
    /\ lists = EmptyLists
    /\ entry = [p \in Pages |-> Entry("buddy", FALSE, 0)]
    /\ op = Op("seed", Base, 0, 0)
    /\ held = {}
    /\ answer = NoAnswer
    /\ listed = {}

Next ==
    \/ SeedBlock \/ SeedSkip \/ SeedDone
    \/ \E k \in Orders : Alloc(k) \/ AllocFails(k)
    \/ Split \/ Grant
    \/ \E b \in held : BecomeSlab(b) \/ Free(b)
    \/ Merge \/ MergeDone

Spec == Init /\ [][Next]_vars

-------------------------------------------------------------------------------
(* What must hold.                                                         *)

\* The variables hold values of their kind (mm/frames/mod.rs, mm/pages.rs).
TypeOK ==
    /\ lists \in FreeListsType
    /\ entry \in [Pages -> Entries]
    /\ op \in [phase : Phases, pfn : Base .. Base + Count \cup {NoPage}, order : Orders, want : Orders]
    /\ held \subseteq [pfn : Pages, order : Orders]
    /\ answer \in [pfn : Pages \cup {NoPage, NoAnswer.pfn}, order : Orders]
    /\ listed \subseteq [pfn : Pages, order : Orders]

\* The block that left its list or its caller and is not yet where it goes.
InTransit == IF op.phase \in {"split", "merge"} THEN {Block(op.pfn, op.order)} ELSE {}

Aligned(b) == b.pfn % Size(b.order) = 0

Apart(b, c) == b.pfn + Size(b.order) <= c.pfn \/ c.pfn + Size(c.order) <= b.pfn

\* Through any splitting and merging the arena stays cut into aligned blocks
\* that do not overlap: those listed, those callers hold, and the one in
\* transit.  No reserved page is in one, and no other page is lost.
Partition ==
    LET blocks == listed \cup held \cup InTransit
    IN  /\ listed \cap held = {}
        /\ InTransit \cap (listed \cup held) = {}
        /\ \A b \in blocks : Aligned(b) /\ Span(b) \subseteq Pages \ Reserved
        /\ \A b, c \in blocks : b # c => Apart(b, c)
        /\ op.phase # "seed" => Pages \ Reserved = UNION {Span(b) : b \in blocks}

\* The entry at a block's first page tells its state and its order, which is
\* all free has to go by; the entries behind it may be stale, and are never
\* what makes a free panic or a merge go wrong.
EntriesTrue ==
    /\ op.phase # "panic"
    /\ \A b \in listed : entry[b.pfn] = Entry("buddy", TRUE, b.order)
    /\ \A b \in held : ~entry[b.pfn].free /\ entry[b.pfn].order = b.order

\* Between operations no two buddies are both free: every block that could be
\* put together again has been.
Coalesced ==
    op = Idle =>
        \A b \in listed :
            b.order < MaxOrder => Block(Buddy(b.pfn, b.order), b.order) \notin listed

\* Each list links exactly the blocks of its order, forwards and backwards,
\* through pages no caller writes to, and the page count is theirs.
ListsSound ==
    /\ TypeOK
    /\ \A k \in Orders : WellLinked(lists, k, {p \in Pages : Block(p, k) \in listed})
    /\ lists.pages = Cardinality(UNION {Span(b) : b \in listed})

\* The callers see a PageAllocator: blocks that never overlap, and a failure
\* only when no aligned run of that order is free.
Allocator == INSTANCE PageAllocator WITH Pages <- Pages \ Reserved

ImplementsPageAllocator == Allocator!Spec
==============================================================================
