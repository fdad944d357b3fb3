------------------------------ MODULE MemoryMap -------------------------------
(***************************************************************************)
(* mm/map.rs, and the use mm::init makes of it: the arena, the regions     *)
(* reserved in it, the place Pages::new finds for the array of page        *)
(* entries, and the runs that Frames::seed then takes as free.             *)
(***************************************************************************)
EXTENDS Gaps, Functions

CONSTANTS
    Memories,     \* the memory a device tree may report: a set of regions
    Claims,       \* what may be reserved: a set of regions
    MaxReserved,  \* RESERVED, the size of the array of reservations
    EntrySize,    \* the size of a page's entry
    MaxPages      \* ArenaIndex::MAX_PAGES

ASSUME MemoryMapAssumption ==
    /\ Memories \cup Claims \subseteq [base : Nat, size : Nat]
    /\ MaxReserved \in Nat
    /\ EntrySize \in Nat \ {0}
    /\ MaxPages \in Nat \ {0}

VARIABLES
    phase,      \* what mm::init is doing
    arena,      \* MemoryMap.arena
    reserved,   \* MemoryMap.reserved[.. len]
    cursor,     \* the iterator over the unreserved runs
    entries,    \* Pages.region, once there
    runs        \* the runs seed has got from the iterator

vars == <<phase, arena, reserved, cursor, entries, runs>>

Nowhere == Region(0, 0)     \* Region::EMPTY

Phases == {"new", "reserving", "placing", "seeding", "ready",
           "no memory", "full", "unplaceable"}

Taken == Range(reserved)

\* Pages::required_size, in pages
Needed == PageUp((arena.size \div PageSize) * EntrySize)

\* A run the next turn of the iterator yields.
Yields == Containing(arena, Taken, cursor) = {} /\ cursor < LastPage(arena)

Gap == GapAt(arena, Taken, cursor)

\* the search for a place begins
Begin(p) == phase' = p /\ cursor' = FirstPage(arena)

(* Faulty variants of definitions below, used by no specification. *)

\* what was reserved for the array is its first page
EntriesAtStart(run) == Region(run.start * PageSize, (run.start + 1) * PageSize)

\* the end of what covers the cursor is taken for its last page
StopsInside(stop) == stop - 1

-------------------------------------------------------------------------------
\* MemoryMap::new rounds the memory inward; there may be nothing left of it.
HasPages(memory) == PageUp(memory.base) <= PageDown(End(memory))

New(memory) ==
    /\ phase = "new"
    /\ HasPages(memory)
    /\ arena' = Region(PageUp(memory.base) * PageSize, PageDown(End(memory)) * PageSize)
    /\ phase' = "reserving"
    /\ UNCHANGED <<reserved, cursor, entries, runs>>

NewFails(memory) ==
    /\ phase = "new"
    /\ ~HasPages(memory)
    /\ phase' = "no memory"
    /\ UNCHANGED <<arena, reserved, cursor, entries, runs>>

Reserve(region) ==
    /\ phase = "reserving"
    /\ Len(reserved) < MaxReserved
    /\ reserved' = Append(reserved, region)
    /\ UNCHANGED <<phase, arena, cursor, entries, runs>>

ReserveFails(region) ==
    /\ phase = "reserving"
    /\ Len(reserved) = MaxReserved
    /\ phase' = "full"
    /\ UNCHANGED <<arena, reserved, cursor, entries, runs>>

\* Pages::new, up to the search for a run
Place ==
    /\ phase = "reserving"
    /\ arena.size \div PageSize \in 1 .. MaxPages
    /\ Begin("placing")
    /\ UNCHANGED <<arena, reserved, entries, runs>>

PlaceFails ==
    /\ phase = "reserving"
    /\ arena.size \div PageSize \notin 1 .. MaxPages
    /\ phase' = "unplaceable"
    /\ UNCHANGED <<arena, reserved, cursor, entries, runs>>

-------------------------------------------------------------------------------
(* The iterator, as Pages::new (placing) and Frames::seed (seeding) run it. *)

StopsAt(stop) == stop

\* What contains the cursor is skipped.
Skip ==
    /\ phase \in {"placing", "seeding"}
    /\ \E stop \in Containing(arena, Taken, cursor) : cursor' = StopsAt(stop)
    /\ UNCHANGED <<phase, arena, reserved, entries, runs>>

HasRoom(run) == Cardinality(PagesOf(run)) >= Needed

TooShort ==
    /\ phase = "placing"
    /\ Yields
    /\ ~HasRoom(Gap)
    /\ cursor' = Gap.end
    /\ UNCHANGED <<phase, arena, reserved, entries, runs>>

EntriesAt(run) == Region(run.start * PageSize, (run.start + Needed) * PageSize)

\* NonNull::new refuses the address 0.
AtNull(region) == region.base = 0

\* The run has room: the array goes to its start and is reserved, and seed
\* begins an iteration of its own.
Found ==
    /\ phase = "placing"
    /\ Yields
    /\ HasRoom(Gap)
    /\ ~AtNull(EntriesAt(Gap))
    /\ Len(reserved) < MaxReserved
    /\ entries' = EntriesAt(Gap)
    /\ reserved' = Append(reserved, EntriesAt(Gap))
    /\ Begin("seeding")
    /\ UNCHANGED <<arena, runs>>

\* The first run with room is the only one looked at: when it begins at address
\* 0 there is no array, whatever lies behind it.
FoundAtNull ==
    /\ phase = "placing"
    /\ Yields
    /\ HasRoom(Gap)
    /\ AtNull(EntriesAt(Gap))
    /\ phase' = "unplaceable"
    /\ UNCHANGED <<arena, reserved, cursor, entries, runs>>

FoundFails ==
    /\ phase = "placing"
    /\ Yields
    /\ HasRoom(Gap)
    /\ ~AtNull(EntriesAt(Gap))
    /\ Len(reserved) = MaxReserved
    /\ phase' = "full"
    /\ UNCHANGED <<arena, reserved, cursor, entries, runs>>

Seed ==
    /\ phase = "seeding"
    /\ Yields
    /\ runs' = Append(runs, Gap)
    /\ cursor' = Gap.end
    /\ UNCHANGED <<phase, arena, reserved, entries>>

Exhausted ==
    /\ phase \in {"placing", "seeding"}
    /\ Containing(arena, Taken, cursor) = {}
    /\ cursor >= LastPage(arena)
    /\ phase' = IF phase = "placing" THEN "unplaceable" ELSE "ready"
    /\ UNCHANGED <<arena, reserved, cursor, entries, runs>>

Iterate == Skip \/ TooShort \/ Found \/ FoundAtNull \/ FoundFails \/ Seed \/ Exhausted

-------------------------------------------------------------------------------
Init ==
    /\ phase = "new"
    /\ arena = Nowhere
    /\ reserved = <<>>
    /\ cursor = 0
    /\ entries = Nowhere
    /\ runs = <<>>

Next ==
    \/ \E m \in Memories : New(m) \/ NewFails(m)
    \/ \E r \in Claims : Reserve(r) \/ ReserveFails(r)
    \/ Place \/ PlaceFails
    \/ Iterate

\* Nothing interrupts mm::init for good.
Spec == Init /\ [][Next]_vars /\ WF_vars(Iterate)

-------------------------------------------------------------------------------
(* What must hold.                                                         *)

\* The variables hold values of their kind (mm/map.rs, mm/pages.rs).
TypeOK ==
    /\ phase \in Phases
    /\ {arena, entries} \subseteq [base : Nat, size : Nat]
    /\ reserved \in Seq([base : Nat, size : Nat]) /\ Len(reserved) <= MaxReserved
    /\ cursor \in Nat
    /\ runs \in Seq([start : Nat, end : Nat])

\* The pages of the arena with no byte of a reservation in them, byte by byte.
FreePages ==
    {p \in FirstPage(arena) .. LastPage(arena) - 1 :
        \A a \in p * PageSize .. (p + 1) * PageSize - 1, r \in Taken :
            ~(r.base <= a /\ a < End(r))}

Seeded == UNION {PagesOf(runs[i]) : i \in DOMAIN runs}

\* Seeding takes what the reservations leave, neither a page that holds a byte
\* of one nor a page less; while it goes on, all that lies before the cursor.
\* The runs ascend and do not touch: each is as long as it can be, so that the
\* buddies in it are never seeded apart.
SeedsFree ==
    /\ phase \in {"seeding", "ready"} =>
         Seeded = {p \in FreePages : p < cursor \/ phase = "ready"}
    /\ \A i \in DOMAIN runs :
         /\ runs[i].start < runs[i].end
         /\ i > 1 => runs[i - 1].end < runs[i].start

\* The pages where the array of entries could begin.
Places == {p \in FreePages : p .. p + Needed - 1 \subseteq FreePages}

\* The array of entries has room for every page of the arena, lies in the
\* arena, though never at address 0, and overlaps nothing reserved before it;
\* nothing is seeded from it.  There is no place for it only if no free run of
\* its length is left, or if the first one begins at address 0: then the code
\* looks no further, even with room behind it (Pages::new in mm/pages.rs).
EntriesPlaced ==
    /\ TypeOK
    /\ phase \in {"seeding", "ready"} =>
         /\ entries.size >= (arena.size \div PageSize) * EntrySize
         /\ arena.base <= entries.base /\ End(entries) <= End(arena) /\ ~AtNull(entries)
         /\ \A i \in 1 .. Len(reserved) - 1 :
               LET r == reserved[i] IN r.size = 0 \/ End(r) <= entries.base \/ End(entries) <= r.base
         /\ \A p \in Seeded :
               End(entries) <= p * PageSize \/ (p + 1) * PageSize <= entries.base
    /\ phase = "unplaceable" /\ arena.size \div PageSize \in 1 .. MaxPages =>
         Places = {} \/ 0 \in Places

\* The iterator comes to an end, whatever is reserved.
Terminates == []<>(phase \notin {"placing", "seeding"})
==============================================================================
