-------------------------------- MODULE Gaps ---------------------------------
(***************************************************************************)
(* mm/region.rs and mm/gaps.rs: regions of memory, the runs of pages they  *)
(* claim, and one turn of the iterator over the pages no region claims.    *)
(* The iterator's state is its cursor, which the modules that run it keep. *)
(***************************************************************************)
EXTENDS Integers, Sequences, FiniteSetsExt

CONSTANT PageSize

ASSUME GapsAssumption == PageSize \in Nat \ {0}

Region(base, end) == [base |-> base, size |-> end - base]

End(r) == r.base + r.size

\* Pfn::from_addr_down, from_addr_up
PageDown(a) == a \div PageSize

PageUp(a) == (a + PageSize - 1) \div PageSize

\* A PageRange: its end is the first page behind it.
Run(start, end) == [start |-> start, end |-> end]

PagesOf(run) == run.start .. run.end - 1

(* Faulty variants of definitions below, used by no specification. *)

\* a region that ends inside a page leaves that page
ClaimedDown(r, arena) ==
    LET base == Max({r.base, arena.base})
        end  == Min({End(r), End(arena)})
    IN  IF base < end THEN {Run(PageDown(base), PageDown(end))} ELSE {}

-------------------------------------------------------------------------------
\* PageRange::new: the pages region r touches within the arena, if any.
Claimed(r, arena) ==
    LET base == Max({r.base, arena.base})
        end  == Min({End(r), End(arena)})
    IN  IF base < end THEN {Run(PageDown(base), PageUp(end))} ELSE {}

Ranges(arena, taken) == UNION {Claimed(r, arena) : r \in taken}

\* containing: the ends of the runs that cover page pfn.  The code goes to the
\* first it finds; any leads to the same page in the end.
Containing(arena, taken, pfn) ==
    {run.end : run \in {run \in Ranges(arena, taken) : pfn \in PagesOf(run)}}

\* next_base_above, or nothing.
NextBaseAbove(arena, taken, pfn) ==
    LET above == {run.start : run \in Ranges(arena, taken)} \ (0 .. pfn)
    IN  IF above = {} THEN {} ELSE {Min(above)}

\* The cursor at the start of an iteration over the arena, and where it ends.
FirstPage(arena) == PageUp(arena.base)

LastPage(arena) == PageDown(End(arena))

\* The run that starts at a page no region claims.
GapAt(arena, taken, pfn) ==
    Run(pfn, Min({LastPage(arena)} \cup NextBaseAbove(arena, taken, pfn)))
==============================================================================
