--------------------------------- MODULE Mmu ----------------------------------
(***************************************************************************)
(* arch/aarch64/mmu: the identity map the kernel builds at boot.  A plan   *)
(* gives regions their permissions, or none to leave them unmapped; what   *)
(* no region claims is filled, and then the devices below the memory are   *)
(* mapped by a plan of their own.  Each action is one turn of a loop of    *)
(* apply or map_range, whose recursion is the stack calls.                 *)
(***************************************************************************)
EXTENDS Gaps

CONSTANTS
    SlotCount,  \* SLOTS, the slots of a table
    MaxTables,  \* bound: the pages the heap has for tables, at most
    Boards      \* what init may be called with: records of the memory and a
                \* plan, a sequence of records of a region and a template

\* Level::size
Size(l) == <<PageSize * SlotCount * SlotCount, PageSize * SlotCount, PageSize>>[l]

\* VA_BITS, 39: where the address space ends.
Limit == SlotCount * Size(1)

None == "none"      \* no template

\* All that init maps is within the address space.  The image is in memory.  So
\* is the device tree, or else the memory begins on a level 1 slot (1 GiB) and
\* the tree, which has a template, is smaller than one.
ASSUME MmuAssumption ==
    /\ SlotCount \in Nat \ {0, 1}
    /\ MaxTables \in Nat
    /\ \A b \in Boards :
          /\ b.memory \in [base : Nat, size : Nat] /\ End(b.memory) <= Limit
          /\ DOMAIN b.plan = 1 .. Len(b.plan) /\ Len(b.plan) \in Nat
          /\ \A i \in DOMAIN b.plan :
                LET r == b.plan[i].region
                IN  /\ r \in [base : Nat, size : Nat] /\ End(r) <= Limit
                    /\ \/ b.memory.base <= r.base /\ End(r) <= End(b.memory)
                       \/ /\ b.memory.base % Size(1) = 0 /\ r.size < Size(1)
                          /\ b.plan[i].template # None

VARIABLES
    board,          \* what init is called with
    phase,          \* what init is doing, or how it ended
    pass,           \* which of its two calls of apply it is in
    next,           \* the next mapping of the plan
    cursor,         \* the iterator over the gaps, once the plan is mapped
    calls,          \* the calls of map_range in progress, the innermost last
    template,       \* their template
    slots,          \* the slots of every table
    used            \* how many tables the heap has handed out

loops == <<pass, next, cursor>>
walk  == <<calls, template>>
tree  == <<slots, used>>
vars  == <<board, phase, loops, walk, tree>>

Levels == 1 .. 3

\* Level::slot_of, offset_mask
SlotOf(l, va) == (va \div Size(l)) % SlotCount

SlotEnd(l, va) == (va \div Size(l) + 1) * Size(l)

Space == 0 .. SlotCount * SlotCount * SlotCount - 1     \* the virtual pages

Normal == "normal"

Device == "device"

Failures == {"no table", "overlap", "out of memory", "unaligned",
             "in the way"}

Descriptor(kind, address, attr) == [kind |-> kind, address |-> address, attr |-> attr]

Zero == Descriptor("invalid", 0, None)

\* Kind::from_level: at level 3 a page has the kind of a table further up.
Leaf(l, va, attr) == Descriptor(IF l = 3 THEN "table" ELSE "block", va, attr)

\* what a page of the heap may hold
Garbage == [i \in 0 .. SlotCount - 1 |-> Descriptor("block", 0, Normal)]

Root == 1

\* The two calls of apply.
Arena == IF pass = 1 THEN board.memory ELSE Region(0, board.memory.base)

Plan == IF pass = 1 THEN board.plan ELSE <<>>

Fill == IF pass = 1 THEN Normal ELSE Device

Here == calls[Len(calls)]

Call(table, base, end, level) == [table |-> table, addr |-> base, end |-> end, level |-> level]

\* The innermost call goes on at addr.
AtAddr(addr) == [calls EXCEPT ![Len(calls)].addr = addr]

ChunkEnd == Min({SlotEnd(Here.level, Here.addr), Here.end})

\* The slot the innermost call is at.
Slot == slots[Here.table][SlotOf(Here.level, Here.addr)]

SetSlot(t, i, d) == [slots EXCEPT ![t][i] = d]

(* Faulty variants of definitions below, used by no specification. *)

\* only what has a template is left out of the fill
TakenTemplates == {Plan[i].region : i \in {i \in DOMAIN Plan : Plan[i].template # None}}

\* a table is made where there is one
NeedsChildAlways == Slot.kind # "block"

\* regions that touch overlap
OverlapsTouching(p) ==
    \E i, j \in DOMAIN p :
        /\ i < j
        /\ p[i].region.base <= End(p[j].region)
        /\ p[j].region.base <= End(p[i].region)

\* a region inside another is not noticed
OverlapsAcross(p) ==
    \E i, j \in DOMAIN p :
        /\ i # j
        /\ p[i].region.base < p[j].region.base /\ p[j].region.base < End(p[i].region)
        /\ End(p[i].region) < End(p[j].region)

-------------------------------------------------------------------------------
(* init and apply.                                                         *)

\* Table::new clears the page it gets.
NewTable(t) == [slots EXCEPT ![t] = [i \in 0 .. SlotCount - 1 |-> Zero]]

NewRoot ==
    /\ phase = "new"
    /\ used < MaxTables
    /\ used' = Root
    /\ slots' = NewTable(Root)
    /\ phase' = "check"
    /\ UNCHANGED <<board, loops, walk>>

\* The heap may be out of pages at any time.
NoTable ==
    /\ phase = "new"
    /\ phase' = "no table"
    /\ UNCHANGED <<board, loops, walk, tree>>

Overlaps(p) ==
    \E i, j \in DOMAIN p :
        /\ i < j
        /\ p[i].region.base < End(p[j].region)
        /\ p[j].region.base < End(p[i].region)

Apply ==
    /\ phase = "check"
    /\ ~Overlaps(Plan)
    /\ phase' = "map"
    /\ next' = 1
    /\ cursor' = FirstPage(Arena)
    /\ UNCHANGED <<board, pass, walk, tree>>

Refuse ==
    /\ phase = "check"
    /\ Overlaps(Plan)
    /\ phase' = "overlap"
    /\ UNCHANGED <<board, loops, walk, tree>>

IdentityMap(region, attr) ==
    /\ calls' = <<Call(Root, region.base, End(region), 1)>>
    /\ template' = attr

MapPlanned ==
    /\ phase = "map" /\ calls = <<>>
    /\ next <= Len(Plan)
    /\ Plan[next].template # None
    /\ IdentityMap(Plan[next].region, Plan[next].template)
    /\ next' = next + 1
    /\ UNCHANGED <<board, phase, pass, cursor, tree>>

LeaveUnmapped ==
    /\ phase = "map" /\ calls = <<>>
    /\ next <= Len(Plan)
    /\ Plan[next].template = None
    /\ next' = next + 1
    /\ UNCHANGED <<board, phase, pass, cursor, walk, tree>>

Taken == {Plan[i].region : i \in DOMAIN Plan}

\* The plan is mapped; the gaps between its regions follow.
Filling == phase = "map" /\ calls = <<>> /\ next > Len(Plan)

SkipClaimed ==
    /\ Filling
    /\ cursor' \in Containing(Arena, Taken, cursor)
    /\ UNCHANGED <<board, phase, pass, next, walk, tree>>

MapGap ==
    /\ Filling
    /\ Containing(Arena, Taken, cursor) = {}
    /\ cursor < LastPage(Arena)
    /\ LET gap == GapAt(Arena, Taken, cursor)
       IN  /\ IdentityMap(Region(gap.start * PageSize, gap.end * PageSize), Fill)
           /\ cursor' = gap.end
    /\ UNCHANGED <<board, phase, pass, next, tree>>

\* Ok from apply: after the memory the devices, and after these init::init.
Applied ==
    /\ Filling
    /\ Containing(Arena, Taken, cursor) = {}
    /\ cursor >= LastPage(Arena)
    /\ phase' = IF pass = 1 THEN "check" ELSE "done"
    /\ pass' = 2
    /\ UNCHANGED <<board, next, cursor, walk, tree>>

-------------------------------------------------------------------------------
(* map_range, one turn of its loop.                                        *)

Turn == phase = "map" /\ calls # <<>> /\ Here.addr < Here.end

\* The chunk is the whole slot.
Fills == Here.addr % Size(Here.level) = 0 /\ ChunkEnd = SlotEnd(Here.level, Here.addr)

Fail(how) == phase' = how /\ UNCHANGED <<board, loops, walk, tree>>

MapLeaf ==
    /\ Turn
    /\ Fills
    /\ Here.level < 3 => Slot.kind # "table"
    /\ slots' = SetSlot(Here.table, SlotOf(Here.level, Here.addr),
                        Leaf(Here.level, Here.addr, template))
    /\ calls' = AtAddr(ChunkEnd)
    /\ UNCHANGED <<board, phase, loops, template, used>>

\* A table where a leaf would go, or (child_table) a block where a table would.
InTheWay ==
    /\ Turn
    /\ Here.level < 3
    /\ Slot.kind = IF Fills THEN "table" ELSE "block"
    /\ Fail("in the way")

Unaligned == Turn /\ ~Fills /\ Here.level = 3 /\ Fail("unaligned")

\* The call for the part of a slot, in the table below.
Enter(table) ==
    calls' = Append(AtAddr(ChunkEnd), Call(table, Here.addr, ChunkEnd, Here.level + 1))

\* child_table: the table may be there, ...
Descend ==
    /\ Turn
    /\ ~Fills /\ Here.level < 3
    /\ Slot.kind = "table"
    /\ Enter(Slot.address)
    /\ UNCHANGED <<board, phase, loops, template, tree>>

\* ... or is allocated and linked.
NeedsChild == Slot.kind = "invalid"

Grow ==
    /\ Turn
    /\ ~Fills /\ Here.level < 3
    /\ NeedsChild
    /\ used < MaxTables
    /\ used' = used + 1
    /\ slots' = [NewTable(used + 1) EXCEPT
                    ![Here.table][SlotOf(Here.level, Here.addr)] = Descriptor("table", used + 1, None)]
    /\ Enter(used + 1)
    /\ UNCHANGED <<board, phase, loops, template>>

OutOfMemory ==
    /\ Turn
    /\ ~Fills /\ Here.level < 3
    /\ NeedsChild
    /\ Fail("out of memory")

Return ==
    /\ phase = "map" /\ calls # <<>> /\ Here.addr >= Here.end
    /\ calls' = SubSeq(calls, 1, Len(calls) - 1)
    /\ UNCHANGED <<board, phase, loops, template, tree>>

-------------------------------------------------------------------------------
Init ==
    /\ board \in Boards
    /\ phase = "new"
    /\ pass = 1
    /\ next = 1
    /\ cursor = 0
    /\ calls = <<>>
    /\ template = None
    /\ slots = [t \in 1 .. MaxTables |-> Garbage]
    /\ used = 0

Next ==
    \/ NewRoot \/ NoTable \/ Apply \/ Refuse
    \/ MapPlanned \/ LeaveUnmapped \/ SkipClaimed \/ MapGap \/ Applied
    \/ MapLeaf \/ InTheWay \/ Unaligned \/ Descend \/ Grow \/ OutOfMemory
    \/ Return

Spec == Init /\ [][Next]_vars

-------------------------------------------------------------------------------
(* translate, and what must hold.                                          *)

NoWhere == 0        \* no table

\* The table a walk to va reads at each level.
TableAt(va) ==
    LET at[l \in Levels] ==
            IF l = 1 THEN IF used = 0 THEN NoWhere ELSE Root
            ELSE IF at[l - 1] = NoWhere THEN NoWhere
            ELSE LET d == slots[at[l - 1]][SlotOf(l - 1, va)]
                 IN  IF d.kind = "table" THEN d.address ELSE NoWhere
    IN  at

\* The leaves a walk to va ends at: one or none.
LeavesAt(va) ==
    LET at == TableAt(va)
    IN  {[level |-> l, leaf |-> slots[at[l]][SlotOf(l, va)]] : l \in
            {l \in Levels : at[l] # NoWhere /\ slots[at[l]][SlotOf(l, va)].kind =
                               IF l = 3 THEN "table" ELSE "block"}}

\* translate_at
Translation(va) == {x.leaf.address + (va % Size(x.level)) : x \in LeavesAt(va)}

\* The attributes page p is mapped with.
AttrOf(p) ==
    LET leaves == LeavesAt(p * PageSize)
    IN  IF leaves = {} THEN None ELSE (CHOOSE x \in leaves : TRUE).leaf.attr

\* The variables hold values of their kind (mmu/mod.rs, mmu/descriptor.rs).
TypeOK ==
    /\ phase \in {"new", "check", "map", "done"} \cup Failures
    /\ pass \in 1 .. 2 /\ next \in 1 .. Len(board.plan) + 1 /\ cursor \in Nat
    /\ calls \in Seq([table : 1 .. used, addr : Nat, end : Nat, level : Levels]) /\ Len(calls) <= 3
    /\ used \in 0 .. MaxTables
    /\ \A t \in 1 .. used : \A i \in 0 .. SlotCount - 1 :
          slots[t][i].kind \in {"invalid", "block", "table"} /\ slots[t][i].address \in Nat

\* The tables are a tree: every table the heap gave is linked from exactly one
\* slot of a table one level up, down to level 3.
TablesAreTree ==
    LET Links(ts) == {x \in ts \X (0 .. SlotCount - 1) : slots[x[1]][x[2]].kind = "table"}
        Below(ts) == {slots[x[1]][x[2]].address : x \in Links(ts)}
        level2    == Below({Root})
        level3    == Below(level2)
    IN  /\ TypeOK
        /\ used > 0 =>
              /\ {Root} \cup level2 \cup level3 = 1 .. used
              /\ Cardinality(Links({Root})) + Cardinality(Links(level2)) = used - 1

\* What page p may be mapped with: the template of a region with a byte in it,
\* or else what fills the arena it is wholly in.
Wanted(p) ==
    LET start  == p * PageSize
        end    == (p + 1) * PageSize
        Meets(r)  == Max({r.base, start}) < Min({End(r), end})
        claims == {board.plan[i].template : i \in {i \in DOMAIN board.plan : Meets(board.plan[i].region)}}
    IN  IF claims # {} THEN claims
        ELSE IF board.memory.base <= start /\ end <= End(board.memory) THEN {Normal}
        ELSE IF end <= board.memory.base THEN {Device}
        ELSE {None}

\* Whatever is mapped is mapped to itself and as wanted, at every step; when
\* init turns the MMU on, everything wanted is mapped, and the stack guard and
\* what is neither memory nor below it are not.
MappedAsPlanned ==
    \A p \in Space :
        /\ Translation(p * PageSize) \subseteq {p * PageSize}
        /\ AttrOf(p) \in Wanted(p) \cup {None}
        /\ phase = "done" => {AttrOf(p)} = Wanted(p)

\* init refuses only a plan at fault: with regions that share a byte, an edge
\* inside a page, or a region in the way of the devices.
RefusesForCause ==
    /\ phase = "overlap" =>
         \E i, j \in DOMAIN board.plan :
             i # j /\ board.plan[i].region.base \in board.plan[j].region.base .. End(board.plan[j].region) - 1
    /\ phase = "unaligned" =>
         \E i \in DOMAIN board.plan :
             board.plan[i].region.base % PageSize # 0 \/ End(board.plan[i].region) % PageSize # 0
    /\ phase = "in the way" =>
         \E i \in DOMAIN board.plan :
             board.plan[i].template # None /\ board.plan[i].region.base < board.memory.base

Templates == (UNION {{b.plan[i].template : i \in DOMAIN b.plan} : b \in Boards}) \ {None}

\* The hardware sees an AddressSpace: a live mapping is never rewritten.
AddressSpaces ==
    INSTANCE AddressSpace WITH
        Pages    <- Space,
        Attrs    <- {Normal, Device} \cup Templates,
        Unmapped <- None,
        space    <- [p \in Space |-> AttrOf(p)]

ImplementsAddressSpace == AddressSpaces!Spec
===============================================================================
