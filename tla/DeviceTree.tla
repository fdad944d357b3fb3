------------------------------ MODULE DeviceTree -------------------------------
(***************************************************************************)
(* platform/dtb and platform/board.rs: the reader of the flattened device  *)
(* tree, byte by byte as its cursor goes, and what Board::discover looks   *)
(* for in it.  The code's Option is a set here, of one value or of none.   *)
(* Names and strings keep their lengths' parity and no spelling.           *)
(***************************************************************************)
EXTENDS Integers, Sequences, SequencesExt, FiniteSetsExt

CONSTANTS
    Byte,       \* how many values a byte has (256)
    Cell,       \* bytes in a u32 (4)
    PpiBase, SpiBase    \* where the GIC counts the two kinds from (16, 32)

ASSUME DeviceTreeAssumption ==
    /\ Byte \in Nat /\ Byte > 16 /\ Cell \in Nat \ {0}
    /\ PpiBase \in Nat /\ SpiBase \in Nat

Words == Byte ^ Cell    \* the values of a u32

BEGIN_NODE == 1
END_NODE == 2
PROP == 3
NOOP == 4
END == 9

SupportedVersion == 17

\* The property names and strings the reader knows.
AddressCells == <<1>>
SizeCells == <<2>>
DeviceType == <<3>>
Compatible == <<4>>
Reg == <<5>>
Interrupts == <<6>>
Method == <<7>>
Memory == <<8, 8>>
Uart == <<9, 9>>
GicV2 == <<10>>
Timer == <<11>>
Psci == <<12, 12>>
Hvc == <<13>>
Smc == <<14>>
-------------------------------------------------------------------------------
(* Cursor: offsets count from 0, and may lie behind the end.               *)

HasBytes(b, o, n) == o + n <= Len(b)

BytesAt(b, o, n) == SubSeq(b, o + 1, o + n)

\* The n bytes at o as a number, the most significant first.
NumberAt(b, o, n) ==
    LET number[k \in 0 .. n] == IF k = 0 THEN 0 ELSE number[k - 1] * Byte + b[o + k]
    IN  number[n]

HasU32(b, o) == HasBytes(b, o, Cell)

U32At(b, o) == NumberAt(b, o, Cell)

\* A string up to the next NUL.
HasString(b, o) == \E k \in o + 1 .. Len(b) : b[k] = 0

StringEnd(b, o) == Min({k \in o .. Len(b) - 1 : b[k + 1] = 0})

StringAt(b, o) == BytesAt(b, o, StringEnd(b, o) - o)

(* A faulty variant of the next definition, used by no specification:       *)
(* a value is not padded.                                                   *)
AlignNot(o) == o

\* align_u32
Aligned(o) == ((o + Cell - 1) \div Cell) * Cell
-------------------------------------------------------------------------------
(* The structure block s, with the strings block t.                        *)

\* A property token at o, its length, name and value, and what follows it.
LengthAt(s, o) == U32At(s, o + Cell)

IntactProperty(s, o) ==
    /\ HasU32(s, o + Cell) /\ HasU32(s, o + 2 * Cell)
    /\ HasBytes(s, o + 3 * Cell, LengthAt(s, o))

PropertyAt(s, t, o) ==
    [name |-> StringAt(t, U32At(s, o + 2 * Cell)), value |-> BytesAt(s, o + 3 * Cell, LengthAt(s, o))]

AfterProperty(s, o) == Aligned(o + 3 * Cell + LengthAt(s, o))

\* Properties::next: they end at the first token that is none.
IsProperty(s, t, o) ==
    /\ HasU32(s, o) /\ U32At(s, o) = PROP
    /\ IntactProperty(s, o) /\ HasString(t, U32At(s, o + 2 * Cell))

Properties(s, t, start) ==
    LET from[o \in 0 .. Len(s) + Cell] ==
            IF IsProperty(s, t, o)
            THEN <<PropertyAt(s, t, o)>> \o from[AfterProperty(s, o)]
            ELSE <<>>
    IN  from[start]

\* Nodes::next, to the end: each node's depth and where its properties begin.
\* An unknown token or one cut short ends the walk.
Nodes(s) ==
    LET Begun(o) == Aligned(StringEnd(s, o + Cell) + 1)
        from[o \in 0 .. Len(s) + Cell, depth \in 0 .. Len(s)] ==
            CASE ~HasU32(s, o) -> <<>>
              [] HasU32(s, o) /\ U32At(s, o) = BEGIN_NODE /\ HasString(s, o + Cell) ->
                    <<[depth |-> depth, start |-> Begun(o)]>> \o from[Begun(o), depth + 1]
              [] HasU32(s, o) /\ U32At(s, o) = PROP /\ IntactProperty(s, o) ->
                    from[AfterProperty(s, o), depth]
              [] HasU32(s, o) /\ U32At(s, o) = END_NODE ->
                    from[o + Cell, Max({depth - 1, 0})]
              [] HasU32(s, o) /\ U32At(s, o) \in {NOOP, END} -> from[o + Cell, depth]
              [] OTHER -> <<>>
    IN  from[0, 0]
-------------------------------------------------------------------------------
(* A node: here its sequence of properties.                                *)

\* Node::property: the first of that name.
ValueOf(node, name) ==
    LET hits == {i \in DOMAIN node : node[i].name = name}
    IN  IF hits = {} THEN {} ELSE {node[Min(hits)].value}

NulTerminated(string) == Append(string, 0)

IsMemory(node) == NulTerminated(Memory) \in ValueOf(node, DeviceType)

\* One of the strings in the list.
IsCompatible(node, string) ==
    \E list \in ValueOf(node, Compatible) : \E i, j \in DOMAIN list :
        /\ SubSeq(list, i, j) = string
        /\ i = 1 \/ list[i - 1] = 0
        /\ j = Len(list) \/ list[j + 1] = 0

\* The n cells at o of a value: more than two are too wide.
ReadCells(b, o, n) ==
    IF n <= 2 /\ HasBytes(b, o, n * Cell)
    THEN {NumberAt(b, o, n * Cell)}
    ELSE {}

RegionAt(node, index, cells) ==
    UNION {LET o == index * (cells.address + cells.size) * Cell
           IN  {[base |-> base, size |-> size] :
                   base \in ReadCells(reg, o, cells.address),
                   size \in ReadCells(reg, o + cells.address * Cell, cells.size)} :
           reg \in ValueOf(node, Reg)}

BaseOf(node, index, cells) == {r.base : r \in RegionAt(node, index, cells)}

\* Three cells an interrupt; the third, its flags, is not read.
IntId(node, index) ==
    LET o == index * 3 * Cell
        First(b)  == U32At(b, o)
        Second(b) == U32At(b, o + Cell)
        read == {b \in ValueOf(node, Interrupts) : HasU32(b, o + Cell)}
    IN  {(Second(b) + SpiBase) % Words : b \in {b \in read : First(b) = 0}}
        \cup {(Second(b) + PpiBase) % Words : b \in {b \in read : First(b) = 1}}

\* #address-cells and #size-cells, or what the specification says without them.
CellsOf(node) ==
    LET Count(name, default) ==
            LET set == {U32At(v, 0) : v \in {v \in ValueOf(node, name) : HasU32(v, 0)}}
            IN  IF set = {} THEN default ELSE CHOOSE n \in set : TRUE
    IN  [address |-> Count(AddressCells, 2), size |-> Count(SizeCells, 1)]
-------------------------------------------------------------------------------
(* A blob: what its header says, and the bytes.                            *)

Fits(blob, range) == range.offset + range.size <= Len(blob.bytes)

Part(blob, range) == BytesAt(blob.bytes, range.offset, range.size)

\* Dtb::from_ptr
HasTree(blob) ==
    blob.magic /\ blob.version <= SupportedVersion /\ Fits(blob, blob.strings)

\* Dtb::nodes
TreeNodes(blob) == IF Fits(blob, blob.structure) THEN Nodes(Part(blob, blob.structure)) ELSE <<>>

NodeOf(blob, n) == Properties(Part(blob, blob.structure), Part(blob, blob.strings), n.start)

\* Dtb::find: of the nodes that match, the first child of the root.
Find(blob, nodes, matching) ==
    LET hits == {i \in matching : nodes[i].depth = 1}
    IN  IF hits = {} THEN {} ELSE {NodeOf(blob, nodes[Min(hits)])}

\* The timer's second interrupt is the one of the physical counter.
NonSecurePhysical == 1

\* Board::discover: each lookup with the name it fails with, in their order.
Lookups(blob) ==
    LET nodes == TreeNodes(blob)
        cells == CellsOf(NodeOf(blob, nodes[1]))
        memories == {i \in DOMAIN nodes : IsMemory(NodeOf(blob, nodes[i]))}
        Device(string) ==
            Find(blob, nodes, {i \in DOMAIN nodes : IsCompatible(NodeOf(blob, nodes[i]), string)})
    IN  IF nodes = <<>> THEN << [name |-> "/", found |-> {}] >> ELSE
        << [name |-> "/",          found |-> {cells}],
           [name |-> "memory",     found |-> UNION {RegionAt(n, 0, cells) : n \in Find(blob, nodes, memories)}],
           [name |-> "uart base",  found |-> UNION {BaseOf(n, 0, cells) : n \in Device(Uart)}],
           [name |-> "uart intid", found |-> UNION {IntId(n, 0) : n \in Device(Uart)}],
           [name |-> "gic distributor", found |-> UNION {BaseOf(n, 0, cells) : n \in Device(GicV2)}],
           [name |-> "gic cpu",    found |-> UNION {BaseOf(n, 1, cells) : n \in Device(GicV2)}],
           [name |-> "timer",      found |-> UNION {IntId(n, NonSecurePhysical) : n \in Device(Timer)}],
           [name |-> "psci",       found |-> UNION {ValueOf(n, Method) : n \in Device(Psci)}
                                             \cap {NulTerminated(Hvc), NulTerminated(Smc)}] >>

\* The board, by the names of the lookups, or the first that found nothing.
FirstMissing(blob) ==
    LET lookups == Lookups(blob)
        empty   == {i \in DOMAIN lookups : lookups[i].found = {}}
    IN  IF empty = {} THEN "nothing" ELSE lookups[Min(empty)].name

BoardOf(blob) ==
    LET lookups == Lookups(blob)
    IN  [name \in {lookups[i].name : i \in DOMAIN lookups} \ {"/"} |->
            CHOOSE v \in lookups[CHOOSE i \in DOMAIN lookups : lookups[i].name = name].found : TRUE]
===============================================================================
