------------------------------ MODULE MmuProofs ------------------------------
(***************************************************************************)
(* That the tables are a tree, that whatever is mapped is mapped to itself *)
(* as the plan says, that init refuses only a plan at fault, and that no   *)
(* mapping is ever rewritten: for every board, page size and table size.   *)
(***************************************************************************)
EXTENDS Mmu, Lemmas, SequenceTheorems

-------------------------------------------------------------------------------
(* Walks, over any tables: sl is their slots, us how many there are.        *)

Addresses == 0 .. Limit - 1

Regions == [base : Nat, size : Nat]

Attributes == {None, Normal, Device} \cup Templates

Descriptors == [kind : {"invalid", "block", "table"}, address : Nat, attr : Attributes]

TableSlots == [1 .. MaxTables -> [0 .. SlotCount - 1 -> Descriptors]]

\* Two addresses in one slot of a level, or anywhere, at no level.
Together(l, va, vb) == l = 0 \/ va \div Size(l) = vb \div Size(l)

Start(l, va) == (va \div Size(l)) * Size(l)

\* The table below table t of level l on a walk to va.
Down(sl, t, l, va) ==
    IF t # NoWhere /\ sl[t][SlotOf(l, va)].kind = "table"
    THEN sl[t][SlotOf(l, va)].address ELSE NoWhere

First(us) == IF us = 0 THEN NoWhere ELSE Root

Second(sl, us, va) == Down(sl, First(us), 1, va)

Third(sl, us, va) == Down(sl, Second(sl, us, va), 2, va)

Table(sl, us, l, va) == IF l = 1 THEN First(us) ELSE IF l = 2 THEN Second(sl, us, va) ELSE Third(sl, us, va)

SlotAt(sl, us, l, va) == sl[Table(sl, us, l, va)][SlotOf(l, va)]

IsLeaf(sl, us, l, va) ==
    /\ Table(sl, us, l, va) # NoWhere
    /\ SlotAt(sl, us, l, va).kind = IF l = 3 THEN "table" ELSE "block"

\* Each table is on a walk, and on walks to one part of the address space only.
Tree(sl, us) ==
    /\ sl \in TableSlots /\ us \in 0 .. MaxTables
    /\ \A t \in 1 .. us : \E l \in Levels, va \in Addresses : Table(sl, us, l, va) = t
    /\ \A l, m \in Levels, va, vb \in Addresses :
          Table(sl, us, l, va) # NoWhere /\ Table(sl, us, l, va) = Table(sl, us, m, vb)
              => l = m /\ Together(l - 1, va, vb)
    /\ \A l \in 1 .. 2, va \in Addresses :
          Table(sl, us, l, va) # NoWhere /\ SlotAt(sl, us, l, va).kind = "table"
              => SlotAt(sl, us, l, va).address \in 1 .. us

-------------------------------------------------------------------------------
(* Whose each byte is, and what of it has been mapped.                      *)

MemoryFill == 0

DeviceFill == 0 - 1

\* The entries of the plan, and the two fills.
Sources == DeviceFill .. Len(board.plan)

Devices == Region(0, board.memory.base)

\* Region r has a byte in page p.
Touches(r, p) == r.size > 0 /\ r.base < (p + 1) * PageSize /\ p * PageSize < End(r)

Unclaimed(p) == \A i \in DOMAIN board.plan : ~Touches(board.plan[i].region, p)

InRegion(r, x) == r.base <= x /\ x < End(r)

Owns(s, x) ==
    \/ /\ s \in DOMAIN board.plan
       /\ board.plan[s].template # None
       /\ InRegion(board.plan[s].region, x)
    \/ /\ s = MemoryFill
       /\ FirstPage(board.memory) <= PageDown(x) /\ PageDown(x) < LastPage(board.memory)
       /\ Unclaimed(PageDown(x))
    \/ /\ s = DeviceFill
       /\ PageDown(x) < LastPage(Devices)

Owner(s) == IF s = MemoryFill THEN Normal ELSE IF s = DeviceFill THEN Device ELSE board.plan[s].template

\* apply has come to it ...
Reached(s, x) ==
    \/ s \in DOMAIN board.plan /\ (pass = 2 \/ s < next)
    \/ s = MemoryFill /\ (pass = 2 \/ PageDown(x) < cursor)
    \/ s = DeviceFill /\ pass = 2 /\ phase # "check" /\ PageDown(x) < cursor

\* ... and map_range not yet.
Open(x) == calls # <<>> /\ Here.addr <= x /\ x < calls[1].end

Asked(s, x) == Owns(s, x) /\ Reached(s, x) /\ ((pass = 1 \/ s = DeviceFill) => ~Open(x))

-------------------------------------------------------------------------------
(* The inductive invariant.                                                 *)

Stages ==
    /\ board \in Boards
    /\ phase \in {"new", "check", "map", "done"} \cup Failures
    /\ pass \in 1 .. 2 /\ next \in 1 .. Len(board.plan) + 1 /\ cursor \in Nat
    /\ template \in Attributes
    /\ used = 0 <=> phase \in {"new", "no table"}
    /\ phase \in {"new", "check", "done"} => calls = <<>>
    /\ phase = "new" => pass = 1
    /\ phase \in {"new", "check"} /\ pass = 1 => next = 1 /\ cursor = 0
    /\ pass = 2 \/ phase = "map" => ~Overlaps(board.plan)
    /\ phase = "map" => FirstPage(Arena) <= cursor
    /\ pass = 2 /\ phase # "check" => cursor \in {0, LastPage(Devices)}
    /\ phase = "done" => pass = 2 /\ cursor >= LastPage(Devices)

\* Each call goes on where the one it made will end, in one table.
CallOK(k) ==
    LET c == calls[k]
    IN  /\ c.level = k
        /\ c.addr <= c.end /\ c.end <= Limit
        /\ k > 1 => calls[k - 1].addr = c.end
        /\ c.addr < c.end => /\ c.table = Table(slots, used, k, c.addr)
                             /\ Together(k - 1, c.addr, c.end - 1)

CallsOK ==
    /\ calls \in Seq([table : 1 .. used, addr : Nat, end : Nat, level : Levels])
    /\ Len(calls) <= 3
    /\ \A k \in 1 .. Len(calls) : CallOK(k)

\* What is being mapped has one owner, which apply has come to.
Current ==
    calls # <<>> =>
        /\ template # None
        /\ \E s \in Sources :
              /\ template = Owner(s)
              /\ s = DeviceFill <=> pass = 2
              /\ \A x \in Addresses : Open(x) => Owns(s, x) /\ Reached(s, x)

\* All of what leaf the walk to va ends at has been asked for, by one source.
LeafOf(s, l, va) ==
    /\ SlotAt(slots, used, l, va).attr = Owner(s)
    /\ \A x \in Addresses : Together(l, va, x) => Asked(s, x)

LeavesAsked ==
    \A l \in Levels, va \in Addresses :
        IsLeaf(slots, used, l, va) =>
            /\ SlotAt(slots, used, l, va).address = Start(l, va)
            /\ \E s \in Sources : LeafOf(s, l, va)

AskedMapped ==
    \A s \in Sources, va \in Addresses :
        Asked(s, va) => \E l \in Levels : IsLeaf(slots, used, l, va) /\ LeafOf(s, l, va)

Mapped(x) == \E l \in Levels : IsLeaf(slots, used, l, x)

\* There is a table only where something is mapped, or is about to be.
TablesUsed ==
    \A l \in 2 .. 3, va \in Addresses :
        Table(slots, used, l, va) # NoWhere =>
            \/ \E x \in Addresses : Together(l - 1, va, x) /\ Mapped(x)
            \/ l <= Len(calls) /\ Here.addr < Here.end /\ Together(l - 1, va, Here.addr)

EdgesAligned ==
    \A i \in DOMAIN board.plan :
        board.plan[i].region.base % PageSize = 0 /\ End(board.plan[i].region) % PageSize = 0

CallsAligned ==
    /\ EdgesAligned =>
          \A k \in 1 .. Len(calls) : calls[k].addr % PageSize = 0 /\ calls[k].end % PageSize = 0
    /\ pass = 2 /\ board.memory.base % Size(1) = 0 =>
          /\ Len(calls) <= 1
          /\ \A k \in 1 .. Len(calls) : calls[k].addr % Size(1) = 0 /\ calls[k].end % Size(1) = 0

IInv ==
    /\ Stages
    /\ Tree(slots, used)
    /\ CallsOK
    /\ Current
    /\ LeavesAsked
    /\ AskedMapped
    /\ TablesUsed
    /\ CallsAligned
    /\ RefusesForCause
-------------------------------------------------------------------------------
(* Addresses and slots.                                                     *)

LEMMA SizesAre ==
  /\ SlotCount \in Nat /\ SlotCount >= 2 /\ PageSize \in Nat /\ PageSize >= 1 /\ MaxTables \in Nat
  /\ Size(3) = PageSize /\ Size(2) = Size(3) * SlotCount /\ Size(1) = Size(2) * SlotCount
  /\ Limit = Size(1) * SlotCount
  /\ \A l \in Levels : Size(l) \in Nat /\ Size(l) >= 1
  /\ Limit \in Nat /\ Limit >= 1 /\ 0 \in Addresses
<1>1. SlotCount \in Nat /\ SlotCount >= 2 /\ PageSize \in Nat /\ PageSize >= 1 /\ MaxTables \in Nat
  BY GapsAssumption, MmuAssumption
<1>2. /\ Size(3) = PageSize /\ Size(2) = PageSize * SlotCount
      /\ Size(1) = PageSize * SlotCount * SlotCount /\ Limit = SlotCount * Size(1)
  BY DEF Size, Limit
<1>3. /\ Size(3) \in Nat /\ Size(3) >= 1
      /\ Size(2) = Size(3) * SlotCount /\ Size(1) = Size(2) * SlotCount /\ Limit = Size(1) * SlotCount
  BY <1>1, <1>2
<1>4. \A s \in Nat : s >= 1 => s * SlotCount \in Nat /\ s * SlotCount >= 1
  <2> SUFFICES ASSUME NEW s \in Nat, s >= 1 PROVE s * SlotCount \in Nat /\ s * SlotCount >= 1
    OBVIOUS
  <2>1. 1 * SlotCount <= s * SlotCount /\ s * SlotCount \in Int
    BY <1>1, ProductsOrder
  <2>2. 1 * SlotCount = SlotCount
    BY <1>1
  <2> QED BY <1>1, <2>1, <2>2
<1>5. Size(2) \in Nat /\ Size(2) >= 1
  BY <1>3, <1>4
<1>6. Size(1) \in Nat /\ Size(1) >= 1
  BY <1>3, <1>4, <1>5
<1>7. Limit \in Nat /\ Limit >= 1 /\ 0 \in Addresses
  <2>1. Limit \in Nat /\ Limit >= 1
    BY <1>3, <1>4, <1>6
  <2> QED BY <2>1 DEF Addresses
<1>8. \A l \in Levels : Size(l) \in Nat /\ Size(l) >= 1
  <2>1. \A l \in Levels : l = 1 \/ l = 2 \/ l = 3
    BY DEF Levels
  <2> QED BY <1>3, <1>5, <1>6, <2>1
<1> QED BY <1>1, <1>2, <1>3, <1>7, <1>8

LEMMA LevelIs ==
  ASSUME NEW l \in Levels
  PROVE  l \in Nat /\ (l = 1 \/ l = 2 \/ l = 3)
  BY DEF Levels

\* The addresses in a slot.
LEMMA AreaIs ==
  ASSUME NEW l \in Levels, NEW va \in Nat, NEW x \in Nat
  PROVE  /\ Start(l, va) \in Nat /\ SlotEnd(l, va) \in Nat
         /\ SlotEnd(l, va) = Start(l, va) + Size(l)
         /\ Start(l, va) <= va /\ va < SlotEnd(l, va)
         /\ Together(l, va, x) <=> Start(l, va) <= x /\ x < SlotEnd(l, va)
         /\ va % Size(l) = va - Start(l, va)
<1> DEFINE s == Size(l)
           q == va \div s
           r == x \div s
           z == q * s
<1>1. s \in Nat /\ s >= 1
  BY SizesAre
<1>2. q \in Nat /\ z \in Nat /\ z <= va /\ va < z + s /\ va % s = va - z
  BY <1>1, QuotientBounds
<1>3. r \in Nat
  BY <1>1, QuotientBounds
<1>4. (r <= q <=> x < z + s) /\ (q <= r <=> z <= x)
  <2> HIDE DEF s, q
  <2>1. (x \div s <= q <=> x < q * s + s) /\ (q <= x \div s <=> q * s <= x)
    BY <1>1, <1>2, QuotientOrder
  <2> QED BY <2>1
<1>5. (q + 1) * s = z + s
  BY <1>1, <1>2, ProductsOrder
<1>6. Start(l, va) = z /\ SlotEnd(l, va) = (q + 1) * s
  BY DEF Start, SlotEnd
<1>7. Together(l, va, x) <=> q = r
  BY LevelIs DEF Together
<1>8. Size(l) = s
  OBVIOUS
<1> HIDE DEF q, r, z
<1>9. SlotEnd(l, va) = z + s
  BY <1>5, <1>6
<1>10. q = r <=> z <= x /\ x < z + s
  BY <1>2, <1>3, <1>4
<1> HIDE DEF s
<1> QED BY <1>1, <1>2, <1>6, <1>7, <1>8, <1>9, <1>10

\* An address is in a table's part of the space, and there in a slot.
LEMMA SlotIs ==
  ASSUME NEW l \in Levels, NEW va \in Addresses, NEW vb \in Addresses
  PROVE  /\ SlotOf(l, va) \in 0 .. SlotCount - 1
         /\ Together(l, va, vb) <=> Together(l - 1, va, vb) /\ SlotOf(l, va) = SlotOf(l, vb)
<1> DEFINE n == SlotCount
<1>1. n \in Nat /\ n >= 1 /\ va \in Nat /\ vb \in Nat /\ va < Limit /\ vb < Limit /\ Limit \in Nat
  BY SizesAre DEF Addresses
<1>2. CASE l = 1
  <2> DEFINE s == Size(1)
             q == va \div s
             r == vb \div s
  <2>1. s \in Nat /\ s >= 1 /\ Limit = n * s
    <3>1. s \in Nat /\ s >= 1 /\ Limit = s * n
      BY SizesAre DEF Levels
    <3> HIDE DEF s, n
    <3> QED BY <1>1, <3>1
  <2>2. q \in Nat /\ r \in Nat
    BY <1>1, <2>1, QuotientBounds
  <2>3. (n <= q <=> n * s <= va) /\ (n <= r <=> n * s <= vb)
    BY <1>1, <2>1, QuotientOrder
  <2>4. SlotOf(1, va) = q % n /\ SlotOf(1, vb) = r % n
    BY DEF SlotOf
  <2>5. (Together(1, va, vb) <=> q = r) /\ Together(0, va, vb)
    BY DEF Together
  <2> HIDE DEF s, q, r, n
  <2>6. q < n /\ r < n
    BY <1>1, <2>1, <2>2, <2>3
  <2>7. q % n = q /\ r % n = r
    BY <1>1, <2>2, <2>6
  <2>8. q \in 0 .. n - 1
    BY <1>1, <2>2, <2>6
  <2>9. l - 1 = 0
    BY <1>2
  <2> QED BY <1>2, <2>4, <2>5, <2>7, <2>8, <2>9 DEF n
<1>3. CASE l # 1
  <2> DEFINE s == Size(l)
             t == Size(l - 1)
             q == va \div s
             r == vb \div s
             d == q % n
             e == r % n
             u == va \div t
             v == vb \div t
  <2>1. s \in Nat /\ s >= 1 /\ t \in Nat /\ t = s * n
    <3>1. l = 2 \/ l = 3
      BY <1>3, LevelIs
    <3>2. s \in Nat /\ s >= 1 /\ t \in Nat
      BY <3>1, SizesAre DEF Levels
    <3>3. t = s * n
      BY <3>1, SizesAre
    <3> QED BY <3>2, <3>3
  <2>2. /\ t >= 1
        /\ q = u * n + d /\ d \in 0 .. n - 1
        /\ r = v * n + e /\ e \in 0 .. n - 1
    <3> HIDE DEF s, t, n
    <3>1. \A a \in Nat : /\ t >= 1
                         /\ a \div s = (a \div t) * n + ((a \div s) % n)
                         /\ (a \div s) % n \in 0 .. n - 1
      <4>1. s \in Nat /\ s >= 1 /\ n \in Nat /\ n >= 1 /\ t \in Nat /\ Scales(t, s, n)
        BY <1>1, <2>1 DEF Scales
      <4> QED BY <4>1, QuotientNests
    <3>2. va \in Nat /\ vb \in Nat
      BY <1>1
    <3>3. /\ t >= 1
          /\ va \div s = (va \div t) * n + ((va \div s) % n) /\ (va \div s) % n \in 0 .. n - 1
      BY <3>1, <3>2, Zenon
    <3>4. vb \div s = (vb \div t) * n + ((vb \div s) % n) /\ (vb \div s) % n \in 0 .. n - 1
      BY <3>1, <3>2, Zenon
    <3> QED BY <3>3, <3>4, Zenon DEF q, r, d, e, u, v
  <2>3. u \in Nat /\ v \in Nat /\ q \in Nat /\ r \in Nat
    BY <1>1, <2>1, <2>2, QuotientBounds
  <2>4. SlotOf(l, va) = d /\ SlotOf(l, vb) = e
    BY DEF SlotOf
  <2>5. (Together(l, va, vb) <=> q = r) /\ (Together(l - 1, va, vb) <=> u = v)
    <3>1. l # 0 /\ l - 1 # 0
      BY <1>3, LevelIs
    <3> QED BY <3>1 DEF Together
  <2> DEFINE x == u * n
             y == v * n
  <2> HIDE DEF s, t, q, r, d, e, u, v, n
  <2>6. /\ x \in Int /\ y \in Int
        /\ u < v => x + n <= y
        /\ v < u => y + n <= x
        /\ u = v => x = y
    BY <1>1, <2>3, ProductsOrder
  <2>7. q = x + d /\ r = y + e
    BY <2>2
  <2> HIDE DEF x, y
  <2>8. q = r <=> u = v /\ d = e
    BY <1>1, <2>2, <2>3, <2>6, <2>7
  <2> QED BY <2>2, <2>4, <2>5, <2>8 DEF n
<1> QED BY <1>2, <1>3

LEMMA Nested ==
  ASSUME NEW l \in Levels, NEW m \in 0 .. l, NEW va \in Addresses, NEW vb \in Addresses,
         Together(l, va, vb)
  PROVE  Together(m, va, vb)
<1>1. Together(l - 1, va, vb)
  BY SlotIs
<1>2. l >= 2 => Together(l - 2, va, vb)
  <2> SUFFICES ASSUME l >= 2 PROVE Together(l - 2, va, vb)
    OBVIOUS
  <2>1. l - 1 \in Levels /\ l - 1 - 1 = l - 2
    BY LevelIs DEF Levels
  <2> QED BY <1>1, <2>1, SlotIs
<1>3. m = l \/ m = l - 1 \/ (l >= 2 /\ m = l - 2) \/ m = 0
  BY LevelIs
<1> QED BY <1>1, <1>2, <1>3 DEF Together

LEMMA TogetherIs ==
  ASSUME NEW l, NEW va, NEW vb, NEW vc
  PROVE  /\ Together(l, va, va)
         /\ Together(l, va, vb) => Together(l, vb, va)
         /\ Together(l, va, vb) /\ Together(l, vb, vc) => Together(l, va, vc)
  BY DEF Together

LEMMA SizesDivide ==
  ASSUME NEW l \in Levels
  PROVE  /\ \E m \in Nat : Limit = m * Size(l)
         /\ \E m \in Nat : Size(l) = m * PageSize
<1> DEFINE n == SlotCount
           a == Size(1)
           b == Size(2)
           c == Size(3)
<1>1. /\ n \in Nat /\ a \in Nat /\ b \in Nat /\ c \in Nat
      /\ c = PageSize /\ b = c * n /\ a = b * n /\ Limit = a * n
  BY SizesAre DEF Levels
<1>2. l = 1 \/ l = 2 \/ l = 3
  BY LevelIs
<1>3. CASE l = 1
  <2> DEFINE s == Size(l)
  <2>1. s = a
    BY <1>3
  <2> HIDE DEF n, a, b, c, s
  <2>2. Limit = n * a /\ a = (n * n) * c /\ n * n \in Nat
    BY <1>1
  <2> QED BY <1>1, <2>1, <2>2 DEF s
<1>4. CASE l = 2
  <2> DEFINE s == Size(l)
  <2>1. s = b
    BY <1>4
  <2> HIDE DEF n, a, b, c, s
  <2>2. Limit = (n * n) * b /\ b = n * c /\ n * n \in Nat
    BY <1>1
  <2> QED BY <1>1, <2>1, <2>2 DEF s
<1>5. CASE l = 3
  <2> DEFINE s == Size(l)
  <2>1. s = c
    BY <1>5
  <2> HIDE DEF n, a, b, c, s
  <2>2. Limit = (n * n * n) * c /\ c = 1 * c /\ n * n * n \in Nat
    BY <1>1
  <2> QED BY <1>1, <2>1, <2>2 DEF s
<1> QED BY <1>2, <1>3, <1>4, <1>5

LEMMA InLimit ==
  ASSUME NEW l \in Levels, NEW va \in Addresses
  PROVE  SlotEnd(l, va) <= Limit
<1> DEFINE s == Size(l)
           q == va \div s
<1>1. s \in Nat /\ s >= 1 /\ va \in Nat /\ va < Limit
  BY SizesAre DEF Addresses
<1>2. PICK m \in Nat : Limit = m * s
  BY SizesDivide
<1>3. q \in Nat /\ SlotEnd(l, va) = (q + 1) * s
  BY <1>1, QuotientBounds DEF SlotEnd
<1>4. m <= q <=> m * s <= va
  <2> HIDE DEF s
  <2>1. m <= va \div s <=> m * s <= va
    BY <1>1, QuotientOrder
  <2> QED BY <2>1
<1>5. m * s \in Nat
  BY <1>2, SizesAre
<1> HIDE DEF q, s
<1>6. q + 1 <= m /\ q + 1 \in Int
  BY <1>1, <1>2, <1>3, <1>4, <1>5
<1>7. (q + 1) * s <= m * s
  BY <1>1, <1>6, ProductsOrder
<1> QED BY <1>2, <1>3, <1>7

LEMMA EndAligned ==
  ASSUME NEW l \in Levels, NEW va \in Nat
  PROVE  SlotEnd(l, va) % PageSize = 0 /\ SlotEnd(l, va) % Size(l) = 0
<1> DEFINE s == Size(l)
           q == va \div s
           e == SlotEnd(l, va)
<1>1. s \in Nat /\ s >= 1 /\ PageSize \in Nat /\ PageSize >= 1
  BY SizesAre
<1>2. q \in Nat /\ e = (q + 1) * s
  BY <1>1, QuotientBounds DEF SlotEnd
<1>3. PICK m \in Nat : s = m * PageSize
  BY SizesDivide
<1> HIDE DEF q, s, e
<1>4. /\ q + 1 \in Int /\ (q + 1) * m \in Int
      /\ e = s * (q + 1) /\ e = PageSize * ((q + 1) * m) /\ e \in Int
  BY <1>1, <1>2, <1>3
<1>5. e % s = 0
  BY <1>1, <1>4, MultipleIs
<1>6. e % PageSize = 0
  BY <1>1, <1>4, MultipleIs
<1> QED BY <1>5, <1>6 DEF e, s

\* Each slot of a table has addresses.
LEMMA SlotHas ==
  ASSUME NEW l \in Levels, NEW va \in Addresses, NEW i \in 0 .. SlotCount - 1
  PROVE  \E x \in Addresses : Together(l - 1, va, x) /\ SlotOf(l, x) = i
<1> DEFINE n == SlotCount
           s == Size(l)
           up == IF l = 1 THEN 0 ELSE va \div Size(l - 1)
           q == up * n + i
           x == q * s
<1>1. n \in Nat /\ n >= 1 /\ s \in Nat /\ s >= 1 /\ i \in Nat /\ i < n /\ va \in Nat /\ va < Limit /\ Limit \in Nat
  BY SizesAre DEF Addresses
<1>2. up \in Nat
  <2>1. CASE l = 1
    BY <2>1
  <2>2. CASE l # 1
    <3>1. l - 1 \in Levels
      BY <2>2, LevelIs DEF Levels
    <3>2. Size(l - 1) \in Nat /\ Size(l - 1) >= 1
      BY <3>1, SizesAre
    <3> QED BY <1>1, <2>2, <3>2, QuotientBounds
  <2> QED BY <2>1, <2>2
<1>3. up * n \in Nat
  BY <1>1, <1>2
<1>4. q \in Nat /\ q % n = i
  <2> DEFINE z == up * n
  <2>1. q - i = n * up
    BY <1>1, <1>2
  <2>2. q \in Nat /\ z \in Nat
    BY <1>1, <1>3
  <2>3. q \div n = up
    <3>1. (q \div n <= up <=> q < up * n + n) /\ (up <= q \div n <=> up * n <= q)
      <4> HIDE DEF q, n, up
      <4> QED BY <1>1, <1>2, <2>2, QuotientOrder
    <3>2. q < z + n /\ z <= q
      <4> HIDE DEF z
      <4>1. q = z + i
        BY DEF z
      <4> QED BY <1>1, <2>2, <4>1
    <3>3. q \div n \in Nat
      <4> HIDE DEF q, n
      <4> QED BY <1>1, <2>2, QuotientBounds
    <3> DEFINE d == q \div n
    <3>4. d \in Nat /\ d <= up /\ up <= d
      BY <3>1, <3>2, <3>3
    <3> HIDE DEF d
    <3>5. d = up
      BY <1>2, <3>4
    <3> QED BY <3>5 DEF d
  <2>4. q % n = q - (q \div n) * n
    <3> HIDE DEF q, n
    <3> QED BY <1>1, <2>2, QuotientBounds
  <2>5. q % n = q - z
    BY <2>3, <2>4
  <2> HIDE DEF z
  <2>6. q = z + i
    BY DEF z
  <2> HIDE DEF q, n
  <2> QED BY <1>1, <2>2, <2>5, <2>6
<1>5. x \in Nat /\ x \div s = q
  <2>1. x \in Nat
    <3> HIDE DEF q, s
    <3> QED BY <1>1, <1>4
  <2>2. x = s * q
    <3> HIDE DEF q, s
    <3> QED BY <1>1, <1>4
  <2> HIDE DEF q, s, x
  <2>3. x \div s = q
    <3>1. x \in Int /\ q \in Int
      BY <2>1, <1>4
    <3> QED BY <1>1, <2>2, <3>1, MultipleIs
  <2> QED BY <2>1, <2>3
<1>6. SlotOf(l, x) = i
  <2>1. SlotOf(l, x) = (x \div s) % n
    BY DEF SlotOf
  <2> HIDE DEF q, s, n, x
  <2> QED BY <1>4, <1>5, <2>1
<1>7. CASE l = 1
  <2>1. x < Limit
    <3>1. Limit = s * n
      BY <1>7, SizesAre
    <3>2. q = i
      <4>1. up = 0
        BY <1>7
      <4>2. up * n = 0
        <5> HIDE DEF up
        <5> QED BY <1>1, <4>1
      <4> HIDE DEF up
      <4> QED BY <1>1, <4>2
    <3>3. i < n => i * s + s <= n * s
      <4> HIDE DEF s, n
      <4> QED BY <1>1, ProductsOrder
    <3>4. x = i * s
      BY <3>2
    <3> HIDE DEF q, n, s, x, up
    <3>5. n * s = s * n /\ i * s \in Int
      BY <1>1
    <3> QED BY <1>1, <3>1, <3>3, <3>4, <3>5
  <2>2. Together(l - 1, va, x)
    BY <1>7 DEF Together
  <2> HIDE DEF x
  <2>3. x \in Addresses
    BY <1>1, <1>5, <2>1 DEF Addresses
  <2> QED BY <1>6, <2>2, <2>3
<1>8. CASE l # 1
  <2> DEFINE t == Size(l - 1)
  <2>1. l - 1 \in Levels /\ l - 1 # 0 /\ t \in Nat /\ t >= 1 /\ Scales(t, s, n)
    <3>1. l = 2 \/ l = 3
      BY <1>8, LevelIs
    <3>2. l - 1 \in Levels /\ l - 1 # 0
      BY <3>1 DEF Levels
    <3>3. t \in Nat /\ t >= 1
      BY <3>2, SizesAre
    <3>4. t = s * n
      BY <3>1, SizesAre
    <3> QED BY <3>2, <3>3, <3>4 DEF Scales
  <2>2. x \div t = up
    <3> DEFINE u == x \div t
               z == u * n
               y == up * n
    <3>1. x \div s = (x \div t) * n + ((x \div s) % n) /\ (x \div s) % n \in 0 .. n - 1
      <4> HIDE DEF x, s, t, n
      <4>1. /\ s \in Nat /\ s >= 1 /\ n \in Nat /\ n >= 1 /\ t \in Nat /\ Scales(t, s, n)
            /\ x \in Nat
        BY <1>1, <1>5, <2>1
      <4> QED BY <4>1, QuotientNests
    <3>2. u \in Nat
      <4> HIDE DEF x, t
      <4> QED BY <1>5, <2>1, QuotientBounds
    <3>3. q = z + i
      <4> HIDE DEF q, x
      <4> QED BY <3>1, <1>4, <1>5
    <3>4. q = y + i
      OBVIOUS
    <3>5. z = y
      <4>1. z \in Int /\ y \in Int
        <5> HIDE DEF u
        <5> QED BY <1>1, <1>2, <3>2
      <4> HIDE DEF z, y, q
      <4> QED BY <1>1, <3>3, <3>4, <4>1
    <3>6. (u < up => z + n <= y) /\ (up < u => y + n <= z)
      <4> HIDE DEF u, up, n
      <4> QED BY <1>1, <1>2, <3>2, ProductsOrder
    <3>7. z \in Int
      <4> HIDE DEF u
      <4> QED BY <1>1, <3>2
    <3>8. u = up
      <4> HIDE DEF z, y, u, up, n
      <4> QED BY <1>1, <1>2, <3>2, <3>5, <3>6, <3>7
    <3> QED BY <3>8
  <2>3. up = va \div t
    BY <1>8
  <2>4. Together(l - 1, va, x)
    <3> HIDE DEF x, up
    <3> QED BY <2>2, <2>3 DEF Together
  <2>5. x < SlotEnd(l - 1, va)
    <3> HIDE DEF x, up, t
    <3>1. x \in Nat /\ va \in Nat /\ l - 1 \in Levels
      BY <1>1, <1>5, <2>1
    <3> QED BY <2>4, <3>1, AreaIs
  <2>6. SlotEnd(l - 1, va) <= Limit /\ SlotEnd(l - 1, va) \in Nat
    BY <1>1, <2>1, InLimit, AreaIs DEF Addresses
  <2> HIDE DEF x, up, t
  <2>7. x \in Addresses
    <3> DEFINE e == SlotEnd(l - 1, va)
    <3>1. x \in Nat /\ x < e /\ e <= Limit /\ e \in Nat /\ Limit \in Nat
      BY <1>1, <1>5, <2>5, <2>6
    <3> HIDE DEF e
    <3> QED BY <3>1 DEF Addresses
  <2> QED BY <1>6, <2>4, <2>7
<1> QED BY <1>7, <1>8

-------------------------------------------------------------------------------
(* The tree.                                                                *)

LEMMA TableStep ==
  ASSUME NEW sl, NEW us, NEW va
  PROVE  /\ Table(sl, us, 1, va) = First(us)
         /\ \A l \in 1 .. 2 : Table(sl, us, l + 1, va) = Down(sl, Table(sl, us, l, va), l, va)
<1>1. Table(sl, us, 1, va) = First(us) /\ Table(sl, us, 2, va) = Second(sl, us, va)
      /\ Table(sl, us, 3, va) = Third(sl, us, va)
  BY DEF Table
<1> SUFFICES ASSUME NEW l \in 1 .. 2
             PROVE  Table(sl, us, l + 1, va) = Down(sl, Table(sl, us, l, va), l, va)
  BY <1>1
<1>2. CASE l = 1
  BY <1>1, <1>2 DEF Second
<1>3. CASE l = 2
  BY <1>1, <1>3 DEF Third
<1> QED BY <1>2, <1>3

LEMMA TableSame ==
  ASSUME NEW sl, NEW us, NEW l \in Levels, NEW va \in Addresses, NEW vb \in Addresses,
         Together(l - 1, va, vb)
  PROVE  Table(sl, us, l, va) = Table(sl, us, l, vb)
<1>1. Table(sl, us, 1, va) = Table(sl, us, 1, vb)
  BY TableStep
<1>2. ASSUME NEW m \in 1 .. 2, Together(m, va, vb), Table(sl, us, m, va) = Table(sl, us, m, vb)
      PROVE  Table(sl, us, m + 1, va) = Table(sl, us, m + 1, vb)
  <2>1. m \in Levels
    BY DEF Levels
  <2>2. SlotOf(m, va) = SlotOf(m, vb)
    BY <1>2, <2>1, SlotIs
  <2>3. Table(sl, us, m + 1, va) = Down(sl, Table(sl, us, m, va), m, va)
        /\ Table(sl, us, m + 1, vb) = Down(sl, Table(sl, us, m, vb), m, vb)
    BY TableStep
  <2> QED BY <1>2, <2>2, <2>3 DEF Down
<1>3. CASE l = 1
  BY <1>1, <1>3
<1>4. ASSUME Together(1, va, vb) PROVE Table(sl, us, 2, va) = Table(sl, us, 2, vb)
  <2>1. 1 \in 1 .. 2 /\ 1 + 1 = 2
    OBVIOUS
  <2> QED BY <1>1, <1>2, <1>4, <2>1
<1>5. CASE l = 2
  <2>1. l - 1 = 1
    BY <1>5
  <2> QED BY <1>4, <1>5, <2>1
<1>6. CASE l = 3
  <2>1. l - 1 = 2 /\ 2 \in Levels /\ 1 \in 0 .. 2 /\ 2 \in 1 .. 2 /\ 2 + 1 = 3
    BY <1>6 DEF Levels
  <2>2. Together(2, va, vb)
    BY <2>1
  <2>3. Together(1, va, vb)
    BY <2>1, <2>2, Nested
  <2>4. Table(sl, us, 2, va) = Table(sl, us, 2, vb)
    BY <1>4, <2>3
  <2>5. Table(sl, us, 2 + 1, va) = Table(sl, us, 2 + 1, vb)
    BY <1>2, <2>1, <2>2, <2>4
  <2> QED BY <1>6, <2>1, <2>5
<1> QED BY <1>3, <1>5, <1>6, LevelIs

LEMMA SlotSame ==
  ASSUME NEW sl, NEW us, NEW l \in Levels, NEW va \in Addresses, NEW vb \in Addresses,
         Together(l, va, vb)
  PROVE  /\ SlotOf(l, va) = SlotOf(l, vb)
         /\ Table(sl, us, l, va) = Table(sl, us, l, vb)
         /\ SlotAt(sl, us, l, va) = SlotAt(sl, us, l, vb)
         /\ IsLeaf(sl, us, l, va) <=> IsLeaf(sl, us, l, vb)
<1>1. SlotOf(l, va) = SlotOf(l, vb) /\ Together(l - 1, va, vb)
  BY SlotIs
<1>2. Table(sl, us, l, va) = Table(sl, us, l, vb)
  BY <1>1, TableSame
<1> QED BY <1>1, <1>2 DEF SlotAt, IsLeaf

LEMMA TreeIs ==
  ASSUME NEW sl, NEW us, Tree(sl, us), NEW l \in Levels, NEW va \in Addresses
  PROVE  /\ us \in Nat /\ us <= MaxTables
         /\ Table(sl, us, l, va) \in 0 .. us
         /\ Table(sl, us, l, va) # NoWhere =>
               /\ us >= 1 /\ Table(sl, us, l, va) \in 1 .. us
               /\ Table(sl, us, l, va) \in 1 .. MaxTables
               /\ SlotAt(sl, us, l, va) \in Descriptors
<1>1. us \in 0 .. MaxTables /\ MaxTables \in Nat /\ sl \in TableSlots
  BY SizesAre DEF Tree
<1>2. us \in Nat /\ us <= MaxTables
  BY <1>1
<1>3. First(us) \in 0 .. us
  BY <1>2 DEF First, NoWhere, Root
<1>4. ASSUME NEW m \in 1 .. 2
      PROVE  Down(sl, Table(sl, us, m, va), m, va) \in 0 .. us
  <2>1. \A k \in 1 .. 2, x \in Addresses :
          Table(sl, us, k, x) # NoWhere /\ SlotAt(sl, us, k, x).kind = "table"
              => SlotAt(sl, us, k, x).address \in 1 .. us
    BY DEF Tree
  <2>2. Table(sl, us, m, va) # NoWhere /\ SlotAt(sl, us, m, va).kind = "table"
              => SlotAt(sl, us, m, va).address \in 1 .. us
    BY <2>1
  <2>3. 0 \in 0 .. us /\ \A x \in 1 .. us : x \in 0 .. us
    BY <1>2
  <2> QED BY <2>2, <2>3 DEF Down, SlotAt, NoWhere
<1>5. Table(sl, us, l, va) \in 0 .. us
  <2>1. l = 1 \/ \E m \in 1 .. 2 : l = m + 1
    BY LevelIs
  <2> QED BY <1>3, <1>4, <2>1, TableStep
<1>6. ASSUME Table(sl, us, l, va) # NoWhere
      PROVE  /\ us >= 1 /\ Table(sl, us, l, va) \in 1 .. us
             /\ Table(sl, us, l, va) \in 1 .. MaxTables
             /\ SlotAt(sl, us, l, va) \in Descriptors
  <2> DEFINE t == Table(sl, us, l, va)
  <2>1. t \in 0 .. us /\ t # 0
    BY <1>5, <1>6 DEF NoWhere
  <2> HIDE DEF t
  <2>2. us >= 1 /\ t \in 1 .. us /\ t \in 1 .. MaxTables
    BY <1>1, <1>2, <2>1
  <2>3. SlotOf(l, va) \in 0 .. SlotCount - 1
    BY SlotIs
  <2>4. sl[t][SlotOf(l, va)] \in Descriptors
    BY <1>1, <2>2, <2>3 DEF TableSlots
  <2> QED BY <2>2, <2>4 DEF t, SlotAt
<1> QED BY <1>2, <1>5, <1>6

\* A walk has come through the tables above.
LEMMA WalkIs ==
  ASSUME NEW sl, NEW us, NEW va, NEW l \in Levels, NEW m \in Levels, l < m, Table(sl, us, m, va) # NoWhere
  PROVE  Table(sl, us, l, va) # NoWhere /\ SlotAt(sl, us, l, va).kind = "table"
<1>1. ASSUME NEW k \in 1 .. 2, Table(sl, us, k + 1, va) # NoWhere
      PROVE  Table(sl, us, k, va) # NoWhere /\ SlotAt(sl, us, k, va).kind = "table"
  <2>1. Table(sl, us, k + 1, va) = Down(sl, Table(sl, us, k, va), k, va)
    BY TableStep
  <2> QED BY <1>1, <2>1 DEF Down, SlotAt
<1>2. 1 \in 1 .. 2 /\ 2 \in 1 .. 2 /\ 1 + 1 = 2 /\ 2 + 1 = 3
  OBVIOUS
<1>3. (l = 1 /\ m = 2) \/ (l = 2 /\ m = 3) \/ (l = 1 /\ m = 3)
  BY LevelIs
<1>4. CASE l = 1 /\ m = 2
  BY <1>1, <1>2, <1>4
<1>5. CASE l = 2 /\ m = 3
  BY <1>1, <1>2, <1>5
<1>6. CASE l = 1 /\ m = 3
  <2>1. Table(sl, us, 2, va) # NoWhere
    BY <1>1, <1>2, <1>6
  <2> QED BY <1>1, <1>2, <1>6, <2>1
<1> QED BY <1>3, <1>4, <1>5, <1>6

\* A walk ends at one leaf at most.
LEMMA LeafOnce ==
  ASSUME NEW sl, NEW us, NEW l \in Levels, NEW m \in Levels, NEW va,
         IsLeaf(sl, us, l, va), IsLeaf(sl, us, m, va)
  PROVE  l = m
<1>1. ASSUME NEW i \in Levels, NEW j \in Levels, i < j, IsLeaf(sl, us, i, va), IsLeaf(sl, us, j, va)
      PROVE  FALSE
  <2>1. SlotAt(sl, us, i, va).kind = "table"
    BY <1>1, WalkIs DEF IsLeaf
  <2>2. i # 3
    BY <1>1, LevelIs
  <2> QED BY <1>1, <2>1, <2>2 DEF IsLeaf
<1>2. ~(l < m) /\ ~(m < l)
  BY <1>1
<1> QED BY <1>2, LevelIs

\* new is sl with d in slot i of table t.
Written(sl, new, t, i, d) ==
    /\ new \in TableSlots
    /\ \A u \in 1 .. MaxTables, j \in 0 .. SlotCount - 1 :
          new[u][j] = IF u = t /\ j = i THEN d ELSE sl[u][j]

\* What was written is read where the walk is the same, and there only.
LEMMA WrittenAt ==
  ASSUME NEW sl, NEW us, Tree(sl, us), NEW k \in Levels, NEW a \in Addresses,
         Table(sl, us, k, a) # NoWhere, NEW d, NEW new,
         Written(sl, new, Table(sl, us, k, a), SlotOf(k, a), d),
         NEW l \in Levels, NEW va \in Addresses, Table(sl, us, l, va) # NoWhere
  PROVE  new[Table(sl, us, l, va)][SlotOf(l, va)]
            = IF l = k /\ Together(k, a, va) THEN d ELSE sl[Table(sl, us, l, va)][SlotOf(l, va)]
<1> DEFINE t == Table(sl, us, k, a)
           u == Table(sl, us, l, va)
<1>1. u \in 1 .. MaxTables /\ SlotOf(l, va) \in 0 .. SlotCount - 1
  BY TreeIs, SlotIs
<1>2. new[u][SlotOf(l, va)] = IF u = t /\ SlotOf(l, va) = SlotOf(k, a) THEN d ELSE sl[u][SlotOf(l, va)]
  <2> HIDE DEF u, t
  <2> QED BY <1>1 DEF Written, t
<1>3. u = t => l = k /\ Together(k - 1, a, va)
  <2> SUFFICES ASSUME u = t PROVE l = k /\ Together(k - 1, a, va)
    OBVIOUS
  <2>1. \A m, n \in Levels, x, y \in Addresses :
          Table(sl, us, m, x) # NoWhere /\ Table(sl, us, m, x) = Table(sl, us, n, y)
              => m = n /\ Together(m - 1, x, y)
    BY DEF Tree
  <2> QED BY <2>1
<1>4. l = k /\ Together(k, a, va) => u = t /\ SlotOf(l, va) = SlotOf(k, a)
  <2> SUFFICES ASSUME l = k, Together(k, a, va) PROVE u = t /\ SlotOf(l, va) = SlotOf(k, a)
    OBVIOUS
  <2> QED BY SlotSame
<1>5. l = k /\ Together(k - 1, a, va) /\ SlotOf(l, va) = SlotOf(k, a) => Together(k, a, va)
  BY SlotIs
<1> QED BY <1>2, <1>3, <1>4, <1>5

LEMMA PutLeaf ==
  ASSUME NEW sl, NEW us, Tree(sl, us), NEW k \in Levels, NEW a \in Addresses,
         Table(sl, us, k, a) # NoWhere, NEW d, NEW new,
         Written(sl, new, Table(sl, us, k, a), SlotOf(k, a), d),
         d.kind = (IF k = 3 THEN "table" ELSE "block"),
         k < 3 => SlotAt(sl, us, k, a).kind # "table"
  PROVE  /\ Tree(new, us)
         /\ \A l \in Levels, va \in Addresses :
               /\ Table(new, us, l, va) = Table(sl, us, l, va)
               /\ IsLeaf(new, us, l, va) <=> IsLeaf(sl, us, l, va) \/ (l = k /\ Together(k, a, va))
               /\ Table(sl, us, l, va) # NoWhere =>
                     SlotAt(new, us, l, va) = IF l = k /\ Together(k, a, va) THEN d ELSE SlotAt(sl, us, l, va)
<1>1. ASSUME NEW l \in Levels, NEW va \in Addresses, Table(sl, us, l, va) # NoWhere
      PROVE  new[Table(sl, us, l, va)][SlotOf(l, va)]
                = IF l = k /\ Together(k, a, va) THEN d ELSE sl[Table(sl, us, l, va)][SlotOf(l, va)]
  BY <1>1, WrittenAt
<1>2. ASSUME NEW m \in 1 .. 2, NEW va \in Addresses, Table(new, us, m, va) = Table(sl, us, m, va)
      PROVE  Table(new, us, m + 1, va) = Table(sl, us, m + 1, va)
  <2> DEFINE u == Table(sl, us, m, va)
  <2>1. m \in Levels /\ m < 3
    BY DEF Levels
  <2>2. Table(new, us, m + 1, va) = Down(new, u, m, va) /\ Table(sl, us, m + 1, va) = Down(sl, u, m, va)
    BY <1>2, TableStep
  <2>3. CASE u # NoWhere /\ m = k /\ Together(k, a, va)
    <3>1. new[u][SlotOf(m, va)] = d
      BY <1>1, <2>1, <2>3
    <3>2. SlotAt(sl, us, k, a) = SlotAt(sl, us, k, va)
      BY <2>3, SlotSame
    <3>3. sl[u][SlotOf(m, va)].kind # "table"
      BY <2>1, <2>3, <3>2 DEF SlotAt
    <3>4. d.kind # "table"
      BY <2>1, <2>3
    <3> HIDE DEF u
    <3> QED BY <2>2, <3>1, <3>3, <3>4 DEF Down
  <2>4. CASE u # NoWhere /\ ~(m = k /\ Together(k, a, va))
    <3>1. new[u][SlotOf(m, va)] = sl[u][SlotOf(m, va)]
      BY <1>1, <2>1, <2>4
    <3> HIDE DEF u
    <3> QED BY <2>2, <3>1 DEF Down
  <2>5. CASE u = NoWhere
    BY <2>2, <2>5 DEF Down
  <2> QED BY <2>3, <2>4, <2>5
<1>3. ASSUME NEW l \in Levels, NEW va \in Addresses
      PROVE  Table(new, us, l, va) = Table(sl, us, l, va)
  <2>1. Table(new, us, 1, va) = Table(sl, us, 1, va)
    BY TableStep
  <2>2. 1 \in 1 .. 2 /\ 2 \in 1 .. 2 /\ 1 + 1 = 2 /\ 2 + 1 = 3
    OBVIOUS
  <2>3. Table(new, us, 2, va) = Table(sl, us, 2, va)
    BY <1>2, <2>1, <2>2
  <2>4. Table(new, us, 3, va) = Table(sl, us, 3, va)
    BY <1>2, <2>3, <2>2
  <2> QED BY <2>1, <2>3, <2>4, LevelIs
<1>4. ASSUME NEW l \in Levels, NEW va \in Addresses, Table(sl, us, l, va) # NoWhere
      PROVE  SlotAt(new, us, l, va) = IF l = k /\ Together(k, a, va) THEN d ELSE SlotAt(sl, us, l, va)
  BY <1>1, <1>3, <1>4 DEF SlotAt
<1>5. ASSUME NEW l \in Levels, NEW va \in Addresses
      PROVE  IsLeaf(new, us, l, va) <=> IsLeaf(sl, us, l, va) \/ (l = k /\ Together(k, a, va))
  <2>1. l = k /\ Together(k, a, va) => Table(sl, us, l, va) # NoWhere
    <3> SUFFICES ASSUME l = k, Together(k, a, va) PROVE Table(sl, us, l, va) # NoWhere
      OBVIOUS
    <3> QED BY SlotSame
  <2>2. CASE Table(sl, us, l, va) # NoWhere
    BY <1>3, <1>4, <2>2 DEF IsLeaf
  <2>3. CASE Table(sl, us, l, va) = NoWhere
    BY <1>3, <2>1, <2>3 DEF IsLeaf
  <2> QED BY <2>2, <2>3
<1>6. Tree(new, us)
  <2>1. new \in TableSlots /\ us \in 0 .. MaxTables
    BY DEF Written, Tree
  <2>2. \A t \in 1 .. us : \E l \in Levels, va \in Addresses : Table(new, us, l, va) = t
    BY <1>3 DEF Tree
  <2>3. \A l, m \in Levels, va, vb \in Addresses :
          Table(new, us, l, va) # NoWhere /\ Table(new, us, l, va) = Table(new, us, m, vb)
              => l = m /\ Together(l - 1, va, vb)
    BY <1>3 DEF Tree
  <2>4. ASSUME NEW l \in 1 .. 2, NEW va \in Addresses,
               Table(new, us, l, va) # NoWhere, SlotAt(new, us, l, va).kind = "table"
        PROVE  SlotAt(new, us, l, va).address \in 1 .. us
    <3>1. l \in Levels /\ l < 3
      BY DEF Levels
    <3>2. Table(sl, us, l, va) # NoWhere
      BY <1>3, <2>4, <3>1
    <3>3. ~(l = k /\ Together(k, a, va))
      BY <1>4, <2>4, <3>1, <3>2
    <3>4. SlotAt(new, us, l, va) = SlotAt(sl, us, l, va)
      BY <1>4, <3>1, <3>2, <3>3
    <3> QED BY <2>4, <3>2, <3>4 DEF Tree
  <2> QED BY <2>1, <2>2, <2>3, <2>4 DEF Tree
<1> QED BY <1>3, <1>4, <1>5, <1>6

\* new is sl with table t cleared and linked from slot i of table u.
Linked(sl, new, t, u, i) ==
    /\ new \in TableSlots
    /\ \A v \in 1 .. MaxTables, j \in 0 .. SlotCount - 1 :
          new[v][j] = IF v = t THEN Zero
                      ELSE IF v = u /\ j = i THEN Descriptor("table", t, None)
                      ELSE sl[v][j]

\* A new table is where the slot was empty, and empty itself.
LEMMA PutTable ==
  ASSUME NEW sl, NEW us, Tree(sl, us), us < MaxTables, NEW k \in 1 .. 2, NEW a \in Addresses,
         Table(sl, us, k, a) # NoWhere, SlotAt(sl, us, k, a).kind = "invalid", NEW new,
         Linked(sl, new, us + 1, Table(sl, us, k, a), SlotOf(k, a))
  PROVE  /\ Tree(new, us + 1)
         /\ \A l \in Levels, va \in Addresses :
               /\ Table(new, us + 1, l, va)
                     = IF l = k + 1 /\ Together(k, a, va) THEN us + 1 ELSE Table(sl, us, l, va)
               /\ IsLeaf(new, us + 1, l, va) <=> IsLeaf(sl, us, l, va)
               /\ IsLeaf(sl, us, l, va) => SlotAt(new, us + 1, l, va) = SlotAt(sl, us, l, va)
<1> DEFINE n == us + 1
           t == Table(sl, us, k, a)
           d == Descriptor("table", n, None)
           New(l, va) == l = k + 1 /\ Together(k, a, va)
<1>1. /\ k \in Levels /\ k < 3 /\ k \in Nat /\ k + 1 \in Levels
      /\ us \in Nat /\ us >= 1 /\ n \in Nat /\ n \in 1 .. MaxTables
      /\ t \in 1 .. us /\ t # n /\ new \in TableSlots
  <2>1. k \in Levels /\ k < 3 /\ k \in Nat /\ k + 1 \in Levels
    BY DEF Levels
  <2>2. us \in Nat /\ us >= 1 /\ t \in 1 .. us
    BY <2>1, TreeIs
  <2>3. MaxTables \in Nat /\ new \in TableSlots
    BY SizesAre DEF Linked
  <2> QED BY <2>1, <2>2, <2>3
<1>2. \A i \in 0 .. SlotCount - 1 : new[n][i] = Zero
  BY <1>1 DEF Linked
<1>3. ASSUME NEW l \in Levels, NEW va \in Addresses, Table(sl, us, l, va) # NoWhere
      PROVE  new[Table(sl, us, l, va)][SlotOf(l, va)]
                = IF l = k /\ Together(k, a, va) THEN d ELSE sl[Table(sl, us, l, va)][SlotOf(l, va)]
  <2> DEFINE mid == [v \in 1 .. MaxTables |-> IF v = n THEN sl[v] ELSE new[v]]
             u == Table(sl, us, l, va)
             s == SlotOf(k, a)
  <2>1. Written(sl, mid, t, s, d)
    <3>1. mid \in TableSlots
      BY <1>1 DEF TableSlots, Tree
    <3> HIDE DEF t, d, s, n
    <3>2. \A v \in 1 .. MaxTables, j \in 0 .. SlotCount - 1 :
             mid[v][j] = IF v = t /\ j = s THEN d ELSE sl[v][j]
      BY <1>1 DEF Linked, n, t, d, s
    <3> QED BY <3>1, <3>2 DEF Written
  <2>2. u \in 1 .. us
    BY <1>3, TreeIs
  <2> HIDE DEF mid
  <2>3. mid[u][SlotOf(l, va)] = IF l = k /\ Together(k, a, va) THEN d ELSE sl[u][SlotOf(l, va)]
    BY <1>1, <1>3, <2>1, WrittenAt
  <2> HIDE DEF u
  <2>4. mid[u] = new[u]
    <3>1. u # n /\ u \in 1 .. MaxTables
      BY <1>1, <2>2, SizesAre
    <3> HIDE DEF n
    <3> QED BY <3>1 DEF mid
  <2> QED BY <2>3, <2>4 DEF u
<1>4. ASSUME NEW va \in Addresses, Together(k, a, va)
      PROVE  /\ Table(sl, us, k, va) # NoWhere
             /\ SlotAt(sl, us, k, va).kind = "invalid"
             /\ Table(sl, us, k + 1, va) = NoWhere
  <2>1. Table(sl, us, k, va) = Table(sl, us, k, a) /\ SlotAt(sl, us, k, va) = SlotAt(sl, us, k, a)
    BY <1>1, <1>4, SlotSame
  <2>2. Table(sl, us, k + 1, va) = Down(sl, Table(sl, us, k, va), k, va)
    BY TableStep
  <2> QED BY <2>1, <2>2 DEF Down, SlotAt
<1>5. ASSUME NEW m \in 1 .. 2, NEW va \in Addresses,
             Table(new, n, m, va) = IF New(m, va) THEN n ELSE Table(sl, us, m, va)
      PROVE  Table(new, n, m + 1, va) = IF New(m + 1, va) THEN n ELSE Table(sl, us, m + 1, va)
  <2> DEFINE u == Table(sl, us, m, va)
  <2>1. m \in Levels /\ m \in Nat /\ SlotOf(m, va) \in 0 .. SlotCount - 1
    <3>1. m \in Levels /\ m \in Nat
      BY DEF Levels
    <3> QED BY <3>1, SlotIs
  <2>2. /\ Table(new, n, m + 1, va) = Down(new, Table(new, n, m, va), m, va)
        /\ Table(sl, us, m + 1, va) = Down(sl, u, m, va)
    BY TableStep
  <2>3. New(m + 1, va) <=> m = k /\ Together(k, a, va)
    BY <1>1, <2>1
  <2>4. CASE New(m, va)
    <3>1. Table(new, n, m, va) = n /\ new[n][SlotOf(m, va)] = Zero
      BY <1>2, <1>5, <2>1, <2>4
    <3>2. Down(new, n, m, va) = NoWhere
      BY <1>2, <2>1 DEF Down, Zero, Descriptor
    <3>3. u = NoWhere
      BY <1>4, <2>4
    <3>4. Table(sl, us, m + 1, va) = NoWhere
      BY <2>2, <3>3 DEF Down
    <3>5. ~New(m + 1, va)
      BY <1>1, <2>3, <2>4
    <3> QED BY <2>2, <3>1, <3>2, <3>4, <3>5
  <2>5. CASE ~New(m, va) /\ u = NoWhere
    <3>1. ~New(m + 1, va)
      BY <1>4, <2>3, <2>5
    <3>2. Table(new, n, m, va) = NoWhere
      BY <1>5, <2>5
    <3> QED BY <2>2, <2>5, <3>1, <3>2 DEF Down
  <2>6. CASE ~New(m, va) /\ u # NoWhere
    <3>1. Table(new, n, m, va) = u
      BY <1>5, <2>6
    <3>2. new[u][SlotOf(m, va)] = IF m = k /\ Together(k, a, va) THEN d ELSE sl[u][SlotOf(m, va)]
      BY <1>3, <2>1, <2>6
    <3> HIDE DEF u, n
    <3>3. d.kind = "table" /\ d.address = n
      BY DEF Descriptor
    <3> HIDE DEF d
    <3>4. CASE m = k /\ Together(k, a, va)
      BY <2>2, <2>3, <2>6, <3>1, <3>2, <3>3, <3>4 DEF Down
    <3>5. CASE ~(m = k /\ Together(k, a, va))
      BY <2>2, <2>3, <2>6, <3>1, <3>2, <3>5 DEF Down
    <3> QED BY <3>4, <3>5
  <2> QED BY <2>4, <2>5, <2>6
<1>6. ASSUME NEW l \in Levels, NEW va \in Addresses
      PROVE  Table(new, n, l, va) = IF New(l, va) THEN n ELSE Table(sl, us, l, va)
  <2>1. Table(new, n, 1, va) = Table(sl, us, 1, va) /\ ~New(1, va)
    <3>1. First(n) = First(us)
      BY <1>1 DEF First
    <3> QED BY <1>1, <3>1, TableStep
  <2>2. 1 \in 1 .. 2 /\ 2 \in 1 .. 2 /\ 1 + 1 = 2 /\ 2 + 1 = 3
    OBVIOUS
  <2>3. Table(new, n, 2, va) = IF New(2, va) THEN n ELSE Table(sl, us, 2, va)
    BY <1>5, <2>1, <2>2
  <2>4. Table(new, n, 3, va) = IF New(3, va) THEN n ELSE Table(sl, us, 3, va)
    BY <1>5, <2>3, <2>2
  <2> QED BY <2>1, <2>3, <2>4, LevelIs
<1>7. ASSUME NEW l \in Levels, NEW va \in Addresses
      PROVE  /\ IsLeaf(new, n, l, va) <=> IsLeaf(sl, us, l, va)
             /\ IsLeaf(sl, us, l, va) => SlotAt(new, n, l, va) = SlotAt(sl, us, l, va)
  <2>1. CASE New(l, va)
    <3>1. Table(new, n, l, va) = n /\ SlotOf(l, va) \in 0 .. SlotCount - 1
      BY <1>6, <2>1, SlotIs
    <3>2. SlotAt(new, n, l, va).kind = "invalid"
      BY <1>2, <3>1 DEF SlotAt, Zero, Descriptor
    <3>3. Table(sl, us, l, va) = NoWhere
      BY <1>4, <2>1
    <3> QED BY <3>2, <3>3 DEF IsLeaf
  <2>2. CASE ~New(l, va) /\ Table(sl, us, l, va) = NoWhere
    <3>1. Table(new, n, l, va) = NoWhere
      BY <1>6, <2>2
    <3> QED BY <2>2, <3>1 DEF IsLeaf
  <2>3. CASE ~New(l, va) /\ Table(sl, us, l, va) # NoWhere
    <3>1. Table(new, n, l, va) = Table(sl, us, l, va)
      BY <1>6, <2>3
    <3>2. SlotAt(new, n, l, va) = IF l = k /\ Together(k, a, va) THEN d ELSE SlotAt(sl, us, l, va)
      BY <1>3, <2>3, <3>1 DEF SlotAt
    <3> HIDE DEF n
    <3>3. d.kind = "table"
      BY DEF Descriptor
    <3>4. l = k /\ Together(k, a, va) => SlotAt(sl, us, l, va).kind = "invalid"
      BY <1>4
    <3> HIDE DEF d
    <3> QED BY <1>1, <3>1, <3>2, <3>3, <3>4 DEF IsLeaf
  <2> QED BY <2>1, <2>2, <2>3
<1>8. Tree(new, n)
  <2>1. new \in TableSlots /\ n \in 0 .. MaxTables
    BY <1>1
  <2>2. ASSUME NEW u \in 1 .. n
        PROVE  \E l \in Levels, va \in Addresses : Table(new, n, l, va) = u
    <3>1. CASE u = n
      <4>1. Table(new, n, k + 1, a) = n
        BY <1>1, <1>6, TogetherIs
      <4> QED BY <1>1, <3>1, <4>1
    <3>2. CASE u # n
      <4>1. u \in 1 .. us /\ u # NoWhere
        BY <1>1, <3>2 DEF NoWhere
      <4>2. PICK l \in Levels, va \in Addresses : Table(sl, us, l, va) = u
        BY <4>1 DEF Tree
      <4>3. ~New(l, va)
        BY <1>4, <4>1, <4>2
      <4>4. Table(new, n, l, va) = u
        BY <1>6, <4>2, <4>3
      <4> QED BY <4>4
    <3> QED BY <3>1, <3>2
  <2>3. ASSUME NEW l \in Levels, NEW m \in Levels, NEW va \in Addresses, NEW vb \in Addresses,
               Table(new, n, l, va) # NoWhere, Table(new, n, l, va) = Table(new, n, m, vb)
        PROVE  l = m /\ Together(l - 1, va, vb)
    <3>1. /\ Table(new, n, l, va) = IF New(l, va) THEN n ELSE Table(sl, us, l, va)
          /\ Table(new, n, m, vb) = IF New(m, vb) THEN n ELSE Table(sl, us, m, vb)
      BY <1>6
    <3>2. Table(sl, us, l, va) \in 0 .. us /\ Table(sl, us, m, vb) \in 0 .. us
      BY TreeIs
    <3>3. Table(sl, us, l, va) # n /\ Table(sl, us, m, vb) # n
      BY <1>1, <3>2
    <3> HIDE DEF n
    <3>4. CASE New(l, va) \/ New(m, vb)
      <4>1. New(l, va) /\ New(m, vb)
        BY <2>3, <3>1, <3>3, <3>4
      <4>2. Together(k, va, vb)
        BY <4>1, TogetherIs
      <4>3. l - 1 = k
        BY <1>1, <4>1
      <4> QED BY <4>1, <4>2, <4>3
    <3>5. CASE ~New(l, va) /\ ~New(m, vb)
      <4>1. Table(sl, us, l, va) # NoWhere /\ Table(sl, us, l, va) = Table(sl, us, m, vb)
        BY <2>3, <3>1, <3>5
      <4> QED BY <4>1 DEF Tree
    <3> QED BY <3>4, <3>5
  <2>4. ASSUME NEW l \in 1 .. 2, NEW va \in Addresses,
               Table(new, n, l, va) # NoWhere, SlotAt(new, n, l, va).kind = "table"
        PROVE  SlotAt(new, n, l, va).address \in 1 .. n
    <3>1. l \in Levels
      BY DEF Levels
    <3>2. ~New(l, va)
      <4> SUFFICES ASSUME New(l, va) PROVE FALSE
        OBVIOUS
      <4>1. Table(new, n, l, va) = n /\ SlotOf(l, va) \in 0 .. SlotCount - 1
        BY <1>6, <3>1, SlotIs
      <4>2. SlotAt(new, n, l, va).kind = "invalid"
        BY <1>2, <4>1 DEF SlotAt, Zero, Descriptor
      <4> QED BY <2>4, <4>2
    <3>3. Table(new, n, l, va) = Table(sl, us, l, va) /\ Table(sl, us, l, va) # NoWhere
      BY <1>6, <2>4, <3>1, <3>2
    <3>4. SlotAt(new, n, l, va) = IF l = k /\ Together(k, a, va) THEN d ELSE SlotAt(sl, us, l, va)
      BY <1>3, <3>1, <3>3 DEF SlotAt
    <3>5. CASE l = k /\ Together(k, a, va)
      <4>1. SlotAt(new, n, l, va).address = n
        BY <3>4, <3>5 DEF Descriptor
      <4> QED BY <1>1, <4>1
    <3>6. CASE ~(l = k /\ Together(k, a, va))
      <4>1. SlotAt(sl, us, l, va).address \in 1 .. us /\ SlotAt(new, n, l, va) = SlotAt(sl, us, l, va)
        BY <2>4, <3>3, <3>4, <3>6 DEF Tree
      <4> QED BY <1>1, <4>1
    <3> QED BY <3>5, <3>6
  <2> QED BY <2>1, <2>2, <2>3, <2>4 DEF Tree
<1> QED BY <1>6, <1>7, <1>8

LEMMA NoTree ==
  ASSUME NEW sl, sl \in TableSlots
  PROVE  /\ Tree(sl, 0)
         /\ \A l \in Levels, va \in Addresses : Table(sl, 0, l, va) = NoWhere /\ ~IsLeaf(sl, 0, l, va)
<1>1. ASSUME NEW l \in Levels, NEW va \in Addresses
      PROVE  Table(sl, 0, l, va) = NoWhere
  <2>1. First(0) = NoWhere
    BY DEF First
  <2> QED BY <2>1 DEF Table, Second, Third, Down
<1>2. \A l \in 1 .. 2 : l \in Levels
  BY DEF Levels
<1>3. 0 \in 0 .. MaxTables /\ ~\E t \in 1 .. 0 : TRUE
  BY SizesAre
<1>4. Tree(sl, 0)
  BY <1>1, <1>2, <1>3 DEF Tree
<1> QED BY <1>1, <1>4 DEF IsLeaf

LEMMA PutRoot ==
  ASSUME NEW sl, sl \in TableSlots, MaxTables >= 1,
         \A i \in 0 .. SlotCount - 1 : sl[Root][i] = Zero
  PROVE  /\ Tree(sl, Root)
         /\ \A l \in Levels, va \in Addresses :
               /\ Table(sl, Root, l, va) = IF l = 1 THEN Root ELSE NoWhere
               /\ ~IsLeaf(sl, Root, l, va)
<1>1. ASSUME NEW l \in Levels, NEW va \in Addresses
      PROVE  sl[Root][SlotOf(l, va)].kind = "invalid"
  <2>1. SlotOf(l, va) \in 0 .. SlotCount - 1
    BY SlotIs
  <2> QED BY <2>1 DEF Zero, Descriptor
<1>2. 1 \in Levels /\ Root = 1 /\ NoWhere = 0
  BY DEF Levels, Root, NoWhere
<1>3. ASSUME NEW va \in Addresses
      PROVE  First(Root) = Root /\ Second(sl, Root, va) = NoWhere /\ Third(sl, Root, va) = NoWhere
  BY <1>1, <1>2 DEF First, Second, Third, Down
<1>4. ASSUME NEW l \in Levels, NEW va \in Addresses
      PROVE  Table(sl, Root, l, va) = IF l = 1 THEN Root ELSE NoWhere
  BY <1>3 DEF Table
<1>5. ASSUME NEW l \in Levels, NEW va \in Addresses
      PROVE  ~IsLeaf(sl, Root, l, va)
  <2>1. l = 1 \/ Table(sl, Root, l, va) = NoWhere
    BY <1>4
  <2>2. SlotAt(sl, Root, 1, va).kind = "invalid"
    BY <1>1, <1>2, <1>4 DEF SlotAt
  <2> QED BY <2>1, <2>2 DEF IsLeaf
<1>6. Tree(sl, Root)
  <2>1. Root \in 0 .. MaxTables
    BY <1>2, SizesAre
  <2>2. \A t \in 1 .. Root : \E l \in Levels, va \in Addresses : Table(sl, Root, l, va) = t
    <3>1. \A t \in 1 .. Root : t = Root
      BY <1>2
    <3>2. 0 \in Addresses /\ Table(sl, Root, 1, 0) = Root
      BY <1>2, <1>4, SizesAre
    <3> QED BY <1>2, <3>1, <3>2
  <2>3. ASSUME NEW l \in Levels, NEW m \in Levels, NEW va \in Addresses, NEW vb \in Addresses,
               Table(sl, Root, l, va) # NoWhere, Table(sl, Root, l, va) = Table(sl, Root, m, vb)
        PROVE  l = m /\ Together(l - 1, va, vb)
    <3>1. l = 1 /\ m = 1
      BY <1>4, <2>3
    <3> QED BY <3>1 DEF Together
  <2>4. ASSUME NEW l \in 1 .. 2, NEW va \in Addresses,
               Table(sl, Root, l, va) # NoWhere, SlotAt(sl, Root, l, va).kind = "table"
        PROVE  SlotAt(sl, Root, l, va).address \in 1 .. Root
    <3>1. l \in Levels
      BY DEF Levels
    <3>2. l = 1 /\ Table(sl, Root, l, va) = Root
      BY <1>4, <2>4, <3>1
    <3> QED BY <1>1, <2>4, <3>1, <3>2 DEF SlotAt
  <2> QED BY <2>1, <2>2, <2>3, <2>4 DEF Tree
<1> QED BY <1>4, <1>5, <1>6

-------------------------------------------------------------------------------
(* Pages, and the runs that regions claim.                                  *)

\* Rounding to pages is as tight as it can be.
LEMMA PageIs ==
  ASSUME NEW a \in Nat, NEW p \in Nat
  PROVE  /\ PageDown(a) \in Nat /\ PageUp(a) \in Nat
         /\ p * PageSize \in Nat /\ (p + 1) * PageSize = p * PageSize + PageSize
         /\ PageDown(a) <= p <=> a < p * PageSize + PageSize
         /\ p <= PageDown(a) <=> p * PageSize <= a
         /\ p < PageUp(a) <=> p * PageSize < a
         /\ PageUp(a) <= p <=> a <= p * PageSize
<1> DEFINE s == PageSize
           b == a + s - 1
           d == a \div s
           u == b \div s
           x == p * s
<1>1. s \in Nat /\ s >= 1 /\ b \in Nat /\ b = a + s - 1
  BY SizesAre
<1>2. PageDown(a) = d /\ PageUp(a) = u /\ (p + 1) * PageSize = (p + 1) * s
  BY DEF PageDown, PageUp
<1> HIDE DEF s, b
<1>3. d \in Nat /\ u \in Nat
  BY <1>1, QuotientBounds
<1>4. x \in Nat /\ (p + 1) * s = x + s
  BY <1>1
<1>5. (d <= p <=> a < x + s) /\ (p <= d <=> x <= a) /\ (u <= p <=> b < x + s)
  BY <1>1, QuotientOrder
<1>6. x = p * PageSize /\ s = PageSize
  BY DEF s
<1> HIDE DEF d, u, x
<1>7. (p < u <=> x < a) /\ (u <= p <=> a <= x)
  BY <1>1, <1>3, <1>4, <1>5
<1> QED BY <1>2, <1>3, <1>4, <1>5, <1>6, <1>7

LEMMA LargerIs ==
  ASSUME NEW x \in Int, NEW y \in Int
  PROVE  /\ Max({x, y}) = IF x >= y THEN x ELSE y
         /\ Min({x, y}) = IF x <= y THEN x ELSE y
<1>1. \E m \in {x, y} : \A n \in {x, y} : m >= n
  OBVIOUS
<1>2. \E m \in {x, y} : \A n \in {x, y} : m <= n
  OBVIOUS
<1>3. Max({x, y}) \in {x, y} /\ \A n \in {x, y} : Max({x, y}) >= n
  BY <1>1 DEF Max
<1>4. Min({x, y}) \in {x, y} /\ \A n \in {x, y} : Min({x, y}) <= n
  BY <1>2 DEF Min
<1> QED BY <1>3, <1>4

LEMMA LeastIs ==
  ASSUME NEW S \in SUBSET Nat, S # {}
  PROVE  Min(S) \in S /\ \A n \in S : Min(S) <= n
<1>1. \E m \in S : \A n \in S : m <= n
  BY LeastExists
<1> QED BY <1>1 DEF Min

\* The span of bytes that region r claims from an arena, if any.
LEMMA ClaimedIs ==
  ASSUME NEW ar \in Regions, NEW r \in Regions
  PROVE  \E base, end \in Nat :
            /\ base = IF r.base >= ar.base THEN r.base ELSE ar.base
            /\ end = IF End(r) <= End(ar) THEN End(r) ELSE End(ar)
            /\ Claimed(r, ar) = IF base < end THEN {Run(PageDown(base), PageUp(end))} ELSE {}
<1>1. r.base \in Nat /\ End(r) \in Nat /\ ar.base \in Nat /\ End(ar) \in Nat
  BY DEF Regions, End
<1> DEFINE base == Max({r.base, ar.base})
           end  == Min({End(r), End(ar)})
<1>2. /\ base = IF r.base >= ar.base THEN r.base ELSE ar.base
      /\ end = IF End(r) <= End(ar) THEN End(r) ELSE End(ar)
  <2>1. \A x, y \in Nat : /\ Max({x, y}) = IF x >= y THEN x ELSE y
                          /\ Min({x, y}) = IF x <= y THEN x ELSE y
    BY LargerIs
  <2> QED BY <1>1, <2>1, Zenon
<1>3. Claimed(r, ar) = IF base < end THEN {Run(PageDown(base), PageUp(end))} ELSE {}
  BY DEF Claimed
<1> HIDE DEF base, end
<1>4. base \in Nat /\ end \in Nat
  BY <1>1, <1>2
<1> QED BY <1>2, <1>3, <1>4

\* A run is of pages the region has a byte in, ...
LEMMA RunTouches ==
  ASSUME NEW ar \in Regions, NEW r \in Regions, NEW run \in Claimed(r, ar)
  PROVE  /\ run.start \in Nat /\ run.end \in Nat /\ PagesOf(run) = run.start .. run.end - 1
         /\ \A p \in PagesOf(run) : p \in Nat /\ Touches(r, p)
<1>1. PICK base, end \in Nat :
         /\ base = IF r.base >= ar.base THEN r.base ELSE ar.base
         /\ end = IF End(r) <= End(ar) THEN End(r) ELSE End(ar)
         /\ Claimed(r, ar) = IF base < end THEN {Run(PageDown(base), PageUp(end))} ELSE {}
  BY ClaimedIs
<1> DEFINE d == PageDown(base)
           u == PageUp(end)
<1>2. base < end /\ run.start = d /\ run.end = u
  BY <1>1 DEF Run
<1>3. d \in Nat /\ u \in Nat
  BY PageIs
<1>4. /\ r.base \in Nat /\ r.size \in Nat /\ End(r) = r.base + r.size
      /\ ar.base \in Nat /\ End(ar) \in Nat
  BY DEF Regions, End
<1>5. ASSUME NEW p \in d .. u - 1
      PROVE  p \in Nat /\ Touches(r, p)
  <2>1. p \in Nat /\ d <= p /\ p < u
    BY <1>3, <1>5
  <2> DEFINE x == p * PageSize
             y == (p + 1) * PageSize
  <2>2. x \in Nat /\ y = x + PageSize /\ base < x + PageSize /\ x < end
    BY <2>1, PageIs
  <2>3. PageSize \in Nat
    BY SizesAre
  <2> HIDE DEF x, y
  <2>4. r.size > 0 /\ r.base < y /\ x < End(r)
    BY <1>1, <1>2, <1>4, <2>2, <2>3
  <2> QED BY <2>1, <2>4 DEF Touches, x, y
<1> QED BY <1>2, <1>3, <1>5 DEF PagesOf

\* ... and of all of them within the arena.
LEMMA TouchedRuns ==
  ASSUME NEW ar \in Regions, NEW r \in Regions, NEW p \in Nat, Touches(r, p),
         FirstPage(ar) <= p, p < LastPage(ar)
  PROVE  \E run \in Claimed(r, ar) : run.start <= p /\ p < run.end
<1>1. PICK base, end \in Nat :
         /\ base = IF r.base >= ar.base THEN r.base ELSE ar.base
         /\ end = IF End(r) <= End(ar) THEN End(r) ELSE End(ar)
         /\ Claimed(r, ar) = IF base < end THEN {Run(PageDown(base), PageUp(end))} ELSE {}
  BY ClaimedIs
<1> DEFINE x == p * PageSize
           y == (p + 1) * PageSize
<1>2. x \in Nat /\ y = x + PageSize /\ PageSize \in Nat /\ PageSize >= 1 /\ p + 1 \in Nat
  BY PageIs, SizesAre
<1>3. /\ r.base \in Nat /\ r.size \in Nat /\ End(r) = r.base + r.size
      /\ ar.base \in Nat /\ End(ar) \in Nat
  BY DEF Regions, End
<1>4. r.size > 0 /\ r.base < y /\ x < End(r)
  BY DEF Touches
<1>5. ar.base <= x
  BY <1>3, PageIs DEF FirstPage
<1>6. y <= End(ar)
  <2>1. p + 1 <= LastPage(ar) /\ LastPage(ar) \in Nat
    BY <1>3, PageIs DEF LastPage
  <2> QED BY <1>2, <1>3, <2>1, PageIs DEF LastPage
<1> HIDE DEF x, y
<1>7. base < end /\ base < y /\ x < end
  BY <1>1, <1>2, <1>3, <1>4, <1>5, <1>6
<1>8. PageDown(base) <= p /\ p < PageUp(end)
  BY <1>2, <1>7, PageIs DEF x
<1> DEFINE run == Run(PageDown(base), PageUp(end))
<1>9. run \in Claimed(r, ar)
  BY <1>1, <1>7
<1>10. run.start <= p /\ p < run.end
  BY <1>8 DEF Run
<1> QED BY <1>9, <1>10

LEMMA ContainingIs ==
  ASSUME NEW ar \in Regions, NEW tk \in SUBSET Regions, NEW c \in Nat, NEW e \in Containing(ar, tk, c)
  PROVE  /\ e \in Nat /\ c < e
         /\ \A p \in c .. e - 1 : \E r \in tk : Touches(r, p)
<1>1. PICK run \in Ranges(ar, tk) : c \in PagesOf(run) /\ e = run.end
  BY DEF Containing
<1>2. PICK r \in tk : run \in Claimed(r, ar)
  BY DEF Ranges
<1>3. /\ run.start \in Nat /\ run.end \in Nat /\ PagesOf(run) = run.start .. run.end - 1
      /\ \A p \in PagesOf(run) : p \in Nat /\ Touches(r, p)
  <2>1. r \in Regions /\ run \in Claimed(r, ar)
    BY <1>2
  <2> QED BY <2>1, RunTouches
<1>4. c .. e - 1 \subseteq PagesOf(run) /\ c < e
  BY <1>1, <1>3
<1> QED BY <1>1, <1>3, <1>4

LEMMA GapIs ==
  ASSUME NEW ar \in Regions, NEW tk \in SUBSET Regions, NEW c \in Nat,
         FirstPage(ar) <= c, c < LastPage(ar), Containing(ar, tk, c) = {}
  PROVE  LET gap == GapAt(ar, tk, c)
         IN  /\ gap.start = c /\ gap.end \in Nat /\ c < gap.end /\ gap.end <= LastPage(ar)
             /\ \A p \in c .. gap.end - 1, r \in tk : ~Touches(r, p)
             /\ tk = {} => gap.end = LastPage(ar)
<1> DEFINE above == {run.start : run \in Ranges(ar, tk)} \ (0 .. c)
           last  == LastPage(ar)
           S     == {last} \cup NextBaseAbove(ar, tk, c)
           e     == Min(S)
<1>1. last \in Nat
  <2>1. End(ar) \in Nat /\ 0 \in Nat
    BY DEF Regions, End
  <2> QED BY <2>1, PageIs DEF LastPage
<1>2. above \in SUBSET Nat /\ \A a \in above : c < a
  <2> SUFFICES ASSUME NEW a \in above PROVE a \in Nat /\ c < a
    OBVIOUS
  <2>1. PICK run \in Ranges(ar, tk) : a = run.start
    BY DEF above
  <2>2. PICK r \in tk : run \in Claimed(r, ar)
    BY DEF Ranges
  <2>3. a \in Nat
    BY <2>1, <2>2, RunTouches
  <2>4. a \notin 0 .. c
    BY DEF above
  <2> QED BY <2>3, <2>4
<1>3. NextBaseAbove(ar, tk, c) = IF above = {} THEN {} ELSE {Min(above)}
  BY DEF NextBaseAbove
<1> HIDE DEF above
<1>4. above # {} => Min(above) \in above /\ \A a \in above : Min(above) <= a
  BY <1>2, LeastIs
<1>5. S \in SUBSET Nat /\ S # {} /\ last \in S /\ \A x \in S : c < x
  BY <1>1, <1>2, <1>3, <1>4
<1>6. e \in S /\ \A x \in S : e <= x
  <2> HIDE DEF S
  <2> QED BY <1>5, LeastIs
<1>7. \A a \in above : e <= a
  <2> SUFFICES ASSUME NEW a \in above PROVE e <= a
    OBVIOUS
  <2>1. Min(above) \in S /\ Min(above) <= a /\ Min(above) \in Nat /\ a \in Nat
    BY <1>2, <1>3, <1>4
  <2>2. e <= Min(above) /\ e \in Nat
    BY <1>5, <1>6, <2>1
  <2> HIDE DEF e
  <2> QED BY <2>1, <2>2
<1>8. GapAt(ar, tk, c).start = c /\ GapAt(ar, tk, c).end = e
  BY DEF GapAt, Run
<1> HIDE DEF S, e
<1>9. e \in Nat /\ c < e /\ e <= last
  BY <1>5, <1>6
<1>10. ASSUME NEW p \in c .. e - 1, NEW r \in tk, Touches(r, p)
       PROVE  FALSE
  <2>1. p \in Nat /\ c <= p /\ p < e /\ p < last
    BY <1>1, <1>9
  <2>2. FirstPage(ar) <= p
    <3>1. FirstPage(ar) \in Nat
      <4>1. ar.base \in Nat /\ 0 \in Nat
        BY DEF Regions
      <4> QED BY <4>1, PageIs DEF FirstPage
    <3> QED BY <2>1, <3>1
  <2>3. PICK run \in Claimed(r, ar) : run.start <= p /\ p < run.end
    BY <1>10, <2>1, <2>2, TouchedRuns
  <2>4. run.start \in Nat /\ run.end \in Nat /\ PagesOf(run) = run.start .. run.end - 1 /\ run \in Ranges(ar, tk)
    BY RunTouches DEF Ranges
  <2>5. CASE run.start <= c
    <3>1. c \in PagesOf(run)
      BY <2>1, <2>3, <2>4, <2>5
    <3> QED BY <2>4, <3>1 DEF Containing
  <2>6. CASE c < run.start
    <3>1. run.start \in above
      BY <2>4, <2>6 DEF above
    <3>2. e <= run.start
      BY <1>7, <3>1
    <3> QED BY <1>9, <2>1, <2>3, <2>4, <3>2
  <2> QED BY <2>4, <2>5, <2>6
<1>11. tk = {} => e = last
  <2> SUFFICES ASSUME tk = {} PROVE e = last
    OBVIOUS
  <2>1. above = {}
    BY DEF above, Ranges
  <2> QED BY <1>3, <1>6, <2>1 DEF S
<1> QED BY <1>8, <1>9, <1>10, <1>11

-------------------------------------------------------------------------------
(* Whose each byte is.                                                      *)

LEMMA BoardIs ==
  ASSUME board \in Boards
  PROVE  /\ board.memory \in Regions /\ board.memory.base \in Nat
         /\ End(board.memory) \in Nat /\ board.memory.base <= End(board.memory) /\ End(board.memory) <= Limit
         /\ Devices \in Regions /\ End(Devices) = board.memory.base /\ FirstPage(Devices) = 0
         /\ DOMAIN board.plan = 1 .. Len(board.plan) /\ Len(board.plan) \in Nat
         /\ \A i \in DOMAIN board.plan :
               LET r == board.plan[i].region
               IN  /\ r \in Regions /\ r.base \in Nat /\ End(r) \in Nat
                   /\ r.base <= End(r) /\ End(r) <= Limit
                   /\ board.plan[i].template \in Attributes
                   /\ \/ board.memory.base <= r.base /\ End(r) <= End(board.memory)
                      \/ /\ board.memory.base % Size(1) = 0 /\ r.size < Size(1)
                         /\ board.plan[i].template # None
<1>1. /\ board.memory \in Regions /\ End(board.memory) <= Limit
      /\ DOMAIN board.plan = 1 .. Len(board.plan) /\ Len(board.plan) \in Nat
      /\ \A i \in DOMAIN board.plan :
            LET r == board.plan[i].region
            IN  /\ r \in Regions /\ End(r) <= Limit
                /\ \/ board.memory.base <= r.base /\ End(r) <= End(board.memory)
                   \/ /\ board.memory.base % Size(1) = 0 /\ r.size < Size(1)
                      /\ board.plan[i].template # None
  BY MmuAssumption DEF Regions
<1>2. \A r \in Regions : r.base \in Nat /\ End(r) \in Nat /\ r.base <= End(r)
  BY DEF Regions, End
<1>3. ASSUME NEW k \in DOMAIN board.plan
      PROVE  board.plan[k].template \in Attributes
  <2> DEFINE F(b) == {b.plan[i].template : i \in DOMAIN b.plan}
             U    == UNION {F(b) : b \in Boards}
  <2>1. board.plan[k].template \in F(board)
    OBVIOUS
  <2>2. Templates = U \ {None}
    BY DEF Templates
  <2> HIDE DEF F
  <2>3. board.plan[k].template \in U
    BY <2>1
  <2> QED BY <2>2, <2>3 DEF Attributes
<1>4. board.memory.base \in Nat /\ Devices = [base |-> 0, size |-> board.memory.base - 0]
  BY <1>1, <1>2 DEF Devices, Region
<1>5. Devices \in Regions /\ End(Devices) = board.memory.base
  BY <1>4 DEF Regions, End
<1>6. FirstPage(Devices) = 0
  <2>1. PageUp(0) <= 0 <=> 0 <= 0 * PageSize
    BY PageIs
  <2>2. 0 * PageSize = 0 /\ PageUp(0) \in Nat
    BY PageIs, SizesAre
  <2> QED BY <1>4, <2>1, <2>2 DEF FirstPage
<1> QED BY <1>1, <1>2, <1>3, <1>4, <1>5, <1>6

LEMMA PageOf ==
  ASSUME NEW x \in Nat
  PROVE  /\ PageDown(x) \in Nat
         /\ PageDown(x) * PageSize <= x /\ x < (PageDown(x) + 1) * PageSize
<1> DEFINE p == PageDown(x)
<1>1. p \in Nat
  BY PageIs
<1> HIDE DEF p
<1>2. /\ (p + 1) * PageSize = p * PageSize + PageSize
      /\ PageDown(x) <= p <=> x < p * PageSize + PageSize
      /\ p <= PageDown(x) <=> p * PageSize <= x
  BY <1>1, PageIs
<1> QED BY <1>1, <1>2 DEF p

LEMMA FillsWithin ==
  ASSUME board \in Boards, NEW x \in Addresses
  PROVE  /\ Owns(MemoryFill, x) => board.memory.base <= x /\ x < End(board.memory)
         /\ Owns(DeviceFill, x) => x < board.memory.base
<1> DEFINE p == PageDown(x)
           y == p * PageSize
           z == (p + 1) * PageSize
           b == board.memory.base
           e == End(board.memory)
<1>1. x \in Nat /\ b \in Nat /\ e \in Nat
  BY BoardIs DEF Addresses
<1>2. p \in Nat /\ p + 1 \in Nat /\ y \in Nat /\ z \in Nat /\ y <= x /\ x < z
  <2>1. p \in Nat /\ y <= x /\ x < z
    BY <1>1, PageOf
  <2>2. p + 1 \in Nat
    BY <2>1
  <2> HIDE DEF p
  <2> QED BY <1>1, <2>1, <2>2, PageIs
<1>3. /\ PageUp(b) <= p => b <= y
      /\ p + 1 <= PageDown(b) => z <= b
      /\ p + 1 <= PageDown(e) => z <= e
      /\ PageDown(b) \in Nat /\ PageDown(e) \in Nat
  BY <1>1, <1>2, PageIs
<1>4. 0 \notin DOMAIN board.plan /\ -1 \notin DOMAIN board.plan
  BY BoardIs
<1>5. Owns(MemoryFill, x) => PageUp(b) <= p /\ p < PageDown(e)
  BY <1>4 DEF Owns, MemoryFill, DeviceFill, FirstPage, LastPage
<1>6. Owns(DeviceFill, x) => p < PageDown(b)
  BY <1>4, BoardIs DEF Owns, MemoryFill, DeviceFill, LastPage
<1> HIDE DEF p, y, z, b, e
<1>7. Owns(MemoryFill, x) => b <= x /\ x < e
  BY <1>1, <1>2, <1>3, <1>5
<1>8. Owns(DeviceFill, x) => x < b
  BY <1>1, <1>2, <1>3, <1>6
<1> QED BY <1>7, <1>8 DEF b, e

\* Where a region has a byte, it touches the page.
LEMMA InTouches ==
  ASSUME NEW r \in Regions, NEW x \in Nat, InRegion(r, x)
  PROVE  Touches(r, PageDown(x))
<1> DEFINE y == PageDown(x) * PageSize
           z == (PageDown(x) + 1) * PageSize
<1>1. y \in Nat /\ z \in Nat /\ y <= x /\ x < z
  <2>1. PageDown(x) \in Nat /\ PageDown(x) + 1 \in Nat
    BY PageOf
  <2> QED BY <2>1, PageOf, PageIs
<1>2. r.base \in Nat /\ r.size \in Nat /\ End(r) = r.base + r.size
  BY DEF Regions, End
<1> HIDE DEF y, z
<1>3. r.size > 0 /\ r.base < z /\ y < End(r)
  BY <1>1, <1>2 DEF InRegion
<1> QED BY <1>3 DEF Touches, y, z

\* Each byte is of one entry of the plan, or of the fill.
LEMMA OwnedOnce ==
  ASSUME board \in Boards, ~Overlaps(board.plan), NEW x \in Addresses,
         NEW s \in Sources \ {DeviceFill}, NEW t \in Sources \ {DeviceFill}, Owns(s, x), Owns(t, x)
  PROVE  s = t
<1>1. /\ DOMAIN board.plan = 1 .. Len(board.plan) /\ Len(board.plan) \in Nat /\ x \in Nat
      /\ \A i \in DOMAIN board.plan : board.plan[i].region \in Regions
  BY BoardIs DEF Addresses
<1>2. \A i \in Sources \ {DeviceFill} : i \in DOMAIN board.plan \/ i = MemoryFill
  BY <1>1 DEF Sources, DeviceFill, MemoryFill
<1>3. \A i \in DOMAIN board.plan : i # MemoryFill /\ i # DeviceFill
  BY <1>1 DEF DeviceFill, MemoryFill
<1>4. ASSUME NEW i \in DOMAIN board.plan, Owns(i, x)
      PROVE  InRegion(board.plan[i].region, x)
  BY <1>3, <1>4 DEF Owns
<1>5. ASSUME NEW i \in DOMAIN board.plan, Owns(i, x), Owns(MemoryFill, x)
      PROVE  FALSE
  <2>1. Unclaimed(PageDown(x))
    BY <1>3, <1>5 DEF Owns, MemoryFill, DeviceFill
  <2>2. Touches(board.plan[i].region, PageDown(x))
    BY <1>1, <1>4, <1>5, InTouches
  <2> QED BY <2>1, <2>2 DEF Unclaimed
<1>6. ASSUME NEW i \in DOMAIN board.plan, NEW j \in DOMAIN board.plan, Owns(i, x), Owns(j, x), i < j
      PROVE  FALSE
  <2> DEFINE q == board.plan[i].region
             r == board.plan[j].region
  <2>1. InRegion(q, x) /\ InRegion(r, x)
    BY <1>4, <1>6
  <2>2. q.base \in Nat /\ r.base \in Nat /\ End(q) \in Nat /\ End(r) \in Nat
    BY BoardIs
  <2>3. q.base < End(r) /\ r.base < End(q)
    <3> HIDE DEF q, r
    <3> QED BY <1>1, <2>1, <2>2 DEF InRegion
  <2> QED BY <1>6, <2>3 DEF Overlaps
<1>7. CASE s \in DOMAIN board.plan /\ t \in DOMAIN board.plan
  <2>1. ~(s < t) /\ ~(t < s)
    BY <1>6, <1>7
  <2> QED BY <1>1, <1>7, <2>1
<1> QED BY <1>2, <1>5, <1>7

\* What the devices' fill is given no other source has, but for a region that
\* lies outside of the memory.
LEMMA DevicesApart ==
  ASSUME board \in Boards, NEW x \in Addresses, Owns(DeviceFill, x),
         NEW s \in Sources \ {DeviceFill}, Owns(s, x)
  PROVE  /\ s \in DOMAIN board.plan /\ board.plan[s].template # None
         /\ InRegion(board.plan[s].region, x)
         /\ board.plan[s].region.base < board.memory.base
         /\ board.memory.base % Size(1) = 0 /\ board.plan[s].region.size < Size(1)
<1>1. /\ DOMAIN board.plan = 1 .. Len(board.plan) /\ Len(board.plan) \in Nat /\ x \in Nat
      /\ board.memory.base \in Nat
  BY BoardIs DEF Addresses
<1>2. x < board.memory.base
  BY FillsWithin
<1>3. s # MemoryFill
  BY <1>1, <1>2, FillsWithin
<1>4. s \in DOMAIN board.plan
  BY <1>1, <1>3 DEF Sources, DeviceFill, MemoryFill
<1>5. board.plan[s].template # None /\ InRegion(board.plan[s].region, x)
  BY <1>1, <1>3, <1>4 DEF Owns, DeviceFill, MemoryFill
<1>6. board.plan[s].region.base < board.memory.base
  BY <1>1, <1>2, <1>4, <1>5, BoardIs DEF InRegion
<1>7. board.memory.base % Size(1) = 0 /\ board.plan[s].region.size < Size(1)
  BY <1>1, <1>4, <1>6, BoardIs
<1> QED BY <1>4, <1>5, <1>6, <1>7

LEMMA OwnsSame ==
  ASSUME UNCHANGED board
  PROVE  /\ Sources' = Sources /\ Devices' = Devices /\ EdgesAligned' = EdgesAligned
         /\ \A s \in Sources : Owner(s)' = Owner(s)
         /\ \A s \in Sources, x \in Addresses : Owns(s, x)' = Owns(s, x)
<1>1. Sources' = Sources /\ Devices' = Devices /\ EdgesAligned' = EdgesAligned
  BY DEF Sources, Devices, EdgesAligned
<1>2. \A s \in Sources : Owner(s)' = Owner(s)
  BY DEF Owner
<1>3. \A p : Unclaimed(p)' = Unclaimed(p)
  BY DEF Unclaimed
<1>4. \A s \in Sources, x \in Addresses : Owns(s, x)' = Owns(s, x)
  BY <1>1, <1>3 DEF Owns
<1> QED BY <1>1, <1>2, <1>4

-------------------------------------------------------------------------------
(* The turns of map_range.                                                  *)

LEMMA HereIs ==
  ASSUME IInv, calls # <<>>
  PROVE  /\ Len(calls) \in 1 .. 3 /\ Len(calls) \in Nat /\ Here.level = Len(calls) /\ Here.level \in Levels
         /\ calls \in Seq([table : 1 .. used, addr : Nat, end : Nat, level : Levels])
         /\ \A k \in 1 .. Len(calls) : calls[k] \in [table : 1 .. used, addr : Nat, end : Nat, level : Levels]
         /\ CallOK(Len(calls)) /\ Here.table \in 1 .. used
         /\ Here.addr \in Nat /\ Here.end \in Nat /\ calls[1].end \in Nat /\ Limit \in Nat
         /\ Here.addr <= Here.end /\ Here.end <= calls[1].end /\ calls[1].end <= Limit
         /\ \A x \in Addresses : x \in Nat /\ (Open(x) <=> Here.addr <= x /\ x < calls[1].end)
<1> DEFINE n == Len(calls)
           C == [table : 1 .. used, addr : Nat, end : Nat, level : Levels]
<1>1. calls \in Seq(C) /\ n <= 3 /\ \A k \in 1 .. n : CallOK(k)
  BY DEF IInv, CallsOK
<1>2. n \in Nat /\ n # 0
  <2> HIDE DEF C
  <2> QED BY <1>1, EmptySeq, LenProperties
<1>3. n \in 1 .. 3 /\ 1 \in 1 .. n /\ n \in 1 .. n
  <2>1. n \in Nat /\ n # 0 /\ n <= 3
    BY <1>1, <1>2
  <2> HIDE DEF n
  <2> QED BY <2>1
<1>4. \A k \in 1 .. n : calls[k] \in C
  <2> HIDE DEF C
  <2> QED BY <1>1, ElementOfSeq
<1>5. \A k \in 1 .. n : /\ calls[k].addr \in Nat /\ calls[k].end \in Nat /\ calls[k].table \in 1 .. used
                        /\ calls[k].addr <= calls[k].end /\ calls[k].end <= Limit
                        /\ k > 1 => calls[k - 1].addr = calls[k].end
  BY <1>1, <1>4 DEF CallOK
<1>6. ASSUME NEW k \in 1 .. n - 1
      PROVE  calls[k + 1].end <= calls[k].end
  <2>1. k \in 1 .. n /\ k + 1 \in 1 .. n /\ k + 1 > 1 /\ k + 1 - 1 = k
    BY <1>2
  <2>2. calls[k].addr = calls[k + 1].end
    BY <1>5, <2>1
  <2> QED BY <1>5, <2>1, <2>2
<1>7. calls[n].end <= calls[1].end
  <2>1. n = 1 \/ n = 2 \/ n = 3
    BY <1>3
  <2>2. CASE n = 1
    BY <1>5, <1>3, <2>2
  <2>3. CASE n = 2
    <3>1. 1 \in 1 .. n - 1 /\ 1 + 1 = n
      BY <2>3
    <3> QED BY <1>6, <3>1
  <2>4. CASE n = 3
    <3>1. 1 \in 1 .. n - 1 /\ 2 \in 1 .. n - 1 /\ 1 + 1 = 2 /\ 2 + 1 = n /\ 2 \in 1 .. n
      BY <2>4
    <3>2. calls[n].end <= calls[2].end /\ calls[2].end <= calls[1].end
      BY <1>6, <3>1
    <3>3. calls[n].end \in Nat /\ calls[2].end \in Nat /\ calls[1].end \in Nat
      BY <1>3, <1>5, <3>1
    <3> HIDE DEF n
    <3> QED BY <3>2, <3>3
  <2> QED BY <2>1, <2>2, <2>3, <2>4
<1>8. Here = calls[n] /\ CallOK(n) /\ calls[n].level = n /\ n \in Levels
  BY <1>1, <1>3 DEF Here, CallOK, Levels
<1>9. \A x \in Addresses : x \in Nat /\ (Open(x) <=> Here.addr <= x /\ x < calls[1].end)
  BY SizesAre DEF Open, Addresses
<1> QED BY <1>1, <1>2, <1>3, <1>4, <1>5, <1>7, <1>8, <1>9, SizesAre

LEMMA HereRecord ==
  ASSUME IInv, calls # <<>>
  PROVE  Here \in [table : 1 .. used, addr : Nat, end : Nat, level : Levels]
<1>1. Len(calls) \in 1 .. Len(calls)
  BY HereIs
<1>2. calls[Len(calls)] \in [table : 1 .. used, addr : Nat, end : Nat, level : Levels]
  BY <1>1, HereIs
<1> QED BY <1>2 DEF Here

\* The chunk of a turn: where it begins and ends, and what it may do.
LEMMA TurnIs ==
  ASSUME IInv, Turn
  PROVE  /\ Here.level \in Levels /\ Here.level \in Nat /\ phase = "map" /\ used >= 1 /\ used \in Nat
         /\ Here.addr \in Addresses /\ Here.addr \in Nat /\ Here.addr < Here.end
         /\ Here.table = Table(slots, used, Here.level, Here.addr)
         /\ Table(slots, used, Here.level, Here.addr) # NoWhere
         /\ Slot = SlotAt(slots, used, Here.level, Here.addr) /\ Slot \in Descriptors
         /\ ChunkEnd \in Nat /\ Here.addr < ChunkEnd /\ ChunkEnd <= Here.end
         /\ ChunkEnd <= SlotEnd(Here.level, Here.addr) /\ ChunkEnd <= Limit
         /\ ChunkEnd = SlotEnd(Here.level, Here.addr) \/ ChunkEnd = Here.end
         /\ \A x \in Addresses : Here.addr <= x /\ x < ChunkEnd => Open(x) /\ Together(Here.level, Here.addr, x)
         /\ Fills => /\ Here.addr = Start(Here.level, Here.addr)
                     /\ ChunkEnd = Here.addr + Size(Here.level)
                     /\ \A x \in Addresses : Together(Here.level, Here.addr, x) =>
                                                Here.addr <= x /\ x < ChunkEnd
<1> DEFINE k == Here.level
           a == Here.addr
           e == Here.end
           z == SlotEnd(k, a)
           c == ChunkEnd
<1>1. /\ calls # <<>> /\ phase = "map" /\ a < e
      /\ k \in Levels /\ k \in Nat /\ k = Len(calls) /\ a \in Nat /\ e \in Nat /\ e <= Limit /\ Limit \in Nat
      /\ e <= calls[1].end /\ calls[1].end \in Nat
  <2>1. calls # <<>> /\ phase = "map" /\ Here.addr < Here.end
    BY DEF Turn
  <2>2. /\ Here.level \in Levels /\ Here.level = Len(calls) /\ Here.addr \in Nat /\ Here.end \in Nat
        /\ Here.end <= calls[1].end /\ calls[1].end <= Limit /\ calls[1].end \in Nat /\ Limit \in Nat
    BY <2>1, HereIs
  <2>3. Here.level \in Nat
    BY <2>2, LevelIs
  <2>4. Here.end <= Limit
    BY <2>2
  <2> QED BY <2>1, <2>2, <2>3, <2>4
<1>2. a \in Addresses
  BY <1>1 DEF Addresses
<1>3. Here.table = Table(slots, used, k, a) /\ Here.table \in 1 .. used
  <2>1. CallOK(Len(calls)) /\ Here.table \in 1 .. used
    BY <1>1, HereIs
  <2> QED BY <1>1, <2>1 DEF CallOK, Here
<1>4. used \in Nat /\ used >= 1 /\ Table(slots, used, k, a) # NoWhere
  <2>1. used \in 0 .. MaxTables
    BY DEF IInv, Tree
  <2> QED BY <1>3, <2>1, SizesAre DEF NoWhere
<1>5. Slot = SlotAt(slots, used, k, a)
  BY <1>3 DEF Slot, SlotAt
<1>6. Slot \in Descriptors
  <2>1. Tree(slots, used)
    BY DEF IInv
  <2>2. SlotAt(slots, used, k, a) \in Descriptors
    BY <1>1, <1>2, <1>4, <2>1, TreeIs
  <2> QED BY <1>5, <2>2
<1>7. c = IF z <= e THEN z ELSE e
  <2>1. z \in Nat
    BY <1>1, AreaIs
  <2>2. \A x, y \in Nat : Min({x, y}) = IF x <= y THEN x ELSE y
    BY LargerIs
  <2>3. c = Min({z, e})
    BY DEF ChunkEnd
  <2> HIDE DEF c, z, e
  <2> QED BY <1>1, <2>1, <2>2, <2>3
<1>8. z \in Nat /\ a < z
  BY <1>1, AreaIs
<1>9. ASSUME NEW x \in Addresses
      PROVE  Together(k, a, x) <=> Start(k, a) <= x /\ x < z
  BY <1>1, AreaIs, HereIs
<1>10. Start(k, a) <= a /\ Start(k, a) \in Nat /\ z = Start(k, a) + Size(k) /\ Size(k) \in Nat
       /\ a % Size(k) = a - Start(k, a)
  <2>1. Size(k) \in Nat
    BY <1>1, SizesAre
  <2> QED BY <1>1, <2>1, AreaIs
<1>11. Fills => a % Size(k) = 0 /\ c = z
  BY DEF Fills
<1>12. \A x \in Addresses : x \in Nat /\ (Open(x) <=> a <= x /\ x < calls[1].end)
  BY <1>1, HereIs
<1> HIDE DEF k, a, e, z, c
<1>13. c \in Nat /\ a < c /\ c <= e /\ c <= z /\ c <= Limit /\ (c = z \/ c = e)
  BY <1>1, <1>7, <1>8
<1>14. \A x \in Addresses : a <= x /\ x < c => Open(x) /\ Together(k, a, x)
  BY <1>1, <1>8, <1>9, <1>10, <1>12, <1>13
<1>15. Fills => /\ a = Start(k, a) /\ c = a + Size(k)
                /\ \A x \in Addresses : Together(k, a, x) => a <= x /\ x < c
  BY <1>1, <1>8, <1>9, <1>10, <1>11, <1>12
<1> QED BY <1>1, <1>2, <1>3, <1>4, <1>5, <1>6, <1>13, <1>14, <1>15 DEF k, a, e, z, c

\* What has been asked for where map_range is yet to come lies outside of the
\* memory, below it.
LEMMA OpenAsked ==
  ASSUME IInv, calls # <<>>, NEW x \in Addresses, Open(x), NEW s \in Sources, Asked(s, x)
  PROVE  /\ pass = 2 /\ s \in DOMAIN board.plan /\ board.plan[s].template # None
         /\ InRegion(board.plan[s].region, x)
         /\ board.plan[s].region.base < board.memory.base
         /\ board.memory.base % Size(1) = 0 /\ board.plan[s].region.size < Size(1)
<1>1. board \in Boards /\ pass = 2 /\ s # DeviceFill /\ Owns(s, x)
  <2>1. Owns(s, x) /\ pass # 1 /\ s # DeviceFill
    BY DEF Asked
  <2>2. board \in Boards /\ pass \in 1 .. 2
    BY DEF IInv, Stages
  <2> QED BY <2>1, <2>2
<1>2. Owns(DeviceFill, x)
  BY <1>1 DEF IInv, Current
<1> QED BY <1>1, <1>2, DevicesApart

\* Nothing is mapped in a slot that is about to get a leaf.
LEMMA Fresh ==
  ASSUME IInv, Turn, Fills, Here.level < 3 => Slot.kind # "table",
         NEW x \in Addresses, Together(Here.level, Here.addr, x)
  PROVE  ~Mapped(x)
<1> DEFINE k == Here.level
           a == Here.addr
<1>1. /\ calls # <<>> /\ k \in Levels /\ k \in Nat /\ a \in Addresses /\ a \in Nat
      /\ Table(slots, used, k, a) # NoWhere /\ Slot = SlotAt(slots, used, k, a)
      /\ ChunkEnd = a + Size(k)
      /\ \A y \in Addresses : a <= y /\ y < ChunkEnd => Open(y) /\ Together(k, a, y)
      /\ ChunkEnd <= Limit /\ Limit \in Nat /\ k = Len(calls)
  <2>1. calls # <<>>
    BY DEF Turn
  <2> QED BY <2>1, TurnIs, HereIs, SizesAre
<1>2. /\ Table(slots, used, k, x) = Table(slots, used, k, a)
      /\ SlotAt(slots, used, k, x) = SlotAt(slots, used, k, a)
      /\ IsLeaf(slots, used, k, x) <=> IsLeaf(slots, used, k, a)
  BY <1>1, SlotSame
<1> SUFFICES ASSUME NEW l \in Levels, IsLeaf(slots, used, l, x) PROVE FALSE
  BY DEF Mapped
<1>3. l \in Nat /\ (l = 1 \/ l = 2 \/ l = 3) /\ (k = 1 \/ k = 2 \/ k = 3)
  BY <1>1, LevelIs
<1>4. CASE l < k
  <2>1. SlotAt(slots, used, l, x).kind = "table"
    BY <1>1, <1>2, <1>4, WalkIs
  <2>2. l # 3
    BY <1>3, <1>4
  <2> QED BY <2>1, <2>2 DEF IsLeaf
<1>5. CASE k < l
  <2>1. Table(slots, used, l, x) # NoWhere
    BY DEF IsLeaf
  <2>2. SlotAt(slots, used, k, x).kind = "table"
    BY <1>1, <1>5, <2>1, WalkIs
  <2>3. k < 3
    BY <1>3, <1>5
  <2> QED BY <1>1, <1>2, <2>2, <2>3
<1>6. CASE l = k
  <2>1. PICK s \in Sources : LeafOf(s, k, x)
    BY <1>6 DEF IInv, LeavesAsked
  <2>2. \A y \in Addresses : a <= y /\ y < ChunkEnd => Open(y) /\ Asked(s, y)
    BY <1>1, <2>1, TogetherIs DEF LeafOf
  <2> DEFINE r == board.plan[s].region
             b == a + Size(1) - 1
  <2>3. Size(k) \in Nat /\ Size(k) >= 1
    BY <1>1, SizesAre
  <2>4. Open(a) /\ Asked(s, a)
    BY <1>1, <2>2, <2>3
  <2>5. /\ pass = 2 /\ s \in DOMAIN board.plan /\ InRegion(r, a)
        /\ board.memory.base % Size(1) = 0 /\ r.size < Size(1)
    BY <1>1, <2>4, OpenAsked
  <2>6. k = 1
    <3>1. Len(calls) <= 1
      BY <2>5 DEF IInv, CallsAligned
    <3> HIDE DEF k
    <3> QED BY <1>1, <1>3, <3>1
  <2>7. b \in Addresses /\ a <= b /\ b < ChunkEnd
    BY <1>1, <2>3, <2>6 DEF Addresses
  <2>8. InRegion(r, b)
    BY <1>1, <2>2, <2>7, OpenAsked
  <2>9. r.base \in Nat /\ r.size \in Nat /\ End(r) = r.base + r.size
    <3>1. r \in Regions
      BY <2>5, BoardIs DEF IInv, Stages
    <3> QED BY <3>1 DEF Regions, End
  <2> HIDE DEF r
  <2>10. r.base <= a /\ b < r.base + r.size
    BY <2>5, <2>8, <2>9 DEF InRegion
  <2> QED BY <1>1, <2>3, <2>5, <2>6, <2>9, <2>10
<1> QED BY <1>3, <1>4, <1>5, <1>6

-------------------------------------------------------------------------------
(* The turns of apply.                                                      *)

\* What apply is at.
LEMMA ArenaIs ==
  ASSUME IInv
  PROVE  /\ board \in Boards /\ pass \in 1 .. 2 /\ next \in Nat /\ next >= 1 /\ cursor \in Nat
         /\ pass = 1 => Arena = board.memory /\ Plan = board.plan /\ Fill = Normal
         /\ pass = 2 => Arena = Devices /\ Len(Plan) = 0 /\ Taken = {} /\ ~Overlaps(Plan) /\ Fill = Device
         /\ Arena \in Regions /\ Taken \in SUBSET Regions
         /\ FirstPage(Arena) \in Nat /\ LastPage(Arena) \in Nat /\ LastPage(Arena) * PageSize <= Limit
<1>1. board \in Boards /\ pass \in 1 .. 2 /\ next \in Nat /\ next >= 1 /\ cursor \in Nat
  <2>1. board \in Boards /\ pass \in 1 .. 2 /\ next \in 1 .. Len(board.plan) + 1 /\ cursor \in Nat
    BY DEF IInv, Stages
  <2>2. Len(board.plan) \in Nat
    BY <2>1, BoardIs
  <2> QED BY <2>1, <2>2
<1>2. pass = 1 => Arena = board.memory /\ Plan = board.plan /\ Fill = Normal
  BY DEF Arena, Plan, Fill
<1>3. pass = 2 => Arena = Devices /\ Plan = <<>> /\ Fill = Device
  BY DEF Arena, Plan, Fill, Devices
<1>4. Plan = <<>> => Len(Plan) = 0 /\ DOMAIN Plan = {} /\ Taken = {} /\ ~Overlaps(Plan)
  <2> SUFFICES ASSUME Plan = <<>> PROVE Len(Plan) = 0 /\ DOMAIN Plan = {} /\ Taken = {} /\ ~Overlaps(Plan)
    OBVIOUS
  <2>1. Len(Plan) = 0 /\ DOMAIN Plan = {}
    OBVIOUS
  <2> QED BY <2>1 DEF Taken, Overlaps
<1>5. Arena \in Regions /\ End(Arena) \in Nat /\ End(Arena) <= Limit /\ Limit \in Nat
  <2>1. pass = 1 \/ pass = 2
    BY <1>1
  <2> QED BY <1>1, <1>2, <1>3, <2>1, BoardIs, SizesAre
<1>6. Taken \in SUBSET Regions
  <2>1. pass = 1 \/ pass = 2
    BY <1>1
  <2>2. pass = 1 => Taken \in SUBSET Regions
    BY <1>1, <1>2, BoardIs DEF Taken
  <2> QED BY <1>3, <1>4, <2>1, <2>2
<1>7. FirstPage(Arena) \in Nat /\ LastPage(Arena) \in Nat /\ LastPage(Arena) * PageSize <= Limit
  <2> DEFINE e == End(Arena)
             b == Arena.base
  <2>1. b \in Nat /\ e \in Nat /\ e <= Limit /\ Limit \in Nat
    BY <1>5 DEF Regions
  <2>2. FirstPage(Arena) = PageUp(b) /\ LastPage(Arena) = PageDown(e)
    BY DEF FirstPage, LastPage
  <2> HIDE DEF b, e
  <2>3. PageUp(b) \in Nat /\ PageDown(e) \in Nat /\ PageDown(e) * PageSize <= e
    BY <2>1, PageIs, PageOf
  <2>4. PageDown(e) * PageSize \in Nat
    BY <2>1, <2>3, PageIs
  <2> DEFINE y == PageDown(e) * PageSize
  <2> HIDE DEF y
  <2>5. y <= Limit
    BY <2>1, <2>3, <2>4 DEF y
  <2> QED BY <2>2, <2>3, <2>5 DEF y
<1> QED BY <1>1, <1>2, <1>3, <1>4, <1>5, <1>6, <1>7

\* A source, and how far apply has come in it, before a step and after.
LEMMA ReachedIs ==
  ASSUME board \in Boards, UNCHANGED board, NEW s \in Sources, NEW x \in Addresses
  PROVE  /\ PageDown(x) \in Nat /\ (Owns(s, x)' <=> Owns(s, x))
         /\ \/ /\ s \in DOMAIN board.plan /\ s \in Nat /\ s >= 1 /\ s <= Len(board.plan)
               /\ s # MemoryFill /\ s # DeviceFill
               /\ Owns(s, x) => board.plan[s].template # None
               /\ Reached(s, x) <=> pass = 2 \/ s < next
               /\ Reached(s, x)' <=> pass' = 2 \/ s < next'
            \/ /\ s = MemoryFill /\ s # DeviceFill
               /\ Owns(s, x) => /\ FirstPage(board.memory) <= PageDown(x) /\ PageDown(x) < LastPage(board.memory)
                                /\ Unclaimed(PageDown(x))
               /\ Reached(s, x) <=> pass = 2 \/ PageDown(x) < cursor
               /\ Reached(s, x)' <=> pass' = 2 \/ PageDown(x) < cursor'
            \/ /\ s = DeviceFill /\ s # MemoryFill
               /\ Owns(s, x) => PageDown(x) < LastPage(Devices)
               /\ Reached(s, x) <=> pass = 2 /\ phase # "check" /\ PageDown(x) < cursor
               /\ Reached(s, x)' <=> pass' = 2 /\ phase' # "check" /\ PageDown(x) < cursor'
<1>1. DOMAIN board.plan = 1 .. Len(board.plan) /\ Len(board.plan) \in Nat
  BY BoardIs
<1>2. PageDown(x) \in Nat
  BY PageOf DEF Addresses
<1>3. Owns(s, x)' <=> Owns(s, x)
  BY OwnsSame
<1>4. (board.plan)' = board.plan
  OBVIOUS
<1>5. s \in DOMAIN board.plan \/ s = MemoryFill \/ s = DeviceFill
  BY <1>1 DEF Sources, MemoryFill, DeviceFill
<1>6. CASE s \in DOMAIN board.plan
  <2>1. s \in Nat /\ s >= 1 /\ s <= Len(board.plan) /\ s # MemoryFill /\ s # DeviceFill
    BY <1>1, <1>6 DEF MemoryFill, DeviceFill
  <2>2. Owns(s, x) => board.plan[s].template # None
    BY <2>1 DEF Owns
  <2>3. Reached(s, x) <=> pass = 2 \/ s < next
    BY <1>6, <2>1 DEF Reached
  <2>4. Reached(s, x)' <=> pass' = 2 \/ s < next'
    BY <1>6, <2>1, <1>4 DEF Reached
  <2> QED BY <1>2, <1>3, <1>6, <2>1, <2>2, <2>3, <2>4
<1>7. CASE s = MemoryFill
  <2>1. s \notin DOMAIN board.plan /\ s # DeviceFill
    BY <1>1, <1>7 DEF MemoryFill, DeviceFill
  <2>2. Owns(s, x) => /\ FirstPage(board.memory) <= PageDown(x) /\ PageDown(x) < LastPage(board.memory)
                      /\ Unclaimed(PageDown(x))
    BY <1>7, <2>1 DEF Owns
  <2>3. Reached(s, x) <=> pass = 2 \/ PageDown(x) < cursor
    BY <1>7, <2>1 DEF Reached
  <2>4. Reached(s, x)' <=> pass' = 2 \/ PageDown(x) < cursor'
    BY <1>7, <2>1, <1>4 DEF Reached
  <2> QED BY <1>2, <1>3, <1>7, <2>1, <2>2, <2>3, <2>4
<1>8. CASE s = DeviceFill
  <2>1. s \notin DOMAIN board.plan /\ s # MemoryFill
    BY <1>1, <1>8 DEF MemoryFill, DeviceFill
  <2>2. Owns(s, x) => PageDown(x) < LastPage(Devices)
    BY <1>8, <2>1 DEF Owns
  <2>3. Reached(s, x) <=> pass = 2 /\ phase # "check" /\ PageDown(x) < cursor
    BY <1>8, <2>1 DEF Reached
  <2>4. Reached(s, x)' <=> pass' = 2 /\ phase' # "check" /\ PageDown(x) < cursor'
    BY <1>8, <2>1, <1>4 DEF Reached
  <2> QED BY <1>2, <1>3, <1>8, <2>1, <2>2, <2>3, <2>4
<1> QED BY <1>5, <1>6, <1>7, <1>8

\* A step that changes no leaf, and asks for nothing.
LEMMA AskedKept ==
  ASSUME LeavesAsked, AskedMapped, UNCHANGED board,
         \A l \in Levels, va \in Addresses :
            /\ IsLeaf(slots, used, l, va)' <=> IsLeaf(slots, used, l, va)
            /\ IsLeaf(slots, used, l, va) => SlotAt(slots, used, l, va)' = SlotAt(slots, used, l, va),
         \A s \in Sources, x \in Addresses : Asked(s, x)' <=> Asked(s, x)
  PROVE  LeavesAsked' /\ AskedMapped'
<1>1. Sources' = Sources /\ \A s \in Sources : Owner(s)' = Owner(s)
  BY OwnsSame
<1>2. ASSUME NEW s \in Sources, NEW l \in Levels, NEW va \in Addresses, IsLeaf(slots, used, l, va)
      PROVE  LeafOf(s, l, va)' <=> LeafOf(s, l, va)
  BY <1>1, <1>2 DEF LeafOf
<1>3. LeavesAsked'
  <2> SUFFICES ASSUME NEW l \in Levels, NEW va \in Addresses, IsLeaf(slots, used, l, va)
               PROVE  /\ SlotAt(slots, used, l, va)'.address = Start(l, va)
                      /\ \E s \in Sources : LeafOf(s, l, va)'
    BY <1>1 DEF LeavesAsked
  <2>1. SlotAt(slots, used, l, va).address = Start(l, va) /\ \E s \in Sources : LeafOf(s, l, va)
    BY DEF LeavesAsked
  <2> QED BY <1>2, <2>1
<1>4. AskedMapped'
  <2> SUFFICES ASSUME NEW s \in Sources, NEW va \in Addresses, Asked(s, va)
               PROVE  \E l \in Levels : IsLeaf(slots, used, l, va)' /\ LeafOf(s, l, va)'
    BY <1>1 DEF AskedMapped
  <2>1. PICK l \in Levels : IsLeaf(slots, used, l, va) /\ LeafOf(s, l, va)
    BY DEF AskedMapped
  <2> QED BY <1>2, <2>1
<1> QED BY <1>3, <1>4

\* A step of apply that maps nothing.
LEMMA IdleKeeps ==
  ASSUME IInv, calls = <<>>, UNCHANGED <<board, walk, tree>>, Stages', RefusesForCause',
         \A s \in Sources, x \in Addresses : Owns(s, x) => (Reached(s, x)' <=> Reached(s, x))
  PROVE  IInv'
<1>1. board \in Boards /\ UNCHANGED <<board, calls, template, slots, used>>
  BY DEF IInv, Stages, walk, tree
<1>2. Tree(slots, used)'
  BY <1>1 DEF IInv, Tree
<1>3. calls' = <<>> /\ Len(calls) = 0 /\ Len(calls') = 0
  BY <1>1
<1>4. CallsOK'
  <2>1. <<>> \in Seq([table : 1 .. used', addr : Nat, end : Nat, level : Levels])
    BY EmptySeq
  <2>2. ~\E k \in 1 .. 0 : TRUE
    OBVIOUS
  <2> QED BY <1>3, <2>1, <2>2 DEF CallsOK
<1>5. Current'
  BY <1>3 DEF Current
<1>6. \A s \in Sources, x \in Addresses : Asked(s, x)' <=> Asked(s, x)
  <2>1. \A x : ~Open(x) /\ ~Open(x)'
    BY <1>3 DEF Open
  <2> QED BY <1>1, <2>1, OwnsSame DEF Asked
<1>7. LeavesAsked' /\ AskedMapped'
  BY <1>1, <1>6, AskedKept DEF IInv
<1>8. TablesUsed'
  BY <1>1 DEF IInv, TablesUsed, Mapped, Here
<1>9. CallsAligned'
  <2>1. ~\E k \in 1 .. 0 : TRUE
    OBVIOUS
  <2> QED BY <1>3, <2>1 DEF CallsAligned
<1> QED BY <1>2, <1>4, <1>5, <1>7, <1>8, <1>9 DEF IInv

LEMMA NoTableKeeps ==
  ASSUME IInv, NoTable
  PROVE  IInv'
<1>1. /\ phase = "new" /\ phase' = "no table" /\ UNCHANGED <<board, loops, walk, tree>>
      /\ UNCHANGED <<board, pass, next, cursor, template, used, calls>>
  BY DEF NoTable, loops, walk, tree
<1>2. board \in Boards /\ pass = 1 /\ calls = <<>>
  BY <1>1 DEF IInv, Stages
<1>3. Stages'
  BY <1>1 DEF IInv, Stages, Failures, Arena
<1>4. RefusesForCause'
  BY <1>1 DEF RefusesForCause
<1>5. \A s \in Sources, x \in Addresses : Owns(s, x) => (Reached(s, x)' <=> Reached(s, x))
  BY <1>1, <1>2, ReachedIs
<1> QED BY <1>1, <1>2, <1>3, <1>4, <1>5, IdleKeeps

LEMMA ApplyKeeps ==
  ASSUME IInv, Apply
  PROVE  IInv'
<1>1. /\ phase = "check" /\ phase' = "map" /\ ~Overlaps(Plan)
      /\ next' = 1 /\ cursor' = FirstPage(Arena)
      /\ UNCHANGED <<board, pass, walk, tree>> /\ UNCHANGED <<calls, template, used>>
  BY DEF Apply, walk, tree
<1>2. calls = <<>> /\ (pass = 1 => next = 1 /\ cursor = 0) /\ (pass = 2 => ~Overlaps(board.plan))
  BY <1>1 DEF IInv, Stages
<1>3. /\ board \in Boards /\ (pass = 1 \/ pass = 2) /\ pass \in 1 .. 2
      /\ pass = 1 => Arena = board.memory /\ Plan = board.plan
      /\ pass = 2 => Arena = Devices
      /\ FirstPage(Arena) \in Nat
  BY ArenaIs
<1>4. Arena' = Arena /\ Devices' = Devices
  BY <1>1 DEF Arena, Devices
<1>5. FirstPage(Devices) = 0 /\ 1 \in 1 .. Len(board.plan) + 1
  BY <1>3, BoardIs
<1>6. Stages'
  BY <1>1, <1>2, <1>3, <1>4, <1>5 DEF IInv, Stages
<1>7. RefusesForCause'
  BY <1>1 DEF RefusesForCause
<1>8. ASSUME NEW s \in Sources, NEW x \in Addresses, Owns(s, x)
      PROVE  Reached(s, x)' <=> Reached(s, x)
  <2>1. \A p \in Nat : ~(p < 0)
    OBVIOUS
  <2>2. \A p, q \in Nat : q <= p => ~(p < q)
    OBVIOUS
  <2>3. FirstPage(board.memory) \in Nat
    BY <1>3, BoardIs, PageIs DEF FirstPage
  <2> QED BY <1>1, <1>2, <1>3, <1>5, <1>8, <2>1, <2>2, <2>3, ReachedIs
<1> QED BY <1>1, <1>2, <1>6, <1>7, <1>8, IdleKeeps

LEMMA RefuseKeeps ==
  ASSUME IInv, Refuse
  PROVE  IInv'
<1>1. /\ phase = "check" /\ phase' = "overlap" /\ Overlaps(Plan) /\ UNCHANGED <<board, loops, walk, tree>>
      /\ UNCHANGED <<board, pass, next, cursor, template, used, calls>>
  BY DEF Refuse, loops, walk, tree
<1>2. board \in Boards /\ pass = 1 /\ Plan = board.plan /\ calls = <<>>
  <2>1. board \in Boards /\ pass \in 1 .. 2 /\ pass # 2 /\ (pass = 1 => Plan = board.plan)
    BY <1>1, ArenaIs
  <2>2. pass = 1
    BY <2>1
  <2> QED BY <1>1, <2>1, <2>2 DEF IInv, Stages
<1>3. Stages'
  BY <1>1, <1>2 DEF IInv, Stages, Failures, Arena
<1>4. RefusesForCause'
  <2>1. PICK i, j \in DOMAIN board.plan :
           /\ i < j
           /\ board.plan[i].region.base < End(board.plan[j].region)
           /\ board.plan[j].region.base < End(board.plan[i].region)
    BY <1>1, <1>2 DEF Overlaps
  <2> DEFINE q == board.plan[i].region
             r == board.plan[j].region
  <2>2. q.base \in Nat /\ r.base \in Nat /\ End(q) \in Nat /\ End(r) \in Nat
    BY <1>2, BoardIs
  <2>3. i # j
    BY <1>2, <2>1, BoardIs
  <2>4. r.base \in q.base .. End(q) - 1 \/ q.base \in r.base .. End(r) - 1
    <3>1. q.base < End(r) /\ r.base < End(q)
      BY <2>1
    <3> HIDE DEF q, r
    <3> QED BY <2>2, <3>1
  <2>5. \E k, m \in DOMAIN board.plan :
           k # m /\ board.plan[k].region.base \in board.plan[m].region.base .. End(board.plan[m].region) - 1
    BY <2>3, <2>4
  <2> QED BY <1>1, <2>5 DEF RefusesForCause
<1>5. \A s \in Sources, x \in Addresses : Owns(s, x) => (Reached(s, x)' <=> Reached(s, x))
  BY <1>1, <1>2, ReachedIs
<1> QED BY <1>1, <1>2, <1>3, <1>4, <1>5, IdleKeeps

LEMMA LeaveUnmappedKeeps ==
  ASSUME IInv, LeaveUnmapped
  PROVE  IInv'
<1>1. /\ phase = "map" /\ calls = <<>> /\ next <= Len(Plan) /\ Plan[next].template = None
      /\ next' = next + 1
      /\ UNCHANGED <<board, walk, tree>> /\ UNCHANGED <<board, phase, pass, cursor, template, used, calls>>
  BY DEF LeaveUnmapped, walk, tree
<1>2. board \in Boards /\ pass = 1 /\ Plan = board.plan /\ next \in Nat /\ next >= 1 /\ Len(board.plan) \in Nat
  <2>1. /\ board \in Boards /\ pass \in 1 .. 2 /\ next \in Nat /\ next >= 1
        /\ pass = 1 => Plan = board.plan
        /\ pass = 2 => Len(Plan) = 0
    BY ArenaIs
  <2>2. pass # 2
    BY <1>1, <2>1
  <2> QED BY <2>1, <2>2, BoardIs
<1>3. next' \in 1 .. Len(board.plan) + 1 /\ next \in Nat
  BY <1>1, <1>2
<1>4. Stages'
  BY <1>1, <1>2, <1>3 DEF IInv, Stages, Arena
<1>5. RefusesForCause'
  BY <1>1 DEF RefusesForCause
<1>6. ASSUME NEW s \in Sources, NEW x \in Addresses, Owns(s, x)
      PROVE  Reached(s, x)' <=> Reached(s, x)
  <2>1. \A i \in Nat : i < next + 1 <=> i < next \/ i = next
    BY <1>2
  <2> QED BY <1>1, <1>2, <1>6, <2>1, ReachedIs
<1> QED BY <1>1, <1>4, <1>5, <1>6, IdleKeeps

LEMMA SkipClaimedKeeps ==
  ASSUME IInv, SkipClaimed
  PROVE  IInv'
<1>1. /\ phase = "map" /\ calls = <<>> /\ cursor' \in Containing(Arena, Taken, cursor)
      /\ UNCHANGED <<board, walk, tree>> /\ UNCHANGED <<board, phase, pass, next, template, used, calls>>
  BY DEF SkipClaimed, Filling, walk, tree
<1>2. /\ board \in Boards /\ cursor \in Nat /\ Arena \in Regions /\ Taken \in SUBSET Regions
      /\ FirstPage(Arena) \in Nat
  BY ArenaIs
<1>3. /\ cursor' \in Nat /\ cursor < cursor'
      /\ \A p \in cursor .. cursor' - 1 : \E r \in Taken : Touches(r, p)
  BY <1>1, <1>2, ContainingIs
<1>4. pass = 1 /\ Taken = {board.plan[i].region : i \in DOMAIN board.plan}
  <2>1. pass \in 1 .. 2 /\ (pass = 2 => Taken = {}) /\ (pass = 1 => Plan = board.plan)
    BY ArenaIs
  <2>2. cursor \in cursor .. cursor' - 1
    <3>1. \A c, d \in Nat : c < d => c \in c .. d - 1
      OBVIOUS
    <3> QED BY <1>2, <1>3, <3>1, Zenon
  <2>3. Taken # {}
    BY <1>3, <2>2
  <2>4. pass = 1
    BY <2>1, <2>3
  <2> QED BY <2>1, <2>4 DEF Taken
<1>5. Stages'
  <2>1. FirstPage(Arena) <= cursor /\ Arena' = Arena
    BY <1>1 DEF IInv, Stages, Arena
  <2>2. FirstPage(Arena) <= cursor'
    BY <1>2, <1>3, <2>1
  <2> QED BY <1>1, <1>3, <1>4, <2>1, <2>2 DEF IInv, Stages
<1>6. RefusesForCause'
  BY <1>1 DEF RefusesForCause
<1>7. ASSUME NEW s \in Sources, NEW x \in Addresses, Owns(s, x)
      PROVE  Reached(s, x)' <=> Reached(s, x)
  <2>1. ASSUME NEW p \in Nat, Unclaimed(p)
        PROVE  p < cursor' <=> p < cursor
    <3>1. ~(p \in cursor .. cursor' - 1)
      BY <1>3, <1>4, <2>1 DEF Unclaimed
    <3>2. \A c, d, q \in Nat : c < d /\ ~(q \in c .. d - 1) => (q < d <=> q < c)
      OBVIOUS
    <3> QED BY <1>2, <1>3, <3>1, <3>2, Zenon
  <2> QED BY <1>1, <1>2, <1>4, <1>7, <2>1, ReachedIs
<1> QED BY <1>1, <1>5, <1>6, <1>7, IdleKeeps

LEMMA AppliedKeeps ==
  ASSUME IInv, Applied
  PROVE  IInv'
<1>1. /\ phase = "map" /\ calls = <<>> /\ next > Len(Plan) /\ cursor >= LastPage(Arena)
      /\ phase' = (IF pass = 1 THEN "check" ELSE "done") /\ pass' = 2
      /\ UNCHANGED <<board, walk, tree>> /\ UNCHANGED <<board, next, cursor, template, used, calls>>
  BY DEF Applied, Filling, walk, tree
<1>2. /\ board \in Boards /\ (pass = 1 \/ pass = 2) /\ next \in Nat /\ cursor \in Nat
      /\ pass = 1 => Arena = board.memory /\ Plan = board.plan
      /\ pass = 2 => Arena = Devices
      /\ LastPage(Arena) \in Nat
  <2>1. pass \in 1 .. 2 => pass = 1 \/ pass = 2
    OBVIOUS
  <2> QED BY <2>1, ArenaIs
<1>3. Len(board.plan) \in Nat
  BY <1>2, BoardIs
<1>4. Stages'
  <2>1. Devices' = Devices
    BY <1>1 DEF Devices
  <2> QED BY <1>1, <1>2, <2>1 DEF IInv, Stages
<1>5. RefusesForCause'
  BY <1>1 DEF RefusesForCause
<1>6. ASSUME NEW s \in Sources, NEW x \in Addresses, Owns(s, x)
      PROVE  Reached(s, x)' <=> Reached(s, x)
  <2>1. CASE pass = 1
    <3>1. \A i \in Nat : i <= Len(board.plan) => i < next
      BY <1>1, <1>2, <1>3, <2>1
    <3>2. \A p \in Nat : p < LastPage(board.memory) => p < cursor
      BY <1>1, <1>2, <2>1
    <3>3. phase' = "check" /\ pass' = 2 /\ 1 # 2
      BY <1>1, <2>1
    <3> QED BY <1>1, <1>2, <1>6, <2>1, <3>1, <3>2, <3>3, ReachedIs
  <2>2. CASE pass = 2
    <3>1. phase' = "done" /\ pass' = 2 /\ cursor' = cursor /\ phase # "check"
      BY <1>1, <2>2
    <3> QED BY <1>1, <1>2, <1>6, <2>2, <3>1, ReachedIs
  <2> QED BY <1>2, <2>1, <2>2
<1> QED BY <1>1, <1>4, <1>5, <1>6, IdleKeeps

LEMMA RootPut ==
  ASSUME IInv, NewRoot
  PROVE  /\ used = 0 /\ used' = Root
         /\ Tree(slots', used')
         /\ \A l \in Levels, va \in Addresses :
               /\ Table(slots', used', l, va) = IF l = 1 THEN Root ELSE NoWhere
               /\ ~IsLeaf(slots, used, l, va) /\ ~IsLeaf(slots', used', l, va)
<1> DEFINE new == slots'
<1>1. /\ phase = "new" /\ used < MaxTables /\ used' = Root
      /\ new = [slots EXCEPT ![Root] = [i \in 0 .. SlotCount - 1 |-> Zero]]
  BY DEF NewRoot, NewTable
<1>2. used = 0 /\ slots \in TableSlots
  BY <1>1 DEF IInv, Stages, Tree
<1>3. MaxTables >= 1 /\ Root \in 1 .. MaxTables
  BY <1>1, <1>2, SizesAre DEF Root
<1>4. new \in TableSlots /\ \A i \in 0 .. SlotCount - 1 : new[Root][i] = Zero
  <2>1. Zero \in Descriptors
    BY DEF Zero, Descriptor, Descriptors, Attributes
  <2> HIDE DEF new
  <2> QED BY <1>1, <1>2, <1>3, <2>1 DEF TableSlots
<1> HIDE DEF new
<1>5. /\ Tree(new, Root)
      /\ \A l \in Levels, va \in Addresses :
            /\ Table(new, Root, l, va) = IF l = 1 THEN Root ELSE NoWhere
            /\ ~IsLeaf(new, Root, l, va)
  BY <1>3, <1>4, PutRoot
<1>6. \A l \in Levels, va \in Addresses : ~IsLeaf(slots, used, l, va)
  BY <1>2, NoTree
<1> QED BY <1>1, <1>2, <1>5, <1>6 DEF new

LEMMA NewRootKeeps ==
  ASSUME IInv, NewRoot
  PROVE  IInv'
<1>1. /\ phase = "new" /\ phase' = "check" /\ used' = Root /\ Root = 1
      /\ UNCHANGED <<board, loops, walk>> /\ UNCHANGED <<board, pass, next, cursor, calls, template>>
  BY DEF NewRoot, loops, walk, Root
<1>2. board \in Boards /\ calls = <<>> /\ pass = 1 /\ next = 1 /\ cursor = 0
  BY <1>1 DEF IInv, Stages
<1>3. /\ Tree(slots', used')
      /\ \A l \in Levels, va \in Addresses :
            /\ Table(slots', used', l, va) = IF l = 1 THEN Root ELSE NoWhere
            /\ ~IsLeaf(slots', used', l, va)
  BY RootPut
<1>4. Stages'
  BY <1>1, <1>2 DEF IInv, Stages
<1>5. Tree(slots, used)'
  BY <1>3
<1>6. calls' = <<>> /\ Len(calls') = 0
  BY <1>1, <1>2
<1>7. ~\E k \in 1 .. 0 : TRUE
  OBVIOUS
<1>8. CallsOK'
  <2>1. <<>> \in Seq([table : 1 .. used', addr : Nat, end : Nat, level : Levels])
    BY EmptySeq
  <2> QED BY <1>6, <1>7, <2>1 DEF CallsOK
<1>9. Current' /\ CallsAligned'
  BY <1>6, <1>7 DEF Current, CallsAligned
<1>10. LeavesAsked'
  BY <1>3 DEF LeavesAsked
<1>11. \A s \in Sources, x \in Addresses : ~Asked(s, x)'
  <2> SUFFICES ASSUME NEW s \in Sources, NEW x \in Addresses, Owns(s, x)', Reached(s, x)'
               PROVE  FALSE
    BY DEF Asked
  <2>1. Owns(s, x)
    BY <1>1, OwnsSame
  <2>2. pass' = 1 /\ next' = 1 /\ cursor' = 0
    BY <1>1, <1>2
  <2>3. \A p \in Nat : ~(p < 0)
    OBVIOUS
  <2> QED BY <1>1, <1>2, <2>1, <2>2, <2>3, ReachedIs
<1>12. AskedMapped'
  <2>1. Sources' = Sources
    BY <1>1, OwnsSame
  <2> QED BY <1>11, <2>1 DEF AskedMapped
<1>13. TablesUsed'
  <2>1. \A l \in 2 .. 3 : l \in Levels /\ l # 1
    BY DEF Levels
  <2>2. \A l \in 2 .. 3, va \in Addresses : Table(slots', used', l, va) = NoWhere
    BY <1>3, <2>1
  <2> QED BY <2>2 DEF TablesUsed
<1>14. RefusesForCause'
  BY <1>1 DEF RefusesForCause
<1> QED BY <1>4, <1>5, <1>8, <1>9, <1>10, <1>12, <1>13, <1>14 DEF IInv

LEMMA FailKeeps ==
  ASSUME IInv, Turn, phase' \in {"in the way", "unaligned", "out of memory"},
         UNCHANGED <<board, loops, walk, tree>>, RefusesForCause'
  PROVE  IInv'
<1>1. /\ phase = "map" /\ calls # <<>> /\ phase' # "check" /\ phase # "check"
      /\ UNCHANGED <<board, pass, next, cursor, calls, template, slots, used>>
  BY DEF Turn, loops, walk, tree
<1>2. board \in Boards
  BY DEF IInv, Stages
<1>3. Stages'
  <2>1. /\ phase' \in Failures /\ phase' # "new" /\ phase' # "no table" /\ phase' # "check"
        /\ phase' # "done" /\ phase' # "map"
    BY DEF Failures
  <2>2. Devices' = Devices
    BY <1>1 DEF Devices
  <2> QED BY <1>1, <2>1, <2>2 DEF IInv, Stages
<1>4. Here' = Here
  BY <1>1 DEF Here
<1>5. Tree(slots, used)' /\ CallsOK' /\ TablesUsed' /\ CallsAligned'
  <2>1. Tree(slots, used)'
    BY <1>1 DEF IInv, Tree
  <2>2. CallsOK'
    BY <1>1 DEF IInv, CallsOK, CallOK
  <2>3. TablesUsed'
    BY <1>1, <1>4 DEF IInv, TablesUsed, Mapped
  <2>4. CallsAligned'
    BY <1>1 DEF IInv, CallsAligned, EdgesAligned
  <2> QED BY <2>1, <2>2, <2>3, <2>4
<1>6. \A s \in Sources, x \in Addresses :
         /\ Owns(s, x)' <=> Owns(s, x)
         /\ Reached(s, x)' <=> Reached(s, x)
         /\ Open(x)' <=> Open(x)
  <2>1. \A x : Open(x)' <=> Open(x)
    BY <1>1, <1>4 DEF Open
  <2>2. \A s \in Sources, x \in Addresses : Reached(s, x)' <=> Reached(s, x)
    BY <1>1, <1>2, ReachedIs
  <2> QED BY <1>1, <2>1, <2>2, OwnsSame
<1>7. \A s \in Sources, x \in Addresses : Asked(s, x)' <=> Asked(s, x)
  BY <1>1, <1>6 DEF Asked
<1>8. LeavesAsked' /\ AskedMapped'
  BY <1>1, <1>7, AskedKept DEF IInv
<1>9. Current'
  BY <1>1, <1>6, OwnsSame DEF IInv, Current
<1> QED BY <1>3, <1>5, <1>8, <1>9 DEF IInv

LEMMA StartKeeps ==
  ASSUME IInv, phase = "map", calls = <<>>, UNCHANGED <<board, phase, pass, tree>>, Stages',
         NEW base \in Nat, NEW end \in Nat, base <= end, end <= Limit,
         calls' = <<Call(Root, base, end, 1)>>, template' # None,
         NEW s \in Sources, template' = Owner(s), s = DeviceFill <=> pass = 2,
         \A x \in Addresses : base <= x /\ x < end => Owns(s, x) /\ Reached(s, x)' /\ ~Reached(s, x),
         \A t \in Sources, x \in Addresses :
            Owns(t, x) => (Reached(t, x)' <=> Reached(t, x)) \/ (t = s /\ base <= x /\ x < end),
         EdgesAligned => base % PageSize = 0 /\ end % PageSize = 0,
         pass = 2 /\ board.memory.base % Size(1) = 0 => base % Size(1) = 0 /\ end % Size(1) = 0
  PROVE  IInv'
<1>1. /\ UNCHANGED <<board, phase, pass, slots, used>>
      /\ board \in Boards /\ pass \in 1 .. 2 /\ ~Overlaps(board.plan) /\ used # 0 /\ used \in 0 .. MaxTables
  BY DEF IInv, Stages, Tree, tree
<1>2. Len(calls') = 1 /\ Here' = Call(Root, base, end, 1) /\ calls'[1] = Call(Root, base, end, 1) /\ calls' # <<>>
  BY DEF Here
<1>3. Call(Root, base, end, 1) = [table |-> Root, addr |-> base, end |-> end, level |-> 1]
  BY DEF Call
<1>4. \A k \in 1 .. 1 : k = 1
  OBVIOUS
<1>5. CallsOK'
  <2>1. used >= 1 /\ Root \in 1 .. used /\ Root # NoWhere
    BY <1>1, SizesAre DEF Root, NoWhere
  <2>2. calls' \in Seq([table : 1 .. used', addr : Nat, end : Nat, level : Levels])
    <3>1. Call(Root, base, end, 1) \in [table : 1 .. used', addr : Nat, end : Nat, level : Levels]
      BY <1>1, <1>3, <2>1 DEF Levels
    <3> QED BY <3>1
  <2>3. \A va : Table(slots', used', 1, va) = Root
    BY <1>1, TableStep DEF First
  <2>4. \A va, vb : Together(1 - 1, va, vb)
    BY DEF Together
  <2>5. CallOK(1)'
    BY <1>2, <1>3, <2>3, <2>4 DEF CallOK
  <2> QED BY <1>2, <1>4, <2>2, <2>5 DEF CallsOK
<1>6. \A x : ~Open(x) /\ (Open(x)' <=> base <= x /\ x < end)
  BY <1>2, <1>3 DEF Open
<1>7. Sources' = Sources /\ \A t \in Sources : Owner(t)' = Owner(t)
  BY <1>1, OwnsSame
<1>8. \A t \in Sources, x \in Addresses : Owns(t, x)' <=> Owns(t, x)
  BY <1>1, OwnsSame
<1>9. Current'
  BY <1>1, <1>2, <1>6, <1>7, <1>8 DEF Current
<1>10. \A t \in Sources, x \in Addresses : Asked(t, x)' <=> Asked(t, x)
  <2> SUFFICES ASSUME NEW t \in Sources, NEW x \in Addresses, Owns(t, x)
               PROVE  Asked(t, x)' <=> Asked(t, x)
    BY <1>8 DEF Asked
  <2>1. Asked(t, x) <=> Reached(t, x)
    BY <1>6 DEF Asked
  <2>2. Asked(t, x)' <=> Reached(t, x)' /\ ((pass = 1 \/ t = DeviceFill) => ~(base <= x /\ x < end))
    BY <1>1, <1>6, <1>8 DEF Asked
  <2>3. CASE ~(base <= x /\ x < end)
    BY <2>1, <2>2, <2>3
  <2>4. CASE base <= x /\ x < end
    <3>1. Owns(s, x) /\ ~Reached(s, x)
      BY <2>4
    <3>2. CASE t = s
      <4>1. pass = 1 \/ s = DeviceFill
        BY <1>1
      <4> QED BY <2>1, <2>2, <2>4, <3>1, <3>2, <4>1
    <3>3. CASE t # s
      <4>1. Reached(t, x)' <=> Reached(t, x)
        BY <3>3
      <4>2. CASE pass = 2
        <5>1. t # DeviceFill /\ pass # 1
          BY <3>3, <4>2
        <5> QED BY <2>1, <2>2, <4>1, <5>1
      <4>3. CASE pass # 2
        <5>1. t = DeviceFill
          <6>1. s # DeviceFill
            BY <4>3
          <6> QED BY <1>1, <3>1, <3>3, <6>1, OwnedOnce
        <5>2. ~Reached(t, x)
          BY <1>1, <4>3, <5>1, ReachedIs
        <5> QED BY <2>1, <2>2, <4>1, <5>2
      <4> QED BY <4>2, <4>3
    <3> QED BY <3>2, <3>3
  <2> QED BY <2>3, <2>4
<1>11. LeavesAsked' /\ AskedMapped'
  BY <1>1, <1>10, AskedKept DEF IInv
<1>12. TablesUsed'
  <2>1. \A l \in 2 .. 3 : ~(l <= Len(calls))
    OBVIOUS
  <2> QED BY <1>1, <2>1 DEF IInv, TablesUsed, Mapped
<1>13. CallsAligned'
  <2>1. EdgesAligned' <=> EdgesAligned
    BY <1>1, OwnsSame
  <2> QED BY <1>1, <1>2, <1>3, <1>4, <2>1 DEF CallsAligned
<1>14. Tree(slots, used)'
  BY <1>1 DEF IInv, Tree
<1>15. RefusesForCause'
  BY <1>1 DEF RefusesForCause
<1> QED BY <1>5, <1>9, <1>11, <1>12, <1>13, <1>14, <1>15 DEF IInv

LEMMA MapPlannedKeeps ==
  ASSUME IInv, MapPlanned
  PROVE  IInv'
<1>1. PICK s : s = next
  OBVIOUS
<1>2. PICK base : base = Plan[s].region.base
  OBVIOUS
<1>3. PICK end : end = End(Plan[s].region)
  OBVIOUS
<1>4. /\ phase = "map" /\ calls = <<>> /\ s <= Len(Plan) /\ Plan[s].template # None
      /\ calls' = <<Call(Root, base, end, 1)>> /\ template' = Plan[s].template /\ next' = s + 1
      /\ UNCHANGED <<board, phase, pass, tree>> /\ UNCHANGED <<board, phase, pass, cursor, used>>
  BY <1>1, <1>2, <1>3 DEF MapPlanned, IdentityMap, tree
<1>5. board \in Boards /\ pass = 1 /\ Plan = board.plan /\ s \in Nat /\ s >= 1
  <2>1. /\ board \in Boards /\ pass \in 1 .. 2 /\ s \in Nat /\ s >= 1
        /\ pass = 1 => Plan = board.plan
        /\ pass = 2 => Len(Plan) = 0
    BY <1>1, ArenaIs
  <2>2. pass # 2
    BY <1>4, <2>1
  <2> QED BY <2>1, <2>2
<1>6. s \in DOMAIN board.plan /\ Len(board.plan) \in Nat /\ s # MemoryFill /\ s # DeviceFill /\ s \in Sources
  <2>1. DOMAIN board.plan = 1 .. Len(board.plan) /\ Len(board.plan) \in Nat
    BY <1>5, BoardIs
  <2>2. s \in 1 .. Len(board.plan)
    BY <1>4, <1>5, <2>1
  <2> QED BY <2>1, <2>2 DEF MemoryFill, DeviceFill, Sources
<1>7. base = board.plan[s].region.base /\ end = End(board.plan[s].region)
  BY <1>2, <1>3, <1>5
<1>8. /\ base \in Nat /\ end \in Nat /\ base <= end /\ end <= Limit
      /\ board.plan[s].template \in Attributes
  BY <1>5, <1>6, <1>7, BoardIs
<1>9. template' = Owner(s) /\ template' # None /\ template' \in Attributes
  BY <1>4, <1>5, <1>6, <1>8 DEF Owner
<1>10. Stages'
  <2>1. next' \in 1 .. Len(board.plan) + 1
    BY <1>4, <1>5, <1>6
  <2> QED BY <1>4, <1>5, <1>9, <2>1 DEF IInv, Stages, Arena
<1>11. ASSUME NEW x \in Addresses
       PROVE  Owns(s, x) <=> base <= x /\ x < end
  BY <1>4, <1>5, <1>6, <1>7 DEF Owns, InRegion
<1>12. \A i \in Nat : i < s + 1 <=> i < s \/ i = s
  BY <1>5
<1>13. ASSUME NEW x \in Addresses, base <= x, x < end
       PROVE  Owns(s, x) /\ Reached(s, x)' /\ ~Reached(s, x)
  <2>1. ~(s < next) /\ s < next'
    BY <1>1, <1>4, <1>5
  <2>2. (Reached(s, x) <=> pass = 2 \/ s < next) /\ (Reached(s, x)' <=> pass' = 2 \/ s < next')
    BY <1>4, <1>5, <1>6, ReachedIs
  <2>3. pass # 2
    BY <1>5
  <2> QED BY <1>11, <1>13, <2>1, <2>2, <2>3
<1>14. ASSUME NEW t \in Sources, NEW x \in Addresses, Owns(t, x)
       PROVE  (Reached(t, x)' <=> Reached(t, x)) \/ (t = s /\ base <= x /\ x < end)
  BY <1>1, <1>4, <1>5, <1>11, <1>12, <1>14, ReachedIs
<1>15. EdgesAligned => base % PageSize = 0 /\ end % PageSize = 0
  BY <1>6, <1>7 DEF EdgesAligned
<1>16. (s = DeviceFill <=> pass = 2) /\ pass # 2
  BY <1>5, <1>6
<1> QED BY <1>4, <1>6, <1>8, <1>9, <1>10, <1>13, <1>14, <1>15, <1>16, StartKeeps

\* A multiple of a size is a multiple of the page size.
LEMMA SizeMultiple ==
  ASSUME NEW l \in Levels, NEW a \in Nat, a % Size(l) = 0
  PROVE  a % PageSize = 0 /\ PageDown(a) * PageSize = a
<1> DEFINE s == Size(l)
<1>1. s \in Nat /\ s >= 1 /\ PageSize \in Nat /\ PageSize >= 1
  BY SizesAre
<1>2. a % s = 0 /\ a \in Int
  OBVIOUS
<1>3. PICK c \in Int : a = s * c
  <2> HIDE DEF s
  <2> QED BY <1>2, <1>1, QuotientIs
<1>4. PICK m \in Nat : s = m * PageSize
  BY SizesDivide
<1> HIDE DEF s
<1>5. a = PageSize * (m * c) /\ m * c \in Int
  BY <1>1, <1>4, <1>3
<1>6. a % PageSize = 0
  BY <1>1, <1>5, MultipleIs
<1> DEFINE d == a \div PageSize
           y == d * PageSize
<1>7. d \in Nat /\ y \in Nat /\ a % PageSize = a - y
  BY <1>1, QuotientBounds
<1>8. PageDown(a) = d
  BY DEF PageDown
<1> HIDE DEF d, y
<1>9. a = y
  BY <1>6, <1>7
<1> QED BY <1>6, <1>8, <1>9 DEF y

LEMMA MapGapKeeps ==
  ASSUME IInv, MapGap
  PROVE  IInv'
<1>1. PICK c : c = cursor
  OBVIOUS
<1>2. PICK gap : gap = GapAt(Arena, Taken, c)
  OBVIOUS
<1>3. PICK s : s = IF pass = 1 THEN MemoryFill ELSE DeviceFill
  OBVIOUS
<1> DEFINE e == gap.end
           base == c * PageSize
           end == e * PageSize
<1>4. /\ phase = "map" /\ calls = <<>> /\ next > Len(Plan)
      /\ Containing(Arena, Taken, c) = {} /\ c < LastPage(Arena)
      /\ template' = Fill /\ cursor' = e
      /\ calls' = <<Call(Root, Region(gap.start * PageSize, end).base, End(Region(gap.start * PageSize, end)), 1)>>
      /\ UNCHANGED <<board, phase, pass, tree>> /\ UNCHANGED <<board, phase, pass, next, used>>
  BY <1>1, <1>2 DEF MapGap, Filling, IdentityMap, tree
<1>5. /\ board \in Boards /\ (pass = 1 \/ pass = 2) /\ c \in Nat
      /\ pass = 1 => Arena = board.memory /\ Plan = board.plan /\ Fill = Normal
      /\ pass = 2 => Arena = Devices /\ Taken = {} /\ Fill = Device
      /\ Arena \in Regions /\ Taken \in SUBSET Regions
      /\ FirstPage(Arena) \in Nat /\ LastPage(Arena) \in Nat /\ LastPage(Arena) * PageSize <= Limit
  <2>1. pass \in 1 .. 2 => pass = 1 \/ pass = 2
    OBVIOUS
  <2> QED BY <1>1, <2>1, ArenaIs
<1>6. FirstPage(Arena) <= c
  BY <1>1, <1>4 DEF IInv, Stages
<1>7. /\ gap.start = c /\ e \in Nat /\ c < e /\ e <= LastPage(Arena)
      /\ \A p \in c .. e - 1, r \in Taken : ~Touches(r, p)
      /\ Taken = {} => e = LastPage(Arena)
  BY <1>2, <1>4, <1>5, <1>6, GapIs
<1> HIDE DEF e
<1>8. /\ base \in Nat /\ end \in Nat /\ base <= end /\ end <= Limit
      /\ base % PageSize = 0 /\ end % PageSize = 0
  <2> DEFINE l == LastPage(Arena)
             y == l * PageSize
  <2>1. l \in Nat /\ e <= l /\ y <= Limit /\ PageSize \in Nat /\ PageSize >= 1 /\ Limit \in Nat
    BY <1>5, <1>7, SizesAre
  <2> HIDE DEF l
  <2>2. base \in Nat /\ end \in Nat /\ base <= end /\ end <= y /\ y \in Nat
    BY <1>5, <1>7, <2>1, ProductsOrder
  <2>3. base = PageSize * c /\ end = PageSize * e
    BY <1>5, <1>7, <2>1
  <2>4. base % PageSize = 0 /\ end % PageSize = 0
    <3> HIDE DEF base, end, y
    <3>1. base \in Int /\ end \in Int /\ c \in Int /\ e \in Int /\ PageSize \in Nat /\ PageSize >= 1
      BY <1>5, <1>7, <2>1, <2>2
    <3>2. base % PageSize = 0
      BY <2>3, <3>1, MultipleIs
    <3>3. end % PageSize = 0
      BY <2>3, <3>1, MultipleIs
    <3> QED BY <3>2, <3>3
  <2> HIDE DEF base, end, y
  <2> QED BY <2>1, <2>2, <2>4
<1>9. calls' = <<Call(Root, base, end, 1)>>
  <2>1. gap.start * PageSize = base
    BY <1>7
  <2> HIDE DEF base, end
  <2>2. Region(base, end).base = base /\ End(Region(base, end)) = base + (end - base)
    BY DEF Region, End
  <2>3. base + (end - base) = end
    BY <1>8
  <2> QED BY <1>4, <2>1, <2>2, <2>3
<1>10. ASSUME NEW x \in Addresses
       PROVE  PageDown(x) \in Nat /\ (base <= x /\ x < end <=> c <= PageDown(x) /\ PageDown(x) < e)
  <2>1. x \in Nat
    BY SizesAre DEF Addresses
  <2>2. PageDown(x) \in Nat /\ (c <= PageDown(x) <=> base <= x) /\ (e <= PageDown(x) <=> end <= x)
    BY <1>5, <1>7, <2>1, PageIs
  <2> HIDE DEF base, end
  <2> QED BY <1>7, <1>8, <2>1, <2>2
<1>11. /\ s \in Sources /\ (s = DeviceFill <=> pass = 2) /\ template' = Owner(s) /\ template' # None
       /\ template' \in Attributes
  <2>1. Len(board.plan) \in Nat
    BY <1>5, BoardIs
  <2>2. MemoryFill # DeviceFill /\ MemoryFill \in Sources /\ DeviceFill \in Sources
    BY <2>1 DEF MemoryFill, DeviceFill, Sources
  <2>3. Normal # None /\ Device # None
    BY DEF Normal, Device, None
  <2> QED BY <1>3, <1>4, <1>5, <2>2, <2>3 DEF Owner, Attributes
<1>12. Stages'
  <2>1. FirstPage(Arena) <= e /\ Arena' = Arena /\ Devices' = Devices
    BY <1>4, <1>5, <1>6, <1>7 DEF Arena, Devices
  <2>2. pass = 2 => e = LastPage(Devices)
    BY <1>5, <1>7
  <2> QED BY <1>4, <1>7, <1>11, <2>1, <2>2 DEF IInv, Stages
<1> HIDE DEF base, end
<1>13. ASSUME NEW x \in Addresses, base <= x, x < end
       PROVE  Owns(s, x) /\ Reached(s, x)' /\ ~Reached(s, x)
  <2> DEFINE p == PageDown(x)
  <2>1. p \in Nat /\ c <= p /\ p < e /\ p \in c .. e - 1
    BY <1>5, <1>7, <1>10, <1>13
  <2>2. FirstPage(Arena) <= p /\ p < LastPage(Arena)
    <3> HIDE DEF p
    <3> QED BY <1>5, <1>6, <1>7, <2>1
  <2>3. pass = 1 => Unclaimed(p)
    <3> SUFFICES ASSUME pass = 1, NEW i \in DOMAIN board.plan PROVE ~Touches(board.plan[i].region, p)
      BY DEF Unclaimed
    <3>1. board.plan[i].region \in Taken
      BY <1>5 DEF Taken
    <3> QED BY <1>7, <2>1, <3>1
  <2>4. Owns(s, x)
    BY <1>3, <1>5, <2>2, <2>3 DEF Owns
  <2>5. ~(p < c)
    <3> HIDE DEF p
    <3> QED BY <1>5, <2>1
  <2>6. c = cursor /\ cursor' = e /\ phase' # "check" /\ pass' = pass
    BY <1>1, <1>4
  <2>7. Reached(s, x)' /\ ~Reached(s, x)
    BY <1>3, <1>4, <1>5, <1>11, <2>1, <2>5, <2>6, ReachedIs
  <2> QED BY <2>4, <2>7
<1>14. ASSUME NEW t \in Sources, NEW x \in Addresses, Owns(t, x)
       PROVE  (Reached(t, x)' <=> Reached(t, x)) \/ (t = s /\ base <= x /\ x < end)
  <2>1. cursor \in Nat /\ cursor < e /\ c = cursor /\ e \in Nat
    BY <1>1, <1>5, <1>7
  <2>2. \A p \in Nat : p < e <=> p < cursor \/ (cursor <= p /\ p < e)
    BY <2>1
  <2> QED BY <1>3, <1>4, <1>5, <1>10, <1>14, <2>1, <2>2, ReachedIs
<1>15. pass = 2 /\ board.memory.base % Size(1) = 0 => base % Size(1) = 0 /\ end % Size(1) = 0
  <2> SUFFICES ASSUME pass = 2, board.memory.base % Size(1) = 0
               PROVE  base % Size(1) = 0 /\ end % Size(1) = 0
    OBVIOUS
  <2>1. e = LastPage(Devices) /\ c = 0
    <3>1. e = LastPage(Devices) /\ c \in {0, LastPage(Devices)} /\ c < LastPage(Devices) /\ LastPage(Devices) \in Nat
      BY <1>1, <1>4, <1>5, <1>7 DEF IInv, Stages
    <3> QED BY <3>1
  <2>2. board.memory.base \in Nat /\ LastPage(Devices) = PageDown(board.memory.base)
    BY <1>5, BoardIs DEF LastPage
  <2>3. end = board.memory.base
    BY <2>1, <2>2, SizeMultiple DEF Levels, end
  <2>4. base = 0 /\ Size(1) \in Nat /\ Size(1) >= 1
    BY <2>1, SizesAre DEF base, Levels
  <2>5. 0 = Size(1) * 0
    BY <2>4
  <2> QED BY <2>3, <2>4, <2>5, MultipleIs
<1> QED BY <1>4, <1>8, <1>9, <1>11, <1>12, <1>13, <1>14, <1>15, StartKeeps

-------------------------------------------------------------------------------
(* The turns of map_range.                                                  *)

\* A call from one multiple of its level's size to another maps leaves only.
LEMMA AlignedFills ==
  ASSUME IInv, Turn, Here.addr % Size(Here.level) = 0, Here.end % Size(Here.level) = 0
  PROVE  Fills
<1> DEFINE k == Here.level
           a == Here.addr
           e == Here.end
           s == Size(k)
           z == SlotEnd(k, a)
           c == ChunkEnd
<1>1. /\ k \in Levels /\ a \in Nat /\ e \in Nat /\ a < e
      /\ (c = z \/ c = e) /\ c \in Nat /\ c <= z /\ c <= e
  <2>1. calls # <<>>
    BY DEF Turn
  <2> QED BY <2>1, TurnIs, HereIs
<1>2. s \in Nat /\ s >= 1 /\ Start(k, a) \in Nat /\ z = Start(k, a) + s /\ a % s = a - Start(k, a)
  <2>1. k \in Levels /\ a \in Nat
    BY <1>1
  <2> HIDE DEF k, a
  <2> QED BY <2>1, AreaIs, SizesAre
<1>3. a % s = 0 /\ e % s = 0 /\ (Fills <=> a % s = 0 /\ c = z)
  BY DEF Fills
<1> HIDE DEF k, a, e, s, z, c
<1>4. a + s <= e
  <2>1. \A x, y \in Nat : x % s = 0 /\ y % s = 0 /\ x < y + s => x <= y
    <3>1. s \in Nat /\ s >= 1
      BY <1>2
    <3> SUFFICES ASSUME NEW x \in Nat, NEW y \in Nat, x % s = 0, y % s = 0, x < y + s PROVE x <= y
      OBVIOUS
    <3>2. x \in Int /\ y \in Int
      OBVIOUS
    <3> QED BY <3>1, <3>2, MultiplesApart
  <2>2. e < a + s => e <= a
    BY <1>1, <1>3, <2>1
  <2> QED BY <1>1, <1>2, <2>2
<1>5. c = z
  BY <1>1, <1>2, <1>3, <1>4
<1> QED BY <1>3, <1>5

LEMMA ChunkAligned ==
  ASSUME IInv, Turn, EdgesAligned
  PROVE  Here.addr % PageSize = 0 /\ Here.end % PageSize = 0 /\ ChunkEnd % PageSize = 0
<1>1. calls # <<>>
  BY DEF Turn
<1>2. Len(calls) \in 1 .. Len(calls)
  BY <1>1, HereIs
<1>3. Here.addr % PageSize = 0 /\ Here.end % PageSize = 0
  BY <1>2 DEF IInv, CallsAligned, Here
<1>4. ChunkEnd = SlotEnd(Here.level, Here.addr) \/ ChunkEnd = Here.end
  BY TurnIs
<1>5. SlotEnd(Here.level, Here.addr) % PageSize = 0
  BY TurnIs, EndAligned
<1> QED BY <1>3, <1>4, <1>5

LEMMA InTheWayKeeps ==
  ASSUME IInv, InTheWay
  PROVE  IInv'
<1> DEFINE k == Here.level
           a == Here.addr
<1>1. /\ Turn /\ k < 3 /\ Slot.kind = (IF Fills THEN "table" ELSE "block")
      /\ phase' = "in the way" /\ UNCHANGED <<board, loops, walk, tree>>
  BY DEF InTheWay, Fail
<1>2. /\ calls # <<>> /\ k \in Levels /\ k \in Nat /\ a \in Addresses /\ k = Len(calls)
      /\ Table(slots, used, k, a) # NoWhere /\ Slot = SlotAt(slots, used, k, a)
      /\ a < ChunkEnd /\ a \in Nat /\ ChunkEnd \in Nat
      /\ \A y \in Addresses : a <= y /\ y < ChunkEnd => Open(y)
      /\ Fills => \A x \in Addresses : Together(k, a, x) => a <= x /\ x < ChunkEnd
  <2>1. calls # <<>>
    BY <1>1 DEF Turn
  <2> QED BY <1>1, <2>1, TurnIs, HereIs
<1>3. \E x \in Addresses : Open(x) /\ Mapped(x)
  <2>1. CASE Fills
    <3>1. Slot.kind = "table" /\ k \in 1 .. 2 /\ k + 1 \in 2 .. 3 /\ k + 1 \in Levels /\ k + 1 - 1 = k
      <4>1. Slot.kind = "table" /\ k < 3 /\ k \in Levels
        BY <1>1, <1>2, <2>1
      <4>2. \A m \in Levels : m < 3 => m \in 1 .. 2 /\ m + 1 \in 2 .. 3 /\ m + 1 \in Levels /\ m + 1 - 1 = m
        BY DEF Levels
      <4> QED BY <4>1, <4>2, Zenon
    <3>2. Slot.address \in 1 .. used
      BY <1>2, <3>1 DEF IInv, Tree
    <3>3. Table(slots, used, k + 1, a) = Down(slots, Table(slots, used, k, a), k, a)
      BY <3>1, TableStep
    <3>4. Table(slots, used, k + 1, a) = Slot.address
      BY <1>2, <3>1, <3>3 DEF Down, SlotAt
    <3>5. used \in Nat
      BY <1>2, TreeIs DEF IInv
    <3>6. Table(slots, used, k + 1, a) # NoWhere
      BY <3>2, <3>4, <3>5 DEF NoWhere
    <3>7. ~(k + 1 <= Len(calls))
      <4> HIDE DEF k
      <4> QED BY <1>2
    <3>8. PICK x \in Addresses : Together(k, a, x) /\ Mapped(x)
      BY <1>2, <3>1, <3>6, <3>7 DEF IInv, TablesUsed
    <3> QED BY <1>2, <2>1, <3>8
  <2>2. CASE ~Fills
    <3>1. Slot.kind = "block"
      BY <1>1, <2>2
    <3>2. IsLeaf(slots, used, k, a)
      <4>1. k < 3 /\ k \in Levels
        BY <1>1, <1>2
      <4>2. \A m \in Levels : m < 3 => m # 3
        BY DEF Levels
      <4>3. k # 3
        BY <4>1, <4>2, Zenon
      <4> HIDE DEF k, a
      <4> QED BY <1>2, <3>1, <4>3 DEF IsLeaf
    <3> QED BY <1>2, <3>2 DEF Mapped
  <2> QED BY <2>1, <2>2
<1>4. \E s \in DOMAIN board.plan : board.plan[s].template # None /\ board.plan[s].region.base < board.memory.base
  <2>1. PICK x \in Addresses : Open(x) /\ Mapped(x)
    BY <1>3
  <2>2. PICK l \in Levels : IsLeaf(slots, used, l, x)
    BY <2>1 DEF Mapped
  <2>3. PICK s \in Sources : LeafOf(s, l, x)
    BY <2>2 DEF IInv, LeavesAsked
  <2>4. Asked(s, x)
    BY <2>3, TogetherIs DEF LeafOf
  <2> QED BY <1>2, <2>1, <2>4, OpenAsked
<1>5. RefusesForCause'
  <2>1. board' = board
    BY <1>1
  <2> QED BY <1>1, <1>4, <2>1 DEF RefusesForCause
<1> QED BY <1>1, <1>5, FailKeeps

LEMMA UnalignedKeeps ==
  ASSUME IInv, Unaligned
  PROVE  IInv'
<1>1. Turn /\ ~Fills /\ Here.level = 3 /\ phase' = "unaligned" /\ UNCHANGED <<board, loops, walk, tree>>
  BY DEF Unaligned, Fail
<1>2. ~EdgesAligned
  <2> SUFFICES ASSUME EdgesAligned PROVE FALSE
    OBVIOUS
  <2>1. Here.addr % PageSize = 0 /\ Here.end % PageSize = 0
    BY <1>1, ChunkAligned
  <2>2. Size(Here.level) = PageSize
    BY <1>1, SizesAre
  <2> QED BY <1>1, <2>1, <2>2, AlignedFills
<1>3. RefusesForCause'
  BY <1>1, <1>2 DEF RefusesForCause, EdgesAligned
<1> QED BY <1>1, <1>3, FailKeeps

LEMMA OutOfMemoryKeeps ==
  ASSUME IInv, OutOfMemory
  PROVE  IInv'
<1>1. Turn /\ phase' = "out of memory" /\ UNCHANGED <<board, loops, walk, tree>>
  BY DEF OutOfMemory, Fail
<1>2. RefusesForCause'
  BY <1>1 DEF RefusesForCause
<1> QED BY <1>1, <1>2, FailKeeps

\* A turn that changes no leaf, and leaves what is open as it is.
LEMMA CallsKeep ==
  ASSUME IInv, calls # <<>>, phase = "map", UNCHANGED <<board, phase, loops, template>>, used' # 0,
         Tree(slots, used)',
         \A l \in Levels, va \in Addresses :
            /\ IsLeaf(slots, used, l, va)' <=> IsLeaf(slots, used, l, va)
            /\ IsLeaf(slots, used, l, va) => SlotAt(slots, used, l, va)' = SlotAt(slots, used, l, va),
         CallsOK', TablesUsed', CallsAligned',
         \A x \in Addresses : Open(x)' <=> Open(x)
  PROVE  IInv'
<1>1. UNCHANGED <<board, phase, pass, next, cursor, template>>
  BY DEF loops
<1>2. board \in Boards /\ used # 0
  BY DEF IInv, Stages
<1>3. Stages'
  <2>1. Devices' = Devices /\ Arena' = Arena
    BY <1>1 DEF Devices, Arena
  <2> QED BY <1>1, <1>2, <2>1 DEF IInv, Stages
<1>4. \A s \in Sources, x \in Addresses :
         (Owns(s, x)' <=> Owns(s, x)) /\ (Reached(s, x)' <=> Reached(s, x))
  BY <1>1, <1>2, ReachedIs
<1>5. \A s \in Sources, x \in Addresses : Asked(s, x)' <=> Asked(s, x)
  BY <1>1, <1>4 DEF Asked
<1>6. LeavesAsked' /\ AskedMapped'
  BY <1>1, <1>5, AskedKept DEF IInv
<1>7. Current'
  <2>1. template # None
    BY DEF IInv, Current
  <2>2. PICK s \in Sources : /\ template = Owner(s)
                             /\ s = DeviceFill <=> pass = 2
                             /\ \A x \in Addresses : Open(x) => Owns(s, x) /\ Reached(s, x)
    BY DEF IInv, Current
  <2>3. Sources' = Sources /\ Owner(s)' = Owner(s)
    BY <1>1, OwnsSame
  <2> QED BY <1>1, <1>4, <2>1, <2>2, <2>3 DEF Current
<1>8. RefusesForCause'
  BY <1>1 DEF RefusesForCause
<1> QED BY <1>3, <1>6, <1>7, <1>8 DEF IInv

LEMMA ReturnKeeps ==
  ASSUME IInv, Return
  PROVE  IInv'
<1> DEFINE C == [table : 1 .. used, addr : Nat, end : Nat, level : Levels]
<1>1. PICK n : n = Len(calls)
  OBVIOUS
<1>2. /\ phase = "map" /\ calls # <<>> /\ Here.addr >= Here.end
      /\ calls' = SubSeq(calls, 1, n - 1)
      /\ UNCHANGED <<board, phase, loops, template, tree>> /\ UNCHANGED <<board, pass, slots, used>>
  BY <1>1 DEF Return, loops, tree
<1>3. /\ n \in 1 .. 3 /\ n \in Nat /\ calls \in Seq(C) /\ \A k \in 1 .. n : calls[k] \in C /\ CallOK(k)
      /\ Here.addr \in Nat /\ Here.end \in Nat /\ Here.addr = Here.end /\ Here.end <= calls[1].end
      /\ Here = calls[n] /\ calls[1].end \in Nat /\ used # 0
      /\ \A x \in Addresses : x \in Nat /\ (Open(x) <=> Here.addr <= x /\ x < calls[1].end)
  <2>1. \A k \in 1 .. n : CallOK(k)
    BY <1>1 DEF IInv, CallsOK
  <2>2. Here = calls[n]
    BY <1>1 DEF Here
  <2>3. used # 0
    BY <1>2 DEF IInv, Stages
  <2>4. Here.addr \in Nat /\ Here.end \in Nat /\ Here.addr <= Here.end
    BY <1>2, HereIs
  <2>5. Here.addr = Here.end
    BY <1>2, <2>4
  <2> HIDE DEF C
  <2> QED BY <1>1, <1>2, <2>1, <2>2, <2>3, <2>5, HereIs DEF C
<1>4. calls' \in Seq(C) /\ Len(calls') = n - 1 /\ \A k \in 1 .. n - 1 : calls'[k] = calls[k]
  <2> HIDE DEF C
  <2>1. \A k \in 1 .. n - 1 : calls[k] \in C
    BY <1>3
  <2>2. /\ SubSeq(calls, 1, n - 1) \in Seq(C)
        /\ Len(SubSeq(calls, 1, n - 1)) = IF 1 <= n - 1 THEN n - 1 - 1 + 1 ELSE 0
        /\ \A i \in 1 .. n - 1 - 1 + 1 : SubSeq(calls, 1, n - 1)[i] = calls[1 + i - 1]
    BY <1>3, <2>1, SubSeqProperties
  <2>3. (IF 1 <= n - 1 THEN n - 1 - 1 + 1 ELSE 0) = n - 1 /\ n - 1 - 1 + 1 = n - 1
    BY <1>3
  <2>4. \A i \in 1 .. n - 1 : 1 + i - 1 = i
    OBVIOUS
  <2>5. PICK m : m = n - 1
    OBVIOUS
  <2>6. calls' = SubSeq(calls, 1, m)
    BY <1>2, <2>5
  <2>7. /\ SubSeq(calls, 1, m) \in Seq(C) /\ Len(SubSeq(calls, 1, m)) = m
        /\ \A i \in 1 .. m : SubSeq(calls, 1, m)[i] = calls[i]
    BY <2>2, <2>3, <2>4, <2>5
  <2> QED BY <2>5, <2>6, <2>7
<1>5. \A k \in 1 .. n - 1 : k \in 1 .. n /\ (k > 1 => k - 1 \in 1 .. n - 1)
  BY <1>3
<1>6. CallsOK'
  <2>1. ASSUME NEW k \in 1 .. n - 1
        PROVE  CallOK(k)'
    <3>1. calls'[k] = calls[k] /\ (k > 1 => calls'[k - 1] = calls[k - 1])
      BY <1>4, <1>5
    <3>2. slots' = slots /\ used' = used /\ CallOK(k)
      BY <1>2, <1>3, <1>5
    <3> QED BY <3>1, <3>2 DEF CallOK
  <2>2. n - 1 <= 3
    BY <1>3
  <2> QED BY <1>2, <1>4, <2>1, <2>2 DEF CallsOK
<1>7. TablesUsed'
  <2>1. ~(Here.addr < Here.end)
    BY <1>3
  <2> QED BY <1>2, <2>1 DEF IInv, TablesUsed, Mapped
<1>8. CallsAligned'
  <2>1. EdgesAligned' <=> EdgesAligned
    BY <1>2, OwnsSame
  <2>2. n <= 1 => n - 1 <= 1
    BY <1>3
  <2> QED BY <1>1, <1>2, <1>4, <1>5, <2>1, <2>2 DEF IInv, CallsAligned
<1>9. ASSUME NEW x \in Addresses
      PROVE  Open(x)' <=> Open(x)
  <2>1. CASE n = 1
    <3>1. ~Open(x)
      BY <1>3, <2>1
    <3>2. calls' = <<>>
      <4>1. Len(calls') = 0
        BY <1>4, <2>1
      <4> HIDE DEF C
      <4> QED BY <1>4, <4>1, EmptySeq
    <3> QED BY <3>1, <3>2 DEF Open
  <2>2. CASE n # 1
    <3>1. n - 1 \in 1 .. n - 1 /\ 1 \in 1 .. n - 1 /\ n > 1 /\ n \in 1 .. n
      BY <1>3, <2>2
    <3>2. calls[n - 1].addr = Here.end
      BY <1>3, <3>1 DEF CallOK
    <3>3. Here'.addr = Here.addr /\ calls'[1].end = calls[1].end
      BY <1>3, <1>4, <3>1, <3>2 DEF Here
    <3>4. calls' # <<>>
      BY <1>4, <3>1
    <3> QED BY <1>2, <3>3, <3>4 DEF Open
  <2> QED BY <2>1, <2>2
<1>10. Tree(slots, used)'
  BY <1>2 DEF IInv, Tree
<1> QED BY <1>2, <1>3, <1>6, <1>7, <1>8, <1>9, <1>10, CallsKeep

\* Past the chunk, a call goes on in the same table.
LEMMA RestIs ==
  ASSUME IInv, Turn, ChunkEnd < Here.end
  PROVE  /\ ChunkEnd \in Addresses
         /\ Here.table = Table(slots, used, Here.level, ChunkEnd)
         /\ Together(Here.level - 1, ChunkEnd, Here.end - 1)
<1>1. PICK k, a, e, c : k = Here.level /\ a = Here.addr /\ e = Here.end /\ c = ChunkEnd
  OBVIOUS
<1>2. calls # <<>>
  BY DEF Turn
<1>3. /\ k \in Levels /\ a \in Addresses /\ a \in Nat /\ c \in Nat /\ e \in Nat /\ Limit \in Nat
      /\ a < c /\ c < e /\ e <= Limit
      /\ Here.table = Table(slots, used, k, a)
  <2>1. Here.end <= calls[1].end /\ calls[1].end <= Limit /\ calls[1].end \in Nat /\ Here.end \in Nat /\ Limit \in Nat
    BY <1>2, HereIs
  <2>2. Here.end <= Limit
    BY <2>1
  <2> QED BY <1>1, <2>1, <2>2, TurnIs
<1>4. Together(k - 1, a, e - 1)
  <2>1. CallOK(Len(calls)) /\ Here.level = Len(calls)
    BY <1>2, HereIs
  <2> QED BY <1>1, <1>3, <2>1 DEF CallOK, Here
<1>5. c \in Addresses /\ e - 1 \in Addresses /\ e - 1 \in Nat
  BY <1>3 DEF Addresses
<1>6. Together(k - 1, a, c)
  <2>1. CASE k = 1
    BY <2>1 DEF Together
  <2>2. CASE k # 1
    <3>1. k - 1 \in Levels
      BY <1>3, <2>2, LevelIs DEF Levels
    <3>2. PICK m \in Levels : m = k - 1
      BY <3>1
    <3>3. e - 1 < SlotEnd(m, a)
      BY <1>3, <1>4, <1>5, <3>2, AreaIs
    <3>4. Start(m, a) <= a /\ Start(m, a) \in Nat /\ SlotEnd(m, a) \in Nat
      BY <1>3, AreaIs
    <3>5. Start(m, a) <= c /\ c < SlotEnd(m, a)
      BY <1>3, <3>3, <3>4
    <3> QED BY <1>3, <3>2, <3>5, AreaIs
  <2> QED BY <2>1, <2>2
<1>7. Together(k - 1, c, e - 1)
  BY <1>4, <1>6, TogetherIs
<1>8. Table(slots, used, k, a) = Table(slots, used, k, c)
  BY <1>3, <1>5, <1>6, TableSame
<1> QED BY <1>1, <1>3, <1>5, <1>7, <1>8

LEMMA AtAddrIs ==
  ASSUME IInv, Turn, NEW us \in Nat, used <= us
  PROVE  /\ AtAddr(ChunkEnd) \in Seq([table : 1 .. us, addr : Nat, end : Nat, level : Levels])
         /\ Len(AtAddr(ChunkEnd)) = Here.level /\ Here.level \in Nat
         /\ \A k \in 1 .. Here.level - 1 : AtAddr(ChunkEnd)[k] = calls[k]
         /\ AtAddr(ChunkEnd)[Here.level] = [Here EXCEPT !.addr = ChunkEnd]
<1> DEFINE C == [table : 1 .. us, addr : Nat, end : Nat, level : Levels]
           B == [table : 1 .. used, addr : Nat, end : Nat, level : Levels]
           n == Len(calls)
           d == [Here EXCEPT !.addr = ChunkEnd]
<1>1. calls # <<>>
  BY DEF Turn
<1>2. /\ n \in 1 .. 3 /\ n \in Nat /\ n = Here.level /\ calls \in Seq(B) /\ \A k \in 1 .. n : calls[k] \in B
      /\ ChunkEnd \in Nat /\ used \in Nat
  BY <1>1, HereIs, TurnIs
<1>3. n \in 1 .. n
  BY <1>2
<1>4. Here = calls[n] /\ AtAddr(ChunkEnd) = [calls EXCEPT ![n] = d]
  BY DEF Here, AtAddr
<1>5. \A r \in B : r \in C /\ [r EXCEPT !.addr = ChunkEnd] \in C
  <2>1. \A t \in 1 .. used : t \in 1 .. us
    BY <1>2
  <2> QED BY <1>2, <2>1
<1> HIDE DEF B, C, n
<1>6. d \in C /\ \A k \in 1 .. n : calls[k] \in C
  BY <1>2, <1>3, <1>4, <1>5
<1> HIDE DEF d
<1>7. calls \in Seq(C)
  <2>1. B \subseteq C
    BY <1>5
  <2> QED BY <1>2, <2>1, SeqMonotonic
<1>8. /\ [calls EXCEPT ![n] = d] \in Seq(C)
      /\ Len([calls EXCEPT ![n] = d]) = n
      /\ \A i \in 1 .. n : [calls EXCEPT ![n] = d][i] = IF i = n THEN d ELSE calls[i]
  BY <1>3, <1>6, <1>7, ExceptSeq DEF n
<1>9. \A i \in 1 .. n - 1 : i \in 1 .. n /\ i # n
  BY <1>2
<1> QED BY <1>2, <1>3, <1>4, <1>8, <1>9 DEF C, d

\* What a turn does to the calls that were there.
LEMMA MovesOn ==
  ASSUME IInv, Turn,
         \A k \in 1 .. Here.level - 1 : calls'[k] = calls[k],
         calls'[Here.level] = [Here EXCEPT !.addr = ChunkEnd],
         \A l \in 1 .. Here.level, va \in Addresses : Table(slots', used', l, va) = Table(slots, used, l, va)
  PROVE  \A k \in 1 .. Here.level :
            /\ CallOK(k)'
            /\ EdgesAligned => calls'[k].addr % PageSize = 0 /\ calls'[k].end % PageSize = 0
            /\ calls'[k].end = calls[k].end
<1>1. PICK n, c : n = Here.level /\ c = ChunkEnd
  OBVIOUS
<1>2. calls # <<>>
  BY DEF Turn
<1>3. /\ n \in 1 .. 3 /\ n \in Nat /\ n = Len(calls) /\ Here = calls[n] /\ CallOK(n) /\ calls[n].level = n
      /\ \A k \in 1 .. n : calls[k] \in [table : 1 .. used, addr : Nat, end : Nat, level : Levels] /\ CallOK(k)
      /\ c \in Nat /\ c <= calls[n].end
  <2>1. Len(calls) \in 1 .. 3 /\ Len(calls) \in Nat /\ Here.level = Len(calls) /\ CallOK(Len(calls))
      /\ \A k \in 1 .. Len(calls) : calls[k] \in [table : 1 .. used, addr : Nat, end : Nat, level : Levels]
    BY <1>2, HereIs
  <2>2. \A k \in 1 .. Len(calls) : CallOK(k)
    BY DEF IInv, CallsOK
  <2>3. Here = calls[Len(calls)]
    BY DEF Here
  <2>4. ChunkEnd \in Nat /\ ChunkEnd <= Here.end
    BY TurnIs
  <2> QED BY <1>1, <2>1, <2>2, <2>3, <2>4
<1>4. calls'[n] = [calls[n] EXCEPT !.addr = c] /\ calls[n] \in [table : 1 .. used, addr : Nat, end : Nat, level : Levels]
  <2>1. n \in 1 .. n
    BY <1>3
  <2> QED BY <1>1, <1>3, <2>1
<1>5. /\ calls'[n].addr = c /\ calls'[n].end = calls[n].end /\ calls'[n].level = n
      /\ calls'[n].table = calls[n].table
  BY <1>3, <1>4
<1>6. \A k \in 1 .. n - 1 : calls'[k] = calls[k] /\ k \in 1 .. n
  BY <1>1, <1>3
<1>7. EdgesAligned => \A k \in 1 .. n : calls[k].addr % PageSize = 0 /\ calls[k].end % PageSize = 0
  BY <1>3 DEF IInv, CallsAligned
<1>8. ASSUME NEW k \in 1 .. n
      PROVE  calls'[k].end = calls[k].end /\ (k > 1 => calls'[k - 1].addr = calls'[k].end)
  <2>1. k \in Nat /\ (k = n \/ k \in 1 .. n - 1) /\ (k > 1 => k - 1 \in 1 .. n - 1)
    <3>1. n \in Nat
      BY <1>3
    <3> QED BY <3>1
  <2>2. calls'[k].end = calls[k].end
    BY <1>5, <1>6, <2>1
  <2>3. k > 1 => calls[k - 1].addr = calls[k].end
    BY <1>3 DEF CallOK
  <2> QED BY <1>6, <2>1, <2>2, <2>3
<1>9. ASSUME NEW k \in 1 .. n - 1
      PROVE  CallOK(k)'
  <2>1. k \in 1 .. n /\ k \in 1 .. Here.level
    BY <1>1, <1>6
  <2>2. calls'[k] = calls[k] /\ CallOK(k) /\ (k > 1 => calls'[k - 1].addr = calls'[k].end)
    BY <1>3, <1>6, <1>8, <2>1
  <2>3. calls[k].addr < calls[k].end => calls[k].addr \in Addresses
    <3>1. calls[k].addr \in Nat /\ calls[k].end \in Nat /\ calls[k].end <= Limit /\ Limit \in Nat
      BY <1>3, <2>1, <2>2, SizesAre DEF CallOK
    <3> QED BY <3>1 DEF Addresses
  <2> QED BY <2>1, <2>2, <2>3 DEF CallOK
<1>10. CallOK(n)'
  <2>1. n \in 1 .. n /\ n \in 1 .. Here.level
    BY <1>1, <1>3
  <2>2. n > 1 => calls'[n - 1].addr = calls'[n].end
    BY <1>8, <2>1
  <2>3. calls[n].end <= Limit
    BY <1>3 DEF CallOK
  <2>4. ASSUME c < calls[n].end
        PROVE  calls[n].table = Table(slots', used', n, c) /\ Together(n - 1, c, calls[n].end - 1)
    <3>1. /\ c \in Addresses /\ calls[n].table = Table(slots, used, n, c)
          /\ Together(n - 1, c, calls[n].end - 1)
      BY <1>1, <1>3, <2>4, RestIs
    <3> QED BY <2>1, <3>1
  <2> QED BY <1>3, <1>5, <2>2, <2>3, <2>4 DEF CallOK
<1>11. EdgesAligned => c % PageSize = 0
  BY <1>1, ChunkAligned
<1> SUFFICES ASSUME NEW k \in 1 .. n
             PROVE  /\ CallOK(k)'
                    /\ EdgesAligned => calls'[k].addr % PageSize = 0 /\ calls'[k].end % PageSize = 0
                    /\ calls'[k].end = calls[k].end
  BY <1>1
<1>12. k = n \/ k \in 1 .. n - 1
  BY <1>3
<1> QED BY <1>5, <1>6, <1>7, <1>8, <1>9, <1>10, <1>11, <1>12

\* The call for part of a slot.
LEMMA EnterKeeps ==
  ASSUME IInv, Turn, ~Fills, Here.level < 3, UNCHANGED <<board, pass>>,
         used' \in Nat, used <= used', NEW t \in 1 .. used', Enter(t),
         t = Table(slots', used', Here.level + 1, Here.addr),
         \A l \in 1 .. Here.level, va \in Addresses : Table(slots', used', l, va) = Table(slots, used, l, va)
  PROVE  /\ calls # <<>> /\ Len(calls) = Here.level /\ Len(calls') = Here.level + 1
         /\ Here'.addr = Here.addr /\ Here'.addr < Here'.end
         /\ CallsOK' /\ CallsAligned'
         /\ \A x \in Addresses : Open(x)' <=> Open(x)
<1> DEFINE C == [table : 1 .. used', addr : Nat, end : Nat, level : Levels]
           m == AtAddr(ChunkEnd)
<1>1. PICK n, a, c : n = Here.level /\ a = Here.addr /\ c = ChunkEnd
  OBVIOUS
<1>2. /\ calls # <<>> /\ n \in Nat /\ n \in 1 .. 2 /\ n = Len(calls) /\ n + 1 \in Levels /\ n + 1 <= 3
      /\ a \in Nat /\ a \in Addresses /\ c \in Nat /\ a < c /\ c <= Limit
  <2>1. calls # <<>>
    BY DEF Turn
  <2>2. Here.level \in 1 .. 3 /\ Here.level = Len(calls)
    BY <2>1, HereIs
  <2>3. n \in 1 .. 3 /\ n < 3
    BY <1>1, <2>2
  <2>4. n \in Nat /\ n \in 1 .. 2 /\ n + 1 \in Levels /\ n + 1 <= 3
    BY <2>3 DEF Levels
  <2> QED BY <1>1, <2>1, <2>2, <2>4, TurnIs
<1>3. /\ m \in Seq(C) /\ Len(m) = n
      /\ \A k \in 1 .. n - 1 : m[k] = calls[k]
      /\ m[n] = [Here EXCEPT !.addr = c]
  BY <1>1, AtAddrIs
<1>4. calls' = Append(m, Call(t, a, c, n + 1)) /\ Call(t, a, c, n + 1) \in C
  BY <1>1, <1>2 DEF Enter, Call
<1> HIDE DEF C, m
<1>5. /\ calls' \in Seq(C) /\ Len(calls') = n + 1
      /\ \A k \in 1 .. n : calls'[k] = m[k]
      /\ calls'[n + 1] = Call(t, a, c, n + 1)
  BY <1>2, <1>3, <1>4, AppendProperties
<1>6. \A k \in 1 .. n : /\ CallOK(k)'
                        /\ EdgesAligned => calls'[k].addr % PageSize = 0 /\ calls'[k].end % PageSize = 0
                        /\ calls'[k].end = calls[k].end
  <2>1. /\ \A k \in 1 .. n - 1 : k \in 1 .. n
        /\ n \in 1 .. n
    BY <1>2
  <2>2. \A k \in 1 .. Here.level - 1 : calls'[k] = calls[k]
    BY <1>1, <1>3, <1>5, <2>1
  <2>3. calls'[Here.level] = [Here EXCEPT !.addr = ChunkEnd]
    BY <1>1, <1>3, <1>5, <2>1
  <2> QED BY <1>1, <2>2, <2>3, MovesOn
<1>7. /\ calls'[n + 1].table = t /\ calls'[n + 1].addr = a /\ calls'[n + 1].end = c
      /\ calls'[n + 1].level = n + 1
  BY <1>5 DEF Call
<1>8. CallOK(n + 1)'
  <2>1. n + 1 - 1 = n /\ n + 1 > 1 /\ n \in 1 .. n
    BY <1>2
  <2>2. calls'[n].addr = c
    <3>1. Here \in [table : 1 .. used, addr : Nat, end : Nat, level : Levels]
      BY <1>2, HereRecord
    <3> QED BY <1>3, <1>5, <2>1, <3>1
  <2>3. Together(n, a, c - 1)
    <3>1. c - 1 \in Addresses /\ a <= c - 1 /\ c - 1 < c
      BY <1>2, SizesAre DEF Addresses
    <3> QED BY <1>1, <3>1, TurnIs
  <2>4. t = Table(slots', used', n + 1, a)
    BY <1>1
  <2> QED BY <1>2, <1>7, <2>1, <2>2, <2>3, <2>4 DEF CallOK
<1>9. \A k \in 1 .. n + 1 : k \in 1 .. n \/ k = n + 1
  BY <1>2
<1>10. CallsOK'
  <2>1. \A k \in 1 .. n + 1 : CallOK(k)'
    BY <1>6, <1>8, <1>9
  <2> QED BY <1>2, <1>5, <2>1 DEF CallsOK, C
<1>11. CallsAligned'
  <2>1. EdgesAligned' <=> EdgesAligned
    BY OwnsSame
  <2>2. EdgesAligned => \A k \in 1 .. n + 1 : calls'[k].addr % PageSize = 0 /\ calls'[k].end % PageSize = 0
    <3>1. EdgesAligned => a % PageSize = 0 /\ c % PageSize = 0
      BY <1>1, ChunkAligned
    <3> QED BY <1>6, <1>7, <1>9, <3>1
  <2>3. ~(pass = 2 /\ board.memory.base % Size(1) = 0)
    <3> SUFFICES ASSUME pass = 2, board.memory.base % Size(1) = 0 PROVE FALSE
      OBVIOUS
    <3>1. /\ Len(calls) <= 1
          /\ \A k \in 1 .. Len(calls) : calls[k].addr % Size(1) = 0 /\ calls[k].end % Size(1) = 0
      BY DEF IInv, CallsAligned
    <3>2. n = 1 /\ n \in 1 .. Len(calls) /\ Here = calls[n]
      BY <1>2, <3>1 DEF Here
    <3>3. Here.addr % Size(Here.level) = 0 /\ Here.end % Size(Here.level) = 0
      BY <1>1, <3>1, <3>2
    <3> QED BY <3>3, AlignedFills
  <2> QED BY <1>5, <2>1, <2>2, <2>3 DEF CallsAligned
<1>12. calls' # <<>> /\ Here' = calls'[n + 1] /\ calls'[1].end = calls[1].end
  <2>1. Len(calls') # 0 /\ 1 \in 1 .. n
    BY <1>2, <1>5
  <2>2. calls' # <<>>
    BY <2>1
  <2> QED BY <1>5, <1>6, <2>1, <2>2 DEF Here
<1>13. \A x \in Addresses : Open(x)' <=> Open(x)
  BY <1>1, <1>2, <1>7, <1>12 DEF Open
<1> QED BY <1>1, <1>2, <1>5, <1>7, <1>10, <1>11, <1>12, <1>13

\* Which tables there may be once a call has entered one.
LEMMA EnteredUsed ==
  ASSUME IInv, Turn, Len(calls) = Here.level, Len(calls') = Here.level + 1, Here.level \in Nat,
         Here'.addr = Here.addr, Here'.addr < Here'.end,
         \A l \in Levels, va \in Addresses :
            /\ IsLeaf(slots', used', l, va) <=> IsLeaf(slots, used, l, va)
            /\ Table(slots', used', l, va) # NoWhere =>
                  \/ Table(slots, used, l, va) # NoWhere
                  \/ l = Here.level + 1 /\ Together(Here.level, Here.addr, va)
  PROVE  TablesUsed'
<1>1. PICK n, a : n = Here.level /\ a = Here.addr
  OBVIOUS
<1> SUFFICES ASSUME NEW l \in 2 .. 3, NEW va \in Addresses, Table(slots', used', l, va) # NoWhere
             PROVE  (\/ \E x \in Addresses : Together(l - 1, va, x) /\ Mapped(x)
                     \/ l <= Len(calls) /\ Here.addr < Here.end /\ Together(l - 1, va, Here.addr))'
  BY DEF TablesUsed
<1>2. l \in Levels /\ l \in Nat
  BY DEF Levels
<1>3. \A x \in Addresses : Mapped(x)' <=> Mapped(x)
  BY DEF Mapped
<1>4. CASE Table(slots, used, l, va) # NoWhere
  <2>1. CASE \E x \in Addresses : Together(l - 1, va, x) /\ Mapped(x)
    BY <1>3, <2>1
  <2>2. CASE l <= Len(calls) /\ Together(l - 1, va, Here.addr)
    <3>1. l <= Len(calls')
      BY <1>2, <2>2
    <3> QED BY <2>2, <3>1
  <2> QED BY <1>4, <2>1, <2>2 DEF IInv, TablesUsed
<1>5. CASE l = n + 1 /\ Together(n, a, va)
  <2>1. l - 1 = n /\ l <= n + 1
    BY <1>1, <1>2, <1>5
  <2>2. Together(l - 1, va, a)
    BY <1>5, <2>1, TogetherIs
  <2> QED BY <1>1, <2>1, <2>2
<1> QED BY <1>1, <1>2, <1>4, <1>5

LEMMA DescendKeeps ==
  ASSUME IInv, Descend
  PROVE  IInv'
<1>1. PICK n, a : n = Here.level /\ a = Here.addr
  OBVIOUS
<1>2. /\ Turn /\ ~Fills /\ Here.level < 3 /\ Slot.kind = "table" /\ Enter(Slot.address)
      /\ UNCHANGED <<board, phase, loops, template, tree>> /\ UNCHANGED <<board, pass, slots, used>>
  BY DEF Descend, loops, tree
<1>3. /\ n \in 1 .. 2 /\ a \in Addresses /\ used \in Nat /\ phase = "map"
      /\ Table(slots, used, n, a) # NoWhere /\ Slot = SlotAt(slots, used, n, a)
  <2>1. n \in Levels /\ n < 3
    BY <1>1, <1>2, TurnIs
  <2>2. n \in 1 .. 2
    BY <2>1 DEF Levels
  <2> QED BY <1>1, <1>2, <2>2, TurnIs
<1>4. Slot.address \in 1 .. used
  BY <1>2, <1>3 DEF IInv, Tree
<1>5. Slot.address = Table(slots, used, n + 1, a)
  <2>1. Table(slots, used, n + 1, a) = Down(slots, Table(slots, used, n, a), n, a)
    BY <1>3, TableStep
  <2> QED BY <1>2, <1>3, <2>1 DEF Down, SlotAt
<1>6. /\ calls # <<>> /\ Len(calls) = Here.level /\ Len(calls') = Here.level + 1
      /\ Here'.addr = Here.addr /\ Here'.addr < Here'.end
      /\ CallsOK' /\ CallsAligned'
      /\ \A x \in Addresses : Open(x)' <=> Open(x)
  <2>1. PICK t \in 1 .. used : t = Slot.address
    BY <1>4
  <2>2. used' \in Nat /\ used <= used' /\ t \in 1 .. used' /\ Enter(t)
    BY <1>2, <1>3, <2>1
  <2>3. t = Table(slots', used', Here.level + 1, Here.addr)
    BY <1>1, <1>2, <1>5, <2>1
  <2>4. \A l \in 1 .. Here.level, va \in Addresses : Table(slots', used', l, va) = Table(slots, used, l, va)
    BY <1>2
  <2> QED BY <1>2, <2>2, <2>3, <2>4, EnterKeeps
<1>7. TablesUsed'
  <2>1. Here.level \in Nat
    BY <1>1, <1>3
  <2>2. \A l \in Levels, va \in Addresses :
            /\ IsLeaf(slots', used', l, va) <=> IsLeaf(slots, used, l, va)
            /\ Table(slots', used', l, va) # NoWhere =>
                  \/ Table(slots, used, l, va) # NoWhere
                  \/ l = Here.level + 1 /\ Together(Here.level, Here.addr, va)
    BY <1>2
  <2> QED BY <1>2, <1>6, <2>1, <2>2, EnteredUsed
<1>8. used' # 0 /\ Tree(slots, used)'
  BY <1>2, <1>3 DEF IInv, Stages
<1>9. \A l \in Levels, va \in Addresses :
         /\ IsLeaf(slots, used, l, va)' <=> IsLeaf(slots, used, l, va)
         /\ IsLeaf(slots, used, l, va) => SlotAt(slots, used, l, va)' = SlotAt(slots, used, l, va)
  BY <1>2
<1> QED BY <1>2, <1>3, <1>6, <1>7, <1>8, <1>9, CallsKeep

LEMMA GrownIs ==
  ASSUME slots \in TableSlots, NEW t \in 1 .. MaxTables, NEW u \in 1 .. MaxTables, t # u,
         NEW i \in 0 .. SlotCount - 1, NEW new,
         new = [NewTable(t) EXCEPT ![u][i] = Descriptor("table", t, None)]
  PROVE  Linked(slots, new, t, u, i)
<1> DEFINE cleared == [j \in 0 .. SlotCount - 1 |-> Zero]
           d == Descriptor("table", t, None)
           row == [slots[u] EXCEPT ![i] = d]
<1>1. Zero \in Descriptors /\ d \in Descriptors
  <2>1. t \in Nat
    BY SizesAre
  <2> QED BY <2>1 DEF Zero, Descriptor, Descriptors, Attributes
<1>2. cleared \in [0 .. SlotCount - 1 -> Descriptors] /\ slots[u] \in [0 .. SlotCount - 1 -> Descriptors]
  BY <1>1 DEF TableSlots
<1>3. new = [[slots EXCEPT ![t] = cleared] EXCEPT ![u][i] = d]
  BY DEF NewTable
<1> HIDE DEF cleared, d
<1>4. row \in [0 .. SlotCount - 1 -> Descriptors]
  BY <1>1, <1>2
<1>5. new = [v \in 1 .. MaxTables |-> IF v = u THEN row ELSE IF v = t THEN cleared ELSE slots[v]]
  BY <1>2, <1>3 DEF TableSlots
<1> HIDE DEF row
<1>6. new \in TableSlots
  BY <1>2, <1>4, <1>5 DEF TableSlots
<1>7. ASSUME NEW v \in 1 .. MaxTables, NEW j \in 0 .. SlotCount - 1
      PROVE  new[v][j] = IF v = t THEN Zero ELSE IF v = u /\ j = i THEN d ELSE slots[v][j]
  <2>1. row[j] = IF j = i THEN d ELSE slots[u][j]
    BY <1>2 DEF row
  <2>2. cleared[j] = Zero
    BY DEF cleared
  <2>3. new[v] = IF v = u THEN row ELSE IF v = t THEN cleared ELSE slots[v]
    BY <1>5
  <2> HIDE DEF row
  <2>4. CASE v = u
    <3>1. v # t /\ new[v][j] = row[j] /\ slots[u][j] = slots[v][j]
      BY <2>3, <2>4
    <3> QED BY <2>1, <2>4, <3>1
  <2>5. CASE v # u
    <3>1. new[v] = IF v = t THEN cleared ELSE slots[v]
      BY <2>3, <2>5
    <3> QED BY <2>2, <2>5, <3>1
  <2> QED BY <2>4, <2>5
<1> QED BY <1>6, <1>7 DEF Linked, d

LEMMA TableGrown ==
  ASSUME IInv, Grow
  PROVE  /\ used \in Nat /\ used' = used + 1
         /\ Tree(slots', used')
         /\ \A l \in Levels, va \in Addresses :
               /\ Table(slots', used', l, va)
                     = IF l = Here.level + 1 /\ Together(Here.level, Here.addr, va)
                       THEN used' ELSE Table(slots, used, l, va)
               /\ IsLeaf(slots', used', l, va) <=> IsLeaf(slots, used, l, va)
               /\ IsLeaf(slots, used, l, va) => SlotAt(slots', used', l, va) = SlotAt(slots, used, l, va)
<1>1. PICK n, a, new, us : n = Here.level /\ a = Here.addr /\ new = slots' /\ us = used
  OBVIOUS
<1>2. /\ Turn /\ Here.level < 3 /\ Slot.kind = "invalid" /\ used < MaxTables /\ used' = used + 1
      /\ slots' = [NewTable(used + 1) EXCEPT
                      ![Here.table][SlotOf(Here.level, Here.addr)] = Descriptor("table", used + 1, None)]
  BY DEF Grow, NeedsChild
<1>3. /\ n \in 1 .. 2 /\ n \in Levels /\ a \in Addresses /\ us \in Nat
      /\ Table(slots, us, n, a) # NoWhere /\ Slot = SlotAt(slots, us, n, a)
      /\ Here.table = Table(slots, us, n, a) /\ Here.table \in 1 .. us
      /\ Tree(slots, us) /\ slots \in TableSlots /\ us < MaxTables /\ MaxTables \in Nat
  <2>1. n \in Levels /\ n < 3
    BY <1>1, <1>2, TurnIs
  <2>2. n \in 1 .. 2
    BY <2>1 DEF Levels
  <2>3. calls # <<>>
    BY <1>2 DEF Turn
  <2>4. Tree(slots, us) /\ slots \in TableSlots
    BY <1>1 DEF IInv, Tree
  <2> QED BY <1>1, <1>2, <2>1, <2>2, <2>3, <2>4, TurnIs, HereIs, SizesAre
<1>4. Linked(slots, new, us + 1, Table(slots, us, n, a), SlotOf(n, a))
  <2>1. us + 1 \in 1 .. MaxTables /\ Here.table \in 1 .. MaxTables /\ us + 1 # Here.table
    BY <1>3
  <2>2. SlotOf(n, a) \in 0 .. SlotCount - 1
    BY <1>3, SlotIs
  <2>3. new = [NewTable(us + 1) EXCEPT ![Here.table][SlotOf(n, a)] = Descriptor("table", us + 1, None)]
    BY <1>1, <1>2
  <2> QED BY <1>3, <2>1, <2>2, <2>3, GrownIs
<1>5. /\ Tree(new, us + 1)
      /\ \A l \in Levels, va \in Addresses :
            /\ Table(new, us + 1, l, va)
                  = IF l = n + 1 /\ Together(n, a, va) THEN us + 1 ELSE Table(slots, us, l, va)
            /\ IsLeaf(new, us + 1, l, va) <=> IsLeaf(slots, us, l, va)
            /\ IsLeaf(slots, us, l, va) => SlotAt(new, us + 1, l, va) = SlotAt(slots, us, l, va)
  BY <1>1, <1>2, <1>3, <1>4, PutTable
<1> QED BY <1>1, <1>2, <1>3, <1>5

LEMMA GrowKeeps ==
  ASSUME IInv, Grow
  PROVE  IInv'
<1>1. PICK n, a, new, us : n = Here.level /\ a = Here.addr /\ new = slots' /\ us = used
  OBVIOUS
<1>2. /\ Turn /\ ~Fills /\ Here.level < 3 /\ used' = used + 1 /\ Enter(used + 1)
      /\ UNCHANGED <<board, phase, loops, template>> /\ UNCHANGED <<board, pass>>
  BY DEF Grow, loops
<1>3. n \in 1 .. 2 /\ n \in Nat /\ a \in Addresses /\ phase = "map"
  <2>1. n \in Levels /\ n < 3
    BY <1>1, <1>2, TurnIs
  <2>2. n \in 1 .. 2 /\ n \in Nat
    BY <2>1 DEF Levels
  <2> QED BY <1>1, <1>2, <2>2, TurnIs
<1>4. /\ us \in Nat /\ Tree(new, us + 1)
      /\ \A l \in Levels, va \in Addresses :
            /\ Table(new, us + 1, l, va)
                  = IF l = n + 1 /\ Together(n, a, va) THEN us + 1 ELSE Table(slots, us, l, va)
            /\ IsLeaf(new, us + 1, l, va) <=> IsLeaf(slots, us, l, va)
            /\ IsLeaf(slots, us, l, va) => SlotAt(new, us + 1, l, va) = SlotAt(slots, us, l, va)
  BY <1>1, TableGrown
<1>5. slots' = new /\ used' = us + 1 /\ used = us /\ us + 1 \in Nat /\ n + 1 \in Levels
  BY <1>1, <1>2, <1>3, <1>4 DEF Levels
<1>6. /\ calls # <<>> /\ Len(calls) = Here.level /\ Len(calls') = Here.level + 1
      /\ Here'.addr = Here.addr /\ Here'.addr < Here'.end
      /\ CallsOK' /\ CallsAligned'
      /\ \A x \in Addresses : Open(x)' <=> Open(x)
  <2>1. used' \in Nat /\ used <= used' /\ us + 1 \in 1 .. used' /\ Enter(us + 1)
    BY <1>2, <1>4, <1>5
  <2>2. us + 1 = Table(slots', used', Here.level + 1, Here.addr)
    BY <1>1, <1>3, <1>4, <1>5, TogetherIs
  <2>3. \A l \in 1 .. Here.level, va \in Addresses : Table(slots', used', l, va) = Table(slots, used, l, va)
    <3>1. \A l \in 1 .. n : l \in Levels /\ l # n + 1
      BY <1>3 DEF Levels
    <3> QED BY <1>1, <1>4, <1>5, <3>1
  <2> QED BY <1>2, <2>1, <2>2, <2>3, EnterKeeps
<1>7. TablesUsed'
  <2>1. Here.level \in Nat
    BY <1>1, <1>3
  <2>2. \A l \in Levels, va \in Addresses :
            /\ IsLeaf(slots', used', l, va) <=> IsLeaf(slots, used, l, va)
            /\ Table(slots', used', l, va) # NoWhere =>
                  \/ Table(slots, used, l, va) # NoWhere
                  \/ l = Here.level + 1 /\ Together(Here.level, Here.addr, va)
    BY <1>1, <1>4, <1>5
  <2> QED BY <1>2, <1>6, <2>1, <2>2, EnteredUsed
<1>8. used' # 0 /\ Tree(slots, used)'
  BY <1>4, <1>5
<1>9. \A l \in Levels, va \in Addresses :
         /\ IsLeaf(slots, used, l, va)' <=> IsLeaf(slots, used, l, va)
         /\ IsLeaf(slots, used, l, va) => SlotAt(slots, used, l, va)' = SlotAt(slots, used, l, va)
  BY <1>4, <1>5
<1> QED BY <1>2, <1>3, <1>6, <1>7, <1>8, <1>9, CallsKeep

\* What has been asked for once a slot has got its leaf.
LEMMA LeafAsked ==
  ASSUME IInv, calls # <<>>, phase = "map", UNCHANGED <<board, phase, loops>>, NEW s \in Sources,
         s = DeviceFill <=> pass = 2,
         \A x \in Addresses : Open(x) => Owns(s, x) /\ Reached(s, x),
         NEW l \in Levels, NEW a \in Addresses,
         \A x \in Addresses : /\ Open(x) <=> Open(x)' \/ Together(l, a, x)
                              /\ ~(Open(x)' /\ Together(l, a, x)),
         NEW t \in Sources, NEW x \in Addresses
  PROVE  /\ Asked(t, x) => Asked(t, x)'
         /\ Together(l, a, x) => Asked(s, x)'
         /\ Asked(t, x)' => Asked(t, x) \/ (t = s /\ Together(l, a, x))
<1>1. UNCHANGED <<board, phase, pass, next, cursor>> /\ board \in Boards /\ pass \in 1 .. 2
  BY DEF loops, IInv, Stages
<1>2. (Owns(t, x)' <=> Owns(t, x)) /\ (Reached(t, x)' <=> Reached(t, x))
  BY <1>1, ReachedIs
<1>3. (Owns(s, x)' <=> Owns(s, x)) /\ (Reached(s, x)' <=> Reached(s, x))
  BY <1>1, ReachedIs
<1>4. Asked(t, x)' <=> Owns(t, x) /\ Reached(t, x) /\ ((pass = 1 \/ t = DeviceFill) => ~Open(x)')
  BY <1>1, <1>2 DEF Asked, DeviceFill
<1>5. Asked(s, x)' <=> Owns(s, x) /\ Reached(s, x) /\ ((pass = 1 \/ s = DeviceFill) => ~Open(x)')
  BY <1>1, <1>3 DEF Asked, DeviceFill
<1>6. ASSUME Asked(t, x)', ~Asked(t, x)
      PROVE  t = s /\ Together(l, a, x)
  <2>1. Owns(t, x) /\ Reached(t, x) /\ (pass = 1 \/ t = DeviceFill) /\ Together(l, a, x) /\ Open(x)
    BY <1>4, <1>6 DEF Asked
  <2>2. CASE pass = 2
    BY <2>1, <2>2
  <2>3. CASE pass = 1
    <3>1. s # DeviceFill /\ t # DeviceFill
      BY <1>1, <2>1, <2>3, ReachedIs
    <3>2. ~Overlaps(board.plan)
      BY DEF IInv, Stages
    <3>3. Owns(s, x)
      BY <2>1
    <3> QED BY <1>1, <2>1, <3>1, <3>2, <3>3, OwnedOnce
  <2> QED BY <1>1, <2>2, <2>3
<1> QED BY <1>4, <1>5, <1>6 DEF Asked

LEMMA LeafPut ==
  ASSUME IInv, MapLeaf
  PROVE  /\ used' = used /\ template \in Attributes
         /\ Tree(slots', used')
         /\ \A l \in Levels, va \in Addresses :
               /\ Table(slots', used', l, va) = Table(slots, used, l, va)
               /\ IsLeaf(slots', used', l, va) <=>
                     IsLeaf(slots, used, l, va) \/ (l = Here.level /\ Together(Here.level, Here.addr, va))
               /\ Table(slots, used, l, va) # NoWhere =>
                     SlotAt(slots', used', l, va)
                        = IF l = Here.level /\ Together(Here.level, Here.addr, va)
                          THEN Leaf(Here.level, Here.addr, template) ELSE SlotAt(slots, used, l, va)
<1>1. PICK n, a, new, d : /\ n = Here.level /\ a = Here.addr /\ new = slots'
                          /\ d = Leaf(Here.level, Here.addr, template)
  OBVIOUS
<1>2. /\ Turn /\ (Here.level < 3 => Slot.kind # "table")
      /\ new = SetSlot(Here.table, SlotOf(n, a), d) /\ used' = used
  BY <1>1 DEF MapLeaf
<1>3. /\ n \in Levels /\ a \in Addresses /\ a \in Nat
      /\ Table(slots, used, n, a) # NoWhere /\ Here.table = Table(slots, used, n, a)
      /\ Slot = SlotAt(slots, used, n, a) /\ Here.table \in 1 .. MaxTables
      /\ Tree(slots, used) /\ slots \in TableSlots /\ template \in Attributes
  <2>1. Tree(slots, used) /\ slots \in TableSlots /\ template \in Attributes
    BY DEF IInv, Tree, Stages
  <2>2. /\ n \in Levels /\ a \in Addresses /\ Table(slots, used, n, a) # NoWhere
        /\ Here.table = Table(slots, used, n, a)
    BY <1>1, <1>2, TurnIs
  <2>3. Here.table \in 1 .. MaxTables
    BY <2>1, <2>2, TreeIs
  <2> QED BY <1>1, <1>2, <2>1, <2>2, <2>3, TurnIs
<1>4. d.kind = (IF n = 3 THEN "table" ELSE "block") /\ d \in Descriptors
  <2>1. d = Descriptor(IF n = 3 THEN "table" ELSE "block", a, template)
    BY <1>1 DEF Leaf
  <2> QED BY <1>3, <2>1 DEF Descriptor, Descriptors
<1>5. Written(slots, new, Table(slots, used, n, a), SlotOf(n, a), d)
  <2>1. SlotOf(n, a) \in 0 .. SlotCount - 1
    BY <1>3, SlotIs
  <2>2. PICK t, i : t = Here.table /\ i = SlotOf(n, a)
    OBVIOUS
  <2>3. new = [slots EXCEPT ![t] = [slots[t] EXCEPT ![i] = d]]
    BY <1>2, <2>2 DEF SetSlot
  <2>4. t \in 1 .. MaxTables /\ i \in 0 .. SlotCount - 1 /\ slots \in TableSlots
    BY <1>3, <2>1, <2>2
  <2>5. new \in TableSlots
    BY <1>4, <2>3, <2>4 DEF TableSlots
  <2>6. \A u \in 1 .. MaxTables, j \in 0 .. SlotCount - 1 :
           new[u][j] = IF u = t /\ j = i THEN d ELSE slots[u][j]
    BY <2>3, <2>4 DEF TableSlots
  <2> QED BY <1>3, <2>2, <2>5, <2>6 DEF Written
<1>6. /\ Tree(new, used)
      /\ \A l \in Levels, va \in Addresses :
            /\ Table(new, used, l, va) = Table(slots, used, l, va)
            /\ IsLeaf(new, used, l, va) <=> IsLeaf(slots, used, l, va) \/ (l = n /\ Together(n, a, va))
            /\ Table(slots, used, l, va) # NoWhere =>
                  SlotAt(new, used, l, va) = IF l = n /\ Together(n, a, va) THEN d ELSE SlotAt(slots, used, l, va)
  <2>1. /\ Tree(slots, used) /\ n \in Levels /\ a \in Addresses /\ Table(slots, used, n, a) # NoWhere
        /\ d.kind = (IF n = 3 THEN "table" ELSE "block")
        /\ n < 3 => SlotAt(slots, used, n, a).kind # "table"
    BY <1>1, <1>2, <1>3, <1>4
  <2> QED BY <1>5, <2>1, PutLeaf
<1> QED BY <1>1, <1>2, <1>3, <1>6

LEMMA MapLeafKeeps ==
  ASSUME IInv, MapLeaf
  PROVE  IInv'
<1>1. PICK n, a, c, new, d : /\ n = Here.level /\ a = Here.addr /\ c = ChunkEnd /\ new = slots'
                             /\ d = Leaf(Here.level, Here.addr, template)
  OBVIOUS
<1>2. /\ Turn /\ Fills /\ (Here.level < 3 => Slot.kind # "table") /\ calls' = AtAddr(ChunkEnd)
      /\ UNCHANGED <<board, phase, loops, template, used>>
      /\ UNCHANGED <<board, phase, pass, next, cursor, template, used>>
  BY <1>1 DEF MapLeaf, loops
<1>3. /\ calls # <<>> /\ n \in Levels /\ n \in Nat /\ n = Len(calls) /\ n \in 1 .. n /\ 1 \in 1 .. n /\ n <= 3
      /\ a \in Addresses /\ a \in Nat /\ c \in Nat /\ a < c /\ phase = "map" /\ used \in Nat /\ used # 0
      /\ Table(slots, used, n, a) # NoWhere /\ a = Start(n, a) /\ c = SlotEnd(n, a)
      /\ board \in Boards /\ template \in Attributes /\ template # None
  <2>1. calls # <<>>
    BY <1>2 DEF Turn
  <2>2. Here.level \in Nat /\ Here.level = Len(calls) /\ Len(calls) \in 1 .. 3
    BY <2>1, HereIs
  <2>3. n \in Nat /\ n = Len(calls) /\ n \in 1 .. n /\ 1 \in 1 .. n /\ n <= 3
    BY <1>1, <2>2
  <2>4. board \in Boards /\ template \in Attributes /\ template # None
    BY <2>1 DEF IInv, Stages, Current
  <2>5. c = SlotEnd(n, a)
    BY <1>1, <1>2 DEF Fills
  <2>6. /\ n \in Levels /\ a \in Addresses /\ Table(slots, used, n, a) # NoWhere
    BY <1>1, <1>2, TurnIs
  <2>7. used \in Nat /\ used >= 1
    BY <1>2, TurnIs
  <2> QED BY <1>1, <1>2, <2>1, <2>3, <2>4, <2>5, <2>6, <2>7, TurnIs
<1>4. d.address = a /\ d.attr = template
  BY <1>1 DEF Leaf, Descriptor
<1>5. /\ Tree(new, used)
      /\ \A l \in Levels, va \in Addresses :
            /\ Table(new, used, l, va) = Table(slots, used, l, va)
            /\ IsLeaf(new, used, l, va) <=> IsLeaf(slots, used, l, va) \/ (l = n /\ Together(n, a, va))
            /\ Table(slots, used, l, va) # NoWhere =>
                  SlotAt(new, used, l, va) = IF l = n /\ Together(n, a, va) THEN d ELSE SlotAt(slots, used, l, va)
  BY <1>1, <1>2, LeafPut
<1>6. slots' = new /\ used' = used
  BY <1>1, <1>2
<1>7. /\ calls' \in Seq([table : 1 .. used', addr : Nat, end : Nat, level : Levels])
      /\ Len(calls') = n
      /\ \A k \in 1 .. Here.level - 1 : calls'[k] = calls[k]
      /\ calls'[Here.level] = [Here EXCEPT !.addr = ChunkEnd]
  <2>1. used' \in Nat /\ used <= used' /\ used' = used
    BY <1>2, <1>3
  <2> QED BY <1>1, <1>2, <2>1, AtAddrIs
<1>8. \A k \in 1 .. n : /\ CallOK(k)'
                        /\ EdgesAligned => calls'[k].addr % PageSize = 0 /\ calls'[k].end % PageSize = 0
                        /\ calls'[k].end = calls[k].end
  <2>1. \A l \in 1 .. n : l \in Levels
    BY <1>3 DEF Levels
  <2>2. \A l \in 1 .. Here.level, va \in Addresses : Table(slots', used', l, va) = Table(slots, used, l, va)
    BY <1>1, <1>5, <1>6, <2>1
  <2> QED BY <1>1, <1>2, <1>7, <2>2, MovesOn
<1>9. calls'[n].addr = c
  <2>1. Here \in [table : 1 .. used, addr : Nat, end : Nat, level : Levels]
    BY <1>3, HereRecord
  <2> QED BY <1>1, <1>7, <2>1
<1>10. calls' # <<>> /\ Here' = calls'[n] /\ calls'[1].end = calls[1].end
  <2>1. Len(calls') # 0
    BY <1>3, <1>7
  <2>2. calls' # <<>>
    BY <2>1
  <2> QED BY <1>3, <1>7, <1>8, <2>2 DEF Here
<1>11. ASSUME NEW x \in Addresses
       PROVE  /\ Open(x) <=> Open(x)' \/ Together(n, a, x)
              /\ ~(Open(x)' /\ Together(n, a, x))
  <2>1. x \in Nat /\ (Open(x) <=> a <= x /\ x < calls[1].end) /\ calls[1].end \in Nat
    BY <1>1, <1>3, <1>11, HereIs
  <2>2. Open(x)' <=> c <= x /\ x < calls[1].end
    BY <1>9, <1>10 DEF Open
  <2>3. Together(n, a, x) <=> a <= x /\ x < c
    BY <1>3, <2>1, AreaIs
  <2>4. c <= calls[1].end
    <3>1. ChunkEnd <= Here.end /\ Here.end <= calls[1].end /\ Here.end \in Nat
      BY <1>2, <1>3, TurnIs, HereIs
    <3> QED BY <1>1, <1>3, <2>1, <3>1
  <2> QED BY <1>3, <2>1, <2>2, <2>3, <2>4
<1>12. PICK s \in Sources : /\ template = Owner(s)
                            /\ s = DeviceFill <=> pass = 2
                            /\ \A x \in Addresses : Open(x) => Owns(s, x) /\ Reached(s, x)
  BY <1>3 DEF IInv, Current
<1>13. ASSUME NEW t \in Sources, NEW x \in Addresses
       PROVE  /\ Asked(t, x) => Asked(t, x)'
              /\ Together(n, a, x) => Asked(s, x)'
              /\ Asked(t, x)' => Asked(t, x) \/ (t = s /\ Together(n, a, x))
  <2>1. UNCHANGED <<board, phase, loops>>
    BY <1>2
  <2> QED BY <1>3, <1>11, <1>12, <1>13, <2>1, LeafAsked
<1>14. Sources' = Sources /\ \A t \in Sources : Owner(t)' = Owner(t)
  BY <1>2, OwnsSame
<1>15. \A x \in Addresses : Together(n, a, x) => ~Mapped(x)
  BY <1>1, <1>2, Fresh
\* Old leaves stay as they are.
<1>16. ASSUME NEW l \in Levels, NEW va \in Addresses, IsLeaf(slots, used, l, va)
       PROVE  /\ IsLeaf(new, used, l, va)
              /\ SlotAt(new, used, l, va) = SlotAt(slots, used, l, va)
              /\ \A t \in Sources : LeafOf(t, l, va) => LeafOf(t, l, va)'
  <2>1. ~(l = n /\ Together(n, a, va))
    BY <1>15, <1>16 DEF Mapped
  <2>2. IsLeaf(new, used, l, va) /\ SlotAt(new, used, l, va) = SlotAt(slots, used, l, va)
    BY <1>5, <1>16, <2>1 DEF IsLeaf
  <2> QED BY <1>6, <1>13, <1>14, <2>2 DEF LeafOf
\* The new one belongs to what is being mapped.
<1>17. ASSUME NEW va \in Addresses, Together(n, a, va)
       PROVE  /\ IsLeaf(new, used, n, va)
              /\ SlotAt(new, used, n, va).address = Start(n, va)
              /\ LeafOf(s, n, va)'
  <2>1. IsLeaf(new, used, n, va)
    BY <1>3, <1>5, <1>17
  <2>2. SlotAt(new, used, n, va) = d
    <3>1. Table(slots, used, n, va) = Table(slots, used, n, a)
      BY <1>3, <1>17, SlotSame
    <3> QED BY <1>3, <1>5, <1>17, <3>1
  <2>3. Start(n, va) = Start(n, a)
    <3>1. n # 0
      BY <1>3, LevelIs
    <3> QED BY <1>17, <3>1 DEF Start, Together
  <2>4. \A x \in Addresses : Together(n, va, x) => Together(n, a, x)
    BY <1>17, TogetherIs
  <2> QED BY <1>3, <1>4, <1>6, <1>12, <1>13, <1>14, <2>1, <2>2, <2>3, <2>4 DEF LeafOf
<1>18. LeavesAsked'
  <2> SUFFICES ASSUME NEW l \in Levels, NEW va \in Addresses, IsLeaf(new, used, l, va)
               PROVE  /\ SlotAt(new, used, l, va).address = Start(l, va)
                      /\ \E t \in Sources : LeafOf(t, l, va)'
    BY <1>6, <1>14 DEF LeavesAsked
  <2>1. CASE l = n /\ Together(n, a, va)
    BY <1>17, <2>1
  <2>2. CASE ~(l = n /\ Together(n, a, va))
    <3>1. IsLeaf(slots, used, l, va)
      BY <1>5, <2>2
    <3> QED BY <1>16, <3>1 DEF IInv, LeavesAsked
  <2> QED BY <2>1, <2>2
<1>19. AskedMapped'
  <2> SUFFICES ASSUME NEW t \in Sources, NEW va \in Addresses, Asked(t, va)'
               PROVE  \E l \in Levels : IsLeaf(new, used, l, va) /\ LeafOf(t, l, va)'
    BY <1>6, <1>14 DEF AskedMapped
  <2>1. CASE Asked(t, va)
    <3>1. PICK l \in Levels : IsLeaf(slots, used, l, va) /\ LeafOf(t, l, va)
      BY <2>1 DEF IInv, AskedMapped
    <3> QED BY <1>16, <3>1
  <2>2. CASE t = s /\ Together(n, a, va)
    BY <1>3, <1>17, <2>2
  <2> QED BY <1>13, <2>1, <2>2
<1>20. Stages'
  <2>1. Devices' = Devices /\ Arena' = Arena
    BY <1>2 DEF Devices, Arena
  <2> QED BY <1>2, <1>3, <1>10, <2>1 DEF IInv, Stages
<1>21. Tree(slots, used)'
  BY <1>5, <1>6
<1>22. CallsOK'
  BY <1>3, <1>7, <1>8 DEF CallsOK
<1>23. Current'
  <2>1. \A x \in Addresses : Owns(s, x)' = Owns(s, x) /\ (Reached(s, x)' <=> Reached(s, x))
    BY <1>2, <1>3, ReachedIs, OwnsSame
  <2>2. (s = DeviceFill)' <=> pass' = 2
    BY <1>2, <1>12 DEF DeviceFill
  <2> QED BY <1>2, <1>3, <1>11, <1>12, <1>14, <2>1, <2>2 DEF Current
<1>24. TablesUsed'
  <2> SUFFICES ASSUME NEW l \in 2 .. 3, NEW va \in Addresses, Table(slots, used, l, va) # NoWhere
               PROVE  \E x \in Addresses : Together(l - 1, va, x) /\ Mapped(x)'
    <3>1. \A l \in 2 .. 3 : l \in Levels
      BY DEF Levels
    <3> QED BY <1>5, <1>6, <3>1 DEF TablesUsed
  <2>1. \A x \in Addresses : Mapped(x) => Mapped(x)'
    BY <1>6, <1>16 DEF Mapped
  <2>2. Mapped(a)'
    <3>1. Together(n, a, a)
      BY TogetherIs
    <3> QED BY <1>3, <1>6, <1>17, <3>1 DEF Mapped
  <2> QED BY <1>1, <1>3, <2>1, <2>2 DEF IInv, TablesUsed
<1>25. CallsAligned'
  <2>1. EdgesAligned' <=> EdgesAligned
    BY <1>2, OwnsSame
  <2>2. pass = 2 /\ board.memory.base % Size(1) = 0 =>
           /\ n <= 1
           /\ \A k \in 1 .. n : calls'[k].addr % Size(1) = 0 /\ calls'[k].end % Size(1) = 0
    <3> SUFFICES ASSUME pass = 2, board.memory.base % Size(1) = 0
                 PROVE  /\ n <= 1
                        /\ \A k \in 1 .. n : calls'[k].addr % Size(1) = 0 /\ calls'[k].end % Size(1) = 0
      OBVIOUS
    <3>1. n <= 1 /\ \A k \in 1 .. n : calls[k].end % Size(1) = 0
      BY <1>3 DEF IInv, CallsAligned
    <3>2. n = 1
      BY <1>3, <3>1
    <3>3. c % Size(1) = 0
      BY <1>3, <3>2, EndAligned
    <3>4. \A k \in 1 .. n : k = n
      BY <3>2
    <3> QED BY <1>8, <1>9, <3>1, <3>3, <3>4
  <2> QED BY <1>2, <1>7, <1>8, <2>1, <2>2 DEF CallsAligned
<1>26. RefusesForCause'
  BY <1>2, <1>3 DEF RefusesForCause
<1> QED BY <1>18, <1>19, <1>20, <1>21, <1>22, <1>23, <1>24, <1>25, <1>26 DEF IInv

LEMMA StutterKeeps ==
  ASSUME IInv, UNCHANGED vars
  PROVE  IInv'
<1>1. UNCHANGED <<board, phase, pass, next, cursor, calls, template, slots, used>>
  BY DEF vars, loops, walk, tree
<1>2. UNCHANGED <<board, phase, loops, template>>
  BY DEF vars, walk
<1>3. RefusesForCause' /\ Current' /\ LeavesAsked' /\ AskedMapped'
  <2>1. Here' = Here
    BY <1>1 DEF Here
  <2>2. \A x \in Addresses : Open(x)' <=> Open(x)
    BY <1>1, <2>1 DEF Open
  <2>3. \A s \in Sources, x \in Addresses : (Owns(s, x)' <=> Owns(s, x)) /\ (Reached(s, x)' <=> Reached(s, x))
    BY <1>1, ReachedIs DEF IInv, Stages
  <2>4. \A s \in Sources, x \in Addresses : Asked(s, x)' <=> Asked(s, x)
    BY <1>1, <2>2, <2>3 DEF Asked, DeviceFill
  <2>5. LeavesAsked' /\ AskedMapped'
    BY <1>1, <2>4, AskedKept DEF IInv
  <2>6. Sources' = Sources /\ \A s \in Sources : Owner(s)' = Owner(s)
    BY <1>1, OwnsSame
  <2>7. Current'
    <3>1. CASE calls = <<>>
      BY <1>1, <3>1 DEF Current
    <3>2. CASE calls # <<>>
      <4>1. PICK s \in Sources : /\ template = Owner(s)
                                 /\ s = DeviceFill <=> pass = 2
                                 /\ \A x \in Addresses : Open(x) => Owns(s, x) /\ Reached(s, x)
        BY <3>2 DEF IInv, Current
      <4>2. template # None /\ (s = DeviceFill)' = (s = DeviceFill)
        BY <3>2 DEF IInv, Current, DeviceFill
      <4> QED BY <1>1, <2>2, <2>3, <2>6, <4>1, <4>2 DEF Current
    <3> QED BY <3>1, <3>2
  <2>8. RefusesForCause'
    BY <1>1 DEF IInv, RefusesForCause
  <2> QED BY <2>5, <2>7, <2>8
<1>4. Stages'
  <2>1. Devices' = Devices /\ Arena' = Arena
    BY <1>1 DEF Devices, Arena
  <2> QED BY <1>1, <2>1 DEF IInv, Stages
<1>5. Tree(slots, used)' /\ CallsOK'
  BY <1>1 DEF IInv, CallsOK, CallOK
<1>6. TablesUsed'
  BY <1>1 DEF IInv, TablesUsed, Mapped, Here
<1>7. CallsAligned'
  BY <1>1, OwnsSame DEF IInv, CallsAligned
<1> QED BY <1>3, <1>4, <1>5, <1>6, <1>7 DEF IInv

LEMMA InitHolds == Init => IInv
<1> SUFFICES ASSUME Init PROVE IInv
  OBVIOUS
<1>1. /\ board \in Boards /\ phase = "new" /\ pass = 1 /\ next = 1 /\ cursor = 0 /\ calls = <<>>
      /\ template = None /\ slots = [t \in 1 .. MaxTables |-> Garbage] /\ used = 0
  BY DEF Init
<1>2. slots \in TableSlots
  <2>1. Garbage \in [0 .. SlotCount - 1 -> Descriptors]
    BY DEF Garbage, Descriptor, Descriptors, Attributes
  <2> QED BY <1>1, <2>1 DEF TableSlots
<1>3. Tree(slots, used) /\ \A l \in Levels, va \in Addresses : Table(slots, used, l, va) = NoWhere /\ ~IsLeaf(slots, used, l, va)
  BY <1>1, <1>2, NoTree
<1>4. Stages
  <2>1. Len(board.plan) \in Nat
    BY <1>1, BoardIs
  <2> QED BY <1>1, <2>1 DEF Stages, Attributes
<1>5. Len(calls) = 0 /\ ~\E k \in 1 .. 0 : TRUE
  BY <1>1
<1>6. CallsOK
  <2>1. <<>> \in Seq([table : 1 .. used, addr : Nat, end : Nat, level : Levels])
    BY EmptySeq
  <2> QED BY <1>1, <1>5, <2>1 DEF CallsOK
<1>7. Current /\ CallsAligned
  BY <1>1, <1>5 DEF Current, CallsAligned
<1>8. LeavesAsked
  BY <1>3 DEF LeavesAsked
<1>9. AskedMapped
  <2> SUFFICES ASSUME NEW s \in Sources, NEW x \in Addresses, Reached(s, x) PROVE FALSE
    BY DEF AskedMapped, Asked
  <2>1. x \in Nat /\ PageDown(x) \in Nat
    BY SizesAre, PageOf DEF Addresses
  <2>2. DOMAIN board.plan = 1 .. Len(board.plan) /\ Len(board.plan) \in Nat
    BY <1>1, BoardIs
  <2>3. ~(PageDown(x) < 0) /\ \A i \in 1 .. Len(board.plan) : ~(i < 1)
    BY <2>1, <2>2
  <2> QED BY <1>1, <2>2, <2>3 DEF Reached
<1>10. TablesUsed
  <2>1. \A l \in 2 .. 3 : l \in Levels
    BY DEF Levels
  <2> QED BY <1>3, <2>1 DEF TablesUsed
<1>11. RefusesForCause
  BY <1>1 DEF RefusesForCause
<1> QED BY <1>3, <1>4, <1>6, <1>7, <1>8, <1>9, <1>10, <1>11 DEF IInv

\* The inductive invariant holds in every state init comes to.
THEOREM Invariant == Spec => []IInv
<1>1. IInv /\ [Next]_vars => IInv'
  <2> SUFFICES ASSUME IInv, [Next]_vars PROVE IInv'
    OBVIOUS
  <2>1. CASE NewRoot
    BY <2>1, NewRootKeeps
  <2>2. CASE NoTable
    BY <2>2, NoTableKeeps
  <2>3. CASE Apply
    BY <2>3, ApplyKeeps
  <2>4. CASE Refuse
    BY <2>4, RefuseKeeps
  <2>5. CASE MapPlanned
    BY <2>5, MapPlannedKeeps
  <2>6. CASE LeaveUnmapped
    BY <2>6, LeaveUnmappedKeeps
  <2>7. CASE SkipClaimed
    BY <2>7, SkipClaimedKeeps
  <2>8. CASE MapGap
    BY <2>8, MapGapKeeps
  <2>9. CASE Applied
    BY <2>9, AppliedKeeps
  <2>10. CASE MapLeaf
    BY <2>10, MapLeafKeeps
  <2>11. CASE InTheWay
    BY <2>11, InTheWayKeeps
  <2>12. CASE Unaligned
    BY <2>12, UnalignedKeeps
  <2>13. CASE Descend
    BY <2>13, DescendKeeps
  <2>14. CASE Grow
    BY <2>14, GrowKeeps
  <2>15. CASE OutOfMemory
    BY <2>15, OutOfMemoryKeeps
  <2>16. CASE Return
    BY <2>16, ReturnKeeps
  <2>17. CASE UNCHANGED vars
    BY <2>17, StutterKeeps
  <2> QED BY <2>1, <2>2, <2>3, <2>4, <2>5, <2>6, <2>7, <2>8, <2>9, <2>10, <2>11, <2>12, <2>13, <2>14,
             <2>15, <2>16, <2>17 DEF Next
<1> QED BY <1>1, InitHolds, PTL DEF Spec

-------------------------------------------------------------------------------
(* What the invariant gives.                                                *)

\* An overlap, a page edge inside a page and a region in the way of the devices
\* are all that init refuses a plan for.
THEOREM RefusalsForCause == Spec => []RefusesForCause
<1>1. IInv => RefusesForCause
  BY DEF IInv
<1> QED BY <1>1, Invariant, PTL

\* The function TableAt finds is the one that gives the tables.
LEMMA TableAtIs ==
  ASSUME NEW va
  PROVE  TableAt(va) = [l \in Levels |-> Table(slots, used, l, va)]
<1> DEFINE Step(f, l) == IF l = 1 THEN IF used = 0 THEN NoWhere ELSE Root
                         ELSE IF f[l - 1] = NoWhere THEN NoWhere
                         ELSE LET d == slots[f[l - 1]][SlotOf(l - 1, va)]
                              IN  IF d.kind = "table" THEN d.address ELSE NoWhere
           Is(f) == f = [l \in Levels |-> Step(f, l)]
           g == [l \in Levels |-> Table(slots, used, l, va)]
<1>1. TableAt(va) = CHOOSE f : Is(f)
  BY DEF TableAt
<1>2. 1 \in Levels /\ 2 \in Levels /\ 3 \in Levels /\ \A l \in Levels : l = 1 \/ l = 2 \/ l = 3
  BY DEF Levels
<1>3. /\ Table(slots, used, 1, va) = First(used)
      /\ Table(slots, used, 2, va) = Down(slots, Table(slots, used, 1, va), 1, va)
      /\ Table(slots, used, 3, va) = Down(slots, Table(slots, used, 2, va), 2, va)
  <2>1. 1 \in 1 .. 2 /\ 2 \in 1 .. 2 /\ 1 + 1 = 2 /\ 2 + 1 = 3
    OBVIOUS
  <2> QED BY <2>1, TableStep
<1>4. ASSUME NEW f
      PROVE  /\ Step(f, 1) = First(used)
             /\ Step(f, 2) = Down(slots, f[1], 1, va)
             /\ Step(f, 3) = Down(slots, f[2], 2, va)
  <2>1. Step(f, 1) = First(used)
    BY DEF First
  <2>2. Step(f, 2) = Down(slots, f[1], 1, va)
    <3>1. 2 # 1 /\ 2 - 1 = 1
      OBVIOUS
    <3> QED BY <3>1 DEF Down
  <2>3. Step(f, 3) = Down(slots, f[2], 2, va)
    <3>1. 3 # 1 /\ 3 - 1 = 2
      OBVIOUS
    <3> QED BY <3>1 DEF Down
  <2> QED BY <2>1, <2>2, <2>3
<1>5. g[1] = Table(slots, used, 1, va) /\ g[2] = Table(slots, used, 2, va) /\ g[3] = Table(slots, used, 3, va)
  BY <1>2
<1> HIDE DEF Step
<1>6. Is(g)
  <2>1. \A l \in Levels : Table(slots, used, l, va) = Step(g, l)
    <3> HIDE DEF g
    <3> QED BY <1>2, <1>3, <1>4, <1>5
  <2> QED BY <2>1
<1>7. ASSUME NEW f, Is(f)
      PROVE  f = g
  <2>1. f[1] = Step(f, 1) /\ f[2] = Step(f, 2) /\ f[3] = Step(f, 3)
    BY <1>2, <1>7
  <2>2. f[1] = g[1] /\ f[2] = g[2] /\ f[3] = g[3]
    <3> HIDE DEF g
    <3> QED BY <1>3, <1>4, <1>5, <2>1
  <2>3. f = [l \in Levels |-> f[l]] /\ g = [l \in Levels |-> g[l]]
    BY <1>7
  <2>4. \A l \in Levels : f[l] = g[l]
    BY <1>2, <2>2
  <2> HIDE DEF g
  <2> QED BY <2>3, <2>4
<1> HIDE DEF Is, g
<1>8. (CHOOSE f : Is(f)) = g
  <2>1. Is(CHOOSE f : Is(f))
    BY <1>6
  <2> QED BY <1>7, <2>1
<1> QED BY <1>1, <1>8 DEF g

LEMMA LeavesAre ==
  ASSUME NEW va
  PROVE  LeavesAt(va) = {[level |-> l, leaf |-> SlotAt(slots, used, l, va)] : l \in
                            {l \in Levels : IsLeaf(slots, used, l, va)}}
<1> DEFINE at == TableAt(va)
<1>1. \A l \in Levels : at[l] = Table(slots, used, l, va)
  BY TableAtIs
<1>2. LeavesAt(va) = {[level |-> l, leaf |-> slots[at[l]][SlotOf(l, va)]] : l \in
            {l \in Levels : at[l] # NoWhere /\ slots[at[l]][SlotOf(l, va)].kind =
                               IF l = 3 THEN "table" ELSE "block"}}
  BY DEF LeavesAt
<1> HIDE DEF at
<1>3. \A l \in Levels : /\ slots[at[l]][SlotOf(l, va)] = SlotAt(slots, used, l, va)
                        /\ IsLeaf(slots, used, l, va) <=>
                              /\ at[l] # NoWhere
                              /\ slots[at[l]][SlotOf(l, va)].kind = IF l = 3 THEN "table" ELSE "block"
  BY <1>1 DEF SlotAt, IsLeaf
<1> QED BY <1>2, <1>3

\* The attributes of a page are those of its leaf.
AttrsRead ==
    \A p \in Space :
        /\ ~Mapped(p * PageSize) => AttrOf(p) = None
        /\ \A l \in Levels : IsLeaf(slots, used, l, p * PageSize) =>
                                AttrOf(p) = SlotAt(slots, used, l, p * PageSize).attr

LEMMA AttrsAre == AttrsRead
<1> SUFFICES ASSUME NEW p \in Space
             PROVE  /\ ~Mapped(p * PageSize) => AttrOf(p) = None
                    /\ \A l \in Levels : IsLeaf(slots, used, l, p * PageSize) =>
                                AttrOf(p) = SlotAt(slots, used, l, p * PageSize).attr
  BY DEF AttrsRead
<1> DEFINE va == p * PageSize
           leaves == LeavesAt(va)
<1>1. AttrOf(p) = IF leaves = {} THEN None ELSE (CHOOSE x \in leaves : TRUE).leaf.attr
  BY DEF AttrOf
<1>2. leaves = {[level |-> l, leaf |-> SlotAt(slots, used, l, va)] : l \in
                            {l \in Levels : IsLeaf(slots, used, l, va)}}
  BY LeavesAre
<1> HIDE DEF leaves, va
<1>3. ASSUME NEW l \in Levels, IsLeaf(slots, used, l, va)
      PROVE  AttrOf(p) = SlotAt(slots, used, l, va).attr
  <2>1. PICK r : r = [level |-> l, leaf |-> SlotAt(slots, used, l, va)]
    OBVIOUS
  <2>2. leaves = {r}
    BY <1>2, <1>3, <2>1, LeafOnce
  <2>3. leaves # {} /\ \A x \in leaves : x = r
    BY <2>2
  <2>4. (CHOOSE x \in leaves : TRUE) = r
    BY <2>3
  <2>5. r.leaf = SlotAt(slots, used, l, va)
    BY <2>1
  <2>6. AttrOf(p) = (CHOOSE x \in leaves : TRUE).leaf.attr
    BY <1>1, <2>3, Zenon
  <2>7. AttrOf(p) = r.leaf.attr
    BY <2>4, <2>6, Zenon
  <2> QED BY <2>5, <2>7, Zenon
<1>4. ASSUME ~Mapped(va)
      PROVE  AttrOf(p) = None
  <2>1. leaves = {}
    BY <1>2, <1>4 DEF Mapped
  <2> QED BY <1>1, <2>1
<1> QED BY <1>3, <1>4 DEF va

LEMMA AttrsNext == AttrsRead'
<1>1. AttrsRead
  BY AttrsAre
<1> QED BY <1>1, PTL

\* A page is a run of addresses with one leaf.
LEMMA SpaceIs ==
  ASSUME NEW p \in Space
  PROVE  /\ p \in Nat /\ p * PageSize \in Addresses /\ p * PageSize \in Nat
         /\ PageDown(p * PageSize) = p
         /\ (p + 1) * PageSize = p * PageSize + PageSize
         /\ \A y \in Addresses :
               /\ y \in Nat /\ PageDown(y) \in Nat
               /\ PageDown(y) = p <=> p * PageSize <= y /\ y < p * PageSize + PageSize
               /\ PageDown(y) = p => \A l \in Levels : Together(l, p * PageSize, y)
<1> DEFINE n == SlotCount
           s == PageSize
           x == p * s
<1>1. n \in Nat /\ s \in Nat /\ s >= 1 /\ Limit \in Nat
  BY SizesAre
<1>2. p \in Nat /\ p < n * n * n /\ n * n * n \in Nat
  <2>1. Space = 0 .. n * n * n - 1
    BY DEF Space
  <2>2. n * n * n \in Nat
    <3> HIDE DEF n
    <3> QED BY <1>1
  <2> DEFINE m == n * n * n
  <2> HIDE DEF m
  <2> QED BY <2>1, <2>2 DEF m
<1>3. Limit = (n * n * n) * s
  <2>1. Limit = Size(1) * n /\ Size(1) = Size(2) * n /\ Size(2) = Size(3) * n /\ Size(3) = s
    BY SizesAre
  <2> DEFINE a == Size(1)
             b == Size(2)
  <2> HIDE DEF a, b, n, s
  <2>2. Limit = a * n /\ a = b * n /\ b = s * n
    BY <2>1 DEF a, b
  <2> QED BY <1>1, <2>2
<1>4. x \in Nat /\ x < Limit /\ (p + 1) * s = x + s
  <2> DEFINE m == n * n * n
  <2>1. m \in Nat /\ p < m /\ Limit = m * s
    BY <1>2, <1>3
  <2> HIDE DEF m
  <2>2. p * s \in Int /\ (p + 1) * s = p * s + s /\ p * s >= 0 /\ p * s + s <= m * s
    <3>1. p \in Int /\ m \in Int /\ s \in Nat /\ s >= 1 /\ p < m /\ p >= 0
      BY <1>1, <1>2, <2>1
    <3> HIDE DEF s
    <3> QED BY <3>1, ProductsOrder
  <2> DEFINE y == m * s
  <2> HIDE DEF x, s, y
  <2>3. x \in Int /\ (p + 1) * s = x + s /\ x >= 0 /\ x + s <= y /\ Limit = y
    BY <2>1, <2>2 DEF x, y
  <2> QED BY <1>1, <2>3
<1>5. x \in Addresses
  <2> HIDE DEF x
  <2> QED BY <1>1, <1>4 DEF Addresses
<1>6. ASSUME NEW y \in Addresses
      PROVE  /\ y \in Nat /\ PageDown(y) \in Nat
             /\ PageDown(y) = p <=> x <= y /\ y < x + s
             /\ PageDown(y) = p => \A l \in Levels : Together(l, x, y)
  <2>1. y \in Nat
    BY <1>1 DEF Addresses
  <2>2. /\ PageDown(y) \in Nat
        /\ PageDown(y) <= p <=> y < x + s
        /\ p <= PageDown(y) <=> x <= y
    BY <1>2, <2>1, PageIs
  <2>3. /\ PageDown(x) \in Nat
        /\ PageDown(x) <= p <=> x < x + s
        /\ p <= PageDown(x) <=> x <= x
    BY <1>2, <1>4, PageIs
  <2>4. PageDown(x) = p
    <3> HIDE DEF x, s
    <3> QED BY <1>1, <1>2, <1>4, <2>3
  <2>5. PageDown(y) = p => Together(3, x, y)
    <3>1. PageDown(x) = x \div Size(3) /\ PageDown(y) = y \div Size(3)
      BY SizesAre DEF PageDown
    <3> HIDE DEF x
    <3> QED BY <2>4, <3>1 DEF Together
  <2>6. \A l \in Levels : 3 \in Levels /\ l \in 0 .. 3
    BY DEF Levels
  <2>7. PageDown(y) = p => \A l \in Levels : Together(l, x, y)
    <3> HIDE DEF x
    <3> QED BY <1>5, <2>5, <2>6, Nested
  <2> HIDE DEF x, s
  <2> QED BY <1>1, <1>2, <1>4, <2>1, <2>2, <2>7
<1>7. PageDown(x) = p
  <2>1. PageDown(x) = p <=> x <= x /\ x < x + s
    BY <1>5, <1>6
  <2> HIDE DEF x, s
  <2> QED BY <1>1, <1>4, <2>1
<1> QED BY <1>2, <1>4, <1>5, <1>6, <1>7

\* The plan's claims on a page.
Claims(p) == {board.plan[i].template : i \in {i \in DOMAIN board.plan : Touches(board.plan[i].region, p)}}

LEMMA WantedIs ==
  ASSUME board \in Boards, NEW p \in Space
  PROVE  Wanted(p) = IF Claims(p) # {} THEN Claims(p)
                     ELSE IF FirstPage(board.memory) <= p /\ p < LastPage(board.memory) THEN {Normal}
                     ELSE IF p < LastPage(Devices) THEN {Device}
                     ELSE {None}
<1> DEFINE start == p * PageSize
           end == (p + 1) * PageSize
           Meets(r) == Max({r.base, start}) < Min({End(r), end})
           claims == {board.plan[i].template : i \in {i \in DOMAIN board.plan : Meets(board.plan[i].region)}}
           b == board.memory.base
           e == End(board.memory)
<1>1. p \in Nat /\ start \in Nat /\ end = start + PageSize /\ PageSize \in Nat /\ PageSize >= 1 /\ end \in Nat
  <2>1. p \in Nat /\ start \in Nat /\ end = start + PageSize /\ PageSize \in Nat /\ PageSize >= 1
    BY SpaceIs, SizesAre
  <2> HIDE DEF start, end
  <2> QED BY <2>1
<1>2. Wanted(p) = IF claims # {} THEN claims
                  ELSE IF b <= start /\ end <= e THEN {Normal}
                  ELSE IF end <= b THEN {Device}
                  ELSE {None}
  BY DEF Wanted
<1>3. ASSUME NEW r \in Regions
      PROVE  Meets(r) <=> Touches(r, p)
  <2>1. r.base \in Nat /\ r.size \in Nat /\ End(r) = r.base + r.size /\ End(r) \in Nat
    BY DEF Regions, End
  <2>2. \A u, v \in Nat : /\ Max({u, v}) = IF u >= v THEN u ELSE v
                          /\ Min({u, v}) = IF u <= v THEN u ELSE v
    BY LargerIs
  <2>3. Touches(r, p) <=> r.size > 0 /\ r.base < end /\ start < End(r)
    BY DEF Touches
  <2>4. Meets(r) <=> Max({r.base, start}) < Min({End(r), end})
    OBVIOUS
  <2> HIDE DEF start, end, Meets
  <2>5. /\ Max({r.base, start}) = IF r.base >= start THEN r.base ELSE start
        /\ Min({End(r), end}) = IF End(r) <= end THEN End(r) ELSE end
    BY <1>1, <2>1, <2>2
  <2> DEFINE x == r.base
             z == r.size
             y == End(r)
  <2>6. x \in Nat /\ z \in Nat /\ y = x + z
    BY <2>1
  <2>7. Max({x, start}) = (IF x >= start THEN x ELSE start) /\ Min({y, end}) = IF y <= end THEN y ELSE end
    BY <2>5
  <2>8. (Meets(r) <=> Max({x, start}) < Min({y, end})) /\ (Touches(r, p) <=> z > 0 /\ x < end /\ start < y)
    BY <2>3, <2>4
  <2> HIDE DEF x, y, z
  <2> QED BY <1>1, <2>6, <2>7, <2>8
<1>4. claims = Claims(p)
  <2>1. \A i \in DOMAIN board.plan : board.plan[i].region \in Regions
    BY BoardIs
  <2>2. \A i \in DOMAIN board.plan : Meets(board.plan[i].region) <=> Touches(board.plan[i].region, p)
    BY <1>3, <2>1
  <2> HIDE DEF Meets
  <2> QED BY <2>2 DEF Claims
<1>5. /\ b <= start <=> FirstPage(board.memory) <= p
      /\ end <= e <=> p < LastPage(board.memory)
      /\ end <= b <=> p < LastPage(Devices)
  <2>1. b \in Nat /\ e \in Nat /\ End(Devices) = b
    BY BoardIs
  <2>2. PageUp(b) <= p <=> b <= start
    BY <1>1, <2>1, PageIs
  <2>3. \A a \in Nat : p < PageDown(a) <=> end <= a
    <3> SUFFICES ASSUME NEW a \in Nat PROVE p < PageDown(a) <=> end <= a
      OBVIOUS
    <3>1. p + 1 \in Nat
      BY <1>1
    <3>2. PageDown(a) \in Nat /\ (p + 1 <= PageDown(a) <=> end <= a)
      BY <3>1, PageIs
    <3> HIDE DEF end
    <3> QED BY <1>1, <3>2
  <2>4. FirstPage(board.memory) = PageUp(b) /\ LastPage(board.memory) = PageDown(e)
        /\ LastPage(Devices) = PageDown(b)
    BY <2>1 DEF FirstPage, LastPage
  <2> HIDE DEF b, e, start, end
  <2> QED BY <2>1, <2>2, <2>3, <2>4
<1> HIDE DEF claims, start, end, b, e
<1> QED BY <1>2, <1>4, <1>5

\* A region that touches a page has a byte there.
LEMMA ByteIn ==
  ASSUME NEW p \in Space, NEW r \in Regions, End(r) <= Limit, Touches(r, p)
  PROVE  \E y \in Addresses : PageDown(y) = p /\ InRegion(r, y)
<1> DEFINE start == p * PageSize
           x == r.base
           z == r.size
           y == IF x >= start THEN x ELSE start
<1>1. /\ start \in Nat /\ (p + 1) * PageSize = start + PageSize /\ PageSize \in Nat /\ PageSize >= 1
      /\ Limit \in Nat
  BY SpaceIs, SizesAre
<1>2. x \in Nat /\ z \in Nat /\ End(r) = x + z
  BY DEF Regions, End
<1>3. z > 0 /\ x < start + PageSize /\ start < x + z /\ x + z <= Limit
  BY <1>1, <1>2 DEF Touches
<1>4. \A v \in Addresses : PageDown(v) = p <=> start <= v /\ v < start + PageSize
  BY SpaceIs
<1>5. \A v : InRegion(r, v) <=> x <= v /\ v < x + z
  BY <1>2 DEF InRegion
<1> HIDE DEF start, x, z
<1>6. y \in Nat /\ start <= y /\ y < start + PageSize /\ x <= y /\ y < x + z /\ y < Limit
  BY <1>1, <1>2, <1>3
<1> HIDE DEF y
<1>7. y \in Addresses
  BY <1>1, <1>6 DEF Addresses
<1> QED BY <1>4, <1>5, <1>6, <1>7

LEMMA SourceIs ==
  ASSUME board \in Boards
  PROVE  /\ DOMAIN board.plan \subseteq Sources /\ MemoryFill \in Sources /\ DeviceFill \in Sources
         /\ \A s \in Sources :
               \/ /\ s \in DOMAIN board.plan /\ s # MemoryFill /\ s # DeviceFill
                  /\ Owner(s) = board.plan[s].template
                  /\ \A x \in Addresses : Owns(s, x) <=> /\ board.plan[s].template # None
                                                         /\ InRegion(board.plan[s].region, x)
               \/ /\ s = MemoryFill /\ s # DeviceFill /\ Owner(s) = Normal
                  /\ \A x \in Addresses : Owns(s, x) <=> /\ FirstPage(board.memory) <= PageDown(x)
                                                         /\ PageDown(x) < LastPage(board.memory)
                                                         /\ Unclaimed(PageDown(x))
               \/ /\ s = DeviceFill /\ Owner(s) = Device
                  /\ \A x \in Addresses : Owns(s, x) <=> PageDown(x) < LastPage(Devices)
<1>1. DOMAIN board.plan = 1 .. Len(board.plan) /\ Len(board.plan) \in Nat
  BY BoardIs
<1>2. DOMAIN board.plan \subseteq Sources /\ MemoryFill \in Sources /\ DeviceFill \in Sources
  BY <1>1 DEF Sources, MemoryFill, DeviceFill
<1> SUFFICES ASSUME NEW s \in Sources
             PROVE  \/ /\ s \in DOMAIN board.plan /\ s # MemoryFill /\ s # DeviceFill
                       /\ Owner(s) = board.plan[s].template
                       /\ \A x \in Addresses : Owns(s, x) <=> /\ board.plan[s].template # None
                                                              /\ InRegion(board.plan[s].region, x)
                    \/ /\ s = MemoryFill /\ s # DeviceFill /\ Owner(s) = Normal
                       /\ \A x \in Addresses : Owns(s, x) <=> /\ FirstPage(board.memory) <= PageDown(x)
                                                              /\ PageDown(x) < LastPage(board.memory)
                                                              /\ Unclaimed(PageDown(x))
                    \/ /\ s = DeviceFill /\ Owner(s) = Device
                       /\ \A x \in Addresses : Owns(s, x) <=> PageDown(x) < LastPage(Devices)
  BY <1>2
<1>3. \/ s \in DOMAIN board.plan /\ s # MemoryFill /\ s # DeviceFill
      \/ s = MemoryFill /\ s # DeviceFill /\ s \notin DOMAIN board.plan
      \/ s = DeviceFill /\ s # MemoryFill /\ s \notin DOMAIN board.plan
  BY <1>1 DEF Sources, MemoryFill, DeviceFill
<1> QED BY <1>3 DEF Owns, Owner

\* A page is mapped for one source that asked for all of it, or not at all.
LEMMA PageIsMapped ==
  ASSUME IInv, NEW p \in Space
  PROVE  \/ AttrOf(p) = None /\ ~Mapped(p * PageSize)
         \/ \E s \in Sources : /\ AttrOf(p) = Owner(s)
                               /\ \A y \in Addresses : PageDown(y) = p => Asked(s, y)
<1>1. p * PageSize \in Addresses
      /\ \A y \in Addresses : PageDown(y) = p => \A l \in Levels : Together(l, p * PageSize, y)
  BY SpaceIs
<1>2. CASE ~Mapped(p * PageSize)
  BY <1>2, AttrsAre DEF AttrsRead
<1>3. CASE Mapped(p * PageSize)
  <2>1. PICK l \in Levels : IsLeaf(slots, used, l, p * PageSize)
    BY <1>3 DEF Mapped
  <2>2. PICK s \in Sources : LeafOf(s, l, p * PageSize)
    BY <1>1, <2>1 DEF IInv, LeavesAsked
  <2>3. AttrOf(p) = Owner(s)
    BY <2>1, <2>2, AttrsAre DEF AttrsRead, LeafOf
  <2>4. \A y \in Addresses : PageDown(y) = p => Asked(s, y)
    BY <1>1, <2>2 DEF LeafOf
  <2> QED BY <2>3, <2>4
<1> QED BY <1>2, <1>3

\* A page with a byte that has been asked for has that byte's owner.
LEMMA AskedIsMapped ==
  ASSUME IInv, NEW p \in Space, NEW s \in Sources, NEW y \in Addresses, PageDown(y) = p, Asked(s, y)
  PROVE  AttrOf(p) = Owner(s)
<1>1. p * PageSize \in Addresses /\ \A l \in Levels : Together(l, p * PageSize, y)
  BY SpaceIs
<1>2. PICK l \in Levels : IsLeaf(slots, used, l, y) /\ LeafOf(s, l, y)
  BY DEF IInv, AskedMapped
<1>3. SlotAt(slots, used, l, p * PageSize) = SlotAt(slots, used, l, y)
      /\ IsLeaf(slots, used, l, p * PageSize)
  BY <1>1, <1>2, SlotSame
<1> QED BY <1>2, <1>3, AttrsAre DEF AttrsRead, LeafOf

LEMMA MappedToItself ==
  ASSUME IInv, NEW p \in Space
  PROVE  Translation(p * PageSize) \subseteq {p * PageSize}
<1>1. PICK x : x = p * PageSize
  OBVIOUS
<1>2. x \in Addresses /\ x \in Nat
  BY <1>1, SpaceIs
<1>3. ASSUME NEW l \in Levels, IsLeaf(slots, used, l, x)
      PROVE  SlotAt(slots, used, l, x).address + (x % Size(l)) = x
  <2>1. SlotAt(slots, used, l, x).address = Start(l, x)
    BY <1>2, <1>3 DEF IInv, LeavesAsked
  <2>2. x % Size(l) = x - Start(l, x) /\ Start(l, x) \in Nat
    BY <1>2, AreaIs
  <2> QED BY <1>2, <2>1, <2>2
<1>4. LeavesAt(x) = {[level |-> l, leaf |-> SlotAt(slots, used, l, x)] : l \in
                         {l \in Levels : IsLeaf(slots, used, l, x)}}
  BY LeavesAre
<1> SUFFICES ASSUME NEW z \in Translation(x) PROVE z = x
  BY <1>1
<1>5. PICK r \in LeavesAt(x) : z = r.leaf.address + (x % Size(r.level))
  BY DEF Translation
<1>6. PICK l \in Levels : IsLeaf(slots, used, l, x) /\ r = [level |-> l, leaf |-> SlotAt(slots, used, l, x)]
  BY <1>4, <1>5
<1>7. r.leaf = SlotAt(slots, used, l, x) /\ r.level = l
  BY <1>6
<1> QED BY <1>3, <1>5, <1>6, <1>7

\* A claim on a page the devices have too has a template.
LEMMA ClaimBelow ==
  ASSUME board \in Boards, NEW p \in Space, p < LastPage(Devices),
         NEW i \in DOMAIN board.plan, Touches(board.plan[i].region, p)
  PROVE  /\ board.plan[i].template # None
         /\ \E y \in Addresses : PageDown(y) = p /\ Owns(i, y)
<1> DEFINE r == board.plan[i].region
<1>1. /\ r \in Regions /\ r.base \in Nat /\ End(r) <= Limit /\ board.memory.base \in Nat
      /\ \/ board.memory.base <= r.base
         \/ board.plan[i].template # None
  BY BoardIs
<1>2. PICK y \in Addresses : PageDown(y) = p /\ InRegion(r, y)
  BY <1>1, ByteIn
<1>3. y < board.memory.base /\ y \in Nat
  <2>1. Owns(DeviceFill, y)
    BY <1>2, SourceIs
  <2> QED BY <2>1, FillsWithin, SpaceIs
<1>4. board.plan[i].template # None
  <2> HIDE DEF r
  <2>1. ~(board.memory.base <= r.base)
    BY <1>1, <1>2, <1>3 DEF InRegion
  <2> QED BY <1>1, <2>1
<1> QED BY <1>2, <1>4, SourceIs DEF Owns

\* What a page is mapped with is among what it may be.
LEMMA AttrWanted ==
  ASSUME IInv, NEW p \in Space
  PROVE  AttrOf(p) \in Wanted(p) \cup {None}
<1> DEFINE x == p * PageSize
<1>1. board \in Boards /\ x \in Addresses /\ PageDown(x) = p /\ x \in Nat
  BY SpaceIs DEF IInv, Stages
<1> HIDE DEF x
<1>2. CASE AttrOf(p) = None
  BY <1>2
<1>3. ASSUME NEW s \in Sources, AttrOf(p) = Owner(s),
             \A y \in Addresses : PageDown(y) = p => Asked(s, y)
      PROVE  AttrOf(p) \in Wanted(p)
  <2>1. \A y \in Addresses : PageDown(y) = p => Owns(s, y) /\ Reached(s, y)
    BY <1>3 DEF Asked
  <2>2. Owns(s, x)
    BY <1>1, <2>1
  <2>3. CASE /\ s \in DOMAIN board.plan
             /\ Owner(s) = board.plan[s].template
             /\ InRegion(board.plan[s].region, x)
    <3>1. Touches(board.plan[s].region, p)
      BY <1>1, <2>3, BoardIs, InTouches
    <3>2. Owner(s) \in Claims(p)
      BY <2>3, <3>1 DEF Claims
    <3> QED BY <1>1, <1>3, <3>2, WantedIs
  <2>4. CASE /\ Owner(s) = Normal /\ Unclaimed(p)
             /\ FirstPage(board.memory) <= p /\ p < LastPage(board.memory)
    <3>1. Claims(p) = {}
      BY <2>4 DEF Claims, Unclaimed
    <3> QED BY <1>1, <1>3, <2>4, <3>1, WantedIs
  <2>5. CASE s = DeviceFill /\ Owner(s) = Device /\ p < LastPage(Devices)
    <3>1. CASE Claims(p) = {}
      <4>1. ~(FirstPage(board.memory) <= p)
        <5>1. p \in Nat /\ board.memory.base \in Nat
          BY <1>1, SpaceIs, BoardIs
        <5>2. FirstPage(board.memory) <= p <=> board.memory.base <= x
          BY <5>1, PageIs DEF FirstPage, x
        <5>3. x < board.memory.base
          BY <1>1, <2>2, <2>5, FillsWithin
        <5> QED BY <1>1, <5>1, <5>2, <5>3
      <4> QED BY <1>1, <1>3, <2>5, <3>1, <4>1, WantedIs
    <3>2. CASE Claims(p) # {}
      <4>1. PICK i \in DOMAIN board.plan : Touches(board.plan[i].region, p)
        BY <3>2 DEF Claims
      <4>2. PICK y \in Addresses : PageDown(y) = p /\ Owns(i, y)
        BY <1>1, <2>5, <4>1, ClaimBelow
      <4>3. i \in Sources /\ i # DeviceFill /\ Owner(i) = board.plan[i].template
        <5>1. i \in Sources /\ MemoryFill \notin DOMAIN board.plan /\ DeviceFill \notin DOMAIN board.plan
          BY <1>1, SourceIs, BoardIs DEF MemoryFill, DeviceFill
        <5> QED BY <1>1, <5>1, SourceIs
      <4>4. pass = 2
        <5>1. DeviceFill \notin DOMAIN board.plan /\ DeviceFill # MemoryFill
          BY <1>1, BoardIs DEF DeviceFill, MemoryFill
        <5> QED BY <1>1, <2>1, <2>5, <5>1 DEF Reached
      <4>5. Asked(i, y)
        <5>1. Reached(i, y)
          BY <4>4 DEF Reached
        <5> QED BY <4>2, <4>3, <4>4, <5>1 DEF Asked
      <4>6. AttrOf(p) = board.plan[i].template
        BY <4>2, <4>3, <4>5, AskedIsMapped
      <4>7. AttrOf(p) \in Claims(p)
        BY <4>1, <4>6 DEF Claims
      <4> QED BY <1>1, <3>2, <4>7, WantedIs
    <3> QED BY <3>1, <3>2
  <2> QED BY <1>1, <2>2, <2>3, <2>4, <2>5, SourceIs
<1> QED BY <1>2, <1>3, PageIsMapped

\* Once init has mapped everything, a page is mapped with what it is to be.
LEMMA DoneWanted ==
  ASSUME IInv, phase = "done", NEW p \in Space
  PROVE  {AttrOf(p)} = Wanted(p)
<1> DEFINE x == p * PageSize
<1>1. board \in Boards /\ x \in Addresses /\ PageDown(x) = p /\ p \in Nat
  BY SpaceIs DEF IInv, Stages
<1> HIDE DEF x
<1>2. /\ pass = 2 /\ calls = <<>> /\ cursor >= LastPage(Devices) /\ cursor \in Nat /\ ~Overlaps(board.plan)
      /\ LastPage(Devices) \in Nat
  <2>1. LastPage(Devices) \in Nat
    <3>1. board.memory.base \in Nat /\ End(Devices) = board.memory.base
      BY <1>1, BoardIs
    <3> QED BY <1>1, <3>1, PageIs DEF LastPage
  <2> QED BY <2>1 DEF IInv, Stages
<1>3. ASSUME NEW s \in Sources, NEW y \in Addresses, PageDown(y) = p, Owns(s, y)
      PROVE  AttrOf(p) = Owner(s)
  <2>1. s = DeviceFill => p < cursor
    <3>1. s = DeviceFill => p < LastPage(Devices)
      BY <1>1, <1>3, SourceIs
    <3> QED BY <1>1, <1>2, <3>1
  <2>2. Reached(s, y)
    BY <1>1, <1>2, <1>3, <2>1, SourceIs DEF Reached
  <2>3. Asked(s, y)
    BY <1>2, <1>3, <2>2 DEF Asked, Open
  <2> QED BY <1>3, <2>3, AskedIsMapped
<1>4. ASSUME NEW s \in Sources, \A y \in Addresses : PageDown(y) = p => Asked(s, y),
             NEW i \in DOMAIN board.plan, Touches(board.plan[i].region, p)
      PROVE  board.plan[i].template # None
  <2> DEFINE r == board.plan[i].region
  <2>1. /\ r \in Regions /\ r.base \in Nat /\ End(r) \in Nat /\ End(r) <= Limit /\ board.memory.base \in Nat
        /\ DOMAIN board.plan = 1 .. Len(board.plan) /\ Len(board.plan) \in Nat
    BY <1>1, BoardIs
  <2>2. PICK y \in Addresses : PageDown(y) = p /\ InRegion(r, y)
    BY <1>4, <2>1, ByteIn
  <2>3. Owns(s, y)
    BY <1>4, <2>2 DEF Asked
  <2> SUFFICES ASSUME board.plan[i].template = None PROVE FALSE
    OBVIOUS
  <2>4. CASE s \in DOMAIN board.plan /\ board.plan[s].template # None /\ InRegion(board.plan[s].region, y)
    <3> DEFINE q == board.plan[s].region
    <3>1. q.base \in Nat /\ End(q) \in Nat /\ y \in Nat
      BY <1>1, <2>4, BoardIs, SpaceIs
    <3>2. s \in Nat /\ i \in Nat /\ s # i
      BY <2>1, <2>4
    <3>3. q.base < End(r) /\ r.base < End(q)
      <4>1. q.base <= y /\ y < End(q) /\ r.base <= y /\ y < End(r)
        BY <2>2, <2>4 DEF InRegion
      <4> HIDE DEF q, r
      <4> QED BY <2>1, <3>1, <4>1
    <3>4. i < s \/ s < i
      BY <3>2
    <3> QED BY <1>2, <2>4, <3>3, <3>4 DEF Overlaps
  <2>5. CASE Unclaimed(p)
    BY <1>4, <2>5 DEF Unclaimed
  <2>6. CASE p < LastPage(Devices)
    BY <1>1, <1>4, <2>6, ClaimBelow
  <2> QED BY <1>1, <2>2, <2>3, <2>4, <2>5, <2>6, SourceIs
<1>5. ASSUME NEW i \in DOMAIN board.plan, Touches(board.plan[i].region, p)
      PROVE  board.plan[i].template = AttrOf(p)
  <2>1. /\ board.plan[i].region \in Regions /\ End(board.plan[i].region) <= Limit
        /\ i \in Sources /\ i \in DOMAIN board.plan /\ Owner(i) = board.plan[i].template
    <3>1. i \in Sources /\ MemoryFill \notin DOMAIN board.plan /\ DeviceFill \notin DOMAIN board.plan
      BY <1>1, SourceIs, BoardIs DEF MemoryFill, DeviceFill
    <3> QED BY <1>1, <3>1, SourceIs, BoardIs
  <2>2. PICK y \in Addresses : PageDown(y) = p /\ InRegion(board.plan[i].region, y)
    BY <1>5, <2>1, ByteIn
  <2>3. CASE board.plan[i].template # None
    <3>1. Owns(i, y)
      BY <2>1, <2>2, <2>3 DEF Owns
    <3> QED BY <1>3, <2>1, <2>2, <3>1
  <2>4. CASE board.plan[i].template = None
    BY <1>4, <1>5, <2>4, PageIsMapped
  <2> QED BY <2>3, <2>4
<1>6. CASE Claims(p) # {}
  <2>1. Claims(p) = {AttrOf(p)}
    BY <1>5, <1>6 DEF Claims
  <2> QED BY <1>1, <1>6, <2>1, WantedIs
<1>7. CASE Claims(p) = {}
  <2>1. Unclaimed(p)
    BY <1>7 DEF Claims, Unclaimed
  <2>2. CASE FirstPage(board.memory) <= p /\ p < LastPage(board.memory)
    <3>1. Owns(MemoryFill, x) /\ MemoryFill \in Sources /\ Owner(MemoryFill) = Normal
      BY <1>1, <2>1, <2>2, SourceIs DEF Owns, Owner
    <3>2. AttrOf(p) = Normal
      BY <1>1, <1>3, <3>1
    <3> QED BY <1>1, <1>7, <2>2, <3>2, WantedIs
  <2>3. CASE ~(FirstPage(board.memory) <= p /\ p < LastPage(board.memory)) /\ p < LastPage(Devices)
    <3>1. Owns(DeviceFill, x) /\ DeviceFill \in Sources /\ Owner(DeviceFill) = Device
      BY <1>1, <2>3, SourceIs DEF Owns, Owner, DeviceFill, MemoryFill
    <3>2. AttrOf(p) = Device
      BY <1>1, <1>3, <3>1
    <3> QED BY <1>1, <1>7, <2>3, <3>2, WantedIs
  <2>4. CASE ~(FirstPage(board.memory) <= p /\ p < LastPage(board.memory)) /\ ~(p < LastPage(Devices))
    <3>1. Wanted(p) = {None}
      BY <1>1, <1>7, <2>4, WantedIs
    <3> QED BY <3>1, AttrWanted
  <2> QED BY <2>2, <2>3, <2>4
<1> QED BY <1>6, <1>7

\* Whatever is mapped is mapped to itself and as the plan or a fill wants it, at
\* every step of apply and map_range; when init turns the MMU on everything
\* wanted is mapped, and nothing else (mmu/mod.rs init, mmu/table.rs apply).
THEOREM MappingsArePlanned == Spec => []MappedAsPlanned
<1>1. IInv => MappedAsPlanned
  BY MappedToItself, AttrWanted, DoneWanted DEF MappedAsPlanned
<1> QED BY <1>1, Invariant, PTL

-------------------------------------------------------------------------------
(* The tables are a tree.                                                   *)

\* The slots of the tables t that link a table.
LinksOf(t) == {x \in t \X (0 .. SlotCount - 1) : slots[x[1]][x[2]].kind = "table"}

BelowOf(t) == {slots[x[1]][x[2]].address : x \in LinksOf(t)}

\* A link is on a walk to some address, and leads to a table the heap gave.
LEMMA LinkIs ==
  ASSUME IInv, NEW k \in 1 .. 2, NEW va \in Addresses, Table(slots, used, k, va) # NoWhere,
         NEW i \in 0 .. SlotCount - 1, slots[Table(slots, used, k, va)][i].kind = "table"
  PROVE  \E y \in Addresses : /\ Table(slots, used, k, y) = Table(slots, used, k, va) /\ SlotOf(k, y) = i
                              /\ Table(slots, used, k + 1, y) = slots[Table(slots, used, k, va)][i].address
                              /\ Table(slots, used, k + 1, y) \in 2 .. used
<1>1. k \in Levels /\ k + 1 \in Levels /\ 1 \in Levels /\ k + 1 # 1
  BY DEF Levels
<1>2. PICK y \in Addresses : Together(k - 1, va, y) /\ SlotOf(k, y) = i
  BY <1>1, SlotHas
<1>3. Table(slots, used, k, y) = Table(slots, used, k, va)
  BY <1>1, <1>2, TableSame
<1>4. Table(slots, used, k + 1, y) = Down(slots, Table(slots, used, k, y), k, y)
  BY TableStep
<1>5. /\ SlotAt(slots, used, k, y) = slots[Table(slots, used, k, va)][i]
      /\ Table(slots, used, k + 1, y) = slots[Table(slots, used, k, va)][i].address
  BY <1>2, <1>3, <1>4 DEF SlotAt, Down
<1>6. SlotAt(slots, used, k, y).address \in 1 .. used
  BY <1>3, <1>5 DEF IInv, Tree
<1>7. Table(slots, used, k + 1, y) \in 1 .. used /\ used \in Nat /\ used >= 1
  <2>1. used \in Nat
    BY <1>1, TreeIs DEF IInv
  <2> QED BY <1>5, <1>6, <2>1
<1>8. Table(slots, used, k + 1, y) # 1
  <2>1. Table(slots, used, 1, y) = Root /\ Root # NoWhere /\ Root = 1
    BY <1>7, TableStep DEF First, Root, NoWhere
  <2>2. \A l, m \in Levels, u, v \in Addresses :
          Table(slots, used, l, u) # NoWhere /\ Table(slots, used, l, u) = Table(slots, used, m, v)
              => l = m
    BY DEF IInv, Tree
  <2> QED BY <1>1, <2>1, <2>2
<1>9. Table(slots, used, k + 1, y) \in 2 .. used
  BY <1>7, <1>8
<1> QED BY <1>2, <1>3, <1>5, <1>9

\* The tables of a level, and the ones below.
\* The tables of a level.
OnLevel(l) == {Table(slots, used, l, va) : va \in Addresses} \ {NoWhere}

LEMMA BelowIs ==
  ASSUME IInv, used > 0, NEW k \in 1 .. 2, NEW m, m = k + 1, NEW t,
         t = OnLevel(k)
  PROVE  /\ BelowOf(t) = OnLevel(m)
         /\ \A x \in LinksOf(t) :
               \E y \in Addresses : /\ x = <<Table(slots, used, k, y), SlotOf(k, y)>>
                                    /\ Table(slots, used, m, y) = slots[x[1]][x[2]].address
                                    /\ Table(slots, used, m, y) # NoWhere
         /\ \A va \in Addresses : Table(slots, used, m, va) # NoWhere =>
               \E x \in LinksOf(t) : slots[x[1]][x[2]].address = Table(slots, used, m, va)
<1>1. k \in Levels /\ m \in Levels /\ used \in Nat /\ m = k + 1
  <2>1. k \in Levels /\ m \in Levels
    BY DEF Levels
  <2> QED BY <2>1, SizesAre, TreeIs DEF IInv
<1>2. ASSUME NEW va \in Addresses, Table(slots, used, m, va) # NoWhere
      PROVE  \E x \in LinksOf(t) : slots[x[1]][x[2]].address = Table(slots, used, m, va)
  <2>1. Table(slots, used, m, va) = Down(slots, Table(slots, used, k, va), k, va)
    BY TableStep
  <2>2. Table(slots, used, k, va) # NoWhere /\ slots[Table(slots, used, k, va)][SlotOf(k, va)].kind = "table"
        /\ Table(slots, used, m, va) = slots[Table(slots, used, k, va)][SlotOf(k, va)].address
    BY <1>2, <2>1 DEF Down
  <2>3. SlotOf(k, va) \in 0 .. SlotCount - 1 /\ Table(slots, used, k, va) \in t
    BY <1>1, <2>2, SlotIs DEF OnLevel
  <2>4. PICK x : x = <<Table(slots, used, k, va), SlotOf(k, va)>>
    OBVIOUS
  <2>5. x \in t \X (0 .. SlotCount - 1) /\ x[1] = Table(slots, used, k, va) /\ x[2] = SlotOf(k, va)
    BY <2>3, <2>4
  <2>6. x \in LinksOf(t)
    BY <2>2, <2>5 DEF LinksOf
  <2> QED BY <2>2, <2>5, <2>6
<1>3. ASSUME NEW x \in LinksOf(t)
      PROVE  \E y \in Addresses : /\ x = <<Table(slots, used, k, y), SlotOf(k, y)>>
                                  /\ Table(slots, used, m, y) = slots[x[1]][x[2]].address
                                  /\ Table(slots, used, m, y) # NoWhere
  <2>1. x = <<x[1], x[2]>> /\ x[1] \in t /\ x[2] \in 0 .. SlotCount - 1 /\ slots[x[1]][x[2]].kind = "table"
    BY DEF LinksOf
  <2>2. PICK va \in Addresses : x[1] = Table(slots, used, k, va) /\ Table(slots, used, k, va) # NoWhere
    BY <2>1 DEF OnLevel
  <2>3. PICK y \in Addresses : /\ Table(slots, used, k, y) = Table(slots, used, k, va) /\ SlotOf(k, y) = x[2]
                               /\ Table(slots, used, m, y) = slots[Table(slots, used, k, va)][x[2]].address
                               /\ Table(slots, used, m, y) \in 2 .. used
    BY <2>1, <2>2, LinkIs
  <2>4. Table(slots, used, m, y) # NoWhere
    BY <2>3 DEF NoWhere
  <2> QED BY <2>1, <2>2, <2>3, <2>4
<1>4. BelowOf(t) = OnLevel(m)
  <2>1. ASSUME NEW d \in BelowOf(t)
        PROVE  \E y \in Addresses : d = Table(slots, used, m, y) /\ d # NoWhere
    <3>1. PICK x \in LinksOf(t) : d = slots[x[1]][x[2]].address
      BY DEF BelowOf
    <3> QED BY <1>3, <3>1
  <2>2. ASSUME NEW va \in Addresses, Table(slots, used, m, va) # NoWhere
        PROVE  Table(slots, used, m, va) \in BelowOf(t)
    BY <1>2, <2>2 DEF BelowOf
  <2> QED BY <2>1, <2>2 DEF OnLevel
<1> QED BY <1>2, <1>3, <1>4

LEMMA TreeCounts ==
  ASSUME IInv, used > 0
  PROVE  LET level2 == BelowOf({Root})
             level3 == BelowOf(level2)
         IN  /\ {Root} \cup level2 \cup level3 = 1 .. used
             /\ Cardinality(LinksOf({Root})) + Cardinality(LinksOf(level2)) = used - 1
<1> DEFINE A == LinksOf({Root})
           B == LinksOf(OnLevel(2))
           F == [x \in A \cup B |-> slots[x[1]][x[2]].address]
<1>1. /\ used \in Nat /\ used >= 1 /\ SlotCount \in Nat /\ 0 \in Addresses
      /\ 1 \in Levels /\ 2 \in Levels /\ 3 \in Levels
  <2>1. 1 \in Levels /\ 2 \in Levels /\ 3 \in Levels /\ 0 \in Addresses /\ SlotCount \in Nat
    BY SizesAre DEF Levels
  <2>2. used \in Nat
    BY <2>1, TreeIs DEF IInv
  <2> QED BY <2>1, <2>2
<1>2. \A va \in Addresses : Table(slots, used, 1, va) = Root /\ Root = 1 /\ Root # NoWhere
  BY <1>1, TableStep DEF First, Root, NoWhere
<1>3. OnLevel(1) = {Root}
  BY <1>1, <1>2 DEF OnLevel
<1>4. \A l, m \in Levels, u, v \in Addresses :
         Table(slots, used, l, u) # NoWhere /\ Table(slots, used, l, u) = Table(slots, used, m, v)
             => l = m /\ Together(l - 1, u, v)
  BY DEF IInv, Tree
<1>5. /\ BelowOf({Root}) = OnLevel(2)
      /\ \A x \in A :
            \E y \in Addresses : /\ x = <<Table(slots, used, 1, y), SlotOf(1, y)>>
                                 /\ Table(slots, used, 2, y) = slots[x[1]][x[2]].address
                                 /\ Table(slots, used, 2, y) # NoWhere
      /\ \A va \in Addresses : Table(slots, used, 2, va) # NoWhere =>
            \E x \in A : slots[x[1]][x[2]].address = Table(slots, used, 2, va)
  <2>1. 1 \in 1 .. 2 /\ 2 = 1 + 1 /\ used > 0
    OBVIOUS
  <2>2. PICK t : t = {Root}
    OBVIOUS
  <2>3. t = OnLevel(1)
    BY <1>3, <2>2
  <2>4. /\ BelowOf(t) = OnLevel(2)
        /\ \A x \in LinksOf(t) :
              \E y \in Addresses : /\ x = <<Table(slots, used, 1, y), SlotOf(1, y)>>
                                   /\ Table(slots, used, 2, y) = slots[x[1]][x[2]].address
                                   /\ Table(slots, used, 2, y) # NoWhere
        /\ \A va \in Addresses : Table(slots, used, 2, va) # NoWhere =>
              \E x \in LinksOf(t) : slots[x[1]][x[2]].address = Table(slots, used, 2, va)
    BY <2>1, <2>3, BelowIs
  <2> QED BY <2>2, <2>4
<1>6. /\ BelowOf(OnLevel(2)) = OnLevel(3)
      /\ \A x \in B :
            \E y \in Addresses : /\ x = <<Table(slots, used, 2, y), SlotOf(2, y)>>
                                 /\ Table(slots, used, 3, y) = slots[x[1]][x[2]].address
                                 /\ Table(slots, used, 3, y) # NoWhere
      /\ \A va \in Addresses : Table(slots, used, 3, va) # NoWhere =>
            \E x \in B : slots[x[1]][x[2]].address = Table(slots, used, 3, va)
  <2>1. 2 \in 1 .. 2 /\ 3 = 2 + 1 /\ used > 0
    OBVIOUS
  <2>2. PICK t : t = OnLevel(2)
    OBVIOUS
  <2>3. t = OnLevel(2)
    BY <2>2
  <2>4. /\ BelowOf(t) = OnLevel(3)
        /\ \A x \in LinksOf(t) :
              \E y \in Addresses : /\ x = <<Table(slots, used, 2, y), SlotOf(2, y)>>
                                   /\ Table(slots, used, 3, y) = slots[x[1]][x[2]].address
                                   /\ Table(slots, used, 3, y) # NoWhere
        /\ \A va \in Addresses : Table(slots, used, 3, va) # NoWhere =>
              \E x \in LinksOf(t) : slots[x[1]][x[2]].address = Table(slots, used, 3, va)
    BY <2>1, <2>3, BelowIs
  <2> QED BY <2>2, <2>4
<1>7. \A l \in Levels, va \in Addresses : Table(slots, used, l, va) # NoWhere => Table(slots, used, l, va) \in 1 .. used
  BY TreeIs DEF IInv
<1>8. \A t \in 1 .. used : \E l \in Levels, va \in Addresses : Table(slots, used, l, va) = t /\ t # NoWhere
  BY DEF IInv, Tree, NoWhere
<1>9. {Root} \cup OnLevel(2) \cup OnLevel(3) = 1 .. used
  <2>1. \A t \in {Root} \cup OnLevel(2) \cup OnLevel(3) : t \in 1 .. used
    BY <1>1, <1>2, <1>7 DEF OnLevel
  <2>2. ASSUME NEW t \in 1 .. used
        PROVE  t \in OnLevel(1) \cup OnLevel(2) \cup OnLevel(3)
    <3>1. PICK l \in Levels, va \in Addresses : Table(slots, used, l, va) = t /\ t # NoWhere
      BY <1>8
    <3>2. t \in OnLevel(l)
      BY <3>1 DEF OnLevel
    <3> QED BY <3>2, LevelIs
  <2> QED BY <1>3, <2>1, <2>2
<1>10. ASSUME NEW x \in A \cup B
       PROVE  \E k \in 1 .. 2, y \in Addresses :
                 /\ x = <<Table(slots, used, k, y), SlotOf(k, y)>>
                 /\ F[x] = Table(slots, used, k + 1, y)
                 /\ Table(slots, used, k + 1, y) # NoWhere
  <2>1. F[x] = slots[x[1]][x[2]].address
    OBVIOUS
  <2>2. 1 \in 1 .. 2 /\ 2 \in 1 .. 2 /\ 1 + 1 = 2 /\ 2 + 1 = 3
    OBVIOUS
  <2> HIDE DEF A, B, F
  <2>3. CASE x \in A
    BY <1>5, <2>1, <2>2, <2>3
  <2>4. CASE x \in B
    BY <1>6, <2>1, <2>2, <2>4
  <2> QED BY <2>3, <2>4
<1>11. F \in [A \cup B -> 2 .. used]
  <2> SUFFICES ASSUME NEW x \in A \cup B PROVE F[x] \in 2 .. used
    OBVIOUS
  <2> HIDE DEF A, B, F
  <2>1. PICK k \in 1 .. 2, y \in Addresses : /\ F[x] = Table(slots, used, k + 1, y)
                                             /\ Table(slots, used, k + 1, y) # NoWhere
    BY <1>10
  <2>2. k + 1 \in Levels /\ k + 1 # 1
    BY DEF Levels
  <2>3. F[x] \in 1 .. used
    BY <1>7, <2>1, <2>2
  <2>4. F[x] # 1
    BY <1>1, <1>2, <1>4, <2>1, <2>2
  <2> QED BY <1>1, <2>3, <2>4
<1>12. ASSUME NEW x \in A \cup B, NEW z \in A \cup B, F[x] = F[z]
       PROVE  x = z
  <2> HIDE DEF A, B, F
  <2>1. PICK k \in 1 .. 2, u \in Addresses : /\ x = <<Table(slots, used, k, u), SlotOf(k, u)>>
                                             /\ F[x] = Table(slots, used, k + 1, u)
                                             /\ Table(slots, used, k + 1, u) # NoWhere
    BY <1>10
  <2>2. PICK m \in 1 .. 2, v \in Addresses : /\ z = <<Table(slots, used, m, v), SlotOf(m, v)>>
                                             /\ F[z] = Table(slots, used, m + 1, v)
    BY <1>10
  <2>3. k \in Levels /\ k + 1 \in Levels /\ m + 1 \in Levels /\ k + 1 - 1 = k
    BY DEF Levels
  <2>4. Table(slots, used, k + 1, u) = Table(slots, used, m + 1, v)
    BY <1>12, <2>1, <2>2
  <2>5. k + 1 = m + 1 /\ Together(k + 1 - 1, u, v)
    BY <1>4, <2>1, <2>3, <2>4
  <2>6. k = m /\ Together(k, u, v)
    BY <2>3, <2>5
  <2>7. Table(slots, used, k, u) = Table(slots, used, k, v) /\ SlotOf(k, u) = SlotOf(k, v)
    BY <2>3, <2>6, SlotSame
  <2> QED BY <2>1, <2>2, <2>6, <2>7
<1>13. ASSUME NEW t \in 2 .. used
       PROVE  \E x \in A \cup B : F[x] = t
  <2>1. t \in 1 .. used /\ t # 1
    BY <1>1
  <2>2. PICK l \in Levels, va \in Addresses : Table(slots, used, l, va) = t /\ t # NoWhere
    BY <1>8, <2>1
  <2>3. l # 1
    BY <1>2, <2>1, <2>2
  <2>4. \E x \in A \cup B : slots[x[1]][x[2]].address = t
    <3> HIDE DEF A, B
    <3> QED BY <1>5, <1>6, <2>2, <2>3, LevelIs
  <2> HIDE DEF A, B
  <2> QED BY <2>4
<1>14. IsFiniteSet(A) /\ IsFiniteSet(B) /\ A \cap B = {}
  <2>1. OnLevel(2) \subseteq 1 .. used /\ {Root} \subseteq 1 .. used /\ Root \notin OnLevel(2)
    <3>1. Root \notin OnLevel(2)
      BY <1>1, <1>2, <1>4 DEF OnLevel
    <3> QED BY <1>9, <3>1
  <2>2. IsFiniteSet((1 .. used) \X (0 .. SlotCount - 1))
    <3>1. IsFiniteSet(1 .. used) /\ IsFiniteSet(0 .. SlotCount - 1)
      BY <1>1, FS_Interval
    <3> QED BY <3>1, FS_Product
  <2>3. /\ A \in SUBSET ((1 .. used) \X (0 .. SlotCount - 1))
        /\ B \in SUBSET ((1 .. used) \X (0 .. SlotCount - 1))
    BY <2>1 DEF LinksOf
  <2>4. (\A x \in A : x[1] = Root) /\ (\A x \in B : x[1] \in OnLevel(2))
    BY DEF LinksOf
  <2> HIDE DEF A, B
  <2>5. A \cap B = {}
    BY <2>1, <2>4
  <2> QED BY <2>2, <2>3, <2>5, FS_Subset
<1> HIDE DEF A, B, F
<1>15. Cardinality(A \cup B) = used - 1 /\ IsFiniteSet(A \cup B)
  <2>1. IsFiniteSet(A \cup B)
    BY <1>14, FS_Union
  <2>2. F \in Bijection(A \cup B, 2 .. used)
    BY <1>11, <1>12, <1>13, Fun_IsBij
  <2>3. Cardinality(2 .. used) = Cardinality(A \cup B)
    BY <2>1, <2>2, FS_Bijection DEF ExistsBijection
  <2>4. Cardinality(2 .. used) = IF 2 > used THEN 0 ELSE used - 2 + 1
    BY <1>1, FS_Interval
  <2> QED BY <1>1, <2>1, <2>3, <2>4
<1>16. Cardinality(A) + Cardinality(B) = used - 1
  <2>1. /\ Cardinality(A \cup B) = Cardinality(A) + Cardinality(B) - Cardinality(A \cap B)
        /\ Cardinality(A) \in Nat /\ Cardinality(B) \in Nat
    BY <1>14, FS_Union, FS_CardinalityType
  <2>2. Cardinality(A \cap B) = 0
    BY <1>14, FS_EmptySet
  <2> QED BY <1>15, <2>1, <2>2
<1> QED BY <1>5, <1>6, <1>9, <1>16 DEF A, B

\* Every table the heap gave is linked from exactly one slot of a table one level
\* up, down to level 3, and all variables have their types (mmu/table.rs
\* map_range, child_table).
THEOREM TablesFormTree == Spec => []TablesAreTree
<1>1. ASSUME IInv
      PROVE  TablesAreTree
  <2>1. TypeOK
    <3>1. /\ phase \in {"new", "check", "map", "done"} \cup Failures
          /\ pass \in 1 .. 2 /\ next \in 1 .. Len(board.plan) + 1 /\ cursor \in Nat
          /\ calls \in Seq([table : 1 .. used, addr : Nat, end : Nat, level : Levels]) /\ Len(calls) <= 3
          /\ used \in 0 .. MaxTables
      BY <1>1 DEF IInv, Stages, CallsOK, Tree
    <3>2. ASSUME NEW t \in 1 .. used, NEW i \in 0 .. SlotCount - 1
          PROVE  slots[t][i].kind \in {"invalid", "block", "table"} /\ slots[t][i].address \in Nat
      <4>1. slots \in TableSlots /\ t \in 1 .. MaxTables
        <5>1. slots \in TableSlots /\ used \in 0 .. MaxTables
          BY <1>1 DEF IInv, Tree
        <5> QED BY <5>1, SizesAre
      <4>2. slots[t][i] \in Descriptors
        BY <4>1 DEF TableSlots
      <4> QED BY <4>2 DEF Descriptors
    <3> QED BY <3>1, <3>2 DEF TypeOK
  <2>2. ASSUME used > 0
        PROVE  LET level2 == BelowOf({Root})
                   level3 == BelowOf(level2)
               IN  /\ {Root} \cup level2 \cup level3 = 1 .. used
                   /\ Cardinality(LinksOf({Root})) + Cardinality(LinksOf(level2)) = used - 1
    BY <1>1, <2>2, TreeCounts
  <2> QED BY <2>1, <2>2 DEF TablesAreTree, BelowOf, LinksOf
<1> QED BY <1>1, Invariant, PTL

-------------------------------------------------------------------------------
(* What the hardware sees.                                                  *)

\* A step that leaves the leaves alone changes no attributes.
LEMMA SpaceStays ==
  ASSUME \A l \in Levels, va \in Addresses :
            /\ IsLeaf(slots', used', l, va) <=> IsLeaf(slots, used, l, va)
            /\ IsLeaf(slots, used, l, va) => SlotAt(slots', used', l, va) = SlotAt(slots, used, l, va)
  PROVE  \A p \in Space : AttrOf(p)' = AttrOf(p)
<1> SUFFICES ASSUME NEW p \in Space PROVE AttrOf(p)' = AttrOf(p)
  OBVIOUS
<1>1. PICK x \in Addresses : x = p * PageSize
  BY SpaceIs
<1>2. /\ ~Mapped(x) => AttrOf(p) = None
      /\ \A l \in Levels : IsLeaf(slots, used, l, x) => AttrOf(p) = SlotAt(slots, used, l, x).attr
  BY <1>1, AttrsAre DEF AttrsRead
<1>3. /\ ~Mapped(x)' => AttrOf(p)' = None
      /\ \A l \in Levels : IsLeaf(slots', used', l, x) => AttrOf(p)' = SlotAt(slots', used', l, x).attr
  BY <1>1, AttrsNext DEF AttrsRead
<1>4. CASE Mapped(x)
  <2>1. PICK l \in Levels : IsLeaf(slots, used, l, x)
    BY <1>4 DEF Mapped
  <2> QED BY <1>2, <1>3, <2>1
<1>5. CASE ~Mapped(x)
  <2>1. ~Mapped(x)'
    BY <1>5 DEF Mapped
  <2> QED BY <1>2, <1>3, <1>5, <2>1
<1> QED BY <1>4, <1>5

\* A leaf gives the pages of its slot, nothing before, the template.
LEMMA LeafAttrs ==
  ASSUME IInv, MapLeaf, NEW p \in Space
  PROVE  LET In == Here.addr <= p * PageSize /\ p * PageSize < ChunkEnd
         IN  /\ In => AttrOf(p) = None /\ AttrOf(p)' = template
             /\ ~In => AttrOf(p)' = AttrOf(p)
<1>1. PICK x \in Addresses : x = p * PageSize
  BY SpaceIs
<1>2. PICK k, a : k = Here.level /\ a = Here.addr
  OBVIOUS
<1>3. Turn /\ Fills /\ (Here.level < 3 => Slot.kind # "table")
  BY DEF MapLeaf
<1>4. /\ k \in Levels /\ a \in Nat /\ x \in Nat
      /\ Table(slots, used, k, a) # NoWhere /\ a = Start(k, a) /\ ChunkEnd = SlotEnd(k, a)
      /\ a \in Addresses
  <2>1. a = Start(k, a)
    BY <1>2, <1>3, TurnIs
  <2>2. ChunkEnd = SlotEnd(k, a)
    BY <1>2, <1>3 DEF Fills
  <2>3. x \in Nat
    BY SizesAre DEF Addresses
  <2> QED BY <1>2, <1>3, <2>1, <2>2, <2>3, TurnIs
<1>5. Together(k, a, x) <=> a <= x /\ x < ChunkEnd
  BY <1>4, AreaIs
<1>6. \A l \in Levels :
         /\ Table(slots', used', l, x) = Table(slots, used, l, x)
         /\ IsLeaf(slots', used', l, x) <=> IsLeaf(slots, used, l, x) \/ (l = k /\ Together(k, a, x))
         /\ Table(slots, used, l, x) # NoWhere =>
               SlotAt(slots', used', l, x)
                  = IF l = k /\ Together(k, a, x) THEN Leaf(k, a, template) ELSE SlotAt(slots, used, l, x)
  BY <1>2, LeafPut
<1>7. /\ ~Mapped(x) => AttrOf(p) = None
      /\ \A l \in Levels : IsLeaf(slots, used, l, x) => AttrOf(p) = SlotAt(slots, used, l, x).attr
  BY <1>1, AttrsAre DEF AttrsRead
<1>8. /\ ~Mapped(x)' => AttrOf(p)' = None
      /\ \A l \in Levels : IsLeaf(slots', used', l, x) => AttrOf(p)' = SlotAt(slots', used', l, x).attr
  BY <1>1, AttrsNext DEF AttrsRead
<1>9. ASSUME Together(k, a, x)
      PROVE  AttrOf(p) = None /\ AttrOf(p)' = template
  <2>1. ~Mapped(x)
    BY <1>2, <1>3, <1>9, Fresh
  <2>2. Table(slots, used, k, x) # NoWhere
    BY <1>4, <1>9, SlotSame
  <2>3. IsLeaf(slots', used', k, x) /\ SlotAt(slots', used', k, x) = Leaf(k, a, template)
    BY <1>4, <1>6, <1>9, <2>2
  <2>4. Leaf(k, a, template).attr = template
    BY DEF Leaf, Descriptor
  <2> QED BY <1>4, <1>7, <1>8, <2>1, <2>3, <2>4
<1>10. ASSUME ~Together(k, a, x)
       PROVE  AttrOf(p)' = AttrOf(p)
  <2>1. \A l \in Levels : /\ IsLeaf(slots', used', l, x) <=> IsLeaf(slots, used, l, x)
                          /\ IsLeaf(slots, used, l, x) =>
                                SlotAt(slots', used', l, x) = SlotAt(slots, used, l, x)
    BY <1>6, <1>10 DEF IsLeaf
  <2>2. CASE Mapped(x)
    <3>1. PICK l \in Levels : IsLeaf(slots, used, l, x)
      BY <2>2 DEF Mapped
    <3> QED BY <1>7, <1>8, <2>1, <3>1
  <2>3. CASE ~Mapped(x)
    <3>1. ~Mapped(x)'
      BY <2>1, <2>3 DEF Mapped
    <3> QED BY <1>7, <1>8, <2>3, <3>1
  <2> QED BY <2>2, <2>3
<1> QED BY <1>1, <1>2, <1>5, <1>9, <1>10

\* A leaf maps a run of pages that were unmapped.
LEMMA SpaceGrows ==
  ASSUME IInv, MapLeaf
  PROVE  AddressSpaces!Map
<1>1. PICK a, c, tem, old, new : /\ a = Here.addr /\ c = ChunkEnd /\ tem = template
                                 /\ old = [p \in Space |-> AttrOf(p)]
                                 /\ new = [p \in Space |-> AttrOf(p)']
  OBVIOUS
<1> DEFINE In(p) == a <= p * PageSize /\ p * PageSize < c
           changed == {p \in Space : new[p] # old[p]}
<1>2. a \in Nat /\ c \in Nat /\ PageSize \in Nat /\ PageSize >= 1 /\ tem # None /\ tem \in {Normal, Device} \cup Templates
  <2>1. Turn /\ calls # <<>>
    BY DEF MapLeaf, Turn
  <2>2. template # None /\ template \in Attributes
    BY <2>1 DEF IInv, Stages, Current
  <2> QED BY <1>1, <2>1, <2>2, TurnIs, SizesAre DEF Attributes
<1>3. \A p \in Space : /\ In(p) => old[p] = None /\ new[p] = tem
                       /\ ~In(p) => new[p] = old[p]
  BY <1>1, LeafAttrs
<1>4. \A p \in Space : p \in changed <=> In(p)
  BY <1>2, <1>3
<1>5. ASSUME NEW p \in changed, NEW q \in changed, NEW m \in p .. q
      PROVE  m \in changed
  <2>1. p \in Space /\ q \in Space /\ In(p) /\ In(q)
    BY <1>4
  <2>2. p \in Nat /\ q \in Nat /\ m \in Nat /\ p <= m /\ m <= q
    <3>1. p \in Nat /\ q \in Nat
      BY <2>1, SpaceIs
    <3> QED BY <3>1
  <2>3. m \in Space
    <3>1. PICK n : n = SlotCount * SlotCount * SlotCount - 1
      OBVIOUS
    <3>2. Space = 0 .. n /\ n \in Int
      <4>1. SlotCount * SlotCount * SlotCount \in Int
        BY SizesAre
      <4> QED BY <3>1, <4>1 DEF Space
    <3> QED BY <2>1, <2>2, <3>2
  <2>4. /\ p * PageSize \in Int /\ q * PageSize \in Int /\ m * PageSize \in Int
        /\ p * PageSize <= m * PageSize /\ m * PageSize <= q * PageSize
    BY <1>2, <2>2, ProductsOrder
  <2>5. In(m)
    BY <1>2, <2>1, <2>4
  <2> HIDE DEF changed, In
  <2> QED BY <1>4, <2>3, <2>5
<1>6. /\ DOMAIN new = Space
      /\ \A p \in changed : old[p] = None /\ new[p] \in {Normal, Device} \cup Templates
      /\ \A p, q \in changed : p .. q \subseteq changed /\ new[p] = new[q]
  <2>1. DOMAIN new = Space
    BY <1>1
  <2> HIDE DEF In
  <2>2. \A p \in changed : old[p] = None /\ new[p] = tem
    BY <1>3, <1>4
  <2> HIDE DEF changed
  <2> QED BY <1>2, <1>5, <2>1, <2>2
<1> QED BY <1>1, <1>6 DEF AddressSpaces!Map

\* The hardware sees an address space that only grows: a step of init maps a run
\* of pages nothing was mapped to, all alike, or none, and no mapping is rewritten
\* (mmu/table.rs map_range, child_table).
THEOREM MmuImplementsAddressSpace == Spec => ImplementsAddressSpace
<1>1. Init => AddressSpaces!Init
  <2> SUFFICES ASSUME Init PROVE AddressSpaces!Init
    OBVIOUS
  <2>1. slots \in TableSlots /\ used = 0
    BY InitHolds DEF Init, IInv, Tree
  <2>2. \A va \in Addresses : ~Mapped(va)
    BY <2>1, NoTree DEF Mapped
  <2>3. \A p \in Space : AttrOf(p) = None
    BY <2>2, SpaceIs, AttrsAre DEF AttrsRead
  <2> QED BY <2>3 DEF AddressSpaces!Init
<1>2. IInv /\ [Next]_vars => [AddressSpaces!Map]_([p \in Space |-> AttrOf(p)])
  <2> SUFFICES ASSUME IInv, [Next]_vars, ~MapLeaf
               PROVE  \A p \in Space : AttrOf(p)' = AttrOf(p)
    BY SpaceGrows
  <2>1. CASE Grow
    <3>1. \A l \in Levels, va \in Addresses :
             /\ IsLeaf(slots', used', l, va) <=> IsLeaf(slots, used, l, va)
             /\ IsLeaf(slots, used, l, va) => SlotAt(slots', used', l, va) = SlotAt(slots, used, l, va)
      BY <2>1, TableGrown
    <3> QED BY <3>1, SpaceStays
  <2>2. CASE NewRoot
    <3>1. \A l \in Levels, va \in Addresses :
             /\ IsLeaf(slots', used', l, va) <=> IsLeaf(slots, used, l, va)
             /\ IsLeaf(slots, used, l, va) => SlotAt(slots', used', l, va) = SlotAt(slots, used, l, va)
      BY <2>2, RootPut
    <3> QED BY <3>1, SpaceStays
  <2>3. CASE ~Grow /\ ~NewRoot
    <3>1. UNCHANGED tree
      BY <2>3 DEF Next, vars, NoTable, Apply, Refuse, MapPlanned, LeaveUnmapped, SkipClaimed, MapGap,
                  Applied, InTheWay, Unaligned, Descend, OutOfMemory, Return, Fail
    <3>2. slots' = slots /\ used' = used
      BY <3>1 DEF tree
    <3>3. \A l \in Levels, va \in Addresses :
             /\ IsLeaf(slots', used', l, va) <=> IsLeaf(slots, used, l, va)
             /\ IsLeaf(slots, used, l, va) => SlotAt(slots', used', l, va) = SlotAt(slots, used, l, va)
      BY <3>2
    <3> QED BY <3>3, SpaceStays
  <2> QED BY <2>1, <2>2, <2>3
<1> QED BY <1>1, <1>2, Invariant, PTL DEF Spec, ImplementsAddressSpace, AddressSpaces!Spec
===============================================================================
