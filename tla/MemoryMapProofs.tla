---------------------------- MODULE MemoryMapProofs ----------------------------
(***************************************************************************)
(* That what the memory map gives to the frame allocator is what nobody    *)
(* reserved, in runs as long as they can be, and that the array of page    *)
(* entries lies apart from it and from everything reserved before: for     *)
(* every memory, page size, entry size and sequence of reservations.       *)
(***************************************************************************)
EXTENDS MemoryMap, Lemmas, SequenceTheorems

-------------------------------------------------------------------------------
(* The inductive invariant.                                                 *)

Regions == [base : Nat, size : Nat]

\* An arena begins and ends with a page.
InPages(ar) ==
    /\ ar \in Regions
    /\ FirstPage(ar) \in Nat /\ LastPage(ar) \in Nat
    /\ FirstPage(ar) <= LastPage(ar)
    /\ ar.base = FirstPage(ar) * PageSize
    /\ End(ar) = LastPage(ar) * PageSize

\* The pages no region claims.
FreeOf(ar, tk) == {p \in FirstPage(ar) .. LastPage(ar) - 1 : Containing(ar, tk, p) = {}}

\* A run that ends here is as long as it can be.
Edge(ar, tk, p) == p = LastPage(ar) \/ Containing(ar, tk, p) # {}

Typed ==
    /\ phase \in Phases
    /\ InPages(arena)
    /\ entries \in Regions
    /\ reserved \in Seq(Regions) /\ Len(reserved) <= MaxReserved
    /\ cursor \in Nat
    /\ runs \in Seq([start : Nat, end : Nat])

\* The iterator is in the arena, and there is an arena.
CursorInside ==
    /\ phase \in {"placing", "seeding", "ready"} => FirstPage(arena) < LastPage(arena)
    /\ phase \in {"placing", "seeding"} => cursor \in FirstPage(arena) .. LastPage(arena)

\* The search has passed no run that would do, and ends at one at address 0.
Tried(bound) == \A p \in FreePages : p < bound => ~(p .. p + Needed - 1 \subseteq FreePages)

Searching ==
    /\ phase = "placing" => Tried(cursor)
    /\ phase = "unplaceable" /\ arena.size \div PageSize \in 1 .. MaxPages =>
         Tried(LastPage(arena)) \/ 0 \in Places

\* Everything free before the cursor is seeded.
Seeding ==
    /\ phase \notin {"seeding", "ready"} => runs = <<>>
    /\ phase = "seeding" => Seeded = {p \in FreePages : p < cursor}
    /\ phase = "ready" => Seeded = FreePages

\* Each run ends at an edge, behind which the cursor is.
RunsApart ==
    \A i \in 1 .. Len(runs) :
        /\ runs[i].start < runs[i].end
        /\ i > 1 => runs[i - 1].end < runs[i].start
        /\ Edge(arena, Taken, runs[i].end)
        /\ phase = "seeding" => runs[i].end <= cursor

\* The array is whole pages of the arena, reserved last and apart from the rest.
PlacedAt(s) ==
    /\ FirstPage(arena) <= s /\ s + Needed <= LastPage(arena)
    /\ entries.base = s * PageSize /\ End(entries) = (s + Needed) * PageSize
    /\ Len(reserved) > 0 /\ reserved[Len(reserved)] = entries
    /\ \A i \in 1 .. Len(reserved) - 1 :
          LET r == reserved[i] IN r.size = 0 \/ End(r) <= entries.base \/ End(entries) <= r.base

Placed ==
    phase \in {"seeding", "ready"} =>
        /\ ~AtNull(entries)
        /\ \E s \in FirstPage(arena) .. LastPage(arena) : PlacedAt(s)

IInv == Typed /\ CursorInside /\ Searching /\ Seeding /\ RunsApart /\ Placed
-------------------------------------------------------------------------------
(* Addresses and pages.                                                     *)

LEMMA SizesAre ==
  /\ PageSize \in Nat /\ PageSize >= 1
  /\ EntrySize \in Nat /\ EntrySize >= 1
  /\ MaxReserved \in Nat /\ MaxPages \in Nat
  /\ Memories \subseteq Regions /\ Claims \subseteq Regions
  BY GapsAssumption, MemoryMapAssumption DEF Regions

LEMMA Scaled ==
  ASSUME NEW p \in Int, NEW q \in Int
  PROVE  /\ p * PageSize \in Int /\ (p + 1) * PageSize = p * PageSize + PageSize
         /\ p >= 0 => p * PageSize >= 0
         /\ p <= q => p * PageSize <= q * PageSize
         /\ p < q => p * PageSize + PageSize <= q * PageSize
         /\ p * PageSize < q * PageSize + PageSize => p <= q
         /\ p * PageSize < q * PageSize => p < q
<1> PageSize \in Nat /\ PageSize >= 1
  BY SizesAre
<1>1. p * PageSize = PageSize * p /\ q * PageSize = PageSize * q /\ PageSize * p \in Int /\ PageSize * q \in Int
  OBVIOUS
<1>2. (p + 1) * PageSize = p * PageSize + PageSize
  OBVIOUS
<1>3. PageSize * p < PageSize * q + PageSize => p <= q
  BY MultiplesOrder
<1>4. p <= q => PageSize * (q - p) >= 0
  OBVIOUS
<1>5. p < q => PageSize * (q - p - 1) >= 0
  OBVIOUS
<1>6. PageSize * (q - p) = PageSize * q - PageSize * p
  OBVIOUS
<1>7. PageSize * (q - p - 1) = PageSize * q - PageSize * p - PageSize
  OBVIOUS
<1>8. p >= 0 => PageSize * p >= 0
  OBVIOUS
<1>9. p = q => PageSize * p = PageSize * q
  OBVIOUS
<1> DEFINE x == PageSize * p
           y == PageSize * q
<1>10. p * PageSize = x /\ q * PageSize = y
  BY <1>1
<1> HIDE DEF x, y
<1>11. /\ x \in Int /\ y \in Int
       /\ p <= q => y - x >= 0
       /\ p < q => y - x - PageSize >= 0
       /\ x < y + PageSize => p <= q
       /\ p >= 0 => x >= 0
       /\ p = q => x = y
  BY <1>1, <1>3, <1>4, <1>5, <1>6, <1>7, <1>8, <1>9 DEF x, y
<1>12. /\ p <= q => x <= y
       /\ p < q => x + PageSize <= y
       /\ x < y => p < q
  BY <1>11
<1> QED BY <1>2, <1>10, <1>11, <1>12

LEMMA DownIs ==
  ASSUME NEW a \in Nat
  PROVE  /\ PageDown(a) \in Nat
         /\ PageDown(a) * PageSize <= a /\ a < PageDown(a) * PageSize + PageSize
<1> DEFINE d == a \div PageSize
           r == a % PageSize
<1>1. d \in Int /\ r \in 0 .. PageSize - 1 /\ a = PageSize * d + r
  BY SizesAre, ModuloIs
<1>2. PageDown(a) = d
  BY DEF PageDown
<1> HIDE DEF d, r
<1>3. d * PageSize = PageSize * d /\ d * PageSize \in Int
  BY <1>1, SizesAre
<1>4. 0 * PageSize < d * PageSize + PageSize /\ 0 \in Int
  BY <1>1, <1>3, SizesAre
<1>5. 0 <= d
  BY <1>1, <1>4, Scaled
<1> QED BY <1>1, <1>2, <1>3, <1>5, SizesAre

LEMMA UpIs ==
  ASSUME NEW a \in Nat
  PROVE  /\ PageUp(a) \in Nat
         /\ a <= PageUp(a) * PageSize /\ PageUp(a) * PageSize < a + PageSize
<1> DEFINE b == a + PageSize - 1
<1>1. b \in Nat /\ b = a + PageSize - 1
  BY SizesAre
<1>2. PageUp(a) = PageDown(b)
  BY DEF PageUp, PageDown
<1> HIDE DEF b
<1> DEFINE q == PageDown(b)
<1>3. q \in Nat /\ q * PageSize <= b /\ b < q * PageSize + PageSize
  BY <1>1, DownIs
<1>4. q * PageSize \in Int
  BY <1>3, Scaled
<1> HIDE DEF q
<1>5. PageUp(a) = q
  BY <1>2 DEF q
<1> QED BY <1>1, <1>3, <1>4, <1>5, SizesAre

\* Rounding to pages is as tight as it can be.
LEMMA Rounding ==
  ASSUME NEW a \in Nat, NEW p \in Nat
  PROVE  /\ PageDown(a) <= p <=> a < p * PageSize + PageSize
         /\ p <= PageDown(a) <=> p * PageSize <= a
         /\ p < PageUp(a) <=> p * PageSize < a
         /\ PageUp(a) <= p <=> a <= p * PageSize
<1> DEFINE d == PageDown(a)
           u == PageUp(a)
           x == p * PageSize
           y == d * PageSize
           z == u * PageSize
<1>1. d \in Nat /\ y <= a /\ a < y + PageSize
  BY DownIs
<1>2. u \in Nat /\ a <= z /\ z < a + PageSize
  BY UpIs
<1>3. /\ x \in Int /\ y \in Int /\ PageSize \in Nat /\ PageSize >= 1
      /\ d <= p => y <= x
      /\ y < x + PageSize => d <= p
      /\ p <= d => x <= y
      /\ x < y + PageSize => p <= d
  BY <1>1, Scaled, SizesAre
<1>4. /\ z \in Int
      /\ p < u => x + PageSize <= z
      /\ x < z => p < u
      /\ u <= p => z <= x
      /\ z < x + PageSize => u <= p
  BY <1>2, Scaled, SizesAre
<1> HIDE DEF d, u, x, y, z
<1>5. /\ d <= p <=> a < x + PageSize
      /\ p <= d <=> x <= a
      /\ p < u <=> x < a
      /\ u <= p <=> a <= x
  BY <1>1, <1>2, <1>3, <1>4
<1> QED BY <1>5 DEF d, u, x

LEMMA WholePages ==
  ASSUME NEW p \in Nat
  PROVE  p * PageSize \in Nat /\ PageDown(p * PageSize) = p /\ PageUp(p * PageSize) = p
<1> DEFINE a == p * PageSize
<1>1. a \in Nat
  BY Scaled
<1> HIDE DEF a
<1>2. /\ PageDown(a) <= p <=> a < p * PageSize + PageSize
      /\ p <= PageDown(a) <=> p * PageSize <= a
      /\ p < PageUp(a) <=> p * PageSize < a
      /\ PageUp(a) <= p <=> a <= p * PageSize
  BY <1>1, Rounding
<1>3. PageDown(a) \in Nat /\ PageUp(a) \in Nat
  BY <1>1, DownIs, UpIs
<1>4. /\ PageDown(a) <= p <=> a < a + PageSize
      /\ p <= PageDown(a) <=> a <= a
      /\ p < PageUp(a) <=> a < a
      /\ PageUp(a) <= p <=> a <= a
  BY <1>2 DEF a
<1>5. PageDown(a) = p /\ PageUp(a) = p
  <2> DEFINE d == PageDown(a)
             u == PageUp(a)
  <2>1. PageSize \in Nat /\ PageSize >= 1
    BY SizesAre
  <2>2. p <= u
    <3> DEFINE z == u * PageSize
    <3>1. a <= z /\ z \in Int /\ u \in Nat
      BY <1>1, <1>3, UpIs, Scaled
    <3>2. u < p => z + PageSize <= a
      BY <1>3, Scaled DEF a
    <3> HIDE DEF z, u
    <3> QED BY <1>1, <2>1, <3>1, <3>2
  <2> HIDE DEF d, u
  <2>3. d \in Nat /\ u \in Nat /\ d <= p /\ p <= d /\ u <= p
    BY <1>1, <1>3, <1>4, <2>1 DEF d, u
  <2>4. d = p /\ u = p
    BY <2>2, <2>3
  <2> QED BY <2>4 DEF d, u
<1> QED BY <1>1, <1>5 DEF a

LEMMA LargerIs ==
  ASSUME NEW x \in Int, NEW y \in Int
  PROVE  /\ Max({x, y}) = IF x >= y THEN x ELSE y
         /\ Min({x, y}) = IF x <= y THEN x ELSE y
<1>1. \E m \in {x, y} : \A n \in {x, y} : m >= n
  OBVIOUS
<1>2. \E m \in {x, y} : \A n \in {x, y} : m <= n
  OBVIOUS
<1>3. Max({x, y}) \in {x, y} /\ \A n \in {x, y} : Max({x, y}) >= n
  BY <1>1 DEF Max
<1>4. Min({x, y}) \in {x, y} /\ \A n \in {x, y} : Min({x, y}) <= n
  BY <1>2 DEF Min
<1> QED BY <1>3, <1>4

LEMMA LeastIs ==
  ASSUME NEW S \in SUBSET Nat, S # {}
  PROVE  Min(S) \in S /\ \A n \in S : Min(S) <= n
<1>1. \E m \in S : \A n \in S : m <= n
  BY LeastExists
<1> QED BY <1>1 DEF Min

LEMMA PagesOfIs ==
  ASSUME NEW s, NEW e
  PROVE  PagesOf(Run(s, e)) = s .. e - 1 /\ Run(s, e).start = s /\ Run(s, e).end = e
  BY DEF PagesOf, Run

-------------------------------------------------------------------------------
(* What regions claim, and the turns of the iterator.                       *)

LEMMA ArenaIs ==
  ASSUME NEW ar, InPages(ar)
  PROVE  /\ ar.base \in Nat /\ End(ar) \in Nat
         /\ FirstPage(ar) \in Nat /\ LastPage(ar) \in Nat /\ FirstPage(ar) <= LastPage(ar)
         /\ ar.base = FirstPage(ar) * PageSize /\ End(ar) = LastPage(ar) * PageSize
  BY DEF InPages, Regions, End

\* The span of bytes that region r claims from the arena, if any.
LEMMA ClaimedIs ==
  ASSUME NEW ar, InPages(ar), NEW r \in Regions, NEW run \in Claimed(r, ar)
  PROVE  \E base, end \in Nat :
            /\ base < end
            /\ r.base <= base /\ end <= End(r) /\ ar.base <= base /\ end <= End(ar)
            /\ base = r.base \/ base = ar.base
            /\ end = End(r) \/ end = End(ar)
            /\ run = Run(PageDown(base), PageUp(end))
<1>1. r.base \in Nat /\ End(r) \in Nat /\ ar.base \in Nat /\ End(ar) \in Nat
  BY ArenaIs DEF Regions, End
<1> DEFINE base == Max({r.base, ar.base})
           end  == Min({End(r), End(ar)})
<1>2. base = (IF r.base >= ar.base THEN r.base ELSE ar.base) /\ end = (IF End(r) <= End(ar) THEN End(r) ELSE End(ar))
  BY <1>1, LargerIs
<1>3. base < end /\ run = Run(PageDown(base), PageUp(end))
  BY DEF Claimed
<1> HIDE DEF base, end
<1>4. base \in Nat /\ end \in Nat
  BY <1>1, <1>2
<1>5. /\ r.base <= base /\ end <= End(r) /\ ar.base <= base /\ end <= End(ar)
      /\ base = r.base \/ base = ar.base
      /\ end = End(r) \/ end = End(ar)
  BY <1>1, <1>2
<1> QED BY <1>3, <1>4, <1>5

LEMMA RunIs ==
  ASSUME NEW ar, InPages(ar), NEW r \in Regions, NEW run \in Claimed(r, ar)
  PROVE  /\ run.start \in Nat /\ run.end \in Nat /\ PagesOf(run) = run.start .. run.end - 1
         /\ FirstPage(ar) <= run.start /\ run.start < run.end /\ run.end <= LastPage(ar)
<1>1. PICK base, end \in Nat :
         /\ base < end
         /\ ar.base <= base /\ end <= End(ar)
         /\ run = Run(PageDown(base), PageUp(end))
  BY ClaimedIs
<1> DEFINE s == PageDown(base)
           e == PageUp(end)
<1>2. run.start = s /\ run.end = e /\ s \in Nat /\ e \in Nat
  BY <1>1, PagesOfIs, DownIs, UpIs
<1>3. /\ FirstPage(ar) <= s <=> FirstPage(ar) * PageSize <= base
      /\ e <= LastPage(ar) <=> end <= LastPage(ar) * PageSize
      /\ s < e <=> s * PageSize < end
      /\ s * PageSize <= base /\ s * PageSize \in Int
  <2>1. FirstPage(ar) \in Nat /\ LastPage(ar) \in Nat
    BY ArenaIs
  <2>2. FirstPage(ar) <= s <=> FirstPage(ar) * PageSize <= base
    BY <2>1, Rounding
  <2>3. e <= LastPage(ar) <=> end <= LastPage(ar) * PageSize
    BY <2>1, Rounding
  <2>4. s < e <=> s * PageSize < end
    BY <1>2, Rounding
  <2>5. s * PageSize <= base /\ s * PageSize \in Int
    BY <1>2, DownIs, Scaled
  <2> QED BY <2>2, <2>3, <2>4, <2>5
<1> HIDE DEF s, e
<1>4. FirstPage(ar) <= s /\ e <= LastPage(ar) /\ s < e
  BY <1>1, <1>3, ArenaIs
<1> QED BY <1>2, <1>4 DEF PagesOf

\* A region claims the pages of the arena that have a byte of it.
LEMMA CoversIs ==
  ASSUME NEW ar, InPages(ar), NEW r \in Regions, NEW p \in FirstPage(ar) .. LastPage(ar) - 1
  PROVE  (\E run \in Claimed(r, ar) : p \in PagesOf(run))
            <=> \E a \in p * PageSize .. (p + 1) * PageSize - 1 : r.base <= a /\ a < End(r)
<1>1. /\ p \in Nat /\ FirstPage(ar) <= p /\ p < LastPage(ar)
      /\ r.base \in Nat /\ End(r) \in Nat /\ ar.base \in Nat /\ End(ar) \in Nat
  BY ArenaIs DEF Regions, End
<1> DEFINE x == p * PageSize
<1>2. /\ x \in Nat /\ (p + 1) * PageSize = x + PageSize
      /\ ar.base <= x /\ x + PageSize <= End(ar)
  BY <1>1, ArenaIs, Scaled
<1>3. ASSUME NEW run \in Claimed(r, ar), p \in PagesOf(run)
      PROVE  \E a \in x .. x + PageSize - 1 : r.base <= a /\ a < End(r)
  <2>1. PICK base, end \in Nat :
           /\ base < end
           /\ r.base <= base /\ end <= End(r)
           /\ run = Run(PageDown(base), PageUp(end))
    BY ClaimedIs
  <2>2. PageDown(base) <= p /\ p < PageUp(end)
    <3>1. PagesOf(run) = PageDown(base) .. PageUp(end) - 1
      BY <2>1, PagesOfIs
    <3>2. PageDown(base) \in Nat /\ PageUp(end) \in Nat
      BY DownIs, UpIs
    <3> QED BY <1>1, <1>3, <3>1, <3>2
  <2>3. base < x + PageSize /\ x < end
    BY <1>1, <2>2, Rounding
  <2> DEFINE a == IF base >= x THEN base ELSE x
  <2> HIDE DEF x
  <2>4. a \in x .. x + PageSize - 1 /\ r.base <= a /\ a < End(r)
    BY <1>1, <1>2, <2>1, <2>3, SizesAre
  <2> QED BY <2>4
<1>4. ASSUME NEW a \in x .. x + PageSize - 1, r.base <= a, a < End(r)
      PROVE  \E run \in Claimed(r, ar) : p \in PagesOf(run)
  <2> DEFINE base == Max({r.base, ar.base})
             end  == Min({End(r), End(ar)})
             run  == Run(PageDown(base), PageUp(end))
  <2> HIDE DEF x
  <2>1. /\ base = (IF r.base >= ar.base THEN r.base ELSE ar.base)
        /\ end = (IF End(r) <= End(ar) THEN End(r) ELSE End(ar))
    <3>1. r.base \in Int /\ ar.base \in Int /\ End(r) \in Int /\ End(ar) \in Int
      BY <1>1
    <3> QED BY <3>1, LargerIs
  <2>2. base < end => run \in Claimed(r, ar)
    BY DEF Claimed
  <2> HIDE DEF base, end
  <2>3. a \in Nat /\ x <= a /\ a < x + PageSize
    BY <1>2, SizesAre
  <2>4. base \in Nat /\ end \in Nat /\ base <= a /\ a < end
    BY <1>1, <1>2, <1>4, <2>1, <2>3, SizesAre
  <2>5. base < x + PageSize /\ x < end
    BY <1>2, <2>3, <2>4, SizesAre
  <2>6. PageDown(base) <= p /\ p < PageUp(end)
    BY <1>1, <2>4, <2>5, Rounding DEF x
  <2>7. p \in PagesOf(run)
    <3>1. PagesOf(run) = PageDown(base) .. PageUp(end) - 1
      BY PagesOfIs
    <3>2. PageDown(base) \in Nat /\ PageUp(end) \in Nat
      BY <2>4, DownIs, UpIs
    <3> QED BY <1>1, <2>6, <3>1, <3>2
  <2>8. base < end
    BY <2>4
  <2> QED BY <2>2, <2>7, <2>8
<1>5. p * PageSize .. (p + 1) * PageSize - 1 = x .. x + PageSize - 1
  <2> DEFINE y == (p + 1) * PageSize
  <2>1. y = x + PageSize /\ x \in Int /\ PageSize \in Int
    BY <1>2, SizesAre
  <2> HIDE DEF x, y
  <2>2. x .. y - 1 = x .. x + PageSize - 1
    BY <2>1
  <2> QED BY <2>2 DEF x, y
<1> HIDE DEF x
<1> QED BY <1>3, <1>4, <1>5

LEMMA ContainingIs ==
  ASSUME NEW ar, NEW tk, NEW p
  PROVE  /\ Containing(ar, tk, p) # {} <=>
               \E r \in tk : \E run \in Claimed(r, ar) : p \in PagesOf(run)
         /\ \A stop : stop \in Containing(ar, tk, p) <=>
               \E r \in tk : \E run \in Claimed(r, ar) : p \in PagesOf(run) /\ stop = run.end
<1>1. \A stop : stop \in Containing(ar, tk, p) <=>
         \E r \in tk : \E run \in Claimed(r, ar) : p \in PagesOf(run) /\ stop = run.end
  BY DEF Containing, Ranges
<1> QED BY <1>1

\* What contains a page takes all up to its end, which is in the arena.
LEMMA StopIs ==
  ASSUME NEW ar, InPages(ar), NEW tk \in SUBSET Regions, NEW p \in Int, NEW stop \in Containing(ar, tk, p)
  PROVE  /\ stop \in Nat /\ p < stop /\ stop <= LastPage(ar)
         /\ \A q \in p .. stop - 1 : Containing(ar, tk, q) # {}
<1>1. PICK r \in tk : \E run \in Claimed(r, ar) : p \in PagesOf(run) /\ stop = run.end
  BY ContainingIs
<1>2. PICK run \in Claimed(r, ar) : p \in PagesOf(run) /\ stop = run.end
  BY <1>1
<1>3. /\ run.start \in Nat /\ stop \in Nat /\ PagesOf(run) = run.start .. stop - 1
      /\ stop <= LastPage(ar)
  BY <1>2, RunIs
<1>4. p < stop /\ \A q \in p .. stop - 1 : q \in PagesOf(run)
  BY <1>2, <1>3
<1> QED BY <1>2, <1>3, <1>4, ContainingIs

LEMMA FreePagesAre ==
  ASSUME InPages(arena), Taken \in SUBSET Regions
  PROVE  FreePages = FreeOf(arena, Taken)
<1> SUFFICES ASSUME NEW p \in FirstPage(arena) .. LastPage(arena) - 1
             PROVE  (\A a \in p * PageSize .. (p + 1) * PageSize - 1, r \in Taken :
                        ~(r.base <= a /\ a < End(r)))
                       <=> Containing(arena, Taken, p) = {}
  BY DEF FreePages, FreeOf
<1>1. p \in Int
  BY ArenaIs
<1>2. Containing(arena, Taken, p) # {} <=>
         \E r \in Taken : \E run \in Claimed(r, arena) : p \in PagesOf(run)
  BY <1>1, ContainingIs
<1>3. \A r \in Taken :
         (\E run \in Claimed(r, arena) : p \in PagesOf(run))
            <=> \E a \in p * PageSize .. (p + 1) * PageSize - 1 : r.base <= a /\ a < End(r)
  BY CoversIs
<1> QED BY <1>2, <1>3

LEMMA GapIs ==
  ASSUME NEW ar, InPages(ar), NEW tk \in SUBSET Regions, NEW p \in Nat,
         FirstPage(ar) <= p, p < LastPage(ar), Containing(ar, tk, p) = {}
  PROVE  LET g == GapAt(ar, tk, p)
         IN  /\ g \in [start : Nat, end : Nat]
             /\ g.start = p /\ p < g.end /\ g.end <= LastPage(ar)
             /\ PagesOf(g) = p .. g.end - 1 /\ PagesOf(g) \subseteq FreeOf(ar, tk)
             /\ Edge(ar, tk, g.end)
<1> DEFINE l == LastPage(ar)
           above == {run.start : run \in Ranges(ar, tk)} \ (0 .. p)
           ends == {l} \cup NextBaseAbove(ar, tk, p)
           e == Min(ends)
<1>1. l \in Nat /\ FirstPage(ar) \in Nat /\ p < l
  BY ArenaIs
<1>2. \A run \in Ranges(ar, tk) :
         /\ run.start \in Nat /\ run.end \in Nat /\ PagesOf(run) = run.start .. run.end - 1
         /\ FirstPage(ar) <= run.start /\ run.start < run.end /\ run.end <= l
  BY RunIs DEF Ranges
<1>3. above \in SUBSET Nat /\ \A n \in above : n > p
  BY <1>2
<1>4. NextBaseAbove(ar, tk, p) = IF above = {} THEN {} ELSE {Min(above)}
  BY DEF NextBaseAbove
<1> HIDE DEF above
<1>5. above # {} => Min(above) \in above /\ \A n \in above : Min(above) <= n
  BY <1>3, LeastIs
<1>6. ends \in SUBSET Nat /\ l \in ends /\ \A n \in ends : n > p /\ (n = l \/ n \in above)
  BY <1>1, <1>3, <1>4, <1>5
<1>7. e \in ends /\ e <= l /\ \A n \in ends : e <= n
  <2> HIDE DEF ends
  <2> QED BY <1>6, LeastIs
<1>8. \A n \in above : e <= n
  <2>1. ASSUME NEW n \in above
        PROVE  e <= n
    <3>1. Min(above) \in ends /\ Min(above) <= n
      BY <1>4, <1>5
    <3>2. e <= Min(above) /\ Min(above) \in Nat /\ e \in Nat /\ n \in Nat
      BY <1>3, <1>6, <1>7, <3>1
    <3> QED BY <3>1, <3>2
  <2> QED BY <2>1
<1>9. GapAt(ar, tk, p) = Run(p, e)
  BY DEF GapAt
<1> HIDE DEF e, ends
<1>10. e \in Nat /\ p < e
  BY <1>6, <1>7
<1>11. ASSUME NEW q \in p .. e - 1
       PROVE  q \in FreeOf(ar, tk)
  <2>1. q \in FirstPage(ar) .. l - 1 /\ q \in Int
    BY <1>1, <1>7, <1>10
  <2> SUFFICES ASSUME NEW r \in tk, NEW run \in Claimed(r, ar), q \in PagesOf(run)
               PROVE  FALSE
    BY <2>1, ContainingIs DEF FreeOf
  <2>2. run \in Ranges(ar, tk)
    BY DEF Ranges
  <2>3. run.start \in Nat /\ run.end \in Nat /\ q \in run.start .. run.end - 1
    BY <1>2, <2>2
  <2>4. CASE run.start <= p
    <3>1. p \in PagesOf(run)
      BY <1>2, <1>10, <2>2, <2>3, <2>4
    <3> QED BY <3>1, ContainingIs
  <2>5. CASE run.start > p
    <3>1. run.start \in above
      BY <2>2, <2>3, <2>5 DEF above
    <3>2. e <= run.start
      BY <1>8, <3>1
    <3> QED BY <1>10, <2>1, <2>3, <3>2
  <2> QED BY <2>3, <2>4, <2>5
<1>12. Edge(ar, tk, e)
  <2> SUFFICES ASSUME e \in above PROVE Containing(ar, tk, e) # {}
    BY <1>6, <1>7 DEF Edge
  <2>1. PICK run \in Ranges(ar, tk) : run.start = e
    BY DEF above
  <2>2. e \in PagesOf(run)
    BY <1>2, <2>1
  <2>3. \E r \in tk : run \in Claimed(r, ar)
    BY DEF Ranges
  <2> QED BY <1>10, <2>2, <2>3, ContainingIs
<1>13. Run(p, e) \in [start : Nat, end : Nat] /\ Run(p, e).start = p /\ Run(p, e).end = e
       /\ PagesOf(Run(p, e)) = p .. e - 1
  BY <1>10 DEF Run, PagesOf
<1> QED BY <1>7, <1>9, <1>10, <1>11, <1>12, <1>13

-------------------------------------------------------------------------------
(* The state.                                                               *)

LEMMA ArenaSize ==
  ASSUME NEW ar, InPages(ar)
  PROVE  ar.size \div PageSize = LastPage(ar) - FirstPage(ar)
<1> DEFINE f == FirstPage(ar)
           l == LastPage(ar)
<1>1. /\ f \in Nat /\ l \in Nat /\ PageSize \in Nat /\ PageSize >= 1
      /\ ar.base = f * PageSize /\ ar.base + ar.size = l * PageSize
      /\ ar.base \in Nat /\ ar.size \in Nat
  BY SizesAre DEF InPages, Regions, End
<1> HIDE DEF f, l
<1> DEFINE q == l - f
           z == ar.size
<1>2. PageSize * q = l * PageSize - f * PageSize
  BY <1>1
<1>3. f * PageSize \in Int /\ l * PageSize \in Int
  BY <1>1, Scaled
<1>4. z = PageSize * q /\ q \in Int /\ z \in Int
  BY <1>1, <1>2, <1>3
<1> HIDE DEF q, z
<1>5. z \div PageSize = q
  BY <1>1, <1>4, MultipleIs
<1> QED BY <1>5 DEF q, z, f, l

LEMMA NeededIs ==
  ASSUME InPages(arena)
  PROVE  /\ Needed \in Nat
         /\ (arena.size \div PageSize) * EntrySize <= Needed * PageSize
         /\ FirstPage(arena) < LastPage(arena) => Needed >= 1
<1> DEFINE q == arena.size \div PageSize
           n == q * EntrySize
<1>1. q \in Nat /\ (FirstPage(arena) < LastPage(arena) => q >= 1)
  BY ArenaSize, ArenaIs
<1>2. EntrySize \in Nat /\ EntrySize >= 1
  BY SizesAre
<1> HIDE DEF q
<1>3. n \in Nat /\ (q >= 1 => n >= 1)
  BY <1>1, <1>2
<1>4. Needed = PageUp(n)
  BY DEF Needed, q
<1> HIDE DEF n
<1>5. PageUp(n) \in Nat /\ n <= PageUp(n) * PageSize
  BY <1>3, UpIs
<1>6. PageUp(n) <= 0 <=> n <= 0 * PageSize
  BY <1>3, Rounding
<1>7. 0 * PageSize = 0
  BY SizesAre
<1>8. n >= 1 => PageUp(n) >= 1
  BY <1>3, <1>5, <1>6, <1>7
<1> QED BY <1>1, <1>3, <1>4, <1>5, <1>8 DEF n, q

LEMMA StateIs ==
  ASSUME IInv
  PROVE  /\ InPages(arena)
         /\ Taken \in SUBSET Regions
         /\ FirstPage(arena) \in Nat /\ LastPage(arena) \in Nat /\ FirstPage(arena) <= LastPage(arena)
         /\ FreePages = FreeOf(arena, Taken)
         /\ FreePages \subseteq FirstPage(arena) .. LastPage(arena) - 1
         /\ cursor \in Nat /\ Needed \in Nat
<1>1. InPages(arena) /\ cursor \in Nat /\ reserved \in Seq(Regions)
  BY DEF IInv, Typed
<1>2. Taken \in SUBSET Regions
  BY <1>1 DEF Taken, Range
<1>3. FreePages = FreeOf(arena, Taken) /\ FreePages \subseteq FirstPage(arena) .. LastPage(arena) - 1
  BY <1>1, <1>2, FreePagesAre DEF FreeOf
<1> QED BY <1>1, <1>2, <1>3, ArenaIs, NeededIs

LEMMA FixedIs ==
  ASSUME UNCHANGED <<arena, reserved>>
  PROVE  FreePages' = FreePages /\ Taken' = Taken /\ Needed' = Needed
  BY DEF FreePages, Taken, Needed

\* What the iterator yields: free pages, up to an edge.
LEMMA YieldIs ==
  ASSUME IInv, phase \in {"placing", "seeding"}, Yields
  PROVE  /\ Gap \in [start : Nat, end : Nat]
         /\ Gap.start = cursor /\ cursor < Gap.end /\ Gap.end <= LastPage(arena)
         /\ PagesOf(Gap) = cursor .. Gap.end - 1 /\ PagesOf(Gap) \subseteq FreePages
         /\ Edge(arena, Taken, Gap.end) /\ Gap.end \notin FreePages
         /\ ~Edge(arena, Taken, cursor)
         /\ HasRoom(Gap) <=> cursor + Needed <= Gap.end
<1>1. /\ FirstPage(arena) <= cursor /\ cursor < LastPage(arena)
      /\ Containing(arena, Taken, cursor) = {}
  BY StateIs DEF IInv, CursorInside, Yields
<1> DEFINE g == GapAt(arena, Taken, cursor)
<1>2. /\ g \in [start : Nat, end : Nat]
      /\ g.start = cursor /\ cursor < g.end /\ g.end <= LastPage(arena)
      /\ PagesOf(g) = cursor .. g.end - 1 /\ PagesOf(g) \subseteq FreeOf(arena, Taken)
      /\ Edge(arena, Taken, g.end)
  BY <1>1, StateIs, GapIs
<1>3. Gap = g
  BY DEF Gap
<1> HIDE DEF g
<1>4. g.end \in Nat /\ g.end \notin FreePages
  BY <1>2, StateIs DEF Edge, FreeOf
<1>5. ~Edge(arena, Taken, cursor)
  BY <1>1, StateIs DEF Edge
<1>6. HasRoom(g) <=> cursor + Needed <= g.end
  <2> DEFINE e == g.end - 1
  <2>1. cursor \in Int /\ e \in Int /\ ~(cursor > e)
    BY <1>2, <1>4, StateIs
  <2> HIDE DEF e
  <2>2. Cardinality(cursor .. e) = e - cursor + 1
    BY <2>1, FS_Interval
  <2>3. Cardinality(PagesOf(g)) = g.end - cursor
    BY <1>2, <1>4, <2>2, StateIs DEF e
  <2> QED BY <1>4, <2>3, StateIs DEF HasRoom
<1> QED BY <1>2, <1>3, <1>4, <1>5, <1>6, StateIs

\* A byte of a region in a page makes the page taken.
LEMMA FreeIsApart ==
  ASSUME IInv, NEW p \in FreePages, NEW a \in Nat,
         p * PageSize <= a, a < p * PageSize + PageSize, NEW r \in Taken
  PROVE  ~(r.base <= a /\ a < End(r))
<1>1. p \in Nat
  BY StateIs
<1> DEFINE x == p * PageSize
           y == (p + 1) * PageSize
<1>2. x \in Int /\ y = x + PageSize
  BY <1>1, Scaled
<1>3. \A b \in x .. y - 1 : ~(r.base <= b /\ b < End(r))
  BY DEF FreePages
<1> HIDE DEF x, y
<1>4. x <= a /\ a < x + PageSize
  BY DEF x
<1> QED BY <1>2, <1>3, <1>4, SizesAre

-------------------------------------------------------------------------------
(* Each action keeps the invariant.                                         *)

LEMMA InitHolds == Init => IInv
<1> SUFFICES ASSUME Init PROVE IInv
  OBVIOUS
<1> DEFINE n == Nowhere
<1>1. n.base = 0 /\ n.size = 0 /\ End(n) = 0 /\ n \in Regions
  BY DEF Nowhere, Region, End, Regions
<1> HIDE DEF n
<1>2. 0 * PageSize = 0 /\ PageUp(0) = 0 /\ PageDown(0) = 0
  <2>1. 0 * PageSize = 0
    BY SizesAre
  <2> QED BY <2>1, WholePages
<1>3. InPages(n)
  BY <1>1, <1>2 DEF InPages, FirstPage, LastPage
<1>4. Typed
  BY <1>1, <1>3, SizesAre DEF Init, Typed, Phases, n
<1>5. RunsApart
  BY DEF Init, RunsApart
<1> QED BY <1>4, <1>5 DEF Init, IInv, CursorInside, Searching, Seeding, Placed

LEMMA NewArena ==
  ASSUME NEW m \in Regions, HasPages(m)
  PROVE  InPages(Region(PageUp(m.base) * PageSize, PageDown(End(m)) * PageSize))
<1> DEFINE f == PageUp(m.base)
           l == PageDown(End(m))
           x == f * PageSize
           y == l * PageSize
           ar == Region(x, y)
<1>1. f \in Nat /\ l \in Nat /\ f <= l
  <2>1. m.base \in Nat /\ End(m) \in Nat
    BY DEF Regions, End
  <2> QED BY <2>1, UpIs, DownIs DEF HasPages
<1> HIDE DEF f, l
<1>2. x \in Nat /\ y \in Nat /\ x <= y /\ PageUp(x) = f /\ PageDown(y) = l
  BY <1>1, WholePages, Scaled
<1>3. ar.base = x /\ ar.size = y - x /\ End(ar) = y /\ ar \in Regions
  <2> HIDE DEF x, y
  <2> QED BY <1>2 DEF Region, End, Regions
<1> HIDE DEF ar
<1>4. InPages(ar)
  BY <1>1, <1>2, <1>3 DEF InPages, FirstPage, LastPage
<1> QED BY <1>4 DEF ar, f, l

LEMMA NewKeeps ==
  ASSUME IInv, NEW m \in Memories, New(m)
  PROVE  IInv'
<1>1. InPages(arena') /\ phase' = "reserving" /\ UNCHANGED <<reserved, cursor, entries, runs>> /\ phase = "new"
  BY NewArena, SizesAre DEF New
<1>2. Typed'
  BY <1>1 DEF IInv, Typed, Phases
<1>3. runs' = <<>>
  BY <1>1 DEF IInv, Seeding
<1>4. RunsApart'
  BY <1>3 DEF RunsApart
<1> QED BY <1>1, <1>2, <1>3, <1>4 DEF IInv, CursorInside, Searching, Seeding, Placed

LEMMA NoRuns == runs' = <<>> => RunsApart'
  BY DEF RunsApart

\* A step that goes to a phase in which nothing is sought, nothing seeded.
LEMMA RestKeeps ==
  ASSUME IInv, phase \in {"new", "reserving", "placing"}, UNCHANGED <<arena, cursor, entries, runs>>,
         phase' \in {"reserving", "no memory", "full", "unplaceable"},
         phase' = "unplaceable" => arena.size \div PageSize \notin 1 .. MaxPages,
         reserved' \in Seq(Regions), Len(reserved') <= MaxReserved
  PROVE  IInv'
<1>1. Typed'
  BY DEF IInv, Typed, Phases
<1>2. runs' = <<>>
  BY DEF IInv, Seeding
<1>3. RunsApart'
  BY <1>2, NoRuns
<1>4. CursorInside' /\ Searching' /\ Seeding' /\ Placed'
  BY <1>2 DEF CursorInside, Searching, Seeding, Placed
<1> QED BY <1>1, <1>3, <1>4 DEF IInv

LEMMA RestingKeeps ==
  ASSUME IInv,
         \/ \E m \in Memories : NewFails(m)
         \/ \E r \in Claims : Reserve(r) \/ ReserveFails(r)
         \/ PlaceFails \/ FoundFails
  PROVE  IInv'
<1>1. reserved \in Seq(Regions) /\ Len(reserved) <= MaxReserved
  BY DEF IInv, Typed
<1>2. CASE \E m \in Memories : NewFails(m)
  BY <1>1, <1>2, RestKeeps DEF NewFails
<1>3. ASSUME NEW r \in Claims, Reserve(r)
      PROVE  IInv'
  <2>1. /\ reserved' \in Seq(Regions) /\ Len(reserved') <= MaxReserved
        /\ phase = "reserving" /\ phase' = "reserving" /\ UNCHANGED <<arena, cursor, entries, runs>>
    BY <1>1, <1>3, SizesAre DEF Reserve
  <2> QED BY <2>1, RestKeeps
<1>4. CASE \E r \in Claims : ReserveFails(r)
  BY <1>1, <1>4, RestKeeps DEF ReserveFails
<1>5. CASE PlaceFails
  BY <1>1, <1>5, RestKeeps DEF PlaceFails
<1>6. CASE FoundFails
  BY <1>1, <1>6, RestKeeps DEF FoundFails
<1> QED BY <1>2, <1>3, <1>4, <1>5, <1>6

LEMMA PlaceKeeps ==
  ASSUME IInv, Place
  PROVE  IInv'
<1>1. /\ phase = "reserving" /\ phase' = "placing" /\ cursor' = FirstPage(arena)
      /\ arena.size \div PageSize \in 1 .. MaxPages
      /\ UNCHANGED <<arena, reserved, entries, runs>>
  BY DEF Place, Begin
<1>2. FirstPage(arena) < LastPage(arena)
  BY <1>1, StateIs, ArenaSize, SizesAre
<1>3. Typed'
  BY <1>1, StateIs DEF IInv, Typed, Phases
<1>4. CursorInside'
  BY <1>1, <1>2, StateIs DEF CursorInside
<1>5. Searching'
  BY <1>1, FixedIs, StateIs DEF Searching, Tried
<1>6. runs' = <<>>
  BY <1>1 DEF IInv, Seeding
<1>7. RunsApart' /\ Seeding' /\ Placed'
  BY <1>1, <1>6 DEF RunsApart, Seeding, Placed
<1> QED BY <1>3, <1>4, <1>5, <1>7 DEF IInv

LEMMA SkipKeeps ==
  ASSUME IInv, Skip
  PROVE  IInv'
<1>1. /\ phase \in {"placing", "seeding"}
      /\ cursor' \in Containing(arena, Taken, cursor)
      /\ UNCHANGED <<phase, arena, reserved, entries, runs>>
  BY DEF Skip, StopsAt
<1>2. /\ cursor \in FirstPage(arena) .. LastPage(arena)
      /\ cursor' \in Nat /\ cursor < cursor' /\ cursor' <= LastPage(arena)
      /\ \A q \in cursor .. cursor' - 1 : Containing(arena, Taken, q) # {}
  <2>1. cursor \in FirstPage(arena) .. LastPage(arena)
    BY <1>1 DEF IInv, CursorInside
  <2> DEFINE stop == cursor'
  <2>2. stop \in Containing(arena, Taken, cursor)
    BY <1>1
  <2> HIDE DEF stop
  <2>3. /\ stop \in Nat /\ cursor < stop /\ stop <= LastPage(arena)
        /\ \A q \in cursor .. stop - 1 : Containing(arena, Taken, q) # {}
    <3> DEFINE tk == Taken
    <3>1. InPages(arena) /\ tk \in SUBSET Regions /\ cursor \in Int /\ stop \in Containing(arena, tk, cursor)
      BY <2>2, StateIs
    <3> HIDE DEF tk
    <3>2. /\ stop \in Nat /\ cursor < stop /\ stop <= LastPage(arena)
          /\ \A q \in cursor .. stop - 1 : Containing(arena, tk, q) # {}
      BY <3>1, StopIs
    <3> QED BY <3>2 DEF tk
  <2> QED BY <2>1, <2>3 DEF stop
<1>3. /\ FreePages' = FreePages /\ Needed' = Needed /\ Taken' = Taken
      /\ \A p \in FreePages : p < cursor' <=> p < cursor
  <2>1. \A p \in FreePages : p \in Nat /\ ~(p \in cursor .. cursor' - 1)
    <3>1. FreePages = FreeOf(arena, Taken) /\ FirstPage(arena) \in Nat /\ LastPage(arena) \in Nat
      BY StateIs
    <3>2. \A p \in FreePages : p \in Nat /\ Containing(arena, Taken, p) = {}
      BY <3>1 DEF FreeOf
    <3> QED BY <1>2, <3>2
  <2> QED BY <1>1, <1>2, <2>1, FixedIs, StateIs
<1>4. Typed'
  BY <1>1, <1>2 DEF IInv, Typed
<1>5. CursorInside'
  BY <1>1, <1>2, StateIs DEF IInv, CursorInside
<1>6. Searching'
  BY <1>1, <1>3 DEF IInv, Searching, Tried
<1>7. Seeding'
  <2>1. Seeded' = Seeded
    BY <1>1 DEF Seeded
  <2> QED BY <1>1, <1>3, <2>1 DEF IInv, Seeding
<1>8. RunsApart'
  <2>1. \A i \in 1 .. Len(runs) : runs[i].end \in Nat
    <3>1. runs \in Seq([start : Nat, end : Nat])
      BY DEF IInv, Typed
    <3>2. \A i \in 1 .. Len(runs) : runs[i] \in [start : Nat, end : Nat]
      BY <3>1, ElementOfSeq
    <3> QED BY <3>2
  <2> QED BY <1>1, <1>2, <1>3, <2>1, StateIs DEF IInv, RunsApart
<1>9. Placed'
  BY <1>1, <1>3 DEF IInv, Placed, PlacedAt, AtNull
<1> QED BY <1>4, <1>5, <1>6, <1>7, <1>8, <1>9 DEF IInv

\* A run too short for the array, up to an edge, has no place for it.
LEMMA TooShortKeeps ==
  ASSUME IInv, TooShort
  PROVE  IInv'
<1> DEFINE e == Gap.end
<1>1. /\ phase = "placing" /\ cursor' = e
      /\ UNCHANGED <<phase, arena, reserved, entries, runs>>
      /\ FirstPage(arena) < LastPage(arena)
      /\ e \in Nat /\ cursor < e /\ e <= LastPage(arena) /\ e \notin FreePages
      /\ e < cursor + Needed
  BY YieldIs, StateIs DEF TooShort, IInv, CursorInside
<1> HIDE DEF e
<1>2. FreePages' = FreePages /\ Needed' = Needed
  BY <1>1, FixedIs
<1>3. ASSUME NEW p \in FreePages, p < e
      PROVE  ~(p .. p + Needed - 1 \subseteq FreePages)
  <2>1. CASE p < cursor
    BY <1>1, <2>1 DEF IInv, Searching, Tried
  <2>2. CASE p >= cursor
    <3>1. e \in p .. p + Needed - 1
      BY <1>1, <1>3, <2>2, StateIs
    <3> QED BY <1>1, <3>1
  <2> QED BY <2>1, <2>2, StateIs
<1>4. Typed'
  BY <1>1 DEF IInv, Typed
<1>5. CursorInside'
  BY <1>1, StateIs DEF IInv, CursorInside
<1>6. Searching'
  BY <1>1, <1>2, <1>3 DEF Searching, Tried
<1>7. runs' = <<>>
  BY <1>1 DEF IInv, Seeding
<1>8. Seeding' /\ Placed'
  BY <1>1, <1>7 DEF Seeding, Placed
<1> QED BY <1>4, <1>5, <1>6, <1>7, <1>8, NoRuns DEF IInv

\* The run at the cursor begins at address 0, so it is a place at page 0.
LEMMA FoundAtNullKeeps ==
  ASSUME IInv, FoundAtNull
  PROVE  IInv'
<1>1. /\ phase = "placing" /\ phase' = "unplaceable"
      /\ UNCHANGED <<arena, reserved, cursor, entries, runs>>
      /\ Yields /\ HasRoom(Gap) /\ EntriesAt(Gap).base = 0
  BY DEF FoundAtNull, AtNull
<1>2. FreePages' = FreePages /\ Needed' = Needed
  BY <1>1, FixedIs
<1>3. 0 \in Places
  <2>1. /\ Gap.start = cursor /\ Gap.end \in Nat /\ cursor < Gap.end
        /\ cursor .. Gap.end - 1 \subseteq FreePages /\ cursor + Needed <= Gap.end
        /\ cursor \in Nat /\ Needed \in Nat
    BY <1>1, YieldIs, StateIs
  <2>2. cursor = 0
    <3>1. EntriesAt(Gap).base = cursor * PageSize
      BY <2>1 DEF EntriesAt, Region
    <3>2. cursor * PageSize = 0
      BY <1>1, <3>1
    <3>3. cursor > 0 => 0 * PageSize + PageSize <= cursor * PageSize
      BY <2>1, Scaled
    <3>4. PageSize \in Nat /\ PageSize >= 1 /\ 0 * PageSize = 0
      BY SizesAre
    <3> DEFINE x == cursor * PageSize
               z == 0 * PageSize
    <3>5. x = 0 /\ z = 0 /\ (cursor > 0 => z + PageSize <= x)
      BY <3>2, <3>3, <3>4
    <3> HIDE DEF x, z
    <3> QED BY <2>1, <3>4, <3>5
  <2>3. 0 \in FreePages /\ 0 .. 0 + Needed - 1 \subseteq FreePages
    BY <2>1, <2>2
  <2> QED BY <2>3 DEF Places
<1>4. Typed'
  BY <1>1 DEF IInv, Typed, Phases
<1>5. Searching'
  BY <1>1, <1>2, <1>3 DEF Searching, Places
<1>6. runs' = <<>>
  BY <1>1 DEF IInv, Seeding
<1>7. CursorInside' /\ Seeding' /\ Placed'
  BY <1>1, <1>6 DEF CursorInside, Seeding, Placed
<1> QED BY <1>4, <1>5, <1>6, <1>7, NoRuns DEF IInv

LEMMA ExhaustedKeeps ==
  ASSUME IInv, Exhausted
  PROVE  IInv'
<1>1. /\ phase \in {"placing", "seeding"}
      /\ phase' = IF phase = "placing" THEN "unplaceable" ELSE "ready"
      /\ UNCHANGED <<arena, reserved, cursor, entries, runs>>
      /\ FirstPage(arena) < LastPage(arena)
      /\ cursor = LastPage(arena)
  BY StateIs DEF Exhausted, IInv, CursorInside
<1>2. /\ FreePages' = FreePages /\ Needed' = Needed /\ Taken' = Taken
      /\ {p \in FreePages : p < cursor} = FreePages
  BY <1>1, FixedIs, StateIs
<1>3. Typed'
  BY <1>1 DEF IInv, Typed, Phases
<1>4. CursorInside'
  BY <1>1 DEF CursorInside
<1>5. Searching'
  BY <1>1, <1>2 DEF IInv, Searching, Tried
<1>6. Seeding'
  <2>1. Seeded' = Seeded
    BY <1>1 DEF Seeded
  <2> QED BY <1>1, <1>2, <2>1 DEF IInv, Seeding
<1>7. RunsApart'
  BY <1>1, <1>2 DEF IInv, RunsApart
<1>8. Placed'
  BY <1>1, <1>2 DEF IInv, Placed, PlacedAt, AtNull
<1> QED BY <1>3, <1>4, <1>5, <1>6, <1>7, <1>8 DEF IInv

\* No region reserved before has a byte in pages that are free.
LEMMA FreeRunIsApart ==
  ASSUME IInv, NEW s \in Nat, NEW e \in Nat, s < e, s .. e - 1 \subseteq FreePages, NEW r \in Taken
  PROVE  r.size = 0 \/ End(r) <= s * PageSize \/ e * PageSize <= r.base
<1> SUFFICES ASSUME r.size # 0, ~(End(r) <= s * PageSize), ~(e * PageSize <= r.base)
             PROVE  FALSE
  OBVIOUS
<1> DEFINE x == s * PageSize
           y == e * PageSize
           base == r.base
           end == End(r)
           a == IF base >= x THEN base ELSE x
           p == PageDown(a)
<1>1. x \in Nat /\ y \in Nat /\ base \in Nat /\ end \in Nat /\ base < end /\ x < end /\ base < y
  <2>1. base \in Nat /\ r.size \in Nat /\ end = base + r.size
    BY StateIs DEF Regions, End
  <2>2. x \in Nat /\ y \in Nat
    BY WholePages
  <2> HIDE DEF x, y, base, end
  <2>3. ~(end <= x) /\ ~(y <= base) /\ r.size # 0
    BY DEF x, y, base, end
  <2> QED BY <2>1, <2>2, <2>3
<1>2. x < y
  <2>1. x + PageSize <= y
    BY Scaled
  <2> HIDE DEF x, y
  <2> QED BY <1>1, <2>1, SizesAre
<1>3. FALSE
  <2> HIDE DEF x, y, base, end
  <2>1. a \in Nat /\ x <= a /\ a < y /\ base <= a /\ a < end
    BY <1>1, <1>2
  <2> HIDE DEF a
  <2>2. p \in Nat /\ p * PageSize <= a /\ a < p * PageSize + PageSize
    BY <2>1, DownIs
  <2> DEFINE z == p * PageSize
  <2> HIDE DEF p
  <2>3. z \in Int /\ PageSize \in Nat /\ z <= a /\ a < z + PageSize
    BY <2>2, Scaled, SizesAre
  <2>4. (x < z + PageSize => s <= p) /\ (z < y => p < e)
    BY <2>2, Scaled DEF x, y
  <2> HIDE DEF z
  <2>5. s <= p /\ p < e
    BY <1>1, <2>1, <2>3, <2>4
  <2>6. p \in FreePages
    BY <2>2, <2>5
  <2> QED BY <2>1, <2>2, <2>6, FreeIsApart DEF base, end
<1> QED BY <1>3

LEMMA FoundKeeps ==
  ASSUME IInv, Found
  PROVE  IInv'
<1>0. PICK s \in Nat : s = cursor
  BY StateIs
<1> DEFINE t == s + Needed
           x == s * PageSize
           y == t * PageSize
           en == EntriesAt(Gap)
<1>1. /\ phase = "placing" /\ phase' = "seeding" /\ cursor' = FirstPage(arena)
      /\ FirstPage(arena) < LastPage(arena) /\ FirstPage(arena) <= s
      /\ Len(reserved) < MaxReserved /\ reserved \in Seq(Regions)
      /\ reserved' = Append(reserved, en) /\ entries' = en
      /\ UNCHANGED <<arena, runs>>
  BY <1>0, StateIs DEF Found, Begin, IInv, Typed, CursorInside
<1>2. /\ s \in Nat /\ t \in Nat /\ Needed \in Nat /\ s < t /\ t <= LastPage(arena)
      /\ s .. t - 1 \subseteq FreePages
  <2>1. /\ Gap.end \in Nat /\ Gap.end <= LastPage(arena) /\ cursor .. Gap.end - 1 \subseteq FreePages
        /\ cursor + Needed <= Gap.end
    BY YieldIs DEF Found
  <2>2. Needed \in Nat /\ Needed >= 1 /\ cursor \in Nat
    BY <1>1, StateIs, NeededIs
  <2> QED BY <1>0, <2>1, <2>2, StateIs
<1>3. /\ en \in Regions /\ en.base = x /\ End(en) = y
  <2>1. Gap.start = s
    BY <1>0, YieldIs DEF Found
  <2>2. x \in Nat /\ y \in Nat /\ x <= y
    BY <1>2, WholePages, Scaled
  <2>3. en = Region(x, y)
    BY <2>1, Zenon DEF EntriesAt
  <2> HIDE DEF x, y, en
  <2> QED BY <2>2, <2>3 DEF Region, End, Regions
<1> HIDE DEF en
<1>4. /\ reserved' \in Seq(Regions) /\ Len(reserved') = Len(reserved) + 1 /\ Len(reserved) \in Nat
      /\ reserved'[Len(reserved')] = en
      /\ \A i \in 1 .. Len(reserved) : reserved'[i] = reserved[i] /\ reserved[i] \in Taken
  <2>1. \A i \in 1 .. Len(reserved) : reserved[i] \in Taken
    BY <1>1 DEF Taken, Range
  <2> QED BY <1>1, <1>3, <2>1, AppendProperties, LenProperties
<1>5. Typed'
  <2>1. Len(reserved') <= MaxReserved
    BY <1>1, <1>4, SizesAre
  <2> QED BY <1>1, <1>3, <1>4, <2>1, StateIs DEF IInv, Typed, Phases
<1>6. CursorInside'
  BY <1>1, StateIs DEF CursorInside
<1>7. Searching'
  BY <1>1 DEF Searching
<1>8. runs' = <<>>
  BY <1>1 DEF IInv, Seeding
<1>9. Seeding'
  <2>1. Seeded' = {}
    BY <1>8 DEF Seeded
  <2>2. FreePages' \subseteq FirstPage(arena') .. LastPage(arena') - 1
    BY DEF FreePages
  <2>3. {p \in FreePages' : p < cursor'} = {}
    <3> DEFINE F == FreePages'
               c == cursor'
               f == FirstPage(arena)
               l == LastPage(arena)
    <3>1. c = f /\ f \in Nat /\ l \in Nat /\ F \subseteq f .. l - 1
      BY <1>1, <2>2, StateIs
    <3> HIDE DEF F, c, f, l
    <3>2. \A p \in F : ~(p < c)
      <4> TAKE p \in F
      <4>1. p \in f .. l - 1
        BY <3>1
      <4> QED BY <3>1, <4>1
    <3>3. {p \in F : p < c} = {}
      BY <3>2
    <3> QED BY <3>3 DEF F, c
  <2> QED BY <1>1, <2>1, <2>3 DEF Seeding
<1>10. \A i \in 1 .. Len(reserved) :
          LET r == reserved[i] IN r.size = 0 \/ End(r) <= x \/ y <= r.base
  <2> SUFFICES ASSUME NEW i \in 1 .. Len(reserved)
               PROVE  reserved[i].size = 0 \/ End(reserved[i]) <= x \/ y <= reserved[i].base
    OBVIOUS
  <2>1. reserved[i] \in Taken
    BY <1>4
  <2> HIDE DEF t
  <2> QED BY <1>2, <2>1, FreeRunIsApart
<1>11. PlacedAt(s)'
  <2> DEFINE all == reserved'
             ent == entries'
             m == Needed'
             n == Len(reserved)
             ar == arena'
  <2>1. m = Needed /\ ar = arena
    BY <1>1 DEF Needed
  <2>2. /\ FirstPage(ar) <= s /\ s + m <= LastPage(ar)
        /\ ent.base = s * PageSize /\ End(ent) = (s + m) * PageSize
    BY <1>1, <1>2, <1>3, <2>1
  <2> HIDE DEF all, ent, m, n, ar, x, y
  <2>3. Len(all) > 0 /\ all[Len(all)] = ent /\ Len(all) - 1 = n
    BY <1>1, <1>4 DEF all, ent, n
  <2>4. \A i \in 1 .. n : LET r == all[i] IN r.size = 0 \/ End(r) <= ent.base \/ End(ent) <= r.base
    BY <1>1, <1>3, <1>4, <1>10 DEF all, ent, n
  <2>5. \A i \in 1 .. Len(all) - 1 : LET r == all[i] IN r.size = 0 \/ End(r) <= ent.base \/ End(ent) <= r.base
    BY <2>3, <2>4
  <2> QED BY <2>2, <2>3, <2>5 DEF PlacedAt, all, ent, m, ar
<1>12. Placed'
  <2>1. ~AtNull(EntriesAt(Gap))
    BY DEF Found
  <2>2. ~AtNull(entries')
    BY <1>1, <2>1 DEF en
  <2> QED BY <1>1, <1>2, <1>11, <2>2, StateIs DEF Placed
<1> QED BY <1>5, <1>6, <1>7, <1>8, <1>9, <1>12, NoRuns DEF IInv

LEMMA SeedKeeps ==
  ASSUME IInv, Seed
  PROVE  IInv'
<1> DEFINE e == Gap.end
           n == Len(runs)
           more == runs'
<1>1. /\ phase = "seeding" /\ cursor' = e
      /\ more = Append(runs, Gap) /\ runs \in Seq([start : Nat, end : Nat])
      /\ UNCHANGED <<phase, arena, reserved, entries>>
      /\ FirstPage(arena) <= cursor
  BY StateIs DEF Seed, IInv, Typed, CursorInside
<1>2. /\ Gap \in [start : Nat, end : Nat] /\ e \in Nat
      /\ Gap.start = cursor /\ cursor < e /\ e <= LastPage(arena)
      /\ PagesOf(Gap) = cursor .. e - 1 /\ PagesOf(Gap) \subseteq FreePages
      /\ Edge(arena, Taken, e) /\ ~Edge(arena, Taken, cursor)
  BY YieldIs DEF Seed
<1>3. /\ FreePages' = FreePages /\ Needed' = Needed /\ Taken' = Taken
  BY <1>1, FixedIs
<1>4. /\ more \in Seq([start : Nat, end : Nat]) /\ n \in Nat /\ Len(more) = n + 1
      /\ more[n + 1] = Gap
      /\ \A i \in 1 .. n : more[i] = runs[i] /\ runs[i] \in [start : Nat, end : Nat]
  <2> DEFINE S == [start : Nat, end : Nat]
             g == Gap
  <2>1. runs \in Seq(S) /\ g \in S /\ n = Len(runs) /\ more = Append(runs, g)
    BY <1>1, <1>2
  <2> HIDE DEF S, g, n, more
  <2>2. \A i \in 1 .. n : runs[i] \in S
    BY <2>1, ElementOfSeq
  <2>3. more \in Seq(S) /\ n \in Nat /\ Len(more) = n + 1 /\ more[n + 1] = g /\ \A i \in 1 .. n : more[i] = runs[i]
    BY <2>1, AppendProperties, LenProperties
  <2> QED BY <2>2, <2>3 DEF S, g
<1> HIDE DEF e, n
<1>5. Typed'
  BY <1>1, <1>2, <1>4 DEF IInv, Typed
<1>6. CursorInside'
  BY <1>1, <1>2, StateIs DEF IInv, CursorInside
<1>7. Searching'
  BY <1>1 DEF Searching
<1>8. Seeding'
  <2>1. Seeded = {p \in FreePages : p < cursor}
    BY <1>1 DEF IInv, Seeding
  <2>2. Seeded' = Seeded \cup PagesOf(Gap)
    <3>1. DOMAIN runs = 1 .. n /\ DOMAIN more = 1 .. n + 1
      BY <1>1, <1>4, LenProperties DEF n
    <3>2. 1 .. n + 1 = (1 .. n) \cup {n + 1}
      BY <1>4
    <3>3. Seeded' = UNION {PagesOf(more[i]) : i \in 1 .. n + 1}
      BY <3>1 DEF Seeded
    <3>4. Seeded = UNION {PagesOf(runs[i]) : i \in 1 .. n}
      BY <3>1 DEF Seeded
    <3> HIDE DEF more
    <3>5. \A i \in 1 .. n : PagesOf(more[i]) = PagesOf(runs[i])
      BY <1>4
    <3>6. PagesOf(more[n + 1]) = PagesOf(Gap)
      BY <1>4
    <3> QED BY <3>2, <3>3, <3>4, <3>5, <3>6
  <2>3. {p \in FreePages : p < cursor} \cup PagesOf(Gap) = {p \in FreePages : p < e}
    BY <1>2, StateIs
  <2> QED BY <1>1, <1>3, <2>1, <2>2, <2>3 DEF Seeding
<1>9. RunsApart'
  <2> SUFFICES ASSUME NEW i \in 1 .. n + 1
               PROVE  /\ more[i].start < more[i].end
                      /\ i > 1 => more[i - 1].end < more[i].start
                      /\ Edge(arena, Taken, more[i].end)
                      /\ more[i].end <= e
    BY <1>1, <1>3, <1>4 DEF RunsApart
  <2>1. \A j \in 1 .. n : /\ runs[j].start < runs[j].end
                          /\ j > 1 => runs[j - 1].end < runs[j].start
                          /\ Edge(arena, Taken, runs[j].end)
                          /\ runs[j].end <= cursor
                          /\ runs[j].end \in Nat
    BY <1>1, <1>4 DEF IInv, RunsApart, n
  <2> HIDE DEF more
  <2>2. CASE i \in 1 .. n
    <3>1. i > 1 => i - 1 \in 1 .. n
      BY <1>4, <2>2
    <3>2. more[i] = runs[i] /\ (i > 1 => more[i - 1] = runs[i - 1])
      BY <1>4, <2>2, <3>1
    <3>3. runs[i].end <= e
      BY <1>2, <2>1, <2>2, StateIs
    <3> QED BY <2>1, <2>2, <3>2, <3>3
  <2>3. CASE i = n + 1
    <3>1. i > 1 => n \in 1 .. n /\ i - 1 = n
      BY <1>4, <2>3
    <3>2. i > 1 => runs[n].end < cursor
      BY <1>2, <2>1, <3>1, StateIs
    <3>3. i > 1 => more[i - 1] = runs[n]
      BY <1>4, <3>1
    <3>4. more[i].start = cursor /\ more[i].end = e
      BY <1>2, <1>4, <2>3 DEF e
    <3> QED BY <1>2, <3>2, <3>3, <3>4
  <2> QED BY <1>4, <2>2, <2>3
<1>10. Placed'
  BY <1>1, <1>3 DEF IInv, Placed, PlacedAt, AtNull
<1> QED BY <1>5, <1>6, <1>7, <1>8, <1>9, <1>10 DEF IInv

LEMMA StutterKeeps ==
  ASSUME IInv, UNCHANGED vars
  PROVE  IInv'
<1>1. UNCHANGED <<phase, arena, reserved, cursor, entries, runs>>
  BY DEF vars
<1>2. FreePages' = FreePages /\ Needed' = Needed /\ Taken' = Taken /\ Seeded' = Seeded
  BY <1>1, FixedIs DEF Seeded
<1>3. Typed' /\ CursorInside' /\ RunsApart'
  BY <1>1, <1>2 DEF IInv, Typed, CursorInside, RunsApart
<1>4. Searching' /\ Seeding' /\ Placed'
  BY <1>1, <1>2 DEF IInv, Searching, Tried, Places, Seeding, Placed, PlacedAt, AtNull
<1> QED BY <1>3, <1>4 DEF IInv

LEMMA NextKeeps == IInv /\ [Next]_vars => IInv'
<1> SUFFICES ASSUME IInv, [Next]_vars PROVE IInv'
  OBVIOUS
<1>1. CASE \E m \in Memories : New(m)
  BY <1>1, NewKeeps
<1>2. CASE \/ \E m \in Memories : NewFails(m)
           \/ \E r \in Claims : Reserve(r) \/ ReserveFails(r)
           \/ PlaceFails \/ FoundFails
  BY <1>2, RestingKeeps
<1>3. CASE Place
  BY <1>3, PlaceKeeps
<1>4. CASE Skip
  BY <1>4, SkipKeeps
<1>5. CASE TooShort
  BY <1>5, TooShortKeeps
<1>6. CASE Found
  BY <1>6, FoundKeeps
<1>7. CASE Seed
  BY <1>7, SeedKeeps
<1>8. CASE Exhausted
  BY <1>8, ExhaustedKeeps
<1>9. CASE FoundAtNull
  BY <1>9, FoundAtNullKeeps
<1>10. CASE UNCHANGED vars
  BY <1>10, StutterKeeps
<1> QED BY <1>1, <1>2, <1>3, <1>4, <1>5, <1>6, <1>7, <1>8, <1>9, <1>10 DEF Next, Iterate

-------------------------------------------------------------------------------
(* The theorems.                                                            *)

THEOREM Invariant == Spec => []IInv
<1>1. Init => IInv
  BY InitHolds
<1>2. IInv /\ [Next]_vars => IInv'
  BY NextKeeps
<1> QED BY <1>1, <1>2, PTL DEF Spec

\* For every memory and every sequence of reservations, what the iterator of
\* mm/gaps.rs has given to Frames::seed is what lies before its cursor and has no
\* byte of a reservation in it, and all of it at the end; and of two runs the
\* second begins behind the page after the first, so that no two buddies come in
\* runs of their own.
THEOREM SeedsWhatIsFree == Spec => []SeedsFree
<1>1. IInv => SeedsFree
  <2> SUFFICES ASSUME IInv PROVE SeedsFree
    OBVIOUS
  <2>1. phase \in {"seeding", "ready"} => Seeded = {p \in FreePages : p < cursor \/ phase = "ready"}
    BY DEF IInv, Seeding
  <2>2. DOMAIN runs = 1 .. Len(runs)
    BY LenProperties DEF IInv, Typed
  <2>3. \A i \in 1 .. Len(runs) : runs[i].start < runs[i].end /\ (i > 1 => runs[i - 1].end < runs[i].start)
    BY DEF IInv, RunsApart
  <2> QED BY <2>1, <2>2, <2>3 DEF SeedsFree
<1> QED BY <1>1, Invariant, PTL

\* Seeded pages lie apart from the array of entries.
LEMMA SeededApart ==
  ASSUME IInv, phase \in {"seeding", "ready"}, NEW p \in Seeded
  PROVE  End(entries) <= p * PageSize \/ (p + 1) * PageSize <= entries.base
<1>1. p \in FreePages /\ p \in Nat
  BY StateIs DEF IInv, Seeding
<1>2. PICK s \in FirstPage(arena) .. LastPage(arena) : PlacedAt(s)
  BY DEF IInv, Placed
<1> DEFINE t == s + Needed
           x == s * PageSize
           y == t * PageSize
           z == p * PageSize
<1>3. /\ s \in Nat /\ t \in Nat /\ x \in Int /\ y \in Int /\ z \in Nat
      /\ (p + 1) * PageSize = z + PageSize
      /\ entries.base = x /\ End(entries) = y
      /\ p < s => z + PageSize <= x
      /\ t <= p => y <= z
      /\ s <= p => x <= z
      /\ p < t => z + PageSize <= y
  <2>1. s \in Nat /\ t \in Nat
    BY StateIs
  <2>2. entries.base = x /\ End(entries) = y
    BY <1>2 DEF PlacedAt
  <2>3. z \in Nat
    BY <1>1, WholePages
  <2> HIDE DEF t
  <2>4. x \in Int /\ y \in Int /\ (p + 1) * PageSize = z + PageSize
    BY <1>1, <2>1, Scaled
  <2>5. p \in Int /\ s \in Int /\ t \in Int
    BY <1>1, <2>1
  <2>6. p < s => z + PageSize <= x
    BY <2>5, Scaled
  <2>7. s <= p => x <= z
    BY <2>5, Scaled
  <2>8. p < t => z + PageSize <= y
    BY <2>5, Scaled
  <2>9. t <= p => y <= z
    BY <2>5, Scaled
  <2> QED BY <2>1, <2>2, <2>3, <2>4, <2>6, <2>7, <2>8, <2>9
<1> DEFINE w == (p + 1) * PageSize
<1>4. w = z + PageSize
  BY <1>3
<1> SUFFICES ASSUME ~(End(entries) <= z), ~(w <= entries.base) PROVE FALSE
  OBVIOUS
<1> HIDE DEF t, x, y, w
<1>5. entries \in Taken
  <2>1. reserved \in Seq(Regions) /\ Len(reserved) > 0 /\ reserved[Len(reserved)] = entries
    BY <1>2 DEF PlacedAt, IInv, Typed
  <2>2. Len(reserved) \in DOMAIN reserved
    BY <2>1, LenProperties
  <2> QED BY <2>1, <2>2 DEF Taken, Range
<1>6. PageSize \in Nat /\ PageSize >= 1
  BY SizesAre
<1>7. ~(entries.base <= z /\ z < End(entries))
  <2>1. z \in Nat /\ z <= z /\ z < z + PageSize
    <3> HIDE DEF z
    <3> QED BY <1>3, <1>6
  <2> QED BY <1>1, <1>5, <2>1, FreeIsApart
<1> HIDE DEF z
<1> QED BY <1>1, <1>3, <1>4, <1>6, <1>7

\* The array of entries of mm/pages.rs has room for every page of the arena, lies
\* in it and never at address 0, apart from what was reserved before and from
\* what is seeded; and Pages::new gives up only when no run of free pages is long
\* enough, or when the first that is begins at address 0, which NonNull::new
\* refuses.
THEOREM PlacesEntries == Spec => []EntriesPlaced
<1>1. IInv => EntriesPlaced
  <2> SUFFICES ASSUME IInv PROVE EntriesPlaced
    OBVIOUS
  <2>1. TypeOK
    BY DEF IInv, Typed, TypeOK, Regions, InPages
  <2>2. ASSUME phase \in {"seeding", "ready"}
        PROVE  /\ entries.size >= (arena.size \div PageSize) * EntrySize
               /\ arena.base <= entries.base /\ End(entries) <= End(arena) /\ ~AtNull(entries)
               /\ \A i \in 1 .. Len(reserved) - 1 :
                     LET r == reserved[i] IN r.size = 0 \/ End(r) <= entries.base \/ End(entries) <= r.base
    <3>1. PICK s \in FirstPage(arena) .. LastPage(arena) : PlacedAt(s)
      BY <2>2 DEF IInv, Placed
    <3>2. \A i \in 1 .. Len(reserved) - 1 :
             LET r == reserved[i] IN r.size = 0 \/ End(r) <= entries.base \/ End(entries) <= r.base
      BY <3>1 DEF PlacedAt
    <3> DEFINE f == FirstPage(arena)
               l == LastPage(arena)
               m == Needed
               t == s + m
    <3>3. /\ s \in Nat /\ m \in Nat /\ t \in Nat /\ f \in Nat /\ l \in Nat /\ f <= s /\ t <= l
          /\ arena.base = f * PageSize /\ End(arena) = l * PageSize
          /\ entries.base = s * PageSize /\ End(entries) = t * PageSize
      BY <3>1, StateIs, ArenaIs DEF PlacedAt
    <3>4. entries.size \in Nat /\ entries.base \in Nat /\ End(entries) = entries.base + entries.size
      BY DEF IInv, Typed, Regions, End
    <3>5. (arena.size \div PageSize) * EntrySize <= m * PageSize
      BY StateIs, NeededIs
    <3>6. t * PageSize = s * PageSize + m * PageSize /\ m * PageSize \in Int
      BY <3>3, SizesAre
    <3> HIDE DEF f, l, m, t
    <3>7. f * PageSize <= s * PageSize /\ t * PageSize <= l * PageSize
      BY <3>3, Scaled
    <3>8. entries.size = m * PageSize
      <4> DEFINE x == s * PageSize
                 y == m * PageSize
      <4>1. entries.base = x /\ End(entries) = x + y /\ y \in Int
        BY <3>3, <3>6
      <4> HIDE DEF x, y
      <4>2. entries.size = y
        BY <3>4, <4>1
      <4> QED BY <4>2 DEF y
    <3>9. arena.base <= entries.base /\ End(entries) <= End(arena)
      BY <3>3, <3>7
    <3>10. entries.size >= (arena.size \div PageSize) * EntrySize
      <4> DEFINE n == (arena.size \div PageSize) * EntrySize
                 y == m * PageSize
      <4>1. n <= y /\ entries.size = y
        BY <3>5, <3>8
      <4> HIDE DEF n, y
      <4>2. entries.size >= n
        BY <4>1
      <4> QED BY <4>2 DEF n
    <3>11. ~AtNull(entries)
      BY <2>2 DEF IInv, Placed
    <3> QED BY <3>2, <3>9, <3>10, <3>11
  <2>3. phase \in {"seeding", "ready"} =>
           \A p \in Seeded : End(entries) <= p * PageSize \/ (p + 1) * PageSize <= entries.base
    BY SeededApart
  <2>4. phase = "unplaceable" /\ arena.size \div PageSize \in 1 .. MaxPages =>
           Places = {} \/ 0 \in Places
    <3>1. \A p \in FreePages : p < LastPage(arena)
      BY StateIs
    <3>2. Tried(LastPage(arena)) => Places = {}
      BY <3>1 DEF Tried, Places
    <3> QED BY <3>2 DEF IInv, Searching
  <2> QED BY <2>1, <2>2, <2>3, <2>4 DEF EntriesPlaced
<1> QED BY <1>1, Invariant, PTL
==============================================================================
