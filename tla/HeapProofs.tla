------------------------------ MODULE HeapProofs ------------------------------
(***************************************************************************)
(* That the heap of Heap accounts for every slot of its slabs, keeps the   *)
(* list of each class linked and complete, passes its asserts, and         *)
(* implements an ObjectAllocator: for every arena, page size, set of       *)
(* classes and set of layouts.                                             *)
(***************************************************************************)
EXTENDS Heap, Lemmas

-------------------------------------------------------------------------------
(* The inductive invariant, of a heap h, the blocks hd it has and the       *)
(* objects lv in use.                                                       *)

SlabEntries ==
    [kind : {"slab"}, class : Classes, free_head : Int, in_use : Int,
     next_partial : Pages \cup {None}, prev_partial : Pages \cup {None}]

HeapType ==
    [heads : [Classes -> Pages \cup {None}],
     entry : [Pages -> {Buddy} \cup SlabEntries],
     word  : [Pages -> [0 .. PageSize - 1 -> Int]]]

PageBlock(p) == [pfn |-> p, order |-> 0]

Blocks == [pfn : Pages, order : 0 .. MaxOrder]

\* No page is in two blocks, and only a block of one page serves as a slab.
BlocksApart(h, hd) ==
    /\ \A a, b \in hd : a # b => Frames!Span(a) \cap Frames!Span(b) = {}
    /\ \A b \in hd : IsSlab(h, b.pfn) => b.order = 0

SlabsOf(h, hd) == {p \in Pages : PageBlock(p) \in hd /\ IsSlab(h, p)}

SlotsOf(h, p) == Slots(h.entry[p].class)

SlotAddress(h, p, i) == p * PageSize + i * Sizes[h.entry[p].class]

\* Every object is a slot of a slab of its class, or has a block of its order.
InSlab(h, hd, o) ==
    \E p \in SlabsOf(h, hd) : /\ ClassOf(o.layout) = h.entry[p].class
                              /\ \E i \in SlotsOf(h, p) : o.addr = SlotAddress(h, p, i)

IsWhole(h, o, b) ==
    /\ ~IsSlab(h, b.pfn)
    /\ ClassOf(o.layout) = NoClass
    /\ o.addr = b.pfn * PageSize
    /\ b.order = OrderOf(o.layout)

ObjectsPlaced(h, hd, lv) ==
    /\ \A o \in lv : InSlab(h, hd, o) \/ \E b \in hd : IsWhole(h, o, b)
    /\ \A o, q \in lv : o.addr = q.addr => o = q

\* The slots an object is in are counted, the others linked.
InUse(h, lv, p) == {i \in SlotsOf(h, p) : \E o \in lv : o.addr = SlotAddress(h, p, i)}

SlotsLinked(h, hd, lv) ==
    \A p \in SlabsOf(h, hd) :
        /\ Threaded(h.entry[p].free_head, h.word[p], None, SlotsOf(h, p) \ InUse(h, lv, p))
        /\ h.entry[p].in_use = Cardinality(InUse(h, lv, p))

\* The slabs of class c with a free slot are linked, in both directions.
PartialOf(h, hd, c) == {p \in SlabsOf(h, hd) : h.entry[p].class = c /\ ~IsFull(h, p)}

After(h) == [p \in Pages |-> IF IsSlab(h, p) THEN h.entry[p].next_partial ELSE None]

ListHas(h, c, ps) ==
    /\ Threaded(h.heads[c], After(h), None, ps)
    /\ h.heads[c] # None => h.entry[h.heads[c]].prev_partial = None
    /\ \A p \in ps : LET after == h.entry[p].next_partial
                     IN  after # None => h.entry[after].prev_partial = p

FullUnlinked(h, hd) ==
    \A p \in SlabsOf(h, hd) :
        IsFull(h, p) => h.entry[p].next_partial = None /\ h.entry[p].prev_partial = None

ListsLinked(h, hd) ==
    /\ \A c \in Classes : ListHas(h, c, PartialOf(h, hd, c))
    /\ FullUnlinked(h, hd)

Base(h, hd, lv) ==
    /\ h \in HeapType
    /\ hd \in SUBSET Blocks
    /\ lv \in SUBSET [addr : Nat, layout : Layouts]
    /\ BlocksApart(h, hd)
    /\ ObjectsPlaced(h, hd, lv)
    /\ SlotsLinked(h, hd, lv)

Sound(h, hd, lv) == Base(h, hd, lv) /\ ListsLinked(h, hd)

\* No block is kept that no object is in.
BlocksUsed(h, hd, lv) ==
    \A b \in hd : IF IsSlab(h, b.pfn) THEN h.entry[b.pfn].in_use # 0
                  ELSE \E o \in lv : IsWhole(h, o, b)

IInv ==
    /\ Sound(heap, held, live)
    /\ BlocksUsed(heap, held, live)
    /\ refused \in SUBSET Layouts

-------------------------------------------------------------------------------
(* Sizes and addresses.                                                     *)

LEMMA PageIs ==
  /\ PageSize \in Nat /\ PageSize >= 1
  /\ \A p \in Pages : p \in Nat /\ p # None
  BY SlabAssumption DEF None

LEMMA ClassIs ==
  ASSUME NEW c \in Classes
  PROVE  /\ c \in Nat /\ c # NoClass
         /\ Sizes[c] \in Nat /\ Sizes[c] >= 1
         /\ PageSize \div Sizes[c] \in Nat /\ PageSize \div Sizes[c] >= 2
         /\ Sizes[c] * (PageSize \div Sizes[c]) = PageSize
         /\ Slots(c) = 0 .. PageSize \div Sizes[c] - 1
         /\ 0 \in Slots(c) /\ None \notin Slots(c)
         /\ \A i \in Slots(c) : i \in Nat /\ i \in 0 .. PageSize - 1
         /\ IsFiniteSet(Slots(c)) /\ Cardinality(Slots(c)) = PageSize \div Sizes[c]
<1> DEFINE s == Sizes[c]
           n == PageSize \div s
<1>1. c \in Nat /\ c # NoClass /\ s \in 1 .. PageSize \div 2 /\ PageSize % s = 0
  BY SlabAssumption DEF Classes, NoClass
<1>2. s \in Nat /\ s >= 1 /\ 2 * s <= PageSize
  BY <1>1, PageIs
<1> HIDE DEF s
<1>3. n \in Int /\ PageSize = s * n + (PageSize % s)
  BY <1>2, PageIs
<1> HIDE DEF n
<1>4. s * n = PageSize
  BY <1>1, <1>2, <1>3, PageIs
<1>5. n >= 2
  <2> SUFFICES ASSUME n <= 1 PROVE FALSE
    BY <1>3
  <2>1. s * (1 - n) >= 0 /\ s * (1 - n) = s - s * n
    BY <1>2, <1>3
  <2> QED BY <1>2, <1>4, <2>1, PageIs
<1>6. n <= PageSize
  <2>1. n * (s - 1) >= 0 /\ n * (s - 1) = s * n - n
    BY <1>2, <1>3, <1>5
  <2> QED BY <1>3, <1>4, <2>1, PageIs
<1>7. Slots(c) = 0 .. n - 1
  BY DEF Slots, s, n
<1>8. IsFiniteSet(0 .. n - 1) /\ Cardinality(0 .. n - 1) = n
  <2>1. n - 1 \in Int /\ ~(0 > n - 1) /\ (n - 1) - 0 + 1 = n
    BY <1>3, <1>5
  <2> DEFINE m == n - 1
  <2> HIDE DEF m
  <2>2. IsFiniteSet(0 .. m) /\ Cardinality(0 .. m) = IF 0 > m THEN 0 ELSE m - 0 + 1
    BY <2>1, FS_Interval DEF m
  <2> QED BY <2>1, <2>2 DEF m
<1>9. \A i \in 0 .. n - 1 : i \in Nat /\ i \in 0 .. PageSize - 1
  BY <1>3, <1>6, PageIs
<1>10. 0 \in 0 .. n - 1 /\ None \notin 0 .. n - 1
  BY <1>3, <1>5 DEF None
<1> QED BY <1>1, <1>2, <1>3, <1>4, <1>5, <1>7, <1>8, <1>9, <1>10 DEF s, n

LEMMA SlotFits ==
  ASSUME NEW c \in Classes, NEW i \in Slots(c)
  PROVE  i * Sizes[c] \in Nat /\ i * Sizes[c] + Sizes[c] <= PageSize
<1> DEFINE s == Sizes[c]
           n == PageSize \div s
<1>1. s \in Nat /\ n \in Nat /\ s * n = PageSize /\ i \in Nat /\ i \in 0 .. n - 1
  BY ClassIs
<1> HIDE DEF s, n
<1>2. s * (n - 1 - i) >= 0 /\ s * (n - 1 - i) = s * n - s - i * s /\ i * s \in Nat
  BY <1>1
<1> QED BY <1>1, <1>2 DEF s

LEMMA RemainderIs ==
  ASSUME NEW s \in Nat, s >= 1, NEW q \in Nat, NEW r \in Nat, r < s
  PROVE  (q * s + r) \div s = q /\ (q * s + r) % s = r
<1> DEFINE a == q * s + r
           d == a \div s
           m == a % s
<1>1. a \in Int /\ d \in Int /\ m \in 0 .. s - 1 /\ a = s * d + m
  <2>1. a \in Int
    OBVIOUS
  <2> HIDE DEF a
  <2> QED BY <2>1, ModuloIs
<1> HIDE DEF d, m
<1>2. a = s * q + r
  OBVIOUS
<1>3. s * q < s * d + s /\ s * d < s * q + s
  BY <1>1, <1>2
<1>4. q <= d /\ d <= q
  BY <1>1, <1>3, MultiplesOrder
<1>5. d = q
  BY <1>1, <1>4
<1>6. m = r
  BY <1>1, <1>2, <1>5
<1> QED BY <1>5, <1>6 DEF d, m

\* An address tells the page and, once the class is known, the slot.
LEMMA AddressTells ==
  ASSUME NEW c \in Classes, NEW i \in Slots(c), NEW p \in Nat
  PROVE  LET a == p * PageSize + i * Sizes[c]
         IN  /\ a \in Nat /\ a \div PageSize = p
             /\ a % PageSize = i * Sizes[c]
             /\ (a % PageSize) % Sizes[c] = 0 /\ (a % PageSize) \div Sizes[c] = i
<1> DEFINE r == i * Sizes[c]
           a == p * PageSize + r
<1>1. r \in Nat /\ r < PageSize /\ Sizes[c] \in Nat /\ Sizes[c] >= 1 /\ i \in Nat
  BY SlotFits, ClassIs
<1>2. r = Sizes[c] * i
  BY <1>1
<1>3. r % Sizes[c] = 0 /\ r \div Sizes[c] = i
  BY <1>1, <1>2, MultipleIs
<1> HIDE DEF r
<1>4. a \div PageSize = p /\ a % PageSize = r /\ a \in Nat
  BY <1>1, PageIs, RemainderIs
<1> QED BY <1>3, <1>4 DEF r

LEMMA PageStartTells ==
  ASSUME NEW p \in Nat
  PROVE  p * PageSize \in Nat /\ (p * PageSize) \div PageSize = p
<1>1. p * PageSize + 0 = p * PageSize /\ p * PageSize \in Nat
  BY PageIs
<1>2. (p * PageSize + 0) \div PageSize = p
  BY PageIs, RemainderIs
<1> QED BY <1>1, <1>2

-------------------------------------------------------------------------------
(* What the operations do to a heap.                                        *)

LEMMA HeapIs ==
  ASSUME NEW h \in HeapType
  PROVE  /\ h.heads \in [Classes -> Pages \cup {None}]
         /\ h.entry \in [Pages -> {Buddy} \cup SlabEntries]
         /\ h.word \in [Pages -> [0 .. PageSize - 1 -> Int]]
         /\ h = [heads |-> h.heads, entry |-> h.entry, word |-> h.word]
         /\ \A p \in Pages : IsSlab(h, p) => h.entry[p] \in SlabEntries
<1>1. ASSUME NEW p \in Pages, IsSlab(h, p)
      PROVE  h.entry[p] \in SlabEntries
  <2>1. h.entry[p] # Buddy
    BY <1>1 DEF IsSlab, Buddy
  <2> QED BY <2>1 DEF HeapType
<1> QED BY <1>1 DEF HeapType

LEMMA EntryIs ==
  ASSUME NEW e \in SlabEntries
  PROVE  /\ e.kind = "slab" /\ e.class \in Classes /\ e.free_head \in Int /\ e.in_use \in Int
         /\ e.next_partial \in Pages \cup {None} /\ e.prev_partial \in Pages \cup {None}
  BY DEF SlabEntries

\* Two heaps that differ in no more than the links between their slabs.
Relinked(h, new) ==
    /\ new \in HeapType
    /\ new.word = h.word
    /\ \A q \in Pages : /\ IsSlab(new, q) <=> IsSlab(h, q)
                        /\ IsSlab(h, q) => /\ new.entry[q].class = h.entry[q].class
                                           /\ new.entry[q].free_head = h.entry[q].free_head
                                           /\ new.entry[q].in_use = h.entry[q].in_use

LEMMA TakeSlotIs ==
  ASSUME NEW h \in HeapType, NEW p \in Pages, IsSlab(h, p), h.entry[p].free_head \in SlotsOf(h, p)
  PROVE  LET new == TakeSlot(h, p)
             i == h.entry[p].free_head
         IN  /\ new \in HeapType
             /\ new.heads = h.heads
             /\ \A q \in Pages \ {p} : new.entry[q] = h.entry[q] /\ new.word[q] = h.word[q]
             /\ IsSlab(new, p)
             /\ new.entry[p].free_head = h.word[p][i]
             /\ new.entry[p].in_use = h.entry[p].in_use + 1
             /\ new.entry[p].class = h.entry[p].class
             /\ new.entry[p].next_partial = h.entry[p].next_partial
             /\ new.entry[p].prev_partial = h.entry[p].prev_partial
             /\ \A j \in 0 .. PageSize - 1 : j # i => new.word[p][j] = h.word[p][j]
<1> DEFINE i == h.entry[p].free_head
           e == [h.entry[p] EXCEPT !.free_head = h.word[p][i], !.in_use = h.entry[p].in_use + 1]
           w == [h.word[p] EXCEPT ![i] = Junk]
           entry == [h.entry EXCEPT ![p] = e]
           word == [h.word EXCEPT ![p] = w]
           new == TakeSlot(h, p)
<1>1. h.entry[p] \in SlabEntries /\ i \in 0 .. PageSize - 1 /\ h.word[p] \in [0 .. PageSize - 1 -> Int]
      /\ h.word[p][i] \in Int
  <2>1. h.entry[p] \in SlabEntries /\ h.word[p] \in [0 .. PageSize - 1 -> Int]
    BY HeapIs
  <2>2. i \in 0 .. PageSize - 1
    BY <2>1, EntryIs, ClassIs DEF SlotsOf
  <2> QED BY <2>1, <2>2
<1>3. /\ e \in SlabEntries /\ e.free_head = h.word[p][i] /\ e.in_use = h.entry[p].in_use + 1 /\ e.class = h.entry[p].class
      /\ e.next_partial = h.entry[p].next_partial /\ e.prev_partial = h.entry[p].prev_partial
      /\ e.kind = "slab"
  <2> DEFINE was == h.entry[p]
             head == h.word[p][i]
             n == was.in_use + 1
  <2>1. was \in SlabEntries /\ head \in Int /\ n \in Int
    BY <1>1, EntryIs
  <2>2. e = [was EXCEPT !.free_head = head, !.in_use = n]
    OBVIOUS
  <2> HIDE DEF was, head, n, e
  <2>3. /\ e \in SlabEntries
        /\ e.kind = "slab" /\ e.class = was.class /\ e.free_head = head /\ e.in_use = n
        /\ e.next_partial = was.next_partial /\ e.prev_partial = was.prev_partial
    BY <2>1, <2>2 DEF SlabEntries
  <2> QED BY <2>3, Zenon DEF was, head, n
<1>4. w \in [0 .. PageSize - 1 -> Int] /\ \A j \in 0 .. PageSize - 1 : j # i => w[j] = h.word[p][j]
  BY <1>1 DEF Junk
<1>5. new = [h EXCEPT !.entry = entry, !.word = word]
  BY Zenon DEF TakeSlot
<1> HIDE DEF e, w
<1>6. /\ entry \in [Pages -> {Buddy} \cup SlabEntries] /\ entry[p] = e
      /\ \A q \in Pages \ {p} : entry[q] = h.entry[q]
  BY <1>3, HeapIs
<1>7. /\ word \in [Pages -> [0 .. PageSize - 1 -> Int]] /\ word[p] = w
      /\ \A q \in Pages \ {p} : word[q] = h.word[q]
  BY <1>4, HeapIs
<1> HIDE DEF entry, word, new
<1>9. new \in HeapType /\ new.heads = h.heads /\ new.entry = entry /\ new.word = word
  BY <1>5, <1>6, <1>7 DEF HeapType
<1>10. IsSlab(new, p)
  BY <1>3, <1>6, <1>9 DEF IsSlab
<1> QED BY <1>3, <1>4, <1>6, <1>7, <1>9, <1>10 DEF new

LEMMA FreeSlotIs ==
  ASSUME NEW h \in HeapType, NEW p \in Pages, IsSlab(h, p), NEW i \in SlotsOf(h, p)
  PROVE  LET new == FreeSlot(h, p, i)
         IN  /\ new \in HeapType
             /\ new.heads = h.heads
             /\ \A q \in Pages \ {p} : new.entry[q] = h.entry[q] /\ new.word[q] = h.word[q]
             /\ IsSlab(new, p)
             /\ new.entry[p].free_head = i
             /\ new.entry[p].in_use = h.entry[p].in_use - 1
             /\ new.entry[p].class = h.entry[p].class
             /\ new.entry[p].next_partial = h.entry[p].next_partial
             /\ new.entry[p].prev_partial = h.entry[p].prev_partial
             /\ new.word[p][i] = h.entry[p].free_head
             /\ \A j \in 0 .. PageSize - 1 : j # i => new.word[p][j] = h.word[p][j]
<1> DEFINE e == [h.entry[p] EXCEPT !.free_head = i, !.in_use = h.entry[p].in_use - 1]
           w == [h.word[p] EXCEPT ![i] = h.entry[p].free_head]
           entry == [h.entry EXCEPT ![p] = e]
           word == [h.word EXCEPT ![p] = w]
           new == FreeSlot(h, p, i)
<1>1. h.entry[p] \in SlabEntries /\ i \in 0 .. PageSize - 1 /\ h.word[p] \in [0 .. PageSize - 1 -> Int]
      /\ i \in Int
  <2>1. h.entry[p] \in SlabEntries /\ h.word[p] \in [0 .. PageSize - 1 -> Int]
    BY HeapIs
  <2>2. i \in 0 .. PageSize - 1
    BY <2>1, EntryIs, ClassIs DEF SlotsOf
  <2> QED BY <2>1, <2>2
<1>3. /\ e \in SlabEntries /\ e.free_head = i /\ e.in_use = h.entry[p].in_use - 1 /\ e.class = h.entry[p].class
      /\ e.next_partial = h.entry[p].next_partial /\ e.prev_partial = h.entry[p].prev_partial
      /\ e.kind = "slab"
  <2> DEFINE was == h.entry[p]
             head == i
             n == was.in_use - 1
  <2>1. was \in SlabEntries /\ head \in Int /\ n \in Int
    BY <1>1, EntryIs
  <2>2. e = [was EXCEPT !.free_head = head, !.in_use = n]
    OBVIOUS
  <2> HIDE DEF was, head, n, e
  <2>3. /\ e \in SlabEntries
        /\ e.kind = "slab" /\ e.class = was.class /\ e.free_head = head /\ e.in_use = n
        /\ e.next_partial = was.next_partial /\ e.prev_partial = was.prev_partial
    BY <2>1, <2>2 DEF SlabEntries
  <2> QED BY <2>3, Zenon DEF was, head, n
<1>4. /\ w \in [0 .. PageSize - 1 -> Int] /\ w[i] = h.entry[p].free_head
      /\ \A j \in 0 .. PageSize - 1 : j # i => w[j] = h.word[p][j]
  BY <1>1, EntryIs
<1>5. new = [h EXCEPT !.entry = entry, !.word = word]
  BY Zenon DEF FreeSlot
<1> HIDE DEF e, w
<1>6. /\ entry \in [Pages -> {Buddy} \cup SlabEntries] /\ entry[p] = e
      /\ \A q \in Pages \ {p} : entry[q] = h.entry[q]
  BY <1>3, HeapIs
<1>7. /\ word \in [Pages -> [0 .. PageSize - 1 -> Int]] /\ word[p] = w
      /\ \A q \in Pages \ {p} : word[q] = h.word[q]
  BY <1>4, HeapIs
<1> HIDE DEF entry, word, new
<1>9. new \in HeapType /\ new.heads = h.heads /\ new.entry = entry /\ new.word = word
  BY <1>5, <1>6, <1>7 DEF HeapType
<1>10. IsSlab(new, p)
  BY <1>3, <1>6, <1>9 DEF IsSlab
<1> QED BY <1>3, <1>4, <1>6, <1>7, <1>9, <1>10 DEF new

LEMMA PushSlabIs ==
  ASSUME NEW h \in HeapType, NEW p \in Pages, IsSlab(h, p), NEW c \in Classes,
         c = h.entry[p].class, NEW old \in Pages \cup {None}, old = h.heads[c],
         old # None => IsSlab(h, old)
  PROVE  LET new == PushSlab(h, p)
         IN  /\ Relinked(h, new)
             /\ new.heads[c] = p
             /\ \A d \in Classes \ {c} : new.heads[d] = h.heads[d]
             /\ \A q \in Pages : IsSlab(h, q) =>
                   /\ new.entry[q].next_partial = IF q = p THEN old ELSE h.entry[q].next_partial
                   /\ new.entry[q].prev_partial =
                         IF q = p THEN None ELSE IF q = old THEN p ELSE h.entry[q].prev_partial
<1> DEFINE heads == [h.heads EXCEPT ![c] = p]
           entry == [q \in Pages |->
                       IF q = p THEN [h.entry[q] EXCEPT !.next_partial = old, !.prev_partial = None]
                       ELSE IF q = old THEN [h.entry[q] EXCEPT !.prev_partial = p]
                       ELSE h.entry[q]]
           new == PushSlab(h, p)
<1>1. new = [h EXCEPT !.heads = heads, !.entry = entry]
  BY Zenon DEF PushSlab
<1>2. /\ heads \in [Classes -> Pages \cup {None}] /\ heads[c] = p
      /\ \A d \in Classes \ {c} : heads[d] = h.heads[d]
  BY HeapIs
<1>3. ASSUME NEW q \in Pages
      PROVE  /\ ~IsSlab(h, q) => entry[q] = h.entry[q]
             /\ IsSlab(h, q) =>
                   /\ entry[q] \in SlabEntries
                   /\ entry[q].kind = "slab"
                   /\ entry[q].class = h.entry[q].class
                   /\ entry[q].free_head = h.entry[q].free_head
                   /\ entry[q].in_use = h.entry[q].in_use
                   /\ entry[q].next_partial = IF q = p THEN old ELSE h.entry[q].next_partial
                   /\ entry[q].prev_partial =
                         IF q = p THEN None ELSE IF q = old THEN p ELSE h.entry[q].prev_partial
  <2>1. CASE ~IsSlab(h, q)
    <3>1. q # p /\ q # old
      BY <2>1, PageIs
    <3> QED BY <2>1, <3>1
  <2>2. CASE IsSlab(h, q)
    <3> DEFINE was == h.entry[q]
               now == entry[q]
    <3>1. was \in SlabEntries
      BY <2>2, HeapIs
    <3>2. now = IF q = p THEN [was EXCEPT !.next_partial = old, !.prev_partial = None]
                ELSE IF q = old THEN [was EXCEPT !.prev_partial = p] ELSE was
      BY Zenon
    <3> HIDE DEF was, now, entry
    <3>3. CASE q = p
      <4>1. now = [was EXCEPT !.next_partial = old, !.prev_partial = None]
        BY <3>2, <3>3
      <4>2. /\ now \in SlabEntries /\ now.kind = "slab" /\ now.class = was.class
            /\ now.free_head = was.free_head /\ now.in_use = was.in_use
            /\ now.next_partial = old /\ now.prev_partial = None
        BY <3>1, <4>1 DEF SlabEntries
      <4> QED BY <2>2, <3>3, <4>2 DEF was, now
    <3>4. CASE q # p /\ q = old
      <4>1. now = [was EXCEPT !.prev_partial = p]
        BY <3>2, <3>4
      <4>2. /\ now \in SlabEntries /\ now.kind = "slab" /\ now.class = was.class
            /\ now.free_head = was.free_head /\ now.in_use = was.in_use
            /\ now.next_partial = was.next_partial /\ now.prev_partial = p
        BY <3>1, <4>1 DEF SlabEntries
      <4> QED BY <2>2, <3>4, <4>2 DEF was, now
    <3>5. CASE q # p /\ q # old
      <4>1. now = was /\ was.kind = "slab"
        BY <3>1, <3>2, <3>5, EntryIs
      <4> QED BY <2>2, <3>1, <3>5, <4>1 DEF was, now
    <3> QED BY <3>3, <3>4, <3>5
  <2> QED BY <2>1, <2>2
<1>4. entry \in [Pages -> {Buddy} \cup SlabEntries]
  <2>1. entry = [q \in Pages |-> entry[q]]
    OBVIOUS
  <2> HIDE DEF entry
  <2>2. \A q \in Pages : entry[q] \in {Buddy} \cup SlabEntries
    BY <1>3, HeapIs
  <2> QED BY <2>1, <2>2
<1> HIDE DEF heads, entry, new
<1>5. new \in HeapType /\ new.heads = heads /\ new.entry = entry /\ new.word = h.word
  BY <1>1, <1>2, <1>4 DEF HeapType
<1>6. \A q \in Pages : IsSlab(new, q) <=> IsSlab(h, q)
  BY <1>3, <1>5 DEF IsSlab
<1>7. Relinked(h, new)
  BY <1>3, <1>5, <1>6 DEF Relinked
<1> QED BY <1>2, <1>3, <1>5, <1>7 DEF new

LEMMA UnlinkSlabIs ==
  ASSUME NEW h \in HeapType, NEW p \in Pages, IsSlab(h, p), NEW c \in Classes,
         c = h.entry[p].class,
         NEW after \in Pages \cup {None}, after = h.entry[p].next_partial,
         NEW before \in Pages \cup {None}, before = h.entry[p].prev_partial,
         after # None => IsSlab(h, after), before # None => IsSlab(h, before),
         before = after => before = None
  PROVE  LET new == UnlinkSlab(h, p)
         IN  /\ Relinked(h, new)
             /\ new.heads[c] = IF before = None THEN after ELSE h.heads[c]
             /\ \A d \in Classes \ {c} : new.heads[d] = h.heads[d]
             /\ \A q \in Pages : IsSlab(h, q) =>
                   /\ new.entry[q].next_partial =
                         IF q = p THEN None ELSE IF q = before THEN after ELSE h.entry[q].next_partial
                   /\ new.entry[q].prev_partial =
                         IF q = p THEN None ELSE IF q = after THEN before ELSE h.entry[q].prev_partial
<1> DEFINE heads == IF before = None THEN [h.heads EXCEPT ![c] = after] ELSE h.heads
           own == [h.entry[p] EXCEPT !.next_partial = None, !.prev_partial = None]
           entry == [q \in Pages |->
                       IF q = p THEN own
                       ELSE IF q = before THEN [h.entry[q] EXCEPT !.next_partial = after]
                       ELSE IF q = after THEN [h.entry[q] EXCEPT !.prev_partial = before]
                       ELSE h.entry[q]]
           new == UnlinkSlab(h, p)
           Link(q) == IF q \in Pages /\ IsSlab(h, q) THEN q ELSE None
<1>1. new = [h EXCEPT !.heads = heads, !.entry = entry]
  <2>1. Link(h.entry[p].next_partial) = after /\ Link(h.entry[p].prev_partial) = before
    BY PageIs
  <2> QED BY <2>1, Zenon DEF UnlinkSlab
<1>2. /\ heads \in [Classes -> Pages \cup {None}]
      /\ heads[c] = IF before = None THEN after ELSE h.heads[c]
      /\ \A d \in Classes \ {c} : heads[d] = h.heads[d]
  BY HeapIs
<1>3. ASSUME NEW q \in Pages
      PROVE  /\ ~IsSlab(h, q) => entry[q] = h.entry[q]
             /\ IsSlab(h, q) =>
                   /\ entry[q] \in SlabEntries
                   /\ entry[q].kind = "slab"
                   /\ entry[q].class = h.entry[q].class
                   /\ entry[q].free_head = h.entry[q].free_head
                   /\ entry[q].in_use = h.entry[q].in_use
                   /\ entry[q].next_partial =
                         IF q = p THEN None ELSE IF q = before THEN after ELSE h.entry[q].next_partial
                   /\ entry[q].prev_partial =
                         IF q = p THEN None ELSE IF q = after THEN before ELSE h.entry[q].prev_partial
  <2>1. CASE ~IsSlab(h, q)
    <3>1. q # p /\ q # before /\ q # after
      BY <2>1, PageIs
    <3> QED BY <2>1, <3>1
  <2>2. CASE IsSlab(h, q)
    <3> DEFINE was == h.entry[q]
               now == entry[q]
    <3>1. was \in SlabEntries
      BY <2>2, HeapIs
    <3>2. now = IF q = p THEN [was EXCEPT !.next_partial = None, !.prev_partial = None]
                ELSE IF q = before THEN [was EXCEPT !.next_partial = after]
                ELSE IF q = after THEN [was EXCEPT !.prev_partial = before] ELSE was
      BY Zenon
    <3> HIDE DEF was, now, entry, own, Link
    <3>3. CASE q = p
      <4>1. now = [was EXCEPT !.next_partial = None, !.prev_partial = None]
        BY <3>2, <3>3
      <4>2. /\ now \in SlabEntries /\ now.kind = "slab" /\ now.class = was.class
            /\ now.free_head = was.free_head /\ now.in_use = was.in_use
            /\ now.next_partial = None /\ now.prev_partial = None
        BY <3>1, <4>1 DEF SlabEntries
      <4> QED BY <2>2, <3>3, <4>2 DEF was, now
    <3>4. CASE q # p /\ q = before
      <4>1. now = [was EXCEPT !.next_partial = after]
        BY <3>2, <3>4
      <4>2. /\ now \in SlabEntries /\ now.kind = "slab" /\ now.class = was.class
            /\ now.free_head = was.free_head /\ now.in_use = was.in_use
            /\ now.next_partial = after /\ now.prev_partial = was.prev_partial
        BY <3>1, <4>1 DEF SlabEntries
      <4>3. q # after
        BY <3>4, PageIs
      <4> QED BY <2>2, <3>4, <4>2, <4>3 DEF was, now
    <3>5. CASE q # p /\ q # before /\ q = after
      <4>1. now = [was EXCEPT !.prev_partial = before]
        BY <3>2, <3>5
      <4>2. /\ now \in SlabEntries /\ now.kind = "slab" /\ now.class = was.class
            /\ now.free_head = was.free_head /\ now.in_use = was.in_use
            /\ now.next_partial = was.next_partial /\ now.prev_partial = before
        BY <3>1, <4>1 DEF SlabEntries
      <4> QED BY <2>2, <3>5, <4>2 DEF was, now
    <3>6. CASE q # p /\ q # before /\ q # after
      <4>1. now = was /\ was.kind = "slab"
        BY <3>1, <3>2, <3>6, EntryIs
      <4> QED BY <2>2, <3>1, <3>6, <4>1 DEF was, now
    <3> QED BY <3>3, <3>4, <3>5, <3>6
  <2> QED BY <2>1, <2>2
<1>4. entry \in [Pages -> {Buddy} \cup SlabEntries]
  <2>1. entry = [q \in Pages |-> entry[q]]
    OBVIOUS
  <2> HIDE DEF entry
  <2>2. \A q \in Pages : entry[q] \in {Buddy} \cup SlabEntries
    BY <1>3, HeapIs
  <2> QED BY <2>1, <2>2
<1> HIDE DEF heads, entry, new
<1>5. new \in HeapType /\ new.heads = heads /\ new.entry = entry /\ new.word = h.word
  BY <1>1, <1>2, <1>4 DEF HeapType
<1>6. \A q \in Pages : IsSlab(new, q) <=> IsSlab(h, q)
  BY <1>3, <1>5 DEF IsSlab
<1>7. Relinked(h, new)
  BY <1>3, <1>5, <1>6 DEF Relinked
<1> QED BY <1>2, <1>3, <1>5, <1>7 DEF new

LEMMA InitSlabIs ==
  ASSUME NEW h \in HeapType, NEW p \in Pages, NEW c \in Classes
  PROVE  LET new == [InitSlab(h, p, c) EXCEPT !.heads[c] = p]
         IN  /\ new \in HeapType
             /\ new.heads[c] = p
             /\ \A d \in Classes \ {c} : new.heads[d] = h.heads[d]
             /\ \A q \in Pages \ {p} : new.entry[q] = h.entry[q] /\ new.word[q] = h.word[q]
             /\ new.entry[p] = SlabEntry(c, 0, 0, None, None)
             /\ \A i \in Slots(c) : new.word[p][i] = IF i + 1 \in Slots(c) THEN i + 1 ELSE None
<1> DEFINE e == SlabEntry(c, 0, 0, None, None)
           w == [i \in 0 .. PageSize - 1 |-> IF i + 1 \in Slots(c) THEN i + 1
                                             ELSE IF i \in Slots(c) THEN None ELSE Junk]
           entry == [h.entry EXCEPT ![p] = e]
           word == [h.word EXCEPT ![p] = w]
           heads == [h.heads EXCEPT ![c] = p]
           first == InitSlab(h, p, c)
           new == [first EXCEPT !.heads[c] = p]
<1>1. e \in SlabEntries
  BY DEF SlabEntries, SlabEntry
<1>2. w \in [0 .. PageSize - 1 -> Int] /\ \A i \in Slots(c) : w[i] = IF i + 1 \in Slots(c) THEN i + 1 ELSE None
  BY ClassIs DEF None, Junk
<1>3. first = [h EXCEPT !.entry = entry, !.word = word]
  BY Zenon DEF InitSlab
<1> HIDE DEF e, w
<1>4. /\ entry \in [Pages -> {Buddy} \cup SlabEntries] /\ entry[p] = e
      /\ \A q \in Pages \ {p} : entry[q] = h.entry[q]
  BY <1>1, HeapIs
<1>5. /\ word \in [Pages -> [0 .. PageSize - 1 -> Int]] /\ word[p] = w
      /\ \A q \in Pages \ {p} : word[q] = h.word[q]
  BY <1>2, HeapIs
<1>6. /\ heads \in [Classes -> Pages \cup {None}] /\ heads[c] = p
      /\ \A d \in Classes \ {c} : heads[d] = h.heads[d]
  BY HeapIs
<1> HIDE DEF entry, word, first
<1>7. first \in HeapType /\ first.heads = h.heads /\ first.entry = entry /\ first.word = word
  BY <1>3, <1>4, <1>5 DEF HeapType
<1>8. new = [first EXCEPT !.heads = heads]
  BY <1>7, Zenon
<1> HIDE DEF heads, new
<1>9. new \in HeapType /\ new.heads = heads /\ new.entry = entry /\ new.word = word
  BY <1>6, <1>7, <1>8 DEF HeapType
<1> QED BY <1>2, <1>4, <1>5, <1>6, <1>9 DEF new, first, e

-------------------------------------------------------------------------------
(* The lists of the classes.                                                *)

SlabsAmong(h) == {p \in Pages : IsSlab(h, p)}

LEMMA ListIs ==
  ASSUME NEW h \in HeapType, NEW c \in Classes, NEW ps \in SUBSET SlabsAmong(h), ListHas(h, c, ps)
  PROVE  /\ h.heads[c] = None <=> ps = {}
         /\ h.heads[c] \in ps \cup {None}
         /\ \A p \in ps :
               LET after  == h.entry[p].next_partial
                   before == h.entry[p].prev_partial
               IN  /\ after \in ps \cup {None} /\ before \in ps \cup {None}
                   /\ before = None <=> h.heads[c] = p
                   /\ before # None => h.entry[before].next_partial = p
                   /\ before = after => before = None
                   /\ after # p /\ before # p
<1>1. Threaded(h.heads[c], After(h), None, ps) /\ None \notin ps
  BY PageIs DEF ListHas, SlabsAmong
<1>2. \A p \in ps : After(h)[p] = h.entry[p].next_partial
  BY DEF After, SlabsAmong
<1>3. /\ h.heads[c] = None <=> ps = {}
      /\ h.heads[c] \in ps \cup {None}
      /\ \A p \in ps : After(h)[p] \in ps \cup {None} /\ After(h)[p] # p
      /\ \A p \in ps : After(h)[p] # None => After(h)[After(h)[p]] # p
      /\ \A p \in ps : After(h)[p] # None => After(h)[p] # h.heads[c]
      /\ \A p \in ps : p # h.heads[c] => \E q \in ps : After(h)[q] = p
  <2> DEFINE next == After(h)
             head == h.heads[c]
  <2>1. Threaded(head, next, None, ps)
    BY <1>1
  <2> HIDE DEF next, head
  <2>2. /\ head = None <=> ps = {}
        /\ head \in ps \cup {None}
        /\ \A p \in ps : next[p] \in ps \cup {None} /\ next[p] # p
        /\ \A p \in ps : next[p] # None => next[next[p]] # p
        /\ \A p \in ps : next[p] # None => next[p] # head
        /\ \A p \in ps : p # head => \E q \in ps : next[q] = p
    BY <1>1, <2>1, ThreadedIs
  <2> QED BY <2>2 DEF next, head
<1>4. ASSUME NEW p \in ps
      PROVE  LET after  == h.entry[p].next_partial
                 before == h.entry[p].prev_partial
             IN  /\ after \in ps \cup {None} /\ before \in ps \cup {None}
                 /\ before = None <=> h.heads[c] = p
                 /\ before # None => h.entry[before].next_partial = p
                 /\ before = after => before = None
                 /\ after # p /\ before # p
  <2> DEFINE after == h.entry[p].next_partial
             before == h.entry[p].prev_partial
  <2>1. after \in ps \cup {None} /\ after # p
    BY <1>2, <1>3
  <2>2. CASE h.heads[c] = p
    <3>1. before = None
      BY <2>2, <1>1 DEF ListHas
    <3> QED BY <1>1, <2>1, <2>2, <3>1
  <2>3. CASE h.heads[c] # p
    <3>1. PICK q \in ps : h.entry[q].next_partial = p
      BY <1>2, <1>3, <2>3
    <3>2. before = q
      BY <1>1, <3>1 DEF ListHas
    <3>3. after # None => h.entry[after].next_partial # p
      BY <1>2, <1>3, <2>1
    <3>4. h.entry[q].next_partial # q
      BY <1>2, <1>3
    <3> QED BY <1>1, <2>1, <2>3, <3>1, <3>2, <3>3, <3>4
  <2> QED BY <2>2, <2>3
<1> QED BY <1>3, <1>4

\* A list is as it was while its head and the links of its slabs are.
LEMMA ListKept ==
  ASSUME NEW h \in HeapType, NEW new \in HeapType, NEW c \in Classes, NEW ps \in SUBSET SlabsAmong(h),
         ListHas(h, c, ps), new.heads[c] = h.heads[c],
         \A q \in ps : /\ IsSlab(new, q)
                       /\ new.entry[q].next_partial = h.entry[q].next_partial
                       /\ new.entry[q].prev_partial = h.entry[q].prev_partial
  PROVE  ListHas(new, c, ps)
<1> DEFINE next == After(h)
           next1 == After(new)
           head == h.heads[c]
<1>1. Threaded(head, next, None, ps)
  BY DEF ListHas
<1>2. \A q \in ps : next1[q] = next[q]
  BY DEF After, SlabsAmong
<1> HIDE DEF next, next1, head
<1>3. Threaded(head, next1, None, ps)
  BY <1>1, <1>2, ThreadedKept
<1>4. /\ h.heads[c] \in ps \cup {None}
      /\ \A p \in ps : h.entry[p].next_partial \in ps \cup {None}
  BY ListIs
<1>5. new.heads[c] # None => new.entry[new.heads[c]].prev_partial = None
  BY <1>4 DEF ListHas
<1>6. \A p \in ps : LET after == new.entry[p].next_partial
                    IN  after # None => new.entry[after].prev_partial = p
  BY <1>4 DEF ListHas
<1> QED BY <1>3, <1>5, <1>6 DEF ListHas, head, next1

LEMMA PushLists ==
  ASSUME NEW h \in HeapType, NEW p \in Pages, IsSlab(h, p), NEW c \in Classes,
         c = h.entry[p].class, NEW ps \in SUBSET SlabsAmong(h), ListHas(h, c, ps), p \notin ps
  PROVE  LET new == PushSlab(h, p)
         IN  /\ Relinked(h, new)
             /\ ListHas(new, c, ps \cup {p})
             /\ \A d \in Classes \ {c} : \A qs \in SUBSET (SlabsAmong(h) \ (ps \cup {p})) :
                   ListHas(h, d, qs) => ListHas(new, d, qs)
             /\ \A q \in SlabsAmong(h) \ (ps \cup {p}) :
                   /\ new.entry[q].next_partial = h.entry[q].next_partial
                   /\ new.entry[q].prev_partial = h.entry[q].prev_partial
<1> DEFINE new == PushSlab(h, p)
           old == h.heads[c]
           next == After(h)
           next1 == After(new)
<1>1. /\ old \in ps \cup {None} /\ old \in Pages \cup {None} /\ (old # None => IsSlab(h, old))
      /\ old # p
      /\ \A q \in ps : h.entry[q].next_partial \in ps \cup {None}
  BY ListIs, PageIs DEF SlabsAmong
<1>2. /\ Relinked(h, new)
      /\ new.heads[c] = p
      /\ \A d \in Classes \ {c} : new.heads[d] = h.heads[d]
      /\ \A q \in Pages : IsSlab(h, q) =>
            /\ new.entry[q].next_partial = IF q = p THEN old ELSE h.entry[q].next_partial
            /\ new.entry[q].prev_partial =
                  IF q = p THEN None ELSE IF q = old THEN p ELSE h.entry[q].prev_partial
  BY <1>1, PushSlabIs
<1> HIDE DEF new, old
<1>3. new \in HeapType /\ \A q \in Pages : IsSlab(new, q) <=> IsSlab(h, q)
  BY <1>2 DEF Relinked
<1>4. \A q \in SlabsAmong(h) \ (ps \cup {p}) :
         /\ IsSlab(new, q)
         /\ new.entry[q].next_partial = h.entry[q].next_partial
         /\ new.entry[q].prev_partial = h.entry[q].prev_partial
  BY <1>1, <1>2, <1>3, PageIs DEF SlabsAmong
<1>5. ASSUME NEW d \in Classes \ {c}, NEW qs \in SUBSET (SlabsAmong(h) \ (ps \cup {p})), ListHas(h, d, qs)
      PROVE  ListHas(new, d, qs)
  <2>1. qs \in SUBSET SlabsAmong(h) /\ d \in Classes /\ new.heads[d] = h.heads[d]
    BY <1>2
  <2> QED BY <1>3, <1>4, <1>5, <2>1, ListKept
<1>6. Threaded(p, next1, None, ps \cup {p})
  <2>1. Threaded(old, next, None, ps)
    BY DEF ListHas, old
  <2>2. next1[p] = old /\ \A q \in ps : next1[q] = next[q]
    BY <1>2, <1>3 DEF After, SlabsAmong
  <2> HIDE DEF next, next1
  <2> QED BY <2>1, <2>2, ThreadedPush
<1>7. new.entry[p].prev_partial = None
  BY <1>2
<1>8. ASSUME NEW q \in ps \cup {p}, new.entry[q].next_partial # None
      PROVE  new.entry[new.entry[q].next_partial].prev_partial = q
  <2>1. CASE q = p
    <3>1. new.entry[q].next_partial = old /\ old \in Pages /\ IsSlab(h, old)
      BY <1>1, <1>2, <1>8, <2>1
    <3> QED BY <1>1, <1>2, <2>1, <3>1
  <2>2. CASE q # p
    <3>1. q \in ps /\ new.entry[q].next_partial = h.entry[q].next_partial
      BY <1>2, <2>2 DEF SlabsAmong
    <3> DEFINE r == h.entry[q].next_partial
    <3>2. r \in ps /\ h.entry[r].prev_partial = q
      <4>1. r \in ps
        BY <1>1, <1>8, <3>1
      <4> QED BY <3>1, <4>1, PageIs DEF ListHas, SlabsAmong
    <3>3. r # old
      <4>1. old # None => h.entry[old].prev_partial = None
        BY DEF ListHas, old
      <4> QED BY <3>1, <3>2, <4>1, PageIs DEF SlabsAmong
    <3>4. r # p /\ r \in Pages /\ IsSlab(h, r)
      BY <3>2 DEF SlabsAmong
    <3> QED BY <1>2, <3>1, <3>2, <3>3, <3>4
  <2> QED BY <2>1, <2>2
<1>9. ListHas(new, c, ps \cup {p})
  BY <1>2, <1>6, <1>7, <1>8 DEF ListHas
<1> QED BY <1>2, <1>4, <1>5, <1>9 DEF new

LEMMA UnlinkLists ==
  ASSUME NEW h \in HeapType, NEW c \in Classes, NEW ps \in SUBSET SlabsAmong(h), ListHas(h, c, ps),
         NEW p \in ps, c = h.entry[p].class
  PROVE  LET new == UnlinkSlab(h, p)
         IN  /\ Relinked(h, new)
             /\ ListHas(new, c, ps \ {p})
             /\ \A d \in Classes \ {c} : \A qs \in SUBSET (SlabsAmong(h) \ ps) :
                   ListHas(h, d, qs) => ListHas(new, d, qs)
             /\ \A q \in SlabsAmong(h) \ ps :
                   /\ new.entry[q].next_partial = h.entry[q].next_partial
                   /\ new.entry[q].prev_partial = h.entry[q].prev_partial
             /\ new.entry[p].next_partial = None /\ new.entry[p].prev_partial = None
<1> DEFINE new == UnlinkSlab(h, p)
           after == h.entry[p].next_partial
           before == h.entry[p].prev_partial
           next == After(h)
           next1 == After(new)
<1>1. /\ p \in Pages /\ IsSlab(h, p)
      /\ after \in ps \cup {None} /\ before \in ps \cup {None}
      /\ before = None <=> h.heads[c] = p
      /\ before # None => h.entry[before].next_partial = p
      /\ before = after => before = None
      /\ after # p /\ before # p
      /\ \A q \in ps : h.entry[q].next_partial \in ps \cup {None}
  BY ListIs DEF SlabsAmong
<1>2. /\ Relinked(h, new)
      /\ new.heads[c] = IF before = None THEN after ELSE h.heads[c]
      /\ \A d \in Classes \ {c} : new.heads[d] = h.heads[d]
      /\ \A q \in Pages : IsSlab(h, q) =>
            /\ new.entry[q].next_partial =
                  IF q = p THEN None ELSE IF q = before THEN after ELSE h.entry[q].next_partial
            /\ new.entry[q].prev_partial =
                  IF q = p THEN None ELSE IF q = after THEN before ELSE h.entry[q].prev_partial
  <2>1. /\ after \in Pages \cup {None} /\ before \in Pages \cup {None}
        /\ after # None => IsSlab(h, after)
        /\ before # None => IsSlab(h, before)
    BY <1>1 DEF SlabsAmong
  <2> QED BY <1>1, <2>1, UnlinkSlabIs
<1> HIDE DEF new, after, before
<1>3. new \in HeapType /\ \A q \in Pages : IsSlab(new, q) <=> IsSlab(h, q)
  BY <1>2 DEF Relinked
<1>4. \A q \in SlabsAmong(h) \ ps :
         /\ IsSlab(new, q)
         /\ new.entry[q].next_partial = h.entry[q].next_partial
         /\ new.entry[q].prev_partial = h.entry[q].prev_partial
  BY <1>1, <1>2, <1>3, PageIs DEF SlabsAmong
<1>5. ASSUME NEW d \in Classes \ {c}, NEW qs \in SUBSET (SlabsAmong(h) \ ps), ListHas(h, d, qs)
      PROVE  ListHas(new, d, qs)
  <2>1. qs \in SUBSET SlabsAmong(h) /\ d \in Classes /\ new.heads[d] = h.heads[d]
    BY <1>2
  <2> QED BY <1>3, <1>4, <1>5, <2>1, ListKept
<1>6. \A q \in ps \ {p} :
         /\ new.entry[q].next_partial = IF h.entry[q].next_partial = p THEN after ELSE h.entry[q].next_partial
         /\ new.entry[q].prev_partial = IF q = after THEN before ELSE h.entry[q].prev_partial
  <2> SUFFICES ASSUME NEW q \in ps \ {p}
               PROVE  /\ new.entry[q].next_partial =
                            IF h.entry[q].next_partial = p THEN after ELSE h.entry[q].next_partial
                      /\ new.entry[q].prev_partial = IF q = after THEN before ELSE h.entry[q].prev_partial
    OBVIOUS
  <2>1. q \in Pages /\ IsSlab(h, q)
    BY DEF SlabsAmong
  <2>2. h.entry[q].next_partial = p => q = before
    BY PageIs DEF ListHas, before, SlabsAmong
  <2>3. q = before => h.entry[q].next_partial = p
    BY <1>1, <2>1, PageIs
  <2> QED BY <1>2, <2>1, <2>2, <2>3
<1>7. Threaded(new.heads[c], next1, None, ps \ {p})
  <2>1. next[p] = after
    BY <1>1 DEF After, after
  <2>2. \A q \in ps \ {p} : next1[q] = IF next[q] = p THEN next[p] ELSE next[q]
    BY <1>3, <1>6, <2>1 DEF After, SlabsAmong
  <2> DEFINE head == h.heads[c]
  <2>3. Threaded(head, next, None, ps) /\ None \notin ps
    BY PageIs DEF ListHas, SlabsAmong
  <2>4. new.heads[c] = IF head = p THEN next[p] ELSE head
    BY <1>1, <1>2, <2>1
  <2> HIDE DEF next, next1, head
  <2>5. Threaded(IF head = p THEN next[p] ELSE head, next1, None, ps \ {p})
    BY <2>2, <2>3, ThreadedRemove
  <2> QED BY <2>4, <2>5
<1>8. new.heads[c] # None => new.entry[new.heads[c]].prev_partial = None
  <2> SUFFICES ASSUME new.heads[c] # None
               PROVE  new.entry[new.heads[c]].prev_partial = None
    OBVIOUS
  <2>1. CASE before = None
    <3>1. new.heads[c] = after /\ after \in ps \ {p}
      BY <1>1, <1>2, <2>1
    <3> QED BY <1>6, <2>1, <3>1
  <2>2. CASE before # None
    <3> DEFINE q == h.heads[c]
    <3>1. new.heads[c] = q /\ q # p
      BY <1>1, <1>2, <2>2
    <3>2. q \in ps \ {p} /\ h.entry[q].prev_partial = None
      BY <3>1, ListIs DEF ListHas
    <3>3. q # after
      <4>1. after # None => h.entry[after].prev_partial = p
        BY DEF ListHas, after
      <4> QED BY <1>1, <3>2, <4>1, PageIs DEF SlabsAmong
    <3> QED BY <1>6, <3>1, <3>2, <3>3
  <2> QED BY <2>1, <2>2
<1>9. ASSUME NEW q \in ps \ {p}, new.entry[q].next_partial # None
      PROVE  new.entry[new.entry[q].next_partial].prev_partial = q
  <2>1. CASE h.entry[q].next_partial = p
    <3>1. new.entry[q].next_partial = after /\ after \in ps \ {p} /\ q = before
      BY <1>1, <1>6, <1>9, <2>1, PageIs DEF ListHas, before, SlabsAmong
    <3> QED BY <1>6, <3>1
  <2>2. CASE h.entry[q].next_partial # p
    <3> DEFINE r == h.entry[q].next_partial
    <3>1. new.entry[q].next_partial = r /\ r \in ps \ {p}
      BY <1>1, <1>6, <1>9, <2>2
    <3>2. h.entry[r].prev_partial = q
      BY <3>1, PageIs DEF ListHas, SlabsAmong
    <3>3. r # after
      BY <1>1, <3>1, <3>2, PageIs DEF ListHas, after, SlabsAmong
    <3> QED BY <1>6, <3>1, <3>2, <3>3
  <2> QED BY <2>1, <2>2
<1>10. ListHas(new, c, ps \ {p})
  BY <1>7, <1>8, <1>9 DEF ListHas
<1>11. new.entry[p].next_partial = None /\ new.entry[p].prev_partial = None
  BY <1>1, <1>2
<1> QED BY <1>2, <1>4, <1>5, <1>10, <1>11 DEF new

-------------------------------------------------------------------------------
(* Slots and objects.                                                       *)

LEMMA SlabIs ==
  ASSUME NEW h \in HeapType, NEW hd, NEW p \in SlabsOf(h, hd)
  PROVE  /\ p \in Pages /\ p \in Nat /\ IsSlab(h, p) /\ PageBlock(p) \in hd
         /\ h.entry[p] \in SlabEntries /\ h.entry[p].class \in Classes
         /\ \A i \in SlotsOf(h, p) : i \in Nat /\ i \in 0 .. PageSize - 1
         /\ None \notin SlotsOf(h, p)
<1>1. p \in Pages /\ p \in Nat /\ IsSlab(h, p) /\ PageBlock(p) \in hd
  BY PageIs DEF SlabsOf
<1>2. h.entry[p] \in SlabEntries /\ h.entry[p].class \in Classes
  BY <1>1, HeapIs, EntryIs
<1> QED BY <1>1, <1>2, ClassIs DEF SlotsOf

\* Two slots of slabs at one address are one.
LEMMA SlotsApart ==
  ASSUME NEW h \in HeapType, NEW hd, NEW p \in SlabsOf(h, hd), NEW q \in SlabsOf(h, hd),
         NEW i \in SlotsOf(h, p), NEW j \in SlotsOf(h, q), SlotAddress(h, p, i) = SlotAddress(h, q, j)
  PROVE  p = q /\ i = j
<1>1. /\ p \in Nat /\ h.entry[p].class \in Classes /\ i \in Slots(h.entry[p].class)
      /\ q \in Nat /\ h.entry[q].class \in Classes /\ j \in Slots(h.entry[q].class)
  BY SlabIs DEF SlotsOf
<1>2. SlotAddress(h, p, i) \div PageSize = p /\ SlotAddress(h, q, j) \div PageSize = q
  BY <1>1, AddressTells DEF SlotAddress
<1>3. p = q
  BY <1>2
<1>4. /\ (SlotAddress(h, p, i) % PageSize) \div Sizes[h.entry[p].class] = i
      /\ (SlotAddress(h, q, j) % PageSize) \div Sizes[h.entry[q].class] = j
  BY <1>1, AddressTells DEF SlotAddress
<1> QED BY <1>3, <1>4

LEMMA BlockIs ==
  ASSUME NEW b \in Blocks
  PROVE  /\ b.pfn \in Pages /\ b.pfn \in Nat /\ b.order \in Nat
         /\ b = [pfn |-> b.pfn, order |-> b.order]
         /\ Frames!Span(b) = b.pfn .. b.pfn + 2 ^ b.order - 1
         /\ 2 ^ b.order \in Nat /\ 2 ^ b.order >= 1
         /\ b.pfn \in Frames!Span(b)
<1>1. b.pfn \in Pages /\ b.pfn \in Nat /\ b.order \in Nat /\ b = [pfn |-> b.pfn, order |-> b.order]
  BY PageIs, HeapAssumption DEF Blocks
<1>2. 2 ^ b.order \in Nat /\ 2 ^ b.order >= 1
  BY <1>1, PowerPositive
<1>3. Frames!Span(b) = b.pfn .. b.pfn + 2 ^ b.order - 1
  BY DEF Frames!Span
<1> DEFINE n == 2 ^ b.order
           a == b.pfn
<1> HIDE DEF n, a
<1>4. a \in a .. a + n - 1
  BY <1>1, <1>2 DEF a, n
<1> QED BY <1>1, <1>2, <1>3, <1>4 DEF a, n

LEMMA PageBlockIs ==
  ASSUME NEW p \in Pages
  PROVE  PageBlock(p) \in Blocks /\ PageBlock(p).pfn = p /\ Frames!Span(PageBlock(p)) = {p}
<1>1. PageBlock(p) \in Blocks /\ PageBlock(p).pfn = p /\ PageBlock(p).order = 0
  BY HeapAssumption DEF PageBlock, Blocks
<1>2. 2 ^ 0 = 1
  BY PowerZero
<1>3. Frames!Span(PageBlock(p)) = p .. p + 1 - 1
  BY <1>1, <1>2 DEF Frames!Span
<1> QED BY <1>1, <1>3, PageIs

\* Blocks that share a page are one.
LEMMA SamePage ==
  ASSUME NEW h, NEW hd \in SUBSET Blocks, BlocksApart(h, hd), NEW a \in hd, NEW b \in hd, a.pfn = b.pfn
  PROVE  a = b
<1>1. a.pfn \in Frames!Span(a) /\ b.pfn \in Frames!Span(b)
  BY BlockIs
<1> QED BY <1>1 DEF BlocksApart

\* What dealloc reads off an object's address.
LEMMA ObjectIs ==
  ASSUME NEW h, NEW hd, NEW lv, Base(h, hd, lv), NEW o \in lv
  PROVE  LET p == PageOf(o.addr)
             c == h.entry[p].class
             i == (o.addr % PageSize) \div Sizes[c]
         IN  /\ o.addr \in Nat /\ o.layout \in Layouts /\ p \in Pages
             /\ IsSlab(h, p) => /\ p \in SlabsOf(h, hd) /\ c = ClassOf(o.layout)
                                /\ ClassOf(o.layout) # NoClass
                                /\ i \in InUse(h, lv, p) /\ o.addr = SlotAddress(h, p, i)
                                /\ (o.addr % PageSize) % Sizes[c] = 0
             /\ ~IsSlab(h, p) => \E b \in hd : IsWhole(h, o, b) /\ b.pfn = p
<1> DEFINE p == PageOf(o.addr)
           c == h.entry[p].class
           i == (o.addr % PageSize) \div Sizes[c]
<1>1. o.addr \in Nat /\ o.layout \in Layouts /\ h \in HeapType
  BY DEF Base
<1>2. CASE InSlab(h, hd, o)
  <2>1. PICK q \in SlabsOf(h, hd) : /\ ClassOf(o.layout) = h.entry[q].class
                                    /\ \E j \in SlotsOf(h, q) : o.addr = SlotAddress(h, q, j)
    BY <1>2 DEF InSlab
  <2>2. PICK j \in SlotsOf(h, q) : o.addr = SlotAddress(h, q, j)
    BY <2>1
  <2> DEFINE d == h.entry[q].class
  <2>3. q \in Pages /\ q \in Nat /\ IsSlab(h, q) /\ d \in Classes /\ j \in Slots(d)
    BY <1>1, SlabIs DEF SlotsOf
  <2>4. /\ o.addr \div PageSize = q
        /\ (o.addr % PageSize) % Sizes[d] = 0 /\ (o.addr % PageSize) \div Sizes[d] = j
    BY <2>2, <2>3, AddressTells DEF SlotAddress
  <2>5. p = q
    BY <2>4 DEF PageOf
  <2> HIDE DEF p
  <2>6. i = j /\ c = d
    BY <2>4, <2>5
  <2>7. i \in InUse(h, lv, p)
    BY <2>2, <2>5, <2>6 DEF InUse
  <2> QED BY <1>1, <2>1, <2>2, <2>3, <2>4, <2>5, <2>6, <2>7, ClassIs DEF p
<1>3. CASE \E b \in hd : IsWhole(h, o, b)
  <2>1. PICK b \in hd : IsWhole(h, o, b)
    BY <1>3
  <2>2. b \in Blocks
    BY DEF Base
  <2>3. b.pfn \in Pages /\ b.pfn \in Nat /\ o.addr = b.pfn * PageSize /\ ~IsSlab(h, b.pfn)
    BY <2>1, <2>2, BlockIs DEF IsWhole
  <2>4. p = b.pfn
    BY <2>3, PageStartTells DEF PageOf
  <2> HIDE DEF p
  <2> QED BY <1>1, <2>1, <2>3, <2>4 DEF p
<1> QED BY <1>2, <1>3 DEF Base, ObjectsPlaced

\* Links are nothing to slots and objects.
LEMMA RelinkedBase ==
  ASSUME NEW h, NEW hd, NEW lv, Base(h, hd, lv), NEW new, Relinked(h, new)
  PROVE  /\ Base(new, hd, lv)
         /\ SlabsOf(new, hd) = SlabsOf(h, hd)
         /\ \A c \in Classes : PartialOf(new, hd, c) = PartialOf(h, hd, c)
         /\ \A p \in SlabsOf(h, hd) : IsFull(new, p) <=> IsFull(h, p)
<1>1. /\ \A q \in Pages : IsSlab(new, q) <=> IsSlab(h, q)
      /\ \A q \in Pages : IsSlab(h, q) => /\ new.entry[q].class = h.entry[q].class
                                          /\ new.entry[q].free_head = h.entry[q].free_head
                                          /\ new.entry[q].in_use = h.entry[q].in_use
      /\ new.word = h.word /\ new \in HeapType
  BY DEF Relinked
<1>2. SlabsOf(new, hd) = SlabsOf(h, hd)
  BY <1>1 DEF SlabsOf
<1>3. \A p \in SlabsOf(h, hd) :
         /\ new.entry[p].class = h.entry[p].class
         /\ new.entry[p].free_head = h.entry[p].free_head
         /\ new.entry[p].in_use = h.entry[p].in_use
         /\ SlotsOf(new, p) = SlotsOf(h, p)
         /\ InUse(new, lv, p) = InUse(h, lv, p)
         /\ \A i : SlotAddress(new, p, i) = SlotAddress(h, p, i)
  BY <1>1 DEF SlabsOf, SlotsOf, InUse, SlotAddress
<1>4. \A b \in hd : IsSlab(new, b.pfn) <=> IsSlab(h, b.pfn)
  BY <1>1, BlockIs DEF Base
<1>5. BlocksApart(new, hd)
  BY <1>4 DEF Base, BlocksApart
<1>6. ObjectsPlaced(new, hd, lv)
  <2>1. \A o \in lv : InSlab(h, hd, o) => InSlab(new, hd, o)
    BY <1>2, <1>3, ZenonT(40) DEF InSlab
  <2>2. \A o \in lv : \A b \in hd : IsWhole(h, o, b) => IsWhole(new, o, b)
    BY <1>4 DEF IsWhole
  <2> QED BY <2>1, <2>2 DEF Base, ObjectsPlaced
<1>7. SlotsLinked(new, hd, lv)
  BY <1>1, <1>2, <1>3 DEF Base, SlotsLinked
<1>8. \A c \in Classes : PartialOf(new, hd, c) = PartialOf(h, hd, c)
  BY <1>2, <1>3 DEF PartialOf, IsFull
<1>9. \A p \in SlabsOf(h, hd) : IsFull(new, p) <=> IsFull(h, p)
  BY <1>3 DEF IsFull
<1>10. Base(new, hd, lv)
  BY <1>1, <1>5, <1>6, <1>7 DEF Base
<1> QED BY <1>2, <1>8, <1>9, <1>10

\* What taking or freeing one slot of page p leaves alone.
LEMMA OtherPages ==
  ASSUME NEW h, NEW hd, NEW lv, Base(h, hd, lv), NEW p \in SlabsOf(h, hd),
         NEW new \in HeapType, IsSlab(new, p), new.entry[p].class = h.entry[p].class,
         \A q \in Pages \ {p} : new.entry[q] = h.entry[q]
  PROVE  /\ SlabsOf(new, hd) = SlabsOf(h, hd)
         /\ \A q \in SlabsOf(h, hd) : /\ new.entry[q].class = h.entry[q].class
                                      /\ SlotsOf(new, q) = SlotsOf(h, q)
                                      /\ \A i : SlotAddress(new, q, i) = SlotAddress(h, q, i)
         /\ \A o : InSlab(new, hd, o) <=> InSlab(h, hd, o)
         /\ \A o : \A b \in hd : IsWhole(new, o, b) <=> IsWhole(h, o, b)
         /\ BlocksApart(new, hd)
<1>1. p \in Pages /\ IsSlab(h, p)
  BY DEF SlabsOf
<1>2. \A q \in Pages : IsSlab(new, q) <=> IsSlab(h, q)
  <2>1. \A q \in Pages \ {p} : IsSlab(new, q) <=> IsSlab(h, q)
    BY Zenon DEF IsSlab
  <2> QED BY <1>1, <2>1
<1>3. SlabsOf(new, hd) = SlabsOf(h, hd)
  BY <1>2 DEF SlabsOf
<1>4. \A q \in SlabsOf(h, hd) : new.entry[q].class = h.entry[q].class
  BY DEF SlabsOf
<1>5. \A q \in SlabsOf(h, hd) : /\ SlotsOf(new, q) = SlotsOf(h, q)
                                /\ \A i : SlotAddress(new, q, i) = SlotAddress(h, q, i)
  BY <1>4 DEF SlotsOf, SlotAddress
<1>6. \A o : InSlab(new, hd, o) <=> InSlab(h, hd, o)
  BY <1>3, <1>4, <1>5, ZenonT(40) DEF InSlab
<1>7. \A b \in hd : IsSlab(new, b.pfn) <=> IsSlab(h, b.pfn)
  BY <1>2, BlockIs DEF Base
<1>8. \A o : \A b \in hd : IsWhole(new, o, b) <=> IsWhole(h, o, b)
  BY <1>7 DEF IsWhole
<1>9. BlocksApart(new, hd)
  BY <1>7 DEF Base, BlocksApart
<1> QED BY <1>3, <1>4, <1>5, <1>6, <1>8, <1>9

LEMMA TakeBase ==
  ASSUME NEW h, NEW hd, NEW lv, Base(h, hd, lv), NEW p \in SlabsOf(h, hd), ~IsFull(h, p),
         NEW l \in Layouts, ClassOf(l) = h.entry[p].class
  PROVE  LET new == TakeSlot(h, p)
         IN  /\ Base(new, hd, lv \cup {Object(Address(h, p), l)})
             /\ h.entry[p].free_head \in SlotsOf(h, p) /\ Object(Address(h, p), l) \notin lv
             /\ SlabsOf(new, hd) = SlabsOf(h, hd)
             /\ new.heads = h.heads
             /\ \A q \in Pages \ {p} : new.entry[q] = h.entry[q]
             /\ IsSlab(new, p)
             /\ new.entry[p].class = h.entry[p].class
             /\ new.entry[p].in_use = h.entry[p].in_use + 1
             /\ new.entry[p].next_partial = h.entry[p].next_partial
             /\ new.entry[p].prev_partial = h.entry[p].prev_partial
<1> DEFINE new == TakeSlot(h, p)
           i == h.entry[p].free_head
           o == Object(Address(h, p), l)
           lv1 == lv \cup {o}
           F == SlotsOf(h, p) \ InUse(h, lv, p)
<1>1. h \in HeapType /\ p \in Pages /\ p \in Nat /\ IsSlab(h, p) /\ h.entry[p].class \in Classes
  BY SlabIs DEF Base
<1>2. Threaded(i, h.word[p], None, F) /\ None \notin F
  BY <1>1, SlabIs DEF Base, SlotsLinked
<1>3. i \in F /\ \A j \in F : h.word[p][j] # None => h.word[p][j] # i
  <2> DEFINE w == h.word[p]
  <2>1. i # None
    BY DEF IsFull
  <2>2. Threaded(i, w, None, F)
    BY <1>2
  <2> HIDE DEF i, F, w
  <2>3. i \in F \cup {None} /\ \A j \in F : w[j] # None => w[j] # i
    BY <1>2, <2>2, ThreadedIs
  <2> QED BY <2>1, <2>3 DEF w
<1>4. i \in SlotsOf(h, p) /\ i \notin InUse(h, lv, p)
  BY <1>3
<1>5. /\ new \in HeapType
      /\ new.heads = h.heads
      /\ \A q \in Pages \ {p} : new.entry[q] = h.entry[q] /\ new.word[q] = h.word[q]
      /\ IsSlab(new, p)
      /\ new.entry[p].free_head = h.word[p][i]
      /\ new.entry[p].in_use = h.entry[p].in_use + 1
      /\ new.entry[p].class = h.entry[p].class
      /\ new.entry[p].next_partial = h.entry[p].next_partial
      /\ new.entry[p].prev_partial = h.entry[p].prev_partial
      /\ \A j \in 0 .. PageSize - 1 : j # i => new.word[p][j] = h.word[p][j]
  BY <1>1, <1>4, TakeSlotIs
<1> HIDE DEF new
<1>6. /\ SlabsOf(new, hd) = SlabsOf(h, hd)
      /\ \A q \in SlabsOf(h, hd) : /\ new.entry[q].class = h.entry[q].class
                                   /\ SlotsOf(new, q) = SlotsOf(h, q)
                                   /\ \A j : SlotAddress(new, q, j) = SlotAddress(h, q, j)
      /\ \A q : InSlab(new, hd, q) <=> InSlab(h, hd, q)
      /\ \A q : \A b \in hd : IsWhole(new, q, b) <=> IsWhole(h, q, b)
      /\ BlocksApart(new, hd)
  BY <1>5, OtherPages
<1>7. o.addr = SlotAddress(h, p, i) /\ o.layout = l /\ o.addr \in Nat /\ o = [addr |-> o.addr, layout |-> l]
  <2>1. o.addr = SlotAddress(h, p, i) /\ o.layout = l /\ o = [addr |-> o.addr, layout |-> l]
    BY DEF Object, Address, SlotAddress
  <2>2. SlotAddress(h, p, i) \in Nat
    BY <1>1, <1>4, AddressTells DEF SlotAddress, SlotsOf
  <2> QED BY <2>1, <2>2
<1> HIDE DEF o, i
<1>8. InUse(new, lv1, p) = InUse(h, lv, p) \cup {i}
  <2>1. ASSUME NEW j \in SlotsOf(h, p), o.addr = SlotAddress(h, p, j)
        PROVE  j = i
    BY <1>1, <1>4, <1>7, <2>1, SlotsApart
  <2> QED BY <1>4, <1>6, <1>7, <2>1 DEF InUse
<1>9. \A q \in SlabsOf(h, hd) \ {p} : InUse(new, lv1, q) = InUse(h, lv, q)
  <2>1. ASSUME NEW q \in SlabsOf(h, hd) \ {p}, NEW j \in SlotsOf(h, q)
        PROVE  o.addr # SlotAddress(h, q, j)
    BY <1>1, <1>4, <1>7, SlotsApart
  <2> QED BY <1>6, <2>1 DEF InUse
<1>10. SlotsLinked(new, hd, lv1)
  <2>1. ASSUME NEW q \in SlabsOf(h, hd) \ {p}
        PROVE  /\ Threaded(new.entry[q].free_head, new.word[q], None, SlotsOf(new, q) \ InUse(new, lv1, q))
               /\ new.entry[q].in_use = Cardinality(InUse(new, lv1, q))
    BY <1>5, <1>6, <1>9 DEF Base, SlotsLinked, SlabsOf
  <2>2. Threaded(new.entry[p].free_head, new.word[p], None, SlotsOf(new, p) \ InUse(new, lv1, p))
    <3> DEFINE w == h.word[p]
               w1 == new.word[p]
    <3>1. \A j \in F \ {i} : w1[j] = IF w[j] = i THEN w[i] ELSE w[j]
      <4>1. \A j \in F : j \in 0 .. PageSize - 1
        BY <1>1, SlabIs
      <4>2. \A j \in F \ {i} : w1[j] = w[j]
        BY <1>5, <4>1
      <4>3. i # None
        BY <1>2, <1>3
      <4> QED BY <1>3, <4>2, <4>3
    <3>2. Threaded(i, w, None, F)
      BY <1>2
    <3>3. F \ {i} = SlotsOf(new, p) \ InUse(new, lv1, p)
      BY <1>6, <1>8
    <3> HIDE DEF w, w1, F
    <3>4. Threaded(IF i = i THEN w[i] ELSE i, w1, None, F \ {i})
      BY <1>2, <1>3, <3>1, <3>2, ThreadedRemove
    <3> QED BY <1>5, <3>3, <3>4 DEF w, w1
  <2>3. new.entry[p].in_use = Cardinality(InUse(new, lv1, p))
    <3> DEFINE U == InUse(h, lv, p)
    <3>1. IsFiniteSet(U)
      BY <1>1, ClassIs, FS_Subset DEF InUse, SlotsOf
    <3>2. h.entry[p].in_use = Cardinality(U)
      BY DEF Base, SlotsLinked
    <3> HIDE DEF U
    <3>3. Cardinality(U \cup {i}) = Cardinality(U) + 1
      BY <1>4, <3>1, FS_AddElement DEF U
    <3> QED BY <1>5, <1>8, <3>2, <3>3 DEF U
  <2> QED BY <1>6, <2>1, <2>2, <2>3 DEF SlotsLinked
<1>11. ObjectsPlaced(new, hd, lv1)
  <2>1. InSlab(new, hd, o)
    BY <1>4, <1>6, <1>7 DEF InSlab
  <2>2. \A q \in lv : InSlab(new, hd, q) \/ \E b \in hd : IsWhole(new, q, b)
    BY <1>6 DEF Base, ObjectsPlaced
  <2>3. \A q \in lv : q.addr # o.addr
    BY <1>4, <1>7 DEF InUse
  <2> QED BY <2>1, <2>2, <2>3 DEF Base, ObjectsPlaced
<1>12. lv1 \in SUBSET [addr : Nat, layout : Layouts]
  <2>1. o \in [addr : Nat, layout : Layouts]
    BY <1>7
  <2> QED BY <2>1 DEF Base
<1>13. Base(new, hd, lv1)
  BY <1>5, <1>6, <1>10, <1>11, <1>12 DEF Base
<1>14. o \notin lv
  BY <1>4, <1>7 DEF InUse
<1> QED BY <1>4, <1>5, <1>6, <1>13, <1>14 DEF new, o, i

LEMMA FreeBase ==
  ASSUME NEW h, NEW hd, NEW lv, Base(h, hd, lv), NEW o \in lv, NEW p \in SlabsOf(h, hd),
         NEW i \in InUse(h, lv, p), o.addr = SlotAddress(h, p, i)
  PROVE  LET new == FreeSlot(h, p, i)
         IN  /\ Base(new, hd, lv \ {o})
             /\ SlabsOf(new, hd) = SlabsOf(h, hd)
             /\ new.heads = h.heads
             /\ \A q \in Pages \ {p} : new.entry[q] = h.entry[q]
             /\ IsSlab(new, p)
             /\ ~IsFull(new, p)
             /\ new.entry[p].class = h.entry[p].class
             /\ new.entry[p].next_partial = h.entry[p].next_partial
             /\ new.entry[p].prev_partial = h.entry[p].prev_partial
<1> DEFINE new == FreeSlot(h, p, i)
           lv1 == lv \ {o}
           F == SlotsOf(h, p) \ InUse(h, lv, p)
<1>1. /\ h \in HeapType /\ p \in Pages /\ p \in Nat /\ IsSlab(h, p) /\ h.entry[p].class \in Classes
      /\ i \in SlotsOf(h, p) /\ None \notin SlotsOf(h, p)
  BY SlabIs DEF Base, InUse
<1>2. /\ new \in HeapType
      /\ new.heads = h.heads
      /\ \A q \in Pages \ {p} : new.entry[q] = h.entry[q] /\ new.word[q] = h.word[q]
      /\ IsSlab(new, p)
      /\ new.entry[p].free_head = i
      /\ new.entry[p].in_use = h.entry[p].in_use - 1
      /\ new.entry[p].class = h.entry[p].class
      /\ new.entry[p].next_partial = h.entry[p].next_partial
      /\ new.entry[p].prev_partial = h.entry[p].prev_partial
      /\ new.word[p][i] = h.entry[p].free_head
      /\ \A j \in 0 .. PageSize - 1 : j # i => new.word[p][j] = h.word[p][j]
  BY <1>1, FreeSlotIs
<1> HIDE DEF new
<1>3. /\ SlabsOf(new, hd) = SlabsOf(h, hd)
      /\ \A q \in SlabsOf(h, hd) : /\ new.entry[q].class = h.entry[q].class
                                   /\ SlotsOf(new, q) = SlotsOf(h, q)
                                   /\ \A j : SlotAddress(new, q, j) = SlotAddress(h, q, j)
      /\ \A q : InSlab(new, hd, q) <=> InSlab(h, hd, q)
      /\ \A q : \A b \in hd : IsWhole(new, q, b) <=> IsWhole(h, q, b)
      /\ BlocksApart(new, hd)
  BY <1>2, OtherPages
<1>4. \A q \in lv : q.addr = o.addr => q = o
  BY DEF Base, ObjectsPlaced
<1>5. InUse(new, lv1, p) = InUse(h, lv, p) \ {i}
  <2>1. ASSUME NEW j \in SlotsOf(h, p), o.addr = SlotAddress(h, p, j)
        PROVE  j = i
    BY <1>1, <2>1, SlotsApart
  <2> QED BY <1>3, <1>4, <2>1 DEF InUse
<1>6. \A q \in SlabsOf(h, hd) \ {p} : InUse(new, lv1, q) = InUse(h, lv, q)
  <2>1. ASSUME NEW q \in SlabsOf(h, hd) \ {p}, NEW j \in SlotsOf(h, q)
        PROVE  o.addr # SlotAddress(h, q, j)
    BY <1>1, SlotsApart
  <2> QED BY <1>3, <1>4, <2>1 DEF InUse
<1>7. SlotsLinked(new, hd, lv1)
  <2>1. ASSUME NEW q \in SlabsOf(h, hd) \ {p}
        PROVE  /\ Threaded(new.entry[q].free_head, new.word[q], None, SlotsOf(new, q) \ InUse(new, lv1, q))
               /\ new.entry[q].in_use = Cardinality(InUse(new, lv1, q))
    BY <1>2, <1>3, <1>6 DEF Base, SlotsLinked, SlabsOf
  <2>2. Threaded(new.entry[p].free_head, new.word[p], None, SlotsOf(new, p) \ InUse(new, lv1, p))
    <3> DEFINE w == h.word[p]
               w1 == new.word[p]
               head == h.entry[p].free_head
    <3>1. \A j \in F : w1[j] = w[j]
      <4>1. \A j \in F : j \in 0 .. PageSize - 1 /\ j # i
        BY <1>1, SlabIs
      <4> QED BY <1>2, <4>1
    <3>2. Threaded(head, w, None, F) /\ i \notin F /\ w1[i] = head
      BY <1>2 DEF Base, SlotsLinked
    <3>3. F \cup {i} = SlotsOf(new, p) \ InUse(new, lv1, p)
      BY <1>1, <1>3, <1>5
    <3> HIDE DEF w, w1, F, head
    <3>4. Threaded(i, w1, None, F \cup {i})
      BY <3>1, <3>2, ThreadedPush
    <3> QED BY <1>2, <3>3, <3>4 DEF w1
  <2>3. new.entry[p].in_use = Cardinality(InUse(new, lv1, p))
    <3> DEFINE U == InUse(h, lv, p)
    <3>1. IsFiniteSet(U)
      BY <1>1, ClassIs, FS_Subset DEF InUse, SlotsOf
    <3>2. h.entry[p].in_use = Cardinality(U) /\ i \in U
      BY DEF Base, SlotsLinked
    <3> HIDE DEF U
    <3>3. Cardinality(U \ {i}) = Cardinality(U) - 1
      BY <3>1, <3>2, FS_RemoveElement
    <3> QED BY <1>2, <1>5, <3>2, <3>3 DEF U
  <2> QED BY <1>3, <2>1, <2>2, <2>3 DEF SlotsLinked
<1>8. ObjectsPlaced(new, hd, lv1)
  BY <1>3 DEF Base, ObjectsPlaced
<1>9. Base(new, hd, lv1)
  BY <1>2, <1>3, <1>7, <1>8 DEF Base
<1>10. ~IsFull(new, p)
  BY <1>1, <1>2 DEF IsFull
<1> QED BY <1>2, <1>3, <1>9, <1>10 DEF new

-------------------------------------------------------------------------------
(* Taking a slot and freeing one.                                           *)

LEMMA PartialIs ==
  ASSUME NEW h, NEW hd, NEW lv, Sound(h, hd, lv), NEW c \in Classes
  PROVE  /\ h \in HeapType
         /\ PartialOf(h, hd, c) \in SUBSET SlabsAmong(h)
         /\ PartialOf(h, hd, c) \in SUBSET SlabsOf(h, hd)
         /\ ListHas(h, c, PartialOf(h, hd, c))
         /\ \A p \in PartialOf(h, hd, c) : h.entry[p].class = c /\ ~IsFull(h, p)
         /\ \A d \in Classes \ {c} : PartialOf(h, hd, d) \cap PartialOf(h, hd, c) = {}
  BY DEF Sound, Base, ListsLinked, PartialOf, SlabsOf, SlabsAmong

LEMMA TakenSound ==
  ASSUME NEW h, NEW hd, NEW lv, Sound(h, hd, lv), NEW c \in Classes, NEW p \in Pages, p = h.heads[c],
         NEW l \in Layouts, ClassOf(l) = c
  PROVE  LET new == Taken(h, p)
         IN  /\ Sound(new, hd, lv \cup {Object(Address(h, p), l)})
             /\ p \in SlabsOf(h, hd) /\ h.entry[p].class = c
             /\ h.entry[p].free_head \in Slots(c) /\ Object(Address(h, p), l) \notin lv
             /\ \A q \in Pages : IsSlab(new, q) <=> IsSlab(h, q)
             /\ \A q \in Pages \ {p} : IsSlab(h, q) => new.entry[q].in_use = h.entry[q].in_use
             /\ new.entry[p].in_use = h.entry[p].in_use + 1
<1> DEFINE t == TakeSlot(h, p)
           lv1 == lv \cup {Object(Address(h, p), l)}
           ps == PartialOf(h, hd, c)
<1>1. /\ h \in HeapType /\ ps \in SUBSET SlabsAmong(h) /\ ListHas(h, c, ps) /\ p # None
      /\ p \in SlabsOf(h, hd) /\ p \in ps /\ ~IsFull(h, p) /\ h.entry[p].class = c
  <2>1. p # None
    BY PageIs
  <2> QED BY <2>1, PartialIs, ListIs
<1>2. /\ Base(t, hd, lv1)
      /\ h.entry[p].free_head \in SlotsOf(h, p) /\ Object(Address(h, p), l) \notin lv
      /\ SlabsOf(t, hd) = SlabsOf(h, hd)
      /\ t.heads = h.heads
      /\ \A q \in Pages \ {p} : t.entry[q] = h.entry[q]
      /\ IsSlab(t, p)
      /\ t.entry[p].class = h.entry[p].class
      /\ t.entry[p].in_use = h.entry[p].in_use + 1
      /\ t.entry[p].next_partial = h.entry[p].next_partial
      /\ t.entry[p].prev_partial = h.entry[p].prev_partial
  <2>1. Base(h, hd, lv) /\ ClassOf(l) = h.entry[p].class
    BY <1>1 DEF Sound
  <2> QED BY <1>1, <2>1, TakeBase
<1> HIDE DEF t, lv1
<1>10. h.entry[p].free_head \in Slots(c)
  BY <1>1, <1>2 DEF SlotsOf
<1>3. t \in HeapType /\ \A q \in Pages : IsSlab(t, q) <=> IsSlab(h, q)
  BY <1>1, <1>2 DEF Base, IsSlab, SlabsOf
<1>4. SlabsAmong(t) = SlabsAmong(h)
  BY <1>3 DEF SlabsAmong
<1>5. ASSUME NEW d \in Classes
      PROVE  ListHas(t, d, PartialOf(h, hd, d))
  <2>1. /\ PartialOf(h, hd, d) \in SUBSET SlabsAmong(h) /\ ListHas(h, d, PartialOf(h, hd, d))
        /\ t.heads[d] = h.heads[d]
    BY <1>2, PartialIs
  <2>2. \A q \in PartialOf(h, hd, d) : /\ IsSlab(t, q)
                                       /\ t.entry[q].next_partial = h.entry[q].next_partial
                                       /\ t.entry[q].prev_partial = h.entry[q].prev_partial
    BY <1>2, <1>3, <2>1 DEF SlabsAmong
  <2> QED BY <1>1, <1>3, <2>1, <2>2, ListKept
<1>6. \A q \in SlabsOf(h, hd) \ {p} : /\ IsFull(t, q) <=> IsFull(h, q)
                                      /\ t.entry[q].class = h.entry[q].class
                                      /\ t.entry[q].next_partial = h.entry[q].next_partial
                                      /\ t.entry[q].prev_partial = h.entry[q].prev_partial
  BY <1>2 DEF IsFull, SlabsOf
<1>7. \A q \in SlabsOf(h, hd) : IsFull(h, q) => h.entry[q].next_partial = None /\ h.entry[q].prev_partial = None
  BY DEF Sound, ListsLinked, FullUnlinked
<1>8. CASE ~IsFull(t, p)
  <2>1. Taken(h, p) = t
    BY <1>8 DEF Taken, t
  <2>2. \A d \in Classes : PartialOf(t, hd, d) = PartialOf(h, hd, d)
    BY <1>1, <1>2, <1>6, <1>8 DEF PartialOf
  <2>3. FullUnlinked(t, hd)
    BY <1>2, <1>6, <1>7, <1>8 DEF FullUnlinked
  <2>4. Sound(t, hd, lv1)
    BY <1>2, <1>5, <2>2, <2>3 DEF Sound, ListsLinked
  <2> QED BY <1>1, <1>2, <1>3, <1>10, <2>1, <2>4 DEF lv1
<1>9. CASE IsFull(t, p)
  <2> DEFINE u == UnlinkSlab(t, p)
  <2>1. Taken(h, p) = u
    BY <1>9 DEF Taken, t
  <2>2. /\ PartialOf(t, hd, c) = ps \ {p}
        /\ \A d \in Classes \ {c} : PartialOf(t, hd, d) = PartialOf(h, hd, d)
    BY <1>1, <1>2, <1>6, <1>9 DEF PartialOf
  <2>3. /\ Relinked(t, u)
        /\ ListHas(u, c, ps \ {p})
        /\ \A d \in Classes \ {c} : \A qs \in SUBSET (SlabsAmong(t) \ ps) :
              ListHas(t, d, qs) => ListHas(u, d, qs)
        /\ \A q \in SlabsAmong(t) \ ps : /\ u.entry[q].next_partial = t.entry[q].next_partial
                                         /\ u.entry[q].prev_partial = t.entry[q].prev_partial
        /\ u.entry[p].next_partial = None /\ u.entry[p].prev_partial = None
    <3>1. ps \in SUBSET SlabsAmong(t) /\ ListHas(t, c, ps) /\ p \in ps /\ c = t.entry[p].class
      BY <1>1, <1>2, <1>4, <1>5
    <3> HIDE DEF ps
    <3> QED BY <1>3, <3>1, UnlinkLists
  <2> HIDE DEF u
  <2>4. /\ Base(u, hd, lv1)
        /\ SlabsOf(u, hd) = SlabsOf(t, hd)
        /\ \A d \in Classes : PartialOf(u, hd, d) = PartialOf(t, hd, d)
        /\ \A q \in SlabsOf(t, hd) : IsFull(u, q) <=> IsFull(t, q)
    BY <1>2, <2>3, RelinkedBase
  <2>5. ASSUME NEW d \in Classes
        PROVE  ListHas(u, d, PartialOf(u, hd, d))
    <3>1. CASE d = c
      BY <2>2, <2>3, <2>4, <3>1
    <3>2. CASE d # c
      <4>1. PartialOf(h, hd, d) \in SUBSET (SlabsAmong(t) \ ps)
        BY <1>4, <3>2, PartialIs
      <4> QED BY <1>5, <2>2, <2>3, <2>4, <3>2, <4>1
    <3> QED BY <3>1, <3>2
  <2>6. FullUnlinked(u, hd)
    <3> SUFFICES ASSUME NEW q \in SlabsOf(h, hd), IsFull(u, q), q # p
                 PROVE  u.entry[q].next_partial = None /\ u.entry[q].prev_partial = None
      BY <1>2, <2>3, <2>4 DEF FullUnlinked
    <3>1. IsFull(h, q)
      BY <1>2, <1>6, <2>4
    <3>2. q \in SlabsAmong(t) \ ps
      BY <1>4, <3>1 DEF PartialOf, SlabsOf, SlabsAmong
    <3> QED BY <1>6, <1>7, <2>3, <3>1, <3>2
  <2>7. Sound(u, hd, lv1)
    BY <2>4, <2>5, <2>6 DEF Sound, ListsLinked
  <2>8. /\ \A q \in Pages : IsSlab(u, q) <=> IsSlab(h, q)
        /\ \A q \in Pages \ {p} : IsSlab(h, q) => u.entry[q].in_use = h.entry[q].in_use
        /\ u.entry[p].in_use = h.entry[p].in_use + 1
    BY <1>2, <1>3, <2>3 DEF Relinked
  <2> QED BY <1>1, <1>2, <1>10, <2>1, <2>7, <2>8 DEF lv1
<1> QED BY <1>8, <1>9

LEMMA FreedSound ==
  ASSUME NEW h, NEW hd, NEW lv, Sound(h, hd, lv), NEW o \in lv, NEW p \in SlabsOf(h, hd),
         NEW i \in InUse(h, lv, p), o.addr = SlotAddress(h, p, i), NEW c \in Classes, c = h.entry[p].class,
         NEW new, new = Freed(h, p, i), NEW rest, rest = lv \ {o}
  PROVE  /\ Sound(new, hd, rest)
         /\ p \in PartialOf(new, hd, c)
         /\ \A q \in Pages : IsSlab(new, q) <=> IsSlab(h, q)
         /\ \A q \in Pages \ {p} : IsSlab(h, q) => new.entry[q].in_use = h.entry[q].in_use
         /\ SlabsOf(new, hd) = SlabsOf(h, hd)
<1> DEFINE f == FreeSlot(h, p, i)
           lv1 == lv \ {o}
           ps == PartialOf(h, hd, c)
<1>1. h \in HeapType /\ ps \in SUBSET SlabsAmong(h) /\ ListHas(h, c, ps) /\ p \in Pages /\ IsSlab(h, p)
  BY PartialIs DEF SlabsOf
<1>2. /\ Base(f, hd, lv1)
      /\ SlabsOf(f, hd) = SlabsOf(h, hd)
      /\ f.heads = h.heads
      /\ \A q \in Pages \ {p} : f.entry[q] = h.entry[q]
      /\ IsSlab(f, p)
      /\ ~IsFull(f, p)
      /\ f.entry[p].class = h.entry[p].class
      /\ f.entry[p].next_partial = h.entry[p].next_partial
      /\ f.entry[p].prev_partial = h.entry[p].prev_partial
  <2>1. Base(h, hd, lv)
    BY DEF Sound
  <2> QED BY <2>1, FreeBase
<1> HIDE DEF f, lv1
<1>3. f \in HeapType /\ \A q \in Pages : IsSlab(f, q) <=> IsSlab(h, q)
  BY <1>1, <1>2 DEF Base, IsSlab
<1>4. SlabsAmong(f) = SlabsAmong(h)
  BY <1>3 DEF SlabsAmong
<1>5. ASSUME NEW d \in Classes
      PROVE  ListHas(f, d, PartialOf(h, hd, d))
  <2>1. /\ PartialOf(h, hd, d) \in SUBSET SlabsAmong(h) /\ ListHas(h, d, PartialOf(h, hd, d))
        /\ f.heads[d] = h.heads[d]
    BY <1>2, PartialIs
  <2>2. \A q \in PartialOf(h, hd, d) : /\ IsSlab(f, q)
                                       /\ f.entry[q].next_partial = h.entry[q].next_partial
                                       /\ f.entry[q].prev_partial = h.entry[q].prev_partial
    BY <1>2, <1>3, <2>1 DEF SlabsAmong
  <2> QED BY <1>1, <1>3, <2>1, <2>2, ListKept
<1>6. \A q \in SlabsOf(h, hd) \ {p} : /\ IsFull(f, q) <=> IsFull(h, q)
                                      /\ f.entry[q].class = h.entry[q].class
                                      /\ f.entry[q].next_partial = h.entry[q].next_partial
                                      /\ f.entry[q].prev_partial = h.entry[q].prev_partial
  BY <1>2 DEF IsFull, SlabsOf
<1>7. \A q \in SlabsOf(h, hd) : IsFull(h, q) => h.entry[q].next_partial = None /\ h.entry[q].prev_partial = None
  BY DEF Sound, ListsLinked, FullUnlinked
<1>8. /\ PartialOf(f, hd, c) = ps \cup {p}
      /\ \A d \in Classes \ {c} : PartialOf(f, hd, d) = PartialOf(h, hd, d)
  BY <1>1, <1>2, <1>6 DEF PartialOf
<1>9. CASE ~IsFull(h, p)
  <2>1. Freed(h, p, i) = f
    BY <1>9 DEF Freed, f
  <2>2. p \in ps
    BY <1>9 DEF PartialOf
  <2>3. \A d \in Classes : PartialOf(f, hd, d) = PartialOf(h, hd, d)
    BY <1>8, <2>2
  <2>4. FullUnlinked(f, hd)
    BY <1>2, <1>6, <1>7 DEF FullUnlinked
  <2>5. Sound(f, hd, lv1)
    BY <1>2, <1>5, <2>3, <2>4 DEF Sound, ListsLinked
  <2> QED BY <1>2, <1>3, <1>8, <2>1, <2>5 DEF lv1
<1>10. CASE IsFull(h, p)
  <2> DEFINE u == PushSlab(f, p)
  <2>1. Freed(h, p, i) = u
    BY <1>10 DEF Freed, f
  <2>2. p \notin ps
    BY <1>10 DEF PartialOf
  <2>3. /\ Relinked(f, u)
        /\ ListHas(u, c, ps \cup {p})
        /\ \A d \in Classes \ {c} : \A qs \in SUBSET (SlabsAmong(f) \ (ps \cup {p})) :
              ListHas(f, d, qs) => ListHas(u, d, qs)
        /\ \A q \in SlabsAmong(f) \ (ps \cup {p}) :
              /\ u.entry[q].next_partial = f.entry[q].next_partial
              /\ u.entry[q].prev_partial = f.entry[q].prev_partial
    <3>1. ps \in SUBSET SlabsAmong(f) /\ ListHas(f, c, ps) /\ c = f.entry[p].class
      BY <1>1, <1>2, <1>4, <1>5
    <3> HIDE DEF ps
    <3> QED BY <1>1, <1>2, <1>3, <2>2, <3>1, PushLists
  <2> HIDE DEF u
  <2>4. /\ Base(u, hd, lv1)
        /\ SlabsOf(u, hd) = SlabsOf(f, hd)
        /\ \A d \in Classes : PartialOf(u, hd, d) = PartialOf(f, hd, d)
        /\ \A q \in SlabsOf(f, hd) : IsFull(u, q) <=> IsFull(f, q)
    BY <1>2, <2>3, RelinkedBase
  <2>5. ASSUME NEW d \in Classes
        PROVE  ListHas(u, d, PartialOf(u, hd, d))
    <3>1. CASE d = c
      BY <1>8, <2>3, <2>4, <3>1
    <3>2. CASE d # c
      <4>1. PartialOf(h, hd, d) \in SUBSET (SlabsAmong(f) \ (ps \cup {p}))
        <5>1. p \notin PartialOf(h, hd, d)
          BY <1>10 DEF PartialOf
        <5> QED BY <1>4, <3>2, <5>1, PartialIs
      <4> QED BY <1>5, <1>8, <2>3, <2>4, <3>2, <4>1
    <3> QED BY <3>1, <3>2
  <2>6. FullUnlinked(u, hd)
    <3> SUFFICES ASSUME NEW q \in SlabsOf(h, hd), IsFull(f, q)
                 PROVE  u.entry[q].next_partial = None /\ u.entry[q].prev_partial = None
      BY <1>2, <2>4 DEF FullUnlinked
    <3>1. IsFull(h, q) /\ q # p
      BY <1>2, <1>6
    <3>2. q \in SlabsAmong(f) \ (ps \cup {p})
      BY <1>4, <3>1 DEF PartialOf, SlabsOf, SlabsAmong
    <3> QED BY <1>6, <1>7, <2>3, <3>1, <3>2
  <2>7. Sound(u, hd, lv1)
    BY <2>4, <2>5, <2>6 DEF Sound, ListsLinked
  <2>8. /\ \A q \in Pages : IsSlab(u, q) <=> IsSlab(h, q)
        /\ \A q \in Pages \ {p} : IsSlab(h, q) => u.entry[q].in_use = h.entry[q].in_use
    BY <1>2, <1>3, <2>3 DEF Relinked
  <2> QED BY <1>2, <1>8, <2>1, <2>4, <2>7, <2>8 DEF lv1
<1> QED BY <1>9, <1>10

-------------------------------------------------------------------------------
(* Getting a page and giving it back.                                       *)

WithEntry(h, p, e) == [h EXCEPT !.entry[p] = e]

LEMMA WithEntryIs ==
  ASSUME NEW h \in HeapType, NEW p \in Pages, NEW e \in {Buddy} \cup SlabEntries,
         NEW new, new = WithEntry(h, p, e)
  PROVE  /\ new \in HeapType
         /\ new.heads = h.heads /\ new.word = h.word /\ new.entry[p] = e
         /\ \A q \in Pages \ {p} : new.entry[q] = h.entry[q]
<1> DEFINE entry == [h.entry EXCEPT ![p] = e]
<1>1. /\ entry \in [Pages -> {Buddy} \cup SlabEntries] /\ entry[p] = e
      /\ \A q \in Pages \ {p} : entry[q] = h.entry[q]
  BY HeapIs
<1>2. new = [h EXCEPT !.entry = entry]
  BY Zenon DEF WithEntry
<1> HIDE DEF entry
<1>3. new \in HeapType /\ new.heads = h.heads /\ new.word = h.word /\ new.entry = entry
  BY <1>1, <1>2 DEF HeapType
<1> QED BY <1>1, <1>3

LEMMA ChainIs ==
  ASSUME NEW c \in Classes, NEW w, \A i \in Slots(c) : w[i] = IF i + 1 \in Slots(c) THEN i + 1 ELSE None
  PROVE  Threaded(0, w, None, Slots(c))
<1> DEFINE n == PageSize \div Sizes[c]
           s == [k \in 1 .. n |-> k - 1]
<1>1. n \in Nat /\ n >= 2 /\ Slots(c) = 0 .. n - 1
  BY ClassIs
<1> HIDE DEF n
<1>2. s \in [1 .. n -> Slots(c)] /\ \A i \in 1 .. n : s[i] = i - 1
  BY <1>1
<1> HIDE DEF s
<1>3. \A p \in Slots(c) : \E i \in 1 .. n : s[i] = p
  <2> SUFFICES ASSUME NEW p \in Slots(c) PROVE \E i \in 1 .. n : s[i] = p
    OBVIOUS
  <2>1. p + 1 \in 1 .. n /\ (p + 1) - 1 = p
    BY <1>1
  <2>2. s[p + 1] = p
    BY <1>2, <2>1
  <2> QED BY <2>1, <2>2
<1>4. \A i, j \in 1 .. n : s[i] = s[j] => i = j
  BY <1>1, <1>2
<1>5. 0 = IF n = 0 THEN None ELSE s[1]
  BY <1>1, <1>2
<1>6. ASSUME NEW i \in 1 .. n
      PROVE  w[s[i]] = IF i < n THEN s[i + 1] ELSE None
  <2>1. s[i] = i - 1 /\ i - 1 \in Slots(c) /\ i - 1 + 1 = i
    BY <1>1, <1>2
  <2>2. w[i - 1] = IF i \in Slots(c) THEN i ELSE None
    BY <2>1
  <2>3. i \in Slots(c) <=> i < n
    BY <1>1
  <2>4. i < n => i + 1 \in 1 .. n /\ s[i + 1] = i
    BY <1>1, <1>2
  <2> QED BY <2>1, <2>2, <2>3, <2>4
<1>7. Threads(0, w, None, Slots(c), n, s)
  BY <1>3, <1>4, <1>5, <1>6 DEF Threads
<1> QED BY <1>1, <1>2, <1>7 DEF Threaded

\* No object is in a page no block has.
LEMMA PageUnused ==
  ASSUME NEW h, NEW hd, NEW lv, Base(h, hd, lv), NEW p \in Pages, \A b \in hd : p \notin Frames!Span(b)
  PROVE  /\ p \notin SlabsOf(h, hd)
         /\ \A b \in hd : b.pfn # p
         /\ \A o \in lv : PageOf(o.addr) # p
<1>1. hd \in SUBSET Blocks /\ h \in HeapType
  BY DEF Base
<1>2. \A b \in hd : b.pfn # p
  BY <1>1, BlockIs
<1>3. p \notin SlabsOf(h, hd)
  BY <1>2, PageBlockIs DEF SlabsOf
<1>4. \A o \in lv : PageOf(o.addr) \in SlabsOf(h, hd) \/ \E b \in hd : b.pfn = PageOf(o.addr)
  BY ObjectIs
<1> QED BY <1>2, <1>3, <1>4

Fresh(h, p, c) == [InitSlab(h, p, c) EXCEPT !.heads[c] = p]

LEMMA FreshSound ==
  ASSUME NEW h, NEW hd, NEW lv, Sound(h, hd, lv), NEW c \in Classes, h.heads[c] = None,
         NEW p \in Pages, \A b \in hd : p \notin Frames!Span(b), NEW new, new = Fresh(h, p, c)
  PROVE  /\ Sound(new, hd \cup {PageBlock(p)}, lv)
         /\ new.heads[c] = p
         /\ \A q \in Pages \ {p} : new.entry[q] = h.entry[q]
         /\ IsSlab(new, p) /\ new.entry[p].in_use = 0
<1> DEFINE hd1 == hd \cup {PageBlock(p)}
<1>1. /\ h \in HeapType /\ hd \in SUBSET Blocks /\ Base(h, hd, lv)
      /\ PageBlock(p) \in Blocks /\ PageBlock(p).pfn = p /\ Frames!Span(PageBlock(p)) = {p}
  BY PageBlockIs DEF Sound, Base
<1>2. /\ p \notin SlabsOf(h, hd)
      /\ \A b \in hd : b.pfn # p
      /\ \A o \in lv : PageOf(o.addr) # p
  BY <1>1, PageUnused
<1>3. /\ new \in HeapType
      /\ new.heads[c] = p
      /\ \A d \in Classes \ {c} : new.heads[d] = h.heads[d]
      /\ \A q \in Pages \ {p} : new.entry[q] = h.entry[q] /\ new.word[q] = h.word[q]
      /\ new.entry[p] = SlabEntry(c, 0, 0, None, None)
      /\ \A i \in Slots(c) : new.word[p][i] = IF i + 1 \in Slots(c) THEN i + 1 ELSE None
  BY <1>1, InitSlabIs DEF Fresh
<1>4. /\ IsSlab(new, p) /\ new.entry[p].class = c /\ new.entry[p].free_head = 0 /\ new.entry[p].in_use = 0
      /\ new.entry[p].next_partial = None /\ new.entry[p].prev_partial = None
      /\ ~IsFull(new, p)
  BY <1>3 DEF SlabEntry, IsSlab, IsFull, None
<1>5. \A q \in Pages \ {p} : IsSlab(new, q) <=> IsSlab(h, q)
  BY <1>3 DEF IsSlab
<1>6. SlabsOf(new, hd1) = SlabsOf(h, hd) \cup {p}
  <2>1. \A q \in Pages \ {p} : PageBlock(q) \in hd1 <=> PageBlock(q) \in hd
    BY DEF PageBlock
  <2> QED BY <1>2, <1>4, <1>5, <2>1 DEF SlabsOf
<1>7. \A q \in SlabsOf(h, hd) : /\ q # p /\ q \in Pages
                                /\ new.entry[q] = h.entry[q]
                                /\ new.word[q] = h.word[q]
                                /\ SlotsOf(new, q) = SlotsOf(h, q)
                                /\ \A i : SlotAddress(new, q, i) = SlotAddress(h, q, i)
                                /\ InUse(new, lv, q) = InUse(h, lv, q)
                                /\ IsFull(new, q) <=> IsFull(h, q)
  <2>1. \A q \in SlabsOf(h, hd) : q # p /\ q \in Pages /\ new.entry[q] = h.entry[q] /\ new.word[q] = h.word[q]
    BY <1>2, <1>3 DEF SlabsOf
  <2> QED BY <2>1 DEF SlotsOf, SlotAddress, InUse, IsFull
<1>8. BlocksApart(new, hd1)
  <2>1. \A b \in hd : IsSlab(new, b.pfn) <=> IsSlab(h, b.pfn)
    BY <1>1, <1>2, <1>5, BlockIs
  <2>2. PageBlock(p).order = 0
    BY DEF PageBlock
  <2> QED BY <1>1, <2>1, <2>2 DEF Base, BlocksApart
<1>9. ObjectsPlaced(new, hd1, lv)
  <2>1. ASSUME NEW o \in lv, InSlab(h, hd, o)
        PROVE  InSlab(new, hd1, o)
    <3>1. PICK q \in SlabsOf(h, hd) : /\ ClassOf(o.layout) = h.entry[q].class
                                      /\ \E i \in SlotsOf(h, q) : o.addr = SlotAddress(h, q, i)
      BY <2>1 DEF InSlab
    <3>2. /\ q \in SlabsOf(new, hd1)
          /\ ClassOf(o.layout) = new.entry[q].class
          /\ \E i \in SlotsOf(new, q) : o.addr = SlotAddress(new, q, i)
      BY <1>6, <1>7, <3>1
    <3> QED BY <3>2 DEF InSlab
  <2>2. \A o \in lv : \A b \in hd : IsWhole(h, o, b) => IsWhole(new, o, b)
    BY <1>1, <1>2, <1>5, BlockIs DEF IsWhole
  <2> QED BY <1>1, <2>1, <2>2 DEF Base, ObjectsPlaced
<1>10. SlotsOf(new, p) = Slots(c) /\ InUse(new, lv, p) = {}
  <2>1. SlotsOf(new, p) = Slots(c)
    BY <1>4 DEF SlotsOf
  <2>2. ASSUME NEW i \in Slots(c)
        PROVE  PageOf(SlotAddress(new, p, i)) = p
    BY <1>4, PageIs, AddressTells DEF SlotAddress, PageOf
  <2> QED BY <1>2, <2>1, <2>2 DEF InUse
<1>11. SlotsLinked(new, hd1, lv)
  <2>1. Threaded(0, new.word[p], None, Slots(c))
    BY <1>3, ChainIs
  <2>2. Slots(c) \ {} = Slots(c) /\ Cardinality({}) = 0
    BY FS_EmptySet
  <2>3. \A q \in SlabsOf(h, hd) :
           /\ Threaded(new.entry[q].free_head, new.word[q], None, SlotsOf(new, q) \ InUse(new, lv, q))
           /\ new.entry[q].in_use = Cardinality(InUse(new, lv, q))
    BY <1>1, <1>7 DEF Base, SlotsLinked
  <2>4. /\ Threaded(new.entry[p].free_head, new.word[p], None, SlotsOf(new, p) \ InUse(new, lv, p))
        /\ new.entry[p].in_use = Cardinality(InUse(new, lv, p))
    BY <1>4, <1>10, <2>1, <2>2
  <2> QED BY <1>6, <2>3, <2>4 DEF SlotsLinked
<1>12. Base(new, hd1, lv)
  BY <1>1, <1>3, <1>8, <1>9, <1>11 DEF Base
<1>13. PartialOf(h, hd, c) = {}
  BY PartialIs, ListIs
<1>14. /\ PartialOf(new, hd1, c) = {p}
       /\ \A d \in Classes \ {c} : PartialOf(new, hd1, d) = PartialOf(h, hd, d)
  <2>1. ASSUME NEW d \in Classes, NEW q \in SlabsOf(h, hd)
        PROVE  q \in PartialOf(new, hd1, d) <=> q \in PartialOf(h, hd, d)
    BY <1>6, <1>7 DEF PartialOf
  <2>2. ASSUME NEW d \in Classes
        PROVE  p \in PartialOf(new, hd1, d) <=> d = c
    BY <1>4, <1>6 DEF PartialOf
  <2>3. ASSUME NEW d \in Classes
        PROVE  /\ PartialOf(new, hd1, d) \subseteq SlabsOf(h, hd) \cup {p}
               /\ PartialOf(h, hd, d) \subseteq SlabsOf(h, hd)
    BY <1>6 DEF PartialOf
  <2>4. ASSUME NEW d \in Classes
        PROVE  PartialOf(new, hd1, d) = IF d = c THEN PartialOf(h, hd, d) \cup {p} ELSE PartialOf(h, hd, d)
    <3> DEFINE A == PartialOf(new, hd1, d)
               B == PartialOf(h, hd, d)
               S == SlabsOf(h, hd)
    <3>1. /\ \A q \in S : q \in A <=> q \in B
          /\ p \in A <=> d = c
          /\ A \subseteq S \cup {p} /\ B \subseteq S /\ p \notin S
      BY <1>2, <2>1, <2>2, <2>3
    <3> HIDE DEF A, B, S
    <3>2. A = IF d = c THEN B \cup {p} ELSE B
      BY <3>1
    <3> QED BY <3>2 DEF A, B
  <2> QED BY <1>13, <2>4
<1>15. ListHas(new, c, {p})
  <2> DEFINE next == After(new)
             none == None
  <2>1. next[p] = none
    BY <1>4 DEF After
  <2> HIDE DEF next, none
  <2>2. Threaded(none, next, none, {})
    BY ThreadedNone
  <2>3. Threaded(p, next, none, {} \cup {p})
    BY <2>1, <2>2, ThreadedPush
  <2>4. Threaded(p, next, none, {p})
    BY <2>3
  <2> QED BY <1>3, <1>4, <2>4 DEF ListHas, next, none
<1>16. ASSUME NEW d \in Classes \ {c}
       PROVE  ListHas(new, d, PartialOf(h, hd, d))
  <2>1. PartialOf(h, hd, d) \in SUBSET SlabsOf(h, hd)
    BY PartialIs
  <2>2. PartialOf(h, hd, d) \in SUBSET SlabsAmong(h) /\ ListHas(h, d, PartialOf(h, hd, d))
    BY PartialIs
  <2>3. \A q \in PartialOf(h, hd, d) : /\ IsSlab(new, q)
                                       /\ new.entry[q].next_partial = h.entry[q].next_partial
                                       /\ new.entry[q].prev_partial = h.entry[q].prev_partial
    BY <1>5, <1>7, <2>1 DEF SlabsOf
  <2> QED BY <1>1, <1>3, <2>2, <2>3, ListKept
<1>17. FullUnlinked(new, hd1)
  BY <1>4, <1>6, <1>7 DEF Sound, ListsLinked, FullUnlinked
<1>18. Sound(new, hd1, lv)
  BY <1>12, <1>14, <1>15, <1>16, <1>17 DEF Sound, ListsLinked
<1> QED BY <1>3, <1>4, <1>18

LEMMA GivenBackSound ==
  ASSUME NEW h, NEW hd, NEW lv, Sound(h, hd, lv), NEW c \in Classes, NEW p \in PartialOf(h, hd, c),
         h.entry[p].in_use = 0, NEW e \in {Buddy, UnlinkSlab(h, p).entry[p]},
         NEW new, new = WithEntry(UnlinkSlab(h, p), p, e)
  PROVE  /\ Sound(new, hd \ {PageBlock(p)}, lv)
         /\ \A q \in Pages \ {p} : IsSlab(new, q) <=> IsSlab(h, q)
         /\ \A q \in Pages \ {p} : IsSlab(h, q) => new.entry[q].in_use = h.entry[q].in_use
<1> DEFINE u == UnlinkSlab(h, p)
           hd1 == hd \ {PageBlock(p)}
           ps == PartialOf(h, hd, c)
<1>1. /\ h \in HeapType /\ hd \in SUBSET Blocks /\ Base(h, hd, lv)
      /\ ps \in SUBSET SlabsAmong(h) /\ ListHas(h, c, ps) /\ h.entry[p].class = c
      /\ p \in SlabsOf(h, hd) /\ p \in Pages /\ IsSlab(h, p) /\ PageBlock(p) \in hd
  BY PartialIs DEF Sound, Base, SlabsOf
<1>2. /\ Relinked(h, u)
      /\ ListHas(u, c, ps \ {p})
      /\ \A d \in Classes \ {c} : \A qs \in SUBSET (SlabsAmong(h) \ ps) :
            ListHas(h, d, qs) => ListHas(u, d, qs)
      /\ \A q \in SlabsAmong(h) \ ps : /\ u.entry[q].next_partial = h.entry[q].next_partial
                                       /\ u.entry[q].prev_partial = h.entry[q].prev_partial
  <2> HIDE DEF ps
  <2>1. p \in ps
    BY DEF ps
  <2> QED BY <1>1, <2>1, UnlinkLists
<1>3. e \in {Buddy, u.entry[p]} /\ new = WithEntry(u, p, e)
  OBVIOUS
<1> HIDE DEF u
<1>4. /\ Base(u, hd, lv)
      /\ SlabsOf(u, hd) = SlabsOf(h, hd)
      /\ \A d \in Classes : PartialOf(u, hd, d) = PartialOf(h, hd, d)
      /\ \A q \in SlabsOf(h, hd) : IsFull(u, q) <=> IsFull(h, q)
      /\ u \in HeapType
      /\ \A q \in Pages : IsSlab(u, q) <=> IsSlab(h, q)
      /\ \A q \in Pages : IsSlab(h, q) => u.entry[q].in_use = h.entry[q].in_use
  BY <1>1, <1>2, RelinkedBase DEF Relinked
<1>5. e \in {Buddy} \cup SlabEntries
  BY <1>1, <1>3, <1>4, HeapIs
<1>7. /\ new \in HeapType /\ new.heads = u.heads /\ new.word = u.word
      /\ \A q \in Pages \ {p} : new.entry[q] = u.entry[q]
  BY <1>1, <1>3, <1>4, <1>5, WithEntryIs
<1>8. \A q \in Pages \ {p} : /\ new.entry[q] = u.entry[q]
                             /\ IsSlab(new, q) <=> IsSlab(u, q)
  BY <1>7 DEF IsSlab
<1>9. \A b \in hd1 : b \in Blocks /\ b.pfn \in Pages \ {p}
  <2>1. \A b \in hd : b.pfn = p => b = PageBlock(p)
    BY <1>1, PageBlockIs, SamePage DEF Base
  <2> QED BY <1>1, <2>1, BlockIs
<1>10. SlabsOf(new, hd1) = SlabsOf(h, hd) \ {p}
  <2>1. \A q \in Pages \ {p} : PageBlock(q) \in hd1 <=> PageBlock(q) \in hd
    BY DEF PageBlock
  <2> QED BY <1>4, <1>8, <2>1 DEF SlabsOf
<1>11. \A q \in SlabsOf(h, hd) \ {p} : /\ new.entry[q] = u.entry[q]
                                       /\ new.word[q] = u.word[q]
                                       /\ SlotsOf(new, q) = SlotsOf(u, q)
                                       /\ \A i : SlotAddress(new, q, i) = SlotAddress(u, q, i)
                                       /\ InUse(new, lv, q) = InUse(u, lv, q)
                                       /\ IsFull(new, q) <=> IsFull(u, q)
  <2>1. \A q \in SlabsOf(h, hd) \ {p} : new.entry[q] = u.entry[q] /\ new.word[q] = u.word[q]
    BY <1>7, <1>8 DEF SlabsOf
  <2> QED BY <2>1 DEF SlotsOf, SlotAddress, InUse, IsFull
<1>12. InUse(u, lv, p) = {}
  <2> DEFINE U == InUse(u, lv, p)
  <2>1. IsFiniteSet(U)
    <3>1. u.entry[p].class \in Classes
      BY <1>1, <1>4, SlabIs
    <3> QED BY <3>1, ClassIs, FS_Subset DEF InUse, SlotsOf
  <2>2. Cardinality(U) = 0
    BY <1>1, <1>4 DEF Base, SlotsLinked
  <2> HIDE DEF U
  <2>3. U = {}
    BY <2>1, <2>2, FS_EmptySet
  <2> QED BY <2>3 DEF U
<1>13. BlocksApart(new, hd1)
  <2>1. \A b \in hd1 : IsSlab(new, b.pfn) => IsSlab(u, b.pfn)
    BY <1>8, <1>9
  <2> QED BY <1>4, <2>1 DEF Base, BlocksApart
<1>14. ObjectsPlaced(new, hd1, lv)
  <2>1. ASSUME NEW o \in lv, InSlab(u, hd, o)
        PROVE  InSlab(new, hd1, o)
    <3>1. PICK q \in SlabsOf(u, hd) : /\ ClassOf(o.layout) = u.entry[q].class
                                      /\ \E i \in SlotsOf(u, q) : o.addr = SlotAddress(u, q, i)
      BY <2>1 DEF InSlab
    <3>2. q # p
      BY <1>12, <3>1 DEF InUse
    <3>3. q \in SlabsOf(h, hd) \ {p}
      BY <1>4, <3>2
    <3>4. /\ q \in SlabsOf(new, hd1)
          /\ ClassOf(o.layout) = new.entry[q].class
          /\ \E i \in SlotsOf(new, q) : o.addr = SlotAddress(new, q, i)
      BY <1>10, <1>11, <3>1, <3>3
    <3> QED BY <3>4 DEF InSlab
  <2>2. ASSUME NEW o \in lv, NEW b \in hd, IsWhole(u, o, b)
        PROVE  b \in hd1 /\ IsWhole(new, o, b)
    <3>1. b \in hd1
      BY <1>1, <1>4, <2>2, PageBlockIs DEF IsWhole
    <3> QED BY <1>8, <1>9, <2>2, <3>1 DEF IsWhole
  <2> QED BY <1>4, <2>1, <2>2 DEF Base, ObjectsPlaced
<1>15. SlotsLinked(new, hd1, lv)
  BY <1>4, <1>10, <1>11 DEF Base, SlotsLinked
<1>16. Base(new, hd1, lv)
  BY <1>4, <1>7, <1>13, <1>14, <1>15 DEF Base
<1>17. /\ PartialOf(new, hd1, c) = ps \ {p}
       /\ \A d \in Classes \ {c} : PartialOf(new, hd1, d) = PartialOf(h, hd, d)
  <2>1. \A d \in Classes : PartialOf(new, hd1, d) = PartialOf(u, hd, d) \ {p}
    <3>1. /\ SlabsOf(new, hd1) = SlabsOf(u, hd) \ {p}
          /\ \A q \in SlabsOf(u, hd) \ {p} :
                new.entry[q].class = u.entry[q].class /\ (IsFull(new, q) <=> IsFull(u, q))
      BY <1>4, <1>10, <1>11
    <3> QED BY <3>1 DEF PartialOf
  <2>2. \A d \in Classes \ {c} : p \notin PartialOf(h, hd, d)
    BY PartialIs
  <2>3. \A d \in Classes : PartialOf(new, hd1, d) = PartialOf(h, hd, d) \ {p}
    BY <1>4, <2>1
  <2>4. PartialOf(h, hd, c) = ps /\ c \in Classes
    OBVIOUS
  <2> HIDE DEF ps
  <2> QED BY <2>2, <2>3, <2>4
<1>18. SlabsAmong(u) = SlabsAmong(h)
  BY <1>4 DEF SlabsAmong
<1>19. ASSUME NEW d \in Classes, NEW qs \in SUBSET (SlabsAmong(h) \ {p}), ListHas(u, d, qs)
       PROVE  ListHas(new, d, qs)
  <2>1. qs \in SUBSET SlabsAmong(u) /\ new.heads[d] = u.heads[d]
    BY <1>7, <1>18
  <2>2. \A q \in qs : /\ IsSlab(new, q)
                      /\ new.entry[q].next_partial = u.entry[q].next_partial
                      /\ new.entry[q].prev_partial = u.entry[q].prev_partial
    BY <1>4, <1>8 DEF SlabsAmong
  <2> QED BY <1>4, <1>7, <1>19, <2>1, <2>2, ListKept
<1>20. ASSUME NEW d \in Classes
       PROVE  ListHas(new, d, PartialOf(new, hd1, d))
  <2>1. CASE d = c
    <3>1. ps \ {p} \in SUBSET (SlabsAmong(h) \ {p})
      BY <1>1
    <3> QED BY <1>2, <1>17, <1>19, <2>1, <3>1
  <2>2. CASE d # c
    <3>1. PartialOf(h, hd, d) \in SUBSET (SlabsAmong(h) \ ps) /\ ListHas(h, d, PartialOf(h, hd, d))
      BY <2>2, PartialIs
    <3>2. ListHas(u, d, PartialOf(h, hd, d)) /\ p \in ps
      BY <1>2, <2>2, <3>1
    <3> QED BY <1>17, <1>19, <2>2, <3>1, <3>2
  <2> QED BY <2>1, <2>2
<1>21. FullUnlinked(new, hd1)
  <2> SUFFICES ASSUME NEW q \in SlabsOf(h, hd) \ {p}, IsFull(new, q)
               PROVE  new.entry[q].next_partial = None /\ new.entry[q].prev_partial = None
    BY <1>10 DEF FullUnlinked
  <2>1. IsFull(h, q)
    BY <1>4, <1>11
  <2>2. h.entry[q].next_partial = None /\ h.entry[q].prev_partial = None
    BY <2>1 DEF Sound, ListsLinked, FullUnlinked
  <2>3. q \in SlabsAmong(h) \ ps
    BY <2>1 DEF PartialOf, SlabsOf, SlabsAmong
  <2> QED BY <1>2, <1>11, <2>2, <2>3
<1>22. Sound(new, hd1, lv)
  BY <1>16, <1>20, <1>21 DEF Sound, ListsLinked
<1> QED BY <1>4, <1>8, <1>22

-------------------------------------------------------------------------------
(* Whole pages.                                                             *)

LEMMA ClassOfIs ==
  ASSUME NEW l \in Layouts, ClassOf(l) # NoClass
  PROVE  LET c == ClassOf(l)
         IN  /\ c \in Classes /\ Sizes[c] >= l.size /\ Sizes[c] % l.align = 0
             /\ \A d \in Classes : Sizes[d] >= l.size /\ Sizes[d] % l.align = 0 => c <= d
<1> DEFINE fits == {c \in Classes : Sizes[c] >= l.size /\ Sizes[c] % l.align = 0}
<1>1. fits # {} /\ ClassOf(l) = CHOOSE c \in fits : \A d \in fits : c <= d
  BY DEF ClassOf
<1>2. fits \in SUBSET Nat
  BY ClassIs
<1> HIDE DEF fits
<1>3. \E c \in fits : \A d \in fits : c <= d
  BY <1>1, <1>2, LeastExists
<1>4. ClassOf(l) \in fits /\ \A d \in fits : ClassOf(l) <= d
  BY <1>1, <1>3
<1> QED BY <1>4 DEF fits

LEMMA CeilDivIs ==
  ASSUME NEW a \in Nat, a >= 1
  PROVE  /\ CeilDiv(a, PageSize) \in Nat /\ CeilDiv(a, PageSize) >= 1
         /\ CeilDiv(a, PageSize) * PageSize >= a
         /\ CeilDiv(a, PageSize) * PageSize < a + PageSize
<1> DEFINE q == (a + PageSize - 1) \div PageSize
           r == (a + PageSize - 1) % PageSize
<1>1. q \in Int /\ r \in 0 .. PageSize - 1 /\ a + PageSize - 1 = PageSize * q + r
  <2> DEFINE b == a + PageSize - 1
  <2>1. b \in Int
    BY PageIs
  <2> HIDE DEF b
  <2>2. /\ b \div PageSize \in Int
        /\ b % PageSize \in 0 .. PageSize - 1
        /\ b = PageSize * (b \div PageSize) + (b % PageSize)
    BY <2>1, PageIs, ModuloIs
  <2> QED BY <2>2 DEF b
<1>2. CeilDiv(a, PageSize) = q
  BY DEF CeilDiv
<1> HIDE DEF q, r
<1>3. q * PageSize = PageSize * q /\ PageSize * q \in Int
  BY <1>1, PageIs
<1>4. q >= 1
  <2> SUFFICES ASSUME q <= 0 PROVE FALSE
    BY <1>1
  <2>1. PageSize * (0 - q) >= 0 /\ PageSize * (0 - q) = 0 - PageSize * q
    BY <1>1, PageIs
  <2> QED BY <1>1, <1>3, <2>1, PageIs
<1> QED BY <1>1, <1>2, <1>3, <1>4, PageIs

\* The order exists: there are powers of two above every number of pages.
LEMMA OrderIs ==
  ASSUME NEW l \in Layouts
  PROVE  LET k == OrderOf(l)
         IN  k \in Nat /\ 2 ^ k >= CeilDiv(l.size, PageSize) /\ 2 ^ k >= CeilDiv(l.align, PageSize)
<1> DEFINE P(n) == 2 ^ n
           pages == CeilDiv(l.size, PageSize)
           align == CeilDiv(l.align, PageSize)
           T == {k \in 0 .. pages + align : P(k) >= pages /\ P(k) >= align}
           Is(k) == /\ P(k) >= pages /\ P(k) >= align
                    /\ k > 0 => P(k - 1) < pages \/ P(k - 1) < align
<1>1. pages \in Nat /\ align \in Nat
  BY CeilDivIs, HeapAssumption
<1>2. OrderOf(l) = CHOOSE k \in 0 .. pages + align : Is(k)
  BY DEF OrderOf
<1>3. \A n \in Nat : P(n) \in Nat /\ P(n) >= n
  BY PowerPositive, PowerExceeds
<1> HIDE DEF P, pages, align
<1>4. pages + align \in T
  BY <1>1, <1>3
<1>5. T \in SUBSET Nat
  OBVIOUS
<1>6. PICK k \in T : \A m \in T : k <= m
  <2> HIDE DEF T
  <2> QED BY <1>4, <1>5, LeastExists
<1>7. k \in 0 .. pages + align /\ Is(k)
  <2>1. k > 0 => k - 1 \in 0 .. pages + align /\ k - 1 \notin T
    BY <1>1, <1>6
  <2>2. k > 0 => P(k - 1) < pages \/ P(k - 1) < align
    BY <1>1, <1>3, <2>1
  <2> QED BY <2>2
<1> HIDE DEF Is
<1>8. OrderOf(l) \in 0 .. pages + align /\ Is(OrderOf(l))
  BY <1>2, <1>7
<1> QED BY <1>1, <1>8 DEF Is, P, pages, align

\* Where the frame allocator has room no block is.
LEMMA RoomIs ==
  ASSUME NEW k \in Nat, held \in SUBSET Blocks, NEW p \in Frames!Rooms(k)
  PROVE  /\ p \in Pages /\ p % 2 ^ k = 0
         /\ \A b \in held : /\ p \notin Frames!Span(b)
                            /\ Frames!Span(b) \cap Frames!Span([pfn |-> p, order |-> k]) = {}
  BY DEF Frames!Rooms, Frames!Free

\* Block b is free to hold an object o of whole pages.
Holds(hd, b, o) ==
    /\ b \in Blocks
    /\ \A a \in hd : Frames!Span(a) \cap Frames!Span(b) = {}
    /\ \E l \in Layouts : /\ ClassOf(l) = NoClass
                          /\ b.order = OrderOf(l)
                          /\ o = Object(b.pfn * PageSize, l)

LEMMA PagesSound ==
  ASSUME NEW h, NEW hd, NEW lv, Sound(h, hd, lv), NEW b, NEW o, Holds(hd, b, o),
         NEW new, new = WithEntry(h, b.pfn, Buddy)
  PROVE  /\ Sound(new, hd \cup {b}, lv \cup {o})
         /\ IsWhole(new, o, b) /\ o \notin lv
<1> PICK l \in Layouts : ClassOf(l) = NoClass /\ b.order = OrderOf(l) /\ o = Object(b.pfn * PageSize, l)
  BY DEF Holds
<1> b \in Blocks /\ \A a \in hd : Frames!Span(a) \cap Frames!Span(b) = {}
  BY DEF Holds
<1> DEFINE p == b.pfn
           hd1 == hd \cup {b}
           lv1 == lv \cup {o}
<1>1. h \in HeapType /\ hd \in SUBSET Blocks /\ Base(h, hd, lv) /\ p \in Pages /\ p \in Nat
  BY BlockIs DEF Sound, Base
<1>2. /\ p \notin SlabsOf(h, hd)
      /\ \A a \in hd : a.pfn # p
      /\ \A q \in lv : PageOf(q.addr) # p
  <2>1. \A a \in hd : p \notin Frames!Span(a)
    BY BlockIs
  <2> QED BY <1>1, <2>1, PageUnused
<1>5. /\ new \in HeapType /\ new.heads = h.heads /\ new.word = h.word /\ new.entry[p] = Buddy
      /\ \A q \in Pages \ {p} : new.entry[q] = h.entry[q]
  BY <1>1, WithEntryIs
<1>6. ~IsSlab(new, p) /\ \A q \in Pages \ {p} : /\ new.entry[q] = h.entry[q]
                                                /\ IsSlab(new, q) <=> IsSlab(h, q)
  BY <1>5 DEF IsSlab, Buddy
<1>7. o.addr = p * PageSize /\ o.layout = l /\ o.addr \in Nat /\ PageOf(o.addr) = p
      /\ o \in [addr : Nat, layout : Layouts]
  <2>1. p * PageSize \in Nat /\ (p * PageSize) \div PageSize = p
    BY <1>1, PageStartTells
  <2> QED BY <2>1 DEF Object, PageOf
<1>8. b.pfn = p /\ b \in Blocks
  OBVIOUS
<1> HIDE DEF p
<1>9. SlabsOf(new, hd1) = SlabsOf(h, hd)
  <2>1. ASSUME NEW q \in Pages \ {p}
        PROVE  PageBlock(q) \in hd1 <=> PageBlock(q) \in hd
    BY <1>8, PageBlockIs
  <2> QED BY <1>2, <1>6, <2>1 DEF SlabsOf
<1>10. \A q \in SlabsOf(h, hd) : /\ q \in Pages \ {p} /\ new.entry[q] = h.entry[q]
                                 /\ SlotsOf(new, q) = SlotsOf(h, q)
                                 /\ \A i : SlotAddress(new, q, i) = SlotAddress(h, q, i)
                                 /\ IsFull(new, q) <=> IsFull(h, q)
  <2>1. \A q \in SlabsOf(h, hd) : q \in Pages \ {p} /\ new.entry[q] = h.entry[q]
    BY <1>2, <1>6 DEF SlabsOf
  <2> QED BY <2>1 DEF SlotsOf, SlotAddress, IsFull
<1>11. \A q \in SlabsOf(h, hd) : InUse(new, lv1, q) = InUse(h, lv, q)
  <2>1. ASSUME NEW q \in SlabsOf(h, hd), NEW i \in SlotsOf(h, q)
        PROVE  o.addr # SlotAddress(h, q, i)
    <3>1. PageOf(SlotAddress(h, q, i)) = q
      BY <1>1, SlabIs, AddressTells DEF SlotAddress, PageOf, SlotsOf
    <3> QED BY <1>7, <1>10, <3>1
  <2> QED BY <1>10, <2>1 DEF InUse
<1>12. BlocksApart(new, hd1)
  <2>1. \A a \in hd : IsSlab(new, a.pfn) <=> IsSlab(h, a.pfn)
    BY <1>1, <1>2, <1>6, BlockIs
  <2>2. \A a \in hd : Frames!Span(a) \cap Frames!Span(b) = {}
    OBVIOUS
  <2> QED BY <1>1, <1>6, <1>8, <2>1, <2>2 DEF Base, BlocksApart
<1>13. IsWhole(new, o, b)
  BY <1>6, <1>7, <1>8 DEF IsWhole
<1>14. ObjectsPlaced(new, hd1, lv1)
  <2>1. \A q \in lv : InSlab(h, hd, q) => InSlab(new, hd1, q)
    BY <1>9, <1>10 DEF InSlab
  <2>2. \A q \in lv : \A a \in hd : IsWhole(h, q, a) => IsWhole(new, q, a)
    BY <1>1, <1>2, <1>6, BlockIs DEF IsWhole
  <2>3. \A q \in lv : q.addr # o.addr
    BY <1>2, <1>7
  <2> QED BY <1>1, <1>13, <2>1, <2>2, <2>3 DEF Base, ObjectsPlaced
<1>15. SlotsLinked(new, hd1, lv1)
  BY <1>1, <1>5, <1>9, <1>10, <1>11 DEF Base, SlotsLinked
<1>16. Base(new, hd1, lv1)
  BY <1>1, <1>5, <1>7, <1>8, <1>12, <1>14, <1>15 DEF Base
<1>17. ASSUME NEW d \in Classes
       PROVE  ListHas(new, d, PartialOf(new, hd1, d))
  <2>1. PartialOf(new, hd1, d) = PartialOf(h, hd, d)
    BY <1>9, <1>10 DEF PartialOf
  <2>2. PartialOf(h, hd, d) \in SUBSET SlabsAmong(h) /\ ListHas(h, d, PartialOf(h, hd, d))
    BY PartialIs
  <2>3. \A q \in PartialOf(h, hd, d) : /\ IsSlab(new, q)
                                       /\ new.entry[q].next_partial = h.entry[q].next_partial
                                       /\ new.entry[q].prev_partial = h.entry[q].prev_partial
    BY <1>6, <1>10 DEF PartialOf, SlabsOf
  <2> QED BY <1>1, <1>5, <2>1, <2>2, <2>3, ListKept
<1>18. FullUnlinked(new, hd1)
  BY <1>9, <1>10 DEF Sound, ListsLinked, FullUnlinked
<1>19. Sound(new, hd1, lv1)
  BY <1>16, <1>17, <1>18 DEF Sound, ListsLinked
<1>20. o \notin lv
  BY <1>2, <1>7
<1> QED BY <1>13, <1>19, <1>20

LEMMA PagesFreedSound ==
  ASSUME NEW h, NEW hd, NEW lv, Sound(h, hd, lv), NEW o \in lv, NEW b \in hd, IsWhole(h, o, b)
  PROVE  Sound(h, hd \ {b}, lv \ {o})
<1> DEFINE hd1 == hd \ {b}
           lv1 == lv \ {o}
<1>1. h \in HeapType /\ hd \in SUBSET Blocks /\ Base(h, hd, lv)
  BY DEF Sound, Base
<1>2. ~IsSlab(h, b.pfn) /\ o.addr = b.pfn * PageSize /\ PageOf(o.addr) = b.pfn
  <2>1. ~IsSlab(h, b.pfn) /\ o.addr = b.pfn * PageSize /\ b.pfn \in Nat
    BY <1>1, BlockIs DEF IsWhole
  <2> QED BY <2>1, PageStartTells DEF PageOf
<1>3. SlabsOf(h, hd1) = SlabsOf(h, hd)
  BY <1>2, PageBlockIs DEF SlabsOf
<1>4. \A q \in SlabsOf(h, hd) : InUse(h, lv1, q) = InUse(h, lv, q)
  <2>1. ASSUME NEW q \in SlabsOf(h, hd), NEW i \in SlotsOf(h, q)
        PROVE  o.addr # SlotAddress(h, q, i)
    <3>1. PageOf(SlotAddress(h, q, i)) = q /\ IsSlab(h, q)
      BY <1>1, SlabIs, AddressTells DEF SlotAddress, PageOf, SlotsOf
    <3> QED BY <1>2, <3>1
  <2> QED BY <2>1 DEF InUse
<1>5. BlocksApart(h, hd1)
  BY <1>1 DEF Base, BlocksApart
<1>6. ObjectsPlaced(h, hd1, lv1)
  <2>1. \A q \in lv : InSlab(h, hd, q) => InSlab(h, hd1, q)
    BY <1>3 DEF InSlab
  <2>2. \A q \in lv1 : \A a \in hd : IsWhole(h, q, a) => a \in hd1
    BY <1>1, <1>2 DEF Base, ObjectsPlaced, IsWhole
  <2> QED BY <1>1, <2>1, <2>2 DEF Base, ObjectsPlaced
<1>7. SlotsLinked(h, hd1, lv1)
  BY <1>1, <1>3, <1>4 DEF Base, SlotsLinked
<1>8. Base(h, hd1, lv1)
  BY <1>1, <1>5, <1>6, <1>7 DEF Base
<1>9. ListsLinked(h, hd1)
  BY <1>3 DEF Sound, ListsLinked, PartialOf, FullUnlinked
<1> QED BY <1>8, <1>9 DEF Sound

-------------------------------------------------------------------------------
(* The invariant, action by action.                                         *)

LEMMA InitInvariant == Init => IInv
<1> SUFFICES ASSUME Init PROVE IInv
  OBVIOUS
<1>1. heap = EmptyHeap /\ held = {} /\ live = {} /\ refused = {}
  BY DEF Init
<1>2. /\ heap \in HeapType
      /\ \A c \in Classes : heap.heads[c] = None
  BY <1>1 DEF EmptyHeap, HeapType, Junk
<1>3. SlabsOf(heap, held) = {} /\ \A c \in Classes : PartialOf(heap, held, c) = {}
  BY <1>1 DEF SlabsOf, PartialOf
<1>4. ASSUME NEW c \in Classes
      PROVE  ListHas(heap, c, {})
  <2> DEFINE next == After(heap)
             none == None
  <2> HIDE DEF next, none
  <2>1. Threaded(none, next, none, {})
    BY ThreadedNone
  <2> QED BY <1>2, <2>1 DEF ListHas, next, none
<1>5. Base(heap, held, live)
  BY <1>1, <1>2, <1>3 DEF Base, BlocksApart, ObjectsPlaced, SlotsLinked
<1>6. Sound(heap, held, live)
  BY <1>3, <1>4, <1>5 DEF Sound, ListsLinked, FullUnlinked
<1> QED BY <1>1, <1>6 DEF IInv, BlocksUsed

LEMMA CountIs ==
  ASSUME NEW h, NEW hd, NEW lv, Base(h, hd, lv), NEW p \in SlabsOf(h, hd)
  PROVE  IsFiniteSet(InUse(h, lv, p)) /\ h.entry[p].in_use = Cardinality(InUse(h, lv, p)) /\ h.entry[p].in_use \in Nat
<1>1. h \in HeapType
  BY DEF Base
<1>2. h.entry[p].class \in Classes
  BY <1>1, SlabIs
<1>3. IsFiniteSet(InUse(h, lv, p))
  BY <1>2, ClassIs, FS_Subset DEF InUse, SlotsOf
<1>4. h.entry[p].in_use = Cardinality(InUse(h, lv, p))
  BY DEF Base, SlotsLinked
<1> QED BY <1>3, <1>4, FS_CardinalityType

\* A block of a slab is a block of its one page.
LEMMA SlabBlock ==
  ASSUME NEW h, NEW hd, NEW lv, Base(h, hd, lv), NEW b \in hd
  PROVE  b \in Blocks /\ b.pfn \in Pages /\ (IsSlab(h, b.pfn) => b = PageBlock(b.pfn) /\ b.pfn \in SlabsOf(h, hd))
<1>1. b \in Blocks /\ b.pfn \in Pages /\ b = [pfn |-> b.pfn, order |-> b.order]
  BY BlockIs DEF Base
<1>2. ASSUME IsSlab(h, b.pfn)
      PROVE  b = PageBlock(b.pfn) /\ b.pfn \in SlabsOf(h, hd)
  <2>1. b.order = 0
    BY <1>2 DEF Base, BlocksApart
  <2> QED BY <1>1, <1>2, <2>1 DEF PageBlock, SlabsOf
<1> QED BY <1>1, <1>2

LEMMA AllocPartialKeeps ==
  ASSUME IInv, NEW l \in Layouts, AllocPartial(l)
  PROVE  IInv'
<1> DEFINE c == ClassOf(l)
           p == heap.heads[c]
<1>1. /\ c \in Classes /\ p # None
      /\ heap' = Taken(heap, p)
      /\ live' = live \cup {Object(Address(heap, p), l)}
      /\ refused' = {} /\ held' = held
  BY ClassOfIs DEF AllocPartial
<1>2. p \in Pages
  BY <1>1, HeapIs DEF IInv, Sound, Base
<1> HIDE DEF p, c
<1>3. /\ Sound(heap', held, live')
      /\ p \in SlabsOf(heap, held)
      /\ \A q \in Pages : IsSlab(heap', q) <=> IsSlab(heap, q)
      /\ \A q \in Pages \ {p} : IsSlab(heap, q) => heap'.entry[q].in_use = heap.entry[q].in_use
      /\ heap'.entry[p].in_use = heap.entry[p].in_use + 1
  <2> DEFINE t == Taken(heap, p)
  <2>1. Sound(heap, held, live) /\ p = heap.heads[c] /\ ClassOf(l) = c
    BY DEF IInv, p, c
  <2>2. /\ Sound(t, held, live \cup {Object(Address(heap, p), l)})
        /\ p \in SlabsOf(heap, held) /\ heap.entry[p].class = c
        /\ heap.entry[p].free_head \in Slots(c) /\ Object(Address(heap, p), l) \notin live
        /\ \A q \in Pages : IsSlab(t, q) <=> IsSlab(heap, q)
        /\ \A q \in Pages \ {p} : IsSlab(heap, q) => t.entry[q].in_use = heap.entry[q].in_use
        /\ t.entry[p].in_use = heap.entry[p].in_use + 1
    <3>1. c \in Classes
      BY <1>1
    <3> HIDE DEF t
    <3> QED BY <1>2, <2>1, <3>1, TakenSound, SMTT(30) DEF t
  <2> HIDE DEF t
  <2>3. heap' = t
    BY <1>1 DEF t
  <2> QED BY <1>1, <2>2, <2>3
<1>4. ASSUME NEW b \in held
      PROVE  IF IsSlab(heap', b.pfn) THEN heap'.entry[b.pfn].in_use # 0
             ELSE \E o \in live' : IsWhole(heap', o, b)
  <2>1. b.pfn \in Pages
    BY SlabBlock DEF IInv, Sound
  <2>2. CASE IsSlab(heap', b.pfn) /\ b.pfn = p
    <3>1. heap.entry[p].in_use \in Nat
      BY <1>3, CountIs DEF IInv, Sound
    <3> QED BY <1>3, <2>2, <3>1
  <2>3. CASE IsSlab(heap', b.pfn) /\ b.pfn # p
    BY <1>3, <2>1, <2>3 DEF IInv, BlocksUsed
  <2>4. CASE ~IsSlab(heap', b.pfn)
    <3>1. PICK o \in live : IsWhole(heap, o, b)
      BY <1>3, <2>1, <2>4 DEF IInv, BlocksUsed
    <3>2. o \in live' /\ IsWhole(heap', o, b)
      BY <1>1, <2>4, <3>1 DEF IsWhole
    <3> QED BY <2>4, <3>2
  <2> QED BY <2>2, <2>3, <2>4
<1>5. BlocksUsed(heap', held, live')
  BY <1>4 DEF BlocksUsed
<1> QED BY <1>1, <1>3, <1>5 DEF IInv

LEMMA AllocFreshKeeps ==
  ASSUME IInv, NEW l \in Layouts, AllocFresh(l)
  PROVE  IInv'
<1> DEFINE c == ClassOf(l)
<1>1. c \in Classes /\ heap.heads[c] = None /\ refused' = {}
  BY ClassOfIs DEF AllocFresh
<1>2. PICK p \in Frames!Rooms(0) :
         /\ held' = held \cup {[pfn |-> p, order |-> 0]}
         /\ LET h == [InitSlab(heap, p, ClassOf(l)) EXCEPT !.heads[ClassOf(l)] = p]
            IN  /\ heap' = Taken(h, p)
                /\ live' = live \cup {Object(Address(h, p), l)}
  BY Zenon DEF AllocFresh
<1> DEFINE h == [InitSlab(heap, p, c) EXCEPT !.heads[c] = p]
<1>3. heap' = Taken(h, p) /\ live' = live \cup {Object(Address(h, p), l)} /\ held' = held \cup {PageBlock(p)}
  BY <1>2 DEF PageBlock
<1>4. p \in Pages /\ \A b \in held : p \notin Frames!Span(b)
  <2>1. held \in SUBSET Blocks /\ 0 \in Nat
    BY DEF IInv, Sound, Base
  <2> QED BY <2>1, RoomIs
<1>5. /\ Sound(h, held', live)
      /\ h.heads[c] = p
      /\ \A q \in Pages \ {p} : h.entry[q] = heap.entry[q]
      /\ IsSlab(h, p) /\ h.entry[p].in_use = 0
  <2>1. c \in Classes /\ heap.heads[c] = None /\ Sound(heap, held, live)
    BY <1>1 DEF IInv
  <2>2. h = Fresh(heap, p, c)
    BY DEF Fresh
  <2> HIDE DEF c, h
  <2>3. /\ Sound(h, held \cup {PageBlock(p)}, live)
        /\ h.heads[c] = p
        /\ \A q \in Pages \ {p} : h.entry[q] = heap.entry[q]
        /\ IsSlab(h, p) /\ h.entry[p].in_use = 0
    <3>1. p \in Pages /\ \A b \in held : p \notin Frames!Span(b)
      BY <1>4
    <3> QED BY <2>1, <2>2, <3>1, FreshSound
  <2> QED BY <1>3, <2>3
<1> HIDE DEF h
<1>6. /\ Sound(heap', held', live')
      /\ \A q \in Pages : IsSlab(heap', q) <=> IsSlab(h, q)
      /\ \A q \in Pages \ {p} : IsSlab(h, q) => heap'.entry[q].in_use = h.entry[q].in_use
      /\ heap'.entry[p].in_use = h.entry[p].in_use + 1
  <2> DEFINE t == Taken(h, p)
  <2>1. ClassOf(l) = c /\ c \in Classes /\ p = h.heads[c]
    BY <1>1, <1>5
  <2> HIDE DEF c
  <2>2. /\ Sound(t, held', live \cup {Object(Address(h, p), l)})
        /\ p \in SlabsOf(h, held') /\ h.entry[p].class = c
        /\ h.entry[p].free_head \in Slots(c) /\ Object(Address(h, p), l) \notin live
        /\ \A q \in Pages : IsSlab(t, q) <=> IsSlab(h, q)
        /\ \A q \in Pages \ {p} : IsSlab(h, q) => t.entry[q].in_use = h.entry[q].in_use
        /\ t.entry[p].in_use = h.entry[p].in_use + 1
    BY <1>4, <1>5, <2>1, TakenSound, SMTT(30)
  <2> HIDE DEF t
  <2>3. heap' = t
    BY <1>3 DEF t
  <2> QED BY <1>3, <2>2, <2>3
<1>7. \A q \in Pages \ {p} : IsSlab(h, q) <=> IsSlab(heap, q)
  BY <1>5 DEF IsSlab
<1>8. ASSUME NEW b \in held'
      PROVE  IF IsSlab(heap', b.pfn) THEN heap'.entry[b.pfn].in_use # 0
             ELSE \E o \in live' : IsWhole(heap', o, b)
  <2>1. CASE b \in held
    <3>1. b.pfn \in Pages \ {p}
      <4>1. Base(heap, held, live)
        BY DEF IInv, Sound
      <4> QED BY <1>4, <2>1, <4>1, PageUnused, SlabBlock
    <3>2. CASE IsSlab(heap, b.pfn)
      BY <1>5, <1>6, <1>7, <2>1, <3>1, <3>2 DEF IInv, BlocksUsed
    <3>3. CASE ~IsSlab(heap, b.pfn)
      <4>1. PICK o \in live : IsWhole(heap, o, b)
        BY <2>1, <3>3 DEF IInv, BlocksUsed
      <4>2. o \in live' /\ ~IsSlab(heap', b.pfn)
        BY <1>3, <1>6, <1>7, <3>1, <3>3
      <4>3. IsWhole(heap', o, b)
        BY <4>1, <4>2 DEF IsWhole
      <4> QED BY <4>2, <4>3
    <3> QED BY <3>2, <3>3
  <2>2. CASE b = PageBlock(p)
    BY <1>4, <1>5, <1>6, <2>2, PageBlockIs
  <2> QED BY <1>3, <2>1, <2>2
<1>9. BlocksUsed(heap', held', live')
  BY <1>8 DEF BlocksUsed
<1> QED BY <1>1, <1>6, <1>9 DEF IInv

LEMMA AllocPagesKeeps ==
  ASSUME IInv, NEW l \in Layouts, AllocPages(l)
  PROVE  IInv'
<1> DEFINE k == OrderOf(l)
<1>1. ClassOf(l) = NoClass /\ refused' = {}
  BY DEF AllocPages
<1>2. PICK p \in Rooms(l) :
         /\ held' = held \cup {[pfn |-> p, order |-> OrderOf(l)]}
         /\ heap' = [heap EXCEPT !.entry[p] = Buddy]
         /\ live' = live \cup {Object(p * PageSize, l)}
  BY Zenon DEF AllocPages
<1>3. k \in 0 .. MaxOrder /\ p \in Frames!Rooms(k)
  <2>1. k \in Nat
    BY OrderIs
  <2>2. k <= MaxOrder /\ p \in Frames!Rooms(k)
    BY DEF Rooms
  <2> QED BY <2>1, <2>2, HeapAssumption
<1> HIDE DEF k
<1> DEFINE b == [pfn |-> p, order |-> k]
           o == Object(p * PageSize, l)
<1>4. held' = held \cup {b} /\ live' = live \cup {o}
  BY <1>2 DEF k
<1>5. p \in Pages /\ \A a \in held : p \notin Frames!Span(a) /\ Frames!Span(a) \cap Frames!Span(b) = {}
  <2>1. held \in SUBSET Blocks /\ k \in Nat
    BY <1>3, HeapAssumption DEF IInv, Sound, Base
  <2> QED BY <1>3, <2>1, RoomIs
<1>6. /\ Sound(heap', held', live')
      /\ IsWhole(heap', o, b)
      /\ \A q \in Pages \ {p} : heap'.entry[q] = heap.entry[q]
  <2>1. Sound(heap, held, live) /\ b \in Blocks /\ b.pfn = p /\ b.order = OrderOf(l)
    BY <1>3, <1>5 DEF IInv, Blocks, k
  <2>2. Holds(held, b, o)
    BY <1>1, <1>5, <2>1 DEF Holds
  <2> DEFINE new == heap'
  <2>3. new = WithEntry(heap, b.pfn, Buddy)
    BY <1>2, Zenon DEF WithEntry
  <2> HIDE DEF b, o, new
  <2>4. /\ Sound(new, held \cup {b}, live \cup {o})
        /\ IsWhole(new, o, b)
    BY <2>1, <2>2, <2>3, PagesSound
  <2>5. \A q \in Pages \ {p} : new.entry[q] = heap.entry[q]
    BY <1>5, <2>1, <2>3, WithEntryIs DEF Sound, Base
  <2> QED BY <1>4, <2>4, <2>5 DEF new
<1>7. b.pfn = p
  OBVIOUS
<1> HIDE DEF b, o
<1>8. ASSUME NEW a \in held
      PROVE  IF IsSlab(heap', a.pfn) THEN heap'.entry[a.pfn].in_use # 0
             ELSE \E q \in live' : IsWhole(heap', q, a)
  <2>1. a.pfn \in Pages \ {p}
    <3>1. Base(heap, held, live)
      BY DEF IInv, Sound
    <3> QED BY <1>5, <3>1, PageUnused, SlabBlock
  <2>2. heap'.entry[a.pfn] = heap.entry[a.pfn] /\ (IsSlab(heap', a.pfn) <=> IsSlab(heap, a.pfn))
    BY <1>6, <2>1 DEF IsSlab
  <2>3. CASE IsSlab(heap, a.pfn)
    BY <2>2, <2>3 DEF IInv, BlocksUsed
  <2>4. CASE ~IsSlab(heap, a.pfn)
    <3>1. PICK q \in live : IsWhole(heap, q, a)
      BY <2>4 DEF IInv, BlocksUsed
    <3>2. q \in live' /\ IsWhole(heap', q, a)
      BY <1>4, <2>2, <2>4, <3>1 DEF IsWhole
    <3> QED BY <2>2, <2>4, <3>2
  <2> QED BY <2>3, <2>4
<1>9. ~IsSlab(heap', b.pfn) /\ o \in live'
  BY <1>4, <1>6 DEF IsWhole
<1>10. BlocksUsed(heap', held', live')
  BY <1>4, <1>6, <1>8, <1>9 DEF BlocksUsed
<1> QED BY <1>1, <1>6, <1>10 DEF IInv

\* What a slab object's address says, for both of its frees.
LEMMA SlabObjectIs ==
  ASSUME IInv, NEW o \in live, IsSlab(heap, PageOf(o.addr))
  PROVE  LET p == PageOf(o.addr)
             i == SlotOf(o)
         IN  /\ Base(heap, held, live)
             /\ p \in Pages /\ p \in SlabsOf(heap, held)
             /\ heap.entry[p].class \in Classes
             /\ i \in InUse(heap, live, p) /\ o.addr = SlotAddress(heap, p, i)
             /\ \A b \in held : ~IsWhole(heap, o, b)
<1> DEFINE p == PageOf(o.addr)
<1>1. Base(heap, held, live) /\ heap \in HeapType /\ held \in SUBSET Blocks
  BY DEF IInv, Sound, Base
<1>2. /\ p \in Pages /\ p \in SlabsOf(heap, held)
      /\ SlotOf(o) \in InUse(heap, live, p) /\ o.addr = SlotAddress(heap, p, SlotOf(o))
  BY <1>1, ObjectIs DEF SlotOf
<1>3. ASSUME NEW b \in held, IsWhole(heap, o, b)
      PROVE  FALSE
  <2>1. ~IsSlab(heap, b.pfn) /\ o.addr = b.pfn * PageSize /\ b.pfn \in Nat
    BY <1>1, <1>3, BlockIs DEF IsWhole
  <2>2. PageOf(o.addr) = b.pfn
    BY <2>1, PageStartTells DEF PageOf
  <2> QED BY <2>1, <2>2
<1>4. heap.entry[p].class \in Classes
  BY <1>1, <1>2, SlabIs
<1> QED BY <1>1, <1>2, <1>3, <1>4

LEMMA FreeObjectKeeps ==
  ASSUME IInv, NEW o \in live, FreeObject(o)
  PROVE  IInv'
<1> DEFINE p == PageOf(o.addr)
           i == SlotOf(o)
           c == heap.entry[p].class
<1>1. /\ IsSlab(heap, p)
      /\ live' = live \ {o} /\ refused' = {} /\ held' = held
      /\ heap' = Freed(heap, p, i) /\ heap'.entry[p].in_use # 0
  BY DEF FreeObject, GivesBack, IsEmpty
<1>2. /\ p \in Pages /\ p \in SlabsOf(heap, held)
      /\ c \in Classes
      /\ i \in InUse(heap, live, p) /\ o.addr = SlotAddress(heap, p, i)
      /\ \A b \in held : ~IsWhole(heap, o, b)
  BY <1>1, SlabObjectIs
<1> HIDE DEF p, i
<1>3. /\ Sound(heap', held, live')
      /\ \A q \in Pages : IsSlab(heap', q) <=> IsSlab(heap, q)
      /\ \A q \in Pages \ {p} : IsSlab(heap, q) => heap'.entry[q].in_use = heap.entry[q].in_use
  <2> DEFINE new == heap'
             rest == live'
  <2>1. Sound(heap, held, live) /\ new = Freed(heap, p, i) /\ rest = live \ {o}
    BY <1>1 DEF IInv
  <2>2. c \in Classes /\ c = heap.entry[p].class
    BY <1>2
  <2> HIDE DEF new, rest, c
  <2>3. /\ Sound(new, held, rest)
        /\ p \in PartialOf(new, held, c)
        /\ \A q \in Pages : IsSlab(new, q) <=> IsSlab(heap, q)
        /\ \A q \in Pages \ {p} : IsSlab(heap, q) => new.entry[q].in_use = heap.entry[q].in_use
    BY <1>2, <2>1, <2>2, FreedSound
  <2> QED BY <2>3 DEF new, rest
<1>4. ASSUME NEW b \in held
      PROVE  IF IsSlab(heap', b.pfn) THEN heap'.entry[b.pfn].in_use # 0
             ELSE \E q \in live' : IsWhole(heap', q, b)
  <2>1. b.pfn \in Pages
    BY SlabBlock DEF IInv, Sound
  <2>2. CASE IsSlab(heap', b.pfn)
    BY <1>1, <1>3, <2>1, <2>2 DEF IInv, BlocksUsed
  <2>3. CASE ~IsSlab(heap', b.pfn)
    <3>1. PICK q \in live : IsWhole(heap, q, b)
      BY <1>3, <2>1, <2>3 DEF IInv, BlocksUsed
    <3>2. q \in live' /\ IsWhole(heap', q, b)
      BY <1>1, <1>2, <2>3, <3>1 DEF IsWhole
    <3> QED BY <2>3, <3>2
  <2> QED BY <2>2, <2>3
<1>5. BlocksUsed(heap', held, live')
  BY <1>4 DEF BlocksUsed
<1> QED BY <1>1, <1>3, <1>5 DEF IInv

LEMMA FreeLastObjectKeeps ==
  ASSUME IInv, NEW o \in live, FreeLastObject(o)
  PROVE  IInv'
<1> DEFINE p == PageOf(o.addr)
           i == SlotOf(o)
           c == heap.entry[p].class
           f == Freed(heap, p, i)
<1>1. /\ IsSlab(heap, p) /\ f.entry[p].in_use = 0
      /\ held' = held \ {PageBlock(p)} /\ live' = live \ {o} /\ refused' = {}
      /\ \E e \in {Buddy, UnlinkSlab(f, p).entry[p]} : heap' = [UnlinkSlab(f, p) EXCEPT !.entry[p] = e]
  BY DEF FreeLastObject, GivesBack, IsEmpty, PageBlock
<1>2. PICK e \in {Buddy, UnlinkSlab(f, p).entry[p]} : heap' = [UnlinkSlab(f, p) EXCEPT !.entry[p] = e]
  BY <1>1
<1>3. /\ p \in Pages /\ p \in SlabsOf(heap, held)
      /\ c \in Classes
      /\ i \in InUse(heap, live, p) /\ o.addr = SlotAddress(heap, p, i)
      /\ \A b \in held : ~IsWhole(heap, o, b)
  BY <1>1, SlabObjectIs
<1> HIDE DEF p, i
<1>4. /\ Sound(f, held, live')
      /\ p \in PartialOf(f, held, c)
      /\ \A q \in Pages : IsSlab(f, q) <=> IsSlab(heap, q)
      /\ \A q \in Pages \ {p} : IsSlab(heap, q) => f.entry[q].in_use = heap.entry[q].in_use
  <2> DEFINE lv == live \ {o}
  <2>1. Sound(heap, held, live) /\ live' = lv /\ f = Freed(heap, p, i)
    BY <1>1 DEF IInv
  <2> HIDE DEF f, lv, c
  <2>2. /\ Sound(f, held, lv)
        /\ p \in PartialOf(f, held, c)
        /\ \A q \in Pages : IsSlab(f, q) <=> IsSlab(heap, q)
        /\ \A q \in Pages \ {p} : IsSlab(heap, q) => f.entry[q].in_use = heap.entry[q].in_use
    <3>1. lv = live \ {o} /\ c = heap.entry[p].class
      BY DEF lv, c
    <3> QED BY <1>3, <2>1, <3>1, FreedSound
  <2> QED BY <2>1, <2>2
<1> HIDE DEF f, c
<1>5. /\ Sound(heap', held', live')
      /\ \A q \in Pages \ {p} : IsSlab(heap', q) <=> IsSlab(f, q)
      /\ \A q \in Pages \ {p} : IsSlab(f, q) => heap'.entry[q].in_use = f.entry[q].in_use
  <2> DEFINE new == heap'
             lv == live'
  <2>1. new = WithEntry(UnlinkSlab(f, p), p, e) /\ Sound(f, held, lv)
    BY <1>2, <1>4, Zenon DEF WithEntry
  <2> HIDE DEF new, lv
  <2>2. /\ Sound(new, held \ {PageBlock(p)}, lv)
        /\ \A q \in Pages \ {p} : IsSlab(new, q) <=> IsSlab(f, q)
        /\ \A q \in Pages \ {p} : IsSlab(f, q) => new.entry[q].in_use = f.entry[q].in_use
    <3>1. /\ c \in Classes /\ p \in PartialOf(f, held, c) /\ f.entry[p].in_use = 0
          /\ e \in {Buddy, UnlinkSlab(f, p).entry[p]}
      BY <1>1, <1>3, <1>4
    <3> QED BY <2>1, <3>1, GivenBackSound, SMTT(30)
  <2> QED BY <1>1, <2>2 DEF new, lv
<1>6. ASSUME NEW b \in held'
      PROVE  IF IsSlab(heap', b.pfn) THEN heap'.entry[b.pfn].in_use # 0
             ELSE \E q \in live' : IsWhole(heap', q, b)
  <2>1. b \in held /\ b.pfn \in Pages \ {p}
    <3>1. Base(heap, held, live) /\ BlocksApart(heap, held) /\ held \in SUBSET Blocks /\ PageBlock(p) \in held
      BY <1>3 DEF IInv, Sound, Base, SlabsOf
    <3>2. b \in held /\ b # PageBlock(p) /\ PageBlock(p).pfn = p
      BY <1>1, <1>3, PageBlockIs
    <3>3. b.pfn # p
      BY <3>1, <3>2, SamePage
    <3> QED BY <3>1, <3>2, <3>3, SlabBlock
  <2>2. CASE IsSlab(heap', b.pfn)
    BY <1>4, <1>5, <2>1, <2>2 DEF IInv, BlocksUsed
  <2>3. CASE ~IsSlab(heap', b.pfn)
    <3>1. PICK q \in live : IsWhole(heap, q, b)
      BY <1>4, <1>5, <2>1, <2>3 DEF IInv, BlocksUsed
    <3>2. q \in live' /\ IsWhole(heap', q, b)
      BY <1>1, <1>3, <2>1, <2>3, <3>1 DEF IsWhole
    <3> QED BY <2>3, <3>2
  <2> QED BY <2>2, <2>3
<1>7. BlocksUsed(heap', held', live')
  BY <1>6 DEF BlocksUsed
<1> QED BY <1>1, <1>5, <1>7 DEF IInv

LEMMA FreePagesKeeps ==
  ASSUME IInv, NEW o \in live, FreePages(o)
  PROVE  IInv'
<1> DEFINE p == PageOf(o.addr)
<1>1. /\ ~IsSlab(heap, p)
      /\ held' = {b \in held : b.pfn # p}
      /\ live' = live \ {o} /\ refused' = {} /\ heap' = heap
  BY DEF FreePages
<1>2. Base(heap, held, live) /\ held \in SUBSET Blocks /\ BlocksApart(heap, held) /\ Sound(heap, held, live)
  BY DEF IInv, Sound, Base
<1>3. PICK b \in held : IsWhole(heap, o, b) /\ b.pfn = p
  BY <1>1, <1>2, ObjectIs
<1> HIDE DEF p
<1>4. held' = held \ {b}
  <2>1. \A a \in held : a.pfn = p => a = b
    BY <1>2, <1>3, SamePage
  <2> QED BY <1>1, <1>3, <2>1
<1>5. Sound(heap', held', live')
  BY <1>1, <1>2, <1>3, <1>4, PagesFreedSound
<1>6. ASSUME NEW a \in held', ~IsSlab(heap, a.pfn)
      PROVE  \E q \in live' : IsWhole(heap, q, a)
  <2>1. PICK q \in live : IsWhole(heap, q, a)
    BY <1>4, <1>6 DEF IInv, BlocksUsed
  <2>2. q # o
    <3>1. /\ a.pfn \in Nat /\ b.pfn \in Nat
          /\ q.addr = a.pfn * PageSize /\ o.addr = b.pfn * PageSize
          /\ a # b
      BY <1>2, <1>3, <1>4, <2>1, BlockIs DEF IsWhole
    <3>2. q.addr \div PageSize = a.pfn /\ o.addr \div PageSize = b.pfn
      BY <3>1, PageStartTells
    <3>3. a.pfn # b.pfn
      BY <1>2, <1>4, <3>1, SamePage
    <3> QED BY <3>2, <3>3
  <2> QED BY <1>1, <2>1, <2>2
<1>7. BlocksUsed(heap', held', live')
  BY <1>1, <1>4, <1>6 DEF IInv, BlocksUsed
<1> QED BY <1>1, <1>5, <1>7 DEF IInv

LEMMA NextInvariant == IInv /\ [Next]_vars => IInv'
<1> SUFFICES ASSUME IInv, [Next]_vars PROVE IInv'
  OBVIOUS
<1>1. ASSUME NEW l \in Layouts, AllocPartial(l) PROVE IInv'
  BY <1>1, AllocPartialKeeps
<1>2. ASSUME NEW l \in Layouts, AllocFresh(l) PROVE IInv'
  BY <1>2, AllocFreshKeeps
<1>3. ASSUME NEW l \in Layouts, AllocFreshFails(l) PROVE IInv'
  <2>1. heap' = heap /\ held' = held /\ live' = live /\ refused' \in SUBSET Layouts
    BY <1>3 DEF AllocFreshFails
  <2> QED BY <2>1 DEF IInv
<1>4. ASSUME NEW l \in Layouts, AllocPages(l) PROVE IInv'
  BY <1>4, AllocPagesKeeps
<1>5. ASSUME NEW l \in Layouts, AllocPagesFails(l) PROVE IInv'
  <2>1. heap' = heap /\ held' = held /\ live' = live /\ refused' \in SUBSET Layouts
    BY <1>5 DEF AllocPagesFails
  <2> QED BY <2>1 DEF IInv
<1>6. ASSUME NEW o \in live, FreeObject(o) PROVE IInv'
  BY <1>6, FreeObjectKeeps
<1>7. ASSUME NEW o \in live, FreeLastObject(o) PROVE IInv'
  BY <1>7, FreeLastObjectKeeps
<1>8. ASSUME NEW o \in live, FreePages(o) PROVE IInv'
  BY <1>8, FreePagesKeeps
<1>9. CASE UNCHANGED vars
  BY <1>9 DEF vars, IInv
<1> QED BY <1>1, <1>2, <1>3, <1>4, <1>5, <1>6, <1>7, <1>8, <1>9 DEF Next

\* Every reachable heap of mm/heap.rs is sound: blocks apart, every object in
\* a slot or a block of its own, slots and pages linked, nothing kept unused.
THEOREM Invariant == Spec => []IInv
  BY InitInvariant, NextInvariant, PTL DEF Spec

-------------------------------------------------------------------------------
(* What the runs check, for every arena and every set of classes.           *)

LEMMA SlabPagesAre == SlabPages = SlabsOf(heap, held) /\ \A p : SlotsInUse(p) = InUse(heap, live, p)
  BY DEF SlabPages, SlabsOf, PageBlock, SlotsInUse, InUse, SlotsOf, SlotAddress

LEMMA Typed ==
  ASSUME IInv
  PROVE  TypeOK
<1>1. /\ Base(heap, held, live) /\ heap \in HeapType /\ held \in SUBSET Blocks
      /\ SlabPages = SlabsOf(heap, held)
  BY SlabPagesAre DEF IInv, Sound, Base
<1>2. heap.heads \in [Classes -> Pages \cup {None}] /\ DOMAIN heap.entry = Pages
  BY <1>1, HeapIs
<1>3. ASSUME NEW p \in SlabPages
      PROVE  LET e == heap.entry[p]
             IN  /\ e.class \in Classes
                 /\ e.free_head \in Slots(e.class) \cup {None}
                 /\ e.in_use \in 0 .. Cardinality(Slots(e.class))
                 /\ {e.next_partial, e.prev_partial} \subseteq Pages \cup {None}
  <2> DEFINE e == heap.entry[p]
             F == SlotsOf(heap, p) \ InUse(heap, live, p)
             w == heap.word[p]
  <2>1. p \in SlabsOf(heap, held) /\ e \in SlabEntries /\ e.class \in Classes
    BY <1>1, SlabIs
  <2>2. e.next_partial \in Pages \cup {None} /\ e.prev_partial \in Pages \cup {None}
    BY <2>1, EntryIs
  <2>3. e.free_head \in F \cup {None}
    <3> DEFINE head == e.free_head
    <3>1. Threaded(head, w, None, F) /\ None \notin F
      BY <1>1, <2>1, SlabIs DEF Base, SlotsLinked
    <3> HIDE DEF head, w, F
    <3>2. head \in F \cup {None}
      BY <3>1, ThreadedIs
    <3> QED BY <3>2 DEF head
  <2>4. F \subseteq Slots(e.class) /\ InUse(heap, live, p) \subseteq Slots(e.class)
    BY DEF SlotsOf, InUse
  <2>5. e.in_use \in 0 .. Cardinality(Slots(e.class))
    <3>1. e.in_use \in Nat /\ e.in_use = Cardinality(InUse(heap, live, p))
      BY <1>1, <2>1, CountIs
    <3>2. IsFiniteSet(Slots(e.class)) /\ Cardinality(Slots(e.class)) \in Nat
      BY <2>1, ClassIs
    <3>3. Cardinality(InUse(heap, live, p)) <= Cardinality(Slots(e.class))
      BY <2>4, <3>2, FS_Subset
    <3> QED BY <3>1, <3>2, <3>3
  <2> QED BY <2>1, <2>2, <2>3, <2>4, <2>5
<1>4. \A o \in live : PageOf(o.addr) \in Pages /\ o.layout \in Layouts
  BY <1>1, ObjectIs
<1> QED BY <1>1, <1>2, <1>3, <1>4 DEF TypeOK, IInv, Blocks

SlotWalk(p) ==
    LET at[n \in 0 .. PageSize] ==
            IF n = 0 THEN heap.entry[p].free_head
            ELSE IF at[n - 1] \in Slots(heap.entry[p].class) THEN heap.word[p][at[n - 1]] ELSE None
    IN  at

LEMMA FreeChainIs ==
  ASSUME IInv, NEW p \in SlabPages
  PROVE  FreeChain(p) = Slots(heap.entry[p].class) \ SlotsInUse(p)
<1> DEFINE head == heap.entry[p].free_head
           w == heap.word[p]
           D == Slots(heap.entry[p].class)
           F == D \ SlotsInUse(p)
           f == SlotWalk(p)
           E == 0 .. PageSize - 1
<1>1. Base(heap, held, live) /\ heap \in HeapType /\ p \in SlabsOf(heap, held)
  BY SlabPagesAre DEF IInv, Sound, Base
<1>2. Threaded(head, w, None, F)
  BY <1>1, SlabPagesAre DEF Base, SlotsLinked, SlotsOf
<1>3. None \notin D /\ D \subseteq E
  BY <1>1, SlabIs DEF SlotsOf
<1>4. IsFiniteSet(E) /\ Cardinality(E) <= PageSize
  <2> DEFINE top == PageSize - 1
  <2>1. top \in Int /\ ~(0 > top) /\ (top - 0) + 1 = PageSize
    BY PageIs
  <2> HIDE DEF top
  <2>2. IsFiniteSet(0 .. top) /\ Cardinality(0 .. top) = IF 0 > top THEN 0 ELSE top - 0 + 1
    BY <2>1, FS_Interval
  <2>3. Cardinality(0 .. top) = PageSize
    BY <2>1, <2>2
  <2> QED BY <2>2, <2>3, PageIs DEF top
<1>5. F \subseteq D
  OBVIOUS
<1> HIDE DEF F
<1>6. PICK g : IsWalk(g, head, w, None, D, PageSize)
  <2> HIDE DEF head, w, D
  <2> QED BY <1>2, <1>3, <1>5, PageIs, WalkExists
<1>7. IsWalk(f, head, w, None, D, PageSize)
  BY <1>6 DEF SlotWalk, IsWalk
<1>8. {f[n] : n \in 0 .. PageSize} \ {None} = F
  <2> HIDE DEF head, w, D, E, f
  <2> QED BY <1>2, <1>3, <1>4, <1>5, <1>7, PageIs, WalkVisits
<1>9. FreeChain(p) = {f[n] : n \in 0 .. PageSize} \ {None}
  BY DEF FreeChain, SlotWalk
<1> QED BY <1>8, <1>9 DEF F

\* Slab::alloc and Slab::free neither hand out a slot twice nor lose one: the
\* links of a slab reach exactly the slots that no object is in, and in_use
\* counts the others.
THEOREM AccountsForSlots == Spec => []SlotsAccounted
<1>1. IInv => SlotsAccounted
  <2> SUFFICES ASSUME IInv, NEW p \in SlabPages
               PROVE  /\ FreeChain(p) = Slots(heap.entry[p].class) \ SlotsInUse(p)
                      /\ heap.entry[p].in_use = Cardinality(SlotsInUse(p))
    BY Typed DEF SlotsAccounted
  <2>1. Base(heap, held, live) /\ p \in SlabsOf(heap, held)
    BY SlabPagesAre DEF IInv, Sound
  <2>2. heap.entry[p].in_use = Cardinality(SlotsInUse(p))
    BY <2>1, CountIs, SlabPagesAre
  <2> QED BY <2>2, FreeChainIs
<1> QED BY <1>1, Invariant, PTL

PageWalk(c) ==
    LET at[n \in 0 .. Cardinality(Pages)] ==
            IF n = 0 THEN heap.heads[c]
            ELSE IF at[n - 1] \in SlabPages THEN heap.entry[at[n - 1]].next_partial ELSE None
    IN  at

LEMMA PartialChainIs ==
  ASSUME IInv, NEW c \in Classes
  PROVE  PartialChain(c) = PartialOf(heap, held, c)
<1> DEFINE head == heap.heads[c]
           next == After(heap)
           D == SlabPages
           ps == PartialOf(heap, held, c)
           N == Cardinality(Pages)
           f == PageWalk(c)
<1>1. /\ Sound(heap, held, live) /\ D = SlabsOf(heap, held)
      /\ Threaded(head, next, None, ps) /\ ps \subseteq D
  BY PartialIs, SlabPagesAre DEF IInv, ListHas
<1>2. None \notin D /\ D \subseteq Pages /\ IsFiniteSet(Pages) /\ N \in Nat
  BY PageIs, HeapAssumption, FS_CardinalityType DEF SlabPages
<1>3. \A q \in D : next[q] = heap.entry[q].next_partial
  BY DEF After, SlabPages
<1>4. PICK g : IsWalk(g, head, next, None, D, N)
  <2> HIDE DEF head, next, D, ps, N
  <2> QED BY <1>1, <1>2, WalkExists
<1>5. \A e : e = [n \in 0 .. N |-> IF n = 0 THEN heap.heads[c]
                                  ELSE IF e[n - 1] \in SlabPages THEN heap.entry[e[n - 1]].next_partial
                                  ELSE None]
             <=> IsWalk(e, head, next, None, D, N)
  <2> SUFFICES ASSUME NEW e
               PROVE  \A n \in 0 .. N :
                         (IF n = 0 THEN heap.heads[c]
                          ELSE IF e[n - 1] \in SlabPages THEN heap.entry[e[n - 1]].next_partial ELSE None)
                         = (IF n = 0 THEN head ELSE IF e[n - 1] \in D THEN next[e[n - 1]] ELSE None)
    BY DEF IsWalk
  <2> QED BY <1>3
<1>6. IsWalk(f, head, next, None, D, N)
  BY <1>4, <1>5 DEF PageWalk
<1>7. {f[n] : n \in 0 .. N} \ {None} = ps
  <2>1. ps \subseteq Pages /\ Cardinality(Pages) <= N
    BY <1>1, <1>2
  <2>2. Cardinality(Pages) = N
    OBVIOUS
  <2> HIDE DEF head, next, D, ps, f, N
  <2> QED BY <1>1, <1>2, <1>6, <2>1, WalkVisits
<1>8. PartialChain(c) = {f[n] : n \in 0 .. N} \ {None}
  BY DEF PartialChain, PageWalk
<1> QED BY <1>7, <1>8

\* Cache::push and Cache::unlink keep each class's list whole: it holds
\* exactly the slabs with a free slot, linked both ways, and full slabs are on
\* none.
THEOREM KeepsLists == Spec => []PartialLists
<1>1. IInv => PartialLists
  <2> SUFFICES ASSUME IInv PROVE PartialLists
    OBVIOUS
  <2>1. Sound(heap, held, live) /\ heap \in HeapType /\ SlabPages = SlabsOf(heap, held)
    BY SlabPagesAre DEF IInv, Sound, Base
  <2>2. ASSUME NEW c \in Classes
        PROVE  /\ PartialChain(c) = {p \in SlabPages : heap.entry[p].class = c /\ ~IsFull(heap, p)}
               /\ heap.heads[c] # None => heap.entry[heap.heads[c]].prev_partial = None
    <3>1. PartialChain(c) = PartialOf(heap, held, c)
      BY PartialChainIs
    <3>2. ListHas(heap, c, PartialOf(heap, held, c))
      BY <2>1, PartialIs
    <3> QED BY <2>1, <3>1, <3>2 DEF PartialOf, ListHas
  <2>3. ASSUME NEW p \in SlabPages
        PROVE  LET after == heap.entry[p].next_partial
               IN  /\ after # None => heap.entry[after].prev_partial = p
                   /\ IsFull(heap, p) => after = None /\ heap.entry[p].prev_partial = None
    <3>1. IsFull(heap, p) => heap.entry[p].next_partial = None /\ heap.entry[p].prev_partial = None
      BY <2>1 DEF Sound, ListsLinked, FullUnlinked
    <3>2. CASE ~IsFull(heap, p)
      <4> DEFINE c == heap.entry[p].class
      <4>1. c \in Classes /\ p \in PartialOf(heap, held, c)
        BY <2>1, <3>2, SlabIs DEF PartialOf
      <4>2. ListHas(heap, c, PartialOf(heap, held, c))
        BY <2>1, <4>1, PartialIs
      <4> QED BY <3>2, <4>1, <4>2 DEF ListHas
    <3> QED BY <3>1, <3>2
  <2> QED BY <2>2, <2>3 DEF PartialLists
<1> QED BY <1>1, Invariant, PTL

\* An object freed with its own layout passes the asserts of free_layout,
\* Slab::free and Cache::unlink.
THEOREM PassesAsserts == Spec => []FreeAssertsHold
<1>1. IInv => FreeAssertsHold
  <2> SUFFICES ASSUME IInv, NEW o \in live
               PROVE  LET p == PageOf(o.addr)
                      IN  /\ (ClassOf(o.layout) # NoClass) = IsSlab(heap, p)
                          /\ IsSlab(heap, p) =>
                               LET c == heap.entry[p].class
                                   i == SlotOf(o)
                                   f == Freed(heap, p, i)
                               IN  /\ (o.addr % PageSize) % Sizes[c] = 0
                                   /\ heap.entry[p].in_use # 0
                                   /\ heap.entry[p].free_head # i
                                   /\ GivesBack(f, p) /\ f.entry[p].prev_partial = None => f.heads[c] = p
    BY Zenon DEF FreeAssertsHold
  <2> DEFINE p == PageOf(o.addr)
             c == heap.entry[p].class
             i == SlotOf(o)
             f == Freed(heap, p, i)
  <2>1. Sound(heap, held, live) /\ Base(heap, held, live) /\ heap \in HeapType
    BY DEF IInv, Sound, Base
  <2>2. /\ IsSlab(heap, p) => ClassOf(o.layout) # NoClass /\ (o.addr % PageSize) % Sizes[c] = 0
        /\ ~IsSlab(heap, p) => ClassOf(o.layout) = NoClass
    BY <2>1, ObjectIs DEF IsWhole
  <2>3. (ClassOf(o.layout) # NoClass) = IsSlab(heap, p)
    BY <2>2 DEF IsSlab
  <2>4. ASSUME IsSlab(heap, p)
        PROVE  /\ heap.entry[p].in_use # 0
               /\ heap.entry[p].free_head # i
               /\ GivesBack(f, p) /\ f.entry[p].prev_partial = None => f.heads[c] = p
    <3>1. /\ p \in Pages /\ p \in SlabsOf(heap, held)
          /\ c \in Classes
          /\ i \in InUse(heap, live, p) /\ o.addr = SlotAddress(heap, p, i)
      BY <2>4, SlabObjectIs
    <3>2. heap.entry[p].in_use # 0
      BY <2>1, <3>1, CountIs, FS_EmptySet
    <3>3. heap.entry[p].free_head # i
      <4> DEFINE head == heap.entry[p].free_head
                 w == heap.word[p]
                 F == SlotsOf(heap, p) \ InUse(heap, live, p)
      <4>1. Threaded(head, w, None, F) /\ None \notin F /\ i \notin F /\ i # None
        BY <2>1, <3>1, SlabIs DEF Base, SlotsLinked, InUse
      <4> HIDE DEF head, w, F, i
      <4>2. head \in F \cup {None}
        BY <4>1, ThreadedIs
      <4> QED BY <4>1, <4>2 DEF head
    <3>4. Sound(f, held, live \ {o}) /\ p \in PartialOf(f, held, c)
      <4> DEFINE rest == live \ {o}
      <4>1. f = Freed(heap, p, i) /\ c = heap.entry[p].class /\ rest = live \ {o}
        OBVIOUS
      <4> HIDE DEF p, i, c, f, rest
      <4>2. Sound(f, held, rest) /\ p \in PartialOf(f, held, c)
        BY <2>1, <3>1, <4>1, FreedSound
      <4> QED BY <4>1, <4>2
    <3>5. f.entry[p].prev_partial = None => f.heads[c] = p
      <4> HIDE DEF p, f, c
      <4> DEFINE ps == PartialOf(f, held, c)
      <4>1. f \in HeapType /\ ps \in SUBSET SlabsAmong(f) /\ ListHas(f, c, ps) /\ p \in ps
        BY <3>1, <3>4, PartialIs
      <4> HIDE DEF ps
      <4> QED BY <3>1, <4>1, ListIs
    <3> QED BY <3>2, <3>3, <3>5
  <2> QED BY <2>2, <2>3, <2>4
<1> QED BY <1>1, Invariant, PTL

-------------------------------------------------------------------------------
(* The heap implements an ObjectAllocator.                                  *)

\* The Extent for which it does.
Ext(l) == IF ClassOf(l) = NoClass THEN PageSize * 2 ^ OrderOf(l) ELSE Sizes[ClassOf(l)]

LEMMA FootprintIs ==
  /\ \A o : Objects!Footprint(o) = o.addr .. o.addr + Ext(o.layout) - 1
  /\ \A p : Objects!On(p) = {o \in live : \E a \in Objects!Footprint(o) : PageOf(a) = p}
  /\ \A l : Objects!Exhausted(l) <=>
               \A p \in Pages :
                  /\ Objects!On(p) # {}
                  /\ \/ \E o \in Objects!On(p) : Ext(o.layout) # Ext(l)
                     \/ Cardinality(Objects!On(p)) = PageSize \div Ext(l)
<1>1. \A o : Objects!Footprint(o) = o.addr .. o.addr + Ext(o.layout) - 1
  BY DEF Objects!Footprint, Ext
<1>2. \A a : Objects!PageOf(a) = PageOf(a)
  BY DEF Objects!PageOf, PageOf
<1>3. \A p : Objects!On(p) = {o \in live : \E a \in Objects!Footprint(o) : PageOf(a) = p}
  BY <1>2, Zenon DEF Objects!On
<1>4. \A l : Objects!Exhausted(l) <=>
               \A p \in Pages :
                  /\ Objects!On(p) # {}
                  /\ \/ \E o \in Objects!On(p) : Ext(o.layout) # Ext(l)
                     \/ Cardinality(Objects!On(p)) = PageSize \div Ext(l)
  <2> DEFINE G(l) == IF ClassOf(l) = NoClass THEN PageSize * 2 ^ OrderOf(l)
                     ELSE Sizes[ClassOf(l)]
  <2>1. \A l : Ext(l) = G(l)
    BY Zenon DEF Ext
  <2>2. \A l : Objects!Exhausted(l) <=>
               \A p \in Pages :
                  /\ Objects!On(p) # {}
                  /\ \/ \E o \in Objects!On(p) : G(o.layout) # G(l)
                     \/ Cardinality(Objects!On(p)) = PageSize \div G(l)
    <3>1. \A S : Objects!Cardinality(S) = Cardinality(S)
      BY Zenon DEF Objects!Cardinality, Cardinality
    <3> QED BY <3>1, Zenon DEF Objects!Exhausted
  <2> HIDE DEF G
  <2> QED BY <2>1, <2>2
<1> QED BY <1>1, <1>3, <1>4

\* Small objects get less than a page, the others no less.
LEMMA ExtentIs ==
  ASSUME NEW l \in Layouts
  PROVE  /\ Ext(l) \in Nat /\ Ext(l) >= 1 /\ Ext(l) >= l.size
         /\ ClassOf(l) # NoClass => Ext(l) = Sizes[ClassOf(l)] /\ Ext(l) < PageSize
         /\ ClassOf(l) = NoClass => Ext(l) = PageSize * 2 ^ OrderOf(l) /\ Ext(l) >= PageSize
<1>1. CASE ClassOf(l) # NoClass
  <2> DEFINE s == Sizes[ClassOf(l)]
             n == PageSize \div s
  <2>1. s \in Nat /\ s >= 1 /\ n \in Nat /\ n >= 2 /\ s * n = PageSize /\ s >= l.size
    BY <1>1, ClassOfIs, ClassIs
  <2>2. Ext(l) = s
    BY <1>1 DEF Ext
  <2> HIDE DEF s, n
  <2>3. s * (n - 2) >= 0 /\ s * (n - 2) = s * n - 2 * s
    BY <2>1
  <2>4. s < PageSize
    BY <2>1, <2>3
  <2> QED BY <1>1, <2>1, <2>2, <2>4 DEF s
<1>2. CASE ClassOf(l) = NoClass
  <2> DEFINE m == 2 ^ OrderOf(l)
             n == CeilDiv(l.size, PageSize)
  <2>1. m \in Nat /\ m >= 1
    BY OrderIs, PowerPositive
  <2>2. Ext(l) = PageSize * m
    BY <1>2 DEF Ext
  <2>3. n \in Nat /\ n * PageSize >= l.size /\ m >= n /\ l.size \in Nat /\ l.size >= 1
    BY OrderIs, CeilDivIs, HeapAssumption
  <2> HIDE DEF m, n
  <2>4. PageSize * (m - n) >= 0 /\ PageSize * (m - n) = PageSize * m - n * PageSize
    BY <2>1, <2>3, PageIs
  <2>5. PageSize * (m - 1) >= 0 /\ PageSize * (m - 1) = PageSize * m - PageSize /\ PageSize * m \in Nat
    BY <2>1, PageIs
  <2>6. Ext(l) \in Nat /\ Ext(l) >= 1 /\ Ext(l) >= l.size /\ Ext(l) >= PageSize
    BY <2>2, <2>3, <2>4, <2>5, PageIs
  <2> QED BY <1>2, <2>2, <2>6 DEF m
<1> QED BY <1>1, <1>2

LEMMA SlotAligned ==
  ASSUME NEW l \in Layouts, ClassOf(l) # NoClass, NEW p \in Pages, NEW i \in Slots(ClassOf(l))
  PROVE  (p * PageSize + i * Sizes[ClassOf(l)]) % l.align = 0
<1> DEFINE s == Sizes[ClassOf(l)]
           n == PageSize \div s
           a == l.align
<1>1. /\ s \in Nat /\ s >= 1 /\ n \in Nat /\ s * n = PageSize /\ i \in Nat /\ s % a = 0
      /\ a \in Nat /\ a >= 1 /\ p \in Nat
  BY ClassOfIs, ClassIs, PageIs, HeapAssumption
<1> HIDE DEF s, n, a
<1>2. PICK x \in Int : s = a * x
  <2>1. s \in Int /\ a \in Nat /\ a >= 1 /\ s % a = 0
    BY <1>1
  <2> QED BY <2>1, QuotientIs
<1> DEFINE y == n * p + i
<1>3. y \in Int /\ p * PageSize + i * s = s * y
  <2>1. p * PageSize = s * (n * p) /\ n * p \in Int /\ p * PageSize \in Int
    BY <1>1
  <2>2. s * (n * p + i) = s * (n * p) + i * s
    BY <1>1, <2>1
  <2> QED BY <1>1, <2>1, <2>2
<1> HIDE DEF y
<1> DEFINE z == x * y
<1>4. s * y = a * z /\ z \in Int
  BY <1>1, <1>2, <1>3
<1> HIDE DEF z
<1>5. (a * z) % a = 0
  BY <1>1, <1>4, MultipleIs
<1>6. (s * y) % a = 0
  BY <1>4, <1>5
<1> QED BY <1>3, <1>6 DEF s, a

LEMMA BlockAligned ==
  ASSUME NEW l \in Layouts, NEW p \in Pages, p % 2 ^ OrderOf(l) = 0
  PROVE  (p * PageSize) % l.align = 0
<1> DEFINE P(n) == 2 ^ n
           k == OrderOf(l)
           a == l.align
           c == CeilDiv(a, PageSize)
<1>1. k \in Nat /\ P(k) >= c /\ a \in Nat /\ a >= 1 /\ p \in Nat
      /\ c \in Nat /\ c * PageSize >= a
  BY OrderIs, CeilDivIs, HeapAssumption, PageIs
<1>2. PageSize % a = 0 \/ \E m \in 0 .. a : a = PageSize * P(m)
  BY HeapAssumption
<1>3. \A n \in Nat : P(n) \in Nat /\ P(n) >= 1 /\ P(n + 1) = P(n) + P(n)
  BY PowerPositive, PowerDoubles
<1>4. \A m, n \in Nat : m <= n => \E r \in Nat : r >= 1 /\ P(n) = P(m) * r
  BY PowerDivides
<1>5. PICK y \in Int : p = P(k) * y
  <2>1. P(k) \in Nat /\ P(k) >= 1 /\ p \in Int /\ p % P(k) = 0
    BY <1>1, <1>3
  <2> HIDE DEF P
  <2> QED BY <2>1, QuotientIs
<1> HIDE DEF P, k, a, c
<1>6. CASE PageSize % a = 0
  <2>1. PICK x \in Int : PageSize = a * x
    <3>1. PageSize \in Int /\ a \in Nat /\ a >= 1 /\ PageSize % a = 0
      BY <1>1, <1>6, PageIs
    <3> QED BY <3>1, QuotientIs
  <2> DEFINE z == x * p
  <2>2. p * PageSize = a * z /\ z \in Int
    BY <1>1, <2>1
  <2> HIDE DEF z
  <2>3. (a * z) % a = 0
    <3> DEFINE w == a * z
    <3>1. w \in Int /\ w = a * z /\ z \in Int /\ a \in Nat /\ a >= 1
      BY <1>1, <2>2
    <3> HIDE DEF w
    <3>2. w % a = 0
      BY <3>1, MultipleIs
    <3> QED BY <3>1, <3>2
  <2> QED BY <2>2, <2>3 DEF a
<1>7. CASE \E m \in 0 .. a : a = PageSize * P(m)
  <2>1. PICK m \in 0 .. a : a = PageSize * P(m)
    BY <1>7
  <2>2. m \in Nat /\ P(m) \in Nat
    <3>1. m \in Nat
      BY <1>1
    <3> QED BY <1>3, <3>1
  <2>3. P(m) <= c
    <3>1. PageSize * P(m) < PageSize * c + PageSize
      BY <1>1, <2>1, <2>2, PageIs
    <3> QED BY <1>1, <2>2, <3>1, PageIs, MultiplesOrder
  <2>4. m <= k
    <3> SUFFICES ASSUME k + 1 <= m PROVE FALSE
      BY <1>1, <2>2
    <3>1. PICK r \in Nat : r >= 1 /\ P(m) = P(k + 1) * r
      BY <1>1, <1>4, <2>2
    <3>2. P(k + 1) = P(k) + P(k) /\ P(k) \in Nat /\ P(k) >= 1
      BY <1>1, <1>3
    <3>3. P(k + 1) * (r - 1) >= 0 /\ P(k + 1) * (r - 1) = P(k + 1) * r - P(k + 1)
      BY <3>1, <3>2
    <3> QED BY <1>1, <2>2, <2>3, <3>1, <3>2, <3>3
  <2>5. PICK r \in Nat : P(k) = P(m) * r
    BY <1>1, <1>4, <2>2, <2>4
  <2> DEFINE z == r * y
  <2>6. p * PageSize = a * z /\ z \in Int
    <3>1. p * PageSize = ((P(m) * r) * y) * PageSize
      BY <1>5, <2>5
    <3>2. ((P(m) * r) * y) * PageSize = (PageSize * P(m)) * (r * y) /\ r * y \in Int
      BY <1>5, <2>2, PageIs
    <3> QED BY <2>1, <3>1, <3>2
  <2> HIDE DEF z
  <2>7. (a * z) % a = 0
    <3> DEFINE w == a * z
    <3>1. w \in Int /\ w = a * z /\ z \in Int /\ a \in Nat /\ a >= 1
      BY <1>1, <2>6
    <3> HIDE DEF w
    <3>2. w % a = 0
      BY <3>1, MultipleIs
    <3> QED BY <3>1, <3>2
  <2> QED BY <2>6, <2>7 DEF a
<1> QED BY <1>2, <1>6, <1>7

\* The pages of n pages' worth of units.
LEMMA UnitsOfPages ==
  ASSUME NEW p \in Nat, NEW n \in Nat, NEW a \in Int,
         p * PageSize <= a, a < p * PageSize + PageSize * n
  PROVE  PageOf(a) \in p .. p + n - 1
<1> DEFINE d == a \div PageSize
           r == a % PageSize
<1>1. d \in Int /\ r \in 0 .. PageSize - 1 /\ a = PageSize * d + r
  BY PageIs, ModuloIs
<1> HIDE DEF d, r
<1>2. PageSize * d \in Int /\ p * PageSize = PageSize * p
  BY <1>1, PageIs
<1>3. p <= d
  <2>1. PageSize * p < PageSize * d + PageSize
    BY <1>1, <1>2, PageIs
  <2> QED BY <1>1, <2>1, PageIs, MultiplesOrder
<1>4. d <= p + n - 1
  <2> DEFINE m == p + n - 1
  <2>1. PageSize * m + PageSize = PageSize * p + PageSize * n
    BY PageIs
  <2>2. m \in Int
    OBVIOUS
  <2> HIDE DEF m
  <2>3. PageSize * d < PageSize * m + PageSize
    BY <1>1, <1>2, <2>1, PageIs
  <2>4. d <= m
    BY <1>1, <2>2, <2>3, PageIs, MultiplesOrder
  <2> QED BY <2>4 DEF m
<1> QED BY <1>1, <1>3, <1>4 DEF PageOf, d

\* Where the units of an object are.
LEMMA UnitIs ==
  ASSUME NEW h, NEW hd, NEW lv, Base(h, hd, lv), NEW o \in lv, NEW a \in Objects!Footprint(o)
  PROVE  /\ a \in Int
         /\ \/ /\ PageOf(a) = PageOf(o.addr) /\ PageOf(a) \in SlabsOf(h, hd)
               /\ IsSlab(h, PageOf(o.addr))
               /\ ClassOf(o.layout) = h.entry[PageOf(a)].class
            \/ \E b \in hd : IsWhole(h, o, b) /\ PageOf(a) \in Frames!Span(b)
<1> DEFINE l == o.layout
           p == PageOf(o.addr)
<1>1. /\ o.addr \in Nat /\ l \in Layouts /\ p \in Pages /\ p \in Nat /\ h \in HeapType /\ hd \in SUBSET Blocks
      /\ Ext(l) \in Nat
  BY ObjectIs, ExtentIs, PageIs DEF Base
<1>2. a \in Int /\ o.addr <= a /\ a < o.addr + Ext(l)
  <2> DEFINE e == Ext(l)
             f == o.addr
  <2>1. a \in f .. f + e - 1 /\ f \in Nat /\ e \in Nat
    BY <1>1, FootprintIs
  <2> HIDE DEF e, f
  <2>2. a \in Int /\ f <= a /\ a < f + e
    BY <2>1
  <2> QED BY <2>2 DEF e, f
<1>3. CASE IsSlab(h, p)
  <2> DEFINE c == h.entry[p].class
             i == (o.addr % PageSize) \div Sizes[c]
  <2>1. /\ p \in SlabsOf(h, hd) /\ c = ClassOf(l) /\ c # NoClass
        /\ i \in SlotsOf(h, p) /\ o.addr = SlotAddress(h, p, i)
    BY <1>3, ObjectIs DEF InUse
  <2>2. c \in Classes /\ i \in Slots(c) /\ o.addr = p * PageSize + i * Sizes[c] /\ Ext(l) = Sizes[c]
    BY <1>1, <2>1, SlabIs, ExtentIs DEF SlotsOf, SlotAddress
  <2> DEFINE s == Sizes[c]
             t == i * s
  <2> HIDE DEF i
  <2>3. t \in Nat /\ s \in Nat /\ t + s <= PageSize
    BY <2>2, SlotFits, ClassIs
  <2> HIDE DEF s
  <2>4. o.addr = p * PageSize + t /\ Ext(l) = s
    BY <2>2 DEF s
  <2> HIDE DEF t, p, l, c
  <2>5. p * PageSize <= a /\ a < p * PageSize + PageSize * 1 /\ 1 \in Nat
    BY <1>1, <1>2, <2>3, <2>4, PageIs
  <2>6. PageOf(a) \in p .. p + 1 - 1
    BY <1>1, <1>2, <2>5, UnitsOfPages
  <2>7. PageOf(a) = p
    BY <1>1, <2>6
  <2> QED BY <1>2, <1>3, <2>1, <2>7 DEF p, l, c
<1>4. CASE ~IsSlab(h, p)
  <2>1. PICK b \in hd : IsWhole(h, o, b) /\ b.pfn = p
    BY <1>4, ObjectIs
  <2> DEFINE n == 2 ^ b.order
  <2>2. /\ n \in Nat /\ Frames!Span(b) = p .. p + n - 1
        /\ o.addr = p * PageSize /\ Ext(l) = PageSize * n
    BY <1>1, <2>1, BlockIs, ExtentIs DEF IsWhole
  <2> HIDE DEF n, p, l
  <2>3. p * PageSize <= a /\ a < p * PageSize + PageSize * n
    BY <1>2, <2>2
  <2>4. PageOf(a) \in p .. p + n - 1
    BY <1>1, <1>2, <2>2, <2>3, UnitsOfPages
  <2> QED BY <1>2, <2>1, <2>2, <2>4
<1> QED BY <1>3, <1>4

LEMMA ObjectsApart ==
  ASSUME NEW h, NEW hd, NEW lv, Base(h, hd, lv), NEW o \in lv, NEW q \in lv, o # q
  PROVE  Objects!Footprint(o) \cap Objects!Footprint(q) = {}
<1> SUFFICES ASSUME NEW a \in Objects!Footprint(o), a \in Objects!Footprint(q)
             PROVE  FALSE
  OBVIOUS
<1>1. BlocksApart(h, hd) /\ hd \in SUBSET Blocks /\ h \in HeapType /\ o.addr # q.addr
  BY DEF Base, ObjectsPlaced
<1> DEFINE InPage(x) == /\ PageOf(a) = PageOf(x.addr) /\ PageOf(a) \in SlabsOf(h, hd)
                        /\ IsSlab(h, PageOf(x.addr))
                        /\ ClassOf(x.layout) = h.entry[PageOf(a)].class
           InBlock(x) == \E b \in hd : IsWhole(h, x, b) /\ PageOf(a) \in Frames!Span(b)
<1>2. /\ a \in Int
      /\ InPage(o) \/ InBlock(o)
      /\ InPage(q) \/ InBlock(q)
  BY UnitIs
<1>3. ASSUME NEW x \in lv, NEW y \in lv, InPage(x), InBlock(y)
      PROVE  FALSE
  <2>1. PICK b \in hd : IsWhole(h, y, b) /\ PageOf(a) \in Frames!Span(b)
    BY <1>3
  <2>2. PageOf(a) \in Pages /\ IsSlab(h, PageOf(a)) /\ PageBlock(PageOf(a)) \in hd
    BY <1>3 DEF SlabsOf
  <2>3. PageOf(a) \in Frames!Span(PageBlock(PageOf(a))) /\ PageBlock(PageOf(a)).pfn = PageOf(a)
    BY <2>2, PageBlockIs
  <2>4. b = PageBlock(PageOf(a))
    BY <1>1, <2>1, <2>2, <2>3 DEF BlocksApart
  <2> QED BY <2>1, <2>2, <2>3, <2>4 DEF IsWhole
<1>4. CASE InBlock(o) /\ InBlock(q)
  <2>1. PICK b \in hd : IsWhole(h, o, b) /\ PageOf(a) \in Frames!Span(b)
    BY <1>4
  <2>2. PICK d \in hd : IsWhole(h, q, d) /\ PageOf(a) \in Frames!Span(d)
    BY <1>4
  <2>3. b = d
    BY <1>1, <2>1, <2>2 DEF BlocksApart
  <2> QED BY <1>1, <2>1, <2>2, <2>3 DEF IsWhole
<1>5. CASE InPage(o) /\ InPage(q)
  <2> DEFINE p == PageOf(a)
             c == h.entry[p].class
             s == Sizes[c]
             i == (o.addr % PageSize) \div s
             j == (q.addr % PageSize) \div s
  <2>1. /\ PageOf(o.addr) = p /\ PageOf(q.addr) = p /\ p \in SlabsOf(h, hd) /\ IsSlab(h, p)
        /\ ClassOf(o.layout) = c /\ ClassOf(q.layout) = c
    BY <1>5
  <2>2. /\ o.addr = p * PageSize + i * s /\ q.addr = p * PageSize + j * s /\ c # NoClass
        /\ i \in Slots(c) /\ j \in Slots(c) /\ o.layout \in Layouts /\ q.layout \in Layouts
    BY <2>1, ObjectIs DEF InUse, SlotsOf, SlotAddress
  <2>3. c \in Classes /\ p \in Nat /\ s \in Nat /\ s >= 1 /\ i \in Nat /\ j \in Nat
    BY <1>1, <2>1, <2>2, SlabIs, ClassIs
  <2>4. Ext(o.layout) = s /\ Ext(q.layout) = s
    BY <2>1, <2>2, ExtentIs
  <2> DEFINE base == p * PageSize
             x == i * s
             y == j * s
  <2>a. base \in Int /\ x \in Int /\ y \in Int /\ o.addr = base + x /\ q.addr = base + y
    BY <2>2, <2>3, PageIs
  <2>b. /\ a \in o.addr .. o.addr + Ext(o.layout) - 1
        /\ a \in q.addr .. q.addr + Ext(q.layout) - 1
    BY FootprintIs
  <2> HIDE DEF x, y, base, s
  <2>5. base + x <= a /\ a < base + x + s /\ base + y <= a /\ a < base + y + s
    BY <1>2, <2>3, <2>4, <2>a, <2>b
  <2> HIDE DEF base, i, j, s, c, p
  <2>6. s * i < s * j + s /\ s * j < s * i + s
    <3>1. i * s \in Int /\ j * s \in Int /\ s * i = i * s /\ s * j = j * s
      BY <2>3
    <3>2. x < y + s /\ y < x + s
      BY <1>2, <2>3, <2>5, <2>a
    <3> QED BY <3>1, <3>2 DEF x, y
  <2>7. i = j
    <3>1. i <= j /\ j <= i
      BY <2>3, <2>6, MultiplesOrder
    <3> QED BY <2>3, <3>1
  <2> QED BY <1>1, <2>2, <2>7
<1> QED BY <1>2, <1>3, <1>4, <1>5

\* An object that is new and aligned is granted.
LEMMA GrantIs ==
  ASSUME NEW o, NEW l \in Layouts, NEW p \in Pages, NEW i \in 0 .. PageSize - 1,
         IInv', o \notin live, live' = live \cup {o}, refused' = {},
         o = Object(p * PageSize + i, l), (p * PageSize + i) % l.align = 0
  PROVE  Objects!Next
<1>1. o.addr = p * PageSize + i /\ o.layout = l /\ o = Objects!Object(p * PageSize + i, l)
  BY DEF Object, Objects!Object
<1>2. ASSUME NEW q \in live
      PROVE  Objects!Footprint(o) \cap Objects!Footprint(q) = {}
  <2> DEFINE h == heap'
             hd == held'
             lv == live'
  <2>1. Base(h, hd, lv) /\ o \in lv /\ q \in lv /\ o # q
    BY DEF IInv, Sound
  <2> HIDE DEF h, hd, lv
  <2> QED BY <2>1, ObjectsApart
<1>3. Ext(l) >= l.size
  BY ExtentIs
<1>4. Objects!Grant(o)
  <2>1. (IF ClassOf(o.layout) = NoClass THEN PageSize * 2 ^ OrderOf(o.layout)
         ELSE Sizes[ClassOf(o.layout)]) >= o.layout.size
    BY <1>1, <1>3, Zenon DEF Ext
  <2>2. o.addr % o.layout.align = 0
    BY <1>1
  <2> QED BY <1>2, <2>1, <2>2, Zenon DEF Objects!Grant
<1> QED BY <1>1, <1>4, Zenon DEF Objects!Next

LEMMA TakenGrants ==
  ASSUME NEW h, NEW hd, NEW l \in Layouts, NEW p \in Pages,
         Sound(h, hd, live), ClassOf(l) # NoClass, p = h.heads[ClassOf(l)],
         IInv', live' = live \cup {Object(Address(h, p), l)}, refused' = {}
  PROVE  Objects!Next
<1> DEFINE c == ClassOf(l)
           j == h.entry[p].free_head
           i == j * Sizes[c]
           new == Taken(h, p)
<1>1. c \in Classes /\ ClassOf(l) = c
  BY ClassOfIs
<1>2. h.entry[p].class = c /\ j \in Slots(c) /\ Object(Address(h, p), l) \notin live
  <2> HIDE DEF c
  <2>1. /\ Sound(new, hd, live \cup {Object(Address(h, p), l)})
        /\ p \in SlabsOf(h, hd) /\ h.entry[p].class = c
        /\ h.entry[p].free_head \in Slots(c) /\ Object(Address(h, p), l) \notin live
        /\ \A q \in Pages : IsSlab(new, q) <=> IsSlab(h, q)
        /\ \A q \in Pages \ {p} : IsSlab(h, q) => new.entry[q].in_use = h.entry[q].in_use
        /\ new.entry[p].in_use = h.entry[p].in_use + 1
    BY <1>1, TakenSound, SMTT(30) DEF c
  <2> QED BY <2>1
<1>3. Address(h, p) = p * PageSize + i
  BY <1>2 DEF Address
<1> HIDE DEF j
<1>4. (p * PageSize + i) % l.align = 0
  BY <1>2, SlotAligned
<1>5. i \in 0 .. PageSize - 1
  <2>1. i \in Nat /\ i + Sizes[c] <= PageSize /\ Sizes[c] \in Nat /\ Sizes[c] >= 1
    BY <1>1, <1>2, SlotFits, ClassIs
  <2> HIDE DEF i, c
  <2> QED BY <2>1, PageIs
<1> HIDE DEF i, c
<1> QED BY <1>2, <1>3, <1>4, <1>5, GrantIs

LEMMA AllocPartialGrants ==
  ASSUME IInv, IInv', NEW l \in Layouts, AllocPartial(l)
  PROVE  Objects!Next
<1> DEFINE p == heap.heads[ClassOf(l)]
<1>1. /\ ClassOf(l) # NoClass /\ p # None
      /\ live' = live \cup {Object(Address(heap, p), l)} /\ refused' = {}
  BY DEF AllocPartial
<1>2. p \in Pages /\ Sound(heap, held, live)
  <2>1. ClassOf(l) \in Classes
    BY <1>1, ClassOfIs
  <2> QED BY <1>1, <2>1, HeapIs DEF IInv, Sound, Base
<1> HIDE DEF p
<1>3. p = heap.heads[ClassOf(l)]
  BY DEF p
<1> QED BY <1>1, <1>2, <1>3, TakenGrants

LEMMA AllocFreshGrants ==
  ASSUME IInv, IInv', NEW l \in Layouts, AllocFresh(l)
  PROVE  Objects!Next
<1> DEFINE c == ClassOf(l)
<1>1. c \in Classes /\ heap.heads[c] = None /\ refused' = {} /\ c # NoClass
  BY ClassOfIs DEF AllocFresh
<1>2. PICK p \in Frames!Rooms(0) :
         /\ held' = held \cup {[pfn |-> p, order |-> 0]}
         /\ LET h == [InitSlab(heap, p, ClassOf(l)) EXCEPT !.heads[ClassOf(l)] = p]
            IN  /\ heap' = Taken(h, p)
                /\ live' = live \cup {Object(Address(h, p), l)}
  BY Zenon DEF AllocFresh
<1> DEFINE h == [InitSlab(heap, p, c) EXCEPT !.heads[c] = p]
<1>3. live' = live \cup {Object(Address(h, p), l)} /\ held' = held \cup {PageBlock(p)}
  BY <1>2 DEF PageBlock
<1>4. p \in Pages /\ \A b \in held : p \notin Frames!Span(b)
  <2>1. held \in SUBSET Blocks /\ 0 \in Nat
    BY DEF IInv, Sound, Base
  <2> QED BY <2>1, RoomIs
<1>5. /\ Sound(h, held', live)
      /\ h.heads[c] = p
      /\ \A q \in Pages \ {p} : h.entry[q] = heap.entry[q]
      /\ IsSlab(h, p) /\ h.entry[p].in_use = 0
  <2>1. c \in Classes /\ heap.heads[c] = None /\ Sound(heap, held, live)
    BY <1>1 DEF IInv
  <2>2. h = Fresh(heap, p, c)
    BY DEF Fresh
  <2> HIDE DEF c, h
  <2>3. /\ Sound(h, held \cup {PageBlock(p)}, live)
        /\ h.heads[c] = p
        /\ \A q \in Pages \ {p} : h.entry[q] = heap.entry[q]
        /\ IsSlab(h, p) /\ h.entry[p].in_use = 0
    <3>1. p \in Pages /\ \A b \in held : p \notin Frames!Span(b)
      BY <1>4
    <3> QED BY <2>1, <2>2, <3>1, FreshSound
  <2> QED BY <1>3, <2>3
<1> HIDE DEF h
<1> DEFINE hd == held'
<1> HIDE DEF hd
<1>6. p = h.heads[ClassOf(l)] /\ ClassOf(l) # NoClass
  BY <1>1, <1>5
<1>7. Sound(h, hd, live)
  BY <1>5 DEF hd
<1> QED BY <1>1, <1>3, <1>4, <1>6, <1>7, TakenGrants

LEMMA AllocPagesGrants ==
  ASSUME IInv, IInv', NEW l \in Layouts, AllocPages(l)
  PROVE  Objects!Next
<1> DEFINE k == OrderOf(l)
<1>1. ClassOf(l) = NoClass /\ refused' = {}
  BY DEF AllocPages
<1>2. PICK p \in Rooms(l) :
         /\ held' = held \cup {[pfn |-> p, order |-> OrderOf(l)]}
         /\ heap' = [heap EXCEPT !.entry[p] = Buddy]
         /\ live' = live \cup {Object(p * PageSize, l)}
  BY Zenon DEF AllocPages
<1>3. k \in Nat /\ p \in Frames!Rooms(k)
  BY OrderIs DEF Rooms
<1>4. p \in Pages /\ p % 2 ^ k = 0 /\ \A b \in held : p \notin Frames!Span(b)
  <2>1. held \in SUBSET Blocks
    BY DEF IInv, Sound, Base
  <2> HIDE DEF k
  <2> QED BY <1>3, <2>1, RoomIs
<1>5. (p * PageSize) % l.align = 0
  BY <1>4, BlockAligned
<1>6. Object(p * PageSize, l) \notin live
  <2>1. Base(heap, held, live)
    BY DEF IInv, Sound
  <2>2. \A o \in live : PageOf(o.addr) # p
    <3> HIDE DEF k
    <3> QED BY <1>4, <2>1, PageUnused
  <2>3. PageOf(p * PageSize) = p
    BY <1>4, PageIs, PageStartTells DEF PageOf
  <2> QED BY <2>2, <2>3 DEF Object
<1>7. p * PageSize + 0 = p * PageSize /\ 0 \in 0 .. PageSize - 1
  BY <1>4, PageIs
<1> DEFINE i == 0
<1>8. /\ i \in 0 .. PageSize - 1 /\ Object(p * PageSize, l) = Object(p * PageSize + i, l)
      /\ (p * PageSize + i) % l.align = 0
  BY <1>5, <1>7
<1> HIDE DEF i
<1> QED BY <1>1, <1>2, <1>4, <1>6, <1>8, GrantIs

\* When no single page is left, every page is in a block.
LEMMA NoRoom ==
  ASSUME held \in SUBSET Blocks, Frames!Rooms(0) = {}, NEW p \in Pages
  PROVE  \E b \in held : p \in Frames!Span(b)
<1> SUFFICES ASSUME \A b \in held : p \notin Frames!Span(b)
             PROVE  FALSE
  OBVIOUS
<1>1. p \in Frames!Free
  BY DEF Frames!Free
<1>2. Frames!Span([pfn |-> p, order |-> 0]) = {p}
  BY PageBlockIs DEF PageBlock
<1>3. p % 2 ^ 0 = 0
  BY PowerZero, PageIs
<1>4. p \in Frames!Rooms(0)
  BY <1>1, <1>2, <1>3 DEF Frames!Rooms
<1> QED BY <1>4

\* The objects in a slab's page are those in its slots.
LEMMA OnSlabIs ==
  ASSUME IInv, NEW p \in SlabsOf(heap, held)
  PROVE  Objects!On(p) = {o \in live : PageOf(o.addr) = p}
<1>1. /\ Base(heap, held, live) /\ BlocksApart(heap, held) /\ heap \in HeapType
      /\ p \in Pages /\ IsSlab(heap, p) /\ PageBlock(p) \in held
  BY DEF IInv, Sound, Base, SlabsOf
<1>2. ASSUME NEW o \in live, NEW a \in Objects!Footprint(o), PageOf(a) = p
      PROVE  PageOf(o.addr) = p
  <2> SUFFICES ASSUME NEW b \in held, IsWhole(heap, o, b), p \in Frames!Span(b)
               PROVE  FALSE
    BY <1>1, <1>2, UnitIs
  <2>1. b = PageBlock(p) /\ PageBlock(p).pfn = p
    BY <1>1, PageBlockIs DEF BlocksApart
  <2> QED BY <1>1, <2>1 DEF IsWhole
<1>3. ASSUME NEW o \in live, PageOf(o.addr) = p
      PROVE  \E a \in Objects!Footprint(o) : PageOf(a) = p
  <2> DEFINE a == o.addr
             e == Ext(o.layout)
  <2>1. a \in Nat /\ e \in Nat /\ e >= 1
    BY <1>1, ObjectIs, ExtentIs
  <2>2. Objects!Footprint(o) = a .. a + e - 1
    BY FootprintIs
  <2> HIDE DEF a, e
  <2>3. a \in Objects!Footprint(o)
    BY <2>1, <2>2
  <2> QED BY <1>3, <2>3 DEF a
<1>4. Objects!On(p) = {o \in live : \E a \in Objects!Footprint(o) : PageOf(a) = p}
  BY FootprintIs
<1> QED BY <1>2, <1>3, <1>4

\* A full slab has as many objects as slots.
LEMMA FullSlab ==
  ASSUME IInv, NEW p \in SlabsOf(heap, held), IsFull(heap, p)
  PROVE  Cardinality(Objects!On(p)) = PageSize \div Sizes[heap.entry[p].class]
<1> DEFINE c == heap.entry[p].class
           On == {o \in live : PageOf(o.addr) = p}
           At(i) == SlotAddress(heap, p, i)
           object == [i \in Slots(c) |-> CHOOSE o \in live : o.addr = At(i)]
<1>1. /\ Base(heap, held, live) /\ heap \in HeapType /\ c \in Classes /\ p \in Nat /\ IsSlab(heap, p)
      /\ \A o, q \in live : o.addr = q.addr => o = q
      /\ SlotsOf(heap, p) = Slots(c)
  BY SlabIs DEF IInv, Sound, Base, ObjectsPlaced, SlotsOf
<1>2. \A i \in Slots(c) : \E o \in live : o.addr = At(i)
  <2> DEFINE F == SlotsOf(heap, p) \ InUse(heap, live, p)
             w == heap.word[p]
  <2>1. Threaded(None, w, None, F) /\ None \notin F
    BY <1>1, SlabIs DEF Base, SlotsLinked, IsFull
  <2> HIDE DEF F, w
  <2>2. F = {}
    BY <2>1, ThreadedIs
  <2> QED BY <1>1, <2>2 DEF F, InUse
<1>3. \A i \in Slots(c) : At(i) \div PageSize = p
  BY <1>1, AddressTells DEF SlotAddress
<1>4. \A i, j \in Slots(c) : At(i) = At(j) => i = j
  BY <1>1, SlotsApart
<1>5. \A o \in On : \E i \in Slots(c) : o.addr = At(i)
  BY <1>1, ObjectIs DEF InUse
<1> HIDE DEF At, c
<1>6. \A i \in Slots(c) : object[i] \in live /\ object[i].addr = At(i)
  BY <1>2
<1> HIDE DEF object
<1>7. object \in [Slots(c) -> On]
  <2>1. DOMAIN object = Slots(c) /\ object = [i \in Slots(c) |-> object[i]]
    BY DEF object
  <2>2. \A i \in Slots(c) : object[i] \in On
    BY <1>3, <1>6 DEF PageOf
  <2> HIDE DEF On
  <2> QED BY <2>1, <2>2
<1>8. \A i, j \in Slots(c) : object[i] = object[j] => i = j
  BY <1>4, <1>6
<1>9. \A o \in On : \E i \in Slots(c) : object[i] = o
  <2> SUFFICES ASSUME NEW o \in On PROVE \E i \in Slots(c) : object[i] = o
    OBVIOUS
  <2>1. PICK i \in Slots(c) : o.addr = At(i)
    BY <1>5
  <2>2. object[i] = o
    BY <1>1, <1>6, <2>1
  <2> QED BY <2>2
<1> HIDE DEF On
<1>10. object \in Bijection(Slots(c), On)
  BY <1>7, <1>8, <1>9, Fun_IsBij
<1>11. IsFiniteSet(Slots(c)) /\ Cardinality(Slots(c)) = PageSize \div Sizes[c]
  BY <1>1, ClassIs
<1>12. Cardinality(On) = Cardinality(Slots(c))
  BY <1>10, <1>11, FS_Bijection DEF ExistsBijection
<1>13. Objects!On(p) = On
  BY OnSlabIs DEF On
<1> QED BY <1>11, <1>12, <1>13 DEF c

LEMMA AllocFreshRefuses ==
  ASSUME IInv, NEW l \in Layouts, ClassOf(l) # NoClass, heap.heads[ClassOf(l)] = None,
         Frames!Rooms(0) = {}
  PROVE  Objects!Exhausted(l)
<1> DEFINE c == ClassOf(l)
<1>1. /\ c \in Classes /\ heap.heads[c] = None /\ Ext(l) = Sizes[c] /\ Ext(l) < PageSize
      /\ Ext(l) \in Nat
  BY ClassOfIs, ExtentIs
<1>2. /\ Base(heap, held, live) /\ Sound(heap, held, live) /\ BlocksUsed(heap, held, live)
      /\ heap \in HeapType /\ held \in SUBSET Blocks
  BY DEF IInv, Sound, Base
<1> HIDE DEF c
<1>3. PartialOf(heap, held, c) = {}
  <2> DEFINE ps == PartialOf(heap, held, c)
  <2>1. ps \in SUBSET SlabsAmong(heap) /\ ListHas(heap, c, ps)
    BY <1>1, <1>2, PartialIs
  <2> HIDE DEF ps
  <2> QED BY <1>1, <1>2, <2>1, ListIs DEF ps
<1>4. ASSUME NEW p \in SlabsOf(heap, held)
      PROVE  /\ Objects!On(p) # {}
             /\ \/ \E o \in Objects!On(p) : Ext(o.layout) # Ext(l)
                \/ Cardinality(Objects!On(p)) = PageSize \div Ext(l)
  <2> DEFINE d == heap.entry[p].class
  <2>1. p \in Pages /\ IsSlab(heap, p) /\ PageBlock(p) \in held /\ d \in Classes
    BY <1>2, SlabIs
  <2>2. heap.entry[p].in_use # 0
    BY <1>2, <2>1, PageBlockIs DEF BlocksUsed
  <2>3. InUse(heap, live, p) # {}
    BY <1>2, <2>2, CountIs, FS_EmptySet
  <2>4. PICK i \in SlotsOf(heap, p), o \in live : o.addr = SlotAddress(heap, p, i)
    BY <2>3 DEF InUse
  <2>5. PageOf(o.addr) = p
    BY <1>2, <2>1, <2>4, SlabIs, AddressTells DEF SlotAddress, SlotsOf, PageOf
  <2>6. o \in Objects!On(p)
    BY <2>5, OnSlabIs
  <2>7. CASE d # c
    <3>1. ClassOf(o.layout) = d /\ o.layout \in Layouts /\ d # NoClass
      BY <1>2, <2>1, <2>5, ObjectIs
    <3>2. Ext(o.layout) = Sizes[d]
      BY <3>1, ExtentIs
    <3>3. Sizes[d] # Sizes[c]
      <4> HIDE DEF d
      <4>1. c < d \/ d < c
        BY <1>1, <2>1, <2>7, ClassIs
      <4>2. /\ \A x, y \in Classes : x < y => Sizes[x] < Sizes[y]
            /\ Sizes[c] \in Nat /\ Sizes[d] \in Nat
        BY <1>1, <2>1, ClassIs, SlabAssumption DEF Classes
      <4> QED BY <1>1, <2>1, <4>1, <4>2
    <3> QED BY <1>1, <2>6, <3>2, <3>3
  <2>8. CASE d = c
    <3>1. IsFull(heap, p)
      BY <1>3, <2>8 DEF PartialOf
    <3>2. Cardinality(Objects!On(p)) = PageSize \div Sizes[d]
      BY <3>1, FullSlab
    <3> QED BY <1>1, <2>6, <2>8, <3>2
  <2> QED BY <2>7, <2>8
<1>5. ASSUME NEW p \in Pages, NEW b \in held, p \in Frames!Span(b), ~IsSlab(heap, b.pfn)
      PROVE  /\ Objects!On(p) # {}
             /\ \E o \in Objects!On(p) : Ext(o.layout) # Ext(l)
  <2>1. PICK o \in live : IsWhole(heap, o, b)
    BY <1>2, <1>5 DEF BlocksUsed
  <2> DEFINE n == 2 ^ b.order
             f == o.addr
             e == Ext(o.layout)
             a == p * PageSize
             q == b.pfn
  <2>2. /\ q \in Nat /\ n \in Nat /\ p \in q .. q + n - 1 /\ p \in Nat
        /\ f = q * PageSize /\ e = PageSize * n /\ e >= PageSize
    <3>1. /\ q \in Nat /\ n \in Nat /\ Frames!Span(b) = q .. q + n - 1
      BY <1>2, BlockIs
    <3>2. o.layout \in Layouts
      BY <1>2, ObjectIs
    <3>3. e = PageSize * n /\ e >= PageSize /\ f = q * PageSize
      BY <2>1, <3>2, ExtentIs DEF IsWhole
    <3> QED BY <1>5, <3>1, <3>3, PageIs
  <2>3. PageOf(a) = p
    BY <2>2, PageStartTells DEF PageOf
  <2>4. Objects!Footprint(o) = f .. f + e - 1
    BY FootprintIs
  <2> HIDE DEF n, f, e, a, q
  <2>5. a \in f .. f + e - 1
    <3>1. p >= q /\ q + n - 1 >= p
      BY <2>2
    <3>2. PageSize * (p - q) >= 0 /\ PageSize * (p - q) = a - f /\ a \in Int /\ f \in Int
      BY <2>2, <3>1, PageIs DEF a
    <3>3. PageSize * (q + n - 1 - p) >= 0 /\ PageSize * (q + n - 1 - p) = f + e - PageSize - a
      BY <2>2, <3>1, PageIs DEF a
    <3> QED BY <2>2, <3>2, <3>3, PageIs
  <2>6. o \in Objects!On(p)
    BY <2>3, <2>4, <2>5, FootprintIs
  <2>7. Ext(o.layout) # Ext(l)
    BY <1>1, <2>2, PageIs DEF e
  <2> QED BY <2>6, <2>7
<1>6. ASSUME NEW p \in Pages
      PROVE  /\ Objects!On(p) # {}
             /\ \/ \E o \in Objects!On(p) : Ext(o.layout) # Ext(l)
                \/ Cardinality(Objects!On(p)) = PageSize \div Ext(l)
  <2>1. PICK b \in held : p \in Frames!Span(b)
    BY <1>2, NoRoom
  <2>2. CASE IsSlab(heap, b.pfn)
    <3>1. b = PageBlock(b.pfn) /\ b.pfn \in SlabsOf(heap, held) /\ b.pfn \in Pages
      BY <1>2, <2>2, SlabBlock
    <3>2. p = b.pfn
      BY <2>1, <3>1, PageBlockIs
    <3> QED BY <1>4, <3>1, <3>2
  <2>3. CASE ~IsSlab(heap, b.pfn)
    BY <1>5, <2>1, <2>3
  <2> QED BY <2>2, <2>3
<1> QED BY <1>6, FootprintIs

LEMMA RefuseIs ==
  ASSUME NEW l \in Layouts, refused' = {l}, live' = live, Ext(l) < PageSize => Objects!Exhausted(l)
  PROVE  Objects!Next
<1>1. (IF ClassOf(l) = NoClass THEN PageSize * 2 ^ OrderOf(l) ELSE Sizes[ClassOf(l)]) < PageSize
         => Objects!Exhausted(l)
  BY Zenon DEF Ext
<1>2. Objects!Refuse(l)
  BY <1>1, Zenon DEF Objects!Refuse
<1> QED BY <1>2, Zenon DEF Objects!Next

LEMMA ReleaseIs ==
  ASSUME NEW o \in live, live' = live \ {o}, refused' = {}
  PROVE  Objects!Next
<1>1. Objects!Release(o)
  BY DEF Objects!Release
<1> QED BY <1>1, Zenon DEF Objects!Next

\* The heap of mm/heap.rs, with its slabs, lists and blocks, does nothing an
\* allocator of objects may not do: what alloc returns is aligned, as large as
\* asked and apart from every object in use, and a small request is refused
\* only when no page has room for it.
THEOREM HeapImplementsObjectAllocator == Spec => ImplementsObjectAllocator
<1>1. Init => Objects!Init
  BY DEF Init, Objects!Init
<1>2. IInv /\ IInv' /\ [Next]_vars => [Objects!Next]_(Objects!vars)
  <2> SUFFICES ASSUME IInv, IInv', [Next]_vars
               PROVE  Objects!Next \/ UNCHANGED Objects!vars
    OBVIOUS
  <2>1. ASSUME NEW l \in Layouts, AllocPartial(l) PROVE Objects!Next
    BY <2>1, AllocPartialGrants
  <2>2. ASSUME NEW l \in Layouts, AllocFresh(l) PROVE Objects!Next
    BY <2>2, AllocFreshGrants
  <2>3. ASSUME NEW l \in Layouts, AllocFreshFails(l) PROVE Objects!Next
    <3>1. /\ ClassOf(l) # NoClass /\ heap.heads[ClassOf(l)] = None /\ Frames!Rooms(0) = {}
          /\ refused' = {l} /\ live' = live
      BY <2>3 DEF AllocFreshFails
    <3>2. Objects!Exhausted(l)
      BY <3>1, AllocFreshRefuses
    <3> QED BY <3>1, <3>2, RefuseIs
  <2>4. ASSUME NEW l \in Layouts, AllocPages(l) PROVE Objects!Next
    BY <2>4, AllocPagesGrants
  <2>5. ASSUME NEW l \in Layouts, AllocPagesFails(l) PROVE Objects!Next
    <3>1. ClassOf(l) = NoClass /\ refused' = {l} /\ live' = live
      BY <2>5 DEF AllocPagesFails
    <3>2. Ext(l) \in Nat /\ ~(Ext(l) < PageSize)
      BY <3>1, ExtentIs, PageIs
    <3> QED BY <3>1, <3>2, RefuseIs
  <2>6. ASSUME NEW o \in live, FreeObject(o) PROVE Objects!Next
    BY <2>6, ReleaseIs DEF FreeObject
  <2>7. ASSUME NEW o \in live, FreeLastObject(o) PROVE Objects!Next
    BY <2>7, ReleaseIs DEF FreeLastObject
  <2>8. ASSUME NEW o \in live, FreePages(o) PROVE Objects!Next
    BY <2>8, ReleaseIs DEF FreePages
  <2>9. CASE UNCHANGED vars
    BY <2>9 DEF vars, Objects!vars
  <2> QED BY <2>1, <2>2, <2>3, <2>4, <2>5, <2>6, <2>7, <2>8, <2>9 DEF Next
<1> QED BY <1>1, <1>2, Invariant, PTL DEF Spec, ImplementsObjectAllocator, Objects!Spec
===============================================================================
