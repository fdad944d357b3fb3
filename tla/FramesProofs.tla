----------------------------- MODULE FramesProofs -----------------------------
(***************************************************************************)
(* What push and unlink do to the lists of FreeLists: one that links its   *)
(* blocks one after another, in both directions, still does afterwards.    *)
(* And that the buddy allocator of Frames keeps the arena cut into aligned *)
(* blocks, its entries true, its buddies together and its lists linked,    *)
(* and that it implements a PageAllocator: for every arena, every number   *)
(* of orders and every set of reserved pages.                              *)
(***************************************************************************)
EXTENDS Frames, Lemmas

-------------------------------------------------------------------------------
(* A list and the places of its blocks.                                     *)

\* s names the n blocks of the list of order k from first to last, and they are
\* the pages ps.
Links(l, k, ps, n, s) ==
    /\ \A i \in 1 .. n : s[i] \in ps
    /\ \A p \in ps : \E i \in 1 .. n : s[i] = p
    /\ \A i, j \in 1 .. n : s[i] = s[j] => i = j
    /\ l.heads[k] = IF n = 0 THEN NoPage ELSE s[1]
    /\ \A i \in 1 .. n : /\ l.next[s[i]] = IF i < n THEN s[i + 1] ELSE NoPage
                         /\ l.prev[s[i]] = IF i > 1 THEN s[i - 1] ELSE NoPage

Chained(l, k, ps) == \E n \in Nat : \E s \in [1 .. n -> Pages] : Links(l, k, ps, n, s)

LEMMA PageIs ==
  \A p \in Pages : p \in Nat /\ p # NoPage /\ p # Junk
  BY ArenaAssumption DEF Pages, NoPage, Junk

LEMMA OrderIs ==
  \A k \in Orders : k \in Nat /\ 2 ^ k \in Nat
<1> SUFFICES ASSUME NEW k \in Orders PROVE k \in Nat /\ 2 ^ k \in Nat
  OBVIOUS
<1>1. k \in Nat
  BY ArenaAssumption DEF Orders
<1> QED BY <1>1, PowerIsCardinality

LEMMA UpdateIs ==
  ASSUME NEW l \in FreeListsType, NEW heads \in [Orders -> Pages \cup {NoPage}],
         NEW next \in [Pages -> Words], NEW prev \in [Pages -> Words], NEW pages \in Int
  PROVE  [l EXCEPT !.heads = heads, !.next = next, !.prev = prev, !.pages = pages] \in FreeListsType
  BY DEF FreeListsType

LEMMA PushIs ==
  ASSUME NEW l \in FreeListsType, NEW p \in Pages, NEW k \in Orders
  PROVE  LET new == Push(l, p, k)
             old == l.heads[k]
         IN  /\ new \in FreeListsType
             /\ new.heads[k] = p
             /\ \A j \in Orders : j # k => new.heads[j] = l.heads[j]
             /\ new.next[p] = old
             /\ \A q \in Pages : q # p => new.next[q] = l.next[q]
             /\ new.prev[p] = NoPage
             /\ \A q \in Pages : q # p => new.prev[q] = IF q = old THEN p ELSE l.prev[q]
             /\ new.pages = l.pages + 2 ^ k
<1> DEFINE old == l.heads[k]
           heads == [l.heads EXCEPT ![k] = p]
           next == [l.next EXCEPT ![p] = old]
           prev == [q \in Pages |-> IF q = p THEN NoPage ELSE IF q = old THEN p ELSE l.prev[q]]
           pages == l.pages + 2 ^ k
           new == Push(l, p, k)
<1>1. /\ l.heads \in [Orders -> Pages \cup {NoPage}] /\ old \in Pages \cup {NoPage}
      /\ l.next \in [Pages -> Words] /\ l.prev \in [Pages -> Words] /\ l.pages \in Int
      /\ Pages \subseteq Words /\ NoPage \in Words
  BY DEF FreeListsType, Words
<1>2. pages \in Int
  BY <1>1, OrderIs
<1>3. /\ new.heads = heads /\ new.next = next /\ new.prev = prev /\ new.pages = pages
      /\ new = [l EXCEPT !.heads = heads, !.next = next, !.prev = prev, !.pages = pages]
  <2>1. new.heads = heads
    BY DEF Push, FreeListsType
  <2>2. new.next = next
    BY DEF Push, FreeListsType
  <2>3. new.prev = prev
    BY DEF Push, FreeListsType
  <2>4. new.pages = pages
    BY DEF Push, FreeListsType
  <2>5. new = [l EXCEPT !.heads = heads, !.next = next, !.prev = prev, !.pages = pages]
    BY Zenon DEF Push
  <2> QED BY <2>1, <2>2, <2>3, <2>4, <2>5
<1>4. heads \in [Orders -> Pages \cup {NoPage}] /\ next \in [Pages -> Words] /\ prev \in [Pages -> Words]
  BY <1>1
<1>5. new \in FreeListsType
  <2> HIDE DEF heads, next, prev, pages, new
  <2>1. [l EXCEPT !.heads = heads, !.next = next, !.prev = prev, !.pages = pages] \in FreeListsType
    BY <1>2, <1>4, UpdateIs, Zenon
  <2> QED BY <1>3, <2>1, Zenon
<1> HIDE DEF pages
<1> QED BY <1>1, <1>3, <1>5 DEF pages

LEMMA UnlinkIs ==
  ASSUME NEW l \in FreeListsType, NEW p \in Pages, NEW k \in Orders,
         NEW before \in Pages \cup {NoPage}, NEW after \in Pages \cup {NoPage},
         before = l.prev[p], after = l.next[p]
  PROVE  LET new == Unlink(l, p, k)
         IN  /\ new \in FreeListsType
             /\ new.heads[k] = IF before = NoPage THEN after ELSE l.heads[k]
             /\ \A j \in Orders : j # k => new.heads[j] = l.heads[j]
             /\ \A q \in Pages : new.next[q] = IF q = before THEN after ELSE l.next[q]
             /\ \A q \in Pages : new.prev[q] = IF q = after THEN before ELSE l.prev[q]
             /\ new.pages = l.pages - 2 ^ k
<1> DEFINE heads == IF before = NoPage THEN [l.heads EXCEPT ![k] = after] ELSE l.heads
           next == IF before # NoPage THEN [l.next EXCEPT ![before] = after] ELSE l.next
           prev == IF after # NoPage THEN [l.prev EXCEPT ![after] = before] ELSE l.prev
           pages == l.pages - 2 ^ k
           new == Unlink(l, p, k)
<1>1. /\ l.heads \in [Orders -> Pages \cup {NoPage}]
      /\ l.next \in [Pages -> Words] /\ l.prev \in [Pages -> Words] /\ l.pages \in Int
      /\ Pages \subseteq Words /\ NoPage \in Words /\ NoPage \notin Pages
  BY PageIs DEF FreeListsType, Words
<1>2. pages \in Int
  BY <1>1, OrderIs
<1>3. /\ new.heads = heads /\ new.next = next /\ new.prev = prev /\ new.pages = pages
      /\ new = [l EXCEPT !.heads = heads, !.next = next, !.prev = prev, !.pages = pages]
  <2>1. new.heads = heads
    BY DEF Unlink, FreeListsType
  <2>2. new.next = next
    BY DEF Unlink, FreeListsType
  <2>3. new.prev = prev
    BY DEF Unlink, FreeListsType
  <2>4. new.pages = pages
    BY DEF Unlink, FreeListsType
  <2>5. new = [l EXCEPT !.heads = heads, !.next = next, !.prev = prev, !.pages = pages]
    BY Zenon DEF Unlink
  <2> QED BY <2>1, <2>2, <2>3, <2>4, <2>5
<1>4. heads \in [Orders -> Pages \cup {NoPage}] /\ next \in [Pages -> Words] /\ prev \in [Pages -> Words]
  BY <1>1
<1>5. new \in FreeListsType
  <2> HIDE DEF heads, next, prev, pages, new
  <2>1. [l EXCEPT !.heads = heads, !.next = next, !.prev = prev, !.pages = pages] \in FreeListsType
    BY <1>2, <1>4, UpdateIs, Zenon
  <2> QED BY <1>3, <2>1, Zenon
<1>6. /\ heads[k] = IF before = NoPage THEN after ELSE l.heads[k]
      /\ \A j \in Orders : j # k => heads[j] = l.heads[j]
      /\ \A q \in Pages : next[q] = IF q = before THEN after ELSE l.next[q]
      /\ \A q \in Pages : prev[q] = IF q = after THEN before ELSE l.prev[q]
  BY <1>1
<1> HIDE DEF heads, next, prev, pages
<1> QED BY <1>3, <1>5, <1>6 DEF pages

LEMMA ScribbleIs ==
  ASSUME NEW l \in FreeListsType, NEW ps
  PROVE  LET new == Scribble(l, ps)
         IN  /\ new \in FreeListsType
             /\ new.heads = l.heads
             /\ \A q \in Pages \ ps : new.next[q] = l.next[q] /\ new.prev[q] = l.prev[q]
             /\ new.pages = l.pages
  BY DEF Scribble, FreeListsType, Words

LEMMA EmptyIs ==
  /\ EmptyLists \in FreeListsType /\ EmptyLists.pages = 0
  /\ \A k \in Orders : Chained(EmptyLists, k, {})
<1>1. EmptyLists \in FreeListsType /\ EmptyLists.pages = 0
  BY DEF EmptyLists, FreeListsType, Words
<1>2. ASSUME NEW k \in Orders
      PROVE  Chained(EmptyLists, k, {})
  <2> DEFINE s == [i \in 1 .. 0 |-> NoPage]
  <2>1. s \in [1 .. 0 -> Pages] /\ 0 \in Nat
    OBVIOUS
  <2>2. Links(EmptyLists, k, {}, 0, s)
    BY DEF Links, EmptyLists
  <2> QED BY <2>1, <2>2 DEF Chained
<1> QED BY <1>1, <1>2

\* A list is as it was while its head and the words of its blocks are.
LEMMA ChainedKept ==
  ASSUME NEW l, NEW new, NEW k, NEW ps, Chained(l, k, ps),
         new.heads[k] = l.heads[k],
         \A q \in ps : new.next[q] = l.next[q] /\ new.prev[q] = l.prev[q]
  PROVE  Chained(new, k, ps)
<1>1. PICK n \in Nat : \E s \in [1 .. n -> Pages] : Links(l, k, ps, n, s)
  BY DEF Chained
<1>2. PICK s \in [1 .. n -> Pages] : Links(l, k, ps, n, s)
  BY <1>1
<1>3. Links(new, k, ps, n, s)
  BY <1>2 DEF Links
<1> QED BY <1>3 DEF Chained

\* The head of a list is one of its blocks, the first, and NoPage only when
\* there is none; the words of a block are no junk.
LEMMA ChainedIs ==
  ASSUME NEW l, NEW k, NEW ps \in SUBSET Pages, Chained(l, k, ps)
  PROVE  /\ l.heads[k] = NoPage <=> ps = {}
         /\ ps # {} => l.heads[k] \in ps /\ l.prev[l.heads[k]] = NoPage
         /\ \A p \in ps : /\ l.next[p] \in ps \cup {NoPage} /\ l.prev[p] \in ps \cup {NoPage}
                          /\ l.next[p] # NoPage => l.prev[l.next[p]] = p
                          /\ l.prev[p] = NoPage <=> l.heads[k] = p
<1>1. PICK n \in Nat : \E s \in [1 .. n -> Pages] : Links(l, k, ps, n, s)
  BY DEF Chained
<1>2. PICK s \in [1 .. n -> Pages] : Links(l, k, ps, n, s)
  BY <1>1
<1>3. \A p \in ps : p # NoPage
  BY PageIs
<1>4. CASE n = 0
  BY <1>2, <1>4 DEF Links
<1>5. CASE n # 0
  <2>1. 1 \in 1 .. n /\ l.heads[k] = s[1] /\ s[1] \in ps /\ l.prev[s[1]] = NoPage
    BY <1>2, <1>5 DEF Links
  <2>2. ASSUME NEW p \in ps
        PROVE  /\ l.next[p] \in ps \cup {NoPage} /\ l.prev[p] \in ps \cup {NoPage}
               /\ l.next[p] # NoPage => l.prev[l.next[p]] = p
               /\ l.prev[p] = NoPage <=> l.heads[k] = p
    <3>1. PICK m \in 1 .. n : s[m] = p
      BY <1>2 DEF Links
    <3>2. /\ m < n => m + 1 \in 1 .. n /\ m + 1 > 1 /\ m + 1 - 1 = m
          /\ m > 1 => m - 1 \in 1 .. n
          /\ ~(m > 1) => m = 1
      OBVIOUS
    <3>3. /\ l.next[p] = IF m < n THEN s[m + 1] ELSE NoPage
          /\ l.prev[p] = IF m > 1 THEN s[m - 1] ELSE NoPage
      BY <1>2, <3>1 DEF Links
    <3>4. m < n => s[m + 1] \in ps /\ l.prev[s[m + 1]] = s[m]
      <4>1. ASSUME NEW i \in 1 .. n, i > 1
            PROVE  s[i] \in ps /\ l.prev[s[i]] = s[i - 1]
        BY <1>2, <4>1 DEF Links
      <4> QED BY <3>2, <4>1
    <3>5. m > 1 => s[m - 1] \in ps /\ s[m] # s[1]
      BY <1>2, <3>2, <2>1 DEF Links
    <3> QED BY <3>1, <3>2, <3>3, <3>4, <3>5, <2>1, <1>3
  <2> QED BY <2>1, <2>2, <1>3
<1> QED BY <1>4, <1>5

\* push adds a block before the others.
LEMMA PushOwn ==
  ASSUME NEW l \in FreeListsType, NEW k \in Orders, NEW ps \in SUBSET Pages,
         Chained(l, k, ps), NEW p \in Pages \ ps
  PROVE  Chained(Push(l, p, k), k, ps \cup {p})
<1> DEFINE new == Push(l, p, k)
           old == l.heads[k]
<1>1. PICK n \in Nat : \E s \in [1 .. n -> Pages] : Links(l, k, ps, n, s)
  BY DEF Chained
<1>2. PICK s \in [1 .. n -> Pages] : Links(l, k, ps, n, s)
  BY <1>1
<1> DEFINE t == [i \in 1 .. n + 1 |-> IF i = 1 THEN p ELSE s[i - 1]]
<1>3. /\ new.heads[k] = p /\ new.next[p] = old /\ new.prev[p] = NoPage
      /\ \A q \in Pages : q # p => /\ new.next[q] = l.next[q]
                                   /\ new.prev[q] = IF q = old THEN p ELSE l.prev[q]
  BY PushIs
<1> HIDE DEF new
<1>4. \A i \in 1 .. n + 1 : i # 1 => i - 1 \in 1 .. n
  OBVIOUS
<1>5. t \in [1 .. n + 1 -> Pages]
  BY <1>4
<1>6. t[1] = p /\ \A i \in 1 .. n + 1 : i # 1 => t[i] = s[i - 1] /\ t[i] \in ps /\ t[i] # p
  BY <1>2, <1>4 DEF Links
<1> HIDE DEF t
<1>7. \A q \in ps \cup {p} : \E i \in 1 .. n + 1 : t[i] = q
  <2>1. ASSUME NEW q \in ps
        PROVE  \E i \in 1 .. n + 1 : t[i] = q
    <3>1. PICK i \in 1 .. n : s[i] = q
      BY <1>2 DEF Links
    <3>2. i + 1 \in 1 .. n + 1 /\ i + 1 # 1 /\ i + 1 - 1 = i
      OBVIOUS
    <3>3. t[i + 1] = q
      BY <3>1, <3>2, <1>6
    <3> QED BY <3>2, <3>3
  <2>2. 1 \in 1 .. n + 1
    OBVIOUS
  <2> QED BY <2>1, <2>2, <1>6
<1>8. \A i, j \in 1 .. n + 1 : t[i] = t[j] => i = j
  <2> SUFFICES ASSUME NEW i \in 1 .. n + 1, NEW j \in 1 .. n + 1, t[i] = t[j]
               PROVE  i = j
    OBVIOUS
  <2>1. CASE i = 1 \/ j = 1
    BY <2>1, <1>6
  <2>2. CASE i # 1 /\ j # 1
    <3>1. s[i - 1] = s[j - 1] /\ i - 1 \in 1 .. n /\ j - 1 \in 1 .. n
      BY <2>2, <1>4, <1>6
    <3>2. i - 1 = j - 1
      BY <3>1, <1>2 DEF Links
    <3> QED BY <3>2
  <2> QED BY <2>1, <2>2
<1>9. ASSUME NEW i \in 1 .. n + 1
      PROVE  /\ new.next[t[i]] = IF i < n + 1 THEN t[i + 1] ELSE NoPage
             /\ new.prev[t[i]] = IF i > 1 THEN t[i - 1] ELSE NoPage
  <2>1. CASE i = 1
    <3>1. old = IF n = 0 THEN NoPage ELSE s[1]
      BY <1>2 DEF Links
    <3>2. CASE n = 0
      BY <2>1, <3>1, <3>2, <1>3, <1>6
    <3>3. CASE n # 0
      <4>1. 2 \in 1 .. n + 1 /\ t[2] = s[1] /\ i < n + 1 /\ i + 1 = 2
        BY <2>1, <3>3, <1>6
      <4> QED BY <2>1, <3>1, <3>3, <4>1, <1>3, <1>6
    <3> QED BY <3>2, <3>3
  <2>2. CASE i # 1
    <3> DEFINE m == i - 1
    <3>1. /\ m \in 1 .. n /\ t[i] = s[m] /\ t[i] # p /\ t[i] \in Pages
          /\ i < n + 1 <=> m < n
          /\ m < n => i + 1 \in 1 .. n + 1 /\ i + 1 # 1 /\ i + 1 - 1 = m + 1
      BY <2>2, <1>4, <1>6
    <3>2. /\ l.next[s[m]] = IF m < n THEN s[m + 1] ELSE NoPage
          /\ l.prev[s[m]] = IF m > 1 THEN s[m - 1] ELSE NoPage
          /\ n # 0 => old = s[1]
      BY <3>1, <1>2 DEF Links
    <3>3. new.next[t[i]] = IF i < n + 1 THEN t[i + 1] ELSE NoPage
      <4>1. m < n => t[i + 1] = s[m + 1]
        BY <3>1, <1>6
      <4> QED BY <4>1, <3>1, <3>2, <1>3
    <3>4. new.prev[t[i]] = t[i - 1]
      <4>1. CASE m = 1
        <5>1. t[i] = old
          BY <4>1, <3>1, <3>2
        <5> QED BY <4>1, <5>1, <3>1, <1>3, <1>6
      <4>2. CASE m # 1
        <5>1. m > 1 /\ m - 1 \in 1 .. n /\ 1 \in 1 .. n /\ i - 1 \in 1 .. n + 1 /\ i - 1 # 1
          BY <4>2, <3>1
        <5>2. s[m] # s[1]
          BY <4>2, <3>1, <5>1, <1>2 DEF Links
        <5>3. new.prev[t[i]] = s[m - 1]
          BY <5>1, <5>2, <3>1, <3>2, <1>3
        <5>4. t[i - 1] = s[m - 1]
          BY <5>1, <1>6
        <5> QED BY <5>3, <5>4
      <4> QED BY <4>1, <4>2
    <3>5. i > 1
      BY <2>2
    <3> QED BY <3>3, <3>4, <3>5
  <2> QED BY <2>1, <2>2
<1>10. /\ \A i \in 1 .. n + 1 : t[i] \in ps \cup {p}
       /\ n + 1 # 0 /\ n + 1 \in Nat /\ new.heads[k] = t[1]
  BY <1>3, <1>6
<1>11. Links(new, k, ps \cup {p}, n + 1, t)
  BY <1>7, <1>8, <1>9, <1>10 DEF Links
<1> QED BY <1>5, <1>10, <1>11 DEF Chained, new

\* The other lists do not notice.
LEMMA PushOther ==
  ASSUME NEW l \in FreeListsType, NEW k \in Orders, NEW j \in Orders, j # k,
         NEW ps \in SUBSET Pages, Chained(l, k, ps),
         NEW qs \in SUBSET Pages, Chained(l, j, qs), ps \cap qs = {},
         NEW p \in Pages \ qs
  PROVE  Chained(Push(l, p, k), j, qs)
<1>1. l.heads[k] \notin qs
  BY ChainedIs, PageIs
<1>2. /\ Push(l, p, k).heads[j] = l.heads[j]
      /\ \A q \in qs : /\ Push(l, p, k).next[q] = l.next[q]
                       /\ Push(l, p, k).prev[q] = l.prev[q]
  BY <1>1, PushIs
<1> QED BY <1>2, ChainedKept

\* unlink takes one block out and joins its neighbours.
LEMMA UnlinkOwn ==
  ASSUME NEW l \in FreeListsType, NEW k \in Orders, NEW ps \in SUBSET Pages,
         Chained(l, k, ps), NEW p \in ps
  PROVE  Chained(Unlink(l, p, k), k, ps \ {p})
<1> DEFINE new == Unlink(l, p, k)
           before == l.prev[p]
           after == l.next[p]
<1>1. PICK n \in Nat : \E s \in [1 .. n -> Pages] : Links(l, k, ps, n, s)
  BY DEF Chained
<1>2. PICK s \in [1 .. n -> Pages] : Links(l, k, ps, n, s)
  BY <1>1
<1>3. PICK m \in 1 .. n : s[m] = p
  BY <1>2 DEF Links
<1>4. /\ after = IF m < n THEN s[m + 1] ELSE NoPage
      /\ before = IF m > 1 THEN s[m - 1] ELSE NoPage
      /\ l.heads[k] = s[1]
  <2>1. n # 0 /\ m \in 1 .. n
    OBVIOUS
  <2>2. l.heads[k] = s[1]
    BY <1>2, <2>1 DEF Links
  <2>3. /\ l.next[s[m]] = IF m < n THEN s[m + 1] ELSE NoPage
        /\ l.prev[s[m]] = IF m > 1 THEN s[m - 1] ELSE NoPage
    BY <1>2, <2>1 DEF Links
  <2> QED BY <1>3, <2>2, <2>3
<1>5. /\ new.heads[k] = IF before = NoPage THEN after ELSE l.heads[k]
      /\ \A q \in Pages : new.next[q] = IF q = before THEN after ELSE l.next[q]
      /\ \A q \in Pages : new.prev[q] = IF q = after THEN before ELSE l.prev[q]
  <2>1. \A q \in ps : l.next[q] \in ps \cup {NoPage} /\ l.prev[q] \in ps \cup {NoPage}
    BY ChainedIs
  <2>2. before \in Pages \cup {NoPage} /\ after \in Pages \cup {NoPage}
    BY <2>1
  <2> QED BY <2>2, UnlinkIs
<1> HIDE DEF new, before, after
<1>6. /\ n - 1 \in Nat /\ m \in Nat /\ m >= 1 /\ m <= n
      /\ \A i \in 1 .. n - 1 : i \in 1 .. n /\ i + 1 \in 1 .. n
  OBVIOUS
<1>7. \A i, j \in 1 .. n : s[i] = s[j] => i = j
  BY <1>2 DEF Links
<1>8. \A i \in 1 .. n : s[i] \in ps /\ s[i] # NoPage /\ s[i] \in Pages
  BY <1>2, PageIs DEF Links
<1>9. \A i \in 1 .. n : /\ l.next[s[i]] = IF i < n THEN s[i + 1] ELSE NoPage
                        /\ l.prev[s[i]] = IF i > 1 THEN s[i - 1] ELSE NoPage
  BY <1>2 DEF Links
<1> DEFINE t == [i \in 1 .. n - 1 |-> IF i < m THEN s[i] ELSE s[i + 1]]
<1>10. t \in [1 .. n - 1 -> Pages]
  BY <1>6, <1>8
<1>11. \A i \in 1 .. n - 1 : t[i] = IF i < m THEN s[i] ELSE s[i + 1]
  OBVIOUS
<1> HIDE DEF t
<1>12. \A i \in 1 .. n - 1 : t[i] \in ps \ {p}
  <2> TAKE i \in 1 .. n - 1
  <2>1. CASE i < m
    <3>1. t[i] = s[i] /\ i # m /\ i \in 1 .. n
      BY <2>1, <1>6, <1>11
    <3> QED BY <3>1, <1>3, <1>7, <1>8
  <2>2. CASE ~(i < m)
    <3>1. t[i] = s[i + 1] /\ i + 1 # m /\ i + 1 \in 1 .. n
      BY <2>2, <1>6, <1>11
    <3> QED BY <3>1, <1>3, <1>7, <1>8
  <2> QED BY <2>1, <2>2
<1>13. \A q \in ps \ {p} : \E i \in 1 .. n - 1 : t[i] = q
  <2> SUFFICES ASSUME NEW q \in ps \ {p}
               PROVE  \E i \in 1 .. n - 1 : t[i] = q
    OBVIOUS
  <2>1. PICK i \in 1 .. n : s[i] = q
    BY <1>2 DEF Links
  <2>2. i # m
    BY <2>1, <1>3
  <2>3. CASE i < m
    <3>1. i \in 1 .. n - 1 /\ t[i] = q
      BY <2>1, <2>3, <1>6, <1>11
    <3> QED BY <3>1
  <2>4. CASE i > m
    <3>1. i - 1 \in 1 .. n - 1 /\ ~(i - 1 < m) /\ i - 1 + 1 = i
      BY <2>4, <1>6
    <3>2. t[i - 1] = q
      BY <2>1, <3>1, <1>11
    <3> QED BY <3>1, <3>2
  <2> QED BY <2>2, <2>3, <2>4
<1>14. \A i, j \in 1 .. n - 1 : t[i] = t[j] => i = j
  <2> SUFFICES ASSUME NEW i \in 1 .. n - 1, NEW j \in 1 .. n - 1, t[i] = t[j]
               PROVE  i = j
    OBVIOUS
  <2> DEFINE up(x) == IF x < m THEN x ELSE x + 1
  <2>1. t[i] = s[up(i)] /\ t[j] = s[up(j)] /\ up(i) \in 1 .. n /\ up(j) \in 1 .. n
    BY <1>6, <1>11
  <2>2. up(i) = up(j)
    <3> HIDE DEF up
    <3> QED BY <2>1, <1>7
  <2> QED BY <2>2
<1>15. ASSUME NEW i \in 1 .. n - 1
       PROVE  /\ new.next[t[i]] = IF i < n - 1 THEN t[i + 1] ELSE NoPage
              /\ new.prev[t[i]] = IF i > 1 THEN t[i - 1] ELSE NoPage
  <2>1. CASE i < m - 1
    <3>1. /\ t[i] = s[i] /\ i \in 1 .. n /\ i < n - 1 /\ i < n
          /\ i + 1 \in 1 .. n - 1 /\ t[i + 1] = s[i + 1]
          /\ i > 1 => i - 1 \in 1 .. n - 1 /\ t[i - 1] = s[i - 1]
      BY <2>1, <1>6, <1>11
    <3>2. s[i] # before
      <4>1. m > 1 /\ m - 1 \in 1 .. n /\ i # m - 1
        BY <2>1, <1>6
      <4> QED BY <4>1, <3>1, <1>4, <1>7
    <3>3. s[i] # after
      <4>1. m < n => m + 1 \in 1 .. n /\ i # m + 1
        BY <2>1, <1>6
      <4> QED BY <4>1, <3>1, <1>4, <1>7, <1>8
    <3> QED BY <3>1, <3>2, <3>3, <1>5, <1>8, <1>9, SMTT(20)
  <2>2. CASE i = m - 1
    <3>1. /\ t[i] = s[i] /\ i \in 1 .. n /\ s[i] = before
          /\ i < n - 1 <=> m < n
          /\ m < n => i + 1 = m /\ m \in 1 .. n - 1 /\ t[m] = s[m + 1]
          /\ i > 1 => i - 1 \in 1 .. n - 1 /\ t[i - 1] = s[i - 1]
      <4>1. /\ i \in 1 .. n /\ i < m /\ m > 1 /\ i + 1 = m
            /\ i < n - 1 <=> m < n
            /\ m < n => m \in 1 .. n - 1
            /\ i > 1 => i - 1 \in 1 .. n - 1 /\ i - 1 < m
        BY <2>2, <1>6
      <4>2. t[i] = s[i] /\ s[i] = before
        BY <2>2, <4>1, <1>4, <1>11
      <4>3. m < n => t[m] = s[m + 1]
        BY <4>1, <1>6, <1>11
      <4>4. i > 1 => t[i - 1] = s[i - 1]
        BY <4>1, <1>11
      <4> QED BY <4>1, <4>2, <4>3, <4>4
    <3>2. s[i] # after
      <4>1. m < n => m + 1 \in 1 .. n /\ i # m + 1
        BY <2>2, <1>6
      <4> QED BY <4>1, <3>1, <1>4, <1>7, <1>8
    <3> QED BY <3>1, <3>2, <1>4, <1>5, <1>8, <1>9
  <2>3. CASE i >= m
    <3>1. /\ t[i] = s[i + 1] /\ i + 1 \in 1 .. n
          /\ i < n - 1 <=> i + 1 < n
          /\ i < n - 1 => i + 1 \in 1 .. n - 1 /\ t[i + 1] = s[i + 1 + 1]
      BY <2>3, <1>6, <1>11
    <3>2. s[i + 1] # before
      <4>1. m > 1 => m - 1 \in 1 .. n /\ i + 1 # m - 1
        BY <2>3, <1>6
      <4> QED BY <4>1, <3>1, <1>4, <1>7, <1>8
    <3>3. new.next[t[i]] = IF i < n - 1 THEN t[i + 1] ELSE NoPage
      BY <3>1, <3>2, <1>5, <1>8, <1>9
    <3>4. CASE i = m
      <4>1. m < n /\ t[i] = after
        <5>1. m < n /\ i + 1 = m + 1
          BY <3>4
        <5> QED BY <5>1, <3>1, <1>4
      <4>2. i > 1 => i - 1 \in 1 .. n - 1 /\ t[i - 1] = s[m - 1]
        BY <3>4, <1>11
      <4>3. new.prev[t[i]] = before
        BY <4>1, <3>1, <1>5, <1>8
      <4>4. before = IF i > 1 THEN t[i - 1] ELSE NoPage
        BY <4>2, <3>4, <1>4
      <4> QED BY <4>3, <4>4, <3>3
    <3>5. CASE i > m
      <4>1. /\ i > 1 /\ i - 1 \in 1 .. n - 1 /\ t[i - 1] = s[i] /\ i + 1 > 1 /\ i + 1 - 1 = i
        BY <3>5, <1>6, <1>11
      <4>2. s[i + 1] # after
        <5>1. m < n /\ m + 1 \in 1 .. n /\ i + 1 # m + 1
          BY <3>5, <1>6
        <5> QED BY <5>1, <3>1, <1>4, <1>7
      <4>3. l.prev[s[i + 1]] = s[i]
        BY <4>1, <3>1, <1>9
      <4>4. new.prev[t[i]] = t[i - 1]
        BY <4>1, <4>2, <4>3, <3>1, <1>5, <1>8
      <4> QED BY <4>1, <4>4, <3>3
    <3> QED BY <2>3, <3>4, <3>5
  <2>4. i < m - 1 \/ i = m - 1 \/ i >= m
    BY <1>6
  <2> QED BY <2>1, <2>2, <2>3, <2>4
<1>16. new.heads[k] = IF n - 1 = 0 THEN NoPage ELSE t[1]
  <2>1. CASE m = 1
    <3>1. before = NoPage /\ (n - 1 # 0 => 1 \in 1 .. n - 1 /\ t[1] = s[m + 1] /\ m < n)
      BY <2>1, <1>4, <1>6, <1>11
    <3>2. n - 1 = 0 => ~(m < n)
      BY <2>1
    <3> QED BY <3>1, <3>2, <1>4, <1>5
  <2>2. CASE m > 1
    <3>1. n - 1 # 0 /\ 1 \in 1 .. n - 1 /\ t[1] = s[1] /\ m - 1 \in 1 .. n
      BY <2>2, <1>6, <1>11
    <3>2. before # NoPage
      BY <2>2, <3>1, <1>4, <1>8
    <3> QED BY <3>1, <3>2, <1>4, <1>5
  <2> QED BY <2>1, <2>2, <1>6
<1>17. Links(new, k, ps \ {p}, n - 1, t)
  BY <1>12, <1>13, <1>14, <1>15, <1>16 DEF Links
<1> QED BY <1>6, <1>10, <1>17 DEF Chained, new

LEMMA UnlinkOther ==
  ASSUME NEW l \in FreeListsType, NEW k \in Orders, NEW j \in Orders, j # k,
         NEW ps \in SUBSET Pages, Chained(l, k, ps), NEW p \in ps,
         NEW qs \in SUBSET Pages, Chained(l, j, qs), ps \cap qs = {}
  PROVE  Chained(Unlink(l, p, k), j, qs)
<1> DEFINE before == l.prev[p]
           after == l.next[p]
<1>1. /\ before \in ps \cup {NoPage} /\ after \in ps \cup {NoPage}
      /\ before \notin qs /\ after \notin qs
  <2>1. \A q \in ps : l.next[q] \in ps \cup {NoPage} /\ l.prev[q] \in ps \cup {NoPage}
    BY ChainedIs
  <2> QED BY <2>1, PageIs
<1>2. /\ Unlink(l, p, k).heads[j] = l.heads[j]
      /\ \A q \in qs : /\ Unlink(l, p, k).next[q] = l.next[q]
                       /\ Unlink(l, p, k).prev[q] = l.prev[q]
  <2>1. before \in Pages \cup {NoPage} /\ after \in Pages \cup {NoPage}
    BY <1>1
  <2> QED BY <1>1, <2>1, UnlinkIs
<1> QED BY <1>2, ChainedKept

\* What an owner writes leaves the lists alone when it owns no page of theirs.
LEMMA ScribbleOther ==
  ASSUME NEW l \in FreeListsType, NEW k \in Orders, NEW ps \in SUBSET Pages,
         Chained(l, k, ps), NEW qs, ps \cap qs = {}
  PROVE  Chained(Scribble(l, qs), k, ps)
<1>1. Scribble(l, qs).heads[k] = l.heads[k]
  BY ScribbleIs
<1>2. \A q \in ps : /\ Scribble(l, qs).next[q] = l.next[q]
                    /\ Scribble(l, qs).prev[q] = l.prev[q]
  BY ScribbleIs
<1> QED BY <1>1, <1>2, ChainedKept
-------------------------------------------------------------------------------
(* A walk from the head visits the blocks of a linked list and no others.   *)

LEMMA ChainedIsThreaded ==
  ASSUME NEW l, NEW k, NEW ps \in SUBSET Pages, Chained(l, k, ps)
  PROVE  Threaded(l.heads[k], l.next, NoPage, ps)
<1>1. PICK n \in Nat : \E s \in [1 .. n -> Pages] : Links(l, k, ps, n, s)
  BY DEF Chained
<1>2. PICK s \in [1 .. n -> Pages] : Links(l, k, ps, n, s)
  BY <1>1
<1>3. Threads(l.heads[k], l.next, NoPage, ps, n, s)
  BY <1>2 DEF Links, Threads
<1>4. s \in [1 .. n -> ps]
  BY <1>2 DEF Links
<1> QED BY <1>3, <1>4 DEF Threaded

LEMMA ChainedIsWellLinked ==
  ASSUME NEW l, NEW k, NEW ps \in SUBSET Pages, Chained(l, k, ps)
  PROVE  WellLinked(l, k, ps)
<1> DEFINE f == Walk(l, k)
<1>1. Threaded(l.heads[k], l.next, NoPage, ps) /\ ps \subseteq Pages /\ NoPage \notin Pages /\ Count \in Nat
  BY ChainedIsThreaded, PageIs, ArenaAssumption
<1>2. IsFiniteSet(Pages) /\ Cardinality(Pages) <= Count
  <2>1. Base \in Int /\ Base + Count - 1 \in Int /\ (Base + Count - 1) - Base + 1 = Count
        /\ Base <= Base + Count - 1
    BY ArenaAssumption
  <2> DEFINE top == Base + Count - 1
  <2> HIDE DEF top
  <2>2. IsFiniteSet(Base .. top) /\ Cardinality(Base .. top) = IF Base > top THEN 0 ELSE top - Base + 1
    BY <2>1, FS_Interval DEF top
  <2>3. ~(Base > top) /\ top - Base + 1 = Count
    BY <2>1, ArenaAssumption DEF top
  <2> QED BY <2>2, <2>3, ArenaAssumption DEF Pages, top
<1>3. PICK g : IsWalk(g, l.heads[k], l.next, NoPage, Pages, Count)
  BY <1>1, WalkExists
<1>4. IsWalk(f, l.heads[k], l.next, NoPage, Pages, Count)
  BY <1>3 DEF Walk, IsWalk
<1> HIDE DEF f
<1>5. {f[n] : n \in 0 .. Count} \ {NoPage} = ps
  BY <1>1, <1>2, <1>4, WalkVisits
<1>6. Chain(l, k) = ps
  BY <1>5 DEF Chain, f
<1>7. l.heads[k] # NoPage => l.prev[l.heads[k]] = NoPage
  BY ChainedIs
<1>8. \A p \in ps : l.next[p] # NoPage => l.prev[l.next[p]] = p
  BY ChainedIs
<1> QED BY <1>6, <1>7, <1>8 DEF WellLinked

-------------------------------------------------------------------------------
(* Powers of two.                                                           *)

LEMMA SizeIs ==
  ASSUME NEW k \in Nat
  PROVE  Size(k) \in Nat /\ Size(k) >= 1 /\ Size(k + 1) = Size(k) + Size(k)
  BY PowerPositive, PowerDoubles DEF Size

\* A power of two is a multiple of the lesser ones.
LEMMA SizeDivides ==
  ASSUME NEW j \in Nat, NEW k \in Nat, j <= k
  PROVE  \E m \in Nat : m >= 1 /\ Size(k) = Size(j) * m
  BY PowerDivides DEF Size

LEMMA AlignedBelow ==
  ASSUME NEW j \in Nat, NEW k \in Nat, j <= k, NEW p \in Int, p % Size(k) = 0
  PROVE  p % Size(j) = 0
<1>1. PICK m \in Nat : m >= 1 /\ Size(k) = Size(j) * m
  BY SizeDivides
<1>2. Size(j) \in Nat /\ Size(j) >= 1 /\ Size(k) \in Nat /\ Size(k) >= 1
  BY SizeIs
<1>3. PICK q \in Int : p = Size(k) * q
  BY <1>2, QuotientIs
<1>4. Size(j) * m * q = Size(j) * (m * q) /\ m * q \in Int
  BY <1>2
<1>5. p = Size(j) * (m * q)
  BY <1>1, <1>3, <1>4
<1> QED BY <1>2, <1>4, <1>5, MultipleIs

-------------------------------------------------------------------------------
(* Buddies.                                                                 *)

\* The halves of a block of order k + 1 are buddies.
LEMMA HalvesAre ==
  ASSUME NEW k \in Nat, NEW p \in Int, p % Size(k + 1) = 0
  PROVE  /\ p % Size(k) = 0 /\ (p + Size(k)) % Size(k) = 0
         /\ Buddy(p, k) = p + Size(k) /\ Buddy(p + Size(k), k) = p
<1> DEFINE s == Size(k)
<1>1. s \in Nat /\ s >= 1 /\ Size(k + 1) = s + s
  BY SizeIs
<1> HIDE DEF s
<1>2. PICK q \in Int : p = (s + s) * q
  BY <1>1, QuotientIs
<1>3. /\ p = s * (q + q) /\ q + q \in Int /\ (q + q) % 2 = 0
      /\ p + s = s * (q + q + 1) /\ q + q + 1 \in Int /\ (q + q + 1) % 2 = 1
      /\ p + s \in Int /\ (p + s) - s = p
  BY <1>1, <1>2
<1>4. p % s = 0 /\ p \div s = q + q
  BY <1>1, <1>3, MultipleIs
<1>5. (p + s) % s = 0 /\ (p + s) \div s = q + q + 1
  <2> DEFINE a == q + q + 1
             w == p + s
  <2>1. a \in Int /\ w = s * a /\ w \in Int
    BY <1>3
  <2> HIDE DEF a, w
  <2>2. w % s = 0 /\ w \div s = a
    BY <1>1, <2>1, MultipleIs
  <2> QED BY <2>2 DEF a, w
<1>6. Buddy(p, k) = p + s
  BY <1>3, <1>4, Zenon DEF Buddy, s
<1>7. Buddy(p + s, k) = (p + s) - s
  <2>1. ~((q + q + 1) % 2 = 0)
    BY <1>3
  <2>2. ~(((p + s) \div s) % 2 = 0)
    BY <2>1, <1>5
  <2> QED BY <2>2, Zenon DEF Buddy, s
<1> QED BY <1>3, <1>4, <1>5, <1>6, <1>7 DEF s

\* A block is the lower or the upper half of its pair.
LEMMA HalfOfPair ==
  ASSUME NEW k \in Nat, NEW p \in Int, p % Size(k) = 0
  PROVE  p % Size(k + 1) = 0 \/ (p - Size(k)) % Size(k + 1) = 0
<1> DEFINE s == Size(k)
<1>1. s \in Nat /\ s >= 1 /\ Size(k + 1) = s + s /\ s + s \in Nat /\ s + s >= 1
  BY SizeIs
<1> HIDE DEF s
<1>2. PICK c \in Int : p = s * c
  BY <1>1, QuotientIs DEF s
<1>3. \E d \in Int : c = d + d \/ c = d + d + 1
  <2>1. c \div 2 \in Int /\ (c = (c \div 2) + (c \div 2) \/ c = (c \div 2) + (c \div 2) + 1)
    OBVIOUS
  <2> QED BY <2>1
<1>4. PICK d \in Int : c = d + d \/ c = d + d + 1
  BY <1>3
<1>5. CASE c = d + d
  <2>1. p = (s + s) * d
    BY <1>1, <1>2, <1>5
  <2> QED BY <2>1, <1>1, MultipleIs
<1>6. CASE c = d + d + 1
  <2>1. p - s = (s + s) * d /\ p - s \in Int
    BY <1>1, <1>2, <1>6
  <2> QED BY <2>1, <1>1, MultipleIs DEF s
<1> QED BY <1>4, <1>5, <1>6

-------------------------------------------------------------------------------
(* Blocks.                                                                  *)

AnyBlock == [pfn : Int, order : Nat]

BlockType == [pfn : Pages, order : Orders]

LEMMA BlockIs ==
  /\ BlockType \subseteq AnyBlock
  /\ \A p \in Int, k \in Nat : /\ Block(p, k) \in AnyBlock
                               /\ Block(p, k).pfn = p /\ Block(p, k).order = k
  /\ \A p \in Pages, k \in Orders : Block(p, k) \in BlockType
  /\ \A b \in AnyBlock : b = Block(b.pfn, b.order)
<1>1. Pages \subseteq Int /\ Orders \subseteq Nat
  BY PageIs, OrderIs
<1>2. BlockType \subseteq AnyBlock
  BY <1>1 DEF AnyBlock, BlockType
<1>3. \A p \in Int, k \in Nat : Block(p, k) \in AnyBlock
  BY DEF AnyBlock, Block
<1>4. \A p, k : Block(p, k).pfn = p /\ Block(p, k).order = k
  BY DEF Block
<1>5. \A p \in Pages, k \in Orders : Block(p, k) \in BlockType
  BY DEF BlockType, Block
<1>6. \A b \in AnyBlock : b = Block(b.pfn, b.order)
  BY DEF AnyBlock, Block
<1> QED BY <1>2, <1>3, <1>4, <1>5, <1>6

LEMMA SpanIs ==
  ASSUME NEW b \in AnyBlock
  PROVE  /\ b.pfn \in Int /\ b.order \in Nat /\ Size(b.order) \in Nat /\ Size(b.order) >= 1
         /\ b.pfn \in Span(b)
         /\ \A x : x \in Span(b) <=> x \in Int /\ b.pfn <= x /\ x < b.pfn + Size(b.order)
<1>1. b.pfn \in Int /\ b.order \in Nat
  BY DEF AnyBlock
<1>2. Size(b.order) \in Nat /\ Size(b.order) >= 1
  BY <1>1, SizeIs
<1> QED BY <1>1, <1>2 DEF Span

LEMMA ApartIs ==
  ASSUME NEW b \in AnyBlock, NEW c \in AnyBlock
  PROVE  /\ Apart(b, c) <=> Apart(c, b)
         /\ Apart(b, c) <=> Span(b) \cap Span(c) = {}
         /\ ~Apart(b, b)
<1>1. /\ b.pfn \in Int /\ Size(b.order) \in Nat /\ Size(b.order) >= 1
      /\ c.pfn \in Int /\ Size(c.order) \in Nat /\ Size(c.order) >= 1
  BY SpanIs
<1>2. Apart(b, c) <=> Apart(c, b)
  BY <1>1 DEF Apart
<1>3. ~Apart(b, b)
  BY <1>1 DEF Apart
<1>4. ASSUME Apart(b, c), NEW x \in Span(b), x \in Span(c)
      PROVE  FALSE
  BY <1>1, <1>4, SpanIs DEF Apart
<1>5. ASSUME ~Apart(b, c)
      PROVE  b.pfn \in Span(c) \/ c.pfn \in Span(b)
  BY <1>1, <1>5, SpanIs DEF Apart
<1>6. b.pfn \in Span(b) /\ c.pfn \in Span(c)
  BY SpanIs
<1> QED BY <1>2, <1>3, <1>4, <1>5, <1>6

\* Of two aligned blocks that meet, the lesser lies within the greater.
LEMMA AlignedNest ==
  ASSUME NEW b \in AnyBlock, NEW c \in AnyBlock, Aligned(b), Aligned(c),
         b.order <= c.order, ~Apart(b, c)
  PROVE  /\ c.pfn <= b.pfn /\ b.pfn + Size(b.order) <= c.pfn + Size(c.order)
         /\ Span(b) \subseteq Span(c)
         /\ b.order = c.order => b = c
<1> DEFINE s == Size(b.order)
           t == Size(c.order)
<1>1. /\ b.pfn \in Int /\ s \in Nat /\ s >= 1 /\ b.order \in Nat
      /\ c.pfn \in Int /\ t \in Nat /\ t >= 1 /\ c.order \in Nat
  BY SpanIs
<1>2. b.pfn % s = 0 /\ c.pfn % t = 0
  BY DEF Aligned
<1>3. b.pfn < c.pfn + t /\ c.pfn < b.pfn + s
  BY <1>1 DEF Apart
<1>4. c.pfn % s = 0
  BY <1>1, <1>2, AlignedBelow
<1>5. (c.pfn + t) % s = 0
  <2> HIDE DEF s, t
  <2>1. PICK q \in Int : c.pfn = t * q
    BY <1>1, <1>2, QuotientIs
  <2>2. c.pfn + t = t * (q + 1) /\ q + 1 \in Int /\ c.pfn + t \in Int
    BY <2>1, <1>1
  <2>3. (c.pfn + t) % t = 0
    BY <2>2, <1>1, MultipleIs
  <2> QED BY <2>2, <2>3, <1>1, AlignedBelow DEF s, t
<1> HIDE DEF s, t
<1>6. c.pfn <= b.pfn
  BY <1>1, <1>2, <1>3, <1>4, MultiplesApart
<1>7. b.pfn + s <= c.pfn + t
  <2>1. ~(c.pfn + t < b.pfn + s)
    <3> SUFFICES ASSUME c.pfn + t < b.pfn + s PROVE FALSE
      OBVIOUS
    <3>1. c.pfn + t <= b.pfn
      <4>1. c.pfn + t \in Int
        BY <1>1
      <4> QED BY <4>1, <1>1, <1>2, <1>5, MultiplesApart
    <3> QED BY <3>1, <1>1, <1>3
  <2> QED BY <2>1, <1>1
<1>8. Span(b) \subseteq Span(c)
  BY <1>1, <1>6, <1>7, SpanIs DEF s, t
<1>9. b.order = c.order => b = c
  <2> SUFFICES ASSUME b.order = c.order PROVE b.pfn = c.pfn
    BY DEF AnyBlock
  <2>1. s = t
    BY DEF s, t
  <2> QED BY <2>1, <1>1, <1>6, <1>7
<1> QED BY <1>6, <1>7, <1>8, <1>9 DEF s, t

LEMMA PairIs ==
  ASSUME NEW k \in Nat, NEW p \in Int
  PROVE  LET low == Block(p, k)
             up  == Block(p + Size(k), k)
             big == Block(p, k + 1)
         IN  /\ low \in AnyBlock /\ up \in AnyBlock /\ big \in AnyBlock
             /\ low # up /\ low # big /\ up # big
             /\ Span(big) = Span(low) \cup Span(up)
             /\ Apart(low, up)
             /\ \A c \in AnyBlock : Apart(big, c) <=> Apart(low, c) /\ Apart(up, c)
<1> DEFINE s == Size(k)
           low == Block(p, k)
           up == Block(p + s, k)
           big == Block(p, k + 1)
<1>1. s \in Nat /\ s >= 1 /\ Size(k + 1) = s + s /\ k + 1 \in Nat /\ p + s \in Int
  BY SizeIs
<1>2. /\ low \in AnyBlock /\ up \in AnyBlock /\ big \in AnyBlock
      /\ low.pfn = p /\ low.order = k /\ up.pfn = p + s /\ up.order = k
      /\ big.pfn = p /\ big.order = k + 1
  BY <1>1, BlockIs
<1> HIDE DEF low, up, big
<1>3. Size(low.order) = s /\ Size(up.order) = s /\ Size(big.order) = s + s
  BY <1>1, <1>2
<1> HIDE DEF s
<1>4. low # up /\ low # big /\ up # big
  <2>1. p # p + s /\ k # k + 1
    BY <1>1
  <2> QED BY <2>1, <1>2
<1>5. Apart(low, up)
  BY <1>1, <1>2, <1>3 DEF Apart
<1>6. Span(big) = Span(low) \cup Span(up)
  <2>1. \A x : x \in Span(big) <=> x \in Int /\ p <= x /\ x < p + (s + s)
    BY <1>2, <1>3, SpanIs
  <2>2. \A x : x \in Span(low) <=> x \in Int /\ p <= x /\ x < p + s
    BY <1>2, <1>3, SpanIs
  <2>3. \A x : x \in Span(up) <=> x \in Int /\ p + s <= x /\ x < (p + s) + s
    BY <1>2, <1>3, SpanIs
  <2>4. \A x \in Int : p <= x /\ x < p + (s + s) <=> (p <= x /\ x < p + s) \/ (p + s <= x /\ x < (p + s) + s)
    BY <1>1
  <2> QED BY <2>1, <2>2, <2>3, <2>4
<1>7. ASSUME NEW c \in AnyBlock
      PROVE  Apart(big, c) <=> Apart(low, c) /\ Apart(up, c)
  <2>1. c.pfn \in Int /\ Size(c.order) \in Nat /\ Size(c.order) >= 1
    BY SpanIs
  <2> QED BY <2>1, <1>1, <1>2, <1>3 DEF Apart
<1> QED BY <1>2, <1>4, <1>5, <1>6, <1>7 DEF s, low, up, big

-------------------------------------------------------------------------------
(* Sets of blocks that cut up the arena.                                    *)

Tiling(B) ==
    /\ B \subseteq BlockType
    /\ \A b \in B : Aligned(b) /\ Span(b) \subseteq Pages \ Reserved
    /\ \A b, c \in B : b # c => Apart(b, c)

Covers(B) == \A p \in Pages \ Reserved : \E b \in B : p \in Span(b)

LEMMA TilingAdd ==
  ASSUME NEW B, Tiling(B), NEW b \in BlockType, Aligned(b), Span(b) \subseteq Pages \ Reserved,
         \A c \in B : Apart(b, c)
  PROVE  Tiling(B \cup {b}) /\ b \notin B
<1>1. B \subseteq BlockType /\ BlockType \subseteq AnyBlock
  BY BlockIs DEF Tiling
<1>2. b \notin B
  BY <1>1, ApartIs
<1>3. \A c \in B : Apart(c, b)
  BY <1>1, ApartIs
<1> QED BY <1>1, <1>2, <1>3 DEF Tiling

\* Cutting a block into its halves.
LEMMA TilingSplit ==
  ASSUME NEW B, Tiling(B), NEW k \in Nat, NEW p, Block(p, k + 1) \in B
  PROVE  LET t   == Block(p, k + 1)
             low == Block(p, k)
             up  == Block(p + Size(k), k)
             new == (B \ {t}) \cup {low, up}
         IN  /\ Tiling(new)
             /\ Covers(B) => Covers(new)
             /\ low \notin B /\ up \notin B /\ low # up
             /\ low \in BlockType /\ up \in BlockType
             /\ Buddy(p, k) = p + Size(k) /\ Buddy(p + Size(k), k) = p
<1> DEFINE t == Block(p, k + 1)
           low == Block(p, k)
           up == Block(p + Size(k), k)
           new == (B \ {t}) \cup {low, up}
<1>1. B \subseteq BlockType /\ t \in BlockType /\ BlockType \subseteq AnyBlock /\ B \subseteq AnyBlock
  BY BlockIs DEF Tiling
<1>2. p \in Pages /\ p \in Int /\ k + 1 \in Orders
  <2>1. p \in Pages /\ k + 1 \in Orders
    BY <1>1 DEF BlockType, Block
  <2> QED BY <2>1, PageIs
<1>3. k \in Orders
  BY <1>2, ArenaAssumption DEF Orders
<1>4. /\ p % Size(k) = 0 /\ (p + Size(k)) % Size(k) = 0
      /\ Buddy(p, k) = p + Size(k) /\ Buddy(p + Size(k), k) = p
  <2>1. Aligned(t)
    BY DEF Tiling
  <2>2. p % Size(k + 1) = 0
    BY <2>1 DEF Aligned, Block
  <2> QED BY <2>2, <1>2, HalvesAre
<1>5. /\ low \in AnyBlock /\ up \in AnyBlock /\ low # up /\ low # t /\ up # t
      /\ Span(t) = Span(low) \cup Span(up) /\ Apart(low, up)
      /\ \A c \in AnyBlock : Apart(t, c) <=> Apart(low, c) /\ Apart(up, c)
  BY <1>2, PairIs
<1>6. low \in BlockType /\ up \in BlockType
  <2>1. up.pfn = p + Size(k)
    BY DEF Block
  <2>2. p + Size(k) \in Span(up)
    BY <1>5, <2>1, SpanIs
  <2>3. Span(t) \subseteq Pages
    BY DEF Tiling
  <2>4. p + Size(k) \in Pages
    BY <1>5, <2>2, <2>3
  <2> QED BY <1>2, <1>3, <2>4, BlockIs
<1>7. Aligned(low) /\ Aligned(up)
  BY <1>4 DEF Aligned, Block
<1> HIDE DEF t, low, up
<1>8. /\ Span(low) \subseteq Pages \ Reserved /\ Span(up) \subseteq Pages \ Reserved
      /\ \A c \in B \ {t} : Apart(t, c) /\ Apart(c, t)
  BY <1>5 DEF Tiling, t
<1>9. \A c \in B \ {t} : /\ Apart(low, c) /\ Apart(up, c)
                         /\ Apart(c, low) /\ Apart(c, up)
  <2>1. \A c \in B \ {t} : Apart(low, c) /\ Apart(up, c)
    BY <1>1, <1>5, <1>8
  <2> QED BY <2>1, <1>1, <1>5, ApartIs
<1>10. low \notin B /\ up \notin B
  <2>1. ~Apart(low, low) /\ ~Apart(up, up)
    BY <1>5, ApartIs
  <2> QED BY <2>1, <1>5, <1>9
<1>11. Tiling(new)
  <2>1. Apart(up, low)
    BY <1>5, ApartIs
  <2>2. \A b, c \in new : b # c => Apart(b, c)
    <3>1. \A b, c \in B \ {t} : b # c => Apart(b, c)
      BY DEF Tiling
    <3> QED BY <3>1, <2>1, <1>5, <1>9
  <2>3. \A b \in new : Aligned(b) /\ Span(b) \subseteq Pages \ Reserved
    BY <1>7, <1>8 DEF Tiling
  <2>4. new \subseteq BlockType
    BY <1>1, <1>6
  <2> QED BY <2>2, <2>3, <2>4 DEF Tiling
<1>12. Covers(B) => Covers(new)
  <2> SUFFICES ASSUME Covers(B), NEW x \in Pages \ Reserved
               PROVE  \E b \in new : x \in Span(b)
    BY DEF Covers
  <2>1. PICK b \in B : x \in Span(b)
    BY DEF Covers
  <2>2. CASE b = t
    BY <2>1, <2>2, <1>5
  <2>3. CASE b # t
    BY <2>1, <2>3
  <2> QED BY <2>2, <2>3
<1> QED BY <1>4, <1>5, <1>6, <1>10, <1>11, <1>12 DEF t, low, up

\* Putting two buddies together.
LEMMA TilingMerge ==
  ASSUME NEW B, Tiling(B), NEW k \in Orders, k < MaxOrder, NEW p,
         Block(p, k) \in B, Block(Buddy(p, k), k) \in B
  PROVE  LET t   == Block(p, k)
             b   == Block(Buddy(p, k), k)
             big == Block(IF b.pfn < p THEN b.pfn ELSE p, k + 1)
             new == (B \ {t, b}) \cup {big}
         IN  /\ Tiling(new)
             /\ Covers(B) => Covers(new)
             /\ t # b /\ big \notin B /\ big \in BlockType
<1> DEFINE s == Size(k)
           low == IF p % Size(k + 1) = 0 THEN p ELSE p - s
           l == Block(low, k)
           u == Block(low + s, k)
           big == Block(low, k + 1)
           new == (B \ {l, u}) \cup {big}
<1>1. /\ B \subseteq BlockType /\ BlockType \subseteq AnyBlock /\ B \subseteq AnyBlock
      /\ k \in Nat /\ k + 1 \in Orders
  BY BlockIs, ArenaAssumption DEF Tiling, Orders
<1>2. p \in Pages /\ p \in Int /\ p % s = 0
  <2>1. Block(p, k) \in BlockType /\ Aligned(Block(p, k))
    BY DEF Tiling
  <2>2. p \in Pages /\ p % s = 0
    BY <2>1 DEF BlockType, Aligned, Block
  <2> QED BY <2>2, PageIs
<1>3. s \in Nat /\ s >= 1 /\ Size(k + 1) = s + s
  BY <1>1, SizeIs
<1>4. low \in Int /\ low % Size(k + 1) = 0
  BY <1>1, <1>2, <1>3, HalfOfPair
<1>5. Buddy(low, k) = low + s /\ Buddy(low + s, k) = low
  BY <1>1, <1>4, HalvesAre
<1>6. \/ p = low /\ Buddy(p, k) = low + s
      \/ p = low + s /\ Buddy(p, k) = low
  <2>1. p = low \/ p = low + s
    BY <1>2, <1>3
  <2> QED BY <2>1, <1>5
<1> HIDE DEF s, low
<1>7. /\ {Block(p, k), Block(Buddy(p, k), k)} = {l, u}
      /\ (IF Buddy(p, k) < p THEN Buddy(p, k) ELSE p) = low
  <2>1. low + s \in Int /\ low < low + s
    BY <1>3, <1>4
  <2> QED BY <2>1, <1>4, <1>6
<1>8. /\ l \in AnyBlock /\ u \in AnyBlock /\ big \in AnyBlock
      /\ l # u /\ l # big /\ u # big
      /\ Span(big) = Span(l) \cup Span(u)
      /\ \A c \in AnyBlock : Apart(big, c) <=> Apart(l, c) /\ Apart(u, c)
  BY <1>1, <1>4, PairIs DEF s
<1>9. Aligned(big)
  BY <1>4 DEF Aligned, Block
<1>10. l \in B /\ u \in B
  BY <1>7
<1>11. big \in BlockType
  <2>1. low \in Pages
    BY <1>10, <1>1 DEF BlockType, Block
  <2> QED BY <2>1, <1>1, BlockIs
<1>12. Block(Buddy(p, k), k).pfn = Buddy(p, k)
  BY DEF Block
<1> HIDE DEF l, u, big
<1>13. \A c \in B \ {l, u} : Apart(big, c) /\ Apart(c, big)
  <2>1. \A c \in B \ {l, u} : Apart(l, c) /\ Apart(u, c)
    BY <1>10 DEF Tiling
  <2>2. \A c \in B \ {l, u} : Apart(big, c)
    BY <2>1, <1>1, <1>8
  <2> QED BY <2>2, <1>1, <1>8, ApartIs
<1>14. big \notin B
  BY <1>8, <1>13, ApartIs
<1>15. Tiling(new)
  <2>1. \A b, c \in new : b # c => Apart(b, c)
    BY <1>13 DEF Tiling
  <2>2. \A b \in new : Aligned(b) /\ Span(b) \subseteq Pages \ Reserved
    BY <1>8, <1>9, <1>10 DEF Tiling
  <2> QED BY <2>1, <2>2, <1>1, <1>11 DEF Tiling
<1>16. Covers(B) => Covers(new)
  <2> SUFFICES ASSUME Covers(B), NEW x \in Pages \ Reserved
               PROVE  \E b \in new : x \in Span(b)
    BY DEF Covers
  <2>1. PICK b \in B : x \in Span(b)
    BY DEF Covers
  <2>2. CASE b \in {l, u}
    BY <2>1, <2>2, <1>8
  <2>3. CASE b \notin {l, u}
    BY <2>1, <2>3
  <2> QED BY <2>2, <2>3
<1>17. Block(p, k) # Block(Buddy(p, k), k)
  BY <1>7, <1>8
<1> HIDE DEF new
<1> QED BY <1>7, <1>11, <1>12, <1>14, <1>15, <1>16, <1>17 DEF new, big

-------------------------------------------------------------------------------
(* The blocks that seed cuts.                                               *)

LEMMA RunEndIs ==
  ASSUME NEW p \in Pages \ Reserved
  PROVE  /\ RunEnd(p) \in Nat /\ p < RunEnd(p) /\ RunEnd(p) \notin Pages \ Reserved
         /\ \A x \in Int : p <= x /\ x < RunEnd(p) => x \in Pages \ Reserved
<1> DEFINE top == Base + Count
           stops == {q \in p .. top : q = top \/ q \in Reserved}
           e == RunEnd(p)
<1>1. /\ top \in Nat /\ p \in Nat /\ p < top /\ Base <= p
      /\ \A x : x \in Pages <=> x \in Int /\ Base <= x /\ x < top
  BY ArenaAssumption DEF Pages
<1>2. e = CHOOSE q \in stops : \A r \in stops : q <= r
  BY DEF RunEnd
<1> HIDE DEF top, e
<1>3. stops \in SUBSET Nat /\ top \in stops
  BY <1>1
<1>4. \E q \in stops : \A r \in stops : q <= r
  BY <1>3, LeastExists
<1>5. e \in stops /\ \A r \in stops : e <= r
  <2> HIDE DEF stops
  <2> QED BY <1>2, <1>4
<1>6. e \in Nat /\ p < e /\ e \notin Pages \ Reserved
  BY <1>1, <1>5
<1>7. ASSUME NEW x \in Int, p <= x, x < e
      PROVE  x \in Pages \ Reserved
  <2>1. e <= top
    BY <1>3, <1>5
  <2>2. x \in p .. top /\ x \notin stops /\ Base <= x /\ x < top
    BY <1>1, <1>5, <1>6, <1>7, <2>1, ArenaAssumption
  <2>3. x \notin Reserved
    BY <2>2
  <2> QED BY <1>1, <2>2, <2>3
<1> QED BY <1>6, <1>7 DEF e

LEMMA SeedOrderIs ==
  ASSUME NEW p \in Pages \ Reserved
  PROVE  LET k == SeedOrder(p)
         IN  /\ k \in Orders /\ p % Size(k) = 0 /\ p + Size(k) <= RunEnd(p)
             /\ \A j \in Orders : p % Size(j) = 0 /\ p + Size(j) <= RunEnd(p) => j <= k
<1> DEFINE fits == {k \in Orders : p % Size(k) = 0 /\ p + Size(k) <= RunEnd(p)}
           k == SeedOrder(p)
<1>1. k = CHOOSE i \in fits : \A j \in fits : j <= i
  BY DEF SeedOrder
<1> HIDE DEF k
<1>2. p \in Nat /\ RunEnd(p) \in Nat /\ p < RunEnd(p)
  BY RunEndIs, PageIs
<1>3. 0 \in fits
  <2>1. 0 \in Orders
    BY ArenaAssumption DEF Orders
  <2>2. Size(0) = 1
    BY DEF Size
  <2>3. p % 1 = 0 /\ p + 1 <= RunEnd(p)
    BY <1>2
  <2> QED BY <2>1, <2>2, <2>3
<1>4. fits \in SUBSET Nat /\ \A n \in fits : n <= MaxOrder
  BY ArenaAssumption DEF Orders
<1> HIDE DEF fits
<1>5. \E i \in fits : \A j \in fits : j <= i
  BY <1>3, <1>4, GreatestExists, ArenaAssumption
<1>6. k \in fits /\ \A j \in fits : j <= k
  BY <1>1, <1>5
<1> QED BY <1>6 DEF fits, k

\* The block that seed lists at an unreserved page is aligned and free of
\* reserved pages, and the block twice as large would not be.
LEMMA SeedBlockIs ==
  ASSUME NEW p \in Pages \ Reserved
  PROVE  LET k == SeedOrder(p)
             b == Block(p, k)
         IN  /\ k \in Orders /\ b \in BlockType /\ Aligned(b)
             /\ Span(b) \subseteq Pages \ Reserved
             /\ k < MaxOrder /\ p % Size(k + 1) = 0 =>
                   ~(Span(Block(p, k + 1)) \subseteq Pages \ Reserved)
<1> DEFINE k == SeedOrder(p)
           b == Block(p, k)
<1>1. /\ k \in Orders /\ p % Size(k) = 0 /\ p + Size(k) <= RunEnd(p)
      /\ \A j \in Orders : p % Size(j) = 0 /\ p + Size(j) <= RunEnd(p) => j <= k
  BY SeedOrderIs
<1>2. p \in Nat /\ RunEnd(p) \in Nat /\ p < RunEnd(p) /\ RunEnd(p) \notin Pages \ Reserved
  BY RunEndIs, PageIs
<1> HIDE DEF k
<1>3. k \in Nat /\ Size(k) \in Nat
  BY <1>1, OrderIs DEF Size
<1>4. b \in BlockType /\ b \in AnyBlock /\ b.pfn = p /\ b.order = k
  BY <1>1, <1>2, <1>3, BlockIs
<1>5. Aligned(b)
  BY <1>1, <1>4 DEF Aligned
<1> HIDE DEF b
<1>6. Span(b) \subseteq Pages \ Reserved
  <2> SUFFICES ASSUME NEW x \in Span(b) PROVE x \in Pages \ Reserved
    OBVIOUS
  <2>1. x \in Int /\ p <= x /\ x < p + Size(k)
    BY <1>4, SpanIs
  <2>2. x < RunEnd(p)
    BY <2>1, <1>1, <1>2, <1>3
  <2> QED BY <2>1, <2>2, RunEndIs
<1>7. ASSUME k < MaxOrder, p % Size(k + 1) = 0
      PROVE  ~(Span(Block(p, k + 1)) \subseteq Pages \ Reserved)
  <2>1. k + 1 \in Orders /\ k + 1 \in Nat /\ ~(k + 1 <= k) /\ Size(k + 1) \in Nat
    BY <1>1, <1>3, <1>7, SizeIs, ArenaAssumption DEF Orders
  <2>2. ~(p + Size(k + 1) <= RunEnd(p))
    BY <1>1, <1>7, <2>1
  <2>3. RunEnd(p) \in Span(Block(p, k + 1))
    <3>1. p \in Int /\ p <= RunEnd(p) /\ RunEnd(p) < p + Size(k + 1)
      BY <2>1, <2>2, <1>2
    <3>2. /\ Block(p, k + 1) \in AnyBlock /\ Block(p, k + 1).pfn = p
          /\ Block(p, k + 1).order = k + 1
      BY <2>1, <3>1, BlockIs
    <3> QED BY <3>1, <3>2, <1>2, SpanIs
  <2> QED BY <2>3, <1>2
<1> QED BY <1>1, <1>4, <1>5, <1>6, <1>7 DEF b, k

-------------------------------------------------------------------------------
(* The lists of a set of blocks.                                            *)

PagesOf(L) == UNION {Span(b) : b \in L}

PlacesOf(L, k) == {p \in Pages : Block(p, k) \in L}

\* The lists l link the blocks L, each in the list of its order.
Linked(l, L) ==
    /\ l \in FreeListsType
    /\ \A k \in Orders : Chained(l, k, PlacesOf(L, k))
    /\ l.pages = Cardinality(PagesOf(L))

LEMMA CountAdd ==
  ASSUME NEW L, NEW b, b \notin L, Tiling(L \cup {b})
  PROVE  Cardinality(PagesOf(L \cup {b})) = Cardinality(PagesOf(L)) + Size(b.order)
<1> DEFINE U == PagesOf(L)
<1>1. b \in AnyBlock /\ \A c \in L : c \in AnyBlock /\ Apart(c, b) /\ Span(c) \subseteq Pages
  BY BlockIs DEF Tiling
<1>2. PagesOf(L \cup {b}) = U \cup Span(b)
  BY DEF PagesOf
<1>3. IsFiniteSet(Pages)
  BY FS_Interval, ArenaAssumption DEF Pages
<1>4. U \in SUBSET Pages
  BY <1>1 DEF PagesOf
<1>5. IsFiniteSet(U)
  BY <1>3, <1>4, FS_Subset
<1>6. U \cap Span(b) = {}
  BY <1>1, ApartIs DEF PagesOf
<1>7. IsFiniteSet(Span(b)) /\ Cardinality(Span(b)) = Size(b.order)
  <2> DEFINE last == b.pfn + Size(b.order) - 1
  <2>1. /\ b.pfn \in Int /\ last \in Int /\ ~(b.pfn > last)
        /\ last - b.pfn + 1 = Size(b.order)
    BY <1>1, SpanIs
  <2>2. Span(b) = b.pfn .. last
    BY DEF Span
  <2> HIDE DEF last
  <2>3. IsFiniteSet(b.pfn .. last) /\ Cardinality(b.pfn .. last) = IF b.pfn > last THEN 0 ELSE last - b.pfn + 1
    BY <2>1, FS_Interval
  <2> QED BY <2>1, <2>2, <2>3
<1> HIDE DEF U
<1>8. Cardinality(U \cup Span(b)) = Cardinality(U) + Cardinality(Span(b)) - Cardinality(U \cap Span(b))
  BY <1>5, <1>7, FS_Union
<1>9. Cardinality(U) \in Nat /\ Size(b.order) \in Nat /\ Cardinality(U \cap Span(b)) = 0
  BY <1>1, <1>5, <1>6, FS_CardinalityType, FS_EmptySet, SpanIs
<1>10. Cardinality(U \cup Span(b)) = Cardinality(U) + Size(b.order)
  BY <1>7, <1>8, <1>9
<1> QED BY <1>2, <1>10 DEF U

\* Two different blocks of a tiling start at different pages.
LEMMA PlacesDiffer ==
  ASSUME NEW L, Tiling(L), NEW b \in L, NEW c \in L, b.pfn = c.pfn
  PROVE  b = c
<1>1. b \in AnyBlock /\ c \in AnyBlock
  BY BlockIs DEF Tiling
<1>2. b.pfn \in Span(b) /\ c.pfn \in Span(c)
  BY <1>1, SpanIs
<1>3. ~Apart(b, c)
  BY <1>1, <1>2, ApartIs
<1> QED BY <1>3 DEF Tiling

LEMMA PushLinked ==
  ASSUME NEW l, NEW L, NEW b, Linked(l, L), b \notin L, Tiling(L \cup {b})
  PROVE  Linked(Push(l, b.pfn, b.order), L \cup {b})
<1> DEFINE p == b.pfn
           k == b.order
           new == Push(l, p, k)
           M == L \cup {b}
<1>1. l \in FreeListsType /\ b \in BlockType /\ p \in Pages /\ k \in Orders /\ b = Block(p, k)
  BY BlockIs DEF Linked, Tiling, BlockType
<1>2. \A j \in Orders : Block(p, j) \notin L
  <2> SUFFICES ASSUME NEW j \in Orders, Block(p, j) \in L PROVE FALSE
    OBVIOUS
  <2>1. Block(p, j).pfn = b.pfn
    BY DEF Block
  <2> QED BY <2>1, PlacesDiffer
<1> HIDE DEF p, k
<1>3. \A j \in Orders : PlacesOf(L, j) \in SUBSET Pages /\ p \in Pages \ PlacesOf(L, j)
  BY <1>1, <1>2 DEF PlacesOf
<1>4. PlacesOf(M, k) = PlacesOf(L, k) \cup {p}
  BY <1>1 DEF PlacesOf, Block
<1>5. \A j \in Orders : j # k => PlacesOf(M, j) = PlacesOf(L, j)
  BY <1>1 DEF PlacesOf, Block
<1>6. \A j \in Orders : j # k => PlacesOf(L, k) \cap PlacesOf(L, j) = {}
  <2> SUFFICES ASSUME NEW j \in Orders, j # k, NEW q \in Pages, Block(q, k) \in L, Block(q, j) \in L
               PROVE  FALSE
    BY DEF PlacesOf
  <2>1. Block(q, k) # Block(q, j) /\ Block(q, k).pfn = Block(q, j).pfn
    BY DEF Block
  <2> QED BY <2>1, PlacesDiffer
<1>7. Chained(new, k, PlacesOf(M, k))
  <2>1. Chained(l, k, PlacesOf(L, k))
    BY <1>1 DEF Linked
  <2>2. Chained(Push(l, p, k), k, PlacesOf(L, k) \cup {p})
    BY <2>1, <1>1, <1>3, PushOwn
  <2> QED BY <2>2, <1>4, Zenon
<1>8. ASSUME NEW j \in Orders, j # k
      PROVE  Chained(new, j, PlacesOf(M, j))
  <2>1. Chained(l, k, PlacesOf(L, k)) /\ Chained(l, j, PlacesOf(L, j))
    BY <1>1 DEF Linked
  <2> QED BY <2>1, <1>1, <1>3, <1>5, <1>6, <1>8, PushOther
<1>9. new \in FreeListsType /\ new.pages = l.pages + 2 ^ k
  BY <1>1, PushIs
<1>10. Cardinality(PagesOf(M)) = l.pages + 2 ^ k
  <2>1. Cardinality(PagesOf(M)) = Cardinality(PagesOf(L)) + Size(k)
    BY CountAdd DEF k
  <2> QED BY <2>1 DEF Linked, Size
<1> HIDE DEF new, M
<1> QED BY <1>7, <1>8, <1>9, <1>10 DEF Linked, new, M, p, k

LEMMA UnlinkLinked ==
  ASSUME NEW l, NEW L, NEW b \in L, Linked(l, L), Tiling(L)
  PROVE  Linked(Unlink(l, b.pfn, b.order), L \ {b})
<1> DEFINE p == b.pfn
           k == b.order
           new == Unlink(l, p, k)
           M == L \ {b}
<1>1. l \in FreeListsType /\ b \in BlockType /\ p \in Pages /\ k \in Orders /\ b = Block(p, k)
  BY BlockIs DEF Linked, Tiling, BlockType
<1> HIDE DEF p, k
<1>2. \A j \in Orders : PlacesOf(L, j) \in SUBSET Pages
  BY DEF PlacesOf
<1>3. p \in PlacesOf(L, k)
  BY <1>1 DEF PlacesOf
<1>4. PlacesOf(M, k) = PlacesOf(L, k) \ {p}
  BY <1>1 DEF PlacesOf, Block
<1>5. \A j \in Orders : j # k => PlacesOf(M, j) = PlacesOf(L, j)
  BY <1>1 DEF PlacesOf, Block
<1>6. \A j \in Orders : j # k => PlacesOf(L, k) \cap PlacesOf(L, j) = {}
  <2> SUFFICES ASSUME NEW j \in Orders, j # k, NEW q \in Pages, Block(q, k) \in L, Block(q, j) \in L
               PROVE  FALSE
    BY DEF PlacesOf
  <2>1. Block(q, k) # Block(q, j) /\ Block(q, k).pfn = Block(q, j).pfn
    BY DEF Block
  <2> QED BY <2>1, PlacesDiffer
<1>7. Chained(new, k, PlacesOf(M, k))
  <2>1. Chained(l, k, PlacesOf(L, k))
    BY <1>1 DEF Linked
  <2>2. Chained(Unlink(l, p, k), k, PlacesOf(L, k) \ {p})
    BY <2>1, <1>1, <1>2, <1>3, UnlinkOwn
  <2> QED BY <2>2, <1>4, Zenon
<1>8. ASSUME NEW j \in Orders, j # k
      PROVE  Chained(new, j, PlacesOf(M, j))
  <2>1. Chained(l, k, PlacesOf(L, k)) /\ Chained(l, j, PlacesOf(L, j))
    BY <1>1 DEF Linked
  <2> QED BY <2>1, <1>1, <1>2, <1>3, <1>5, <1>6, <1>8, UnlinkOther
<1>9. new \in FreeListsType /\ new.pages = l.pages - 2 ^ k
  <2>1. Chained(l, k, PlacesOf(L, k))
    BY <1>1 DEF Linked
  <2>2. l.next[p] \in PlacesOf(L, k) \cup {NoPage} /\ l.prev[p] \in PlacesOf(L, k) \cup {NoPage}
    BY <2>1, <1>1, <1>2, <1>3, ChainedIs
  <2>3. l.next[p] \in Pages \cup {NoPage} /\ l.prev[p] \in Pages \cup {NoPage}
    BY <2>2, <1>1, <1>2
  <2> QED BY <2>3, <1>1, UnlinkIs
<1>10. Cardinality(PagesOf(M)) = l.pages - 2 ^ k
  <2>1. M \cup {b} = L /\ b \notin M
    OBVIOUS
  <2>2. Cardinality(PagesOf(L)) = Cardinality(PagesOf(M)) + Size(k)
    <3> HIDE DEF M
    <3>1. Tiling(M \cup {b})
      BY <2>1
    <3>2. Cardinality(PagesOf(M \cup {b})) = Cardinality(PagesOf(M)) + Size(b.order)
      BY <2>1, <3>1, CountAdd
    <3> QED BY <2>1, <3>2 DEF k
  <2>3. Size(k) \in Nat /\ Cardinality(PagesOf(M)) \in Nat
    <3>1. IsFiniteSet(Pages)
      BY FS_Interval, ArenaAssumption DEF Pages
    <3>2. PagesOf(M) \in SUBSET Pages
      BY DEF PagesOf, Tiling
    <3>3. Cardinality(PagesOf(M)) \in Nat
      BY <3>1, <3>2, FS_Subset, FS_CardinalityType
    <3> QED BY <3>3, <1>1, OrderIs DEF Size
  <2>4. l.pages = Cardinality(PagesOf(M)) + Size(k)
    BY <2>2 DEF Linked
  <2> QED BY <2>3, <2>4 DEF Size
<1> HIDE DEF new, M
<1> QED BY <1>7, <1>8, <1>9, <1>10 DEF Linked, new, M, p, k

LEMMA ScribbleLinked ==
  ASSUME NEW l, NEW L, NEW ps, Linked(l, L), \A b \in L : b.pfn \notin ps
  PROVE  Linked(Scribble(l, ps), L)
<1>1. l \in FreeListsType
  BY DEF Linked
<1>2. Scribble(l, ps) \in FreeListsType /\ Scribble(l, ps).pages = l.pages
  BY <1>1, ScribbleIs
<1>3. ASSUME NEW k \in Orders
      PROVE  Chained(Scribble(l, ps), k, PlacesOf(L, k))
  <2>1. PlacesOf(L, k) \in SUBSET Pages /\ Chained(l, k, PlacesOf(L, k))
    BY DEF PlacesOf, Linked
  <2>2. PlacesOf(L, k) \cap ps = {}
    <3>1. \A p : Block(p, k).pfn = p
      BY DEF Block
    <3> QED BY <3>1 DEF PlacesOf
  <2> QED BY <1>1, <2>1, <2>2, ScribbleOther
<1> QED BY <1>2, <1>3 DEF Linked

LEMMA BuddyIs ==
  ASSUME NEW k \in Nat, NEW p \in Int, p % Size(k) = 0
  PROVE  /\ Buddy(p, k) \in Int /\ Buddy(p, k) # p
         /\ Buddy(Buddy(p, k), k) = p
         /\ Buddy(p, k) % Size(k) = 0
         /\ \/ p % Size(k + 1) = 0 /\ Buddy(p, k) = p + Size(k)
            \/ (p - Size(k)) % Size(k + 1) = 0 /\ Buddy(p, k) = p - Size(k)
<1> DEFINE s == Size(k)
           low == IF p % Size(k + 1) = 0 THEN p ELSE p - s
<1>1. s \in Nat /\ s >= 1
  BY SizeIs
<1>2. low \in Int /\ low % Size(k + 1) = 0
  BY <1>1, HalfOfPair
<1>3. p = low \/ p = low + s
  BY <1>1
<1>4. /\ Buddy(low, k) = low + s /\ Buddy(low + s, k) = low
      /\ low % s = 0 /\ (low + s) % s = 0
  BY <1>2, HalvesAre
<1> HIDE DEF s, low
<1>5. CASE p = low
  BY <1>1, <1>2, <1>4, <1>5 DEF s
<1>6. CASE p = low + s
  <2>1. Buddy(p, k) = p - s /\ p - s = low
    BY <1>1, <1>2, <1>4, <1>6
  <2> QED BY <1>1, <1>2, <1>4, <1>6, <2>1 DEF s
<1> QED BY <1>3, <1>5, <1>6

\* A block and its buddy are the halves of an aligned block of the next order.
LEMMA BuddyPair ==
  ASSUME NEW t \in AnyBlock, Aligned(t)
  PROVE  LET b == Block(Buddy(t.pfn, t.order), t.order)
         IN  /\ b \in AnyBlock /\ b.pfn = Buddy(t.pfn, t.order) /\ b.order = t.order
             /\ Aligned(b) /\ Apart(b, t)
             /\ \E big \in AnyBlock :
                   /\ big.order = t.order + 1 /\ Aligned(big)
                   /\ Span(big) = Span(t) \cup Span(b)
                   /\ \A c \in AnyBlock : Apart(big, c) <=> Apart(t, c) /\ Apart(b, c)
<1> DEFINE p == t.pfn
           k == t.order
           q == Buddy(p, k)
           b == Block(q, k)
           low == IF p % Size(k + 1) = 0 THEN p ELSE p - Size(k)
           big == Block(low, k + 1)
<1>1. p \in Int /\ k \in Nat /\ p % Size(k) = 0 /\ Size(k) \in Nat /\ Size(k) >= 1 /\ t = Block(p, k)
  BY SpanIs, BlockIs DEF Aligned
<1>2. /\ q \in Int /\ q # p /\ q % Size(k) = 0
      /\ \/ p % Size(k + 1) = 0 /\ q = p + Size(k)
         \/ (p - Size(k)) % Size(k + 1) = 0 /\ q = p - Size(k)
  BY <1>1, BuddyIs
<1>3. b \in AnyBlock /\ b.pfn = q /\ b.order = k /\ Aligned(b)
  BY <1>1, <1>2, BlockIs DEF Aligned
<1> HIDE DEF p, k, q, b
<1>4. Apart(b, t)
  BY <1>1, <1>2, <1>3 DEF Apart, p, k
<1>5. low \in Int /\ low % Size(k + 1) = 0
  BY <1>1, <1>2
<1>6. \/ t = Block(low, k) /\ b = Block(low + Size(k), k)
      \/ b = Block(low, k) /\ t = Block(low + Size(k), k)
  <2>1. \/ p = low /\ q = low + Size(k)
        \/ q = low /\ p = low + Size(k)
    <3>1. CASE p % Size(k + 1) = 0
      <4>1. low = p
        BY <3>1
      <4>2. CASE q = p + Size(k)
        BY <4>1, <4>2
      <4>3. CASE (p - Size(k)) % Size(k + 1) = 0 /\ q = p - Size(k)
        <5>1. Buddy(p, k) = p + Size(k)
          BY <3>1, <1>1, HalvesAre
        <5> QED BY <4>3, <5>1, <1>1 DEF q
      <4> QED BY <4>2, <4>3, <1>2
    <3>2. CASE ~(p % Size(k + 1) = 0)
      <4>1. low = p - Size(k)
        BY <3>2
      <4> QED BY <4>1, <3>2, <1>1, <1>2
    <3> QED BY <3>1, <3>2
  <2> HIDE DEF low
  <2>2. b = Block(q, k)
    BY DEF b
  <2> QED BY <2>1, <2>2, <1>1
<1> HIDE DEF low, big
<1>7. big \in AnyBlock /\ big.order = k + 1 /\ Aligned(big)
  <2>1. big \in AnyBlock /\ big.order = k + 1 /\ big.pfn = low
    BY <1>1, <1>5, BlockIs DEF big
  <2> QED BY <2>1, <1>5 DEF Aligned
<1>8. /\ Span(big) = Span(t) \cup Span(b)
      /\ \A c \in AnyBlock : Apart(big, c) <=> Apart(t, c) /\ Apart(b, c)
  <2>1. /\ Span(big) = Span(Block(low, k)) \cup Span(Block(low + Size(k), k))
        /\ \A c \in AnyBlock : Apart(big, c) <=> Apart(Block(low, k), c) /\ Apart(Block(low + Size(k), k), c)
    BY <1>1, <1>5, PairIs DEF big
  <2> QED BY <2>1, <1>6
<1> QED BY <1>3, <1>4, <1>7, <1>8 DEF b, q, p, k

-------------------------------------------------------------------------------
(* The inductive invariant.                                                 *)

\* The arena is cut up by the blocks listed, held and in transit, and by
\* nothing twice; once seeded, to the last unreserved page.
Cut ==
    /\ Tiling(listed \cup held \cup InTransit)
    /\ listed \cap held = {}
    /\ InTransit \cap (listed \cup held) = {}
    /\ op.phase # "seed" => Covers(listed \cup held \cup InTransit)

\* What is below the page that seed has reached is cut up, into blocks of
\* which none could have been larger.
Seeding ==
    op.phase = "seed" =>
        /\ held = {}
        /\ op.pfn \in Base .. Base + Count
        /\ \A p \in Pages \ Reserved : p < op.pfn => \E b \in listed : p \in Span(b)
        /\ \A d \in listed :
              /\ d.pfn + Size(d.order) <= op.pfn
              /\ d.order < MaxOrder /\ d.pfn % Size(d.order + 1) = 0 =>
                    ~(Span(Block(d.pfn, d.order + 1)) \subseteq Pages \ Reserved)

Working ==
    /\ op.phase = "idle" => op = Idle
    /\ op.phase = "split" => op.want <= op.order

NoBuddies(L) ==
    \A b \in L : b.order < MaxOrder => Block(Buddy(b.pfn, b.order), b.order) \notin L

\* A page marked free is no reserved one.
FreeUnreserved == \A p \in Pages : entry[p].free => p \notin Reserved

IInv ==
    /\ TypeOK
    /\ Cut
    /\ Seeding
    /\ Working
    /\ EntriesTrue
    /\ FreeUnreserved
    /\ NoBuddies(listed)
    /\ Linked(lists, listed)

LEMMA NoBuddiesAdd ==
  ASSUME NEW L, NoBuddies(L), NEW b, Tiling(L \cup {b}),
         b.order < MaxOrder => Block(Buddy(b.pfn, b.order), b.order) \notin L
  PROVE  NoBuddies(L \cup {b})
<1> SUFFICES ASSUME NEW c \in L \cup {b}, c.order < MaxOrder,
                    Block(Buddy(c.pfn, c.order), c.order) \in L \cup {b}
             PROVE  FALSE
  BY DEF NoBuddies
<1> DEFINE d == Block(Buddy(c.pfn, c.order), c.order)
<1>1. c \in AnyBlock /\ b \in AnyBlock /\ Aligned(c) /\ Aligned(b)
  BY BlockIs DEF Tiling
<1>2. /\ c.pfn \in Int /\ c.order \in Nat /\ c.pfn % Size(c.order) = 0
      /\ b.pfn \in Int /\ b.order \in Nat /\ b.pfn % Size(b.order) = 0
  BY <1>1, SpanIs DEF Aligned
<1>3. Buddy(c.pfn, c.order) # c.pfn /\ Buddy(Buddy(c.pfn, c.order), c.order) = c.pfn
  BY <1>2, BuddyIs
<1>4. d.pfn = Buddy(c.pfn, c.order) /\ d.order = c.order
  BY DEF Block
<1>5. c = Block(c.pfn, c.order) /\ d # c
  BY <1>1, <1>3, <1>4, BlockIs
<1> HIDE DEF d
<1>6. CASE c = b
  <2>1. d \in L
    BY <1>5, <1>6 DEF d
  <2> QED BY <2>1, <1>6 DEF d
<1>7. CASE c # b
  <2>1. c \in L
    BY <1>7
  <2>2. d = b
    BY <2>1 DEF NoBuddies, d
  <2>3. Block(Buddy(b.pfn, b.order), b.order) = c
    BY <2>2, <1>3, <1>4, <1>5
  <2> QED BY <2>1, <2>2, <2>3, <1>4
<1> QED BY <1>6, <1>7

LEMMA NoBuddiesLess ==
  ASSUME NEW L, NoBuddies(L), NEW M \in SUBSET L
  PROVE  NoBuddies(M)
  BY DEF NoBuddies

LEMMA EntryIs ==
  /\ \A k \in Orders : Entry("buddy", TRUE, k) \in Entries /\ Entry("buddy", FALSE, k) \in Entries
  /\ 0 \in Orders /\ Entry("slab", FALSE, 0) \in Entries
<1>1. 0 \in Orders
  BY ArenaAssumption DEF Orders
<1> QED BY <1>1 DEF Entry, Entries

LEMMA OpIs ==
  \A x, p, k, w : /\ Op(x, p, k, w).phase = x /\ Op(x, p, k, w).pfn = p
                  /\ Op(x, p, k, w).order = k /\ Op(x, p, k, w).want = w
  BY DEF Op

LEMMA InitInvariant ==
  Init => IInv
<1> SUFFICES ASSUME Init PROVE IInv
  OBVIOUS
<1>1. /\ lists = EmptyLists /\ listed = {} /\ held = {} /\ InTransit = {}
      /\ op = Op("seed", Base, 0, 0) /\ entry = [p \in Pages |-> Entry("buddy", FALSE, 0)]
  BY DEF Init, InTransit, Op
<1>2. op.phase = "seed" /\ op.pfn = Base
  BY <1>1, OpIs
<1>3. 0 \in Orders /\ NoPage - 1 \in Int /\ NoAnswer.pfn = NoPage - 1
  BY EntryIs DEF NoPage, NoAnswer, Block
<1>4. TypeOK
  <2>1. lists \in FreeListsType
    BY <1>1, EmptyIs
  <2>2. entry \in [Pages -> Entries]
    BY <1>1, EntryIs
  <2>3. op \in [phase : Phases, pfn : Base .. Base + Count \cup {NoPage}, order : Orders, want : Orders]
    BY <1>1, <1>3, ArenaAssumption DEF Op, Phases
  <2>4. answer \in [pfn : Pages \cup {NoPage, NoAnswer.pfn}, order : Orders]
    BY <1>3 DEF Init, NoAnswer, Block
  <2> QED BY <1>1, <2>1, <2>2, <2>3, <2>4 DEF TypeOK
<1>5. Cut
  BY <1>1, <1>2 DEF Cut, Tiling
<1>6. Seeding
  <2>1. \A p \in Pages : ~(p < Base)
    BY ArenaAssumption DEF Pages
  <2>2. Base \in Base .. Base + Count
    BY ArenaAssumption
  <2> QED BY <1>1, <1>2, <2>1, <2>2 DEF Seeding
<1>7. Working /\ EntriesTrue /\ FreeUnreserved /\ NoBuddies(listed)
  BY <1>1, <1>2 DEF Working, EntriesTrue, FreeUnreserved, NoBuddies, Entry
<1>8. Linked(lists, listed)
  <2>1. PagesOf({}) = {} /\ \A k \in Orders : PlacesOf({}, k) = {}
    BY DEF PagesOf, PlacesOf
  <2>2. Cardinality({}) = 0
    BY FS_EmptySet
  <2> QED BY <1>1, <2>1, <2>2, EmptyIs DEF Linked
<1> QED BY <1>4, <1>5, <1>6, <1>7, <1>8 DEF IInv

-------------------------------------------------------------------------------
(* The steps of seed.                                                       *)

LEMMA SeedBlockKeeps ==
  ASSUME IInv, SeedBlock
  PROVE  IInv'
<1> DEFINE p == op.pfn
           k == SeedOrder(p)
           b == Block(p, k)
           L == listed \cup {b}
<1>1. /\ p \in Pages \ Reserved /\ op.phase = "seed"
      /\ lists' = Push(lists, b.pfn, b.order) /\ listed' = L
      /\ entry' = [entry EXCEPT ![p] = Entry("buddy", TRUE, k)]
      /\ op' = [op EXCEPT !.pfn = p + Size(k)] /\ held' = held /\ answer' = answer
  BY DEF SeedBlock, Block
<1>2. /\ k \in Orders /\ k \in Nat /\ b \in BlockType /\ Aligned(b)
      /\ Span(b) \subseteq Pages \ Reserved
      /\ k < MaxOrder /\ p % Size(k + 1) = 0 =>
            ~(Span(Block(p, k + 1)) \subseteq Pages \ Reserved)
  BY <1>1, SeedBlockIs, OrderIs
<1>3. /\ p \in Int /\ b.pfn = p /\ b.order = k /\ b \in AnyBlock
      /\ Size(k) \in Nat /\ Size(k) >= 1
  BY <1>1, <1>2, BlockIs, PageIs, SizeIs
<1> HIDE DEF k, b
<1>4. /\ held = {} /\ \A d \in listed : d.pfn + Size(d.order) <= p
      /\ Tiling(listed) /\ listed \subseteq AnyBlock
      /\ \A d \in listed : d.pfn \in Int /\ Size(d.order) \in Nat /\ Size(d.order) >= 1
  <2>1. held = {} /\ InTransit = {} /\ \A d \in listed : d.pfn + Size(d.order) <= p
    BY <1>1 DEF IInv, Seeding, InTransit
  <2>2. listed \cup held \cup InTransit = listed
    BY <2>1
  <2>3. Tiling(listed)
    BY <2>2 DEF IInv, Cut
  <2>4. listed \subseteq AnyBlock
    BY <2>3, BlockIs DEF Tiling
  <2> QED BY <2>1, <2>3, <2>4, SpanIs
<1>5. Tiling(L) /\ b \notin listed
  <2>1. \A d \in listed : Apart(b, d)
    BY <1>3, <1>4 DEF Apart
  <2> QED BY <2>1, <1>2, <1>4, TilingAdd
<1>6. /\ InTransit' = {} /\ held' = {} /\ op'.phase = "seed" /\ op'.pfn = p + Size(k)
      /\ listed' \cup held' \cup InTransit' = L
  <2>1. op \in [phase : Phases, pfn : Base .. Base + Count \cup {NoPage}, order : Orders, want : Orders]
    BY DEF IInv, TypeOK
  <2>2. op'.phase = "seed" /\ op'.pfn = p + Size(k)
    BY <1>1, <2>1
  <2>3. InTransit' = {}
    BY <2>2 DEF InTransit
  <2> QED BY <2>2, <2>3, <1>1, <1>4
<1>7. p + Size(k) \in Base .. Base + Count
  <2>1. p + Size(k) - 1 \in Span(b)
    BY <1>3, SpanIs
  <2>2. p + Size(k) - 1 \in Pages
    BY <2>1, <1>2
  <2> QED BY <2>2, <1>1, <1>3, ArenaAssumption DEF Pages
<1>8. Cut'
  BY <1>5, <1>6 DEF Cut
<1>9. Seeding'
  <2>1. ASSUME NEW q \in Pages \ Reserved, q < p + Size(k)
        PROVE  \E d \in L : q \in Span(d)
    <3>1. CASE q < p
      BY <3>1, <1>1 DEF IInv, Seeding
    <3>2. CASE ~(q < p)
      <4>1. q \in Span(b)
        BY <3>2, <2>1, <1>3, SpanIs, PageIs
      <4> QED BY <4>1
    <3> QED BY <3>1, <3>2
  <2>2. ASSUME NEW d \in L
        PROVE  /\ d.pfn + Size(d.order) <= p + Size(k)
               /\ d.order < MaxOrder /\ d.pfn % Size(d.order + 1) = 0 =>
                     ~(Span(Block(d.pfn, d.order + 1)) \subseteq Pages \ Reserved)
    <3>1. CASE d = b
      BY <3>1, <1>2, <1>3
    <3>2. CASE d \in listed
      <4>1. d.pfn + Size(d.order) <= p + Size(k)
        BY <3>2, <1>3, <1>4
      <4> QED BY <4>1, <3>2, <1>1 DEF IInv, Seeding
    <3> QED BY <3>1, <3>2
  <2> QED BY <2>1, <2>2, <1>1, <1>6, <1>7 DEF Seeding
<1>10. NoBuddies(L)
  <2>1. ASSUME k < MaxOrder, Block(Buddy(p, k), k) \in listed
        PROVE  FALSE
    <3> DEFINE d == Block(Buddy(p, k), k)
    <3>1. p % Size(k) = 0
      BY <1>2, <1>3 DEF Aligned
    <3>2. /\ Buddy(p, k) \in Int
          /\ \/ p % Size(k + 1) = 0 /\ Buddy(p, k) = p + Size(k)
             \/ (p - Size(k)) % Size(k + 1) = 0 /\ Buddy(p, k) = p - Size(k)
      BY <3>1, <1>2, <1>3, BuddyIs
    <3>3. d.pfn = Buddy(p, k) /\ d.order = k /\ d \in listed
      BY <2>1 DEF Block
    <3> HIDE DEF d
    <3>4. Buddy(p, k) + Size(k) <= p
      BY <3>3, <1>4
    <3>5. (p - Size(k)) % Size(k + 1) = 0 /\ Buddy(p, k) = p - Size(k)
      BY <3>2, <3>4, <1>3
    <3>6. ~(Span(Block(p - Size(k), k + 1)) \subseteq Pages \ Reserved)
      BY <3>3, <3>5, <2>1, <1>1 DEF IInv, Seeding
    <3>7. Span(d) \subseteq Pages \ Reserved
      BY <3>3, <1>4 DEF Tiling
    <3>8. d = Block(p - Size(k), k) /\ b = Block((p - Size(k)) + Size(k), k)
      BY <3>5, <1>3 DEF d, b
    <3>9. p - Size(k) \in Int
      BY <1>3
    <3>10. Span(Block(p - Size(k), k + 1)) = Span(d) \cup Span(b)
      BY <3>8, <3>9, <1>2, PairIs
    <3> QED BY <3>6, <3>7, <3>10, <1>2
  <2>2. b.order < MaxOrder => Block(Buddy(b.pfn, b.order), b.order) \notin listed
    BY <2>1, <1>3
  <2> QED BY <2>2, <1>5, NoBuddiesAdd DEF IInv
<1>11. Linked(lists', L)
  BY <1>1, <1>5, PushLinked DEF IInv
<1>12. entry \in [Pages -> Entries] /\ entry' \in [Pages -> Entries] /\ entry'[p] = Entry("buddy", TRUE, k)
       /\ \A q \in Pages : q # p => entry'[q] = entry[q]
  BY <1>1, <1>2, EntryIs DEF IInv, TypeOK
<1>13. EntriesTrue'
  <2>1. ASSUME NEW d \in L
        PROVE  entry'[d.pfn] = Entry("buddy", TRUE, d.order)
    <3>1. CASE d = b
      BY <3>1, <1>3, <1>12
    <3>2. CASE d # b
      <4>1. d \in listed /\ d.pfn # p /\ d.pfn \in Pages
        BY <3>2, <2>1, <1>3, <1>5, PlacesDiffer DEF Tiling, BlockType
      <4> QED BY <4>1, <1>12 DEF IInv, EntriesTrue
    <3> QED BY <3>1, <3>2
  <2>2. op'.phase # "panic"
    BY <1>6
  <2> QED BY <2>1, <2>2, <1>1, <1>6 DEF EntriesTrue
<1>14. FreeUnreserved'
  BY <1>1, <1>12 DEF IInv, FreeUnreserved
<1>15. Working'
  BY <1>6 DEF Working
<1>16. TypeOK'
  <2>1. op' \in [phase : Phases, pfn : Base .. Base + Count \cup {NoPage}, order : Orders, want : Orders]
    BY <1>1, <1>7 DEF IInv, TypeOK
  <2>2. lists' \in FreeListsType
    BY <1>11 DEF Linked
  <2>3. listed' \subseteq [pfn : Pages, order : Orders]
    BY <1>1, <1>5 DEF Tiling, BlockType
  <2> QED BY <2>1, <2>2, <2>3, <1>1, <1>12 DEF IInv, TypeOK
<1> HIDE DEF L
<1> QED BY <1>1, <1>8, <1>9, <1>10, <1>11, <1>13, <1>14, <1>15, <1>16 DEF IInv

LEMMA SeedSkipKeeps ==
  ASSUME IInv, SeedSkip
  PROVE  IInv'
<1>1. /\ op.phase = "seed" /\ op.pfn \in Pages \cap Reserved /\ op' = [op EXCEPT !.pfn = op.pfn + 1]
      /\ lists' = lists /\ entry' = entry /\ held' = held /\ answer' = answer /\ listed' = listed
  BY DEF SeedSkip
<1>2. op \in [phase : Phases, pfn : Base .. Base + Count \cup {NoPage}, order : Orders, want : Orders]
  BY DEF IInv, TypeOK
<1>3. op'.phase = "seed" /\ op'.pfn = op.pfn + 1 /\ InTransit = {} /\ InTransit' = {}
  BY <1>1, <1>2 DEF InTransit
<1>4. op.pfn + 1 \in Base .. Base + Count /\ op.pfn \in Int
  BY <1>1, ArenaAssumption DEF Pages
<1>5. op' \in [phase : Phases, pfn : Base .. Base + Count \cup {NoPage}, order : Orders, want : Orders]
  BY <1>1, <1>2, <1>4
<1>6. TypeOK'
  BY <1>1, <1>5 DEF IInv, TypeOK
<1>7. Cut'
  BY <1>1, <1>3 DEF IInv, Cut
<1>8. Seeding'
  <2>1. /\ held = {} /\ \A p \in Pages \ Reserved : p < op.pfn => \E b \in listed : p \in Span(b)
        /\ \A d \in listed :
              /\ d.pfn + Size(d.order) <= op.pfn
              /\ d.order < MaxOrder /\ d.pfn % Size(d.order + 1) = 0 =>
                    ~(Span(Block(d.pfn, d.order + 1)) \subseteq Pages \ Reserved)
    BY <1>1 DEF IInv, Seeding
  <2>2. \A p \in Pages \ Reserved : p < op.pfn + 1 => p < op.pfn
    <3>1. \A p \in Pages \ Reserved : p \in Int /\ p # op.pfn
      BY <1>1, PageIs
    <3> QED BY <3>1, <1>4
  <2>3. \A d \in listed : d.pfn + Size(d.order) <= op.pfn + 1
    <3>1. \A d \in listed : d.pfn \in Int /\ Size(d.order) \in Nat
      BY SpanIs, BlockIs DEF IInv, Cut, Tiling
    <3> QED BY <3>1, <2>1, <1>4
  <2> QED BY <2>1, <2>2, <2>3, <1>1, <1>3, <1>4 DEF Seeding
<1>9. Working' /\ EntriesTrue' /\ FreeUnreserved'
  BY <1>1, <1>3 DEF IInv, Working, EntriesTrue, FreeUnreserved
<1> QED BY <1>1, <1>6, <1>7, <1>8, <1>9 DEF IInv

LEMMA SeedDoneKeeps ==
  ASSUME IInv, SeedDone
  PROVE  IInv'
<1>1. /\ op.phase = "seed" /\ op.pfn \notin Pages /\ op' = Idle
      /\ lists' = lists /\ entry' = entry /\ held' = held /\ answer' = answer /\ listed' = listed
  BY DEF SeedDone
<1>2. op'.phase = "idle" /\ InTransit = {} /\ InTransit' = {}
  BY <1>1, OpIs DEF InTransit, Idle
<1>3. Covers(listed \cup held \cup InTransit)
  <2>1. /\ op.pfn \in Base .. Base + Count
        /\ \A p \in Pages \ Reserved : p < op.pfn => \E b \in listed : p \in Span(b)
    BY <1>1 DEF IInv, Seeding
  <2>2. op.pfn = Base + Count
    BY <2>1, <1>1, ArenaAssumption DEF Pages
  <2>3. \A p \in Pages : p < op.pfn
    BY <2>2, ArenaAssumption DEF Pages
  <2> QED BY <2>1, <2>3 DEF Covers
<1>4. TypeOK'
  <2>1. 0 \in Orders
    BY EntryIs
  <2>2. Idle \in [phase : Phases, pfn : Base .. Base + Count \cup {NoPage}, order : Orders, want : Orders]
    BY <2>1 DEF Idle, Op, Phases
  <2> QED BY <2>2, <1>1 DEF IInv, TypeOK
<1>5. Cut'
  BY <1>1, <1>2, <1>3 DEF IInv, Cut
<1>6. Seeding' /\ Working' /\ EntriesTrue' /\ FreeUnreserved'
  BY <1>1, <1>2 DEF IInv, Seeding, Working, EntriesTrue, FreeUnreserved
<1> QED BY <1>1, <1>4, <1>5, <1>6 DEF IInv

-------------------------------------------------------------------------------
(* The steps of alloc.                                                      *)

LEMMA HeadIs ==
  ASSUME NEW l, NEW L, Linked(l, L), NEW k \in Orders
  PROVE  /\ l.heads[k] = NoPage => \A p \in Pages : Block(p, k) \notin L
         /\ l.heads[k] # NoPage => l.heads[k] \in Pages /\ Block(l.heads[k], k) \in L
<1>1. PlacesOf(L, k) \in SUBSET Pages /\ Chained(l, k, PlacesOf(L, k))
  BY DEF Linked, PlacesOf
<1>2. /\ l.heads[k] = NoPage => PlacesOf(L, k) = {}
      /\ PlacesOf(L, k) # {} => l.heads[k] \in PlacesOf(L, k)
      /\ PlacesOf(L, k) = {} => l.heads[k] = NoPage
  BY <1>1, ChainedIs
<1> QED BY <1>2 DEF PlacesOf

\* The block alloc takes is the first of the shortest list that has one.
AllocOrder(k) == CHOOSE j \in Available(k) : \A i \in Available(k) : j <= i

LEMMA AllocOrderIs ==
  ASSUME IInv, NEW k \in Orders, Available(k) # {}
  PROVE  LET j == AllocOrder(k)
             p == lists.heads[j]
         IN  /\ j \in Orders /\ k <= j /\ p \in Pages /\ Block(p, j) \in listed
<1> DEFINE j == AllocOrder(k)
<1>1. Available(k) \in SUBSET Nat
  BY OrderIs DEF Available
<1>2. j \in Available(k)
  BY <1>1, LeastExists DEF AllocOrder
<1>3. j \in Orders /\ k <= j /\ lists.heads[j] # NoPage
  BY <1>2, ArenaAssumption DEF Available, Orders
<1> HIDE DEF j
<1>4. Linked(lists, listed)
  BY DEF IInv
<1> QED BY <1>3, <1>4, HeadIs DEF j

LEMMA AllocKeeps ==
  ASSUME IInv, NEW k \in Orders, Alloc(k)
  PROVE  IInv'
<1> DEFINE j == AllocOrder(k)
           p == lists.heads[j]
           b == Block(p, j)
<1>1. /\ op = Idle /\ Available(k) # {}
      /\ lists' = Unlink(lists, p, j) /\ listed' = listed \ {b} /\ op' = Op("split", p, j, k)
      /\ entry' = entry /\ held' = held /\ answer' = answer
  BY DEF Alloc, AllocOrder
<1>2. j \in Orders /\ k <= j /\ p \in Pages /\ b \in listed
  BY <1>1, AllocOrderIs
<1> HIDE DEF j, p
<1>3. /\ op.phase = "idle" /\ InTransit = {}
      /\ op'.phase = "split" /\ op'.pfn = p /\ op'.order = j /\ op'.want = k /\ InTransit' = {b}
      /\ b.pfn = p /\ b.order = j
  <2>1. op.phase = "idle"
    BY <1>1, OpIs DEF Idle
  <2>2. op'.phase = "split" /\ op'.pfn = p /\ op'.order = j /\ op'.want = k
    BY <1>1, OpIs
  <2>3. InTransit' = {b} /\ InTransit = {}
    BY <2>1, <2>2 DEF InTransit
  <2> QED BY <2>1, <2>2, <2>3 DEF Block
<1> HIDE DEF b
<1>4. listed' \cup held' \cup InTransit' = listed \cup held \cup InTransit
  BY <1>1, <1>2, <1>3
<1>5. Cut'
  BY <1>1, <1>2, <1>3, <1>4 DEF IInv, Cut
<1>6. Tiling(listed)
  BY DEF IInv, Cut, Tiling
<1>7. Linked(lists', listed')
  BY <1>1, <1>2, <1>3, <1>6, UnlinkLinked DEF IInv
<1>8. NoBuddies(listed')
  BY <1>1, NoBuddiesLess DEF IInv
<1>9. TypeOK'
  <2>1. op' \in [phase : Phases, pfn : Base .. Base + Count \cup {NoPage}, order : Orders, want : Orders]
    <3>1. p \in Base .. Base + Count
      BY <1>2, ArenaAssumption DEF Pages
    <3> QED BY <3>1, <1>1, <1>2 DEF Op, Phases
  <2> QED BY <2>1, <1>1, <1>7 DEF IInv, TypeOK, Linked
<1>10. Seeding' /\ Working' /\ EntriesTrue' /\ FreeUnreserved'
  BY <1>1, <1>2, <1>3 DEF IInv, Seeding, Working, EntriesTrue, FreeUnreserved
<1> QED BY <1>5, <1>7, <1>8, <1>9, <1>10 DEF IInv

LEMMA AllocFailsKeeps ==
  ASSUME IInv, NEW k \in Orders, AllocFails(k)
  PROVE  IInv'
<1>1. /\ lists' = lists /\ entry' = entry /\ op' = op /\ held' = held /\ listed' = listed
      /\ answer' = Block(NoPage, k) /\ InTransit' = InTransit
  BY DEF AllocFails, InTransit
<1>2. TypeOK'
  BY <1>1 DEF IInv, TypeOK, Block
<1> QED BY <1>1, <1>2 DEF IInv, Cut, Seeding, Working, EntriesTrue, FreeUnreserved

LEMMA SplitKeeps ==
  ASSUME IInv, Split
  PROVE  IInv'
<1> DEFINE p == op.pfn
           k == op.order - 1
           t == Block(p, k + 1)
           low == Block(p, k)
           up == Block(p + Size(k), k)
           old == listed \cup held \cup InTransit
           new == (old \ {t}) \cup {low, up}
<1>1. /\ op.phase = "split" /\ op.order > op.want
      /\ lists' = Push(lists, up.pfn, up.order) /\ listed' = listed \cup {up}
      /\ entry' = [entry EXCEPT ![up.pfn] = Entry("buddy", TRUE, k)]
      /\ op' = [op EXCEPT !.order = k]
      /\ held' = held /\ answer' = answer
  BY DEF Split, Block
<1>2. op \in [phase : Phases, pfn : Base .. Base + Count \cup {NoPage}, order : Orders, want : Orders]
  BY DEF IInv, TypeOK
<1>3. /\ op.order \in Nat /\ op.want \in Nat /\ k \in Nat /\ k \in Orders /\ k + 1 = op.order
      /\ op.want <= k
  <2>1. op.order \in Orders /\ op.want \in Orders
    BY <1>2
  <2> QED BY <2>1, <1>1, ArenaAssumption DEF Orders
<1>4. /\ op'.phase = "split" /\ op'.pfn = p /\ op'.order = k /\ op'.want = op.want
      /\ InTransit = {t} /\ InTransit' = {low}
  <2>1. op'.phase = "split" /\ op'.pfn = p /\ op'.order = k /\ op'.want = op.want
    BY <1>1, <1>2
  <2>2. InTransit = {Block(op.pfn, op.order)} /\ InTransit' = {Block(op'.pfn, op'.order)}
    BY <1>1, <2>1 DEF InTransit
  <2> QED BY <2>1, <2>2, <1>3, Zenon
<1>5. Tiling(old) /\ Covers(old) /\ t \in old /\ listed \cap held = {} /\ t \notin listed \cup held
  BY <1>1, <1>4 DEF IInv, Cut
<1> HIDE DEF k, p
<1>6. /\ Tiling(new) /\ Covers(new)
      /\ low \notin old /\ up \notin old /\ low # up
      /\ low \in BlockType /\ up \in BlockType
      /\ Buddy(p + Size(k), k) = p
  BY <1>3, <1>5, TilingSplit
<1>7. up.pfn = p + Size(k) /\ up.order = k
  BY DEF Block
<1> HIDE DEF low, up, t
<1>8. listed' \cup held' \cup InTransit' = new
  BY <1>1, <1>4, <1>5
<1>9. Cut'
  <2>1. listed' \cap held' = {} /\ InTransit' \cap (listed' \cup held') = {}
    BY <1>1, <1>4, <1>5, <1>6
  <2> QED BY <2>1, <1>6, <1>8 DEF Cut
<1>10. Tiling(listed \cup {up})
  <2>1. listed \cup {up} \subseteq new
    BY <1>5
  <2> HIDE DEF new
  <2> QED BY <2>1, <1>6 DEF Tiling
<1>11. up \notin listed
  BY <1>6
<1>12. Linked(lists', listed')
  BY <1>1, <1>10, <1>11, PushLinked DEF IInv
<1>13. NoBuddies(listed')
  <2>1. low \notin listed
    BY <1>6
  <2>2. Block(Buddy(up.pfn, up.order), up.order) = low
    BY <1>6, <1>7 DEF low
  <2>3. NoBuddies(listed)
    BY DEF IInv
  <2> QED BY <2>1, <2>2, <2>3, <1>1, <1>10, NoBuddiesAdd
<1>14. up.pfn \in Pages \ Reserved
  <2>1. Span(up) \subseteq Pages \ Reserved /\ up \in AnyBlock
    BY <1>6, <1>10, BlockIs DEF Tiling
  <2> QED BY <2>1, SpanIs
<1>15. entry \in [Pages -> Entries] /\ entry' \in [Pages -> Entries] /\ entry'[up.pfn] = Entry("buddy", TRUE, k)
       /\ \A q \in Pages : q # up.pfn => entry'[q] = entry[q]
  BY <1>1, <1>3, <1>14, EntryIs DEF IInv, TypeOK
<1>16. EntriesTrue'
  <2>1. ASSUME NEW d \in listed \cup held
        PROVE  d.pfn \in Pages /\ d.pfn # up.pfn
    <3>1. d \in new /\ up \in new /\ d # up
      BY <1>5, <1>6
    <3>2. d.pfn # up.pfn
      BY <3>1, <1>6, PlacesDiffer
    <3> HIDE DEF new
    <3> QED BY <3>1, <3>2, <1>6 DEF Tiling, BlockType
  <2>2. \A d \in listed : entry'[d.pfn] = Entry("buddy", TRUE, d.order)
    BY <2>1, <1>15 DEF IInv, EntriesTrue
  <2>3. \A d \in held : ~entry'[d.pfn].free /\ entry'[d.pfn].order = d.order
    BY <2>1, <1>15 DEF IInv, EntriesTrue
  <2> QED BY <2>2, <2>3, <1>1, <1>4, <1>7, <1>15 DEF EntriesTrue
<1>17. FreeUnreserved'
  BY <1>14, <1>15 DEF IInv, FreeUnreserved
<1>18. TypeOK'
  <2>1. op' \in [phase : Phases, pfn : Base .. Base + Count \cup {NoPage}, order : Orders, want : Orders]
    BY <1>1, <1>2, <1>3
  <2>2. listed' \subseteq [pfn : Pages, order : Orders]
    BY <1>1, <1>10 DEF Tiling, BlockType
  <2> QED BY <2>1, <2>2, <1>1, <1>12, <1>15 DEF IInv, TypeOK, Linked
<1>19. Seeding' /\ Working'
  BY <1>3, <1>4 DEF Seeding, Working
<1> QED BY <1>9, <1>12, <1>13, <1>16, <1>17, <1>18, <1>19 DEF IInv

LEMMA GrantKeeps ==
  ASSUME IInv, Grant
  PROVE  IInv'
<1> DEFINE p == op.pfn
           k == op.order
           b == Block(p, k)
<1>1. /\ op.phase = "split" /\ op.order = op.want
      /\ entry' = [entry EXCEPT ![p] = Entry("buddy", FALSE, k)]
      /\ held' = held \cup {b} /\ answer' = b
      /\ lists' = Scribble(lists, Span(b)) /\ op' = Idle /\ listed' = listed
  BY DEF Grant, Block
<1>2. InTransit = {b} /\ op'.phase = "idle" /\ InTransit' = {}
  <2>1. op'.phase = "idle"
    BY <1>1, OpIs DEF Idle
  <2> QED BY <2>1, <1>1 DEF InTransit
<1>3. b.pfn = p /\ b.order = k
  BY DEF Block
<1> HIDE DEF b, p, k
<1>4. listed' \cup held' \cup InTransit' = listed \cup held \cup InTransit
  BY <1>1, <1>2
<1>5. Cut'
  BY <1>1, <1>2, <1>4 DEF IInv, Cut
<1>6. /\ Tiling(listed \cup held \cup {b}) /\ b \notin listed /\ b \notin held
      /\ listed \cap held = {}
  BY <1>2 DEF IInv, Cut
<1>7. b \in BlockType /\ b \in AnyBlock /\ p \in Pages /\ k \in Orders
  BY <1>3, <1>6, BlockIs DEF Tiling, BlockType
<1>8. \A d \in listed \cup held : d \in BlockType /\ d \in AnyBlock /\ d.pfn \in Pages /\ d.pfn \notin Span(b)
  <2> SUFFICES ASSUME NEW d \in listed \cup held
               PROVE  d \in BlockType /\ d \in AnyBlock /\ d.pfn \in Pages /\ d.pfn \notin Span(b)
    OBVIOUS
  <2>1. d \in BlockType /\ d \in AnyBlock /\ d.pfn \in Pages
    BY <1>6, BlockIs DEF Tiling, BlockType
  <2>2. Apart(d, b)
    BY <1>6 DEF Tiling
  <2> QED BY <2>1, <2>2, <1>7, ApartIs, SpanIs
<1>9. Linked(lists', listed')
  BY <1>1, <1>8, ScribbleLinked DEF IInv
<1>10. entry \in [Pages -> Entries] /\ entry' \in [Pages -> Entries] /\ entry'[p] = Entry("buddy", FALSE, k)
       /\ \A q \in Pages : q # p => entry'[q] = entry[q]
  BY <1>1, <1>7, EntryIs DEF IInv, TypeOK
<1>11. EntriesTrue'
  <2>1. \A d \in listed \cup held : entry'[d.pfn] = entry[d.pfn]
    <3>1. p \in Span(b)
      BY <1>3, <1>7, SpanIs
    <3>2. \A d \in listed \cup held : d.pfn # p
      BY <3>1, <1>8
    <3> QED BY <3>2, <1>8, <1>10
  <2>2. ~entry'[p].free /\ entry'[p].order = k
    BY <1>10 DEF Entry
  <2> QED BY <2>1, <2>2, <1>1, <1>2, <1>3 DEF IInv, EntriesTrue
<1>12. FreeUnreserved'
  BY <1>10 DEF IInv, FreeUnreserved, Entry
<1>13. TypeOK'
  <2>1. 0 \in Orders
    BY EntryIs
  <2>2. Idle \in [phase : Phases, pfn : Base .. Base + Count \cup {NoPage}, order : Orders, want : Orders]
    BY <2>1 DEF Idle, Op, Phases
  <2>3. held' \subseteq [pfn : Pages, order : Orders] /\ listed' \subseteq [pfn : Pages, order : Orders]
    BY <1>1, <1>7 DEF BlockType, IInv, TypeOK
  <2>4. answer' \in [pfn : Pages \cup {NoPage, NoAnswer.pfn}, order : Orders]
    BY <1>1, <1>7 DEF BlockType
  <2> QED BY <2>2, <2>3, <2>4, <1>1, <1>9, <1>10 DEF TypeOK, Linked
<1>14. Seeding' /\ Working' /\ NoBuddies(listed')
  BY <1>1, <1>2 DEF IInv, Seeding, Working
<1> QED BY <1>5, <1>9, <1>11, <1>12, <1>13, <1>14 DEF IInv

LEMMA BecomeSlabKeeps ==
  ASSUME IInv, NEW b \in held, BecomeSlab(b)
  PROVE  IInv'
<1> DEFINE p == b.pfn
<1>1. /\ b.order = 0 /\ entry' = [entry EXCEPT ![p] = Entry("slab", FALSE, 0)]
      /\ lists' = lists /\ op' = op /\ held' = held /\ answer' = answer /\ listed' = listed
      /\ InTransit' = InTransit
  BY DEF BecomeSlab, InTransit
<1>2. Tiling(listed \cup held) /\ listed \cap held = {} /\ p \in Pages
  BY DEF IInv, Cut, Tiling, BlockType
<1> HIDE DEF p
<1>3. entry \in [Pages -> Entries] /\ entry' \in [Pages -> Entries] /\ entry'[p] = Entry("slab", FALSE, 0)
       /\ \A q \in Pages : q # p => entry'[q] = entry[q]
  BY <1>1, <1>2, EntryIs DEF IInv, TypeOK
<1>4. \A d \in listed \cup held : d # b => d.pfn \in Pages /\ d.pfn # p
  <2> SUFFICES ASSUME NEW d \in listed \cup held, d # b
               PROVE  d.pfn \in Pages /\ d.pfn # p
    OBVIOUS
  <2>1. d.pfn # p
    BY <1>2, PlacesDiffer DEF p
  <2>2. d.pfn \in Pages
    BY <1>2 DEF Tiling, BlockType
  <2> QED BY <2>1, <2>2
<1>5. EntriesTrue'
  <2>1. \A d \in listed : entry'[d.pfn] = Entry("buddy", TRUE, d.order)
    BY <1>2, <1>3, <1>4 DEF IInv, EntriesTrue
  <2>2. \A d \in held : ~entry'[d.pfn].free /\ entry'[d.pfn].order = d.order
    <3> SUFFICES ASSUME NEW d \in held
                 PROVE  ~entry'[d.pfn].free /\ entry'[d.pfn].order = d.order
      OBVIOUS
    <3>1. CASE d = b
      BY <3>1, <1>1, <1>3 DEF p, Entry
    <3>2. CASE d # b
      BY <3>2, <1>3, <1>4 DEF IInv, EntriesTrue
    <3> QED BY <3>1, <3>2
  <2> QED BY <2>1, <2>2, <1>1 DEF IInv, EntriesTrue
<1>6. FreeUnreserved'
  BY <1>3 DEF IInv, FreeUnreserved, Entry
<1>7. TypeOK'
  BY <1>1, <1>3 DEF IInv, TypeOK
<1>8. Cut' /\ Seeding' /\ Working'
  BY <1>1 DEF IInv, Cut, Seeding, Working
<1> QED BY <1>1, <1>5, <1>6, <1>7, <1>8 DEF IInv

-------------------------------------------------------------------------------
(* The steps of free.                                                       *)

LEMMA FreeKeeps ==
  ASSUME IInv, NEW b \in held, Free(b)
  PROVE  /\ IInv'
         /\ op' = Op("merge", b.pfn, b.order, 0)
<1>1. /\ op = Idle /\ held' = held \ {b} /\ answer' = NoAnswer
      /\ op' = (IF entry[b.pfn].free THEN Op("panic", b.pfn, 0, 0)
                ELSE Op("merge", b.pfn, entry[b.pfn].order, 0))
      /\ lists' = lists /\ entry' = entry /\ listed' = listed
  BY DEF Free
<1>2. ~entry[b.pfn].free /\ entry[b.pfn].order = b.order
  BY DEF IInv, EntriesTrue
<1>3. op' = Op("merge", b.pfn, b.order, 0)
  BY <1>1, <1>2
<1>4. /\ Tiling(listed \cup held \cup InTransit) /\ b \in BlockType /\ b = Block(b.pfn, b.order)
      /\ listed \cap held = {}
  BY BlockIs DEF IInv, Cut, Tiling
<1>5. /\ op.phase = "idle" /\ InTransit = {}
      /\ op'.phase = "merge" /\ InTransit' = {b}
  <2>1. op.phase = "idle"
    BY <1>1, OpIs DEF Idle
  <2>2. op'.phase = "merge" /\ op'.pfn = b.pfn /\ op'.order = b.order
    BY <1>3, OpIs
  <2> QED BY <2>1, <2>2, <1>4 DEF InTransit
<1>6. listed' \cup held' \cup InTransit' = listed \cup held \cup InTransit
  BY <1>1, <1>5
<1>7. Cut'
  BY <1>1, <1>4, <1>5, <1>6 DEF IInv, Cut
<1>8. TypeOK'
  <2>1. b.pfn \in Pages /\ b.order \in Orders /\ 0 \in Orders
    BY <1>4, EntryIs DEF BlockType
  <2>2. b.pfn \in Base .. Base + Count
    BY <2>1, ArenaAssumption DEF Pages
  <2>3. op' \in [phase : Phases, pfn : Base .. Base + Count \cup {NoPage}, order : Orders, want : Orders]
    BY <1>3, <2>1, <2>2 DEF Op, Phases
  <2>4. answer' \in [pfn : Pages \cup {NoPage, NoAnswer.pfn}, order : Orders]
    BY <1>1, <2>1 DEF NoAnswer, Block
  <2> QED BY <2>3, <2>4, <1>1 DEF IInv, TypeOK
<1>9. Seeding' /\ Working' /\ EntriesTrue' /\ FreeUnreserved'
  BY <1>1, <1>5 DEF IInv, Seeding, Working, EntriesTrue, FreeUnreserved
<1> QED BY <1>1, <1>3, <1>7, <1>8, <1>9 DEF IInv

\* A buddy whose entry looks free is a block of the list, whatever stale
\* entries there are behind the first pages of blocks.
LEMMA FreeBuddyListed ==
  ASSUME IInv, op.phase = "merge", FreeBuddy(op.pfn, op.order)
  PROVE  Block(Buddy(op.pfn, op.order), op.order) \in listed
<1> DEFINE t == Block(op.pfn, op.order)
           q == Buddy(op.pfn, op.order)
           k == op.order
           b == Block(q, k)
           all == listed \cup held \cup InTransit
<1>1. /\ q \in Pages /\ entry[q] = Entry("buddy", TRUE, k)
      /\ Tiling(all) /\ Covers(all) /\ InTransit = {t}
  BY DEF FreeBuddy, IInv, Cut, InTransit
<1>2. /\ t \in all /\ t \in AnyBlock /\ Aligned(t) /\ t.pfn = op.pfn /\ t.order = k
      /\ k \in Nat
  BY <1>1, BlockIs, SpanIs DEF Tiling, Block
<1>3. /\ b \in AnyBlock /\ b.pfn = q /\ b.order = k /\ Aligned(b) /\ Apart(b, t)
      /\ \E big \in AnyBlock :
            /\ big.order = k + 1 /\ Aligned(big) /\ Span(big) = Span(t) \cup Span(b)
            /\ \A c \in AnyBlock : Apart(big, c) <=> Apart(t, c) /\ Apart(b, c)
  <2>1. b = Block(Buddy(t.pfn, t.order), t.order) /\ q = Buddy(t.pfn, t.order)
    BY <1>2
  <2> HIDE DEF t, k, q, b
  <2> QED BY <2>1, <1>2, BuddyPair
<1>4. entry[q].free /\ entry[q].order = k
  BY <1>1 DEF Entry
<1>5. q \notin Reserved
  BY <1>1, <1>4 DEF IInv, FreeUnreserved
<1>6. PICK c \in all : q \in Span(c)
  BY <1>1, <1>5 DEF Covers
<1>7. c \in AnyBlock /\ Aligned(c) /\ c.order \in Nat
  BY <1>1, BlockIs, SpanIs DEF Tiling
<1> HIDE DEF t, k, q, b, all
<1>8. q \in Span(b) /\ ~Apart(b, c) /\ ~Apart(c, b)
  BY <1>3, <1>6, <1>7, ApartIs, SpanIs
<1>9. c # t
  BY <1>3, <1>8
<1>10. Apart(t, c)
  BY <1>1, <1>2, <1>6, <1>9 DEF Tiling
<1>11. ~(c.order > k)
  <2> SUFFICES ASSUME c.order > k PROVE FALSE
    OBVIOUS
  <2>1. PICK big \in AnyBlock :
            /\ big.order = k + 1 /\ Aligned(big) /\ Span(big) = Span(t) \cup Span(b)
            /\ \A d \in AnyBlock : Apart(big, d) <=> Apart(t, d) /\ Apart(b, d)
    BY <1>3
  <2>2. ~Apart(big, c) /\ big.order <= c.order
    BY <2>1, <1>2, <1>7, <1>8
  <2>3. Span(t) \subseteq Span(c)
    BY <2>1, <2>2, <1>7, AlignedNest
  <2> QED BY <2>3, <1>2, <1>7, <1>10, ApartIs, SpanIs
<1>12. c.pfn = q
  <2>1. q <= c.pfn
    BY <1>2, <1>3, <1>7, <1>8, <1>11, AlignedNest
  <2>2. c.pfn <= q /\ c.pfn \in Int /\ q \in Int
    BY <1>1, <1>6, <1>7, SpanIs, PageIs
  <2> QED BY <2>1, <2>2
<1>13. c \notin held
  BY <1>4, <1>12 DEF IInv, EntriesTrue
<1>14. c \in listed
  BY <1>1, <1>6, <1>9, <1>13 DEF all
<1>15. c.order = k
  <2>1. entry[c.pfn] = Entry("buddy", TRUE, c.order)
    BY <1>14 DEF IInv, EntriesTrue
  <2>2. entry[c.pfn].order = c.order
    BY <2>1 DEF Entry
  <2> QED BY <2>2, <1>4, <1>12
<1>16. c = b
  BY <1>3, <1>7, <1>12, <1>15, BlockIs
<1> QED BY <1>14, <1>16 DEF b, q, k

LEMMA MergeKeeps ==
  ASSUME IInv, Merge
  PROVE  IInv'
<1> DEFINE p == op.pfn
           k == op.order
           t == Block(p, k)
           b == Block(Buddy(p, k), k)
           low == IF b.pfn < p THEN b.pfn ELSE p
           big == Block(low, k + 1)
           old == listed \cup held \cup InTransit
           new == (old \ {t, b}) \cup {big}
<1>1. /\ op.phase = "merge" /\ k < MaxOrder /\ FreeBuddy(p, k)
      /\ lists' = Scribble(Unlink(lists, b.pfn, b.order), {b.pfn})
      /\ listed' = listed \ {b}
      /\ op' = [op EXCEPT !.pfn = low, !.order = k + 1]
      /\ entry' = entry /\ held' = held /\ answer' = answer
  BY DEF Merge, FreeBuddy
<1>2. op \in [phase : Phases, pfn : Base .. Base + Count \cup {NoPage}, order : Orders, want : Orders]
  BY DEF IInv, TypeOK
<1>3. b \in listed
  BY <1>1, FreeBuddyListed
<1>4. k \in Orders /\ k \in Nat /\ k + 1 \in Orders
  <2>1. k \in Orders
    BY <1>2
  <2> QED BY <2>1, <1>1, ArenaAssumption DEF Orders
<1>5. /\ op'.phase = "merge" /\ op'.pfn = low /\ op'.order = k + 1
      /\ InTransit = {t} /\ InTransit' = {big}
  <2>1. op'.phase = "merge" /\ op'.pfn = low /\ op'.order = k + 1
    BY <1>1, <1>2
  <2>2. InTransit = {t} /\ InTransit' = {Block(op'.pfn, op'.order)}
    BY <1>1, <2>1 DEF InTransit
  <2> QED BY <2>1, <2>2, Zenon
<1>6. Tiling(old) /\ Covers(old) /\ t \in old /\ b \in old /\ listed \cap held = {}
      /\ t \notin listed \cup held
  BY <1>1, <1>3, <1>5 DEF IInv, Cut
<1> HIDE DEF p, k
<1>7. Tiling(new) /\ Covers(new) /\ t # b /\ big \notin old /\ big \in BlockType
  BY <1>1, <1>4, <1>6, TilingMerge
<1>8. big = Block(low, k + 1) /\ low = big.pfn
  BY DEF Block
<1> HIDE DEF low, t, b, big
<1>9. listed' \cup held' \cup InTransit' = new
  BY <1>1, <1>3, <1>5, <1>6
<1>10. Cut'
  <2>1. listed' \cap held' = {} /\ InTransit' \cap (listed' \cup held') = {}
    BY <1>1, <1>5, <1>6, <1>7
  <2> QED BY <2>1, <1>7, <1>9 DEF Cut
<1>11. Tiling(listed)
  BY DEF IInv, Cut, Tiling
<1>12. Linked(lists', listed')
  <2>1. Linked(Unlink(lists, b.pfn, b.order), listed \ {b})
    BY <1>3, <1>11, UnlinkLinked DEF IInv
  <2>2. \A d \in listed \ {b} : d.pfn \notin {b.pfn}
    BY <1>3, <1>11, PlacesDiffer
  <2> QED BY <2>1, <2>2, <1>1, ScribbleLinked
<1>13. NoBuddies(listed')
  BY <1>1, NoBuddiesLess DEF IInv
<1>14. TypeOK'
  <2>1. low \in Base .. Base + Count
    <3>1. low \in Pages
      BY <1>7, <1>8 DEF BlockType
    <3> QED BY <3>1, ArenaAssumption DEF Pages
  <2>2. op' \in [phase : Phases, pfn : Base .. Base + Count \cup {NoPage}, order : Orders, want : Orders]
    BY <1>1, <1>2, <1>4, <2>1
  <2> QED BY <2>2, <1>1, <1>12 DEF IInv, TypeOK, Linked
<1>15. Seeding' /\ Working' /\ EntriesTrue' /\ FreeUnreserved'
  BY <1>1, <1>5 DEF IInv, Seeding, Working, EntriesTrue, FreeUnreserved
<1> QED BY <1>10, <1>12, <1>13, <1>14, <1>15 DEF IInv

LEMMA MergeDoneKeeps ==
  ASSUME IInv, MergeDone
  PROVE  IInv'
<1> DEFINE p == op.pfn
           k == op.order
           b == Block(p, k)
           L == listed \cup {b}
<1>1. /\ op.phase = "merge" /\ ~FreeBuddy(p, k)
      /\ lists' = Push(lists, b.pfn, b.order) /\ listed' = L
      /\ entry' = [entry EXCEPT ![p] = Entry("buddy", TRUE, k)]
      /\ op' = Idle /\ held' = held /\ answer' = answer
  BY DEF MergeDone, Block
<1>2. InTransit = {b} /\ op'.phase = "idle" /\ InTransit' = {}
  <2>1. op'.phase = "idle"
    BY <1>1, OpIs DEF Idle
  <2> QED BY <2>1, <1>1 DEF InTransit
<1>3. b.pfn = p /\ b.order = k
  BY DEF Block
<1>4. \A d \in listed : d = Block(Buddy(p, k), k) => d.pfn = Buddy(p, k) /\ d.order = k
  BY DEF Block
<1> HIDE DEF b, p, k
<1>5. /\ Tiling(listed \cup held \cup {b}) /\ b \notin listed /\ b \notin held
      /\ listed \cap held = {}
  BY <1>2 DEF IInv, Cut
<1>6. b \in BlockType /\ p \in Pages /\ k \in Orders
  BY <1>3, <1>5 DEF Tiling, BlockType
<1>7. listed' \cup held' \cup InTransit' = listed \cup held \cup InTransit
  BY <1>1, <1>2
<1>8. Cut'
  <2>1. listed' \cap held' = {} /\ InTransit' \cap (listed' \cup held') = {}
    BY <1>1, <1>2, <1>5
  <2>2. Tiling(listed \cup held \cup InTransit) /\ Covers(listed \cup held \cup InTransit)
    BY <1>1 DEF IInv, Cut
  <2> QED BY <2>1, <2>2, <1>7 DEF Cut
<1>9. Tiling(L)
  BY <1>5 DEF Tiling
<1>10. Linked(lists', listed')
  BY <1>1, <1>5, <1>9, PushLinked DEF IInv
<1>11. NoBuddies(listed')
  <2>1. ASSUME k < MaxOrder, Block(Buddy(p, k), k) \in listed
        PROVE  FALSE
    <3>1. PICK d \in listed : d = Block(Buddy(p, k), k)
      BY <2>1
    <3>2. d.pfn = Buddy(p, k) /\ d.order = k
      BY <3>1, <1>4
    <3>3. d.pfn \in Pages
      BY <1>5 DEF Tiling, BlockType
    <3>4. entry[d.pfn] = Entry("buddy", TRUE, d.order)
      BY DEF IInv, EntriesTrue
    <3> QED BY <3>2, <3>3, <3>4, <2>1, <1>1 DEF FreeBuddy
  <2>2. b.order < MaxOrder => Block(Buddy(b.pfn, b.order), b.order) \notin listed
    BY <2>1, <1>3
  <2> QED BY <2>2, <1>1, <1>9, NoBuddiesAdd DEF IInv
<1>12. p \notin Reserved
  <2>1. Span(b) \subseteq Pages \ Reserved /\ b \in AnyBlock
    BY <1>6, <1>9, BlockIs DEF Tiling
  <2> QED BY <2>1, <1>3, SpanIs
<1>13. entry \in [Pages -> Entries] /\ entry' \in [Pages -> Entries] /\ entry'[p] = Entry("buddy", TRUE, k)
       /\ \A q \in Pages : q # p => entry'[q] = entry[q]
  BY <1>1, <1>6, EntryIs DEF IInv, TypeOK
<1>14. EntriesTrue'
  <2>1. ASSUME NEW d \in listed \cup held
        PROVE  entry'[d.pfn] = entry[d.pfn]
    <3>1. d \in listed \cup held \cup {b} /\ b \in listed \cup held \cup {b} /\ d # b
      BY <1>5
    <3>2. d.pfn # p
      BY <3>1, <1>3, <1>5, PlacesDiffer
    <3>3. d.pfn \in Pages
      BY <1>5 DEF Tiling, BlockType
    <3> QED BY <3>2, <3>3, <1>13
  <2>2. \A d \in listed : entry'[d.pfn] = Entry("buddy", TRUE, d.order)
    BY <2>1 DEF IInv, EntriesTrue
  <2>3. \A d \in held : ~entry'[d.pfn].free /\ entry'[d.pfn].order = d.order
    BY <2>1 DEF IInv, EntriesTrue
  <2> QED BY <2>2, <2>3, <1>1, <1>2, <1>3, <1>13 DEF EntriesTrue
<1>15. FreeUnreserved'
  BY <1>12, <1>13 DEF IInv, FreeUnreserved
<1>16. TypeOK'
  <2>1. 0 \in Orders
    BY EntryIs
  <2>2. Idle \in [phase : Phases, pfn : Base .. Base + Count \cup {NoPage}, order : Orders, want : Orders]
    BY <2>1 DEF Idle, Op, Phases
  <2>3. listed' \subseteq [pfn : Pages, order : Orders]
    BY <1>1, <1>9 DEF Tiling, BlockType
  <2> QED BY <2>2, <2>3, <1>1, <1>10, <1>13 DEF IInv, TypeOK, Linked
<1>17. Seeding' /\ Working'
  BY <1>1, <1>2 DEF Seeding, Working
<1> QED BY <1>8, <1>10, <1>11, <1>14, <1>15, <1>16, <1>17 DEF IInv

-------------------------------------------------------------------------------
(* The invariant, and what follows from it.                                 *)

LEMMA NextInvariant ==
  IInv /\ [Next]_vars => IInv'
<1> SUFFICES ASSUME IInv, [Next]_vars PROVE IInv'
  OBVIOUS
<1>1. CASE SeedBlock
  BY <1>1, SeedBlockKeeps
<1>2. CASE SeedSkip
  BY <1>2, SeedSkipKeeps
<1>3. CASE SeedDone
  BY <1>3, SeedDoneKeeps
<1>4. ASSUME NEW k \in Orders, Alloc(k)
      PROVE  IInv'
  BY <1>4, AllocKeeps
<1>5. ASSUME NEW k \in Orders, AllocFails(k)
      PROVE  IInv'
  BY <1>5, AllocFailsKeeps
<1>6. CASE Split
  BY <1>6, SplitKeeps
<1>7. CASE Grant
  BY <1>7, GrantKeeps
<1>8. ASSUME NEW b \in held, BecomeSlab(b)
      PROVE  IInv'
  BY <1>8, BecomeSlabKeeps
<1>9. ASSUME NEW b \in held, Free(b)
      PROVE  IInv'
  BY <1>9, FreeKeeps
<1>10. CASE Merge
  BY <1>10, MergeKeeps
<1>11. CASE MergeDone
  BY <1>11, MergeDoneKeeps
<1>12. CASE UNCHANGED vars
  <2>1. InTransit' = InTransit
    BY <1>12 DEF vars, InTransit
  <2> QED BY <2>1, <1>12 DEF vars, IInv, TypeOK, Cut, Seeding, Working, EntriesTrue, FreeUnreserved
<1> QED BY <1>1, <1>2, <1>3, <1>4, <1>5, <1>6, <1>7, <1>8, <1>9, <1>10, <1>11, <1>12 DEF Next

THEOREM Invariant ==
  Spec => []IInv
BY InitInvariant, NextInvariant, PTL DEF Spec

\* However blocks are split, granted, freed and merged, the blocks listed, held
\* and in transit cut the arena up: aligned, apart, off the reserved pages, and
\* without losing one (frames/mod.rs seed, alloc, free).
THEOREM StaysPartitioned ==
  Spec => []Partition
<1>1. IInv => Partition
  <2> SUFFICES ASSUME IInv PROVE Partition
    OBVIOUS
  <2> DEFINE blocks == listed \cup held \cup InTransit
  <2>1. /\ Tiling(blocks) /\ listed \cap held = {} /\ InTransit \cap (listed \cup held) = {}
        /\ op.phase # "seed" => Covers(blocks)
    BY DEF IInv, Cut
  <2> HIDE DEF blocks
  <2>2. op.phase # "seed" => Pages \ Reserved = UNION {Span(b) : b \in blocks}
    <3>1. UNION {Span(b) : b \in blocks} \subseteq Pages \ Reserved
      BY <2>1 DEF Tiling
    <3>2. Covers(blocks) => Pages \ Reserved \subseteq UNION {Span(b) : b \in blocks}
      BY DEF Covers
    <3> QED BY <3>1, <3>2, <2>1
  <2>3. /\ \A b \in blocks : Aligned(b) /\ Span(b) \subseteq Pages \ Reserved
        /\ \A b, c \in blocks : b # c => Apart(b, c)
    BY <2>1 DEF Tiling
  <2> QED BY <2>1, <2>2, <2>3 DEF Partition, blocks
<1> QED BY <1>1, Invariant, PTL

\* free may trust the entry of a block's first page for its state and order, and
\* never panics over a block its caller holds (frames/mod.rs free, pages.rs).
THEOREM EntriesStayTrue ==
  Spec => []EntriesTrue
<1>1. IInv => EntriesTrue
  BY DEF IInv
<1> QED BY <1>1, Invariant, PTL

\* No two free buddies survive an operation: the merge loop of free, and the
\* cuts of seed and alloc, never leave a pair behind (frames/mod.rs).
THEOREM StaysCoalesced ==
  Spec => []Coalesced
<1>1. IInv => Coalesced
  BY DEF IInv, Coalesced, NoBuddies
<1> QED BY <1>1, Invariant, PTL

\* Each list links exactly the blocks of its order, both ways, and pages counts
\* their pages (frames/lists.rs push, unlink).
THEOREM ListsStaySound ==
  Spec => []ListsSound
<1>1. IInv => ListsSound
  <2> SUFFICES ASSUME IInv PROVE ListsSound
    OBVIOUS
  <2>1. ASSUME NEW k \in Orders
        PROVE  WellLinked(lists, k, {p \in Pages : Block(p, k) \in listed})
    <3>1. Chained(lists, k, PlacesOf(listed, k)) /\ PlacesOf(listed, k) \in SUBSET Pages
      BY DEF IInv, Linked, PlacesOf
    <3>2. WellLinked(lists, k, PlacesOf(listed, k))
      BY <3>1, ChainedIsWellLinked
    <3> QED BY <3>2 DEF PlacesOf
  <2>2. lists.pages = Cardinality(UNION {Span(b) : b \in listed})
    BY DEF IInv, Linked, PagesOf
  <2> QED BY <2>1, <2>2 DEF ListsSound, IInv
<1> QED BY <1>1, Invariant, PTL

-------------------------------------------------------------------------------
(* The callers' view: Frames implements PageAllocator.                      *)

\* alloc fails only when it must.  Were an aligned run of the order free, take
\* the least listed block in it: the page that its buddy starts at is free too,
\* and no block of the lists can cover it.
LEMMA RefusesForWant ==
  ASSUME IInv, op.phase = "idle", NEW k \in Orders, Available(k) = {}
  PROVE  Allocator!Rooms(k) = {}
<1> SUFFICES ASSUME NEW p \in Allocator!Rooms(k) PROVE FALSE
  OBVIOUS
<1> DEFINE R == Block(p, k)
           S == {c.order : c \in {d \in listed : ~Apart(d, R)}}
<1>1. /\ Tiling(listed \cup held) /\ Covers(listed \cup held) /\ Linked(lists, listed)
      /\ NoBuddies(listed)
  <2>1. InTransit = {}
    BY DEF InTransit
  <2>2. listed \cup held \cup InTransit = listed \cup held
    BY <2>1
  <2> QED BY <2>2 DEF IInv, Cut
<1>2. /\ p \in Pages \ Reserved /\ p % Size(k) = 0
      /\ \A x \in Span(R) : x \in Pages \ Reserved /\ \A b \in held : x \notin Span(b)
  BY DEF Allocator!Rooms, Allocator!Free, Allocator!Span, Span, Size, Block
<1>3. R \in AnyBlock /\ Aligned(R) /\ R.pfn = p /\ R.order = k /\ k \in Nat
  BY <1>2, BlockIs, PageIs, OrderIs DEF Aligned
<1> HIDE DEF R
<1>4. \A c \in listed : c \in AnyBlock /\ Aligned(c) /\ c \in BlockType /\ c.order \in Nat
  BY <1>1, BlockIs, SpanIs DEF Tiling
<1>5. \A x \in Span(R) : \E c \in listed : x \in Span(c) /\ ~Apart(c, R)
  <2> SUFFICES ASSUME NEW x \in Span(R)
               PROVE  \E c \in listed : x \in Span(c) /\ ~Apart(c, R)
    OBVIOUS
  <2>1. PICK c \in listed \cup held : x \in Span(c)
    BY <1>1, <1>2 DEF Covers
  <2>2. c \in listed
    BY <2>1, <1>2
  <2>3. ~Apart(c, R)
    BY <2>1, <2>2, <1>3, <1>4, ApartIs
  <2> QED BY <2>1, <2>2, <2>3
<1>6. \A c \in listed : c.order < k
  <2> SUFFICES ASSUME NEW c \in listed, ~(c.order < k) PROVE FALSE
    OBVIOUS
  <2>1. c.order \in Orders /\ c.pfn \in Pages /\ c = Block(c.pfn, c.order) /\ c.order \in k .. MaxOrder
    BY <1>3, <1>4, BlockIs, ArenaAssumption DEF BlockType, Orders
  <2>2. lists.heads[c.order] = NoPage
    BY <2>1 DEF Available
  <2> QED BY <2>1, <2>2, <1>1, HeadIs
<1>7. S \in SUBSET Nat /\ S # {}
  <2>1. S \subseteq Nat
    BY <1>4
  <2>2. p \in Span(R)
    BY <1>3, SpanIs
  <2>3. PICK c \in listed : ~Apart(c, R)
    BY <2>2, <1>5
  <2>4. c.order \in S
    BY <2>3
  <2> QED BY <2>1, <2>4
<1>8. \E m \in S : \A n \in S : m <= n
  <2> HIDE DEF S
  <2> QED BY <1>7, LeastExists
<1>9. PICK c \in listed : /\ ~Apart(c, R)
                          /\ \A d \in listed : ~Apart(d, R) => c.order <= d.order
  BY <1>8
<1> HIDE DEF S
<1> DEFINE b == Block(Buddy(c.pfn, c.order), c.order)
<1>10. /\ b \in AnyBlock /\ b.order = c.order /\ Aligned(b) /\ Apart(b, c)
       /\ \E big \in AnyBlock :
             /\ big.order = c.order + 1 /\ Aligned(big)
             /\ Span(big) = Span(c) \cup Span(b)
             /\ \A d \in AnyBlock : Apart(big, d) <=> Apart(c, d) /\ Apart(b, d)
  BY <1>4, BuddyPair
<1>11. b \notin listed
  <2>1. c.order < MaxOrder
    BY <1>4, <1>6, ArenaAssumption DEF Orders
  <2> QED BY <2>1, <1>1 DEF NoBuddies
<1> HIDE DEF b
<1>12. PICK big \in AnyBlock :
             /\ big.order = c.order + 1 /\ Aligned(big)
             /\ Span(big) = Span(c) \cup Span(b)
             /\ \A d \in AnyBlock : Apart(big, d) <=> Apart(c, d) /\ Apart(b, d)
  BY <1>10
<1>13. Span(big) \subseteq Span(R)
  <2>1. ~Apart(big, R)
    BY <1>3, <1>9, <1>12
  <2>2. big.order <= R.order
    BY <1>3, <1>4, <1>6, <1>12
  <2> QED BY <2>1, <2>2, <1>3, <1>12, AlignedNest
<1>14. b.pfn \in Span(b) /\ b.pfn \in Span(R)
  BY <1>10, <1>12, <1>13, SpanIs
<1>15. PICK e \in listed : b.pfn \in Span(e) /\ ~Apart(e, R)
  BY <1>5, <1>14
<1>16. ~Apart(b, e) /\ c.order <= e.order
  BY <1>4, <1>9, <1>10, <1>14, <1>15, ApartIs
<1>17. CASE e.order = c.order
  <2>1. b = e
    BY <1>4, <1>10, <1>16, <1>17, AlignedNest
  <2> QED BY <2>1, <1>11
<1>18. CASE e.order # c.order
  <2>1. big.order <= e.order
    BY <1>4, <1>12, <1>16, <1>18
  <2>2. ~Apart(big, e)
    BY <1>4, <1>12, <1>16
  <2>3. Span(c) \subseteq Span(e)
    BY <2>1, <2>2, <1>4, <1>12, AlignedNest
  <2>4. ~Apart(c, e)
    BY <2>3, <1>4, ApartIs, SpanIs
  <2>5. c # e
    BY <1>18
  <2> QED BY <2>4, <2>5, <1>1 DEF Tiling
<1> QED BY <1>17, <1>18

LEMMA GrantImplements ==
  ASSUME IInv, Grant
  PROVE  Allocator!Next
<1> DEFINE p == op.pfn
           k == op.order
           b == Block(p, k)
<1>1. /\ op.phase = "split" /\ held' = held \cup {b} /\ answer' = b
  BY DEF Grant, Block
<1>2. InTransit = {b} /\ b.pfn = p /\ b.order = k
  BY <1>1 DEF InTransit, Block
<1>3. b = [pfn |-> p, order |-> k] /\ b = [order |-> k, pfn |-> p]
  BY DEF Block
<1> HIDE DEF b, p, k
<1>4. Tiling(listed \cup held \cup {b}) /\ b \notin held
  BY <1>2 DEF IInv, Cut
<1>5. /\ b \in BlockType /\ b \in AnyBlock /\ Span(b) \subseteq Pages \ Reserved
      /\ p % Size(k) = 0 /\ k \in Orders
  <2>1. b \in BlockType /\ Span(b) \subseteq Pages \ Reserved /\ Aligned(b)
    BY <1>4 DEF Tiling
  <2> QED BY <2>1, <1>2, BlockIs DEF BlockType, Aligned
<1>6. \A d \in held : Span(d) \cap Span(b) = {}
  <2> SUFFICES ASSUME NEW d \in held PROVE Span(d) \cap Span(b) = {}
    OBVIOUS
  <2>1. Apart(d, b) /\ d \in AnyBlock
    BY <1>4, BlockIs DEF Tiling
  <2> QED BY <2>1, <1>5, ApartIs
<1>7. \A x \in Span(b) : x \in Allocator!Free
  BY <1>5, <1>6 DEF Allocator!Free, Allocator!Span, Span, Size
<1>8. p \in Allocator!Rooms(k)
  <2>1. p \in Span(b)
    BY <1>2, <1>5, SpanIs
  <2>2. Allocator!Span([pfn |-> p, order |-> k]) = Span(b)
    BY <1>3 DEF Allocator!Span, Span, Size
  <2> QED BY <2>1, <2>2, <1>5, <1>7 DEF Allocator!Rooms, Size
<1>9. Allocator!Grant(k, p)
  BY <1>1, <1>3 DEF Allocator!Grant
<1> QED BY <1>5, <1>8, <1>9 DEF Allocator!Next, Allocator!Orders, Orders

\* Every behaviour of the buddy allocator is one of the PageAllocator its
\* callers rely on: blocks never overlap, each is an aligned run of free pages,
\* and alloc answers None only when no such run is left (frames/mod.rs alloc,
\* free).
THEOREM FramesImplementPageAllocator ==
  Spec => ImplementsPageAllocator
<1>1. Init => Allocator!Init
  BY DEF Init, Allocator!Init, NoAnswer, Allocator!NoAnswer, Block, NoPage, Allocator!NoPage
<1>2. IInv /\ [Next]_vars => [Allocator!Next]_(Allocator!vars)
  <2> SUFFICES ASSUME IInv, [Next]_vars
               PROVE  Allocator!Next \/ (held' = held /\ answer' = answer)
    BY DEF Allocator!vars
  <2>1. CASE SeedBlock \/ SeedSkip \/ SeedDone
    BY <2>1 DEF SeedBlock, SeedSkip, SeedDone
  <2>2. ASSUME NEW k \in Orders, Alloc(k)
        PROVE  held' = held /\ answer' = answer
    BY <2>2 DEF Alloc
  <2>3. ASSUME NEW k \in Orders, AllocFails(k)
        PROVE  Allocator!Next
    <3>1. op.phase = "idle" /\ Available(k) = {}
      BY <2>3 DEF AllocFails, Idle, Op
    <3>2. Allocator!Rooms(k) = {}
      BY <3>1, RefusesForWant
    <3>3. answer' = [order |-> k, pfn |-> NoPage] /\ held' = held
      BY <2>3 DEF AllocFails, Block
    <3>4. Allocator!Refuse(k)
      BY <3>2, <3>3 DEF Allocator!Refuse, Allocator!NoPage, NoPage
    <3> QED BY <3>4 DEF Allocator!Next, Allocator!Orders, Orders
  <2>4. CASE Split
    BY <2>4 DEF Split
  <2>5. CASE Grant
    BY <2>5, GrantImplements
  <2>6. ASSUME NEW b \in held, BecomeSlab(b)
        PROVE  held' = held /\ answer' = answer
    BY <2>6 DEF BecomeSlab
  <2>7. ASSUME NEW b \in held, Free(b)
        PROVE  Allocator!Next
    <3>1. held' = held \ {b} /\ answer' = [order |-> 0, pfn |-> NoPage - 1]
      BY <2>7 DEF Free, NoAnswer, Block
    <3>2. Allocator!Release(b)
      BY <3>1 DEF Allocator!Release, Allocator!NoAnswer, Allocator!NoPage, NoPage
    <3> QED BY <3>2 DEF Allocator!Next
  <2>8. CASE Merge \/ MergeDone
    BY <2>8 DEF Merge, MergeDone
  <2>9. CASE UNCHANGED vars
    BY <2>9 DEF vars
  <2> QED BY <2>1, <2>2, <2>3, <2>4, <2>5, <2>6, <2>7, <2>8, <2>9 DEF Next
<1> QED BY <1>1, <1>2, Invariant, PTL DEF Spec, ImplementsPageAllocator, Allocator!Spec
===============================================================================
