------------------------------ MODULE FreeLists ------------------------------
(***************************************************************************)
(* mm/frames/lists.rs: one list of free blocks for each order, linked      *)
(* through the first two words of the free pages themselves.  A list       *)
(* structure is a record: the heads, the two words of every page, and the  *)
(* count of the pages listed.                                              *)
(***************************************************************************)
EXTENDS Integers

CONSTANTS
    MaxOrder,   \* MAX_ORDER (10 in the code)
    Base,       \* the first page frame of the arena
    Count       \* its pages

ASSUME ArenaAssumption == MaxOrder \in Nat /\ Base \in Nat /\ Count \in Nat /\ Count >= 1

Orders == 0 .. MaxOrder

Pages == Base .. Base + Count - 1

NoPage == -1    \* None, EMPTY in memory

Junk == -2      \* words that hold whatever the page's owner wrote there

Words == Pages \cup {NoPage, Junk}

FreeListsType ==
    [heads : [Orders -> Pages \cup {NoPage}], prev : [Pages -> Words],
     next : [Pages -> Words], pages : Int]

\* FreeLists::empty(), over memory that holds anything.
EmptyLists ==
    [heads |-> [k \in Orders |-> NoPage], prev |-> [p \in Pages |-> Junk],
     next |-> [p \in Pages |-> Junk], pages |-> 0]

\* A faulty variant of unlink, used by no specification: the next block keeps
\* its prev pointer.
UnlinkOneWay(l, p, k) ==
    LET before == l.prev[p]
        after  == l.next[p]
    IN  [l EXCEPT !.heads = IF before = NoPage THEN [@ EXCEPT ![k] = after] ELSE @,
                  !.next  = IF before # NoPage THEN [@ EXCEPT ![before] = after] ELSE @,
                  !.pages = @ - 2 ^ k]

\* push: the page becomes the head, and the old head points back at it.
Push(l, p, k) ==
    LET old == l.heads[k]
    IN  [l EXCEPT !.heads = [@ EXCEPT ![k] = p],
                  !.next  = [@ EXCEPT ![p] = old],
                  !.prev  = [q \in Pages |-> IF q = p THEN NoPage ELSE IF q = old THEN p ELSE @[q]],
                  !.pages = @ + 2 ^ k]

\* unlink: the neighbours the page's own words name are joined; a page with
\* no neighbour before it was the head.
Unlink(l, p, k) ==
    LET before == l.prev[p]
        after  == l.next[p]
    IN  [l EXCEPT !.heads = IF before = NoPage THEN [@ EXCEPT ![k] = after] ELSE @,
                  !.next  = IF before # NoPage THEN [@ EXCEPT ![before] = after] ELSE @,
                  !.prev  = IF after # NoPage THEN [@ EXCEPT ![after] = before] ELSE @,
                  !.pages = @ - 2 ^ k]

\* What the owner of a block does to the words that were links.
Scribble(l, ps) ==
    [l EXCEPT !.prev = [q \in Pages |-> IF q \in ps THEN Junk ELSE @[q]],
              !.next = [q \in Pages |-> IF q \in ps THEN Junk ELSE @[q]]]

\* The blocks of order k one reaches from the head, first to last.  (As a
\* function of the steps taken; after the last block, NoPage.)
Walk(l, k) ==
    LET at[n \in 0 .. Count] ==
            IF n = 0 THEN l.heads[k]
            ELSE IF at[n - 1] \in Pages THEN l.next[at[n - 1]] ELSE NoPage
    IN  at

Chain(l, k) == LET at == Walk(l, k) IN {at[n] : n \in 0 .. Count} \ {NoPage}

\* The list of order k holds exactly the pages ps, each once, with the two
\* directions agreeing.
WellLinked(l, k, ps) ==
    /\ Chain(l, k) = ps
    /\ l.heads[k] # NoPage => l.prev[l.heads[k]] = NoPage
    /\ \A p \in ps : l.next[p] # NoPage => l.prev[l.next[p]] = p
==============================================================================
