------------------------------ MODULE RingBuffer -------------------------------
(***************************************************************************)
(* lib/ring_buffer.rs: an array with two indices, and a flag that tells a  *)
(* full buffer from an empty one when the indices are equal.               *)
(***************************************************************************)
EXTENDS Integers, Sequences

CONSTANT BufSize    \* RING_BUFFER_SIZE

ASSUME BufSizeAssumption == BufSize \in Nat /\ BufSize >= 1

Places == 0 .. BufSize - 1

\* The buffers that hold bytes of S, and that the two operations leave.
Rings(S) ==
    {r \in [cells : [Places -> S], head : Places, tail : Places, full : BOOLEAN] :
        r.full => r.head = r.tail}

(* A faulty variant of a definition below, used by no specification:        *)
(* the index is left to the next access to wrap.                            *)
AfterUnwrapped(i) == i + 1

\* The index behind i.
After(i) == (i + 1) % BufSize

RingOf(default) == [cells |-> [i \in Places |-> default], head |-> 0, tail |-> 0, full |-> FALSE]

\* A faulty variant of the next: the byte at the tail goes, full or not.
RingPushUnchecked(r, b) ==
    [cells |-> [r.cells EXCEPT ![r.tail % BufSize] = b],
     head  |-> r.head, tail |-> After(r.tail), full |-> After(r.tail) = r.head]

\* push: a full buffer stays as it is.
RingPush(r, b) ==
    IF r.full THEN r
    ELSE [cells |-> [r.cells EXCEPT ![r.tail % BufSize] = b],
          head  |-> r.head, tail |-> After(r.tail), full |-> After(r.tail) = r.head]

\* pop, of a buffer that is not empty: the byte, and what is left.
RingEmpty(r) == ~r.full /\ r.tail = r.head

RingFirst(r) == r.cells[r.head % BufSize]

RingPop(r) == [r EXCEPT !.head = After(@), !.full = FALSE]

\* The bytes between the indices: what the buffer promises to be.
Held(r) == IF r.full THEN BufSize ELSE (r.tail - r.head) % BufSize

Contents(r) == [k \in 1 .. Held(r) |-> r.cells[(r.head + k - 1) % BufSize]]
===============================================================================
