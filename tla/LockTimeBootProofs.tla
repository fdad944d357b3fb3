-------------------------- MODULE LockTimeBootProofs --------------------------
(***************************************************************************)
(* Proofs of the properties of the three small parts the kernel rests on:  *)
(* of SpinLock, for every set of cores and locks, every order of nesting   *)
(* without a cycle, and every depth; of Time, for every frequency that the *)
(* rate of the heartbeat divides, every set of durations and every         *)
(* latency; and of Boot, for every set of blobs and every size of the      *)
(* handler table.                                                          *)
(***************************************************************************)
EXTENDS SpinLock, Time, Boot, SequenceTheorems, FiniteSetTheorems, TLAPS

-------------------------------------------------------------------------------
(* SpinLock: the inductive invariant.                                       *)

\* Where what masks is under way, and where the lock called for is not yet taken.
Inside == {"load", "exchange", "try", "restore", "panic"}

Taking == {"lock", "try_lock", "load", "exchange", "try"}

Pcs == {"run"} \cup Kinds \cup Inside

Places == [pc: Pcs, lock: Locks \cup {NoLock}, daif: BOOLEAN, attempts: Nat]

Entries ==
    [kind: {"guard", "closure", "interrupt"}, lock: Locks \cup {NoLock},
     daif: BOOLEAN, at: Places]

TypeOK ==
    /\ locked \in [Locks -> BOOLEAN]
    /\ masked \in [Cores -> BOOLEAN]
    /\ stack \in [Cores -> Seq(Entries)]
    /\ at \in [Cores -> Places]

\* An interrupt comes only before anything was masked, so what it returns to has
\* not masked either.
Resumable(place) ==
    /\ place.pc \in {"run"} \cup Kinds
    /\ place.pc = "run" => place = Running
    /\ ~place.daif
    /\ place.pc \in Taking => place.lock \in Locks

\* A guard's lock was taken under the locks of the guards below it.
UnderAll(open, depth, l) ==
    \A i \in 1 .. depth : open[i].kind = "guard" => l \in Inner[open[i].lock]

\* Only what was opened first found interrupts unmasked, and only that can be
\* the frame of an interrupt.
EntryOK(open, i) ==
    /\ open[i].daif <=> i > 1
    /\ open[i].kind = "guard" <=> open[i].lock \in Locks
    /\ open[i].kind = "interrupt" => i = 1 /\ Resumable(open[i].at)
    /\ open[i].kind = "guard" => UnderAll(open, i - 1, open[i].lock)

StackOK(open) == \A i \in 1 .. Len(open) : EntryOK(open, i)

\* The DAIF a call has read tells whether anything is open.
PlaceOK(place, open) ==
    /\ place.pc = "run" => place = Running
    /\ place.pc # "run" => (place.daif <=> Len(open) > 0)
    /\ place.pc \in Taking => place.lock \in Locks /\ UnderAll(open, Len(open), place.lock)

MaskOK(c) == masked[c] <=> Len(stack[c]) > 0 \/ at[c].pc \in Inside

CoreOK(c) == StackOK(stack[c]) /\ PlaceOK(at[c], stack[c]) /\ MaskOK(c)

\* The place g, a core and a depth, holds a guard of l.
GuardAt(g, l) ==
    /\ g[1] \in Cores
    /\ g[2] \in 1 .. Len(stack[g[1]])
    /\ stack[g[1]][g[2]].lock = l

FlagOK(l) ==
    /\ locked[l] <=> \E c \in Cores, i \in Nat : GuardAt(<<c, i>>, l)
    /\ \A c, d \in Cores, i, j \in Nat :
           GuardAt(<<c, i>>, l) /\ GuardAt(<<d, j>>, l) => c = d /\ i = j

IInv ==
    /\ TypeOK
    /\ \A c \in Cores : CoreOK(c)
    /\ \A l \in Locks : FlagOK(l)

-------------------------------------------------------------------------------
(* Sequences.                                                               *)

LEMMA Pushed ==
  ASSUME NEW S, NEW s \in Seq(S), NEW e \in S
  PROVE  /\ Append(s, e) \in Seq(S)
         /\ Len(Append(s, e)) = Len(s) + 1
         /\ Append(s, e)[Len(s) + 1] = e
         /\ \A i \in 1 .. Len(s) : Append(s, e)[i] = s[i]
  BY AppendProperties

LEMMA OneLess ==
  ASSUME NEW n \in Nat \ {0}
  PROVE  /\ n - 1 \in Int /\ 1 \in Int /\ n - 1 - 1 + 1 = n - 1
         /\ (~(1 <= n - 1) => n - 1 = 0)
  OBVIOUS

LEMMA Popped ==
  ASSUME NEW S, NEW s \in Seq(S), s # <<>>
  PROVE  /\ Len(s) \in Nat \ {0}
         /\ Front(s) \in Seq(S)
         /\ Len(Front(s)) = Len(s) - 1
         /\ \A i \in 1 .. Len(s) - 1 : Front(s)[i] = s[i]
         /\ Last(s) = s[Len(s)] /\ Last(s) \in S
<1>1. Len(s) \in Nat \ {0}
  BY EmptySeq, LenProperties
<1>2. Front(s) = SubSeq(s, 1, Len(s) - 1)
  BY DEF Front
<1> DEFINE n == Len(s) - 1
<1>3. \A i \in 1 .. n : s[i] \in S /\ 1 + i - 1 = i
  <2> TAKE i \in 1 .. n
  <2>1. i \in 1 .. Len(s)
    BY <1>1
  <2> QED BY <2>1, ElementOfSeq
<1>4. /\ Front(s) \in Seq(S) /\ Len(Front(s)) = n
      /\ \A i \in 1 .. n : Front(s)[i] = s[i]
  <2>1. n \in Int /\ 1 \in Int /\ n - 1 + 1 = n /\ (~(1 <= n) => n = 0)
    BY <1>1, OneLess
  <2> HIDE DEF n
  <2>2. /\ SubSeq(s, 1, n) \in Seq(S)
        /\ Len(SubSeq(s, 1, n)) = IF 1 <= n THEN n - 1 + 1 ELSE 0
        /\ \A i \in 1 .. n - 1 + 1 : SubSeq(s, 1, n)[i] = s[1 + i - 1]
    <3>1. /\ SubSeq(s, 1, n) \in Seq(S)
          /\ Len(SubSeq(s, 1, n)) = IF 1 <= n THEN n - 1 + 1 ELSE 0
          /\ \A i \in 1 .. n - 1 + 1 : SubSeq(s, 1, n)[i] = s[1 + i - 1]
      BY <1>3, <2>1, SubSeqProperties
    <3> QED BY <3>1
  <2>3. Front(s) = SubSeq(s, 1, n)
    BY <1>2 DEF n
  <2>4. Len(Front(s)) = n
    BY <2>1, <2>2, <2>3
  <2> QED BY <1>3, <2>1, <2>2, <2>3, <2>4, Zenon
<1>5. Last(s) = s[Len(s)] /\ s[Len(s)] \in S
  BY <1>1, ElementOfSeq DEF Last
<1> QED BY <1>1, <1>4, <1>5

-------------------------------------------------------------------------------
(* SpinLock: the invariant is inductive.                                    *)

LEMMA RunningIs ==
  /\ Running \in Places /\ Running.pc = "run" /\ Running.lock = NoLock /\ ~Running.daif
  BY LockAssumption DEF Running, At, Places, Pcs

LEMMA GuardIs ==
  ASSUME NEW l \in Locks, NEW saved \in BOOLEAN
  PROVE  /\ Guard(l, saved) \in Entries /\ Guard(l, saved).kind = "guard"
         /\ Guard(l, saved).lock = l /\ Guard(l, saved).daif = saved
  BY RunningIs DEF Guard, Entries

LEMMA RestoreIs ==
  ASSUME NEW l \in Locks, NEW saved \in BOOLEAN
  PROVE  /\ At("restore", l, saved, 0) \in Places
         /\ At("restore", l, saved, 0).pc = "restore" /\ At("restore", l, saved, 0).daif = saved
  BY DEF At, Places, Pcs, Inside

LEMMA InitInvariant == InitLock => IInv
<1> SUFFICES ASSUME InitLock PROVE IInv
  OBVIOUS
<1>1. TypeOK
  BY RunningIs, EmptySeq DEF InitLock, TypeOK
<1>2. ASSUME NEW c \in Cores
      PROVE  CoreOK(c)
  <2>1. /\ stack[c] = <<>> /\ Len(stack[c]) = 0 /\ at[c] = Running /\ ~masked[c]
    BY DEF InitLock
  <2> QED BY <2>1, RunningIs DEF CoreOK, StackOK, PlaceOK, MaskOK, Taking, Inside
<1>3. ASSUME NEW l \in Locks
      PROVE  FlagOK(l)
  <2>1. \A c \in Cores, i \in Nat : ~GuardAt(<<c, i>>, l)
    BY DEF InitLock, GuardAt
  <2>2. ~locked[l]
    BY DEF InitLock
  <2> QED BY <2>1, <2>2 DEF FlagOK
<1> QED BY <1>1, <1>2, <1>3 DEF IInv

\* A core is as it was when a step of another left its variables alone.
LEMMA OtherCore ==
  ASSUME NEW d \in Cores, CoreOK(d),
         stack'[d] = stack[d], at'[d] = at[d], masked'[d] = masked[d]
  PROVE  CoreOK(d)'
  BY DEF CoreOK, MaskOK, StackOK, PlaceOK, EntryOK, UnderAll, Resumable

\* What opens and closes no guard leaves the flags right.
LEMMA FlagsKept ==
  ASSUME \A l \in Locks : FlagOK(l), locked' = locked,
         \A c \in Cores, i \in Nat, l \in Locks :
             GuardAt(<<c, i>>, l)' <=> GuardAt(<<c, i>>, l)
  PROVE  \A l \in Locks : FlagOK(l)'
  BY DEF FlagOK

LEMMA StackKept ==
  ASSUME \A l \in Locks : FlagOK(l), UNCHANGED <<locked, stack>>
  PROVE  \A l \in Locks : FlagOK(l)'
<1>1. \A c \in Cores, i \in Nat, l \in Locks : GuardAt(<<c, i>>, l)' <=> GuardAt(<<c, i>>, l)
  BY DEF GuardAt
<1> QED BY <1>1, FlagsKept

\* Below what is pushed the stack is as it was.
LEMMA EntriesBelow ==
  ASSUME NEW old \in Seq(Entries), NEW new \in Seq(Entries), NEW n \in Nat,
         n <= Len(old), n <= Len(new), \A i \in 1 .. n : new[i] = old[i], StackOK(old)
  PROVE  /\ \A i \in 1 .. n : EntryOK(new, i)
         /\ \A l \in Locks : UnderAll(new, n, l) <=> UnderAll(old, n, l)
<1>1. \A l \in Locks, m \in 0 .. n : UnderAll(new, m, l) <=> UnderAll(old, m, l)
  BY DEF UnderAll
<1>2. ASSUME NEW i \in 1 .. n
      PROVE  EntryOK(new, i)
  <2>1. /\ i \in 1 .. Len(old) /\ new[i] = old[i] /\ i - 1 \in 0 .. n
    BY LenProperties
  <2>2. EntryOK(old, i)
    BY <2>1 DEF StackOK
  <2> QED BY <2>1, <2>2, <1>1 DEF EntryOK
<1> QED BY <1>1, <1>2

LEMMA StackPushed ==
  ASSUME NEW open \in Seq(Entries), StackOK(open), NEW e \in Entries,
         e.daif <=> Len(open) > 0,
         e.kind = "guard" <=> e.lock \in Locks,
         e.kind = "interrupt" => Len(open) = 0 /\ Resumable(e.at),
         e.kind = "guard" => UnderAll(open, Len(open), e.lock)
  PROVE  StackOK(Append(open, e))
<1> DEFINE new == Append(open, e)
           n == Len(open)
<1>1. /\ new \in Seq(Entries) /\ Len(new) = n + 1 /\ new[n + 1] = e
      /\ \A i \in 1 .. n : new[i] = open[i]
      /\ n \in Nat
  BY Pushed, LenProperties
<1> HIDE DEF new
<1>2. /\ \A i \in 1 .. n : EntryOK(new, i)
      /\ \A l \in Locks : UnderAll(new, n, l) <=> UnderAll(open, n, l)
  BY <1>1, EntriesBelow
<1>3. EntryOK(new, n + 1)
  <2> HIDE DEF n
  <2>1. n + 1 > 1 <=> n > 0
    BY <1>1
  <2>2. n + 1 - 1 = n /\ (n = 0 => n + 1 = 1)
    BY <1>1
  <2> QED BY <1>1, <1>2, <2>1, <2>2 DEF EntryOK, n
<1>4. \A i \in 1 .. n + 1 : i \in 1 .. n \/ i = n + 1
  BY <1>1
<1> QED BY <1>1, <1>2, <1>3, <1>4 DEF StackOK, new

LEMMA StackPopped ==
  ASSUME NEW open \in Seq(Entries), StackOK(open), open # <<>>
  PROVE  /\ StackOK(Front(open))
         /\ \A l \in Locks : UnderAll(Front(open), Len(open) - 1, l)
                             <=> UnderAll(open, Len(open) - 1, l)
         /\ EntryOK(open, Len(open))
<1> DEFINE n == Len(open) - 1
           f == Front(open)
<1>1. /\ f \in Seq(Entries) /\ Len(f) = n
      /\ \A i \in 1 .. n : f[i] = open[i]
      /\ n \in Nat /\ n <= Len(open) /\ Len(open) \in 1 .. Len(open)
  BY Popped
<1> HIDE DEF n, f
<1>2. n <= Len(f)
  BY <1>1
<1>3. /\ \A i \in 1 .. n : EntryOK(f, i)
      /\ \A l \in Locks : UnderAll(f, n, l) <=> UnderAll(open, n, l)
  BY <1>1, <1>2, EntriesBelow
<1>4. StackOK(f)
  BY <1>1, <1>3 DEF StackOK
<1>5. EntryOK(open, Len(open))
  BY <1>1 DEF StackOK
<1> QED BY <1>3, <1>4, <1>5 DEF n, f

\* One core's step leaves the others, and the flags with their guards.
LEMMA OneCore ==
  ASSUME IInv, NEW c \in Cores,
         NEW open, NEW place, NEW mask,
         stack' = [stack EXCEPT ![c] = open],
         at' = [at EXCEPT ![c] = place],
         masked' = [masked EXCEPT ![c] = mask],
         open \in Seq(Entries), place \in Places, mask \in BOOLEAN,
         StackOK(open), PlaceOK(place, open),
         mask <=> Len(open) > 0 \/ place.pc \in Inside,
         locked' \in [Locks -> BOOLEAN],
         \A l \in Locks : FlagOK(l)'
  PROVE  IInv'
<1>1. TypeOK'
  BY DEF IInv, TypeOK
<1>2. stack'[c] = open /\ at'[c] = place /\ masked'[c] = mask
  BY DEF IInv, TypeOK
<1>3. CoreOK(c)'
  BY <1>2 DEF CoreOK, MaskOK, StackOK, PlaceOK, EntryOK, UnderAll, Resumable
<1>4. ASSUME NEW d \in Cores, d # c
      PROVE  CoreOK(d)'
  <2>1. stack'[d] = stack[d] /\ at'[d] = at[d] /\ masked'[d] = masked[d]
    BY <1>4 DEF IInv, TypeOK
  <2> QED BY <2>1, OtherCore DEF IInv
<1> QED BY <1>1, <1>3, <1>4 DEF IInv

\* Steps within a call.
LEMMA QuietStep ==
  ASSUME IInv, NEW c \in Cores, NEW place \in Places, NEW mask \in BOOLEAN,
         at' = [at EXCEPT ![c] = place],
         masked' = [masked EXCEPT ![c] = mask],
         UNCHANGED <<locked, stack>>,
         PlaceOK(place, stack[c]),
         mask <=> Len(stack[c]) > 0 \/ place.pc \in Inside
  PROVE  IInv'
<1>1. stack' = [stack EXCEPT ![c] = stack[c]] /\ stack[c] \in Seq(Entries)
  BY DEF IInv, TypeOK
<1>2. \A l \in Locks : FlagOK(l)'
  BY StackKept DEF IInv
<1> QED BY <1>1, <1>2, OneCore DEF IInv, TypeOK, CoreOK

\* Opening a closure or entering an interrupt.
LEMMA PushStep ==
  ASSUME IInv, NEW c \in Cores, NEW e \in Entries,
         stack' = [stack EXCEPT ![c] = Append(stack[c], e)],
         at' = [at EXCEPT ![c] = Running],
         masked' = [masked EXCEPT ![c] = TRUE],
         UNCHANGED locked,
         e.kind # "guard", e.lock = NoLock, e.daif <=> Len(stack[c]) > 0,
         e.kind = "interrupt" => Len(stack[c]) = 0 /\ Resumable(e.at)
  PROVE  IInv'
<1> DEFINE old == stack[c]
           new == Append(old, e)
<1>1. /\ old \in Seq(Entries) /\ Len(old) \in Nat /\ StackOK(old)
  BY LenProperties DEF IInv, TypeOK, CoreOK
<1>2. /\ new \in Seq(Entries) /\ Len(new) = Len(old) + 1 /\ new[Len(old) + 1] = e
      /\ \A i \in 1 .. Len(old) : new[i] = old[i]
  BY <1>1, Pushed
<1>3. StackOK(new)
  BY <1>1, StackPushed, LockAssumption
<1>4. PlaceOK(Running, new)
  BY RunningIs DEF PlaceOK, Taking
<1>5. stack'[c] = new /\ \A d \in Cores \ {c} : stack'[d] = stack[d]
  BY DEF IInv, TypeOK
<1> HIDE DEF new
<1>6. ASSUME NEW d \in Cores, NEW i \in Nat, NEW l \in Locks
      PROVE  GuardAt(<<d, i>>, l)' <=> GuardAt(<<d, i>>, l)
  <2>1. CASE d = c
    <3>1. i \in 1 .. Len(new) <=> i \in 1 .. Len(old) \/ i = Len(old) + 1
      BY <1>1, <1>2
    <3>2. e.lock # l
      BY LockAssumption
    <3> QED BY <2>1, <3>1, <3>2, <1>2, <1>5 DEF GuardAt
  <2>2. CASE d # c
    BY <2>2, <1>5 DEF GuardAt
  <2> QED BY <2>1, <2>2
<1>7. \A l \in Locks : FlagOK(l)'
  BY <1>6, FlagsKept DEF IInv
<1>8. TRUE <=> Len(new) > 0 \/ Running.pc \in Inside
  BY <1>1, <1>2
<1> QED BY <1>2, <1>3, <1>4, <1>7, <1>8, OneCore, RunningIs DEF IInv, TypeOK, new

\* The end of a closure or of an interrupt.
LEMMA PopStep ==
  ASSUME IInv, NEW c \in Cores, NEW place \in Places, NEW mask \in BOOLEAN,
         stack[c] # <<>>, Last(stack[c]).kind # "guard",
         stack' = [stack EXCEPT ![c] = Front(stack[c])],
         at' = [at EXCEPT ![c] = place],
         masked' = [masked EXCEPT ![c] = mask],
         UNCHANGED locked,
         PlaceOK(place, Front(stack[c])),
         mask <=> Len(stack[c]) > 1 \/ place.pc \in Inside
  PROVE  IInv'
<1> DEFINE old == stack[c]
           new == Front(old)
<1>1. /\ old \in Seq(Entries) /\ StackOK(old)
  BY DEF IInv, TypeOK, CoreOK
<1>2. /\ Len(old) \in Nat \ {0}
      /\ new \in Seq(Entries) /\ Len(new) = Len(old) - 1
      /\ \A i \in 1 .. Len(old) - 1 : new[i] = old[i]
      /\ Last(old) = old[Len(old)]
  BY <1>1, Popped
<1>3. StackOK(new) /\ EntryOK(old, Len(old))
  BY <1>1, StackPopped
<1>4. stack'[c] = new /\ \A d \in Cores \ {c} : stack'[d] = stack[d]
  BY DEF IInv, TypeOK
<1> HIDE DEF new
<1>5. ASSUME NEW d \in Cores, NEW i \in Nat, NEW l \in Locks
      PROVE  GuardAt(<<d, i>>, l)' <=> GuardAt(<<d, i>>, l)
  <2>1. CASE d = c
    <3>1. i \in 1 .. Len(old) <=> i \in 1 .. Len(new) \/ i = Len(old)
      BY <1>2
    <3>2. i \in 1 .. Len(new) => i # Len(old)
      BY <1>2
    <3>3. old[Len(old)].lock # l
      BY <1>2, <1>3 DEF EntryOK
    <3> QED BY <2>1, <3>1, <3>2, <3>3, <1>2, <1>4 DEF GuardAt
  <2>2. CASE d # c
    BY <2>2, <1>4 DEF GuardAt
  <2> QED BY <2>1, <2>2
<1>6. \A l \in Locks : FlagOK(l)'
  BY <1>5, FlagsKept DEF IInv
<1>7. mask <=> Len(new) > 0 \/ place.pc \in Inside
  BY <1>2
<1> QED BY <1>2, <1>3, <1>6, <1>7, OneCore DEF IInv, TypeOK, new

\* The exchange that takes the lock: its flag was clear, so it had no guard.
LEMMA TakeStep ==
  ASSUME IInv, NEW c \in Cores, at[c].pc \in {"exchange", "try"}, Take(c)
  PROVE  IInv'
<1> DEFINE old == stack[c]
           place == at[c]
           lock == place.lock
           e == Guard(lock, place.daif)
           new == Append(old, e)
<1>1. /\ old \in Seq(Entries) /\ Len(old) \in Nat /\ StackOK(old)
      /\ place \in Places /\ PlaceOK(place, old) /\ masked[c] = TRUE
  BY LenProperties DEF IInv, TypeOK, CoreOK, MaskOK, Inside
<1>2. /\ lock \in Locks /\ ~locked[lock]
      /\ place.daif \in BOOLEAN
      /\ place.daif <=> Len(old) > 0
      /\ UnderAll(old, Len(old), lock)
  BY <1>1 DEF Take, Exchanges, PlaceOK, Taking, Places
<1>3. /\ e \in Entries /\ e.kind = "guard" /\ e.lock = lock /\ e.daif = place.daif
  BY <1>2, GuardIs
<1>4. /\ stack' = [stack EXCEPT ![c] = new]
      /\ at' = [at EXCEPT ![c] = Running]
      /\ masked' = [masked EXCEPT ![c] = TRUE]
      /\ locked' = [locked EXCEPT ![lock] = TRUE]
  BY <1>1 DEF Take, IInv, TypeOK
<1> HIDE DEF e
<1>5. /\ new \in Seq(Entries) /\ Len(new) = Len(old) + 1 /\ new[Len(old) + 1] = e
      /\ \A i \in 1 .. Len(old) : new[i] = old[i]
  BY <1>1, <1>3, Pushed
<1>6. StackOK(new)
  BY <1>1, <1>2, <1>3, StackPushed
<1>7. PlaceOK(Running, new)
  BY RunningIs DEF PlaceOK, Taking
<1>8. stack'[c] = new /\ \A d \in Cores \ {c} : stack'[d] = stack[d]
  BY <1>4 DEF IInv, TypeOK
<1> HIDE DEF new
<1>9. \A d \in Cores, i \in Nat, l \in Locks :
          GuardAt(<<d, i>>, l)'
              <=> GuardAt(<<d, i>>, l) \/ (d = c /\ i = Len(old) + 1 /\ l = lock)
  <2> TAKE d \in Cores, i \in Nat, l \in Locks
  <2>1. CASE d = c
    <3>1. /\ i \in 1 .. Len(new) <=> i \in 1 .. Len(old) \/ i = Len(old) + 1
          /\ i \in 1 .. Len(old) => i # Len(old) + 1
      BY <1>1, <1>5
    <3> QED BY <2>1, <3>1, <1>3, <1>5, <1>8 DEF GuardAt
  <2>2. CASE d # c
    BY <2>2, <1>8 DEF GuardAt
  <2> QED BY <2>1, <2>2
<1>10. \A d \in Cores, i \in Nat : ~GuardAt(<<d, i>>, lock)
  BY <1>2 DEF IInv, FlagOK
<1>11. ASSUME NEW l \in Locks
       PROVE  FlagOK(l)'
  <2>1. CASE l = lock
    <3>1. locked'[l] = TRUE /\ Len(old) + 1 \in Nat
      BY <2>1, <1>1, <1>2, <1>4 DEF IInv, TypeOK
    <3>2. \A d \in Cores, i \in Nat : GuardAt(<<d, i>>, l)' <=> d = c /\ i = Len(old) + 1
      <4> TAKE d \in Cores, i \in Nat
      <4>1. GuardAt(<<d, i>>, l)'
                <=> GuardAt(<<d, i>>, l) \/ (d = c /\ i = Len(old) + 1 /\ l = lock)
        BY <1>9
      <4>2. ~GuardAt(<<d, i>>, l)
        BY <2>1, <1>10
      <4> QED BY <2>1, <4>1, <4>2
    <3> DEFINE m == Len(old) + 1
    <3>3. m \in Nat /\ \A d \in Cores, i \in Nat : GuardAt(<<d, i>>, l)' <=> d = c /\ i = m
      BY <3>1, <3>2, Zenon
    <3> HIDE DEF m
    <3>4. \E d \in Cores, i \in Nat : GuardAt(<<d, i>>, l)'
      BY <3>3, Zenon
    <3>5. \A d, x \in Cores, i, j \in Nat :
             GuardAt(<<d, i>>, l)' /\ GuardAt(<<x, j>>, l)' => d = x /\ i = j
      BY <3>3, Zenon
    <3> QED BY <3>1, <3>4, <3>5, Zenon DEF FlagOK
  <2>2. CASE l # lock
    <3>1. locked'[l] = locked[l]
      BY <2>2, <1>2, <1>4 DEF IInv, TypeOK
    <3>2. \A d \in Cores, i \in Nat : GuardAt(<<d, i>>, l)' <=> GuardAt(<<d, i>>, l)
      BY <2>2, <1>9
    <3>3. FlagOK(l)
      BY DEF IInv
    <3>4. locked'[l] <=> \E d \in Cores, i \in Nat : GuardAt(<<d, i>>, l)'
      <4>1. locked[l] <=> \E d \in Cores, i \in Nat : GuardAt(<<d, i>>, l)
        BY <3>3 DEF FlagOK
      <4> QED BY <3>1, <3>2, <4>1, Zenon
    <3>5. ASSUME NEW d \in Cores, NEW x \in Cores, NEW i \in Nat, NEW j \in Nat,
                 GuardAt(<<d, i>>, l)', GuardAt(<<x, j>>, l)'
          PROVE  d = x /\ i = j
      <4>1. GuardAt(<<d, i>>, l) /\ GuardAt(<<x, j>>, l)
        BY <3>2, <3>5
      <4> QED BY <3>3, <4>1 DEF FlagOK
    <3> QED BY <3>4, <3>5, Zenon DEF FlagOK
  <2> QED BY <2>1, <2>2
<1>12. locked' \in [Locks -> BOOLEAN]
  BY <1>4 DEF IInv, TypeOK
<1>13. TRUE <=> Len(new) > 0 \/ Running.pc \in Inside
  BY <1>1, <1>5
<1> QED BY <1>4, <1>5, <1>6, <1>7, <1>11, <1>12, <1>13, OneCore, RunningIs

\* The drop clears the flag of the only guard the lock has.
LEMMA DropStep ==
  ASSUME IInv, NEW c \in Cores, Drop(c)
  PROVE  IInv'
<1> DEFINE old == stack[c]
           new == Front(old)
           top == old[Len(old)]
           lock == top.lock
           place == At("restore", lock, top.daif, 0)
<1>1. /\ old \in Seq(Entries) /\ StackOK(old) /\ old # <<>> /\ at[c] = Running
  BY DEF IInv, TypeOK, CoreOK, Drop, InnermostIs
<1>2. /\ Len(old) \in Nat \ {0}
      /\ new \in Seq(Entries) /\ Len(new) = Len(old) - 1
      /\ \A i \in 1 .. Len(old) - 1 : new[i] = old[i]
      /\ Top(c) = top /\ top \in Entries
  BY <1>1, Popped DEF Top
<1>3. StackOK(new) /\ EntryOK(old, Len(old))
  BY <1>1, StackPopped
<1>4. /\ lock \in Locks /\ top.daif \in BOOLEAN
      /\ top.daif <=> Len(new) > 0
      /\ masked[c] = TRUE
  <2>1. top.kind = "guard"
    BY <1>2 DEF Drop, InnermostIs
  <2>2. CoreOK(c) /\ masked[c] \in BOOLEAN
    BY DEF IInv, TypeOK
  <2>3. Len(old) > 1 <=> Len(new) > 0
    BY <1>2
  <2>4. Len(old) > 0
    BY <1>2
  <2> QED BY <2>1, <2>2, <2>3, <2>4, <1>2, <1>3 DEF EntryOK, CoreOK, MaskOK, Entries
<1>5. /\ stack' = [stack EXCEPT ![c] = new]
      /\ at' = [at EXCEPT ![c] = place]
      /\ masked' = [masked EXCEPT ![c] = TRUE]
      /\ locked' = [locked EXCEPT ![lock] = FALSE]
  BY <1>2, <1>4 DEF Drop, IInv, TypeOK
<1>6. /\ place \in Places /\ place.pc = "restore" /\ place.daif = top.daif
  BY <1>4, RestoreIs
<1> HIDE DEF place
<1>7. PlaceOK(place, new)
  BY <1>4, <1>6 DEF PlaceOK, Taking
<1>8. stack'[c] = new /\ \A d \in Cores \ {c} : stack'[d] = stack[d]
  BY <1>5 DEF IInv, TypeOK
<1> HIDE DEF new
<1>9. \A d \in Cores, i \in Nat, l \in Locks :
          GuardAt(<<d, i>>, l)' <=> GuardAt(<<d, i>>, l) /\ ~(d = c /\ i = Len(old))
  <2> TAKE d \in Cores, i \in Nat, l \in Locks
  <2>1. CASE d = c
    <3>1. /\ i \in 1 .. Len(old) <=> i \in 1 .. Len(new) \/ i = Len(old)
          /\ i \in 1 .. Len(new) => i # Len(old)
      BY <1>2
    <3> QED BY <2>1, <3>1, <1>2, <1>8 DEF GuardAt
  <2>2. CASE d # c
    BY <2>2, <1>8 DEF GuardAt
  <2> QED BY <2>1, <2>2
<1>10. Len(old) \in Nat /\ GuardAt(<<c, Len(old)>>, lock)
  BY <1>2 DEF GuardAt
<1>11. ASSUME NEW l \in Locks
       PROVE  FlagOK(l)'
  <2>1. CASE l = lock
    <3>1. ~locked'[l]
      BY <2>1, <1>4, <1>5 DEF IInv, TypeOK
    <3>2. \A d \in Cores, i \in Nat : GuardAt(<<d, i>>, l) => d = c /\ i = Len(old)
      BY <2>1, <1>10 DEF IInv, FlagOK
    <3>3. \A d \in Cores, i \in Nat : ~GuardAt(<<d, i>>, l)'
      BY <3>2, <1>9
    <3> QED BY <3>1, <3>3 DEF FlagOK
  <2>2. CASE l # lock
    <3>1. locked'[l] = locked[l]
      BY <2>2, <1>4, <1>5 DEF IInv, TypeOK
    <3>2. ~GuardAt(<<c, Len(old)>>, l)
      BY <2>2 DEF GuardAt
    <3>3. \A d \in Cores, i \in Nat : GuardAt(<<d, i>>, l)' <=> GuardAt(<<d, i>>, l)
      BY <3>2, <1>9
    <3>4. FlagOK(l)
      BY DEF IInv
    <3> QED BY <3>1, <3>3, <3>4 DEF FlagOK
  <2> QED BY <2>1, <2>2
<1>12. /\ locked' \in [Locks -> BOOLEAN]
       /\ TRUE <=> Len(new) > 0 \/ place.pc \in Inside
  BY <1>4, <1>5, <1>6 DEF IInv, TypeOK, Inside
<1> QED BY <1>2, <1>3, <1>5, <1>6, <1>7, <1>11, <1>12, OneCore

\* What a core's invariant says in the places where calls start and go on.
LEMMA CoreFacts ==
  ASSUME IInv, NEW c \in Cores
  PROVE  /\ stack[c] \in Seq(Entries) /\ Len(stack[c]) \in Nat
         /\ stack[c] = <<>> <=> Len(stack[c]) = 0
         /\ at[c] \in Places /\ masked[c] \in BOOLEAN
         /\ StackOK(stack[c]) /\ PlaceOK(at[c], stack[c]) /\ MaskOK(c)
         /\ at = [at EXCEPT ![c] = at[c]]
         /\ masked = [masked EXCEPT ![c] = masked[c]]
  BY LenProperties, EmptySeq DEF IInv, TypeOK, CoreOK

\* What the core holds is what it has guards of: no interrupt is above a guard.
LEMMA MayTakeUnderAll ==
  ASSUME IInv, NEW c \in Cores, NEW l, MayTake(c, l)
  PROVE  UnderAll(stack[c], Len(stack[c]), l)
<1> DEFINE open == stack[c]
<1>1. open \in Seq(Entries) /\ Len(open) \in Nat /\ StackOK(open) /\ DOMAIN open = 1 .. Len(open)
  BY CoreFacts, LenProperties
<1>2. ASSUME NEW i \in 1 .. Len(open), open[i].kind = "guard"
      PROVE  l \in Inner[open[i].lock]
  <2>1. ASSUME NEW j \in i .. Len(open)
        PROVE  open[j].kind # "interrupt"
    <3>1. j \in 1 .. Len(open) /\ (j = 1 => j = i)
      BY <1>1
    <3> QED BY <3>1, <1>1, <1>2 DEF StackOK, EntryOK
  <2>2. open[i].lock \in Held(c)
    BY <1>1, <1>2, <2>1 DEF Held
  <2> QED BY <2>2 DEF MayTake
<1> QED BY <1>2 DEF UnderAll

LEMMA ReadDaifStep ==
  ASSUME IInv, NEW c \in Cores, NEW kind \in Kinds, NEW l \in Locks \cup {NoLock},
         ReadDaif(c, kind, l)
  PROVE  IInv'
<1> DEFINE place == At(kind, l, masked[c], 0)
<1>1. /\ masked[c] \in BOOLEAN
      /\ masked[c] <=> Len(stack[c]) > 0
  BY CoreFacts, RunningIs DEF ReadDaif, MaskOK, Inside
<1>2. /\ place \in Places /\ place.pc = kind /\ place.lock = l
      /\ place.daif = masked[c]
  BY <1>1 DEF At, Places, Pcs
<1>3. kind \in Taking => l \in Locks /\ UnderAll(stack[c], Len(stack[c]), l)
  BY MayTakeUnderAll DEF ReadDaif, Kinds, Taking
<1>4. /\ at' = [at EXCEPT ![c] = place] /\ masked' = [masked EXCEPT ![c] = masked[c]]
      /\ UNCHANGED <<locked, stack>>
  BY CoreFacts DEF ReadDaif
<1>5. kind # "run" /\ kind \notin Inside
  BY DEF Kinds, Inside
<1> HIDE DEF place
<1>6. PlaceOK(place, stack[c])
  BY <1>1, <1>2, <1>3, <1>5 DEF PlaceOK
<1>7. masked[c] <=> Len(stack[c]) > 0 \/ place.pc \in Inside
  BY <1>1, <1>2, <1>5
<1> QED BY <1>1, <1>2, <1>4, <1>6, <1>7, QuietStep

LEMMA MaskStep ==
  ASSUME IInv, NEW c \in Cores, Mask(c)
  PROVE  IInv'
<1>1. /\ stack[c] \in Seq(Entries) /\ at[c] \in Places /\ at[c].pc \in Kinds
      /\ PlaceOK(at[c], stack[c])
      /\ masked' = [masked EXCEPT ![c] = TRUE]
      /\ UNCHANGED locked
  BY CoreFacts DEF Mask, MaskIrqs
<1>2. ASSUME NEW next \in {"load", "try"}, at[c].pc \in Taking,
             at' = [at EXCEPT ![c].pc = next], UNCHANGED stack
      PROVE  IInv'
  <2> DEFINE place == [at[c] EXCEPT !.pc = next]
  <2>1. /\ place \in Places /\ place.pc = next /\ place.lock = at[c].lock
        /\ place.daif = at[c].daif /\ at' = [at EXCEPT ![c] = place]
    BY <1>1, <1>2 DEF Places, Pcs, Inside, IInv, TypeOK
  <2> HIDE DEF place
  <2>2. PlaceOK(place, stack[c])
    BY <1>1, <1>2, <2>1 DEF PlaceOK, Taking
  <2>3. TRUE <=> Len(stack[c]) > 0 \/ place.pc \in Inside
    BY <2>1 DEF Inside
  <2> QED BY <1>1, <1>2, <2>1, <2>2, <2>3, QuietStep
<1>3. CASE at[c].pc = "lock"
  BY <1>2, <1>3 DEF Mask, Taking
<1>4. CASE at[c].pc = "try_lock"
  BY <1>2, <1>4 DEF Mask, Taking
<1>5. CASE at[c].pc = "without_interrupts"
  <2> DEFINE e == Closure(at[c].daif)
  <2>1. /\ at' = [at EXCEPT ![c] = Running]
        /\ stack' = [stack EXCEPT ![c] = Append(stack[c], e)]
    BY <1>5 DEF Mask, IInv, TypeOK
  <2>2. /\ at[c].daif \in BOOLEAN
        /\ at[c].daif <=> Len(stack[c]) > 0
    BY <1>1, <1>5 DEF PlaceOK, Places
  <2>3. /\ e \in Entries /\ e.kind = "closure" /\ e.lock = NoLock
        /\ e.daif = at[c].daif
    BY <2>2, RunningIs DEF Closure, Entries
  <2> HIDE DEF e
  <2>4. e.daif <=> Len(stack[c]) > 0
    BY <2>2, <2>3
  <2> QED BY <1>1, <2>1, <2>3, <2>4, PushStep
<1> QED BY <1>1, <1>3, <1>4, <1>5 DEF Kinds

LEMMA LeaveStep ==
  ASSUME IInv, NEW c \in Cores, Leave(c)
  PROVE  IInv'
<1> DEFINE open == stack[c]
           top == Last(open)
<1>1. /\ open \in Seq(Entries) /\ StackOK(open) /\ open # <<>> /\ top.kind = "closure"
      /\ at[c] = Running
      /\ stack' = [stack EXCEPT ![c] = Front(open)]
      /\ masked' = [masked EXCEPT ![c] = top.daif]
      /\ UNCHANGED <<locked, at>>
  BY CoreFacts DEF Leave, InnermostIs, RestoreDaif, Top, IInv, TypeOK
<1>2. /\ top = open[Len(open)] /\ EntryOK(open, Len(open)) /\ top \in Entries
  BY <1>1, Popped, StackPopped
<1>3. /\ top.daif \in BOOLEAN
      /\ top.daif <=> Len(open) > 1
  BY <1>2 DEF EntryOK, Entries
<1>4. at' = [at EXCEPT ![c] = Running]
  BY <1>1, CoreFacts
<1>5. PlaceOK(Running, Front(open))
  BY RunningIs DEF PlaceOK, Taking
<1>6. top.daif <=> Len(open) > 1 \/ Running.pc \in Inside
  BY <1>3, RunningIs DEF Inside
<1> QED BY <1>1, <1>3, <1>4, <1>5, <1>6, PopStep, RunningIs

\* The steps on the flag that do not take the lock.
LEMMA LookStep ==
  ASSUME IInv, NEW c \in Cores,
         SeesFree(c) \/ Spin(c) \/ LockLoses(c) \/ TryFails(c)
  PROVE  IInv'
<1>1. /\ at[c] \in Places /\ PlaceOK(at[c], stack[c]) /\ at[c].pc \in Inside
      /\ at[c].pc \in Taking
      /\ masked[c] = TRUE /\ masked' = [masked EXCEPT ![c] = TRUE]
      /\ UNCHANGED <<locked, stack>>
  BY CoreFacts DEF SeesFree, Spin, LockLoses, TryFails, MaskOK, Inside, Taking
<1>2. ASSUME NEW place \in Places, place.pc \in Inside, place.daif = at[c].daif,
             place.lock = at[c].lock, at' = [at EXCEPT ![c] = place]
      PROVE  IInv'
  <2>1. PlaceOK(place, stack[c])
    BY <1>1, <1>2 DEF PlaceOK, Inside, Taking
  <2>2. TRUE <=> Len(stack[c]) > 0 \/ place.pc \in Inside
    BY <1>2
  <2> QED BY <1>1, <1>2, <2>1, <2>2, QuietStep
<1>3. \A n \in Nat : Counted(n) \in Nat
  BY DEF Counted
<1>4. CASE SeesFree(c)
  <2> DEFINE place == [at[c] EXCEPT !.pc = "exchange"]
  <2>1. /\ place \in Places /\ place.pc \in Inside /\ place.daif = at[c].daif
        /\ place.lock = at[c].lock /\ at' = [at EXCEPT ![c] = place]
    BY <1>1, <1>4 DEF SeesFree, Places, Pcs, Inside, IInv, TypeOK
  <2> QED BY <1>2, <2>1
<1>5. CASE Spin(c)
  <2> DEFINE attempts == Counted(at[c].attempts)
             next == IF attempts > MaxAttempts THEN "panic" ELSE "load"
             place == [at[c] EXCEPT !.attempts = attempts, !.pc = next]
  <2>1. next \in Inside
    BY DEF Inside
  <2>2. /\ attempts \in Nat
        /\ at' = [at EXCEPT ![c].attempts = attempts, ![c].pc = next]
    BY <1>1, <1>3, <1>5 DEF Spin, Places
  <2> HIDE DEF attempts, next
  <2>3. /\ place \in Places /\ place.pc \in Inside /\ place.daif = at[c].daif
        /\ place.lock = at[c].lock /\ at' = [at EXCEPT ![c] = place]
    BY <1>1, <2>1, <2>2 DEF Places, Pcs, IInv, TypeOK
  <2> QED BY <1>2, <2>3
<1>6. CASE LockLoses(c)
  <2> DEFINE attempts == Counted(at[c].attempts)
             place == [at[c] EXCEPT !.attempts = attempts, !.pc = "load"]
  <2>1. /\ attempts \in Nat
        /\ at' = [at EXCEPT ![c].pc = "load", ![c].attempts = Counted(@)]
    BY <1>1, <1>3, <1>6 DEF LockLoses, Places
  <2>2. /\ place \in Places /\ place.pc \in Inside /\ place.daif = at[c].daif
        /\ place.lock = at[c].lock /\ at' = [at EXCEPT ![c] = place]
    BY <1>1, <2>1 DEF Places, Pcs, Inside, IInv, TypeOK
  <2> QED BY <1>2, <2>2
<1>7. CASE TryFails(c)
  <2> DEFINE place == [at[c] EXCEPT !.pc = "restore"]
  <2>1. /\ place \in Places /\ place.pc \in Inside /\ place.daif = at[c].daif
        /\ place.lock = at[c].lock /\ at' = [at EXCEPT ![c] = place]
    BY <1>1, <1>7 DEF TryFails, Places, Pcs, Inside, IInv, TypeOK
  <2> QED BY <1>2, <2>1
<1> QED BY <1>4, <1>5, <1>6, <1>7

LEMMA RestoreStep ==
  ASSUME IInv, NEW c \in Cores, Restore(c)
  PROVE  IInv'
<1>1. /\ at' = [at EXCEPT ![c] = Running]
      /\ masked' = [masked EXCEPT ![c] = at[c].daif]
      /\ UNCHANGED <<locked, stack>>
      /\ at[c] \in Places /\ PlaceOK(at[c], stack[c]) /\ at[c].pc = "restore"
  BY CoreFacts DEF Restore, RestoreDaif
<1>2. /\ at[c].daif \in BOOLEAN
      /\ at[c].daif <=> Len(stack[c]) > 0
  BY <1>1 DEF PlaceOK, Places
<1>3. PlaceOK(Running, stack[c])
  BY RunningIs DEF PlaceOK, Taking
<1>4. at[c].daif <=> Len(stack[c]) > 0 \/ Running.pc \in Inside
  BY <1>2, RunningIs DEF Inside
<1> QED BY <1>1, <1>2, <1>3, <1>4, QuietStep, RunningIs

LEMMA InterruptStep ==
  ASSUME IInv, NEW c \in Cores, Interrupt(c)
  PROVE  IInv'
<1> DEFINE e == Frame(at[c])
<1>1. /\ at[c] \in Places /\ PlaceOK(at[c], stack[c]) /\ MaskOK(c) /\ ~masked[c]
      /\ Len(stack[c]) \in Nat
      /\ at' = [at EXCEPT ![c] = Running]
      /\ stack' = [stack EXCEPT ![c] = Append(stack[c], e)]
      /\ masked' = [masked EXCEPT ![c] = TRUE]
      /\ UNCHANGED locked
  BY CoreFacts DEF Interrupt, IInv, TypeOK
<1>2. Len(stack[c]) = 0 /\ at[c].pc \in {"run"} \cup Kinds
  BY <1>1 DEF MaskOK, Places, Pcs
<1>3. Resumable(at[c])
  BY <1>1, <1>2, RunningIs DEF Resumable, PlaceOK
<1>4. /\ e \in Entries /\ e.kind = "interrupt" /\ e.lock = NoLock /\ ~e.daif
      /\ e.at = at[c]
  BY <1>1 DEF Frame, Entries
<1> HIDE DEF e
<1>5. e.daif <=> Len(stack[c]) > 0
  BY <1>2, <1>4
<1> QED BY <1>1, <1>2, <1>3, <1>4, <1>5, PushStep

LEMMA ReturnStep ==
  ASSUME IInv, NEW c \in Cores, Eret(c)
  PROVE  IInv'
<1> DEFINE open == stack[c]
           top == Last(open)
<1>1. /\ open \in Seq(Entries) /\ StackOK(open) /\ open # <<>> /\ top.kind = "interrupt"
      /\ stack' = [stack EXCEPT ![c] = Front(open)]
      /\ at' = [at EXCEPT ![c] = top.at]
      /\ masked' = [masked EXCEPT ![c] = FALSE]
      /\ UNCHANGED locked
  BY CoreFacts DEF Eret, InnermostIs, Top, IInv, TypeOK
<1>2. /\ top = open[Len(open)] /\ EntryOK(open, Len(open)) /\ top \in Entries
      /\ Len(open) \in Nat /\ Len(Front(open)) = Len(open) - 1
  BY <1>1, Popped, StackPopped
<1>3. Len(open) = 1 /\ Resumable(top.at) /\ top.at \in Places
  BY <1>1, <1>2 DEF EntryOK, Entries
<1>4. PlaceOK(top.at, Front(open))
  <2>1. Len(Front(open)) = 0 /\ \A l : UnderAll(Front(open), 0, l)
    BY <1>2, <1>3 DEF UnderAll
  <2> QED BY <2>1, <1>3 DEF PlaceOK, Resumable
<1>5. FALSE <=> Len(open) > 1 \/ top.at.pc \in Inside
  BY <1>3 DEF Resumable, Kinds, Inside
<1> QED BY <1>1, <1>3, <1>4, <1>5, PopStep

LEMMA NextInvariant == IInv /\ [NextLock]_lockVars => IInv'
<1> SUFFICES ASSUME IInv, [NextLock]_lockVars PROVE IInv'
  OBVIOUS
<1>1. ASSUME NEW c \in Cores,
             \/ \E kind \in Kinds, l \in Locks \cup {NoLock} : ReadDaif(c, kind, l)
             \/ Mask(c) \/ Leave(c)
             \/ SeesFree(c) \/ Spin(c) \/ LockLoses(c) \/ TryFails(c)
             \/ LockTakes(c) \/ TryTakes(c) \/ Drop(c) \/ Restore(c)
             \/ Interrupt(c) \/ Eret(c)
      PROVE  IInv'
  <2>1. CASE \E kind \in Kinds, l \in Locks \cup {NoLock} : ReadDaif(c, kind, l)
    BY <2>1, ReadDaifStep
  <2>2. CASE Mask(c)
    BY <2>2, MaskStep
  <2>3. CASE Leave(c)
    BY <2>3, LeaveStep
  <2>4. CASE SeesFree(c) \/ Spin(c) \/ LockLoses(c) \/ TryFails(c)
    BY <2>4, LookStep
  <2>5. CASE LockTakes(c) \/ TryTakes(c)
    BY <2>5, TakeStep DEF LockTakes, TryTakes
  <2>6. CASE Drop(c)
    BY <2>6, DropStep
  <2>7. CASE Restore(c)
    BY <2>7, RestoreStep
  <2>8. CASE Interrupt(c)
    BY <2>8, InterruptStep
  <2>9. CASE Eret(c)
    BY <2>9, ReturnStep
  <2> QED BY <1>1, <2>1, <2>2, <2>3, <2>4, <2>5, <2>6, <2>7, <2>8, <2>9
<1>2. CASE UNCHANGED lockVars
  <2>1. \A c \in Cores : CoreOK(c)'
    BY <1>2, OtherCore DEF lockVars, IInv
  <2>2. \A l \in Locks : FlagOK(l)'
    BY <1>2, StackKept DEF lockVars, IInv
  <2>3. TypeOK'
    BY <1>2 DEF lockVars, IInv, TypeOK
  <2> QED BY <2>1, <2>2, <2>3 DEF IInv
<1> QED BY <1>1, <1>2 DEF NextLock

-------------------------------------------------------------------------------
(* SpinLock: the theorems.                                                  *)

\* In every reachable state of cores, locks and interrupts, what the stacks, the
\* masks, the flags and the calls under way are to each other.
THEOREM Invariant == LockSpec => []IInv
BY InitInvariant, NextInvariant, PTL DEF LockSpec

LEMMA GuardsAre ==
  ASSUME IInv, NEW l \in Locks
  PROVE  \A g : g \in Guards(l)
                  <=> \E c \in Cores, i \in Nat : g = <<c, i>> /\ GuardAt(<<c, i>>, l)
<1>1. \A c \in Cores : DOMAIN stack[c] = 1 .. Len(stack[c]) /\ Len(stack[c]) \in Nat
  BY LenProperties DEF IInv, TypeOK
<1>2. \A c \in Cores : \A i \in 1 .. Len(stack[c]) : i \in Nat
  OBVIOUS
<1> QED BY <1>1, <1>2 DEF Guards, GuardAt

\* A lock has one guard while its flag is set and none while it is not: lock,
\* try_lock and drop let no two cores, nor a thread and its interrupt, hold the
\* same lock.
THEOREM ExcludesMutually == LockSpec => []MutualExclusion
<1>1. IInv => MutualExclusion
  <2> SUFFICES ASSUME IInv, NEW l \in Locks
               PROVE  Cardinality(Guards(l)) = IF locked[l] THEN 1 ELSE 0
    BY DEF MutualExclusion
  <2>1. FlagOK(l)
    BY DEF IInv
  <2>2. CASE locked[l]
    <3>1. PICK c \in Cores, i \in Nat : GuardAt(<<c, i>>, l)
      BY <2>1, <2>2 DEF FlagOK
    <3>2. \A d \in Cores, j \in Nat : GuardAt(<<d, j>>, l) => d = c /\ j = i
      BY <2>1, <3>1 DEF FlagOK
    <3>3. \A g : g \in Guards(l) <=> g = <<c, i>>
      <4> TAKE g
      <4>1. <<c, i>> \in Guards(l)
        BY <3>1, GuardsAre
      <4>2. ASSUME g \in Guards(l)
            PROVE  g = <<c, i>>
        <5>1. PICK d \in Cores, j \in Nat : g = <<d, j>> /\ GuardAt(<<d, j>>, l)
          BY <4>2, GuardsAre
        <5> QED BY <3>2, <5>1
      <4> QED BY <4>1, <4>2
    <3>4. Guards(l) = {<<c, i>>}
      BY <3>3
    <3> QED BY <2>2, <3>4, FS_Singleton
  <2>3. CASE ~locked[l]
    <3>1. Guards(l) = {}
      BY <2>1, <2>3, GuardsAre DEF FlagOK
    <3> QED BY <2>3, <3>1, FS_EmptySet
  <2> QED BY <2>2, <2>3
<1> QED BY <1>1, Invariant, PTL

\* Interrupts stay masked until the outermost guard, closure or interrupt on the
\* core ends, and never longer: restore_interrupts puts back what stop_interrupts
\* found.
THEOREM RestoresMask == LockSpec => []MaskRestored
<1>1. IInv => MaskRestored
  <2> SUFFICES ASSUME IInv, NEW c \in Cores
               PROVE  masked[c] <=>
                          \/ stack[c] # <<>>
                          \/ at[c].pc \in {"load", "exchange", "try", "restore", "panic"}
    BY DEF MaskRestored
  <2>1. MaskOK(c) /\ Len(stack[c]) \in Nat
    BY CoreFacts
  <2>2. stack[c] # <<>> <=> Len(stack[c]) > 0
    BY CoreFacts
  <2> QED BY <2>1, <2>2 DEF MaskOK, Inside
<1> QED BY <1>1, Invariant, PTL

\* No cores wait for each other's locks in a circle, a core for its own included:
\* the holder of the innermost lock that a set of cores waits for waits for none
\* of that set's locks, as locks nest in one order only.
THEOREM DeadlockFree == LockSpec => []NoDeadlock
<1>1. IInv => NoDeadlock
  <2> SUFFICES ASSUME IInv, NEW S \in (SUBSET Cores) \ {{}}, \A c \in S : Waits(c, S)
               PROVE  FALSE
    BY DEF NoDeadlock
  <2> DEFINE wanted == {at[c].lock : c \in S}
  <2>1. \A c \in S : /\ at[c].pc \in Taking /\ at[c].lock \in Locks
                     /\ UnderAll(stack[c], Len(stack[c]), at[c].lock)
    BY CoreFacts DEF Waits, Taking, PlaceOK
  <2>2. wanted \in (SUBSET Locks) \ {{}}
    BY <2>1
  <2>3. PICK l \in wanted : Inner[l] \cap wanted = {}
    BY <2>2, LockAssumption
  <2>4. PICK c \in S : at[c].lock = l
    BY <2>3
  <2>5. PICK g \in Guards(l) : g[1] \in S
    BY <2>4 DEF Waits
  <2>6. PICK d \in Cores, i \in Nat : g = <<d, i>> /\ GuardAt(<<d, i>>, l)
    BY <2>1, <2>4, <2>5, GuardsAre
  <2>7. d \in S
    BY <2>5, <2>6
  <2>8. i \in 1 .. Len(stack[d]) /\ stack[d][i].lock = l /\ stack[d][i].kind = "guard"
    BY <2>1, <2>4, <2>6, CoreFacts DEF GuardAt, StackOK, EntryOK
  <2>9. at[d].lock \in Inner[l]
    BY <2>1, <2>7, <2>8 DEF UnderAll
  <2> QED BY <2>3, <2>7, <2>9
<1> QED BY <1>1, Invariant, PTL

-------------------------------------------------------------------------------
(* Time: arithmetic.                                                        *)

LEMMA IntervalIs == Interval \in Nat \ {0} /\ Frequency = Interval * Hz
  BY TimeAssumption, RateAssumption DEF Interval

LEMMA MultipleDivides ==
  ASSUME NEW k \in Nat, NEW d \in Nat \ {0}
  PROVE  (k * d) % d = 0
  OBVIOUS

\* A quotient rounded up is enough: what is rounded is at most that many whole.
LEMMA DivCeilEnough ==
  ASSUME NEW n \in Nat, NEW d \in Nat \ {0}
  PROVE  DivCeil(n, d) \in Nat /\ DivCeil(n, d) * d >= n
  BY DEF DivCeil

LEMMA TicksFromType ==
  ASSUME NEW duration \in Nat
  PROVE  TicksFrom(duration, Hz) \in Nat
<1>1. /\ duration \div Nanos \in Nat /\ duration % Nanos \in Nat
      /\ Hz \in Nat /\ (duration % Nanos) * Hz \in Nat
      /\ (duration \div Nanos) * Hz \in Nat
  BY TimeAssumption
<1>2. DivCeil((duration % Nanos) * Hz, Nanos) \in Nat
  BY <1>1, DivCeilEnough, TimeAssumption
<1> QED BY <1>1, <1>2 DEF TicksFrom

\* The ticks of a duration take at least the duration.
LEMMA TicksFromEnough ==
  ASSUME NEW duration \in Nat
  PROVE  TicksFrom(duration, Hz) * Nanos >= duration * Hz
<1> DEFINE whole == duration \div Nanos
           rest  == duration % Nanos
           up    == DivCeil(rest * Hz, Nanos)
<1>1. /\ Hz \in Nat /\ Nanos \in Nat /\ whole \in Nat /\ rest \in Nat
      /\ duration = whole * Nanos + rest
  BY TimeAssumption
<1>2. rest * Hz \in Nat
  BY <1>1
<1>3. up \in Nat /\ up * Nanos >= rest * Hz
  BY <1>2, DivCeilEnough, TimeAssumption
<1>4. TicksFrom(duration, Hz) = whole * Hz + up
  BY DEF TicksFrom
<1> HIDE DEF whole, rest, up
<1>5. (whole * Hz + up) * Nanos = (whole * Nanos) * Hz + up * Nanos
  BY <1>1, <1>3
<1>6. duration * Hz = (whole * Nanos) * Hz + rest * Hz
  BY <1>1
<1>7. /\ (whole * Nanos) * Hz \in Nat /\ up * Nanos \in Nat /\ rest * Hz \in Nat
  BY <1>1, <1>2, <1>3
<1> QED BY <1>3, <1>4, <1>5, <1>6, <1>7

\* So are that many intervals of the counter.
LEMMA IntervalsEnough ==
  ASSUME NEW duration \in Nat, NEW elapsed \in Nat,
         elapsed >= TicksFrom(duration, Hz) * Interval
  PROVE  elapsed * Nanos >= duration * Frequency
<1> DEFINE T == TicksFrom(duration, Hz)
<1>1. /\ T \in Nat /\ T * Nanos >= duration * Hz
      /\ Interval \in Nat /\ Nanos \in Nat /\ Hz \in Nat /\ Frequency = Interval * Hz
  BY TicksFromType, TicksFromEnough, IntervalIs, TimeAssumption
<1> HIDE DEF T
<1>2. (T * Nanos) * Interval >= (duration * Hz) * Interval
  BY <1>1
<1>3. elapsed * Nanos >= (T * Interval) * Nanos
  BY <1>1 DEF T
<1>4. (T * Interval) * Nanos = (T * Nanos) * Interval
  BY <1>1
<1>5. (duration * Hz) * Interval = duration * Frequency
  BY <1>1
<1>6. /\ (T * Nanos) * Interval \in Nat /\ elapsed * Nanos \in Nat
      /\ duration * Frequency \in Nat
  BY <1>1
<1> QED BY <1>2, <1>3, <1>4, <1>5, <1>6

-------------------------------------------------------------------------------
(* Time: the inductive invariant.                                           *)

Sleepers ==
    [phase: {"awake", "asleep", "slept"}, duration: Nat, from: Nat, target: Nat]

ClockTypes ==
    /\ count \in Nat /\ compare \in Nat /\ ticks \in Nat /\ deadline \in Nat
    /\ core \in {"run", "masked", "rearm", "write", "tick"}
    /\ sleeper \in Sleepers

\* A deadline is a whole number of intervals after timer::start.
Whole(when) == \E k \in 0 .. when : when = k * Interval

\* The compare register is ahead of the ticks that were counted by an interval,
\* and by two from where rearm wrote it until its tick is counted.
TicksBehind ==
    /\ Whole(compare)
    /\ ticks * Interval <= count
    /\ core # "tick" => ticks * Interval + Interval <= compare
    /\ core = "tick" => /\ ticks * Interval + Interval + Interval <= compare
                        /\ ticks * Interval + Interval <= count

\* What rearm has found so far.
Rearming ==
    /\ core \in {"rearm", "write"} => compare <= count /\ compare <= deadline /\ Whole(deadline)
    /\ core = "write" => compare + Interval <= deadline

\* The ticks counted since sleep was called, when ticks stood at start: the first
\* came at a deadline after the call, each other one an interval later or more.
SleptFrom(start) ==
    LET since == ticks - start IN
    /\ start <= ticks
    /\ sleeper.target = Target(start, sleeper.duration)
    /\ sleeper.from <= count
    /\ sleeper.from + since * Interval < compare
    /\ core = "tick" => /\ sleeper.from + since * Interval + Interval < compare
                        /\ sleeper.from + since * Interval <= count
    /\ since > 0 => sleeper.from + since * Interval <= count + Interval

Sleeping ==
    /\ sleeper.phase = "asleep" => \E start \in 0 .. ticks : SleptFrom(start)
    /\ sleeper.phase = "slept"
        => sleeper.from + TicksFrom(sleeper.duration, Hz) * Interval <= count

ClockInvariant == ClockTypes /\ TicksBehind /\ Rearming /\ Sleeping

-------------------------------------------------------------------------------
(* Time: it is inductive.                                                   *)

LEMMA NextInterval ==
  ASSUME NEW n \in Nat
  PROVE  /\ n * Interval \in Nat
         /\ (n + 1) * Interval = n * Interval + Interval
  BY IntervalIs

LEMMA WholeNext ==
  ASSUME NEW when \in Nat, Whole(when)
  PROVE  Whole(when + Interval)
<1>1. PICK k \in 0 .. when : when = k * Interval
  BY DEF Whole
<1>2. when + Interval = (k + 1) * Interval
  BY <1>1, NextInterval
<1>3. k + 1 \in 0 .. (when + Interval)
  BY <1>1, IntervalIs
<1> QED BY <1>2, <1>3 DEF Whole

LEMMA ClockInit == InitTime => ClockInvariant
<1> SUFFICES ASSUME InitTime PROVE ClockInvariant
  OBVIOUS
<1>1. ClockTypes
  BY IntervalIs DEF InitTime, ClockTypes, Sleepers, Awake
<1>2. Whole(Interval)
  BY IntervalIs DEF Whole
<1>3. TicksBehind
  BY <1>2, IntervalIs DEF InitTime, TicksBehind
<1>4. Rearming /\ Sleeping
  BY DEF InitTime, Rearming, Sleeping, Awake
<1> QED BY <1>1, <1>3, <1>4 DEF ClockInvariant

\* What leaves the registers, the ticks and the handler alone, and the counter
\* not behind, keeps what was said of a sleep.
LEMMA SleepingKept ==
  ASSUME ClockTypes, ClockTypes', Sleeping, count' >= count, UNCHANGED <<ticks, sleeper>>,
         \/ UNCHANGED <<compare, core>>
         \/ UNCHANGED compare /\ core' # "tick"
  PROVE  Sleeping'
<1>1. ASSUME sleeper.phase = "asleep"
      PROVE  \E start \in 0 .. ticks : SleptFrom(start)'
  <2>1. PICK start \in 0 .. ticks : SleptFrom(start)
    BY <1>1 DEF Sleeping
  <2> DEFINE since == ticks - start
  <2>2. since \in Nat /\ since * Interval \in Nat /\ sleeper.from \in Nat
    BY IntervalIs DEF ClockTypes, Sleepers
  <2>3. SleptFrom(start)'
    BY <2>1, <2>2, IntervalIs DEF SleptFrom, ClockTypes, Target, TicksFrom
  <2> QED BY <2>3
<1>2. ASSUME sleeper.phase = "slept"
      PROVE  sleeper.from + TicksFrom(sleeper.duration, Hz) * Interval <= count'
  <2>1. /\ sleeper.from \in Nat /\ sleeper.duration \in Nat
        /\ sleeper.from + TicksFrom(sleeper.duration, Hz) * Interval <= count
    BY <1>2 DEF Sleeping, ClockTypes, Sleepers
  <2>2. TicksFrom(sleeper.duration, Hz) * Interval \in Nat
    BY <2>1, TicksFromType, IntervalIs
  <2> QED BY <2>1, <2>2 DEF ClockTypes
<1>3. /\ TicksFrom(sleeper.duration, Hz)' = TicksFrom(sleeper.duration, Hz)
      /\ Interval' = Interval
  BY DEF TicksFrom, Interval
<1> QED BY <1>1, <1>2, <1>3 DEF Sleeping

LEMMA ClockNext == ClockInvariant /\ [NextTime]_clockVars => ClockInvariant'
<1> SUFFICES ASSUME ClockInvariant, [NextTime]_clockVars PROVE ClockInvariant'
  OBVIOUS
<1> USE DEF ClockInvariant
<1>0. Interval' = Interval /\ Interval \in Nat \ {0}
  BY IntervalIs DEF Interval
<1>1. CASE Elapse
  <2>1. ClockTypes' /\ count' >= count /\ UNCHANGED <<compare, ticks, core, deadline, sleeper>>
    BY <1>1 DEF ClockTypes, Elapse
  <2>2. TicksBehind' /\ Rearming'
    BY <2>1, <1>0, NextInterval DEF ClockTypes, TicksBehind, Rearming, Whole
  <2> QED BY <2>1, <2>2, SleepingKept
<1>2. CASE MaskIrq \/ UnmaskIrq
  <2>1. /\ ClockTypes' /\ count' >= count /\ UNCHANGED <<count, compare, ticks, deadline, sleeper>>
        /\ core \in {"run", "masked"} /\ core' \in {"run", "masked"}
    BY <1>2 DEF ClockTypes, MaskIrq, UnmaskIrq
  <2>2. TicksBehind' /\ Rearming'
    BY <2>1, <1>0 DEF TicksBehind, Rearming, Whole
  <2> QED BY <2>1, <2>2, SleepingKept
<1>3. CASE TimerInterrupt
  <2>1. /\ ClockTypes' /\ count' >= count /\ UNCHANGED <<count, compare, ticks, sleeper>>
        /\ core = "run" /\ core' = "rearm" /\ compare <= count /\ deadline' = compare
    BY <1>3 DEF ClockTypes, TimerInterrupt, Pending, RearmBase
  <2>2. TicksBehind' /\ Rearming'
    BY <2>1, <1>0 DEF ClockTypes, TicksBehind, Rearming, Whole
  <2> QED BY <2>1, <2>2, SleepingKept
<1>4. CASE Rearm
  <2>1. /\ ClockTypes' /\ count' >= count /\ UNCHANGED <<count, compare, ticks, sleeper>>
        /\ core = "rearm" /\ core' \in {"rearm", "write"} /\ deadline' = deadline + Interval
    BY <1>4, <1>0 DEF ClockTypes, Rearm
  <2>2. Whole(deadline + Interval)
    BY <2>1, WholeNext DEF ClockTypes, Rearming
  <2>3. TicksBehind' /\ Rearming'
    BY <2>1, <2>2, <1>0 DEF ClockTypes, TicksBehind, Rearming, Whole
  <2> QED BY <2>1, <2>3, SleepingKept
<1>5. CASE WriteCompare
  <2>1. /\ ClockTypes' /\ UNCHANGED <<count, ticks, deadline, sleeper>>
        /\ core = "write" /\ core' = "tick" /\ compare' = deadline
    BY <1>5 DEF ClockTypes, WriteCompare
  <2>2. TicksBehind' /\ Rearming'
    BY <2>1, <1>0, NextInterval DEF ClockTypes, TicksBehind, Rearming, Whole
  <2>3. ASSUME NEW start \in 0 .. ticks, SleptFrom(start), sleeper.phase = "asleep"
        PROVE  SleptFrom(start)'
    <3>1. /\ (ticks - start) * Interval \in Nat
          /\ sleeper.from \in Nat
      BY IntervalIs DEF ClockTypes, Sleepers
    <3> QED BY <2>1, <2>3, <3>1, <1>0 DEF SleptFrom, ClockTypes, Rearming, Target, TicksFrom
  <2>4. Sleeping'
    BY <2>1, <2>3, <1>0 DEF Sleeping, TicksFrom
  <2> QED BY <2>1, <2>2, <2>4
<1>6. CASE Tick
  <2>1. /\ ClockTypes' /\ UNCHANGED <<count, compare, deadline, sleeper>>
        /\ core = "tick" /\ core' = "run" /\ ticks' = ticks + 1
    BY <1>6 DEF ClockTypes, Tick
  <2>2. ticks * Interval \in Nat /\ ticks' * Interval = ticks * Interval + Interval
    BY <2>1, NextInterval DEF ClockTypes
  <2>3. TicksBehind' /\ Rearming'
    BY <2>1, <2>2, <1>0 DEF ClockTypes, TicksBehind, Rearming, Whole
  <2>4. ASSUME NEW start \in 0 .. ticks, SleptFrom(start), sleeper.phase = "asleep"
        PROVE  SleptFrom(start)' /\ start \in 0 .. ticks'
    <3> DEFINE since == ticks - start
    <3>1. /\ since \in Nat /\ ticks' - start = since + 1
          /\ sleeper.from \in Nat /\ start \in 0 .. ticks'
      BY <2>1 DEF ClockTypes, Sleepers
    <3>2. /\ since * Interval \in Nat
          /\ (ticks' - start) * Interval = since * Interval + Interval
      BY <3>1, NextInterval
    <3> QED BY <2>1, <2>4, <3>1, <3>2, <1>0 DEF SleptFrom, ClockTypes, Target, TicksFrom
  <2>5. Sleeping'
    BY <2>1, <2>4, <1>0 DEF Sleeping, TicksFrom
  <2> QED BY <2>1, <2>3, <2>5
<1>7. ASSUME NEW duration \in Durations, Sleep(duration)
      PROVE  ClockInvariant'
  <2>1. /\ duration \in Nat /\ TicksFrom(duration, Hz) \in Nat
        /\ UNCHANGED <<count, compare, ticks, core, deadline>> /\ core = "run" /\ count < compare
        /\ sleeper' = [phase |-> "asleep", duration |-> duration, from |-> count,
                       target |-> Target(ticks, duration)]
    BY <1>7, TimeAssumption, TicksFromType DEF Sleep, Pending, ClockTypes
  <2>2. ClockTypes'
    BY <2>1 DEF ClockTypes, Sleepers, Target
  <2>3. TicksBehind' /\ Rearming'
    BY <2>1, <1>0 DEF TicksBehind, Rearming, Whole
  <2>4. SleptFrom(ticks)'
    <3>1. ticks' - ticks = 0 /\ 0 * Interval = 0
      BY <2>1, <1>0 DEF ClockTypes
    <3> QED BY <2>1, <3>1, <1>0 DEF SleptFrom, ClockTypes, Target, TicksFrom
  <2>5. Sleeping'
    BY <2>1, <2>4 DEF Sleeping, ClockTypes
  <2> QED BY <2>2, <2>3, <2>5
<1>8. CASE Wake
  <2>1. /\ UNCHANGED <<count, compare, ticks, core, deadline>> /\ core = "run"
        /\ sleeper.phase = "asleep" /\ ticks >= sleeper.target
        /\ sleeper' = [sleeper EXCEPT !.phase = "slept"]
    BY <1>8 DEF Wake
  <2>2. /\ ClockTypes' /\ sleeper'.phase = "slept" /\ sleeper'.from = sleeper.from
        /\ sleeper'.duration = sleeper.duration
    BY <2>1 DEF ClockTypes, Sleepers
  <2>3. TicksBehind' /\ Rearming'
    BY <2>1, <1>0 DEF TicksBehind, Rearming, Whole
  <2>4. PICK start \in 0 .. ticks : SleptFrom(start)
    BY <2>1 DEF Sleeping
  <2> DEFINE since == ticks - start
             promised == TicksFrom(sleeper.duration, Hz)
  <2>5. /\ since \in Nat /\ promised \in Nat /\ since >= promised + 1
        /\ sleeper.from \in Nat /\ count \in Nat
    BY <2>1, <2>4, TicksFromType DEF SleptFrom, Target, ClockTypes, Sleepers
  <2>6. sleeper.from + since * Interval <= count + Interval
    BY <2>4, <2>5 DEF SleptFrom
  <2> HIDE DEF since, promised
  <2>7. since * Interval >= promised * Interval + Interval
    <3>1. PICK more \in Nat : since = (promised + 1) + more
      BY <2>5
    <3>2. since * Interval = promised * Interval + Interval + more * Interval
      BY <2>5, <3>1, <1>0
    <3> QED BY <3>2, <2>5, <1>0
  <2>8. sleeper.from + promised * Interval <= count
    BY <2>5, <2>6, <2>7, <1>0
  <2>9. Sleeping'
    BY <2>1, <2>2, <2>8, <1>0 DEF Sleeping, promised, TicksFrom
  <2> QED BY <2>2, <2>3, <2>9
<1>9. CASE Resume
  <2>1. UNCHANGED <<count, compare, ticks, core, deadline>> /\ sleeper' = Awake
    BY <1>9 DEF Resume
  <2>2. ClockTypes' /\ Sleeping'
    BY <2>1 DEF ClockTypes, Sleepers, Sleeping, Awake
  <2>3. TicksBehind' /\ Rearming'
    BY <2>1, <1>0 DEF TicksBehind, Rearming, Whole
  <2> QED BY <2>2, <2>3
<1>10. CASE UNCHANGED clockVars
  BY <1>10, <1>0 DEF clockVars, ClockTypes, TicksBehind, Rearming, Whole, Sleeping, SleptFrom,
     Target, TicksFrom
<1> QED BY <1>1, <1>2, <1>3, <1>4, <1>5, <1>6, <1>7, <1>8, <1>9, <1>10 DEF NextTime

-------------------------------------------------------------------------------
(* Time: the theorems.                                                      *)

\* In every reachable state of the heartbeat and of sleep, what the handler, the
\* compare register, the ticks and the sleeper are to each other.
THEOREM ClockKeepsInvariant == TimeSpec => []ClockInvariant
BY ClockInit, ClockNext, PTL DEF TimeSpec

\* The heartbeat does not drift: rearm leaves every deadline a whole number of
\* intervals after timer::start however late it runs, and counts no deadline
\* twice.
THEOREM DoesNotDrift == TimeSpec => []NoDrift
<1>1. ClockInvariant => NoDrift
  BY MultipleDivides, IntervalIs DEF ClockInvariant, ClockTypes, TicksBehind, Whole, NoDrift
<1> QED BY <1>1, ClockKeepsInvariant, PTL

\* sleep never returns before its duration has passed on the counter, whatever
\* part of a tick was left when it was called and however late ticks come.
THEOREM SleepsLongEnough == TimeSpec => []SleepsAtLeast
<1>1. ClockInvariant => SleepsAtLeast
  <2> SUFFICES ASSUME ClockInvariant, sleeper.phase = "slept"
               PROVE  (count - sleeper.from) * Nanos >= sleeper.duration * Frequency
    BY DEF SleepsAtLeast
  <2> DEFINE slept == TicksFrom(sleeper.duration, Hz) * Interval
  <2>1. /\ sleeper.duration \in Nat /\ sleeper.from \in Nat /\ count \in Nat
        /\ sleeper.from + slept <= count
    BY DEF ClockInvariant, ClockTypes, Sleepers, Sleeping
  <2>2. slept \in Nat
    BY <2>1, TicksFromType, IntervalIs
  <2> HIDE DEF slept
  <2>3. count - sleeper.from \in Nat /\ count - sleeper.from >= slept
    BY <2>1, <2>2
  <2> QED BY <2>1, <2>3, IntervalsEnough DEF slept
<1> QED BY <1>1, ClockKeepsInvariant, PTL

-------------------------------------------------------------------------------
(* Boot: kmain and the interrupts that come meanwhile.                      *)

\* kmain has the board from here on.
Discovered == {"adopt", "gic", "register", "listen", "time", "start", "live", "unmask", "running"}

\* The board kmain goes by has the devices where they are.
LinesFound ==
    pc \in Discovered => /\ board["uart intid"] = Line("uart")
                         /\ board["timer"] = Line("timer")

LinesApart == Line("uart") # Line("timer")

\* What is let through has its own device's handler.
Registered ==
    \A d \in {"uart", "timer"} :
        Line(d) \in enabled => Line(d) < IrqCount /\ handlers[Line(d)] = d

\* Interrupts are live, then unmasked, and both at the end of kmain.
Unmasking ==
    /\ pc \in {"earlycon", "vectors", "discover", "halted"} \cup Discovered
    /\ live <=> pc \in {"unmask", "running"}
    /\ daif <=> pc # "running"

BootInvariant ==
    /\ dtb \in Blobs
    /\ handlers \in [0 .. IrqCount - 1 -> {"none", "uart", "timer"}]
    /\ raised \subseteq {"uart", "timer"}
    /\ pc \in {"earlycon", "vectors", "discover", "halted"} => board = NoBoard
    /\ pc \in Discovered => board = BoardOf(dtb) /\ HasTree(dtb) /\ FirstMissing(dtb) = "nothing"
    /\ pc # "earlycon" => console \in ready
    /\ Unmasking
    /\ LinesFound /\ LinesApart => Registered /\ ~stray

LEMMA BootInit == InitBoot => BootInvariant
BY DEF InitBoot, BootInvariant, Unmasking, Registered, Discovered

LEMMA LineIs ==
  ASSUME dtb \in Blobs
  PROVE  \A x \in {"uart", "timer"} : Line(x) \in Nat
BY BootAssumption DEF Line, Described

LEMMA RoomFor ==
  ASSUME NEW l \in Nat, l < IrqCount
  PROVE  l \in 0 .. IrqCount - 1
<1>1. IrqCount \in Nat
  BY BootAssumption
<1> QED BY <1>1

\* Of a device's line and its handler, no other device disposes.
LEMMA RegisterKeeps ==
  ASSUME BootInvariant, UNCHANGED <<dtb, board, stray>>, NEW d \in {"uart", "timer"},
         pc \in Discovered, pc' \in Discovered,
         Register(IF d = "uart" THEN board["uart intid"] ELSE board["timer"], d)
  PROVE  /\ handlers' \in [0 .. IrqCount - 1 -> {"none", "uart", "timer"}]
         /\ (LinesFound /\ LinesApart)' => (Registered /\ ~stray)'
<1> DEFINE intid == IF d = "uart" THEN board["uart intid"] ELSE board["timer"]
<1>1. handlers \in [0 .. IrqCount - 1 -> {"none", "uart", "timer"}]
  BY DEF BootInvariant
<1>2. \/ /\ intid < IrqCount
         /\ handlers' = [handlers EXCEPT ![intid] = d] /\ enabled' = enabled \cup {intid}
      \/ UNCHANGED <<handlers, enabled>>
  BY DEF Register
<1> HIDE DEF intid
<1>3. handlers' \in [0 .. IrqCount - 1 -> {"none", "uart", "timer"}]
  BY <1>1, <1>2
<1>4. ASSUME (LinesFound /\ LinesApart)'
      PROVE  (Registered /\ ~stray)'
  <2>1. LinesFound /\ LinesApart /\ \A x \in {"uart", "timer"} : Line(x)' = Line(x)
    BY <1>4 DEF LinesFound, LinesApart, Line, Described
  <2>2. Registered /\ ~stray
    BY <2>1 DEF BootInvariant
  <2>3. intid = Line(d)
    BY <2>1 DEF LinesFound, intid
  <2>4. /\ \A x \in {"uart", "timer"} : Line(x) \in Nat
        /\ Line("uart") # Line("timer")
    BY <2>1, LineIs DEF BootInvariant, LinesApart
  <2>5. ASSUME NEW x \in {"uart", "timer"}, Line(x) \in enabled'
        PROVE  Line(x) < IrqCount /\ handlers'[Line(x)] = x
    <3>1. CASE UNCHANGED <<handlers, enabled>>
      BY <2>2, <2>5, <3>1 DEF Registered
    <3>2. CASE /\ intid < IrqCount
               /\ handlers' = [handlers EXCEPT ![intid] = d]
               /\ enabled' = enabled \cup {intid}
      <4>1. CASE x = d
        <5>1. intid \in Nat /\ intid < IrqCount
          BY <2>3, <2>4, <3>2
        <5>2. intid \in 0 .. IrqCount - 1
          BY <5>1, RoomFor
        <5> QED BY <1>1, <2>3, <3>2, <4>1, <5>1, <5>2
      <4>2. CASE x # d
        <5>1. Line(x) # intid /\ Line(x) \in enabled
          BY <2>3, <2>4, <2>5, <3>2, <4>2
        <5>2. Line(x) < IrqCount /\ handlers[Line(x)] = x
          BY <2>2, <5>1 DEF Registered
        <5>3. Line(x) \in 0 .. IrqCount - 1
          BY <2>4, <5>2, RoomFor
        <5> QED BY <1>1, <3>2, <5>1, <5>2, <5>3
      <4> QED BY <4>1, <4>2
    <3> QED BY <1>2, <3>1, <3>2
  <2> QED BY <2>1, <2>2, <2>5 DEF Registered
<1> QED BY <1>3, <1>4

\* Every other step of kmain leaves the table and the lines alone.
LEMMA QuietKeeps ==
  ASSUME BootInvariant, UNCHANGED <<dtb, handlers, enabled, stray>>,
         LinesFound' => LinesFound
  PROVE  (LinesFound /\ LinesApart)' => (Registered /\ ~stray)'
<1>1. LinesApart' <=> LinesApart
  BY DEF LinesApart, Line, Described
<1>2. Registered' <=> Registered
  BY DEF Registered, Line, Described
<1> QED BY <1>1, <1>2 DEF BootInvariant

LEMMA KmainKeeps ==
  ASSUME BootInvariant, Kmain
  PROVE  BootInvariant'
<1> USE DEF Step, Discovered, device, irq
<1>1. CASE InitEarlycon
  <2>1. (LinesFound /\ LinesApart)' => (Registered /\ ~stray)'
    BY <1>1, QuietKeeps DEF InitEarlycon, LinesFound, BootInvariant
  <2> QED BY <1>1, <2>1 DEF InitEarlycon, BootInvariant, Unmasking
<1>2. CASE InstallVectors
  <2>1. (LinesFound /\ LinesApart)' => (Registered /\ ~stray)'
    BY <1>2, QuietKeeps DEF InstallVectors, LinesFound, BootInvariant
  <2> QED BY <1>2, <2>1 DEF InstallVectors, BootInvariant, Unmasking
<1>3. CASE Discover
  <2>1. LinesFound
    BY <1>3 DEF Discover, LinesFound
  <2>2. (LinesFound /\ LinesApart)' => (Registered /\ ~stray)'
    BY <1>3, <2>1, QuietKeeps DEF Discover
  <2> QED BY <1>3, <2>2 DEF Discover, Halt, BootInvariant, Unmasking
<1>4. CASE Adopt
  <2>1. (LinesFound /\ LinesApart)' => (Registered /\ ~stray)'
    BY <1>4, QuietKeeps DEF Adopt, LinesFound, Line, Described
  <2> QED BY <1>4, <2>1 DEF Adopt, BootInvariant, Unmasking
<1>5. CASE InitGic
  <2>1. (LinesFound /\ LinesApart)' => (Registered /\ ~stray)'
    BY <1>5, QuietKeeps DEF InitGic, LinesFound, Line, Described
  <2> QED BY <1>5, <2>1 DEF InitGic, BootInvariant, Unmasking
<1>6. CASE RegisterUart
  <2>1. /\ handlers' \in [0 .. IrqCount - 1 -> {"none", "uart", "timer"}]
        /\ (LinesFound /\ LinesApart)' => (Registered /\ ~stray)'
    BY <1>6, RegisterKeeps DEF RegisterUart
  <2> QED BY <1>6, <2>1 DEF RegisterUart, BootInvariant, Unmasking
<1>7. CASE EnableUart
  <2>1. (LinesFound /\ LinesApart)' => (Registered /\ ~stray)'
    BY <1>7, QuietKeeps DEF EnableUart, LinesFound, Line, Described
  <2> QED BY <1>7, <2>1 DEF EnableUart, BootInvariant, Unmasking
<1>8. CASE RegisterTimer
  <2>1. /\ handlers' \in [0 .. IrqCount - 1 -> {"none", "uart", "timer"}]
        /\ (LinesFound /\ LinesApart)' => (Registered /\ ~stray)'
    BY <1>8, RegisterKeeps DEF RegisterTimer
  <2> QED BY <1>8, <2>1 DEF RegisterTimer, BootInvariant, Unmasking
<1>9. CASE StartTimer
  <2>1. (LinesFound /\ LinesApart)' => (Registered /\ ~stray)'
    BY <1>9, QuietKeeps DEF StartTimer, LinesFound, Line, Described
  <2> QED BY <1>9, <2>1 DEF StartTimer, BootInvariant, Unmasking
<1>10. CASE GoLive
  <2>1. (LinesFound /\ LinesApart)' => (Registered /\ ~stray)'
    BY <1>10, QuietKeeps DEF GoLive, LinesFound, Line, Described
  <2> QED BY <1>10, <2>1 DEF GoLive, BootInvariant, Unmasking
<1>11. CASE UnmaskAll
  <2>1. (LinesFound /\ LinesApart)' => (Registered /\ ~stray)'
    BY <1>11, QuietKeeps DEF UnmaskAll, LinesFound, Line, Described
  <2> QED BY <1>11, <2>1 DEF UnmaskAll, BootInvariant, Unmasking
<1> QED BY <1>1, <1>2, <1>3, <1>4, <1>5, <1>6, <1>7, <1>8, <1>9, <1>10, <1>11 DEF Kmain

LEMMA BootNext == BootInvariant /\ [NextBoot]_bootVars => BootInvariant'
<1> SUFFICES ASSUME BootInvariant, [NextBoot]_bootVars
             PROVE  BootInvariant'
  OBVIOUS
<1> USE DEF device, irq
<1>1. CASE Raise
  <2>1. (LinesFound /\ LinesApart)' => (Registered /\ ~stray)'
    BY <1>1, QuietKeeps DEF Raise, LinesFound, Line, Described
  <2> QED BY <1>1, <2>1 DEF Raise, BootInvariant, Unmasking
<1>2. ASSUME NEW d \in {"uart", "timer"}, HandleInterrupt(d)
      PROVE  BootInvariant'
  <2>1. /\ (LinesFound /\ LinesApart)' => LinesFound /\ LinesApart
        /\ Registered' <=> Registered
    BY <1>2 DEF HandleInterrupt, LinesFound, LinesApart, Registered, Line, Described
  <2>2. Registered /\ ~stray => ~stray'
    BY <1>2 DEF HandleInterrupt, Registered
  <2> QED BY <1>2, <2>1, <2>2 DEF HandleInterrupt, BootInvariant, Unmasking
<1>3. CASE UNCHANGED bootVars
  BY <1>3 DEF bootVars, BootInvariant, Unmasking, LinesFound, LinesApart, Registered, Line, Described
<1> QED BY <1>1, <1>2, <1>3, KmainKeeps DEF NextBoot

\* In every reachable state of the boot, what has been found, registered and let through
\* are to each other (kmain, irq::register, irq::unmask).
THEOREM BootKeepsInvariant == BootSpec => []BootInvariant
BY BootInit, BootNext, PTL DEF BootSpec

\* The board that discover returns is not empty.
LEMMA BoardIsThere ==
  ASSUME NEW blob, FirstMissing(blob) = "nothing"
  PROVE  BoardOf(blob) # NoBoard
<1>1. CASE TreeNodes(blob) = <<>>
  <2> DEFINE lookups == << [name |-> "/", found |-> {}] >>
             empty == {i \in DOMAIN lookups : lookups[i].found = {}}
  <2>1. Lookups(blob) = lookups
    BY <1>1 DEF Lookups
  <2>2. DOMAIN lookups = {1} /\ lookups[1].found = {} /\ lookups[1].name = "/"
    OBVIOUS
  <2>3. empty = {1}
    BY <2>2
  <2>4. Min({1}) = 1
    BY DEF Min
  <2>5. FirstMissing(blob) = "/"
    BY <2>1, <2>2, <2>3, <2>4 DEF FirstMissing
  <2> QED BY <2>5
<1>2. CASE TreeNodes(blob) # <<>>
  <2>1. 2 \in DOMAIN Lookups(blob) /\ Lookups(blob)[2].name = "memory"
    BY <1>2 DEF Lookups
  <2>2. "memory" \in DOMAIN BoardOf(blob)
    BY <2>1 DEF BoardOf
  <2>3. DOMAIN NoBoard = {}
    BY DEF NoBoard
  <2> QED BY <2>2, <2>3
<1> QED BY <1>1, <1>2

\* Where the board is the tree's and the two devices have lines of their own, no
\* interrupt ever finds another's handler or none: nothing is let through before its
\* handler is there (irq::register, irq::handle_interrupt).
THEOREM NoneGoesAstray == BootSpec => [](BoardIsTree /\ LinesApart => ~stray)
<1>1. BootInvariant => (BoardIsTree /\ LinesApart => ~stray)
  <2> SUFFICES ASSUME BootInvariant, BoardIsTree, LinesApart
               PROVE  ~stray
    OBVIOUS
  <2>1. pc \in Discovered => board = Described
    BY BoardIsThere DEF BootInvariant, BoardIsTree
  <2>2. LinesFound
    BY <2>1 DEF LinesFound, Line
  <2> QED BY <2>2 DEF BootInvariant
<1> QED BY <1>1, BootKeepsInvariant, PTL

\* What makes the handler table safe to share: interrupts are taken only when it has
\* ceased to change (HandlerTable, irq::register, irq::unmask).
THEOREM TableIsFixed == BootSpec => [](~daif => live) /\ [][live => UNCHANGED handlers]_bootVars
<1>1. BootInvariant => (~daif => live)
  BY DEF BootInvariant, Unmasking
<1>2. BootInvariant /\ [NextBoot]_bootVars => [live => UNCHANGED handlers]_bootVars
  <2> SUFFICES ASSUME BootInvariant, NextBoot, live PROVE UNCHANGED handlers
    BY DEF bootVars
  <2> QED BY DEF NextBoot, Kmain, InitEarlycon, InstallVectors, Discover, Adopt, InitGic,
                 RegisterUart, EnableUart, RegisterTimer, StartTimer, GoLive, UnmaskAll,
                 Raise, HandleInterrupt, Register, device, irq
<1> QED BY <1>1, <1>2, BootKeepsInvariant, PTL DEF BootSpec

\* A message that kmain halts with has a console to go to (or_halt, pl011::adopt).
THEOREM ConsoleIsUp == BootSpec => [](pc # "earlycon" => console \in ready)
BY BootKeepsInvariant, PTL DEF BootInvariant
===============================================================================
