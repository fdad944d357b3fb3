-------------------------------- MODULE SpinLock -------------------------------
(***************************************************************************)
(* The spin lock (lib/lock.rs) with the interrupt mask it rests on         *)
(* (arch/aarch64/cpu.rs), under threads and interrupt handlers on several  *)
(* cores.  Taking a lock reads DAIF, masks, and only then looks at the     *)
(* flag; dropping the guard clears the flag and then restores DAIF.  Each  *)
(* instruction that another core or an interrupt may come between is a     *)
(* step of its own.                                                        *)
(*                                                                         *)
(* What runs on a core is abstract: it takes and drops locks and enters    *)
(* and leaves without_interrupts, properly nested, as scoped guards and    *)
(* closures do.  Inner[l] are the locks the code takes while it holds l:   *)
(* the heap's under the scheduler's (Task::new and prune allocate and      *)
(* free), and none else.  A handler takes any lock: it cannot know what it *)
(* interrupted.                                                            *)
(*                                                                         *)
(* Memory is sequentially consistent here: the steps on the flag are       *)
(* atomic, and what Acquire and Release order besides it is left out.      *)
(***************************************************************************)
EXTENDS Naturals, Sequences, SequencesExt, FiniteSets

CONSTANTS
    Cores,
    Locks,
    Inner,       \* the locks taken while a lock is held
    MaxAttempts, \* MAX_LOCK_ATTEMPTS
    MaxDepth,    \* bound on the guards, closures and interrupts open on a core
    NoLock       \* the lock of what is not a lock

\* The order in which locks nest has no cycle.
ASSUME LockAssumption ==
    /\ MaxAttempts \in Nat
    /\ NoLock \notin Locks
    /\ Inner \in [Locks -> SUBSET Locks]
    /\ \A S \in (SUBSET Locks) \ {{}} : \E l \in S : Inner[l] \cap S = {}

VARIABLES
    locked, \* SpinLock::locked, of each lock
    masked, \* DAIF.I, of each core
    stack,  \* what is open on each core: guards, closures, interrupts
    at      \* where each core is: in the code between calls, or in one of them

lockVars == <<locked, masked, stack, at>>

At(pc, lock, daif, attempts) == [pc |-> pc, lock |-> lock, daif |-> daif, attempts |-> attempts]

\* Between two calls.
Running == At("run", NoLock, FALSE, 0)

\* SpinLockGuard, a without_interrupts, or the frame of an interrupt.
Guard(l, daif) == [kind |-> "guard", lock |-> l, daif |-> daif, at |-> Running]

Closure(daif) == [kind |-> "closure", lock |-> NoLock, daif |-> daif, at |-> Running]

Frame(where) == [kind |-> "interrupt", lock |-> NoLock, daif |-> FALSE, at |-> where]

Top(c) == Last(stack[c])

\* The core is between calls and what it opened last is of this kind.
InnermostIs(c, kind) == at[c] = Running /\ stack[c] # <<>> /\ Top(c).kind = kind

\* What the code that runs now, the handler if it is one, holds.
Held(c) ==
    {stack[c][i].lock : i \in
        {i \in DOMAIN stack[c] :
            /\ stack[c][i].kind = "guard"
            /\ \A j \in i .. Len(stack[c]) : stack[c][j].kind # "interrupt"}}

MayTake(c, l) == \A h \in Held(c) : l \in Inner[h]

(* Faulty variants of definitions below, used by no specification. *)

\* the flag is only set, whatever it was
ExchangeAlways(l) == TRUE

\* the mask comes after the flag
MaskLater(c) == masked' = masked

\* interrupts are unmasked, not restored
Unmask(c, daif) == masked' = [masked EXCEPT ![c] = FALSE]

-------------------------------------------------------------------------------
(* stop_interrupts and restore_interrupts.                                  *)

\* What follows stop_interrupts.
Kinds == {"lock", "try_lock", "without_interrupts"}

\* The call of one of them: mrs daif.
ReadDaif(c, kind, l) ==
    /\ at[c] = Running
    /\ Len(stack[c]) < MaxDepth
    /\ IF kind = "without_interrupts" THEN l = NoLock ELSE l \in Locks /\ MayTake(c, l)
    /\ at' = [at EXCEPT ![c] = At(kind, l, masked[c], 0)]
    /\ UNCHANGED <<locked, masked, stack>>

MaskIrqs(c) == masked' = [masked EXCEPT ![c] = TRUE]

RestoreDaif(c, daif) == masked' = [masked EXCEPT ![c] = daif]

\* msr daifset, and on to the flag, or into the closure.
Mask(c) ==
    /\ at[c].pc \in Kinds
    /\ MaskIrqs(c)
    /\ CASE at[c].pc = "lock"
            -> at' = [at EXCEPT ![c].pc = "load"] /\ UNCHANGED stack
         [] at[c].pc = "try_lock"
            -> at' = [at EXCEPT ![c].pc = "try"] /\ UNCHANGED stack
         [] at[c].pc = "without_interrupts"
            -> /\ at' = [at EXCEPT ![c] = Running]
               /\ stack' = [stack EXCEPT ![c] = Append(@, Closure(at[c].daif))]
    /\ UNCHANGED locked

\* The end of without_interrupts.
Leave(c) ==
    /\ InnermostIs(c, "closure")
    /\ stack' = [stack EXCEPT ![c] = Front(@)]
    /\ RestoreDaif(c, Top(c).daif)
    /\ UNCHANGED <<locked, at>>

-------------------------------------------------------------------------------
(* lock, try_lock and drop.                                                 *)

\* attempts counts past its limit only to be compared with it.
Counted(attempts) == IF attempts > MaxAttempts THEN attempts ELSE attempts + 1

\* compare_exchange succeeds when the flag is clear.
Exchanges(l) == ~locked[l]

Take(c) ==
    /\ Exchanges(at[c].lock)
    /\ locked' = [locked EXCEPT ![at[c].lock] = TRUE]
    /\ stack' = [stack EXCEPT ![c] = Append(@, Guard(at[c].lock, at[c].daif))]
    /\ at' = [at EXCEPT ![c] = Running]
    /\ UNCHANGED masked

\* The relaxed load of the spinning loop sees the flag clear.
SeesFree(c) ==
    /\ at[c].pc = "load"
    /\ ~locked[at[c].lock]
    /\ at' = [at EXCEPT ![c].pc = "exchange"]
    /\ UNCHANGED <<locked, masked, stack>>

\* It sees the flag set.  The panic parks the core.
Spin(c) ==
    /\ at[c].pc = "load"
    /\ locked[at[c].lock]
    /\ LET attempts == Counted(at[c].attempts) IN
           at' = [at EXCEPT ![c].attempts = attempts,
                            ![c].pc = IF attempts > MaxAttempts THEN "panic" ELSE "load"]
    /\ UNCHANGED <<locked, masked, stack>>

LockTakes(c) == at[c].pc = "exchange" /\ Take(c)

\* Another core was faster.
LockLoses(c) ==
    /\ at[c].pc = "exchange"
    /\ ~Exchanges(at[c].lock)
    /\ at' = [at EXCEPT ![c].pc = "load", ![c].attempts = Counted(@)]
    /\ UNCHANGED <<locked, masked, stack>>

TryTakes(c) == at[c].pc = "try" /\ Take(c)

TryFails(c) ==
    /\ at[c].pc = "try"
    /\ ~Exchanges(at[c].lock)
    /\ at' = [at EXCEPT ![c].pc = "restore"]
    /\ UNCHANGED <<locked, masked, stack>>

\* Drop of the guard: the store, and then DAIF.
Drop(c) ==
    /\ InnermostIs(c, "guard")
    /\ locked' = [locked EXCEPT ![Top(c).lock] = FALSE]
    /\ stack' = [stack EXCEPT ![c] = Front(@)]
    /\ at' = [at EXCEPT ![c] = At("restore", Top(c).lock, Top(c).daif, 0)]
    /\ UNCHANGED masked

Restore(c) ==
    /\ at[c].pc = "restore"
    /\ RestoreDaif(c, at[c].daif)
    /\ at' = [at EXCEPT ![c] = Running]
    /\ UNCHANGED <<locked, stack>>

-------------------------------------------------------------------------------
(* Interrupts.                                                              *)

\* Exception entry masks and saves where it was.
Interrupt(c) ==
    /\ ~masked[c]
    /\ Len(stack[c]) < MaxDepth
    /\ stack' = [stack EXCEPT ![c] = Append(@, Frame(at[c]))]
    /\ masked' = [masked EXCEPT ![c] = TRUE]
    /\ at' = [at EXCEPT ![c] = Running]
    /\ UNCHANGED locked

\* eret puts back DAIF and the program counter.
Eret(c) ==
    /\ InnermostIs(c, "interrupt")
    /\ stack' = [stack EXCEPT ![c] = Front(@)]
    /\ masked' = [masked EXCEPT ![c] = FALSE]
    /\ at' = [at EXCEPT ![c] = Top(c).at]
    /\ UNCHANGED locked

-------------------------------------------------------------------------------
InitLock ==
    /\ locked = [l \in Locks |-> FALSE]
    /\ masked = [c \in Cores |-> FALSE]
    /\ stack = [c \in Cores |-> <<>>]
    /\ at = [c \in Cores |-> Running]

NextLock ==
    \E c \in Cores :
        \/ \E kind \in Kinds, l \in Locks \cup {NoLock} : ReadDaif(c, kind, l)
        \/ Mask(c)
        \/ Leave(c)
        \/ SeesFree(c)
        \/ Spin(c)
        \/ LockTakes(c)
        \/ LockLoses(c)
        \/ TryTakes(c)
        \/ TryFails(c)
        \/ Drop(c)
        \/ Restore(c)
        \/ Interrupt(c)
        \/ Eret(c)

LockSpec == InitLock /\ [][NextLock]_lockVars

-------------------------------------------------------------------------------
(* Properties.                                                              *)

\* The guards of l, each by its core and its place.
Guards(l) ==
    UNION {{<<c, i>> : i \in {i \in DOMAIN stack[c] : stack[c][i].lock = l}} : c \in Cores}

\* Never two guards of one lock, on one core or on two, and the flag is set
\* exactly while there is one: no interleaving of the load, the exchange, the
\* store and interrupts lets two in or leaves the flag behind.
MutualExclusion ==
    \A l \in Locks : Cardinality(Guards(l)) = IF locked[l] THEN 1 ELSE 0

\* Interrupts are masked exactly while something that masks them is open or on
\* its way: a drop or an end in the middle of the nest, in a handler or below
\* it, never unmasks, and the last one always does.
MaskRestored ==
    \A c \in Cores :
        masked[c] <=>
            \/ stack[c] # <<>>
            \/ at[c].pc \in {"load", "exchange", "try", "restore", "panic"}

\* No set of cores spins on locks that cores of the set hold, one core on its
\* own lock included: a handler never waits for what it interrupted, so that on
\* one core lock never spins, and the nesting of the locks lets some holder
\* always go on.
Waits(c, S) ==
    /\ at[c].pc \in {"load", "exchange"}
    /\ \E g \in Guards(at[c].lock) : g[1] \in S

NoDeadlock == \A S \in (SUBSET Cores) \ {{}} : \E c \in S : ~Waits(c, S)
===============================================================================
