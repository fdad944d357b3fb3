------------------------------ MODULE TaskTable ------------------------------
(***************************************************************************)
(* The Scheduler struct of kernel/sched/mod.rs: a fixed table of optional  *)
(* tasks, and the three queries the kernel asks of it.  The operators are  *)
(* pure: they take the table (a function from slots to task states, "None" *)
(* for an empty slot) and the current slot.                                *)
(*                                                                         *)
(* A task's id is the index of its slot: spawn and init build a task with  *)
(* the index they store it at, and no task is ever moved.                  *)
(***************************************************************************)
EXTENDS Integers

CONSTANT
    N       \* TASKS_COUNT, the number of slots (4 in the code)

ASSUME NAssumption == N \in Nat /\ N >= 2

Slots == 0 .. N - 1

Boot == 0   \* BOOT_TASK_ID

Idle == 1   \* IDLE_TASK_ID

\* The states of a slot: None is an empty Option<Task>, the others are the
\* variants of kernel::task::State.
SlotStates == {"None", "Ready", "Blocked", "Dead"}

Tables == [Slots -> SlotStates]

(* Faulty variants, used by no specification: a scan that starts over at    *)
(* slot 0, one that takes dead tasks, and a prune that misses the last slot. *)

ScanFromZero(current, i) == i

RunnableIfNotBlocked(table, s) == table[s] \in {"Ready", "Dead"} /\ s # Idle

PrunableButLast(table, current) == {s \in 0 .. N - 2 : table[s] = "Dead" /\ s # current}

\* The slots prune empties: every dead task but the one whose stack the CPU
\* may still be standing on.
Prunable(table, current) == {s \in Slots : table[s] = "Dead" /\ s # current}

Prune(table, current) ==
    [s \in Slots |-> IF s \in Prunable(table, current) THEN "None" ELSE table[s]]

\* What the scan of next_idx accepts: the idle task is never chosen by it.
Runnable(table, s) == table[s] = "Ready" /\ s # Idle

\* The i-th slot next_idx looks at: the scan starts one past the current slot
\* and ends at the current slot itself.
Scan(current, i) == (current + i + 1) % N

\* next_idx().unwrap_or(IDLE_TASK_ID)
NextIdx(table, current) ==
    LET hits == {i \in 0 .. N - 1 : Runnable(table, Scan(current, i))}
    IN  IF hits = {} THEN Idle
        ELSE Scan(current, CHOOSE i \in hits : \A j \in hits : i <= j)

FreeSlots(table) == {s \in Slots : table[s] = "None"}

\* free_id(): the lowest empty slot.  Meaningful when FreeSlots is not empty.
FreeId(table) == CHOOSE s \in FreeSlots(table) : \A t \in FreeSlots(table) : s <= t
==============================================================================
