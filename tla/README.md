# ZheOS in TLA+

A verification development for [ZheOS](../src/README.md), a small single-core
AArch64 kernel in Rust: a preemptive round-robin scheduler, an interrupt-driven
console with a machine monitor, and a buddy allocator with slabs on top. The
modules here are translated from the code under `src/src`. TLC checks them on
small instances; TLAPS proves the safety properties of the kernel, of both allocators,
of the memory map, of the page table, of the lock, of time, of the monitor and of the
registration of interrupts for every value of the constants.

## 1. The system

| Component | State it keeps | Operations | What makes it correct |
|---|---|---|---|
| Scheduler (`kernel/sched/mod.rs`, `kernel/task.rs`) | the task table, `current`, `NEED_RESCHEDULE`, each task's context and 16 KiB stack | `init`, `spawn`, `tick`, `preempt`, `yield_now`, `schedule`, `task_exit`, `prune` | the core runs on the stack of the current task and nobody else has it; no stack is lost or freed in use; every ready task runs; the core idles only when nothing is ready |
| Wait queue (`kernel/sched/wait.rs`) | the waiting tasks | `prepare`, `finish`, `wake_all` | the queue and the Blocked tasks agree; no wake-up is lost |
| Interrupt path (`kernel/irq.rs`, `drivers/gic.rs`, `vectors.s`, `switch.s`) | DAIF, the frames on the stacks, the interrupt in service | exception entry, acknowledge, dispatch, end, preempt, return | interrupts are masked exactly where the code believes so; frames never pile up; a switch never leaves an interrupt in service |
| Console input (`tty/input.rs`, `drivers/pl011.rs`) | the UART's FIFO and raw status, the input buffer | `handle_interrupt`, `push_character`, `getc` | bytes arrive once each and in order; none is stranded |
| Ring buffer (`lib/ring_buffer.rs`) | an array, two indices, a flag | `push`, `pop` | a bounded queue, wherever the indices stand |
| Frame allocator (`mm/frames`, `mm/pages.rs`, `mm/pfn.rs`) | a free list per order, linked through the free pages; an entry per page | seed, `alloc`, `free` | blocks never overlap; buddies are reunited; a request fails only when no run is left |
| Slabs and heap (`mm/slab`, `mm/heap.rs`) | slots linked through themselves, a list of partial pages per class | `alloc`, `dealloc` | no slot is lost or handed out twice; lists hold exactly the partial pages |
| Memory map (`mm/map.rs`, `mm/gaps.rs`, `mm/region.rs`) | the arena and up to 16 reservations | `new`, `reserve`, `unreserved`, `Pages::new` | the runs handed to the allocator are exactly the unreserved pages |
| Page table (`arch/aarch64/mmu`) | a tree of 512-slot tables | `apply`, `map_range`, `translate` | identity mapping with the planned permissions; a live mapping is never rewritten |
| Spin lock (`lib/lock.rs`) | a flag, the saved DAIF | `lock`, `try_lock`, drop | mutual exclusion; DAIF restored; no deadlock against an interrupt |
| Time (`kernel/time.rs`, `arch/aarch64/timer.rs`) | compare register, tick count | `init`, `rearm`, `sleep` | no drift; a sleep lasts at least what it promises |
| Line editing, printing (`tty`) | the edit buffer, the terminal's row | `read_line`, `print` | the line is what the keys say and what the row shows |
| Monitor (`zhemon`) | the parser's position and mode, the last and the next address | parse, examine, store, run | a line does what it reads as, or nothing; each command goes on where the one before stopped |
| Platform and device tree (`platform`) | an immutable blob | `discover` | the board is what the blob says, and nothing is made up of a blob cut short |
| Boot (`main.rs`), registration (`kernel/irq.rs`) | the handler table, `LIVE`, the lines enabled | the steps of `kmain`, `register` | whatever is let through finds its handler |
| MMU registers, exceptions, panic, power | – | run once, or end the machine | encodings |

Interactions. A timer interrupt calls `time::handle_interrupt` -> `sched::tick`,
which sets `NEED_RESCHEDULE`; a receive interrupt drains the UART into the input
buffer and calls `wake_all`, which sets it too. `irq::handle` writes the end of
interrupt and then calls `sched::preempt`, which switches if the flag is set. The
monitor, running on the boot task, blocks in `getc`. `kmain` takes the devices'
addresses and interrupt numbers from the device tree, registers their handlers and
only then unmasks. Tasks that end are pruned
by the next `schedule`; their stacks and the task table itself come from the
heap, the heap's pages from the frame allocator, and the frame allocator's from
the memory map.

What is hard here: the scheduler and the wait queue share their state with
interrupt handlers, and each window between two unmasked instructions is a place
for one; a context switch changes which saved DAIF will be restored next; a
task's last act needs the stack it gives up; the buddy and slab allocators keep
their links in memory they do not own a moment later, and leave stale entries
behind on purpose; the monitor parses a line twice, in modes that depend on what
it has read; the tree's reader counts offsets in bytes it has not chosen.
PROJECT.json lists these hazards line by line.

## 2. The modules

| Module | Models | Composes |
|---|---|---|
| `TaskTable` | the pure part of the scheduler: `next_idx`, `prune`, the free slot | – |
| `RingBuffer` | `lib/ring_buffer.rs`, as functions of a buffer | – |
| `Kernel` | scheduler, switch, wait queue, interrupt path, timer and UART, one core | `TaskTable`, `RingBuffer` |
| `InputChannel` | what console input promises: a lossless bounded channel with arrivals that may be refused when full | – |
| `PartsMC` | `FramesMC`, `SpinLockMC` and `TimeMC` in one run | `Frames`, `SpinLock`, `Time` |
| `StartupMC` | `BootMC` and `MemoryMapMC` in one run | `Boot`, `MemoryMap` |
| `KernelMC` | instances for TLC | `Kernel` |
| `KernelProofs` | the theorems on the kernel and its ring buffer | `Kernel` |
| `FreeLists` | the doubly linked lists of free blocks, links in the pages | – |
| `Frames`, `FramesMC` | the buddy allocator, one action per loop iteration | `FreeLists`, `PageAllocator` |
| `PageAllocator` | what a page allocator promises | – |
| `Slab` | slots of a page and the list of a class's pages | – |
| `Heap`, `HeapMC` | the global allocator | `Slab`, `PageAllocator`, `ObjectAllocator` |
| `ObjectAllocator` | what the global allocator promises | – |
| `FramesProofs`, `HeapProofs` | the theorems on the two allocators, with the refinements | `Frames`, `Heap`, `Lemmas` |
| `Lemmas` | what the proofs share: induction over sets of naturals, recursive functions, least elements, powers of two, remainders, threaded lists | – |
| `Gaps` | rounding, and the iterator over the pages no region claims | – |
| `MemoryMap`, `MemoryMapMC` | `mm::init`: arena, reservations, the place of the entry array, what is seeded | `Gaps` |
| `MemoryMapProofs` | the theorems on the memory map | `MemoryMap`, `Lemmas` |
| `Mmu`, `MmuMC` | `apply` and `map_range` over the tree of tables, and the walk | `Gaps`, `AddressSpace` |
| `AddressSpace` | what building a live page table promises: mappings are only added | – |
| `MmuProofs` | the theorems on the page table, with the refinement | `Mmu`, `Lemmas` |
| `SpinLock`, `SpinLockMC` | the lock with DAIF, threads and handlers on several cores | – |
| `Time`, `TimeMC` | the heartbeat and `sleep` | – |
| `LockTimeBootProofs` | the theorems on the lock, on time and on the registration of interrupts | `SpinLock`, `Time`, `Boot` |
| `LineEditor` | `read_line`, key by key, and the row it echoes on | – |
| `LineParser` | the parser's cursor and its numbers | – |
| `Monitor`, `MonitorMC` | the prompt loop, both passes of the parser, the commands | `LineEditor`, `LineParser` |
| `MonitorProofs` | the theorems on the monitor | `Monitor`, `Lemmas` |
| `DeviceTree` | the reader of the blob, and what `Board::discover` looks up | – |
| `Boot`, `BootMC` | `kmain` to the unmask, registration and dispatch of interrupts | `DeviceTree` |

The modules meet where the components do. `Kernel` uses the lock as "interrupts
are masked", which `SpinLock` justifies on one core (`NoDeadlock` for a single
core says that `lock` never spins there); its timer fires whenever the line is
low, which covers every schedule `Time` allows. `Kernel` begins where `Boot` ends,
with the two handlers in place, and its `getc` is the source of `LineEditor`'s keys. `Heap` builds on what
`PageAllocator` promises and `Frames` implements it. `Frames` starts from an
arena with reserved pages, the runs `MemoryMap` shows to be the unreserved ones.

### Kernel

The core executes one thing at a time, so the whole kernel is one state machine
whose interleavings are those of interrupts, devices and context switches. The
program counter is the label `at` of the top frame of the current stack; labels
mark the points between which an interrupt, a device or a switch can make a
difference. `stack` maps every stack to its frames; a frame is a record of the
label, the DAIF value its call will restore, and for a schedule the two tasks it
switches between. Code that runs with interrupts masked is cut only where other
state (the devices) can change in between.

| Variable | Code |
|---|---|
| `task_table`, `current`, `need_reschedule` | `SCHEDULER`'s table and current index, `NEED_RESCHEDULE` |
| `sp`, `freeStacks` | the context of each task (which stack it resumes), the stacks the heap has left |
| `waiters` | the `WaitQueue` of console input |
| `buf`, `got` | `INPUT_BUFFER`, a `RingBuffer` with its indices and flag, and what `getc` has returned |
| `cpu`, `masked`, `stack` | the stack pointer, DAIF.I, the frames on each stack |
| `active`, `timerLine`, `uartRaw`, `fifo`, `nextByte` | the interrupt in service at the GIC, the two lines, the UART's FIFO, the bytes to come |
| `spawned` | how many tasks `spawn` made (bound) |

Bounds: `N` slots of the table (the code's `Vec` never has more than the boot,
idle and spawned tasks live, and `prune` and `next_idx` only depend on indices),
`Spawns`, `HeapStacks` (fewer than spawns, so that spawn fails too), `FifoSize`,
`BufSize`, `MaxBytes`. In `kernel_safety` these are 2, 2 and 7: both queues fill up
and drain again while the ring's indices go round more than once. In
`kernel_liveness` they are 2, 2 and 3: two bytes stand in a queue, in either order
if the code gets it wrong; the indices come back to their start with a byte still to
come; a byte is refused, by the ring when the monitor is busy and by the FIFO when the
interrupt is late; and a wait is ended by another byte. What the channel holds is
`Contents(buf)`, the bytes between the indices, and `ImplementsChannel` says that this
is a bounded queue, in order; that it is one for every size is proved.

`EarlyTick` says whether the timer may fire between `irq::unmask` and
`sched::init` in `kmain`. It is FALSE in the passing runs: the timer's first
interrupt is 10 ms after `time::init`, and the boot steps between take less. With
TRUE, run `kernel_early_tick` shows the unwrap in `tick` fail.

Fairness (`kernel_liveness`): weak for the steps of masked code, which nothing
can interrupt; strong for each task but the idle one, since a task that is
preempted again and again still advances whenever it is scheduled; weak for the
timer, which fires by itself; strong for taking an interrupt and for each
acknowledge, which masked sections delay but cannot postpone for ever. Nothing is
assumed of the idle task or of the arrival of bytes.

### Frames

Every operation runs under the HEAP lock, so nothing interleaves; the loops of
`seed`, `alloc` and `free` are still one action per iteration, with the operation
in progress in `op`, so that the invariants are checked between iterations too.
Links are stored where the code stores them: in the first words of the free
pages. A page handed out, or absorbed by a merge, has `Junk` there; entries
behind the head of a block keep what they said last. `Partition` is the main
property: at every moment each usable page is in exactly one place, a free list,
a held block, or the operation's hand. `ImplementsPageAllocator` adds that a
request is refused only when no aligned free run of its order exists.

Bounds: an arena of ten pages whose base is not aligned and with one reserved
page, so that seeding makes blocks of all orders on both sides; three blocks held
at most.

### Heap

The heap is one action per call of `alloc` or `dealloc`. It needs of the frame
allocator only what `PageAllocator` promises: `Frames!Rooms(k)` are the blocks it
may get. A page given back may keep its entry or not, because the frame allocator
rewrites only the entry at the head of the block the page becomes part of; the
model takes both. `word` holds the link in each slot, and is `Junk` once the
owner of the slot has it.

Bounds: three pages of six bytes, and two classes of three and two slots to a page
(the code's largest class has two); requests for a slot of each, for one page, for two
(by its alignment), and for more than the largest order holds. Unlinking from the middle
of a list takes three pages of one class, and a refusal all pages in use.

### MemoryMap

`mm::init` is sequential, so the question is only data: every memory, every
reservation. The variable `cursor` is the iterator's local, and one action is one
turn of its loop: `Skip` past a reservation, yield a run to `Pages::new` (`Found`
or `TooShort`) or to `Frames::seed` (`Seed`), or end. `FoundAtNull` is the return in the middle
of `Pages::new`: the first run that is long enough begins at address 0, which `NonNull::new`
takes for no address (`mm/pages.rs:109`), and the heap is refused although there may be
room further up. `SeedsFree` says that at the end the
runs are exactly the whole pages that touch no reservation and not the entry
array, and that they are not cut without need; `EntriesPlaced` that the
array lies in free pages of the arena, and that without a place for it no free run is long
enough, or the first that is begins at 0. `Terminates` needs weak fairness of the
iterator only: nothing else runs.

Bounds: two bytes to a page, so that an edge may lie inside one; memory of up to
five pages, in one case from address 0 on; up to three reservations out of 24 that are empty, nested, touching,
overlapping or outside the arena. Four would add no new way for a turn of the
loop to see them, since it looks at one page and the regions on it.

### Mmu

One action is one turn of a loop of `apply` or `map_range`; `calls` is the
recursion, at most one call per level. `slots` holds the descriptors of every
table. `ImplementsAddressSpace` maps the tree to what the hardware's walk makes
of it and says that each step maps pages that were unmapped and changes no other:
what the comment in `child_table` calls a live mapping is never rewritten.
`MappedAsPlanned` says what the result is, `TablesAreTree` that no table hangs
from two slots, and `RefusesForCause` that each error has the cause it names.

Three assumptions, `MmuAssumption`: all that is mapped is below `Limit`, the 39 bits
of `VA_BITS`; the image lies in memory; and a device tree outside it needs memory on a
level 1 slot (1 GiB; QEMU's begins there) and is smaller than one. Without the last the
code refuses or, at level 3, overwrites a page of the first plan with the second. The heap may refuse a table at any time, so that
`OutOfMemory` comes at each place; `MaxTables` (8) is never the limit.

Bounds: tables of three slots and two bytes to a page; memories that begin on a
level 1 slot, on a page and inside one; plans of up to two regions with edges on, inside
and across pages and slots of each level.

### SpinLock

Each instruction on the flag and on DAIF is an action: `ReadDaif`, `Mask`, the
relaxed load (`SeesFree`, `Spin`), the exchange (`LockTakes`, `LockLoses`,
`TryTakes`, `TryFails`), the store in `drop` and the restore after it. `stack[c]` is
what core `c` has open, guards, closures of `without_interrupts` and interrupted
code; `at[c]` is the call it is in. The kernel runs on one core; the lock is
written for several (`unsafe impl Sync`, `docs/lock.md`), and two cores are
checked. `Inner` is the nesting of the code: the heap's lock under the
scheduler's, for `spawn`, `init` and `prune` allocate and free there. With a
cycle in it `NoDeadlock` would fail, so `LockAssumption` rules it out.
`attempts` is compared with its limit only, so it stops there (`Counted`).

Bounds: `MaxAttempts` 1, so that both sides of the panic occur; `MaxDepth` 3: an
interrupt, a lock in it and a lock under that.

### Time

The counter advances on its own. Masked code may hold the interrupt back for
`MaxLatency` (7) counts, more than two intervals of 3, so that `rearm` skips
deadlines; an unmasked core takes a pending interrupt at once. `SleepsAtLeast`
compares real time, in counts of the true frequency, with the duration. A second
has four nanoseconds, and durations lie below, at and above ticks and seconds.

`RateAssumption` says that the rate divides the frequency, as 100 Hz divides QEMU's
62.5 MHz. `init` rounds the interval down (`kernel/time.rs:15`), so that otherwise
ticks come early and a long enough sleep ends before its time, although
`ticks_from` promises "at least" (`kernel/time.rs:33`). With a counter slower than
the rate the interval is zero and `rearm` never ends; `docs/timer.md:354` asks for
an assertion that it is not, which the code does not have.

### LineEditor, LineParser, Monitor

`LineEditor` is the body of `read_line` without the wait for a byte: one action per
kind of key. `row` is what the terminal shows, prompt included. Every byte may carry
the device's error flag, which spoils the whole line and no other. `LineParser`
holds what `Cursor` and `parse_hex_number` compute at a position.

`Monitor` composes them. A line is parsed twice, in phase `validate` to see that it
is right and in phase `execute` to carry it out; an action is one turn of
`parse_next` (`Dot`, `Colon`, `RunSign`, `Unexpected`, `Address`, `Byte`, `End`) in
either pass, and a turn that finds a command in the second carries it out.
`Resume` is the turn in which a number that is no byte, after a byte, is put back and
read as an address. A range is examined byte by byte in phase `range`.

The properties compare this with a definition that knows no modes and no cursor:
`Tokens` are the places where something begins, `Fault` and `Meaning` what one token
is by itself and its neighbours. `RunsReading`: a line does what it reads as, all of
it and in order, or nothing; the first fault is the one reported. `AddressesContinue`
says where each command goes on. `ShownInPlace` ties the row to the buffer,
the caret to the fault and the columns of a range to its addresses. Type
correctness is a conjunct of `AddressesContinue`.

Bounds: two lines of up to five characters (seven of them: two digits, the three
instructions, a space, a letter that means nothing), any keys in any order;
binary digits, addresses of two and bytes of one, so that numbers are too long for
either, and four addresses, so that they wrap. Two lines, for what one leaves to the
next. In three places the code does not do what `docs/wozmon.md` says; these properties
follow the code there, and `RunsCurrentAddress`, `ColonWantsBytes` and `CaretUnderCommand`
state what the document says, each with a run of its own (section 6). What the bytes are is not modelled, nor the fault of a read that
hits no memory. `ParserAssumption` and `MonitorAssumption` say what the code's character
classes are: no digit is a space or an instruction, and neither the end of the line nor
the cell with the prompt is taken for a character. (The code's prompt is a backslash,
which may be typed as well; what the model keeps apart is the cell, not its look.)

### DeviceTree and Boot

`DeviceTree` reads a blob as the code does, offset by offset: tokens, padded names
and values, cells, and the walks over nodes and over a node's properties. `Option` is
a set of one value or none. The strings have lengths but no spelling; the header is
reduced to what its checks say. `IntId` adds the base modulo 2^32, the release build's
arithmetic; a debug build panics there, on a number no tree has.

`Boot` is `kmain`: one action per call up to the unmask, the two stores of
`irq::unmask` apart. The blob is chosen at the start; it carries the board it
describes, where the hardware is. The devices raise their lines from the moment
they are set to. `BoardIsTree`: kmain ends up with that very board, or halts for the
first thing the tree lacks, with a console to say so on. `InterruptsServed`: no
interrupt finds another device's handler or none, and each is served once
interrupts are unmasked, unless the table has no room for its number: then the line
is not let through at all.

Fairness: the GIC signals what is raised, and a handler ends before its device
raises its line again; of `kmain` nothing is assumed, only what happens once it runs.

Bounds: blobs written by `BootMC` with words of two bytes, in which everything is
small but nothing is left out: four combinations of cell counts, declared or not,
both orders of the nodes, ten things lacking, a console one level too deep and a
second one as decoys, an interrupt number past the table; one blob cut short at every
byte, and with a NOP before every token. Run `startup` leaves out the NOPs before a
property: there the code stops reading (run `boot_nops`).

## 3. Runs

| Run | Question | Answer |
|---|---|---|
| `kernel_safety` | can any interleaving of tasks, interrupts and devices corrupt a stack, lose a wake-up or a byte, or leave the masks wrong? | no (11 invariants, 1.1 million states) |
| `kernel_liveness` | does every ready task run, is every dead task reclaimed, does input implement `InputChannel` with its fairness? | yes |
| `kernel_early_tick` | is a tick before `sched::init` harmless? | no: `tick` unwraps a task that does not exist (finding) |
| `parts` | frame allocator: partition, truthful entries, coalescing, list structure, refinement; lock: exclusion, masks restored, no deadlock against handlers or in the nesting; time: no drift with late handlers, sleep long enough | all hold (1.1 million states) |
| `heap` | slots accounted for, lists with pages leaving from everywhere, asserts of `dealloc` never trip, refinement to `ObjectAllocator` | all hold |
| `startup` | is the board what the blob says, whatever the blob? does every interrupt find its handler? is what is seeded exactly what nobody reserved, for regions with any edges? does the iterator end? | yes |
| `mmu` | does every page end up as planned, and no step rewrite a mapping? | yes |
| `monitor` | does a line do what it reads as, or nothing? do addresses go on across commands and lines? is what is shown where it should be? | yes |
| `boot_nops` | does every walker skip a NOP, as `docs/dtb.md:375` demands? | no: the walk over properties ends at one (finding) |
| `monitor_run` | does `R` alone run the last byte stored, as `docs/wozmon.md:141` and `:171` have it? | no: the address last named (finding) |
| `monitor_colon` | is a colon without bytes an error wherever it stands, as `docs/wozmon.md:237` has it? | no: only at the line's end (finding) |
| `monitor_caret` | does the caret for something missing stand under the colon or dot, as `docs/wozmon.md:226` has it? | no: under the last space behind it (finding) |

Two runs hold several parts that share no state: `PartsMC` the frame allocator, the
lock and the heartbeat, `StartupMC` the boot and the memory map. The variable `part`,
chosen at the start, is the one that moves; the others stay in an initial state of theirs. So
the states of such a run are those of its parts put side by side, not multiplied, and
what is true of all of them is true of each part run by itself. The fairness is that of the
parts, each of whose fair actions is disabled in the part that rests.

Each property has a mutant in PROJECT.json: an operator beside the definition it
changes, marked as faulty, under which TLC finds the property violated. Where a
module's type invariant is not a property of its own it is the first conjunct of
one: of `ListsSound`, `SlotsAccounted`, `EntriesPlaced`, `TablesAreTree`,
`AddressesContinue` and `BoardIsTree`.

## 4. Proofs

The theorems assume the named assumptions on the constants and nothing else; those on
the kernel also `~EarlyTick`, that no tick comes before `sched::init` (the run
`kernel_early_tick` shows what one does). None of the
properties is inductive alone: each proof module first states `IInv` (`Inv` for the
kernel) as a conjunction of named parts, proves `Spec => []IInv` with one lemma per
action, and takes the properties from it.

**Kernel** (`KernelProofs`), for any table size, number of stacks,
buffer sizes and number of spawns. A step that is safe on its stack depends on where
every other task stopped, so `Inv` has

- `TypeInv`, the kinds of the values the others need;
- `ShapeInv`, which label may lie on which: each stack is a call path of the code;
- `MaskInv`, the mask against the label, and the DAIF saved in every frame;
- `PlaceInv`, where each suspended task stopped and that stacks are not shared;
- `BootInv`, what holds before and after `sched::init`;
- `WaitInv`, the wait queue against the Blocked tasks and against the frames that
  are about to join or leave it;
- `DeadInv`, a dead task is only pruned by another;
- `IrqInv`, the interrupt in service against the handler's frame.

From it follow `MaskDiscipline`, `BoundedNesting`, `OnOwnStack`, `EndedBeforeSwitch`,
`WaitersAreBlocked`, `NoPanic` and `StacksAccounted`. `TypeOK` needs `DataInv` besides,
on the queues: what the ring holds are bytes that were typed, never the array's initial
value; `WorkConserving` needs `IdleInv`, on what the idle task may have seen. Then come
`NoStrandedByte`, `NoLostWakeup` and the step simulation of `InputChannel`, from
`DataInv` and the theorems that the ring is a queue for every `BufSize`: a push appends
to `Contents` or finds `BufSize` bytes there (`PushAppends`), a pop takes the first
(`PopTakesFirst`). The modulus goes first: `IndexWraps` replaces it with a distance and a
place that wrap at most once. Every safety property of `kernel_safety` is a theorem.

**Frames** (`FramesProofs`), for any arena, reservations and largest order, between any
two turns of a loop:

- `Cut`: the blocks listed, held and in the operation's hand are apart, aligned, and
  cover what has been seeded;
- `Seeding`: that is everything usable below the page being seeded, and no block before
  it could have been larger, so that none is left to coalesce;
- `Working`: how far the split, the merge or the scan in progress has come;
- `EntriesTrue` and `FreeUnreserved`: entries say what heads the blocks, and nothing
  reserved is marked free, so that `free` finds the buddy by its entry alone, although
  stale entries lie behind the heads;
- `NoBuddies`, two free buddies are never listed both;
- `Linked`, the links in the pages thread each list, both ways.

`Partition`, `EntriesTrue`, `Coalesced` and `ListsSound` follow, and that every step is a
step of `PageAllocator` or none. The refusal is the hard case: that no aligned free run of
the order exists follows from `NoBuddies`: the buddy of the smallest listed block in such a run would be free
too, not listed itself, and too large a hole for any other block of the run.

**Heap** (`HeapProofs`), for any arena, classes and layouts. The heart is `Sound`: blocks
held are apart; each object lies in a slot of a slab of its class, or is a whole block of
its own; the free slots of a page are threaded from its entry, as many as `in_use` leaves
(`SlotsLinked`); the list of a class threads exactly its slabs that are not full
(`ListsLinked`), and a full slab is on none. `BlocksUsed` says that no page is kept that
holds nothing. `SlotsAccounted`, `PartialLists`, `FreeAssertsHold` and the
refinement of `ObjectAllocator` follow: objects are apart, within one page or block,
and a request is refused only when there is neither room in a slab nor a block.

**MemoryMap** (`MemoryMapProofs`), for every memory, page size, entry size and sequence
of reservations: the iterator stays in the arena (`CursorInside`), the search has passed
no run long enough (`Searching`), what was seeded is what is free before the cursor
(`Seeding`), each run ends at an edge, so that the next cannot touch it (`RunsApart`),
and the array lies in the reservation made last, apart from the earlier ones (`Placed`),
never at address 0; when it found no place, no run was long enough, or the first one was
at 0 (`Tried`).
`SeedsFree` and `EntriesPlaced` follow.

**Mmu** (`MmuProofs`), for every board, any page size, number of slots and of tables, and
a heap that may refuse a table anywhere. A page is mapped by a recursion that may stop
half way, so the invariant says of every byte whose it is and how far its owner has come:

- `Stages`, how far `apply` is, in which of its two passes;
- `Tree`: over functions `Table(slots, used, l, va)` that walk down from the root, each
  table is on a walk, and on walks to one part of the address space only;
- `CallsOK`: each call in progress goes on where the one it made will end, in the table a
  walk to its address finds, and its end is in the same slot of the level above;
- `Current`: all the innermost calls have left is owned by one source, an entry of the
  plan or a fill, and `apply` has come to it (`Owns`, `Reached`);
- `LeavesAsked` and `AskedMapped`: a leaf maps to itself what one source has asked for, all
  of it, and what has been asked for and is not `Open` has its leaf;
- `TablesUsed`: under a table something is mapped, or about to be. So a table where a leaf
  would go means a mapping of somebody else's there;
- `CallsAligned`: with every edge on a page no call ever ends inside one.

`Invariant` and `RefusesForCause`, which is part of it, come from one lemma per action. Each
of these reads the change of one slot off three lemmas on the walk (`RootPut`, `TableGrown`,
`LeafPut`). What makes a leaf safe is `Fresh`: nothing is mapped in a slot that is about to
get one, at any level. `MappedAsPlanned` follows by owners: that of a mapped
page is a region with a byte in it or, of a page nobody claims, the fill of the arena it
is wholly in. For
`TablesAreTree` the links are put into a bijection with the tables that are not the root.
`MmuImplementsAddressSpace` needs of each step only what it does to leaves: all but
`MapLeaf` keep them, and `MapLeaf` maps the run of unmapped pages of one slot.

**SpinLock** (`LockTimeBootProofs`), for any cores, locks and depth of nesting: on each core
only the entry opened first can have found interrupts unmasked, guards are nested as
`Inner` allows (`StackOK`), the DAIF read tells whether anything is open (`PlaceOK`), and the
mask is clear only where it is not (`MaskOK`); a flag is set exactly while one guard
exists (`FlagOK`). `MutualExclusion`, `MaskRestored` and `NoDeadlock` follow. The last
needs of the program what `LockAssumption` says, that the order in which locks are nested has
no cycle; the code takes the heap's under the scheduler's, and no other.

**Time** (`LockTimeBootProofs`), for any frequency the rate divides (`RateAssumption`), any latency and
any duration: the ticks counted against the compare register and the count
(`TicksBehind`), what `rearm` has read while it runs (`Rearming`), and for the task in
`sleep` the ticks counted since the call, the first of which falls at a deadline after it
and each other one interval later (`Sleeping`). `NoDrift` and `SleepsAtLeast` follow. The
tick that `sleep` adds pays for the first of these, which may come at once.

**Boot** (`LockTimeBootProofs`), for any blobs and any size of the handler table: `BootInvariant`
says at each step of `kmain` what has been found, registered and let through, and that
interrupts are live, then unmasked (`Unmasking`); a device's line that is let through has a
slot with that device's handler (`Registered`). `TableIsFixed` is what the comment on
`HandlerTable` relies on (`kernel/irq.rs:19`): an interrupt is taken only when the table
has ceased to change. `NoneGoesAstray` says that no interrupt finds another device's handler or
none, provided that the board kmain goes by is the one the tree describes, which is
`BoardIsTree`, and that the two devices are not on one line; were they, the second
`register` would replace the handler of the first.

**Monitor** (`MonitorProofs`), for any alphabet, base, length of numbers, of the line and of
a row, any alignment and any number of lines. The properties speak of a finished line,
read as a whole, while the parser stops between any two tokens; so `IInv` says what
each stop is worth:

- `Types`, the kinds of the values;
- `Fits(pos, mode)`: the position is a boundary between tokens, the mode says what the last
  token behind it was, and nothing behind it is wrong, except that it may be a
  colon nothing follows (`Dangling`), which only the end of the line can tell;
- `ReadSoFar`: in the second pass the line is without fault, and what was carried out
  is what the line up to `pos` reads as (`ReadingTo[pos]`); before that nothing is, and
  a refused line is refused for its first fault;
- `AddressesContinue`, inductive by itself: a command appended to the history begins
  where the history ends (`Continues`);
- `Showing`: the row against the buffer, the caret against the fault (`Points`), and the
  rows of a range, whose last cell is the address before `examined`, which never passes
  `last_address` (`RowsOK`).

Of a turn of the parser one lemma per kind of token (`ColonTurn`, `RunTurn`, `DotTurn`,
`AddressTurn`, `ByteTurn`, `UnexpectedTurn`, `EndTurn`) says what it makes of the tokens,
and `TurnIs` sums them up: it finds the one command its token means, or none for a token
that means none, or fails for the first fault, or a pass ends. The rest of the proof knows
no more of the grammar than that. The history, the addresses and the screen each
have a lemma per action from there.

Ways around the provers. The library's induction theorems take an operator, which no
backend here can instantiate. Finite induction is replaced by least elements, which
`FS_PigeonHole` and cardinality give (`Lemmas`). Of `2 ^ k` the solver knows nothing, so
what is needed of it is derived from the subsets of a set of `k` elements. What recurs over
a number or a line (`Numbers`, `NumberAt`, `ReadingTo`) is a recursive function: `RecursionExists`
shows that there is one, its step being a function too and no operator, and
`SetInduction` over the set of the places where a claim holds gives what it computes.
The walks
`FreeChain` and `PartialChain` are reached through the sequence the links thread: that it
exists is in the invariant, and a walk that follows the links is that sequence. Products
and remainders are named and replaced by what is known of them.

Only model-checked:

- liveness: `ReadyRuns`, `DeadReclaimed`, `Terminates`, and the fairness part of
  `ImplementsChannel` and of `InterruptsServed`. `ENABLED` and fairness are outside the
  prover;
- `Boot`, `DeviceTree`: `BoardIsTree`. What the walks of the tree find, for every blob, would
  have to be compared with the tree it was written from, and the writer is part of
  `BootMC` only.

## 5. Not modelled

- Printing and formatting, the tick counters and `ps`: output, read by nothing.
- `mmu/descriptor.rs`, `init.rs`, `policy.rs`, `registers.rs`: bit layouts and one
  sequence of register writes; `Mmu` keeps a mapping's template as a value.
- `exception.rs`, `panic.rs`, `power.rs`, `psci.rs`: each prints and parks the core or
  calls the firmware. What would lead there in the kernel is the label `panic`.
- The assembly before `kmain`, the linker script and the build.
- Of the UART, the transmitter and the line settings; of the lock, the orderings
  Acquire and Release: memory is sequentially consistent in `SpinLock`; of time, the
  width of the counter (64 bits, centuries).
- Of the monitor, what memory holds and what a stored byte or a called program does
  to the kernel: it may do anything.

## 6. Where the documents say otherwise

Each of these but the last has a run that shows it and a finding in PROJECT.json:

- `docs/gic.md:429` and `docs/timer.md:347`: no interrupt comes before there is somewhere
  for it to go. The timer's may, before `sched::init` (`kernel_early_tick`).
- `docs/dtb.md:375`: every walker skips a NOP. The walk over properties ends there
  (`boot_nops`).
- `docs/wozmon.md` 4.4 and 4.6: a store makes its last byte the current address, and
  `R` alone runs the code there. The code's store moves `next_address` only, and `R`
  calls `last_address`, the one named last (`zhemon/mod.rs:138-151`; `monitor_run`).
- `docs/wozmon.md` 6: "a colon with no bytes after it" is an error. It is only at the
  end of the line; before `.`, `R` or another colon it is passed over
  (`zhemon/parser.rs:57`, `:135-153`; `monitor_colon`).
- `docs/wozmon.md` 6: the caret for a missing byte or address sits under the colon or the
  dot that wanted it. With spaces behind that it sits under the last of them, where the
  cursor is (`zhemon/parser.rs:53`, `:138`; `monitor_caret`).
- `docs/timer.md:354`: the interval is asserted not to be zero; see Time above.

## 7. Next

Every safety property of the runs of `Kernel`, `Frames`, `Heap`, `MemoryMap`, `Mmu`,
`SpinLock`, `Time` and `Monitor` is a theorem, and of `Boot` the safety part of
`InterruptsServed`, given `BoardIsTree`. That one is left: a grammar of blobs as a definition of
its own, and an induction along the walks of `DeviceTree`, as `MonitorProofs` has along a line.
