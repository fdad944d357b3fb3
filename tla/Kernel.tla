------------------------------- MODULE Kernel --------------------------------
(***************************************************************************)
(* The running kernel: the scheduler, the wait queue, the interrupt path   *)
(* and the keyboard input they carry, on one core whose interrupts arrive  *)
(* between any two instructions that have PSTATE.I clear.                  *)
(*                                                                         *)
(* Every task has a kernel stack; a stack is the sequence of calls in      *)
(* progress on it, the innermost last.  An interrupt pushes a frame on the *)
(* stack of the task it interrupts, getc and schedule push one that holds  *)
(* the DAIF they saved, and `switch' moves the CPU to another stack.       *)
(*                                                                         *)
(* A critical section under a SpinLock (interrupts masked, one core) is    *)
(* one action; SpinLock.tla is about the lock itself.  Task code between   *)
(* two kernel calls touches no kernel state and is no step at all.         *)
(***************************************************************************)
EXTENDS TaskTable, RingBuffer, Sequences, FiniteSets

CONSTANTS
    Spawns,      \* tasks demo::start spawns (2 in the code)
    HeapStacks,  \* task stacks the heap can supply
    FifoSize,    \* bytes the UART's receive FIFO holds
    MaxBytes,    \* bound: bytes typed; byte b is the b-th to arrive
    EarlyTick    \* may the timer fire between irq::unmask and sched::init?

ASSUME SpawnsAssumption == Spawns \in Nat
ASSUME HeapAssumption == HeapStacks \in Nat /\ HeapStacks >= 1
ASSUME InputAssumption ==
    /\ FifoSize \in Nat /\ FifoSize >= 1
    /\ MaxBytes \in Nat
ASSUME EarlyTickAssumption == EarlyTick \in BOOLEAN

VARIABLES
    \* SCHED, NEED_RESCHEDULE and what a Task holds
    task_table,       \* the state of each slot
    current,          \* Scheduler.current
    need_reschedule,
    sp,               \* Context.sp: the stack a switch to the slot resumes
    freeStacks,       \* task stacks left in the heap
    spawned,          \* spawns demo::start has made
    \* INPUT_WAIT_QUEUE, INPUT_BUFFER and what getc has returned
    waiters,          \* WaitQueue.slots, as the set of its bits
    buf,              \* INPUT_BUFFER, a RingBuffer
    got,
    \* the core
    cpu,              \* whose stack the CPU stands on
    masked,           \* PSTATE.I
    stack,            \* per slot, the frames on its stack
    \* the devices
    active,           \* the interrupt acknowledged and not ended, or "none"
    timerLine,        \* CNTP condition met
    uartRaw,          \* PL011 receive interrupt asserted
    fifo,             \* PL011 receive FIFO
    nextByte          \* the next byte to arrive

sched   == <<task_table, current, need_reschedule, sp, freeStacks, spawned>>
input   == <<waiters, buf, got>>
core    == <<cpu, masked, stack>>
devices == <<active, timerLine, uartRaw, fifo, nextByte>>
vars    == <<sched, input, core, devices>>

-------------------------------------------------------------------------------
(* Frames.  `at' is the next step of the call, `daif' the mask it restores *)
(* when it returns, `from' and `to' the contexts schedule_inner took       *)
(* before it dropped the lock.                                             *)

BootLabels  == {"boot", "spawn", "halt", "read"}
TaskLabels  == BootLabels \cup {"trampoline", "wfi", "run", "exit", "gone", "unreachable"}
IrqLabels   == {"ack", "timer", "uart", "drain", "wake", "eoi", "preempt", "eret", "panic"}
GetcLabels  == {"prepare", "pop", "finish", "again"}
SchedLabels == {"pick", "switch", "return"}
Labels      == TaskLabels \cup IrqLabels \cup GetcLabels \cup SchedLabels

\* The steps the code takes with PSTATE.I set.
MaskedLabels == {"trampoline"} \cup IrqLabels \cup GetcLabels \cup SchedLabels

NoStack == -1   \* the sp of a slot no switch has saved one for

Frame(l, d) == [at |-> l, daif |-> d, from |-> Boot, to |-> Boot]

Frames == [at : Labels, daif : BOOLEAN, from : Slots, to : Slots]

Top(s) == s[Len(s)]

Here == Top(stack[cpu])

At(l) == stack[cpu] # <<>> /\ Here.at = l

SetTop(f) == [stack EXCEPT ![cpu] = [@ EXCEPT ![Len(@)] = f]]

\* Continue the innermost call at another step.
GoTo(l) == SetTop([Here EXCEPT !.at = l])

\* Enter a call: the caller continues at k when it returns.  Every call that
\* is a frame of its own starts by saving DAIF and masking interrupts.
Enter(l, k) ==
    /\ stack' = [stack EXCEPT ![cpu] =
                    Append([@ EXCEPT ![Len(@)].at = k], Frame(l, masked))]
    /\ masked' = TRUE

\* Leave the innermost call, putting DAIF back as it was.
Leave ==
    /\ stack' = [stack EXCEPT ![cpu] = SubSeq(@, 1, Len(@) - 1)]
    /\ masked' = Here.daif
-------------------------------------------------------------------------------
(* Faulty variants of steps below, each the way the code could have been   *)
(* written wrong.  No specification uses them; a check that puts one in    *)
(* the place of its original must see a property fail.                     *)

\* wake_all with its loop started at 1
WakeAllFromOne ==
    /\ At("wake")
    /\ waiters' = {}
    /\ task_table' = [s \in Slots |-> IF s \in waiters \ {0} THEN "Ready" ELSE task_table[s]]
    /\ need_reschedule' = (need_reschedule \/ waiters # {})
    /\ stack' = GoTo("drain")
    /\ UNCHANGED <<current, sp, freeStacks, spawned, buf, got, cpu, masked, devices>>

\* wake_all that asks for no reschedule
WakeAllQuietly ==
    /\ At("wake")
    /\ waiters' = {}
    /\ task_table' = [s \in Slots |-> IF s \in waiters THEN "Ready" ELSE task_table[s]]
    /\ stack' = GoTo("drain")
    /\ UNCHANGED <<current, need_reschedule, sp, freeStacks, spawned, buf, got,
                   cpu, masked, devices>>

\* preempt called before interrupt.end()
EndAfterPreempt ==
    /\ At("eoi")
    /\ need_reschedule' = FALSE
    /\ IF need_reschedule
       THEN Enter("pick", "eoi") /\ UNCHANGED active
       ELSE stack' = GoTo("eret") /\ active' = "none" /\ UNCHANGED masked
    /\ UNCHANGED <<task_table, current, sp, freeStacks, spawned, input, cpu,
                   timerLine, uartRaw, fifo, nextByte>>

\* the UART interrupt cleared after the drain as well
EndClearsUart ==
    /\ At("eoi")
    /\ active' = "none"
    /\ uartRaw' = FALSE
    /\ stack' = GoTo("preempt")
    /\ UNCHANGED <<sched, input, cpu, masked, timerLine, fifo, nextByte>>

\* preempt that opens interrupts before it calls schedule
PreemptUnmasked ==
    /\ At("preempt")
    /\ need_reschedule' = FALSE
    /\ IF need_reschedule
       THEN stack' = [stack EXCEPT ![cpu] =
                        Append([@ EXCEPT ![Len(@)].at = "eret"], Frame("pick", TRUE))]
            /\ masked' = FALSE
       ELSE stack' = GoTo("eret") /\ UNCHANGED masked
    /\ UNCHANGED <<task_table, current, sp, freeStacks, spawned, input, cpu, devices>>

\* prune that does not drop the task's stack
PickLeaks ==
    /\ At("pick")
    /\ LET table == Prune(task_table, current)
           next  == NextIdx(table, current)
       IN  /\ task_table' = table
           /\ current' = next
           /\ stack' = SetTop(IF next = current
                              THEN [Here EXCEPT !.at = "return"]
                              ELSE [Here EXCEPT !.at = "switch", !.from = current, !.to = next])
    /\ UNCHANGED <<need_reschedule, freeStacks, sp, spawned, input, cpu, masked, devices>>

\* schedule that unmasks on return instead of restoring DAIF
ReturnUnmasks ==
    /\ At("return")
    /\ stack' = [stack EXCEPT ![cpu] = SubSeq(@, 1, Len(@) - 1)]
    /\ masked' = FALSE
    /\ UNCHANGED <<sched, input, cpu, devices>>

\* task_exit calling schedule_inner without without_interrupts
ExitScheduleUnmasked ==
    /\ At("gone")
    /\ stack' = [stack EXCEPT ![cpu] =
                    Append([@ EXCEPT ![Len(@)].at = "unreachable"], Frame("pick", masked))]
    /\ UNCHANGED <<sched, input, cpu, masked, devices>>

\* finish that leaves its bit on the queue
FinishKeepsBit ==
    /\ At("finish")
    /\ task_table' = [task_table EXCEPT ![current] = "Ready"]
    /\ Leave
    /\ UNCHANGED <<current, need_reschedule, sp, freeStacks, spawned, input, cpu, devices>>
-------------------------------------------------------------------------------
(* The interrupt path: vectors.s, kernel/irq.rs, drivers/gic.rs.           *)

Pending == {i \in {"timer", "uart"} :
              \/ i = "timer" /\ timerLine
              \/ i = "uart" /\ uartRaw}

\* The core takes the exception.  All interrupts have one priority, so the
\* GIC signals none while one is active.
TakeIrq ==
    /\ ~masked
    /\ active = "none"
    /\ Pending # {}
    /\ Enter("ack", Here.at)
    /\ UNCHANGED <<sched, input, cpu, devices>>

\* gic::acknowledge() and the dispatch to the registered handler.
Acknowledge(i) ==
    /\ At("ack")
    /\ i \in Pending
    /\ active' = i
    /\ stack' = GoTo(i)
    /\ UNCHANGED <<sched, input, cpu, masked, timerLine, uartRaw, fifo, nextByte>>

\* IAR reads 1023, as it may when a signal was withdrawn: handle_interrupt
\* returns at once, without an end of interrupt and without preempt.
AcknowledgeSpurious ==
    /\ At("ack")
    /\ stack' = GoTo("eret")
    /\ UNCHANGED <<sched, input, cpu, masked, devices>>

\* time::handle_interrupt: rearm, then sched::tick, whose unwrap panics on an
\* empty slot.  (The tick counters are left out: only ps and sleep read them.)
HandleTimer ==
    /\ At("timer")
    /\ timerLine' = FALSE
    /\ need_reschedule' = TRUE
    /\ stack' = GoTo(IF task_table[current] = "None" THEN "panic" ELSE "eoi")
    /\ UNCHANGED <<task_table, current, sp, freeStacks, spawned, input,
                   cpu, masked, active, uartRaw, fifo, nextByte>>

\* pl011::handle_interrupt clears the interrupt before it drains the FIFO.
HandleUart ==
    /\ At("uart")
    /\ uartRaw' = FALSE
    /\ stack' = GoTo("drain")
    /\ UNCHANGED <<sched, input, cpu, masked, active, timerLine, fifo, nextByte>>

\* try_getc finds a byte and push_character pushes it; a full INPUT_BUFFER
\* drops it.  Reading the last byte of the FIFO lowers the interrupt.
DrainByte ==
    /\ At("drain")
    /\ fifo # <<>>
    /\ fifo' = Tail(fifo)
    /\ uartRaw' = (uartRaw /\ Len(fifo) > 1)
    /\ buf' = RingPush(buf, Head(fifo))
    /\ stack' = GoTo("wake")
    /\ UNCHANGED <<sched, waiters, got, cpu, masked, active, timerLine, nextByte>>

DrainDone ==
    /\ At("drain")
    /\ fifo = <<>>
    /\ stack' = GoTo("eoi")
    /\ UNCHANGED <<sched, input, cpu, masked, devices>>

\* wake_all: nothing when nobody waits; otherwise every waiter is Ready and a
\* reschedule is asked for.  The unwrap panics if a waiter's slot is empty.
WakeAll ==
    /\ At("wake")
    /\ waiters' = {}
    /\ task_table' = [s \in Slots |-> IF s \in waiters THEN "Ready" ELSE task_table[s]]
    /\ need_reschedule' = (need_reschedule \/ waiters # {})
    /\ stack' = GoTo(IF \E s \in waiters : task_table[s] = "None" THEN "panic" ELSE "drain")
    /\ UNCHANGED <<current, sp, freeStacks, spawned, buf, got, cpu, masked, devices>>

\* interrupt.end()
EndOfInterrupt ==
    /\ At("eoi")
    /\ active' = "none"
    /\ stack' = GoTo("preempt")
    /\ UNCHANGED <<sched, input, cpu, masked, timerLine, uartRaw, fifo, nextByte>>

\* preempt(): take the request, and call schedule if there was one.
Preempt ==
    /\ At("preempt")
    /\ need_reschedule' = FALSE
    /\ IF need_reschedule
       THEN Enter("pick", "eret")
       ELSE stack' = GoTo("eret") /\ UNCHANGED masked
    /\ UNCHANGED <<task_table, current, sp, freeStacks, spawned, input, cpu, devices>>

Eret ==
    /\ At("eret")
    /\ Leave
    /\ UNCHANGED <<sched, input, cpu, devices>>
-------------------------------------------------------------------------------
(* schedule(): kernel/sched/mod.rs and arch/aarch64/switch.s.              *)

\* schedule_inner up to the drop of its guard: dead tasks are dropped, which
\* gives their stacks back, and the next task becomes current.
Pick ==
    /\ At("pick")
    /\ LET table == Prune(task_table, current)
           next  == NextIdx(table, current)
           freed == Prunable(task_table, current)
       IN  /\ task_table' = table
           /\ freeStacks' = freeStacks + Cardinality(freed)
           /\ current' = next
           /\ sp' = [s \in Slots |-> IF s \in freed THEN NoStack ELSE sp[s]]
           /\ stack' = [s \in Slots |->
                          IF s \in freed THEN <<>>
                          ELSE IF s # cpu THEN stack[s]
                          ELSE SetTop(IF next = current
                                      THEN [Here EXCEPT !.at = "return"]
                                      ELSE [Here EXCEPT !.at = "switch",
                                                        !.from = current, !.to = next])[s]]
    /\ UNCHANGED <<need_reschedule, spawned, input, cpu, masked, devices>>

\* switch(from, to): save sp, load the other one, and return into it.  The
\* frame left behind resumes at its return when somebody switches back.
Switch ==
    /\ At("switch")
    /\ sp[Here.to] # NoStack
    /\ sp' = [sp EXCEPT ![Here.from] = cpu]
    /\ cpu' = sp[Here.to]
    /\ stack' = SetTop(Frame("return", Here.daif))
    /\ UNCHANGED <<task_table, current, need_reschedule, freeStacks, spawned,
                   input, masked, devices>>

\* without_interrupts restores DAIF, and schedule returns to its caller.
Return ==
    /\ At("return")
    /\ Leave
    /\ UNCHANGED <<sched, input, cpu, devices>>

\* The first instructions of a new task: unmask, then call its entry.
Trampoline ==
    /\ At("trampoline")
    /\ masked' = FALSE
    /\ stack' = GoTo(IF cpu = Idle THEN "wfi" ELSE "run")
    /\ UNCHANGED <<sched, input, cpu, devices>>
-------------------------------------------------------------------------------
(* Task code.                                                              *)

\* The task's entry returns to the trampoline, which calls task_exit.
Finish ==
    /\ At("run")
    /\ stack' = GoTo("exit")
    /\ UNCHANGED <<sched, input, cpu, masked, devices>>

\* task_exit marks the current task dead and drops the lock...
MarkDead ==
    /\ At("exit")
    /\ task_table' = [task_table EXCEPT ![current] = "Dead"]
    /\ stack' = GoTo("gone")
    /\ UNCHANGED <<current, need_reschedule, sp, freeStacks, spawned, input,
                   cpu, masked, devices>>

\* ...and then, with interrupts open again, calls schedule.  The code after
\* that call is unreachable!().
ExitSchedule ==
    /\ At("gone")
    /\ Enter("pick", "unreachable")
    /\ UNCHANGED <<sched, input, cpu, devices>>

\* sched::init: the running code becomes task 0 and the idle task is built.
\* kmain has unmasked interrupts before it gets here.
InitSched ==
    /\ At("boot")
    /\ task_table' = [task_table EXCEPT ![Boot] = "Ready", ![Idle] = "Ready"]
    /\ sp' = [sp EXCEPT ![Idle] = Idle]
    /\ freeStacks' = freeStacks - 1
    /\ stack' = [GoTo("spawn") EXCEPT ![Idle] = <<Frame("trampoline", TRUE)>>]
    /\ UNCHANGED <<current, need_reschedule, spawned, input, cpu, masked, devices>>

\* One spawn of demo::start, which stops at the first that fails: kmain then
\* halts, in a loop that waits for interrupts.
Spawn ==
    /\ At("spawn")
    /\ spawned < Spawns
    /\ FreeSlots(task_table) # {}
    /\ freeStacks > 0
    /\ LET new == FreeId(task_table)
       IN  /\ task_table' = [task_table EXCEPT ![new] = "Ready"]
           /\ sp' = [sp EXCEPT ![new] = new]
           /\ stack' = [stack EXCEPT ![new] = <<Frame("trampoline", TRUE)>>]
    /\ freeStacks' = freeStacks - 1
    /\ spawned' = spawned + 1
    /\ UNCHANGED <<current, need_reschedule, input, cpu, masked, devices>>

SpawnFails ==
    /\ At("spawn")
    /\ spawned < Spawns
    /\ FreeSlots(task_table) = {} \/ freeStacks = 0
    /\ stack' = GoTo("halt")
    /\ UNCHANGED <<sched, input, cpu, masked, devices>>

\* All spawned: the boot task becomes the monitor, which reads the console.
Started ==
    /\ At("spawn")
    /\ spawned = Spawns
    /\ stack' = GoTo("read")
    /\ UNCHANGED <<sched, input, cpu, masked, devices>>
-------------------------------------------------------------------------------
(* getc: one turn of its loop, from tty/input.rs and kernel/sched/wait.rs. *)

Getc ==
    /\ At("read")
    /\ Enter("prepare", "read")
    /\ UNCHANGED <<sched, input, cpu, devices>>

\* WaitQueue::prepare: on the queue and Blocked, before the buffer is looked at.
Prepare ==
    /\ At("prepare")
    /\ waiters' = waiters \cup {current}
    /\ task_table' = [task_table EXCEPT ![current] = "Blocked"]
    /\ stack' = GoTo("pop")
    /\ UNCHANGED <<current, need_reschedule, sp, freeStacks, spawned, buf, got,
                   cpu, masked, devices>>

PopByte ==
    /\ At("pop")
    /\ ~RingEmpty(buf)
    /\ buf' = RingPop(buf)
    /\ got' = Append(got, RingFirst(buf))
    /\ stack' = GoTo("finish")
    /\ UNCHANGED <<sched, waiters, cpu, masked, devices>>

\* Nothing there: sleep.  getc goes round its loop again when it is woken.
PopEmpty ==
    /\ At("pop")
    /\ RingEmpty(buf)
    /\ Enter("pick", "again")
    /\ UNCHANGED <<sched, input, cpu, devices>>

\* WaitQueue::finish, and getc returns its byte.
FinishWait ==
    /\ At("finish")
    /\ waiters' = waiters \ {current}
    /\ task_table' = [task_table EXCEPT ![current] = "Ready"]
    /\ Leave
    /\ UNCHANGED <<current, need_reschedule, sp, freeStacks, spawned, buf, got,
                   cpu, devices>>

GetcAgain ==
    /\ At("again")
    /\ Leave
    /\ UNCHANGED <<sched, input, cpu, devices>>
-------------------------------------------------------------------------------
(* The devices.                                                            *)

\* The generic timer meets its deadline.  kmain starts it one interval before
\* the first; that the scheduler is up by then is what EarlyTick = FALSE says.
TimerFire ==
    /\ ~timerLine
    /\ EarlyTick \/ task_table[Boot] # "None"
    /\ timerLine' = TRUE
    /\ UNCHANGED <<sched, input, core, active, uartRaw, fifo, nextByte>>

\* A byte arrives.  The PL011 asserts its interrupt when the FIFO goes from
\* empty to one byte, not again for the bytes behind it, and loses a byte that
\* finds the FIFO full.
Receive ==
    /\ nextByte <= MaxBytes
    /\ nextByte' = nextByte + 1
    /\ fifo' = IF Len(fifo) < FifoSize THEN Append(fifo, nextByte) ELSE fifo
    /\ uartRaw' = (uartRaw \/ fifo = <<>>)
    /\ UNCHANGED <<sched, input, core, active, timerLine>>
-------------------------------------------------------------------------------
Init ==
    /\ task_table = [s \in Slots |-> "None"]
    /\ current = Boot
    /\ need_reschedule = FALSE
    /\ sp = [s \in Slots |-> NoStack]
    /\ freeStacks = HeapStacks
    /\ spawned = 0
    /\ waiters = {}
    /\ buf = RingOf(0)     \* InputByte::EMPTY
    /\ got = <<>>
    /\ cpu = Boot
    /\ masked = FALSE
    /\ stack = [s \in Slots |-> IF s = Boot THEN <<Frame("boot", FALSE)>> ELSE <<>>]
    /\ active = "none"
    /\ timerLine = FALSE
    /\ uartRaw = FALSE
    /\ fifo = <<>>
    /\ nextByte = 1

\* The steps the CPU takes with interrupts masked: nothing can come between.
MaskedStep ==
    \/ \E i \in {"timer", "uart"} : Acknowledge(i)
    \/ AcknowledgeSpurious
    \/ HandleTimer
    \/ HandleUart \/ DrainByte \/ DrainDone \/ WakeAll
    \/ EndOfInterrupt \/ Preempt \/ Eret
    \/ Pick \/ Switch \/ Return \/ Trampoline
    \/ Prepare \/ PopByte \/ PopEmpty \/ FinishWait \/ GetcAgain

\* The steps of task code, which an interrupt may precede.
TaskStep ==
    \/ InitSched \/ Spawn \/ SpawnFails \/ Started \/ Getc
    \/ MarkDead \/ ExitSchedule

Next ==
    \/ MaskedStep
    \/ TaskStep
    \/ Finish
    \/ TakeIrq
    \/ TimerFire
    \/ Receive

Spec == Init /\ [][Next]_vars

\* The CPU keeps executing.  The timer keeps firing, and rearm always sets its
\* deadline one interval (10 ms) ahead, far more than a handler takes: so a task
\* that holds the CPU again and again gets its next step done.  An interrupt is
\* taken and acknowledged when interrupts are open again and again.  Nothing
\* makes a byte arrive, and nothing makes a task finish.
Fairness ==
    /\ WF_vars(MaskedStep)
    /\ \A s \in Slots \ {Idle} : SF_vars(cpu = s /\ TaskStep)
    /\ WF_vars(TimerFire)
    /\ SF_vars(TakeIrq)
    /\ \A i \in {"timer", "uart"} : SF_vars(Acknowledge(i))

FairSpec == Spec /\ Fairness
-------------------------------------------------------------------------------
(* What must hold.                                                         *)

\* The variables hold values of their kind (kernel/sched/mod.rs and the
\* machine's registers); a stack is at most three frames deep.
TypeOK ==
    /\ task_table \in Tables
    /\ current \in Slots
    /\ need_reschedule \in BOOLEAN
    /\ sp \in [Slots -> Slots \cup {NoStack}]
    /\ freeStacks \in 0 .. HeapStacks
    /\ spawned \in 0 .. Spawns
    /\ waiters \subseteq Slots
    /\ buf \in Rings(0 .. MaxBytes) /\ Contents(buf) \in Seq(1 .. MaxBytes)
    /\ got \in Seq(1 .. MaxBytes)
    /\ cpu \in Slots
    /\ masked \in BOOLEAN
    /\ stack \in [Slots -> Seq(Frames)]
    /\ active \in {"none", "timer", "uart"}
    /\ timerLine \in BOOLEAN
    /\ uartRaw \in BOOLEAN
    /\ fifo \in Seq(1 .. MaxBytes) /\ Len(fifo) <= FifoSize
    /\ nextByte \in 1 .. MaxBytes + 1

\* No unwrap of an empty slot fails, in tick or in wake_all, and the schedule
\* call of task_exit does not come back to its unreachable!().
NoPanic == ~At("panic") /\ ~At("unreachable")

\* Interrupts are masked exactly while the code believes they are: inside
\* without_interrupts, an exception handler or a trampoline not yet through,
\* and nowhere else, whatever DAIF values the calls in progress restore.
MaskDiscipline == stack[cpu] # <<>> /\ (masked <=> Here.at \in MaskedLabels)

\* The masking of handlers and of schedule bounds what a 16 KiB task stack
\* has to carry: one interrupt frame of 800 bytes and its calls, never two.
BoundedNesting ==
    \A s \in Slots :
        /\ Len(stack[s]) <= 3
        /\ Cardinality({k \in DOMAIN stack[s] : stack[s][k].at \in IrqLabels}) <= 1

\* Whenever an interrupt could look, the CPU stands on the stack of the task
\* the scheduler calls current, that stack has not been given back to the
\* heap, and every other live task can be resumed where it stopped.
OnOwnStack ==
    ~masked =>
        /\ cpu = current
        /\ ~At("boot") => task_table[cpu] # "None"
        /\ \A s \in Slots \ {cpu} :
              task_table[s] # "None" =>
                 /\ sp[s] = s
                 /\ stack[s] # <<>>
                 /\ Top(stack[s]).at \in {"return", "trampoline"}

\* An interrupt is ended before the handler's preempt gives the CPU away: were
\* it still active in another task, nothing would be delivered to that task.
EndedBeforeSwitch ==
    active # "none" => At("timer") \/ At("uart") \/ At("drain") \/ At("wake") \/ At("eoi")

\* A task is on the wait queue exactly while it is Blocked, so that a wake
\* reaches every sleeper and revives nobody else.
WaitersAreBlocked == waiters = {s \in Slots : task_table[s] = "Blocked"}

\* getc never sleeps on a byte it could have had: when the reader is Blocked
\* with input buffered, either it is about to look or a wake is on its way.
NoLostWakeup ==
    ~RingEmpty(buf) /\ task_table[Boot] = "Blocked" => At("pop") \/ At("finish") \/ At("wake")

\* No byte is left in the UART's FIFO with nobody told: clearing the
\* interrupt before draining leaves it asserted or the drain still to look.
NoStrandedByte ==
    fifo # <<>> => uartRaw \/ At("drain") \/ At("wake")

\* The CPU idles only when there is nothing else to do: when the idle task can
\* be interrupted, no other task is Ready.
WorkConserving == At("wfi") => \A s \in Slots \ {Idle} : task_table[s] # "Ready"

\* Every task stack is in the heap or belongs to one task: none leaks when a
\* task dies and none is given back twice.
StacksAccounted ==
    freeStacks + Cardinality({s \in Slots \ {Boot} : task_table[s] # "None"}) = HeapStacks

-------------------------------------------------------------------------------
(* What must happen.                                                       *)

\* A Ready task runs, however long the other tasks run without returning: the
\* tick preempts them and next_idx goes round.
ReadyRuns ==
    \A s \in Slots \ {Idle} :
        task_table[s] = "Ready" ~> (cpu = s \/ task_table[s] # "Ready")

\* A dead task's slot and stack are reclaimed.
DeadReclaimed == \A s \in Slots : task_table[s] = "Dead" ~> task_table[s] # "Dead"

\* From the wire to getc the kernel is the channel InputChannel promises: bytes
\* come in order, once each, lost only where the FIFO or the buffer is full,
\* and what is buffered is read.
Channel ==
    INSTANCE InputChannel WITH
        LineCapacity <- FifoSize, Capacity <- BufSize,
        next <- nextByte, line <- fifo, held <- Contents(buf), taken <- got

ImplementsChannel == Channel!Spec
==============================================================================
