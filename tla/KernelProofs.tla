---------------------------- MODULE KernelProofs -----------------------------
(***************************************************************************)
(* What TLAPS proves of Kernel, for every number of slots, spawns, task    *)
(* stacks, buffer sizes and bytes.  First the invariant, and what follows  *)
(* from it.  Then, of the scheduler: every task stack is accounted for,    *)
(* the CPU idles only when no task is Ready, and every variable holds      *)
(* values of its kind.  Of the keyboard's path: the ring is a queue that   *)
(* refuses what finds it full, no byte is stranded, no wakeup is lost, and *)
(* every step is one of the channel's or none.                             *)
(***************************************************************************)
EXTENDS Kernel, TLAPS, FiniteSetTheorems, SequenceTheorems, WellFoundedInduction

(* The inductive invariant.  Its heart is the shape of a task's stack: the  *)
(* task's own frame, then at most one interrupt handler, getc or schedule,  *)
(* then at most the schedule that one called.                               *)

\* TypeOK, but for the bound on the stacks the heap has left, which is a matter
\* of accounting.
TypeInv ==
    /\ task_table \in Tables
    /\ current \in Slots
    /\ need_reschedule \in BOOLEAN
    /\ sp \in [Slots -> Slots \cup {NoStack}]
    /\ freeStacks \in Nat
    /\ waiters \subseteq Slots
    /\ cpu \in Slots
    /\ masked \in BOOLEAN
    /\ stack \in [Slots -> Seq(Frames)]
    /\ active \in {"none", "timer", "uart"}
    /\ timerLine \in BOOLEAN

Nested == IrqLabels \cup GetcLabels \cup SchedLabels

Shape(st) ==
    /\ Len(st) \in 1 .. 3
    /\ st[1].at \in TaskLabels
    /\ Len(st) >= 2 => /\ st[1].at # "trampoline"
                       /\ st[2].at \in Nested
                       /\ st[2].daif = FALSE
    /\ Len(st) = 3 => /\ st[2].at \in {"eret", "again"}
                      /\ st[3].at \in SchedLabels
                      /\ st[3].daif = TRUE

Booted == task_table[Boot] # "None"

\* Which code a slot's own frame can be in.
OwnLabels(s) ==
    IF s = Boot THEN BootLabels
    ELSE IF s = Idle THEN {"trampoline", "wfi"}
    ELSE {"trampoline", "run", "exit", "gone", "unreachable"}

ShapeInv == \A s \in Slots : stack[s] # <<>> => Shape(stack[s]) /\ stack[s][1].at \in OwnLabels(s)

MaskInv == stack[cpu] # <<>> /\ (masked <=> Here.at \in MaskedLabels)

\* Where the scheduler's idea of the machine and the machine agree.
PlaceInv ==
    /\ Here.at # "switch" => current = cpu
    /\ Here.at = "switch" => /\ Here.from = cpu /\ Here.to = current
                             /\ current # cpu
                             /\ task_table[current] = "Ready"
    /\ \A s \in Slots \ {cpu} :
          /\ task_table[s] # "None" => sp[s] = s /\ stack[s] # <<>>
          /\ stack[s] # <<>> => Top(stack[s]).at \in {"return", "trampoline"}

\* Before sched::init there are no tasks; after it there is always an idle one.
BootInv ==
    /\ Booted => \A s \in Slots : task_table[s] = "None" <=> stack[s] = <<>>
    /\ Booted => task_table[Idle] = "Ready" /\ stack[Boot][1].at # "boot"
    /\ ~Booted => /\ \A s \in Slots : task_table[s] = "None"
                  /\ cpu = Boot /\ stack[Boot][1].at = "boot"
                  /\ \A s \in Slots \ {Boot} : stack[s] = <<>>
                  /\ waiters = {}
                  /\ ~timerLine /\ ~need_reschedule /\ freeStacks = HeapStacks
                  /\ Here.at \notin {"timer"} \cup GetcLabels \cup SchedLabels

\* Getc labels are the boot task's own, who alone waits.
WaitInv ==
    /\ WaitersAreBlocked
    /\ waiters \subseteq {Boot}
    /\ \A s \in Slots \ {Boot} : Len(stack[s]) >= 2 => stack[s][2].at \notin GetcLabels

\* A task is dead from task_exit on, and never gets the CPU back.
DeadInv ==
    /\ \A s \in Slots : task_table[s] = "Dead" <=>
          stack[s] # <<>> /\ stack[s][1].at \in {"gone", "unreachable"}
    /\ stack[cpu][1].at = "unreachable" =>
          Len(stack[cpu]) = 2 /\ Here.at \in {"pick", "switch"}

\* An active interrupt is in its handler, and no handler panics.
IrqInv ==
    /\ active # "none" => Here.at \in {"timer", "uart", "drain", "wake", "eoi"}
    /\ \A s \in Slots : \A k \in 1 .. Len(stack[s]) : stack[s][k].at # "panic"

Inv == TypeInv /\ ShapeInv /\ MaskInv /\ PlaceInv /\ BootInv /\ WaitInv /\ DeadInv /\ IrqInv

-------------------------------------------------------------------------------
(* Facts about the operators the steps are made of.                         *)

\* The four kinds of label have nothing in common, and only task code (but for
\* a trampoline) runs with interrupts open.
LEMMA LabelKinds ==
    /\ TaskLabels \cap Nested = {}
    /\ IrqLabels \cap GetcLabels = {} /\ IrqLabels \cap SchedLabels = {}
    /\ GetcLabels \cap SchedLabels = {}
    /\ Labels = TaskLabels \cup Nested
    /\ \A l \in Labels : l \in MaskedLabels <=> l = "trampoline" \/ l \in Nested
  BY DEF Labels, TaskLabels, BootLabels, IrqLabels, GetcLabels, SchedLabels,
         MaskedLabels, Nested

\* The least-number principle.
LEMMA LeastOfNats ==
    ASSUME NEW T \in SUBSET Nat, T # {}
    PROVE  \E x \in T : \A y \in T : x <= y
  <1>1. PICK x \in T : \A y \in T : <<y, x>> \notin OpToRel(<, Nat)
    BY WFMin, NatLessThanWellFounded, Zenon
  <1>2. \A y \in T : ~(y < x)
    BY <1>1 DEF OpToRel
  <1>. QED
    BY <1>2

\* next_idx finds the idle task or a Ready one, whatever the table.
LEMMA NextIdxIsReady ==
    ASSUME NEW table \in Tables, NEW c \in Slots
    PROVE  /\ NextIdx(table, c) \in Slots
           /\ NextIdx(table, c) = Idle \/ table[NextIdx(table, c)] = "Ready"
  <1> DEFINE hits == {i \in 0 .. N - 1 : Runnable(table, Scan(c, i))}
             first == CHOOSE i \in hits : \A j \in hits : i <= j
  <1>1. CASE hits = {}
    BY <1>1, NAssumption DEF NextIdx, Slots, Idle
  <1>2. CASE hits # {}
    <2>1. \E i \in hits : \A j \in hits : i <= j
      <3>1. hits \in SUBSET Nat /\ hits # {}
        BY <1>2, NAssumption
      <3>. QED
        BY <3>1, LeastOfNats
    <2>2. first \in hits
      BY <2>1
    <2>3. Scan(c, first) \in Slots
      <3>1. c + first + 1 \in Nat
        BY <2>2, NAssumption DEF Slots
      <3>2. \A a \in Nat : a % N \in 0 .. N - 1
        BY NAssumption
      <3>. QED
        BY <3>1, <3>2 DEF Scan, Slots
    <2>4. NextIdx(table, c) = Scan(c, first)
      BY <1>2 DEF NextIdx
    <2>. QED
      BY <2>2, <2>3, <2>4 DEF Runnable
  <1>. QED
    BY <1>1, <1>2

\* The three things a step does to the stack the CPU stands on: it changes the
\* innermost frame, adds one, or removes it.
LEMMA ReplaceTop ==
    ASSUME NEW st \in Seq(Frames), st # <<>>, NEW f \in Frames,
           NEW t, t = [st EXCEPT ![Len(st)] = f]
    PROVE  /\ t \in Seq(Frames)
           /\ Len(t) = Len(st)
           /\ t[Len(t)] = f
           /\ \A k \in 1 .. Len(st) - 1 : t[k] = st[k]
  <1>1. Len(st) \in Nat /\ Len(st) >= 1
    OBVIOUS
  <1>. QED
    BY <1>1

\* The innermost frame replaced: what Pick and Switch do to a stack.
LEMMA SetTopStack ==
    ASSUME TypeInv, stack[cpu] # <<>>, NEW f \in Frames, NEW new, new = SetTop(f)
    PROVE  /\ new \in [Slots -> Seq(Frames)]
           /\ \A s \in Slots \ {cpu} : new[s] = stack[s]
           /\ Len(new[cpu]) = Len(stack[cpu])
           /\ Top(new[cpu]) = f
           /\ \A k \in 1 .. Len(stack[cpu]) - 1 : new[cpu][k] = stack[cpu][k]
  <1>1. stack[cpu] \in Seq(Frames) /\ cpu \in Slots
    BY DEF TypeInv
  <1>2. PICK st : st = [stack[cpu] EXCEPT ![Len(stack[cpu])] = f]
    OBVIOUS
  <1>3. new = [stack EXCEPT ![cpu] = st]
    BY <1>2 DEF SetTop
  <1>4. /\ st \in Seq(Frames)
        /\ Len(st) = Len(stack[cpu])
        /\ st[Len(st)] = f
        /\ \A k \in 1 .. Len(stack[cpu]) - 1 : st[k] = stack[cpu][k]
    BY <1>1, <1>2, ReplaceTop
  <1>5. new[cpu] = st /\ \A s \in Slots \ {cpu} : new[s] = stack[s]
    BY <1>1, <1>3 DEF TypeInv
  <1>6. new \in [Slots -> Seq(Frames)]
    BY <1>1, <1>3, <1>4 DEF TypeInv
  <1>. QED
    BY <1>4, <1>5, <1>6 DEF Top

LEMMA GoToStack ==
    ASSUME TypeInv, stack[cpu] # <<>>, NEW l \in Labels,
           NEW new, new = GoTo(l)
    PROVE  /\ new \in [Slots -> Seq(Frames)]
           /\ \A s \in Slots \ {cpu} : new[s] = stack[s]
           /\ Len(new[cpu]) = Len(stack[cpu])
           /\ Top(new[cpu]) = [Here EXCEPT !.at = l]
           /\ \A k \in 1 .. Len(stack[cpu]) - 1 : new[cpu][k] = stack[cpu][k]
  <1>1. stack[cpu] \in Seq(Frames)
    BY DEF TypeInv
  <1>2. Here \in Frames
    BY <1>1 DEF Here, Top
  <1>3. PICK f : f = [Here EXCEPT !.at = l]
    OBVIOUS
  <1>4. f \in Frames
    BY <1>2, <1>3 DEF Frames
  <1>5. new = SetTop(f)
    BY <1>3 DEF GoTo
  <1>. QED
    BY <1>3, <1>4, <1>5, SetTopStack

\* What Enter and Leave do to a sequence.
LEMMA EnterSeq ==
    ASSUME NEW st \in Seq(Frames), st # <<>>, NEW g \in Frames, NEW f \in Frames,
           NEW u, u = [st EXCEPT ![Len(st)] = g], NEW t, t = Append(u, f)
    PROVE  /\ t \in Seq(Frames)
           /\ Len(t) = Len(st) + 1
           /\ t[Len(t)] = f
           /\ t[Len(st)] = g
           /\ \A i \in 1 .. Len(st) - 1 : t[i] = st[i]
  <1>1. Len(st) \in Nat /\ Len(st) >= 1
    OBVIOUS
  <1>4. /\ u \in Seq(Frames) /\ Len(u) = Len(st)
        /\ u[Len(u)] = g
        /\ \A i \in 1 .. Len(st) - 1 : u[i] = st[i]
    BY ReplaceTop
  <1>5. /\ t \in Seq(Frames)
        /\ Len(t) = Len(u) + 1
        /\ \A i \in 1 .. Len(u) : t[i] = u[i]
        /\ t[Len(u) + 1] = f
    <2>1. u \in Seq(Frames)
      BY <1>4
    <2>. QED
      BY <2>1
  <1>6. Len(u) = Len(st)
    BY <1>4
  <1>7. Len(st) \in 1 .. Len(u) /\ \A i \in 1 .. Len(st) - 1 : i \in 1 .. Len(u)
    BY <1>1, <1>6
  <1>8. t[Len(st)] = u[Len(u)] /\ \A i \in 1 .. Len(st) - 1 : t[i] = u[i]
    BY <1>5, <1>6, <1>7
  <1>. QED
    BY <1>4, <1>5, <1>6, <1>8

LEMMA EnterStack ==
    ASSUME TypeInv, stack[cpu] # <<>>, NEW k \in Labels, NEW f \in Frames,
           stack' = [stack EXCEPT ![cpu] =
                        Append([stack[cpu] EXCEPT ![Len(stack[cpu])].at = k], f)]
    PROVE  /\ stack' \in [Slots -> Seq(Frames)]
           /\ \A s \in Slots \ {cpu} : stack'[s] = stack[s]
           /\ Len(stack'[cpu]) = Len(stack[cpu]) + 1
           /\ stack'[cpu][Len(stack'[cpu])] = f
           /\ stack'[cpu][Len(stack[cpu])] = [Here EXCEPT !.at = k]
           /\ \A i \in 1 .. Len(stack[cpu]) - 1 : stack'[cpu][i] = stack[cpu][i]
  <1>1. PICK st : st = stack[cpu]
    OBVIOUS
  <1>2. st \in Seq(Frames) /\ st # <<>> /\ cpu \in Slots /\ Here = Top(st)
    BY <1>1 DEF TypeInv, Here
  <1>3. PICK g, u, new :
           /\ g = [Here EXCEPT !.at = k]
           /\ u = [st EXCEPT ![Len(st)] = g]
           /\ new = Append(u, f)
    OBVIOUS
  <1>a. g \in Frames
    <2>1. Here \in Frames
      BY <1>2 DEF Top
    <2>. QED
      BY <1>3, <2>1 DEF Frames
  <1>4. /\ new \in Seq(Frames)
        /\ Len(new) = Len(st) + 1
        /\ new[Len(new)] = f
        /\ new[Len(st)] = g
        /\ \A i \in 1 .. Len(st) - 1 : new[i] = st[i]
    BY <1>2, <1>3, <1>a, EnterSeq
  <1>b. u = [st EXCEPT ![Len(st)].at = k]
    BY <1>2, <1>3 DEF Top
  <1>5. stack' = [stack EXCEPT ![cpu] = new]
    BY <1>1, <1>3, <1>b
  <1>6. stack'[cpu] = new /\ \A s \in Slots \ {cpu} : stack'[s] = stack[s]
    BY <1>2, <1>5 DEF TypeInv
  <1>7. stack' \in [Slots -> Seq(Frames)]
    BY <1>2, <1>4, <1>5 DEF TypeInv
  <1>. QED
    BY <1>1, <1>3, <1>4, <1>6, <1>7

LEMMA LeaveSeq ==
    ASSUME NEW st \in Seq(Frames), Len(st) >= 1,
           NEW t, t = SubSeq(st, 1, Len(st) - 1)
    PROVE  /\ t \in Seq(Frames)
           /\ Len(t) = Len(st) - 1
           /\ \A i \in 1 .. Len(st) - 1 : t[i] = st[i]
  <1> DEFINE n == Len(st) - 1
  <1>1. n \in Int /\ n >= 0 /\ 1 \in Int /\ \A i \in 1 .. n : st[i] \in Frames
    OBVIOUS
  <1> HIDE DEF n
  <1>2. /\ SubSeq(st, 1, n) \in Seq(Frames)
        /\ Len(SubSeq(st, 1, n)) = IF 1 <= n THEN n - 1 + 1 ELSE 0
        /\ \A i \in 1 .. n - 1 + 1 : SubSeq(st, 1, n)[i] = st[1 + i - 1]
    BY <1>1, SubSeqProperties
  <1>3. t = SubSeq(st, 1, n)
    BY DEF n
  <1>4. t \in Seq(Frames) /\ Len(t) = n /\ \A i \in 1 .. n : t[i] = st[i]
    BY <1>1, <1>2, <1>3
  <1>. QED
    BY <1>4 DEF n

\* Where in its stack a label can be the innermost.
LEMMA ShapeTop ==
    ASSUME NEW st \in Seq(Frames), Shape(st)
    PROVE  /\ st # <<>> /\ Top(st) \in Frames
           /\ Top(st).at \in TaskLabels => Len(st) = 1
           /\ Top(st).at \in IrqLabels \cup GetcLabels => Len(st) = 2
           /\ Top(st).at \in SchedLabels => Len(st) \in {2, 3}
  <1>1. Len(st) \in {1, 2, 3} /\ \A k \in 1 .. Len(st) : st[k] \in Frames
    BY DEF Shape
  <1>2. CASE Len(st) = 1
    BY <1>1, <1>2, LabelKinds DEF Shape, Top, Nested
  <1>3. CASE Len(st) = 2
    BY <1>1, <1>3, LabelKinds DEF Shape, Top, Nested
  <1>4. CASE Len(st) = 3
    <2>1. Top(st).at \in SchedLabels /\ Top(st) \in Frames
      BY <1>1, <1>4 DEF Shape, Top
    <2>2. st # <<>>
      BY <1>4
    <2>3. Top(st).at \notin TaskLabels \cup IrqLabels \cup GetcLabels
      BY <2>1, LabelKinds DEF Nested
    <2>. QED
      BY <1>4, <2>1, <2>2, <2>3
  <1>. QED
    BY <1>1, <1>2, <1>3, <1>4

LEMMA ShapeOne ==
    ASSUME NEW st, Len(st) = 1, st[1].at \in TaskLabels
    PROVE  Shape(st)
  BY DEF Shape

LEMMA ShapeDepth ==
    ASSUME NEW st, Shape(st)
    PROVE  Len(st) \in {1, 2, 3} /\ (Len(st) # 1 => 1 \in 1 .. Len(st) - 1)
  BY DEF Shape

SameKind(a, b) ==
    \/ a \in TaskLabels /\ b \in TaskLabels
    \/ a \in IrqLabels \cup GetcLabels /\ b \in IrqLabels \cup GetcLabels
    \/ a \in SchedLabels /\ b \in SchedLabels

\* Going on to a step of the same kind keeps the shape.
LEMMA ShapeGoTo ==
    ASSUME NEW st \in Seq(Frames), Shape(st), NEW t \in Seq(Frames),
           Len(t) = Len(st), \A k \in 1 .. Len(st) - 1 : t[k] = st[k],
           Top(t).daif = Top(st).daif, SameKind(Top(st).at, Top(t).at)
    PROVE  Shape(t)
  <1>1. Len(st) \in {1, 2, 3}
    BY DEF Shape
  <1>2. CASE Len(st) = 1
    BY <1>2, LabelKinds DEF Shape, Top, Nested, SameKind
  <1>3. CASE Len(st) = 2
    BY <1>3, LabelKinds DEF Shape, Top, Nested, SameKind
  <1>4. CASE Len(st) = 3
    BY <1>4, LabelKinds DEF Shape, Top, Nested, SameKind
  <1>. QED
    BY <1>1, <1>2, <1>3, <1>4

LEMMA ShapeEnter ==
    ASSUME NEW st \in Seq(Frames), Shape(st), NEW t \in Seq(Frames),
           Len(t) = Len(st) + 1, \A i \in 1 .. Len(st) - 1 : t[i] = st[i],
           \/ /\ Len(st) = 1 /\ t[1].at \in TaskLabels \ {"trampoline"}
              /\ Top(t).at \in Nested /\ Top(t).daif = FALSE
           \/ /\ Len(st) = 2 /\ t[2].at \in {"eret", "again"} /\ t[2].daif = st[2].daif
              /\ Top(t).at \in SchedLabels /\ Top(t).daif = TRUE
    PROVE  Shape(t)
  <1>1. CASE Len(st) = 1
    BY <1>1 DEF Shape, Top
  <1>2. CASE Len(st) = 2
    <2>1. t[2].at \in Nested
      BY <1>2 DEF Nested, IrqLabels, GetcLabels
    <2>. QED
      BY <1>2, <2>1 DEF Shape, Top
  <1>. QED
    BY <1>1, <1>2

LEMMA ShapeLeave ==
    ASSUME NEW st \in Seq(Frames), Shape(st), Len(st) >= 2, NEW t \in Seq(Frames),
           Len(t) = Len(st) - 1, \A i \in 1 .. Len(st) - 1 : t[i] = st[i]
    PROVE  /\ Shape(t)
           /\ Len(st) = 2 => Top(t).at = st[1].at /\ Top(st).daif = FALSE
           /\ Len(st) = 3 => Top(t).at \in {"eret", "again"} /\ Top(st).daif = TRUE
  <1>1. CASE Len(st) = 2
    BY <1>1 DEF Shape, Top
  <1>2. CASE Len(st) = 3
    BY <1>2 DEF Shape, Top
  <1>3. Len(st) \in {2, 3}
    BY DEF Shape
  <1>. QED
    BY <1>1, <1>2, <1>3
-------------------------------------------------------------------------------
(* Steps.  A step that changes nothing the invariant looks at keeps it; so   *)
(* does one that only goes on to a step of the same kind.                    *)

LEMMA InvTop ==
    ASSUME Inv
    PROVE  /\ stack[cpu] \in Seq(Frames) /\ stack[cpu] # <<>> /\ cpu \in Slots
           /\ Shape(stack[cpu]) /\ Here \in Frames /\ Here = stack[cpu][Len(stack[cpu])]
           /\ stack[cpu][1].at \in OwnLabels(cpu)
           /\ Here.at \in TaskLabels => Len(stack[cpu]) = 1
           /\ Here.at \in IrqLabels \cup GetcLabels => Len(stack[cpu]) = 2
           /\ Here.at \in SchedLabels => Len(stack[cpu]) \in {2, 3}
  BY ShapeTop DEF Inv, TypeInv, MaskInv, ShapeInv, Here, Top

\* What most steps leave alone.
place == <<current, sp, freeStacks, cpu>>

\* What the wait queue may do to the table: put the boot task on the queue and
\* block it, take it off and make it Ready.
TableStep ==
    /\ task_table' \in Tables
    /\ waiters' = {s \in Slots : task_table'[s] = "Blocked"}
    /\ waiters' \subseteq {Boot}
    /\ \A s \in Slots : task_table'[s] # task_table[s] =>
          /\ s # Idle
          /\ task_table[s] \in {"Ready", "Blocked"}
          /\ task_table'[s] \in {"Ready", "Blocked"}

LEMMA TableSame ==
    ASSUME Inv, UNCHANGED <<task_table, waiters>>
    PROVE  TableStep
  BY DEF TableStep, Inv, TypeInv, WaitInv, WaitersAreBlocked

\* So every slot is empty, and every task dead, exactly as before.
LEMMA TableFacts ==
    ASSUME Inv, TableStep
    PROVE  /\ \A s \in Slots : task_table'[s] = "None" <=> task_table[s] = "None"
           /\ \A s \in Slots : task_table'[s] = "Dead" <=> task_table[s] = "Dead"
           /\ task_table'[Idle] = task_table[Idle]
           /\ Booted' <=> Booted
           /\ ~Booted => waiters' = {}
  <1>1. Boot \in Slots /\ Idle \in Slots
    BY NAssumption DEF Slots, Boot, Idle
  <1>. QED
    BY <1>1 DEF TableStep, Booted, Inv, BootInv, WaitInv, WaitersAreBlocked

\* A step that goes on to l is then at l.
LEMMA ThenAt ==
    ASSUME Inv, NEW l \in Labels, stack' = GoTo(l), cpu' = cpu
    PROVE  At(l)'
  <1>1. /\ Len(stack'[cpu]) = Len(stack[cpu])
        /\ Top(stack'[cpu]) = [Here EXCEPT !.at = l]
        /\ stack' \in [Slots -> Seq(Frames)]
    BY InvTop, GoToStack DEF Inv
  <1>2. Here \in Frames /\ Len(stack[cpu]) >= 1 /\ cpu \in Slots
    BY InvTop DEF Shape
  <1>3. Here'.at = l
    BY <1>1, <1>2 DEF Here, Frames
  <1>4. Len(<<>>) = 0
    OBVIOUS
  <1>5. stack'[cpu] # <<>>
    BY <1>1, <1>2, <1>4
  <1>. QED
    BY <1>3, <1>5 DEF At

LEMMA EnteredAt ==
    ASSUME Inv, NEW l \in Labels, NEW k \in Labels, Enter(l, k), cpu' = cpu
    PROVE  Here'.at = l
  <1>1. PICK f : f = Frame(l, masked)
    OBVIOUS
  <1>2. f \in Frames /\ f.at = l
    BY <1>1, NAssumption DEF Frame, Frames, Inv, TypeInv, Slots, Boot
  <1>3. stack' = [stack EXCEPT ![cpu] =
                     Append([stack[cpu] EXCEPT ![Len(stack[cpu])].at = k], f)]
    BY <1>1 DEF Enter
  <1>4. stack'[cpu][Len(stack'[cpu])] = f
    BY <1>2, <1>3, InvTop, EnterStack DEF Inv
  <1>. QED
    BY <1>2, <1>4 DEF Here, Top

LEMMA Continue ==
    ASSUME Inv, NEW l \in Labels, stack' = GoTo(l), TableStep, UNCHANGED <<place, masked>>,
           need_reschedule' \in BOOLEAN, timerLine' \in BOOLEAN,
           active' \in {"none", "timer", "uart"},
           active' # "none" => l \in {"timer", "uart", "drain", "wake", "eoi"},
           l # "panic",
           ~Booted => ~timerLine' /\ ~need_reschedule' /\ l # "timer",
           \/ Here.at \in IrqLabels /\ l \in IrqLabels
           \/ Here.at \in GetcLabels /\ l \in GetcLabels \ {"prepare"}
           \/ /\ Here.at \in OwnLabels(cpu) \ {"trampoline", "gone", "unreachable", "boot"}
              /\ l \in OwnLabels(cpu) \ {"trampoline", "gone", "unreachable", "boot"}
    PROVE  Inv'
  <1> DEFINE st == stack[cpu]
             t  == stack'[cpu]
  <1>1. /\ stack' \in [Slots -> Seq(Frames)]
        /\ \A s \in Slots \ {cpu} : stack'[s] = stack[s]
        /\ Len(t) = Len(st)
        /\ Top(t) = [Here EXCEPT !.at = l]
        /\ \A k \in 1 .. Len(st) - 1 : t[k] = st[k]
    BY InvTop, GoToStack DEF Inv
  <1>2. /\ cpu' = cpu /\ cpu \in Slots /\ t \in Seq(Frames) /\ Here' = Top(t)
        /\ st \in Seq(Frames) /\ Shape(st) /\ Here \in Frames
    BY <1>1, InvTop DEF place, Here
  <1>3. Top(t).at = l /\ Top(t).daif = Here.daif
    BY <1>1, <1>2 DEF Frames
  <1>4. SameKind(Here.at, l)
    BY LabelKinds DEF SameKind, OwnLabels, TaskLabels, BootLabels
  <1>5. Shape(t)
    BY <1>1, <1>2, <1>3, <1>4, ShapeGoTo DEF Here
  <1>6. t # <<>> /\ t = stack'[cpu]
    BY <1>5, <1>2, ShapeTop
  <1> HIDE DEF t
  <1>7. TypeInv'
    BY <1>1 DEF Inv, TypeInv, TableStep, place
  <1>8. Len(st) = 1 => /\ l \in OwnLabels(cpu) \ {"trampoline", "gone", "unreachable", "boot"}
                       /\ Here.at \in OwnLabels(cpu) \ {"trampoline", "gone", "unreachable", "boot"}
    <2>1. SUFFICES ASSUME Len(st) = 1, Here.at \in IrqLabels \cup GetcLabels PROVE FALSE
      OBVIOUS
    <2>. QED
      BY <2>1, InvTop
  <1>9. t[1].at \in OwnLabels(cpu)
    <2>1. CASE Len(st) = 1
      BY <1>1, <1>3, <1>8, <2>1 DEF Top
    <2>2. CASE Len(st) # 1
      <3>1. 1 \in 1 .. Len(st) - 1
        BY <1>2, <2>2, ShapeDepth
      <3>. QED
        BY <1>1, <3>1, InvTop
    <2>. QED
      BY <2>1, <2>2
  <1>10. ShapeInv'
    BY <1>1, <1>2, <1>5, <1>6, <1>9 DEF Inv, ShapeInv, place, OwnLabels
  <1>11. MaskInv'
    <2>1. Here.at \in MaskedLabels <=> l \in MaskedLabels
      <3>1. Here.at \in Labels
        BY <1>2 DEF Frames
      <3>2. Here.at # "trampoline" /\ l # "trampoline"
        BY DEF IrqLabels, GetcLabels
      <3>3. Here.at \in TaskLabels <=> l \in TaskLabels
        BY <1>4, LabelKinds DEF SameKind, Nested
      <3>. QED
        BY <3>1, <3>2, <3>3, LabelKinds
    <2>. QED
      BY <1>2, <1>3, <1>6, <2>1 DEF Inv, MaskInv, place
  <1>12. PlaceInv'
    <2>1. Here.at # "switch" /\ l # "switch"
      BY DEF IrqLabels, GetcLabels, OwnLabels, BootLabels
    <2>. QED
      BY <1>1, <1>2, <1>3, <2>1, TableFacts DEF Inv, PlaceInv, place
  \* What another frame than the innermost says stays as it was, and a task's
  \* own frame is dead, or before sched::init, as it was.
  <1>a. \A s \in Slots : /\ Len(stack'[s]) = Len(stack[s])
                         /\ stack'[s] = <<>> <=> stack[s] = <<>>
    BY <1>1, <1>2, <1>6, InvTop
  <1>b. \A s \in Slots : \A k \in 1 .. Len(stack[s]) :
           \/ stack'[s][k] = stack[s][k]
           \/ s = cpu /\ k = Len(st) /\ stack'[s][k].at = l
    <2>1. \A k \in 1 .. Len(st) : k \in 1 .. Len(st) - 1 \/ k = Len(st)
      BY <1>2
    <2>2. t[Len(st)].at = l
      BY <1>1, <1>3 DEF Top
    <2>. QED
      BY <1>1, <1>6, <2>1, <2>2
  <1>c. \A s \in Slots : stack[s] # <<>> =>
           \A x \in {"gone", "unreachable", "boot"} : stack'[s][1].at = x <=> stack[s][1].at = x
    <2>1. ASSUME Len(st) = 1, NEW x \in {"gone", "unreachable", "boot"}
          PROVE  t[1].at # x /\ st[1].at # x
      BY <1>1, <1>2, <1>3, <1>8, <2>1 DEF Top, Here
    <2>2. CASE Len(st) = 1
      BY <1>1, <1>6, <2>1, <2>2
    <2>3. CASE Len(st) # 1
      <3>1. 1 \in 1 .. Len(st) - 1
        BY <1>2, <2>3, ShapeDepth
      <3>. QED
        BY <1>1, <1>6, <3>1
    <2>. QED
      BY <2>2, <2>3
  <1>13. BootInv'
    <2>1. stack[Boot] # <<>> => (stack'[Boot][1].at = "boot" <=> stack[Boot][1].at = "boot")
      BY <1>c, NAssumption DEF Slots, Boot
    <2>2. Boot \in Slots
      BY NAssumption DEF Slots, Boot
    <2>3. CASE Booted
      BY <1>a, <2>1, <2>2, <2>3, TableFacts DEF Inv, BootInv, place
    <2>4. CASE ~Booted
      <3>a. Here.at \notin GetcLabels
        BY <2>4 DEF Inv, BootInv
      <3>1. l \notin {"timer"} \cup GetcLabels \cup SchedLabels
        BY <2>4, <3>a, LabelKinds DEF Nested, OwnLabels, TaskLabels, BootLabels, SchedLabels,
                                      GetcLabels, IrqLabels
      <3>2. stack[Boot] # <<>>
        BY <2>4, InvTop DEF Inv, BootInv
      <3>3. Here'.at = l
        BY <1>2, <1>3
      <3>. QED
        BY <1>2, <1>a, <2>1, <2>2, <2>4, <3>1, <3>2, <3>3, TableFacts DEF Inv, BootInv, place
    <2>. QED
      BY <2>3, <2>4
  <1>14. WaitInv'
    <2>1. ASSUME NEW s \in Slots \ {Boot}, Len(stack'[s]) >= 2
          PROVE  stack'[s][2].at \notin GetcLabels
      <3>1. 2 \in 1 .. Len(stack[s]) /\ stack[s][2].at \notin GetcLabels
        BY <1>a, <2>1 DEF Inv, WaitInv, TypeInv
      <3>2. CASE stack'[s][2] = stack[s][2]
        BY <3>1, <3>2
      <3>3. CASE s = cpu /\ Len(st) = 2 /\ stack'[s][2].at = l
        <4>1. Here.at \notin GetcLabels
          BY <3>1, <3>3, InvTop
        <4>2. l \notin GetcLabels
          BY <4>1, LabelKinds DEF Nested, OwnLabels, TaskLabels, BootLabels, GetcLabels
        <4>. QED
          BY <3>3, <4>2
      <3>. QED
        BY <1>b, <2>1, <3>1, <3>2, <3>3
    <2>. QED
      BY <2>1 DEF WaitInv, WaitersAreBlocked, TableStep
  <1>15. DeadInv'
    <2>1. st[1].at # "unreachable"
      <3>1. Here.at \notin {"pick", "switch"}
        BY DEF IrqLabels, GetcLabels, OwnLabels, BootLabels
      <3>. QED
        BY <3>1 DEF Inv, DeadInv
    <2>2. t[1].at # "unreachable"
      BY <1>c, <1>2, <1>6, <2>1, InvTop
    <2>. QED
      BY <1>2, <1>6, <1>a, <1>c, <2>2, TableFacts DEF Inv, DeadInv
  <1>16. IrqInv'
    BY <1>2, <1>3, <1>a, <1>b DEF Inv, IrqInv
  <1>. QED
    BY <1>7, <1>10, <1>11, <1>12, <1>13, <1>14, <1>15, <1>16 DEF Inv

\* A device moves: the kernel is where it was.
LEMMA DeviceStep ==
    ASSUME Inv, UNCHANGED <<task_table, waiters, place, masked, stack, need_reschedule, active>>,
           timerLine' \in BOOLEAN, timerLine' => timerLine \/ Booted
    PROVE  Inv'
  <1>1. Here' = Here
    BY DEF Here, place
  <1>2. Booted' <=> Booted
    BY DEF Booted
  <1>3. TypeInv' /\ ShapeInv' /\ MaskInv'
    BY <1>1 DEF Inv, TypeInv, ShapeInv, MaskInv, place
  <1>4. PlaceInv' /\ BootInv'
    BY <1>1, <1>2 DEF Inv, PlaceInv, BootInv, place
  <1>5. WaitInv' /\ DeadInv' /\ IrqInv'
    BY <1>1 DEF Inv, WaitInv, WaitersAreBlocked, DeadInv, IrqInv, place
  <1>. QED
    BY <1>3, <1>4, <1>5 DEF Inv

\* Entering a call: an interrupt, getc or schedule from task code, or schedule
\* from a handler's preempt or from getc.
LEMMA EnterStep ==
    ASSUME Inv, NEW l \in Labels, NEW k \in Labels, Enter(l, k),
           UNCHANGED <<task_table, waiters, place, timerLine>>,
           active' = "none",
           need_reschedule' \in BOOLEAN, need_reschedule' => need_reschedule,
           \/ /\ ~masked /\ l \in {"ack", "prepare", "pick"}
              /\ \/ k = Here.at
                 \/ Here.at = "gone" /\ k = "unreachable" /\ l = "pick"
           \/ Here.at = "preempt" /\ k = "eret" /\ l = "pick"
           \/ Here.at = "pop" /\ k = "again" /\ l = "pick",
           ~Booted => l = "ack",
           l = "prepare" => cpu = Boot
    PROVE  Inv'
  <1> DEFINE st == stack[cpu]
             t  == stack'[cpu]
  <1>1. /\ st \in Seq(Frames) /\ st # <<>> /\ cpu \in Slots /\ cpu' = cpu
        /\ Shape(st) /\ Here \in Frames /\ Here = Top(st)
    BY InvTop DEF place, Here
  <1>0. PICK f : f = Frame(l, masked)
    OBVIOUS
  <1>2. f \in Frames /\ f.at = l /\ f.daif = masked
    BY <1>0, NAssumption DEF Frame, Frames, Inv, TypeInv, Slots, Boot
  <1>3. stack' = [stack EXCEPT ![cpu] = Append([st EXCEPT ![Len(st)].at = k], f)]
    BY <1>0 DEF Enter
  <1>4. /\ stack' \in [Slots -> Seq(Frames)]
        /\ \A s \in Slots \ {cpu} : stack'[s] = stack[s]
        /\ t \in Seq(Frames)
        /\ Len(t) = Len(st) + 1
        /\ t[Len(t)] = f
        /\ t[Len(st)] = [Here EXCEPT !.at = k]
        /\ \A i \in 1 .. Len(st) - 1 : t[i] = st[i]
    BY <1>1, <1>2, <1>3, EnterStack DEF Inv
  <1>5. l \in MaskedLabels /\ l \notin {"switch", "panic"} \cup TaskLabels
    BY DEF MaskedLabels, IrqLabels, GetcLabels, SchedLabels, TaskLabels, BootLabels
  <1>6. \/ /\ ~masked /\ Len(st) = 1 /\ st[1] = Here /\ Here.at \in TaskLabels \ {"trampoline"}
           /\ \/ k = Here.at
              \/ Here.at = "gone" /\ k = "unreachable" /\ l = "pick"
        \/ /\ masked /\ Len(st) = 2 /\ st[2] = Here /\ l = "pick"
           /\ \/ Here.at = "preempt" /\ k = "eret"
              \/ Here.at = "pop" /\ k = "again"
    <2>1. CASE ~masked
      <3>1. Here.at \in Labels /\ Here.at \notin MaskedLabels
        BY <1>1, <2>1 DEF Inv, MaskInv, Frames
      <3>2. Here.at \in TaskLabels \ {"trampoline"}
        BY <3>1, LabelKinds
      <3>3. Len(st) = 1 /\ st[1] = Here
        BY <3>2, InvTop
      <3>4. Here.at \notin {"preempt", "pop"}
        BY <3>2 DEF TaskLabels, BootLabels
      <3>. QED
        BY <2>1, <3>2, <3>3, <3>4
    <2>2. CASE masked
      <3>1. Here.at \in {"preempt", "pop"}
        BY <2>2
      <3>2. Len(st) = 2 /\ st[2] = Here
        BY <3>1, InvTop DEF IrqLabels, GetcLabels
      <3>. QED
        BY <2>2, <3>2
    <2>. QED
      BY <2>1, <2>2 DEF Inv, TypeInv
  <1>7. t # <<>> /\ Top(t) = f /\ Here' = Top(t) /\ t = stack'[cpu] /\ masked' = TRUE
    BY <1>1, <1>4 DEF Top, Here, Enter
  <1> HIDE DEF t
  <1>8. /\ Len(st) = 1 => t[1].at = k /\ t[2].at = l
        /\ Len(st) = 2 => t[1] = st[1] /\ t[2].at = k /\ t[2].daif = st[2].daif /\ t[3].at = l
        /\ Len(st) \in {1, 2} /\ Len(t) = Len(st) + 1
    <2>1. Len(st) = 1 => t[1].at = k /\ t[2].at = l
      BY <1>2, <1>4, <1>1 DEF Frames
    <2>2. ASSUME Len(st) = 2
          PROVE  t[1] = st[1] /\ t[2].at = k /\ t[2].daif = st[2].daif /\ t[3].at = l
      <3>1. Here = st[2]
        BY <1>1, <2>2 DEF Top
      <3>2. t[2] = [Here EXCEPT !.at = k] /\ t[3] = f
        BY <1>4, <2>2
      <3>3. 1 \in 1 .. Len(st) - 1
        BY <2>2
      <3>4. t[1] = st[1]
        BY <1>4, <3>3
      <3>. QED
        BY <1>1, <1>2, <3>1, <3>2, <3>4 DEF Frames
    <2>. QED
      BY <1>4, <1>6, <2>1, <2>2
  <1>9. Shape(t)
    <2>1. l \in Nested /\ (l = "pick" => l \in SchedLabels)
      BY DEF Nested, IrqLabels, GetcLabels, SchedLabels
    <2>2. CASE Len(st) = 1
      <3>1. t[1].at \in TaskLabels \ {"trampoline"}
        BY <1>6, <1>8, <2>2 DEF TaskLabels
      <3>2. masked = FALSE
        BY <1>6, <2>2 DEF Inv, TypeInv
      <3>3. Top(t).at \in Nested /\ Top(t).daif = FALSE
        BY <1>2, <1>7, <2>1, <3>2
      <3>. QED
        BY <1>1, <1>4, <2>2, <3>1, <3>3, ShapeEnter
    <2>3. CASE Len(st) = 2
      <3>1. t[2].at \in {"eret", "again"} /\ t[2].daif = st[2].daif /\ l = "pick"
        BY <1>6, <1>8, <2>3
      <3>2. masked = TRUE
        BY <1>6, <2>3 DEF Inv, TypeInv
      <3>3. Top(t).at \in SchedLabels /\ Top(t).daif = TRUE
        BY <1>2, <1>7, <2>1, <3>1, <3>2
      <3>. QED
        BY <1>1, <1>4, <2>3, <3>1, <3>3, ShapeEnter
    <2>. QED
      BY <1>8, <2>2, <2>3
  \* The task's own frame: as it was, but that task_exit has made its call.
  <1>10. \/ t[1].at = st[1].at
         \/ st[1].at = "gone" /\ t[1].at = "unreachable" /\ Len(t) = 2 /\ l = "pick"
    <2>1. CASE Len(st) = 1
      <3>1. st[1] = Here /\ t[1].at = k /\ Len(t) = 2
        BY <1>6, <1>8, <2>1
      <3>. QED
        BY <1>6, <2>1, <3>1
    <2>2. CASE Len(st) = 2
      BY <1>8, <2>2
    <2>. QED
      BY <1>8, <2>1, <2>2
  <1>11. t[1].at \in OwnLabels(cpu)
    BY <1>10, InvTop DEF OwnLabels, BootLabels
  <1>12. TypeInv'
    BY <1>4, <1>7 DEF Inv, TypeInv, place
  <1>13. ShapeInv'
    BY <1>1, <1>4, <1>7, <1>9, <1>11 DEF Inv, ShapeInv, OwnLabels
  <1>14. MaskInv'
    BY <1>1, <1>2, <1>5, <1>7 DEF MaskInv
  <1>15. PlaceInv'
    <2>1. Here.at # "switch" /\ Here'.at # "switch"
      BY <1>2, <1>5, <1>6, <1>7 DEF TaskLabels, BootLabels
    <2>. QED
      BY <1>1, <1>4, <2>1 DEF Inv, PlaceInv, place
  <1>16. BootInv'
    <2>1. Booted' <=> Booted
      BY DEF Booted
    <2>2. \A s \in Slots : stack'[s] = <<>> <=> stack[s] = <<>>
      BY <1>1, <1>4, <1>7
    <2>3. Boot \in Slots /\ (stack'[Boot][1].at = "boot" <=> stack[Boot][1].at = "boot")
      <3>1. Boot \in Slots
        BY NAssumption DEF Slots, Boot
      <3>2. t[1].at = "boot" <=> st[1].at = "boot"
        BY <1>10
      <3>3. CASE cpu = Boot
        BY <1>7, <3>1, <3>2, <3>3
      <3>4. CASE cpu # Boot
        BY <1>4, <3>1, <3>4
      <3>. QED
        BY <3>1, <3>3, <3>4
    <2>4. CASE Booted
      BY <2>1, <2>2, <2>3, <2>4 DEF Inv, BootInv
    <2>5. CASE ~Booted
      <3>1. Here'.at \notin {"timer"} \cup GetcLabels \cup SchedLabels
        BY <1>2, <1>7, <2>5 DEF SchedLabels, GetcLabels
      <3>. QED
        BY <1>1, <2>1, <2>2, <2>3, <2>5, <3>1 DEF Inv, BootInv, place
    <2>. QED
      BY <2>4, <2>5
  <1>17. WaitInv'
    <2>1. ASSUME NEW s \in Slots \ {Boot}, Len(stack'[s]) >= 2
          PROVE  stack'[s][2].at \notin GetcLabels
      <3>1. CASE s # cpu
        BY <1>4, <2>1, <3>1 DEF Inv, WaitInv
      <3>2. CASE s = cpu /\ Len(st) = 1
        BY <1>7, <1>8, <2>1, <3>2 DEF GetcLabels
      <3>3. CASE s = cpu /\ Len(st) = 2
        <4>1. Here.at \notin GetcLabels
          BY <1>6, <2>1, <3>3 DEF Inv, WaitInv
        <4>2. k = "eret"
          BY <1>6, <3>3, <4>1 DEF GetcLabels
        <4>. QED
          BY <1>7, <1>8, <3>3, <4>2 DEF GetcLabels
      <3>. QED
        BY <1>8, <3>1, <3>2, <3>3
    <2>. QED
      BY <2>1 DEF Inv, WaitInv, WaitersAreBlocked
  <1>18. DeadInv'
    <2>1. st[1].at # "unreachable"
      BY <1>6 DEF Inv, DeadInv
    <2>2. t[1].at = "unreachable" => Len(t) = 2 /\ Here'.at \in {"pick", "switch"}
      BY <1>2, <1>7, <1>10, <2>1
    <2>3. \A s \in Slots : /\ stack'[s] = <<>> <=> stack[s] = <<>>
                           /\ stack[s] # <<>> => ( stack'[s][1].at \in {"gone", "unreachable"}
                                              <=> stack[s][1].at \in {"gone", "unreachable"})
      BY <1>1, <1>4, <1>7, <1>10
    <2>. QED
      BY <1>1, <1>7, <2>2, <2>3 DEF Inv, DeadInv
  <1>19. IrqInv'
    <2>1. k # "panic"
      BY <1>6 DEF TaskLabels, BootLabels
    <2>2. \A i \in 1 .. Len(t) : i = Len(t) \/ i = Len(st) \/ i \in 1 .. Len(st) - 1
      BY <1>4, <1>8
    <2>3. t[Len(t)].at # "panic" /\ t[Len(st)].at # "panic"
      BY <1>1, <1>2, <1>4, <1>5, <2>1 DEF Frames
    <2>4. \A i \in 1 .. Len(st) - 1 : t[i].at # "panic"
      <3>1. \A i \in 1 .. Len(st) - 1 : i \in 1 .. Len(st)
        BY <1>8
      <3>. QED
        BY <1>1, <1>4, <3>1 DEF Inv, IrqInv
    <2>5. \A i \in 1 .. Len(t) : t[i].at # "panic"
      BY <2>2, <2>3, <2>4
    <2>6. ASSUME NEW s \in Slots, NEW i \in 1 .. Len(stack'[s])
          PROVE  stack'[s][i].at # "panic"
      <3>1. CASE s = cpu
        BY <1>7, <2>5, <3>1
      <3>2. CASE s # cpu
        BY <1>4, <3>2 DEF Inv, IrqInv
      <3>. QED
        BY <3>1, <3>2
    <2>7. active' # "none" => Here'.at \in {"timer", "uart", "drain", "wake", "eoi"}
      BY <1>1, <1>4, <1>7 DEF Inv, IrqInv
    <2>. QED
      BY <2>6, <2>7 DEF IrqInv
  <1>. QED
    BY <1>12, <1>13, <1>14, <1>15, <1>16, <1>17, <1>18, <1>19 DEF Inv

LEMMA LeaveStack ==
    ASSUME TypeInv, Shape(stack[cpu]), Len(stack[cpu]) >= 2,
           stack' = [stack EXCEPT ![cpu] = SubSeq(@, 1, Len(@) - 1)]
    PROVE  /\ stack' \in [Slots -> Seq(Frames)]
           /\ \A s \in Slots \ {cpu} : stack'[s] = stack[s]
           /\ Len(stack'[cpu]) = Len(stack[cpu]) - 1
           /\ \A i \in 1 .. Len(stack[cpu]) - 1 : stack'[cpu][i] = stack[cpu][i]
  <1>1. PICK st : st = stack[cpu]
    OBVIOUS
  <1>2. st \in Seq(Frames) /\ Len(st) >= 1 /\ cpu \in Slots
    BY <1>1 DEF TypeInv
  <1>3. PICK new : new = SubSeq(st, 1, Len(st) - 1)
    OBVIOUS
  <1>4. /\ new \in Seq(Frames)
        /\ Len(new) = Len(st) - 1
        /\ \A i \in 1 .. Len(st) - 1 : new[i] = st[i]
    BY <1>2, <1>3, LeaveSeq
  <1>5. stack' = [stack EXCEPT ![cpu] = new]
    BY <1>1, <1>3
  <1>6. stack'[cpu] = new /\ \A s \in Slots \ {cpu} : stack'[s] = stack[s]
    BY <1>2, <1>5 DEF TypeInv
  <1>7. stack' \in [Slots -> Seq(Frames)]
    BY <1>2, <1>4, <1>5 DEF TypeInv
  <1>. QED
    BY <1>1, <1>4, <1>6, <1>7

\* Leaving a call: the frame below was left masked if it is a handler's or
\* getc's, and open if it is the task's own.
LEMMA LeaveStep ==
    ASSUME Inv, Leave, TableStep,
           UNCHANGED <<place, need_reschedule, active, timerLine>>,
           Here.at \in {"eret", "return", "finish", "again"}
    PROVE  Inv'
  <1> DEFINE st == stack[cpu]
             t  == stack'[cpu]
  <1>1. /\ st \in Seq(Frames) /\ cpu \in Slots /\ cpu' = cpu
        /\ Shape(st) /\ Here = Top(st)
    BY InvTop DEF place, Here
  <1>2. (Len(st) = 2 \/ Len(st) = 3) /\ Len(st) >= 2
    <2>1. Here.at \in IrqLabels \cup GetcLabels \/ Here.at \in SchedLabels
      BY DEF IrqLabels, GetcLabels, SchedLabels
    <2>2. Len(st) = 2 \/ Len(st) = 3
      BY <2>1, InvTop
    <2>3. Len(st) \in Nat
      BY <1>1
    <2>4. \A n \in Nat : n = 2 \/ n = 3 => n >= 2
      OBVIOUS
    <2>. QED
      BY <2>2, <2>3, <2>4
  <1>3. /\ stack' \in [Slots -> Seq(Frames)]
        /\ \A s \in Slots \ {cpu} : stack'[s] = stack[s]
        /\ Len(t) = Len(st) - 1
        /\ \A i \in 1 .. Len(st) - 1 : t[i] = st[i]
    BY <1>1, <1>2, LeaveStack DEF Inv, Leave
  <1>4. t \in Seq(Frames)
    BY <1>1, <1>3
  <1>5. /\ Shape(t)
        /\ Len(st) = 2 => Top(t).at = st[1].at /\ Here.daif = FALSE
        /\ Len(st) = 3 => Top(t).at \in {"eret", "again"} /\ Here.daif = TRUE
    <2>1. /\ Shape(t)
          /\ Len(st) = 2 => Top(t).at = st[1].at /\ Top(st).daif = FALSE
          /\ Len(st) = 3 => Top(t).at \in {"eret", "again"} /\ Top(st).daif = TRUE
      BY <1>1, <1>2, <1>3, <1>4, ShapeLeave
    <2>. QED
      BY <1>1, <2>1
  <1>6. /\ t # <<>> /\ t = stack'[cpu] /\ Here' = Top(t) /\ masked' = Here.daif
        /\ t[1] = st[1] /\ 1 \in 1 .. Len(t)
    <2>1. 1 \in 1 .. Len(st) - 1 /\ 1 \in 1 .. Len(t)
      BY <1>2, <1>3
    <2>2. t # <<>>
      BY <1>4, <1>5, ShapeTop
    <2>. QED
      BY <1>1, <1>3, <2>1, <2>2 DEF Here, Leave
  <1> HIDE DEF t
  <1>7. Top(t).at \notin SchedLabels \cup {"timer"} /\ (~Booted => Top(t).at \notin GetcLabels)
    <2>1. CASE Len(st) = 2
      <3>1. st[1].at \in TaskLabels
        BY <1>1 DEF Shape
      <3>. QED
        BY <1>5, <2>1, <3>1 DEF SchedLabels, GetcLabels, TaskLabels, BootLabels
    <2>2. CASE Len(st) = 3
      <3>1. Here.at \in SchedLabels
        BY <1>1, <2>2 DEF Shape, Top
      <3>2. Booted
        BY <3>1 DEF Inv, BootInv
      <3>. QED
        BY <1>5, <2>2, <3>2 DEF SchedLabels
    <2>. QED
      BY <1>2, <2>1, <2>2
  <1>8. TypeInv'
    <2>1. Here.daif \in BOOLEAN
      BY <1>2, <1>5
    <2>. QED
      BY <1>3, <1>6, <2>1 DEF Inv, TypeInv, TableStep, place
  <1>9. ShapeInv'
    BY <1>1, <1>3, <1>5, <1>6, InvTop DEF Inv, ShapeInv, OwnLabels
  <1>10. MaskInv'
    <2>1. CASE Len(st) = 2
      <3>1. st[1].at \in TaskLabels \ {"trampoline"}
        BY <1>1, <2>1 DEF Shape
      <3>2. st[1].at \notin MaskedLabels
        BY <3>1, LabelKinds
      <3>3. ~masked'
        BY <1>5, <1>6, <2>1
      <3>. QED
        BY <1>1, <1>5, <1>6, <2>1, <3>2, <3>3 DEF MaskInv
    <2>2. CASE Len(st) = 3
      <3>1. Here'.at \in MaskedLabels
        BY <1>5, <1>6, <2>2 DEF MaskedLabels, IrqLabels, GetcLabels
      <3>2. masked'
        BY <1>5, <1>6, <2>2
      <3>. QED
        BY <1>1, <1>6, <3>1, <3>2 DEF MaskInv
    <2>. QED
      BY <1>2, <2>1, <2>2
  <1>11. PlaceInv'
    <2>1. Here.at # "switch" /\ Here'.at # "switch"
      BY <1>6, <1>7 DEF SchedLabels
    <2>. QED
      BY <1>1, <1>3, <2>1, TableFacts DEF Inv, PlaceInv, place
  <1>a. \A s \in Slots : /\ stack'[s] = <<>> <=> stack[s] = <<>>
                         /\ stack'[s][1] = stack[s][1]
    BY <1>1, <1>3, <1>6, InvTop
  <1>12. BootInv'
    <2>1. Boot \in Slots
      BY NAssumption DEF Slots, Boot
    <2>2. CASE Booted
      BY <1>a, <2>1, <2>2, TableFacts DEF Inv, BootInv
    <2>3. CASE ~Booted
      BY <1>1, <1>6, <1>7, <1>a, <2>1, <2>3, TableFacts DEF Inv, BootInv, place
    <2>. QED
      BY <2>2, <2>3
  <1>13. WaitInv'
    <2>1. ASSUME NEW s \in Slots \ {Boot}, Len(stack'[s]) >= 2
          PROVE  stack'[s][2].at \notin GetcLabels
      <3>1. CASE s # cpu
        BY <1>3, <2>1, <3>1 DEF Inv, WaitInv
      <3>2. CASE s = cpu
        <4>1. t[2] = st[2]
          BY <1>2, <1>3, <1>6, <2>1, <3>2
        <4>2. st[2].at \notin GetcLabels
          BY <1>2, <2>1, <3>2 DEF Inv, WaitInv
        <4>. QED
          BY <1>6, <3>2, <4>1, <4>2
      <3>. QED
        BY <3>1, <3>2
    <2>. QED
      BY <2>1 DEF WaitInv, WaitersAreBlocked, TableStep
  <1>14. DeadInv'
    <2>1. st[1].at # "unreachable"
      BY DEF Inv, DeadInv
    <2>. QED
      BY <1>1, <1>6, <1>a, <2>1, TableFacts DEF Inv, DeadInv
  <1>15. IrqInv'
    <2>1. active = "none"
      BY DEF Inv, IrqInv
    <2>2. \A i \in 1 .. Len(t) : t[i].at # "panic"
      <3>1. \A i \in 1 .. Len(t) : i \in 1 .. Len(st) - 1 /\ i \in 1 .. Len(st)
        BY <1>2, <1>3
      <3>. QED
        BY <1>1, <1>3, <3>1 DEF Inv, IrqInv
    <2>. QED
      BY <1>1, <1>3, <1>6, <2>1, <2>2 DEF Inv, IrqInv
  <1>. QED
    BY <1>8, <1>9, <1>10, <1>11, <1>12, <1>13, <1>14, <1>15 DEF Inv
-------------------------------------------------------------------------------
(* One lemma for each kind of action.                                       *)

\* Getc runs on the boot task alone, which is then current and alive.
LEMMA GetcIsBoot ==
    ASSUME Inv, Here.at \in GetcLabels
    PROVE  /\ cpu = Boot /\ current = Boot /\ Booted
           /\ task_table[Boot] \in {"Ready", "Blocked"}
  <1>1. Len(stack[cpu]) = 2 /\ Here = stack[cpu][2] /\ stack[cpu] # <<>> /\ cpu \in Slots
    BY InvTop
  <1>2. cpu = Boot
    BY <1>1 DEF Inv, WaitInv
  <1>3. current = Boot /\ Booted
    BY <1>2 DEF Inv, PlaceInv, BootInv, GetcLabels
  <1>4. stack[Boot][1].at \notin {"gone", "unreachable"}
    BY <1>2, InvTop DEF OwnLabels, BootLabels
  <1>5. task_table[Boot] # "Dead"
    BY <1>1, <1>2, <1>4 DEF Inv, DeadInv
  <1>. QED
    BY <1>1, <1>2, <1>3, <1>5 DEF Inv, TypeInv, Tables, SlotStates, Booted

LEMMA HandlerSteps ==
    ASSUME Inv,
           \/ \E i \in {"timer", "uart"} : Acknowledge(i)
           \/ AcknowledgeSpurious \/ HandleTimer \/ HandleUart
           \/ DrainByte \/ DrainDone \/ EndOfInterrupt
    PROVE  Inv'
  <1>. USE DEF sched, input, core, devices, place, At
  <1>1. ASSUME NEW i \in {"timer", "uart"}, Acknowledge(i) PROVE Inv'
    <2>1. ~Booted => i # "timer"
      BY <1>1 DEF Acknowledge, Pending, Inv, BootInv
    <2>2. TableStep
      BY <1>1, TableSame DEF Acknowledge
    <2>3. i \in Labels /\ i \in IrqLabels /\ Here.at \in IrqLabels
      BY <1>1 DEF Acknowledge, Labels, IrqLabels
    <2>. QED
      BY <1>1, <2>1, <2>2, <2>3, Continue DEF Acknowledge, Inv, TypeInv, BootInv
  <1>2. CASE AcknowledgeSpurious
    <2>1. TableStep
      BY <1>2, TableSame DEF AcknowledgeSpurious
    <2>2. "eret" \in Labels /\ "eret" \in IrqLabels /\ Here.at \in IrqLabels
      BY <1>2 DEF AcknowledgeSpurious, Labels, IrqLabels
    <2>3. active = "none"
      BY <1>2 DEF AcknowledgeSpurious, Inv, IrqInv
    <2>. QED
      BY <1>2, <2>1, <2>2, <2>3, Continue DEF AcknowledgeSpurious, Inv, TypeInv, BootInv
  <1>3. CASE HandleTimer
    <2>1. TableStep
      BY <1>3, TableSame DEF HandleTimer
    <2>2. "eoi" \in Labels /\ "eoi" \in IrqLabels /\ Here.at \in IrqLabels
      BY <1>3 DEF HandleTimer, Labels, IrqLabels
    <2>3. Booted /\ task_table[current] # "None"
      BY <1>3, InvTop DEF HandleTimer, Inv, BootInv, PlaceInv
    <2>. QED
      BY <1>3, <2>1, <2>2, <2>3, Continue DEF HandleTimer, Inv, TypeInv
  <1>4. CASE HandleUart
    <2>1. TableStep
      BY <1>4, TableSame DEF HandleUart
    <2>2. "drain" \in Labels /\ "drain" \in IrqLabels /\ Here.at \in IrqLabels
      BY <1>4 DEF HandleUart, Labels, IrqLabels
    <2>. QED
      BY <1>4, <2>1, <2>2, Continue DEF HandleUart, Inv, TypeInv, BootInv
  <1>5. CASE DrainByte
    <2>1. TableStep
      BY <1>5, TableSame DEF DrainByte
    <2>2. "wake" \in Labels /\ "wake" \in IrqLabels /\ Here.at \in IrqLabels
      BY <1>5 DEF DrainByte, Labels, IrqLabels
    <2>. QED
      BY <1>5, <2>1, <2>2, Continue DEF DrainByte, Inv, TypeInv, BootInv
  <1>6. CASE DrainDone
    <2>1. TableStep
      BY <1>6, TableSame DEF DrainDone
    <2>2. "eoi" \in Labels /\ "eoi" \in IrqLabels /\ Here.at \in IrqLabels
      BY <1>6 DEF DrainDone, Labels, IrqLabels
    <2>. QED
      BY <1>6, <2>1, <2>2, Continue DEF DrainDone, Inv, TypeInv, BootInv
  <1>7. CASE EndOfInterrupt
    <2>1. TableStep
      BY <1>7, TableSame DEF EndOfInterrupt
    <2>2. "preempt" \in Labels /\ "preempt" \in IrqLabels /\ Here.at \in IrqLabels
      BY <1>7 DEF EndOfInterrupt, Labels, IrqLabels
    <2>. QED
      BY <1>7, <2>1, <2>2, Continue DEF EndOfInterrupt, Inv, TypeInv, BootInv
  <1>. QED
    BY <1>1, <1>2, <1>3, <1>4, <1>5, <1>6, <1>7

\* wake_all, prepare and finish: the three that write the table and the queue.
LEMMA WaitSteps ==
    ASSUME Inv, WakeAll \/ Prepare \/ FinishWait
    PROVE  Inv'
  <1>. USE DEF sched, input, core, devices, place, At
  <1>1. CASE WakeAll
    <2>1. \A s \in waiters : task_table[s] = "Blocked"
      BY DEF Inv, WaitInv, WaitersAreBlocked
    <2>2. stack' = GoTo("drain")
      BY <1>1, <2>1 DEF WakeAll
    <2>3. TableStep
      <3>1. Boot # Idle
        BY DEF Boot, Idle
      <3>2. \A s \in Slots : task_table'[s] = IF s \in waiters THEN "Ready" ELSE task_table[s]
        BY <1>1 DEF WakeAll
      <3>3. \A s \in Slots : s \in waiters <=> task_table[s] = "Blocked"
        BY DEF Inv, WaitInv, WaitersAreBlocked
      <3>4. task_table' \in Tables
        BY <1>1 DEF WakeAll, Tables, SlotStates, Inv, TypeInv
      <3>5. \A s \in Slots : task_table'[s] # "Blocked"
        BY <3>2, <3>3
      <3>6. waiters \subseteq {Boot} /\ waiters' = {}
        BY <1>1 DEF WakeAll, Inv, WaitInv
      <3>. QED
        BY <3>1, <3>2, <3>3, <3>4, <3>5, <3>6 DEF TableStep
    <2>4. "drain" \in Labels /\ "drain" \in IrqLabels /\ Here.at \in IrqLabels
      BY <1>1 DEF WakeAll, Labels, IrqLabels
    <2>5. ~Booted => ~need_reschedule'
      BY <1>1 DEF WakeAll, Inv, BootInv
    <2>. QED
      BY <1>1, <2>2, <2>3, <2>4, <2>5, Continue DEF WakeAll, Inv, TypeInv, BootInv
  <1>2. CASE Prepare
    <2>1. Here.at \in GetcLabels /\ "pop" \in Labels /\ "pop" \in GetcLabels \ {"prepare"}
      BY <1>2 DEF Prepare, Labels, GetcLabels
    <2>2. cpu = Boot /\ current = Boot /\ Booted /\ task_table[Boot] \in {"Ready", "Blocked"}
      BY <2>1, GetcIsBoot
    <2>3. TableStep
      <3>1. Boot # Idle /\ Boot \in Slots
        BY NAssumption DEF Boot, Idle, Slots
      <3>. QED
        BY <1>2, <2>2, <3>1 DEF Prepare, TableStep, Tables, SlotStates, Inv, TypeInv, WaitInv,
                                WaitersAreBlocked
    <2>4. active = "none"
      BY <2>1 DEF Inv, IrqInv, GetcLabels
    <2>. QED
      BY <1>2, <2>1, <2>2, <2>3, <2>4, Continue DEF Prepare, Inv, TypeInv
  <1>3. CASE FinishWait
    <2>1. Here.at \in GetcLabels /\ Here.at = "finish"
      BY <1>3 DEF FinishWait, GetcLabels
    <2>2. cpu = Boot /\ current = Boot /\ Booted /\ task_table[Boot] \in {"Ready", "Blocked"}
      BY <2>1, GetcIsBoot
    <2>3. TableStep
      <3>1. Boot # Idle /\ Boot \in Slots
        BY NAssumption DEF Boot, Idle, Slots
      <3>. QED
        BY <1>3, <2>2, <3>1 DEF FinishWait, TableStep, Tables, SlotStates, Inv, TypeInv, WaitInv,
                                WaitersAreBlocked
    <2>. QED
      BY <1>3, <2>1, <2>3, LeaveStep DEF FinishWait
  <1>. QED
    BY <1>1, <1>2, <1>3

LEMMA CallSteps ==
    ASSUME Inv, TakeIrq \/ Preempt \/ ExitSchedule \/ Getc \/ PopEmpty
    PROVE  Inv'
  <1>. USE DEF sched, input, core, devices, place, At
  <1>0. "ack" \in Labels /\ "pick" \in Labels /\ "prepare" \in Labels
        /\ "eret" \in Labels /\ "again" \in Labels /\ "read" \in Labels
        /\ "unreachable" \in Labels
    BY DEF Labels, IrqLabels, SchedLabels, GetcLabels, TaskLabels, BootLabels
  <1>1. CASE TakeIrq
    <2>1. Here.at \in Labels
      BY InvTop DEF Frames
    <2>. QED
      BY <1>0, <1>1, <2>1, EnterStep DEF TakeIrq, Inv, TypeInv
  <1>2. CASE Preempt
    <2>1. active = "none"
      BY <1>2 DEF Preempt, Inv, IrqInv
    <2>2. CASE need_reschedule
      <3>1. Booted
        BY <2>2 DEF Inv, BootInv
      <3>. QED
        BY <1>0, <1>2, <2>1, <2>2, <3>1, EnterStep DEF Preempt
    <2>3. CASE ~need_reschedule
      <3>1. TableStep
        BY <1>2, TableSame DEF Preempt
      <3>2. Here.at \in IrqLabels /\ "eret" \in IrqLabels
        BY <1>2 DEF Preempt, IrqLabels
      <3>. QED
        BY <1>0, <1>2, <2>1, <2>3, <3>1, <3>2, Continue DEF Preempt, Inv, TypeInv, BootInv
    <2>. QED
      BY <2>2, <2>3
  <1>3. CASE ExitSchedule
    <2>1. /\ ~masked /\ active = "none" /\ Here.at = "gone"
      BY <1>3 DEF ExitSchedule, Inv, MaskInv, IrqInv, MaskedLabels, IrqLabels, GetcLabels, SchedLabels
    <2>2. Booted
      <3>1. stack[cpu][1].at = "gone"
        BY <2>1, InvTop DEF TaskLabels
      <3>2. CASE cpu = Boot
        BY <3>1, <3>2, InvTop DEF OwnLabels, BootLabels
      <3>3. CASE cpu # Boot
        BY <3>3 DEF Inv, BootInv
      <3>. QED
        BY <3>2, <3>3
    <2>. QED
      BY <1>0, <1>3, <2>1, <2>2, EnterStep DEF ExitSchedule, Inv, TypeInv
  <1>4. CASE Getc
    <2>1. /\ ~masked /\ active = "none" /\ Here.at = "read"
      BY <1>4 DEF Getc, Inv, MaskInv, IrqInv, MaskedLabels, IrqLabels, GetcLabels, SchedLabels
    <2>2. cpu = Boot /\ stack[cpu][1].at = "read"
      <3>1. Len(stack[cpu]) = 1
        BY <2>1, InvTop DEF TaskLabels, BootLabels
      <3>2. stack[cpu][1].at = "read"
        BY <2>1, <3>1, InvTop
      <3>. QED
        BY <3>2, InvTop DEF OwnLabels
    <2>3. Booted
      BY <2>2 DEF Inv, BootInv
    <2>. QED
      BY <1>0, <1>4, <2>1, <2>2, <2>3, EnterStep DEF Getc, Inv, TypeInv
  <1>5. CASE PopEmpty
    <2>1. active = "none" /\ Here.at = "pop" /\ Here.at \in GetcLabels
      BY <1>5 DEF PopEmpty, Inv, IrqInv, GetcLabels
    <2>2. Booted
      BY <2>1, GetcIsBoot
    <2>. QED
      BY <1>0, <1>5, <2>1, <2>2, EnterStep DEF PopEmpty, Inv, TypeInv
  <1>. QED
    BY <1>1, <1>2, <1>3, <1>4, <1>5

LEMMA ReturnSteps ==
    ASSUME Inv, Eret \/ Return \/ GetcAgain
    PROVE  Inv'
  <1>. USE DEF sched, input, core, devices, place, At
  <1>1. TableStep
    BY TableSame DEF Eret, Return, GetcAgain
  <1>. QED
    BY <1>1, LeaveStep DEF Eret, Return, GetcAgain

\* What else task code and getc do without touching the scheduler.
LEMMA PlainSteps ==
    ASSUME Inv, Finish \/ SpawnFails \/ Started \/ PopByte
    PROVE  Inv'
  <1>. USE DEF sched, input, core, devices, place, At
  <1>1. TableStep
    BY TableSame DEF Finish, SpawnFails, Started, PopByte
  <1>2. active = "none"
    BY DEF Finish, SpawnFails, Started, PopByte, Inv, IrqInv
  <1>3. CASE PopByte
    <2>1. Here.at \in GetcLabels /\ "finish" \in Labels /\ "finish" \in GetcLabels \ {"prepare"}
      BY <1>3 DEF PopByte, Labels, GetcLabels
    <2>. QED
      BY <1>1, <1>2, <1>3, <2>1, Continue DEF PopByte, Inv, TypeInv, BootInv
  <1>4. CASE Finish \/ SpawnFails \/ Started
    <2>1. PICK l \in {"exit", "halt", "read"} :
             /\ stack' = GoTo(l) /\ UNCHANGED <<place, masked, need_reschedule, timerLine, active>>
             /\ l = "exit" => Here.at = "run"
             /\ l # "exit" => Here.at = "spawn"
      BY <1>4 DEF Finish, SpawnFails, Started
    <2>2. Here.at \in TaskLabels /\ l \in Labels
      BY <2>1 DEF TaskLabels, BootLabels, Labels
    <2>3. Here.at \in OwnLabels(cpu)
      BY <2>2, InvTop
    <2>4. /\ Here.at \in OwnLabels(cpu) \ {"trampoline", "gone", "unreachable", "boot"}
          /\ l \in OwnLabels(cpu) \ {"trampoline", "gone", "unreachable", "boot"}
      BY <2>1, <2>3 DEF OwnLabels, BootLabels
    <2>. QED
      BY <1>1, <1>2, <2>1, <2>2, <2>4, Continue DEF Inv, TypeInv, BootInv
  <1>. QED
    BY <1>3, <1>4

LEMMA SwitchStep ==
    ASSUME Inv, Switch
    PROVE  Inv'
  <1>. USE DEF sched, input, core, devices, At
  <1> DEFINE old == stack[cpu]
  <1>1. /\ Here.at = "switch" /\ Here.to = current /\ Here.from = cpu
        /\ current # cpu /\ task_table[current] = "Ready"
        /\ cpu \in Slots /\ current \in Slots /\ Booted /\ masked
        /\ old # <<>> /\ Here \in Frames /\ Shape(old)
        /\ "switch" \in SchedLabels
    BY InvTop DEF Switch, Inv, PlaceInv, BootInv, MaskInv, MaskedLabels, SchedLabels, TypeInv
  <1>2. sp[current] = current /\ stack[current] # <<>> /\ Top(stack[current]).at \in {"return", "trampoline"}
    BY <1>1 DEF Inv, PlaceInv
  <1>3. cpu' = current /\ current' = current /\ sp' = [sp EXCEPT ![cpu] = cpu]
    BY <1>1, <1>2 DEF Switch
  <1>4. PICK g : g = Frame("return", Here.daif)
    OBVIOUS
  <1>5. g \in Frames /\ g.at = "return" /\ g.daif = Here.daif
    BY <1>1, <1>4, NAssumption DEF Frame, Frames, Labels, SchedLabels, Slots, Boot
  <1>6. stack' = SetTop(g)
    BY <1>4 DEF Switch
  <1>7. /\ stack' \in [Slots -> Seq(Frames)]
        /\ \A s \in Slots \ {cpu} : stack'[s] = stack[s]
        /\ Len(stack'[cpu]) = Len(old)
        /\ Top(stack'[cpu]) = g
        /\ \A k \in 1 .. Len(old) - 1 : stack'[cpu][k] = old[k]
    <2>1. \A new : new = SetTop(g) =>
            /\ new \in [Slots -> Seq(Frames)]
            /\ \A s \in Slots \ {cpu} : new[s] = stack[s]
            /\ Len(new[cpu]) = Len(old)
            /\ Top(new[cpu]) = g
            /\ \A k \in 1 .. Len(old) - 1 : new[cpu][k] = old[k]
      BY <1>1, <1>5, SetTopStack DEF Inv
    <2>. QED
      BY <1>6, <2>1
  <1>8. Len(old) = 2 \/ Len(old) = 3
    BY <1>1, InvTop
  <1>9. Shape(stack'[cpu])
    <2>1. SameKind(Top(old).at, Top(stack'[cpu]).at)
      BY <1>1, <1>5, <1>7 DEF SameKind, SchedLabels, Here
    <2>2. Top(stack'[cpu]).daif = Top(old).daif
      BY <1>5, <1>7 DEF Here
    <2>3. old \in Seq(Frames) /\ stack'[cpu] \in Seq(Frames)
      BY <1>1, <1>7 DEF Inv, TypeInv
    <2>. QED
      BY <1>1, <1>7, <2>1, <2>2, <2>3, ShapeGoTo
  <1>10. stack'[cpu] # <<>> /\ stack'[cpu][1] = old[1]
    <2>1. 1 \in 1 .. Len(old) - 1
      BY <1>8
    <2>2. stack'[cpu] # <<>>
      BY <1>1, <1>7, <1>9, ShapeTop
    <2>. QED
      BY <1>7, <2>1, <2>2
  <1>11. \A s \in Slots : /\ stack'[s] = <<>> <=> stack[s] = <<>>
                          /\ stack[s] # <<>> => stack'[s][1] = stack[s][1]
    BY <1>1, <1>7, <1>10
  <1>12. Here' = Top(stack[current]) /\ Here'.at \in {"return", "trampoline"}
    BY <1>1, <1>2, <1>3, <1>7 DEF Here
  <1>13. TypeInv'
    BY <1>1, <1>3, <1>7 DEF Switch, Inv, TypeInv
  <1>14. ShapeInv'
    BY <1>1, <1>7, <1>9, <1>11 DEF Inv, ShapeInv, OwnLabels
  <1>15. MaskInv'
    <2>1. Here'.at \in MaskedLabels
      BY <1>12 DEF MaskedLabels, SchedLabels
    <2>2. masked' /\ stack'[cpu'] # <<>>
      BY <1>1, <1>2, <1>3, <1>11 DEF Switch
    <2>. QED
      BY <2>1, <2>2 DEF MaskInv
  <1>16. PlaceInv'
    <2>1. task_table' = task_table
      BY DEF Switch
    <2>2. ASSUME NEW s \in Slots \ {current}
          PROVE  /\ task_table[s] # "None" => sp'[s] = s /\ stack'[s] # <<>>
                 /\ stack'[s] # <<>> => Top(stack'[s]).at \in {"return", "trampoline"}
      <3>1. CASE s = cpu
        BY <1>1, <1>3, <1>5, <1>7, <1>10, <3>1 DEF Inv, TypeInv
      <3>2. CASE s # cpu
        BY <1>1, <1>3, <1>7, <3>2 DEF Inv, TypeInv, PlaceInv
      <3>. QED
        BY <3>1, <3>2
    <2>. QED
      BY <1>3, <1>12, <2>1, <2>2 DEF PlaceInv
  <1>17. BootInv'
    <2>1. task_table' = task_table
      BY DEF Switch
    <2>2. Boot \in Slots
      BY NAssumption DEF Slots, Boot
    <2>. QED
      BY <1>1, <1>11, <2>1, <2>2 DEF Inv, BootInv, Booted
  <1>18. WaitInv'
    <2>1. ASSUME NEW s \in Slots \ {Boot}, Len(stack'[s]) >= 2
          PROVE  stack'[s][2].at \notin GetcLabels
      <3>1. CASE s # cpu
        BY <1>7, <2>1, <3>1 DEF Inv, WaitInv
      <3>2. CASE s = cpu /\ Len(old) = 2
        BY <1>5, <1>7, <3>2 DEF Top, GetcLabels
      <3>3. CASE s = cpu /\ Len(old) = 3
        BY <1>7, <2>1, <3>3 DEF Inv, WaitInv
      <3>. QED
        BY <1>8, <3>1, <3>2, <3>3
    <2>. QED
      BY <2>1 DEF Switch, Inv, WaitInv, WaitersAreBlocked
  <1>19. DeadInv'
    <2>1. task_table' = task_table
      BY DEF Switch
    <2>2. stack[current][1].at # "unreachable"
      BY <1>1, <1>2 DEF Inv, DeadInv
    <2>. QED
      BY <1>1, <1>2, <1>3, <1>11, <2>1, <2>2 DEF Inv, DeadInv
  <1>20. IrqInv'
    <2>1. active = "none"
      BY <1>1 DEF Inv, IrqInv
    <2>2. \A k \in 1 .. Len(old) : k \in 1 .. Len(old) - 1 \/ k = Len(old)
      BY <1>8
    <2>3. \A k \in 1 .. Len(old) : stack'[cpu][k].at # "panic"
      BY <1>1, <1>5, <1>7, <2>2 DEF Inv, IrqInv, Top
    <2>4. active' = "none"
      BY <2>1 DEF Switch
    <2>5. ASSUME NEW s \in Slots, NEW k \in 1 .. Len(stack'[s])
          PROVE  stack'[s][k].at # "panic"
      <3>1. CASE s = cpu
        BY <1>7, <2>3, <2>5, <3>1
      <3>2. CASE s # cpu
        BY <1>7, <2>5, <3>2 DEF Inv, IrqInv
      <3>. QED
        BY <3>1, <3>2
    <2>. QED
      BY <2>4, <2>5 DEF IrqInv
  <1>. QED
    BY <1>13, <1>14, <1>15, <1>16, <1>17, <1>18, <1>19, <1>20 DEF Inv

LEMMA PickStep ==
    ASSUME Inv, Pick
    PROVE  Inv'
  <1>. USE DEF sched, input, core, devices, At
  <1> DEFINE old   == stack[cpu]
             next  == NextIdx(Prune(task_table, current), current)
             freed == Prunable(task_table, current)
  <1>1. /\ Here.at = "pick" /\ current = cpu /\ "pick" \in SchedLabels
        /\ cpu \in Slots /\ Booted /\ masked /\ Boot \in Slots /\ Idle \in Slots
        /\ old # <<>> /\ Here \in Frames /\ Shape(old) /\ Here = Top(old)
        /\ task_table[Idle] = "Ready"
    BY InvTop, NAssumption
       DEF Pick, Inv, PlaceInv, BootInv, MaskInv, MaskedLabels, SchedLabels, TypeInv,
           Slots, Boot, Idle, Here
  <1>2. Len(old) = 2 \/ Len(old) = 3
    BY <1>1, InvTop
  <1>3. \A s \in Slots : s \in freed <=> task_table[s] = "Dead" /\ s # cpu
    BY <1>1 DEF Prunable
  <1>4. freed \subseteq Slots
    BY DEF Prunable
  <1>5. /\ task_table' \in Tables
        /\ \A s \in Slots : task_table'[s] = IF s \in freed THEN "None" ELSE task_table[s]
        /\ Prune(task_table, current) = task_table'
    BY DEF Pick, Prune, Inv, TypeInv, Tables, SlotStates
  <1>6. /\ next \in Slots /\ current' = next
        /\ next = Idle \/ task_table'[next] = "Ready"
    BY <1>1, <1>5, NextIdxIsReady DEF Pick
  <1>7. /\ task_table'[next] = "Ready" /\ next \notin freed /\ task_table[next] = "Ready"
        /\ task_table'[Idle] = "Ready"
    BY <1>1, <1>3, <1>5, <1>6
  <1>8. freeStacks' \in Nat
    <2>1. IsFiniteSet(Slots)
      BY FS_Interval, NAssumption DEF Slots
    <2>2. Cardinality(freed) \in Nat
      BY <1>4, <2>1, FS_Subset, FS_CardinalityType
    <2>. QED
      BY <2>2 DEF Pick, Inv, TypeInv
  <1>9. sp' = [s \in Slots |-> IF s \in freed THEN NoStack ELSE sp[s]]
    BY DEF Pick
  <1>10. PICK g : g = IF next = current THEN [Here EXCEPT !.at = "return"]
                      ELSE [Here EXCEPT !.at = "switch", !.from = current, !.to = next]
    OBVIOUS
  <1>11. /\ g \in Frames /\ g.at \in {"return", "switch"} /\ g.daif = Here.daif
         /\ g.at = "return" => next = current
         /\ g.at = "switch" => next # current /\ g.from = current /\ g.to = next
    BY <1>1, <1>6, <1>10 DEF Frames, Labels, SchedLabels
  <1>12. PICK new : new = SetTop(g)
    OBVIOUS
  <1>13. /\ new \in [Slots -> Seq(Frames)]
         /\ Len(new[cpu]) = Len(old)
         /\ Top(new[cpu]) = g
         /\ \A k \in 1 .. Len(old) - 1 : new[cpu][k] = old[k]
    BY <1>1, <1>11, <1>12, SetTopStack DEF Inv
  <1>14. stack' = [s \in Slots |-> IF s \in freed THEN <<>>
                                   ELSE IF s # cpu THEN stack[s] ELSE new[s]]
    <2>1. new = SetTop(IF next = current
                       THEN [Here EXCEPT !.at = "return"]
                       ELSE [Here EXCEPT !.at = "switch", !.from = current, !.to = next])
      BY <1>10, <1>12
    <2> HIDE DEF freed
    <2>2. stack' = [s \in Slots |->
                      IF s \in freed THEN <<>>
                      ELSE IF s # cpu THEN stack[s]
                      ELSE SetTop(IF next = current
                                  THEN [Here EXCEPT !.at = "return"]
                                  ELSE [Here EXCEPT !.at = "switch",
                                                    !.from = current, !.to = next])[s]]
      BY DEF Pick, freed
    <2>. QED
      BY <2>1, <2>2
  <1>15. /\ cpu \notin freed
         /\ \A s \in freed : stack'[s] = <<>> /\ sp'[s] = NoStack
         /\ \A s \in Slots \ freed : sp'[s] = sp[s]
         /\ \A s \in Slots \ freed : s # cpu => stack'[s] = stack[s]
         /\ stack'[cpu] = new[cpu]
    BY <1>1, <1>3, <1>4, <1>9, <1>14
  <1> HIDE DEF next, freed
  <1>16. Shape(new[cpu])
    <2>1. SameKind(Top(old).at, Top(new[cpu]).at)
      BY <1>1, <1>11, <1>13 DEF SameKind, SchedLabels
    <2>2. old \in Seq(Frames) /\ new[cpu] \in Seq(Frames)
      BY <1>1, <1>13 DEF Inv, TypeInv
    <2>3. Top(new[cpu]).daif = Top(old).daif
      BY <1>1, <1>11, <1>13
    <2>. QED
      BY <1>1, <1>13, <2>1, <2>2, <2>3, ShapeGoTo
  <1>17. stack'[cpu] # <<>> /\ stack'[cpu][1] = old[1]
    <2>1. 1 \in 1 .. Len(old) - 1
      BY <1>2
    <2>2. new[cpu] # <<>>
      BY <1>1, <1>13, <1>16, ShapeTop
    <2>. QED
      BY <1>13, <1>15, <2>1, <2>2
  <1>18. Here' = g
    BY <1>13, <1>15 DEF Here, Pick
  <1>19. TypeInv'
    <2>1. stack' \in [Slots -> Seq(Frames)]
      BY <1>4, <1>13, <1>14 DEF Inv, TypeInv
    <2>2. sp' \in [Slots -> Slots \cup {NoStack}]
      BY <1>9 DEF Inv, TypeInv
    <2>. QED
      BY <1>5, <1>6, <1>8, <2>1, <2>2 DEF Pick, Inv, TypeInv
  <1>20. ShapeInv'
    <2>1. \A s \in Slots : stack'[s] # <<>> => s \notin freed
      BY <1>15
    <2>. QED
      BY <1>1, <1>15, <1>16, <1>17, <2>1 DEF Inv, ShapeInv, OwnLabels
  <1>21. MaskInv'
    <2>1. Here'.at \in MaskedLabels
      BY <1>11, <1>18 DEF MaskedLabels, SchedLabels
    <2>. QED
      BY <1>1, <1>17, <2>1 DEF Pick, MaskInv
  <1>22. PlaceInv'
    <2>1. \A s \in Slots \ {cpu} :
             /\ task_table'[s] # "None" => sp'[s] = s /\ stack'[s] # <<>>
             /\ stack'[s] # <<>> => Top(stack'[s]).at \in {"return", "trampoline"}
      BY <1>5, <1>15 DEF Inv, PlaceInv
    <2>. QED
      BY <1>1, <1>6, <1>7, <1>11, <1>18, <2>1 DEF Pick, PlaceInv
  <1>23. BootInv'
    <2>1. Booted' /\ Boot \notin freed
      BY <1>1, <1>3, <1>5, InvTop DEF Inv, BootInv, Booted, DeadInv, ShapeInv, OwnLabels, BootLabels
    <2>2. \A s \in Slots : task_table'[s] = "None" <=> stack'[s] = <<>>
      BY <1>1, <1>5, <1>15, <1>17 DEF Inv, BootInv
    <2>3. stack'[Boot][1].at # "boot"
      BY <1>1, <1>15, <1>17, <2>1 DEF Inv, BootInv
    <2>. QED
      BY <1>7, <2>1, <2>2, <2>3 DEF BootInv
  <1>24. WaitInv'
    <2>1. ASSUME NEW s \in Slots \ {Boot}, Len(stack'[s]) >= 2
          PROVE  stack'[s][2].at \notin GetcLabels
      <3>0. s \notin freed
        <4>1. Len(<<>>) = 0
          OBVIOUS
        <4>. QED
          BY <1>15, <2>1, <4>1
      <3>1. CASE s # cpu
        BY <1>15, <2>1, <3>0, <3>1 DEF Inv, WaitInv
      <3>2. CASE s = cpu /\ Len(old) = 2
        BY <1>11, <1>13, <1>15, <3>2 DEF Top, GetcLabels
      <3>3. CASE s = cpu /\ Len(old) = 3
        BY <1>13, <1>15, <2>1, <3>3 DEF Inv, WaitInv
      <3>. QED
        BY <1>2, <3>1, <3>2, <3>3
    <2>2. \A s \in Slots : task_table'[s] = "Blocked" <=> task_table[s] = "Blocked"
      BY <1>3, <1>5
    <2>. QED
      BY <2>1, <2>2 DEF Pick, Inv, WaitInv, WaitersAreBlocked
  <1>25. DeadInv'
    <2>1. \A s \in Slots : task_table'[s] = "Dead" <=>
             stack'[s] # <<>> /\ stack'[s][1].at \in {"gone", "unreachable"}
      <3>1. ASSUME NEW s \in freed
            PROVE  task_table'[s] # "Dead" /\ stack'[s] = <<>>
        BY <1>4, <1>5, <1>15, <3>1
      <3>2. ASSUME NEW s \in Slots \ freed
            PROVE  /\ task_table'[s] = task_table[s]
                   /\ stack'[s] = <<>> <=> stack[s] = <<>>
                   /\ stack[s] # <<>> => stack'[s][1] = stack[s][1]
        BY <1>1, <1>5, <1>15, <1>17, <3>2
      <3>. QED
        BY <3>1, <3>2 DEF Inv, DeadInv
    <2>2. stack'[cpu][1].at = "unreachable" => Len(stack'[cpu]) = 2 /\ Here'.at \in {"pick", "switch"}
      <3>1. SUFFICES ASSUME old[1].at = "unreachable" PROVE Len(old) = 2 /\ g.at = "switch"
        BY <1>13, <1>15, <1>17, <1>18
      <3>2. task_table[cpu] = "Dead" /\ Len(old) = 2
        BY <1>1, <3>1 DEF Inv, DeadInv
      <3>3. next # current
        BY <1>1, <1>7, <3>2
      <3>. QED
        BY <1>11, <3>2, <3>3
    <2>. QED
      BY <2>1, <2>2 DEF Pick, DeadInv
  <1>26. IrqInv'
    <2>1. active' = "none"
      BY <1>1 DEF Pick, Inv, IrqInv
    <2>2. \A k \in 1 .. Len(old) : k \in 1 .. Len(old) - 1 \/ k = Len(old)
      BY <1>2
    <2>3. \A k \in 1 .. Len(old) : new[cpu][k].at # "panic"
      BY <1>1, <1>11, <1>13, <2>2 DEF Inv, IrqInv, Top
    <2>4. ASSUME NEW s \in Slots, NEW k \in 1 .. Len(stack'[s])
          PROVE  stack'[s][k].at # "panic"
      <3>1. CASE s \in freed
        <4>1. Len(<<>>) = 0
          OBVIOUS
        <4>. QED
          BY <1>15, <2>4, <3>1, <4>1
      <3>2. CASE s \notin freed /\ s # cpu
        BY <1>15, <2>4, <3>2 DEF Inv, IrqInv
      <3>3. CASE s = cpu
        BY <1>13, <1>15, <2>3, <2>4, <3>3
      <3>. QED
        BY <3>1, <3>2, <3>3
    <2>. QED
      BY <2>1, <2>4 DEF IrqInv
  <1>. QED
    BY <1>19, <1>20, <1>21, <1>22, <1>23, <1>24, <1>25, <1>26 DEF Inv

\* A task's own code: the trampoline opens interrupts, task_exit marks it dead.
LEMMA OwnStep ==
    ASSUME Inv, Here.at \in {"trampoline", "exit"}, NEW l \in {"wfi", "run", "gone"},
           l \in OwnLabels(cpu), stack' = GoTo(l), ~masked', masked' \in BOOLEAN,
           task_table' = IF l = "gone" THEN [task_table EXCEPT ![current] = "Dead"] ELSE task_table,
           UNCHANGED <<place, waiters, need_reschedule, active, timerLine>>
    PROVE  Inv'
  <1> DEFINE old == stack[cpu]
  <1>0. l \in Labels /\ l \notin MaskedLabels /\ l \in TaskLabels
    BY DEF Labels, TaskLabels, MaskedLabels, IrqLabels, GetcLabels, SchedLabels
  <1>1. /\ cpu \in Slots /\ cpu' = cpu /\ old # <<>> /\ Here \in Frames /\ Here = Top(old)
        /\ Here.at \in TaskLabels /\ Len(old) = 1 /\ old[1] = Here /\ Shape(old)
    BY InvTop DEF TaskLabels, place, Here
  <1>2. Here.at \in OwnLabels(cpu) /\ cpu # Boot
    BY <1>1, InvTop DEF OwnLabels, BootLabels
  <1>3. Booted /\ current = cpu /\ active = "none" /\ task_table[cpu] # "None"
    BY <1>1, <1>2 DEF Inv, BootInv, PlaceInv, IrqInv
  <1>4. task_table[cpu] # "Blocked" /\ (l = "gone" => cpu # Idle)
    BY <1>1, <1>2 DEF Inv, WaitInv, WaitersAreBlocked, OwnLabels
  <1>5. /\ stack' \in [Slots -> Seq(Frames)]
        /\ \A s \in Slots \ {cpu} : stack'[s] = stack[s]
        /\ Len(stack'[cpu]) = 1
        /\ Top(stack'[cpu]) = [Here EXCEPT !.at = l]
    BY <1>0, <1>1, GoToStack DEF Inv
  <1>6. stack'[cpu] # <<>> /\ stack'[cpu][1].at = l /\ Here'.at = l
    BY <1>1, <1>5 DEF Top, Here, Frames
  <1>7. Shape(stack'[cpu])
    BY <1>0, <1>5, <1>6 DEF Shape
  <1>8. /\ task_table' \in Tables
        /\ \A s \in Slots \ {cpu} : task_table'[s] = task_table[s]
        /\ task_table'[cpu] = IF l = "gone" THEN "Dead" ELSE task_table[cpu]
    BY <1>1, <1>3 DEF Inv, TypeInv, Tables, SlotStates
  <1>9. TypeInv'
    BY <1>5, <1>8 DEF Inv, TypeInv, place
  <1>10. ShapeInv'
    BY <1>1, <1>5, <1>6, <1>7 DEF Inv, ShapeInv, OwnLabels
  <1>11. MaskInv'
    BY <1>0, <1>1, <1>6 DEF MaskInv
  <1>12. PlaceInv'
    BY <1>1, <1>3, <1>5, <1>6, <1>8 DEF Inv, PlaceInv, place
  <1>13. BootInv'
    <2>1. Boot \in Slots /\ Idle \in Slots
      BY NAssumption DEF Slots, Boot, Idle
    <2>2. \A s \in Slots : /\ task_table'[s] = "None" <=> task_table[s] = "None"
                           /\ stack'[s] = <<>> <=> stack[s] = <<>>
      BY <1>1, <1>3, <1>5, <1>6, <1>8
    <2>3. task_table'[Idle] = task_table[Idle]
      BY <1>1, <1>4, <1>8, <2>1
    <2>4. stack'[Boot] = stack[Boot]
      BY <1>2, <1>5, <2>1
    <2>. QED
      BY <1>3, <2>1, <2>2, <2>3, <2>4 DEF Inv, BootInv, Booted
  <1>14. WaitInv'
    <2>1. \A s \in Slots : task_table'[s] = "Blocked" <=> task_table[s] = "Blocked"
      BY <1>1, <1>4, <1>8
    <2>2. \A s \in Slots \ {Boot} : Len(stack'[s]) >= 2 => stack'[s][2].at \notin GetcLabels
      BY <1>1, <1>5 DEF Inv, WaitInv
    <2>. QED
      BY <2>1, <2>2 DEF Inv, WaitInv, WaitersAreBlocked
  <1>15. DeadInv'
    <2>1. task_table[cpu] # "Dead"
      BY <1>1 DEF Inv, DeadInv
    <2>2. task_table'[cpu] = "Dead" <=> l = "gone"
      BY <1>8, <2>1
    <2>. QED
      BY <1>1, <1>5, <1>6, <1>8, <2>2 DEF Inv, DeadInv
  <1>16. IrqInv'
    BY <1>1, <1>3, <1>5, <1>6 DEF Inv, IrqInv
  <1>. QED
    BY <1>9, <1>10, <1>11, <1>12, <1>13, <1>14, <1>15, <1>16 DEF Inv

LEMMA TaskLifeSteps ==
    ASSUME Inv, Trampoline \/ MarkDead
    PROVE  Inv'
  <1>. USE DEF sched, input, core, devices, place, At
  <1>1. Here.at \in TaskLabels
    BY DEF Trampoline, MarkDead, TaskLabels
  <1>2. Here.at \in OwnLabels(cpu)
    BY <1>1, InvTop
  <1>3. CASE Trampoline
    <2>1. PICK l : l = IF cpu = Idle THEN "wfi" ELSE "run"
      OBVIOUS
    <2>2. l \in OwnLabels(cpu) /\ l \in {"wfi", "run"}
      BY <1>2, <1>3, <2>1 DEF Trampoline, OwnLabels, BootLabels
    <2>. QED
      BY <1>3, <2>1, <2>2, OwnStep DEF Trampoline
  <1>4. CASE MarkDead
    <2>1. "gone" \in OwnLabels(cpu)
      BY <1>2, <1>4 DEF MarkDead, OwnLabels, BootLabels
    <2>2. ~masked /\ masked \in BOOLEAN
      BY <1>4 DEF MarkDead, Inv, TypeInv, MaskInv, MaskedLabels, IrqLabels, GetcLabels, SchedLabels
    <2>. QED
      BY <1>4, <2>1, <2>2, OwnStep DEF MarkDead
  <1>. QED
    BY <1>3, <1>4

\* free_id finds an empty slot when there is one.
LEMMA FreeIdIsFree ==
    ASSUME NEW table, FreeSlots(table) # {}
    PROVE  FreeId(table) \in FreeSlots(table)
  <1>1. FreeSlots(table) \in SUBSET Nat
    BY NAssumption DEF FreeSlots, Slots
  <1>. QED
    BY <1>1, LeastOfNats DEF FreeId

\* sched::init and spawn: fresh slots become Ready tasks, each on a stack that
\* holds a trampoline, while the boot task goes on to spawn.
LEMMA CreateStep ==
    ASSUME Inv, Here.at \in {"boot", "spawn"}, NEW T \in SUBSET Slots, Boot \notin T,
           \A s \in T : stack[s] = <<>> /\ task_table[s] = "None",
           task_table' = [s \in Slots |-> IF s \in T \/ (s = Boot /\ ~Booted) THEN "Ready"
                                          ELSE task_table[s]],
           Booted \/ Idle \in T,
           sp' = [s \in Slots |-> IF s \in T THEN s ELSE sp[s]],
           NEW new, new = GoTo("spawn") \/ (new = stack /\ Here.at = "spawn"),
           stack' = [s \in Slots |-> IF s \in T THEN <<Frame("trampoline", TRUE)>> ELSE new[s]],
           freeStacks' \in Nat,
           UNCHANGED <<cpu, current, masked, waiters, need_reschedule, active, timerLine>>
    PROVE  Inv'
  <1> DEFINE old == stack[cpu]
  <1>0. "spawn" \in Labels /\ "spawn" \in BootLabels /\ "spawn" \in TaskLabels
        /\ "spawn" \notin MaskedLabels /\ "trampoline" \in TaskLabels
    BY DEF Labels, TaskLabels, BootLabels, MaskedLabels, IrqLabels, GetcLabels, SchedLabels
  <1>1. /\ cpu \in Slots /\ cpu' = cpu /\ old # <<>> /\ Here \in Frames /\ Here = Top(old)
        /\ Here.at \in TaskLabels /\ Len(old) = 1 /\ old[1] = Here
    BY InvTop DEF TaskLabels, BootLabels, Here
  <1>2. cpu = Boot /\ current = Boot /\ active = "none" /\ ~masked /\ Boot \in Slots /\ Idle \in Slots
    <2>1. cpu = Boot
      BY <1>1, InvTop DEF OwnLabels
    <2>. QED
      BY <2>1, NAssumption
         DEF Inv, PlaceInv, IrqInv, MaskInv, MaskedLabels, IrqLabels, GetcLabels, SchedLabels,
             Slots, Boot, Idle
  <1>3. PICK tr : tr = <<Frame("trampoline", TRUE)>>
    OBVIOUS
  <1>4. /\ tr \in Seq(Frames) /\ Len(tr) = 1 /\ tr # <<>> /\ tr[1].at = "trampoline"
        /\ Top(tr).at = "trampoline" /\ Shape(tr)
    <2>1. Frame("trampoline", TRUE) \in Frames /\ Frame("trampoline", TRUE).at = "trampoline"
      BY <1>2 DEF Frame, Frames, Labels, TaskLabels
    <2>2. PICK f \in Frames : f = Frame("trampoline", TRUE) /\ f.at = "trampoline"
      BY <2>1
    <2>3. tr = <<f>>
      BY <1>3, <2>2
    <2>4. tr \in Seq(Frames) /\ Len(tr) = 1 /\ tr # <<>> /\ tr[1] = f
      BY <2>3
    <2>. QED
      BY <1>0, <2>2, <2>4, ShapeOne DEF Top
  <1>6. /\ new \in [Slots -> Seq(Frames)]
        /\ \A s \in Slots \ {cpu} : new[s] = stack[s]
        /\ Len(new[cpu]) = 1
        /\ Top(new[cpu]).at = "spawn"
    <2>1. CASE new = GoTo("spawn")
      <3>1. /\ new \in [Slots -> Seq(Frames)]
            /\ \A s \in Slots \ {cpu} : new[s] = stack[s]
            /\ Len(new[cpu]) = 1
            /\ Top(new[cpu]) = [Here EXCEPT !.at = "spawn"]
        BY <1>0, <1>1, <2>1, GoToStack DEF Inv
      <3>. QED
        BY <1>1, <3>1 DEF Frames
    <2>2. CASE new = stack /\ Here.at = "spawn"
      BY <1>1, <2>2 DEF Inv, TypeInv
    <2>. QED
      BY <2>1, <2>2
  <1>7. stack' = [s \in Slots |-> IF s \in T THEN tr ELSE new[s]]
    BY <1>3
  <1>8. /\ stack' \in [Slots -> Seq(Frames)]
        /\ \A s \in T : stack'[s] = tr
        /\ \A s \in Slots \ T : s # cpu => stack'[s] = stack[s]
        /\ Len(stack'[cpu]) = 1 /\ stack'[cpu] # <<>> /\ Here'.at = "spawn"
        /\ stack'[cpu][1].at = "spawn" /\ Shape(stack'[cpu])
    <2>1. stack' \in [Slots -> Seq(Frames)]
      <3>1. \A s \in Slots : (IF s \in T THEN tr ELSE new[s]) \in Seq(Frames)
        BY <1>4, <1>6
      <3>. QED
        BY <1>7, <3>1
    <2>2. stack'[cpu] = new[cpu]
      BY <1>1, <1>2, <1>7
    <2>3. new[cpu] # <<>> /\ new[cpu][1].at = "spawn" /\ Top(new[cpu]).at = "spawn"
      BY <1>1, <1>6 DEF Top
    <2>4. \A s \in T : stack'[s] = tr
      BY <1>7
    <2>5. \A s \in Slots \ T : s # cpu => stack'[s] = stack[s]
      BY <1>6, <1>7
    <2>6. Shape(stack'[cpu])
      BY <1>0, <1>6, <2>2, <2>3, ShapeOne
    <2>7. Here'.at = "spawn"
      BY <1>1, <2>2, <2>3 DEF Here
    <2>. QED
      BY <1>6, <2>1, <2>2, <2>3, <2>4, <2>5, <2>6, <2>7
  <1>a. /\ Booted => task_table'[Boot] = task_table[Boot]
        /\ ~Booted => task_table'[Boot] = "Ready" /\ task_table[Boot] = "None"
    BY <1>2 DEF Booted
  <1>b. task_table'[cpu] # "None" /\ task_table'[cpu] # "Dead"
    <2>1. task_table[cpu] # "Dead"
      BY <1>1 DEF Inv, DeadInv
    <2>. QED
      BY <1>2, <1>a, <2>1 DEF Booted
  <1>9. Booted' /\ task_table'[Idle] = "Ready"
    BY <1>2 DEF Booted, Inv, BootInv
  <1>10. TypeInv'
    <2>1. task_table' \in Tables
      BY DEF Inv, TypeInv, Tables, SlotStates
    <2>2. sp' \in [Slots -> Slots \cup {NoStack}]
      BY DEF Inv, TypeInv
    <2>. QED
      BY <1>8, <2>1, <2>2 DEF Inv, TypeInv
  <1>11. ShapeInv'
    <2>1. ASSUME NEW s \in T PROVE Shape(stack'[s]) /\ stack'[s][1].at \in OwnLabels(s)
      <3>1. "trampoline" \in OwnLabels(s)
        BY <2>1 DEF OwnLabels
      <3>. QED
        BY <1>4, <1>8, <2>1, <3>1
    <2>2. "spawn" \in OwnLabels(cpu)
      BY <1>0, <1>2 DEF OwnLabels
    <2>3. ASSUME NEW s \in Slots \ T, stack'[s] # <<>>
          PROVE  Shape(stack'[s]) /\ stack'[s][1].at \in OwnLabels(s)
      BY <1>8, <2>2, <2>3 DEF Inv, ShapeInv
    <2>4. \A s \in Slots : stack'[s] # <<>> => Shape(stack'[s]) /\ stack'[s][1].at \in OwnLabels(s)
      BY <2>1, <2>3
    <2>. QED
      BY <2>4 DEF ShapeInv, OwnLabels
  <1>12. MaskInv'
    BY <1>0, <1>1, <1>2, <1>8 DEF MaskInv
  <1>13. PlaceInv'
    <2>1. ASSUME NEW s \in Slots \ {cpu}
          PROVE  /\ task_table'[s] # "None" => sp'[s] = s /\ stack'[s] # <<>>
                 /\ stack'[s] # <<>> => Top(stack'[s]).at \in {"return", "trampoline"}
      <3>1. CASE s \in T
        BY <1>4, <1>8, <3>1
      <3>2. CASE s \notin T
        BY <1>2, <1>8, <3>2 DEF Inv, PlaceInv
      <3>. QED
        BY <3>1, <3>2
    <2>. QED
      BY <1>1, <1>2, <1>8, <2>1 DEF PlaceInv
  <1>14. BootInv'
    <2>1. ASSUME NEW s \in Slots PROVE task_table'[s] = "None" <=> stack'[s] = <<>>
      <3>1. CASE s \in T
        BY <1>4, <1>8, <3>1
      <3>2. CASE s = cpu
        BY <1>8, <1>b, <3>2
      <3>3. CASE s \notin T /\ s # cpu
        BY <1>2, <1>8, <3>3 DEF Inv, BootInv
      <3>. QED
        BY <3>1, <3>2, <3>3
    <2>. QED
      BY <1>2, <1>8, <1>9, <2>1 DEF BootInv
  <1>15. WaitInv'
    <2>1. \A s \in Slots : task_table'[s] = "Blocked" <=> task_table[s] = "Blocked"
      BY <1>2, <1>a DEF Booted
    <2>2. ASSUME NEW s \in Slots \ {Boot}, Len(stack'[s]) >= 2
          PROVE  stack'[s][2].at \notin GetcLabels
      BY <1>2, <1>4, <1>8, <2>2 DEF Inv, WaitInv
    <2>. QED
      BY <2>1, <2>2 DEF Inv, WaitInv, WaitersAreBlocked
  <1>16. DeadInv'
    <2>1. ASSUME NEW s \in Slots
          PROVE  task_table'[s] = "Dead" <=>
                    stack'[s] # <<>> /\ stack'[s][1].at \in {"gone", "unreachable"}
      <3>1. CASE s \in T
        BY <1>4, <1>8, <3>1
      <3>2. CASE s = cpu
        BY <1>8, <1>b, <3>2
      <3>3. CASE s \notin T /\ s # cpu
        BY <1>2, <1>8, <3>3 DEF Inv, DeadInv
      <3>. QED
        BY <3>1, <3>2, <3>3
    <2>. QED
      BY <1>1, <1>8, <2>1 DEF DeadInv
  <1>17. IrqInv'
    <2>1. \A k \in 1 .. 1 : k = 1
      OBVIOUS
    <2>2. \A s \in T : \A k \in 1 .. Len(stack'[s]) : stack'[s][k].at # "panic"
      BY <1>4, <1>8, <2>1
    <2>3. \A k \in 1 .. Len(stack'[cpu]) : stack'[cpu][k].at # "panic"
      BY <1>8, <2>1
    <2>4. \A s \in Slots \ T : s # cpu =>
             \A k \in 1 .. Len(stack'[s]) : stack'[s][k].at # "panic"
      BY <1>8 DEF Inv, IrqInv
    <2>. QED
      BY <1>2, <2>2, <2>3, <2>4 DEF IrqInv
  <1>. QED
    BY <1>10, <1>11, <1>12, <1>13, <1>14, <1>15, <1>16, <1>17 DEF Inv

LEMMA CreateSteps ==
    ASSUME Inv, InitSched \/ Spawn
    PROVE  Inv'
  <1>. USE DEF sched, input, core, devices, At
  <1>0. "spawn" \in TaskLabels /\ "boot" \in TaskLabels /\ "spawn" \in Labels
    BY DEF TaskLabels, BootLabels, Labels
  <1>a. Here.at \in {"boot", "spawn"} /\ Here.at \in TaskLabels
    BY <1>0 DEF InitSched, Spawn
  <1>1. /\ Here.at \in {"boot", "spawn"} /\ stack[cpu][1] = Here /\ stack[cpu] # <<>>
        /\ cpu \in Slots /\ Boot \in Slots /\ Idle \in Slots /\ Boot # Idle
    BY <1>a, InvTop, NAssumption DEF Slots, Boot, Idle
  <1>2. cpu = Boot /\ current = Boot
    BY <1>1, InvTop DEF OwnLabels, Inv, PlaceInv
  <1>3. PICK new : new = GoTo("spawn")
    OBVIOUS
  <1>4. new \in [Slots -> Seq(Frames)]
    BY <1>0, <1>1, <1>3, GoToStack DEF Inv
  <1>5. CASE InitSched
    <2>1. ~Booted
      BY <1>1, <1>2, <1>5 DEF InitSched, Inv, BootInv
    <2>2. /\ \A s \in Slots : task_table[s] = "None"
          /\ stack[Idle] = <<>> /\ freeStacks = HeapStacks
      BY <1>1, <2>1 DEF Inv, BootInv
    <2>0. PICK T : T = {Idle}
      OBVIOUS
    <2>3. task_table' = [s \in Slots |-> IF s \in T \/ (s = Boot /\ ~Booted) THEN "Ready"
                                         ELSE task_table[s]]
      BY <1>1, <1>5, <2>0, <2>1 DEF InitSched, Inv, TypeInv, Tables
    <2>4. sp' = [s \in Slots |-> IF s \in T THEN s ELSE sp[s]]
      BY <1>1, <1>5, <2>0 DEF InitSched, Inv, TypeInv
    <2>5. stack' = [s \in Slots |-> IF s \in T THEN <<Frame("trampoline", TRUE)>> ELSE new[s]]
      BY <1>1, <1>3, <1>4, <1>5, <2>0 DEF InitSched
    <2>6. freeStacks' \in Nat
      BY <1>5, <2>2, HeapAssumption DEF InitSched
    <2>7. /\ T \in SUBSET Slots /\ Boot \notin T /\ Idle \in T
          /\ \A s \in T : stack[s] = <<>> /\ task_table[s] = "None"
      BY <1>1, <2>0, <2>2
    <2>8. UNCHANGED <<cpu, current, masked, waiters, need_reschedule, active, timerLine>>
      BY <1>5 DEF InitSched
    <2>. QED
      BY <1>1, <1>3, <2>3, <2>4, <2>5, <2>6, <2>7, <2>8, CreateStep
  <1>6. CASE Spawn
    <2>1. Booted
      BY <1>1, <1>2, <1>6 DEF Spawn, Inv, BootInv
    <2>2. PICK n : n = FreeId(task_table)
      OBVIOUS
    <2>3. n \in Slots /\ task_table[n] = "None" /\ stack[n] = <<>> /\ n # Boot /\ n # Idle
      <3>1. n \in FreeSlots(task_table)
        BY <1>6, <2>2, FreeIdIsFree DEF Spawn
      <3>. QED
        BY <2>1, <3>1 DEF FreeSlots, Inv, BootInv, Booted
    <2>0. PICK T : T = {n}
      OBVIOUS
    <2>4. task_table' = [s \in Slots |-> IF s \in T \/ (s = Boot /\ ~Booted) THEN "Ready"
                                         ELSE task_table[s]]
      BY <1>6, <2>1, <2>0, <2>2, <2>3 DEF Spawn, Inv, TypeInv, Tables
    <2>5. sp' = [s \in Slots |-> IF s \in T THEN s ELSE sp[s]]
      BY <1>6, <2>0, <2>2, <2>3 DEF Spawn, Inv, TypeInv
    <2>6. stack' = [s \in Slots |-> IF s \in T THEN <<Frame("trampoline", TRUE)>> ELSE stack[s]]
      BY <1>6, <2>0, <2>2, <2>3 DEF Spawn, Inv, TypeInv
    <2>7. freeStacks' \in Nat
      BY <1>6 DEF Spawn, Inv, TypeInv
    <2>8. /\ T \in SUBSET Slots /\ Boot \notin T
          /\ \A s \in T : stack[s] = <<>> /\ task_table[s] = "None"
      BY <2>0, <2>3
    <2>9. UNCHANGED <<cpu, current, masked, waiters, need_reschedule, active, timerLine>>
      BY <1>6 DEF Spawn
    <2>10. Here.at = "spawn"
      BY <1>6 DEF Spawn
    <2>. QED
      BY <1>1, <2>1, <2>4, <2>5, <2>6, <2>7, <2>8, <2>9, <2>10, CreateStep
  <1>. QED
    BY <1>5, <1>6
-------------------------------------------------------------------------------
(* The theorems.  Each assumes what the code assumes without enforcing it,  *)
(* that the first tick does not come before sched::init is done: the run    *)
(* KernelEarlyTick shows that NoPanic fails otherwise.                      *)

LEMMA InitInv == Init => Inv
  <1> SUFFICES ASSUME Init PROVE Inv
    OBVIOUS
  <1>1. Boot \in Slots /\ Idle \in Slots /\ Boot # Idle
    BY NAssumption DEF Slots, Boot, Idle
  <1>2. PICK f : f = Frame("boot", FALSE)
    OBVIOUS
  <1>3. f \in Frames /\ f.at = "boot" /\ "boot" \in BootLabels /\ "boot" \in TaskLabels
    BY <1>1, <1>2 DEF Frame, Frames, Labels, TaskLabels, BootLabels
  <1>4. PICK tr : tr = <<f>>
    OBVIOUS
  <1>5. tr \in Seq(Frames) /\ Len(tr) = 1 /\ tr # <<>> /\ tr[1] = f /\ Top(tr) = f
    BY <1>3, <1>4 DEF Top
  <1>6. stack = [s \in Slots |-> IF s = Boot THEN tr ELSE <<>>]
    BY <1>2, <1>4 DEF Init
  <1>7. stack[cpu] = tr /\ Here = f /\ cpu = Boot
    BY <1>1, <1>5, <1>6 DEF Init, Here
  <1>8. Shape(tr)
    BY <1>3, <1>5, ShapeOne
  <1>9. TypeInv
    <2>1. \A s \in Slots : (IF s = Boot THEN tr ELSE <<>>) \in Seq(Frames)
      BY <1>5
    <2>2. stack \in [Slots -> Seq(Frames)]
      BY <1>6, <2>1
    <2>. QED
      BY <1>1, <2>2, HeapAssumption DEF Init, TypeInv, Tables, SlotStates
  <1>10. ShapeInv
    BY <1>3, <1>5, <1>6, <1>8 DEF ShapeInv, OwnLabels
  <1>11. MaskInv
    BY <1>3, <1>5, <1>7 DEF Init, MaskInv, MaskedLabels, IrqLabels, GetcLabels, SchedLabels
  <1>12. PlaceInv
    BY <1>3, <1>6, <1>7 DEF Init, PlaceInv
  <1>13. BootInv
    BY <1>1, <1>3, <1>5, <1>6, <1>7 DEF Init, BootInv, Booted, GetcLabels, SchedLabels
  <1>14. WaitInv
    <2>1. \A s \in Slots \ {Boot} : stack[s] = <<>> /\ Len(<<>>) = 0
      BY <1>6
    <2>. QED
      BY <2>1 DEF Init, WaitInv, WaitersAreBlocked
  <1>15. DeadInv
    BY <1>3, <1>5, <1>6, <1>7 DEF Init, DeadInv
  <1>16. IrqInv
    <2>1. \A s \in Slots : \A k \in 1 .. Len(stack[s]) : s = Boot /\ k = 1
      <3>1. Len(<<>>) = 0
        OBVIOUS
      <3>2. \A k \in 1 .. 0 : FALSE
        OBVIOUS
      <3>3. \A k \in 1 .. 1 : k = 1
        OBVIOUS
      <3>4. \A s \in Slots \ {Boot} : Len(stack[s]) = 0
        BY <1>6, <3>1
      <3>5. Len(stack[Boot]) = 1
        BY <1>1, <1>5, <1>6
      <3>. QED
        BY <3>2, <3>3, <3>4, <3>5
    <2>2. stack[Boot][1].at # "panic"
      BY <1>1, <1>3, <1>5, <1>6
    <2>. QED
      BY <2>1, <2>2 DEF Init, IrqInv
  <1>. QED
    BY <1>9, <1>10, <1>11, <1>12, <1>13, <1>14, <1>15, <1>16 DEF Inv

LEMMA DeviceSteps ==
    ASSUME Inv, ~EarlyTick, TimerFire \/ Receive
    PROVE  Inv'
  <1>1. UNCHANGED <<task_table, waiters, place, masked, stack, need_reschedule, active>>
    BY DEF TimerFire, Receive, sched, input, core, place
  <1>2. timerLine' \in BOOLEAN /\ (timerLine' => timerLine \/ Booted)
    <2>1. CASE TimerFire
      BY <2>1 DEF TimerFire, Booted
    <2>2. CASE Receive
      BY <2>2 DEF Receive, Inv, TypeInv
    <2>. QED
      BY <2>1, <2>2
  <1>. QED
    BY <1>1, <1>2, DeviceStep

LEMMA StepInv ==
    ASSUME Inv, [Next]_vars, ~EarlyTick
    PROVE  Inv'
  <1>1. CASE MaskedStep
    BY <1>1, HandlerSteps, WaitSteps, CallSteps, ReturnSteps, PlainSteps, PickStep, SwitchStep,
       TaskLifeSteps DEF MaskedStep
  <1>2. CASE TaskStep
    BY <1>2, CreateSteps, PlainSteps, CallSteps, TaskLifeSteps DEF TaskStep
  <1>3. CASE Finish
    BY <1>3, PlainSteps
  <1>4. CASE TakeIrq
    BY <1>4, CallSteps
  <1>5. CASE TimerFire \/ Receive
    BY <1>5, DeviceSteps
  <1>6. CASE UNCHANGED vars
    <2>1. UNCHANGED <<task_table, waiters, place, masked, stack, need_reschedule, active, timerLine>>
      BY <1>6 DEF vars, sched, input, core, devices, place
    <2>. QED
      BY <2>1, DeviceStep DEF Inv, TypeInv
  <1>. QED
    BY <1>1, <1>2, <1>3, <1>4, <1>5, <1>6 DEF Next

\* The inductive invariant holds of every run.
THEOREM KernelInvariant ==
    ASSUME ~EarlyTick
    PROVE  Spec => []Inv
  <1>1. Inv /\ [Next]_vars => Inv'
    BY StepInv
  <1>. QED
    BY <1>1, InitInv, PTL DEF Spec

\* Interrupts are masked exactly inside without_interrupts, handlers and
\* trampolines (lib/lock.rs, vectors.s, switch.s).
THEOREM MaskDisciplineHolds ==
    ASSUME ~EarlyTick
    PROVE  Spec => []MaskDiscipline
  <1>1. Inv => MaskDiscipline
    BY DEF Inv, MaskInv, MaskDiscipline
  <1>. QED
    BY <1>1, KernelInvariant, PTL

\* A task stack carries one interrupt frame at a time (vectors.s).
THEOREM BoundedNestingHolds ==
    ASSUME ~EarlyTick
    PROVE  Spec => []BoundedNesting
  <1>1. ASSUME Inv, NEW s \in Slots
        PROVE  /\ Len(stack[s]) <= 3
               /\ Cardinality({k \in DOMAIN stack[s] : stack[s][k].at \in IrqLabels}) <= 1
    <2> DEFINE irqs == {k \in DOMAIN stack[s] : stack[s][k].at \in IrqLabels}
    <2>1. stack[s] \in Seq(Frames)
      BY <1>1 DEF Inv, TypeInv
    <2>2. CASE stack[s] = <<>>
      <3>1. Len(stack[s]) = 0 /\ irqs = {}
        BY <2>2
      <3>2. Cardinality(irqs) = 0
        BY <3>1, FS_EmptySet
      <3> HIDE DEF irqs
      <3>3. Len(stack[s]) <= 3 /\ Cardinality(irqs) <= 1
        BY <3>1, <3>2
      <3>. QED
        BY <3>3, Zenon DEF irqs
    <2>3. CASE stack[s] # <<>>
      <3>1. Shape(stack[s])
        BY <1>1, <2>3 DEF Inv, ShapeInv
      <3>2. Len(stack[s]) = 1 \/ Len(stack[s]) = 2 \/ Len(stack[s]) = 3
        BY <3>1, ShapeDepth
      <3>3. \A k \in DOMAIN stack[s] : k = 1 \/ k = 2 \/ k = 3
        BY <2>1, <3>2
      <3>4. stack[s][1].at \notin IrqLabels
        BY <3>1, LabelKinds DEF Shape, Nested
      <3>5. 3 \in DOMAIN stack[s] => stack[s][3].at \notin IrqLabels
        <4>1. SUFFICES ASSUME 3 \in DOMAIN stack[s] PROVE stack[s][3].at \notin IrqLabels
          OBVIOUS
        <4>2. Len(stack[s]) = 3
          BY <2>1, <3>2, <4>1
        <4>. QED
          BY <3>1, <4>2, LabelKinds DEF Shape
      <3>6. irqs \subseteq {2}
        BY <3>3, <3>4, <3>5
      <3>7. IsFiniteSet({2}) /\ Cardinality({2}) = 1
        BY FS_Singleton
      <3>8. Cardinality(irqs) \in Nat /\ Cardinality(irqs) <= 1
        BY <3>6, <3>7, FS_Subset, FS_CardinalityType
      <3>9. Len(stack[s]) <= 3
        <4>1. 1 <= 3 /\ 2 <= 3 /\ 3 <= 3
          OBVIOUS
        <4>. QED
          BY <3>2, <4>1
      <3> HIDE DEF irqs
      <3>10. Len(stack[s]) <= 3 /\ Cardinality(irqs) <= 1
        BY <3>8, <3>9
      <3>. QED
        BY <3>10, Zenon DEF irqs
    <2>. QED
      BY <2>2, <2>3
  <1>2. Inv => BoundedNesting
    BY <1>1 DEF BoundedNesting
  <1>. QED
    BY <1>2, KernelInvariant, PTL

\* Whenever an interrupt could look, the CPU is on the current task's stack and
\* every other task can be resumed (kernel/sched/mod.rs, switch.s).
THEOREM OnOwnStackHolds ==
    ASSUME ~EarlyTick
    PROVE  Spec => []OnOwnStack
  <1>1. ASSUME Inv, ~masked PROVE OnOwnStack
    <2>1. Here.at \notin MaskedLabels /\ Here.at \in Labels
      BY <1>1, InvTop DEF Inv, MaskInv, Frames
    <2>2. Here.at \in TaskLabels /\ Here.at # "switch"
      BY <2>1, LabelKinds DEF MaskedLabels, SchedLabels
    <2>3. Here = stack[cpu][1] /\ stack[cpu] # <<>> /\ cpu \in Slots
      BY <1>1, <2>2, InvTop
    <2>4. ~At("boot") => task_table[cpu] # "None"
      BY <1>1, <2>3 DEF At, Inv, BootInv
    <2>. QED
      BY <1>1, <2>2, <2>4 DEF OnOwnStack, Inv, PlaceInv
  <1>2. Inv => OnOwnStack
    BY <1>1 DEF OnOwnStack
  <1>. QED
    BY <1>2, KernelInvariant, PTL

\* An interrupt is ended before preempt gives the CPU away (kernel/irq.rs).
THEOREM EndedBeforeSwitchHolds ==
    ASSUME ~EarlyTick
    PROVE  Spec => []EndedBeforeSwitch
  <1>1. Inv => EndedBeforeSwitch
    BY InvTop DEF Inv, IrqInv, EndedBeforeSwitch, At
  <1>. QED
    BY <1>1, KernelInvariant, PTL

\* The wait queue holds exactly the Blocked tasks (kernel/sched/wait.rs).
THEOREM WaitersAreBlockedHolds ==
    ASSUME ~EarlyTick
    PROVE  Spec => []WaitersAreBlocked
  <1>1. Inv => WaitersAreBlocked
    BY DEF Inv, WaitInv
  <1>. QED
    BY <1>1, KernelInvariant, PTL

\* No unwrap in tick or wake_all fails, and task_exit never comes back.
THEOREM NoPanicHolds ==
    ASSUME ~EarlyTick
    PROVE  Spec => []NoPanic
  <1>1. ASSUME Inv PROVE NoPanic
    <2>1. Here.at # "panic"
      <3>1. Len(stack[cpu]) \in 1 .. Len(stack[cpu])
        BY <1>1, InvTop DEF Shape
      <3>. QED
        BY <1>1, <3>1, InvTop DEF Inv, IrqInv
    <2>2. Here.at # "unreachable"
      <3>1. SUFFICES ASSUME Here.at = "unreachable" PROVE FALSE
        OBVIOUS
      <3>2. Len(stack[cpu]) = 1 /\ Here = stack[cpu][1]
        BY <1>1, <3>1, InvTop DEF TaskLabels
      <3>. QED
        BY <1>1, <3>1, <3>2 DEF Inv, DeadInv
    <2>. QED
      BY <2>1, <2>2 DEF NoPanic, At
  <1>. QED
    BY <1>1, KernelInvariant, PTL


-------------------------------------------------------------------------------
(* The ring buffer: the arithmetic of the indices, without the modulus.     *)

\* From one index on to the other, and the k-th place from an index on.
Distance(h, t) == IF t < h THEN t - h + BufSize ELSE t - h

Place(h, k) == IF h + k - 1 < BufSize THEN h + k - 1 ELSE h + k - 1 - BufSize

LEMMA Wraps ==
    ASSUME NEW i \in Int, 0 - BufSize <= i, i < 2 * BufSize
    PROVE  i % BufSize = IF i < 0 THEN i + BufSize ELSE IF i < BufSize THEN i ELSE i - BufSize
  BY BufSizeAssumption

LEMMA IndexWraps ==
    ASSUME NEW h \in Places, NEW t \in Places
    PROVE  /\ h % BufSize = h
           /\ (t - h) % BufSize = Distance(h, t)
           /\ \A k \in 1 .. BufSize : (h + k - 1) % BufSize = Place(h, k)
           /\ After(h) = IF h + 1 < BufSize THEN h + 1 ELSE 0
  <1>. /\ h \in Int /\ 0 <= h /\ h < BufSize
       /\ t \in Int /\ 0 <= t /\ t < BufSize
    BY BufSizeAssumption DEF Places
  <1>1. h % BufSize = h
    BY Wraps, BufSizeAssumption
  <1>2. (t - h) % BufSize = Distance(h, t)
    BY Wraps, BufSizeAssumption DEF Distance
  <1>3. ASSUME NEW k \in 1 .. BufSize
        PROVE  (h + k - 1) % BufSize = Place(h, k)
    <2>1. h + k - 1 \in Int /\ 0 <= h + k - 1 /\ h + k - 1 < 2 * BufSize
      BY BufSizeAssumption
    <2>. QED
      BY <2>1, Wraps, BufSizeAssumption DEF Place
  <1>4. (h + 1) % BufSize = IF h + 1 < BufSize THEN h + 1 ELSE h + 1 - BufSize
    BY Wraps, BufSizeAssumption
  <1>. QED
    BY <1>1, <1>2, <1>3, <1>4, BufSizeAssumption DEF After

LEMMA IndexFacts ==
    ASSUME NEW h \in Places, NEW t \in Places
    PROVE  /\ After(h) \in Places
           /\ Distance(h, t) \in 0 .. BufSize - 1
           /\ Distance(h, t) = 0 <=> h = t
           /\ \A k \in 1 .. BufSize : Place(h, k) \in Places
           /\ Distance(h, After(t)) = IF After(t) = h THEN 0 ELSE Distance(h, t) + 1
           /\ After(t) = h => Distance(h, t) = BufSize - 1
           /\ Distance(After(h), h) = BufSize - 1
           /\ h # t => Distance(After(h), t) = Distance(h, t) - 1
           /\ \A k \in 1 .. BufSize - 1 : Place(After(h), k) = Place(h, k + 1)
           /\ Place(h, 1) = h
  <1>. /\ h \in Int /\ 0 <= h /\ h < BufSize
       /\ t \in Int /\ 0 <= t /\ t < BufSize
    BY BufSizeAssumption DEF Places
  <1>1. /\ After(h) = IF h + 1 < BufSize THEN h + 1 ELSE 0
        /\ After(t) = IF t + 1 < BufSize THEN t + 1 ELSE 0
    BY IndexWraps
  <1>. QED
    BY <1>1, BufSizeAssumption DEF Distance, Place, Places

LEMMA PlaceOfTail ==
    ASSUME NEW h \in Places, NEW t \in Places, NEW k \in 1 .. BufSize
    PROVE  Place(h, k) \in Places /\ (Place(h, k) = t <=> k = Distance(h, t) + 1)
  BY BufSizeAssumption DEF Distance, Place, Places
-------------------------------------------------------------------------------
(* Buffers                                                                  *)

LEMMA RingParts ==
    ASSUME NEW S, NEW r \in Rings(S)
    PROVE  /\ r.cells \in [Places -> S] /\ r.head \in Places /\ r.tail \in Places
           /\ r.full \in BOOLEAN /\ (r.full => r.head = r.tail)
  BY DEF Rings

LEMMA HeldFacts ==
    ASSUME NEW S, NEW r \in Rings(S)
    PROVE  /\ Held(r) = IF r.full THEN BufSize ELSE Distance(r.head, r.tail)
           /\ Held(r) \in 0 .. BufSize
           /\ Held(r) < BufSize <=> ~r.full
           /\ Held(r) = 0 <=> RingEmpty(r)
  <1>. r.head \in Places /\ r.tail \in Places
    BY RingParts
  <1>1. Held(r) = IF r.full THEN BufSize ELSE Distance(r.head, r.tail)
    BY IndexWraps DEF Held
  <1>2. Distance(r.head, r.tail) \in 0 .. BufSize - 1
        /\ (Distance(r.head, r.tail) = 0 <=> r.head = r.tail)
    BY IndexFacts
  <1>3. CASE r.full
    BY <1>1, <1>3, BufSizeAssumption DEF RingEmpty
  <1>4. CASE ~r.full
    BY <1>1, <1>2, <1>4, BufSizeAssumption DEF RingEmpty
  <1>. QED
    BY <1>1, <1>3, <1>4

LEMMA ContentsFacts ==
    ASSUME NEW S, NEW r \in Rings(S)
    PROVE  /\ Contents(r) \in Seq(S) /\ Len(Contents(r)) = Held(r) /\ Held(r) \in Nat
           /\ \A k \in 1 .. Held(r) : Contents(r)[k] = r.cells[Place(r.head, k)]
  <1>1. /\ r.cells \in [Places -> S] /\ r.head \in Places
        /\ Held(r) \in Nat /\ Held(r) <= BufSize
    BY RingParts, HeldFacts, BufSizeAssumption
  <1>2. \A k \in 1 .. Held(r) : k \in 1 .. BufSize
    BY <1>1, BufSizeAssumption
  <1>3. \A k \in 1 .. Held(r) : (r.head + k - 1) % BufSize = Place(r.head, k)
                               /\ Place(r.head, k) \in Places
    BY <1>1, <1>2, IndexWraps, IndexFacts
  <1>4. \A k \in 1 .. Held(r) : r.cells[(r.head + k - 1) % BufSize] \in S
    BY <1>1, <1>3
  <1>5. Contents(r) \in Seq(S) /\ Len(Contents(r)) = Held(r)
    BY <1>1, <1>4 DEF Contents
  <1>6. \A k \in 1 .. Held(r) : Contents(r)[k] = r.cells[Place(r.head, k)]
    BY <1>3 DEF Contents
  <1>. QED
    BY <1>1, <1>5, <1>6
-------------------------------------------------------------------------------
(* The two operations                                                       *)

\* push (lib/ring_buffer.rs) appends to what is held, or finds the buffer full.
THEOREM PushAppends ==
    ASSUME NEW S, NEW r \in Rings(S), NEW b \in S
    PROVE  /\ RingPush(r, b) \in Rings(S)
           /\ Contents(RingPush(r, b)) =
                IF Len(Contents(r)) < BufSize THEN Append(Contents(r), b) ELSE Contents(r)
  <1>1. CASE r.full
    BY <1>1, HeldFacts, ContentsFacts DEF RingPush
  <1>2. CASE ~r.full
    <2>. SUFFICES ASSUME NEW q, q = RingPush(r, b)
                  PROVE  q \in Rings(S) /\ Contents(q) = Append(Contents(r), b)
      BY <1>2, HeldFacts, ContentsFacts
    <2>1. /\ r.cells \in [Places -> S] /\ r.head \in Places /\ r.tail \in Places
          /\ After(r.tail) \in Places
      BY RingParts, IndexFacts
    <2>2. q = [cells |-> [r.cells EXCEPT ![r.tail] = b], head |-> r.head,
               tail |-> After(r.tail), full |-> After(r.tail) = r.head]
      BY <1>2, <2>1, IndexWraps DEF RingPush
    <2>. DEFINE wrapped == After(r.tail) = r.head
    <2>parts. /\ q.cells = [r.cells EXCEPT ![r.tail] = b]
              /\ q.head = r.head /\ q.tail = After(r.tail)
              /\ q.full = wrapped /\ wrapped \in BOOLEAN
      <3>. HIDE DEF wrapped
      <3>1. q = [cells |-> [r.cells EXCEPT ![r.tail] = b], head |-> r.head,
                 tail |-> After(r.tail), full |-> wrapped]
        BY <2>2 DEF wrapped
      <3>2. wrapped \in BOOLEAN
        BY DEF wrapped
      <3>. QED
        BY <3>1, <3>2
    <2>3. q \in Rings(S)
      <3>1. [r.cells EXCEPT ![r.tail] = b] \in [Places -> S]
        BY <2>1
      <3>2. q \in [cells : [Places -> S], head : Places, tail : Places, full : BOOLEAN]
        <4>. HIDE DEF wrapped
        <4>. QED
          BY <2>1, <2>2, <3>1 DEF wrapped
      <3>3. q.full => q.head = q.tail
        BY <2>parts
      <3>. QED
        BY <3>2, <3>3 DEF Rings
    <2>4. Held(q) = Held(r) + 1
      <3>1. Held(r) = Distance(r.head, r.tail) /\ Distance(r.head, r.tail) \in Int
        BY <1>2, <2>1, HeldFacts, IndexFacts, BufSizeAssumption
      <3>2. CASE After(r.tail) = r.head
        <4>1. Held(q) = BufSize
          BY <2>parts, <2>3, <3>2, HeldFacts
        <4>2. Distance(r.head, r.tail) = BufSize - 1
          BY <2>1, <3>2, IndexFacts
        <4>. QED
          BY <3>1, <4>1, <4>2, BufSizeAssumption
      <3>3. CASE After(r.tail) # r.head
        <4>1. Held(q) = Distance(r.head, After(r.tail))
          <5>1. ~q.full
            BY <2>parts, <3>3
          <5>2. Held(q) = Distance(q.head, q.tail)
            BY <2>3, <5>1, HeldFacts
          <5>. QED
            BY <2>parts, <5>2
        <4>. QED
          BY <2>1, <3>1, <3>3, <4>1, IndexFacts
      <3>. QED
        BY <3>2, <3>3
    <2>5. ASSUME NEW k \in 1 .. Held(q)
          PROVE  Contents(q)[k] = Append(Contents(r), b)[k]
      <3>1. k \in 1 .. BufSize /\ k \in 1 .. Held(r) + 1 /\ Held(r) \in Nat
        BY <2>3, <2>4, HeldFacts, BufSizeAssumption
      <3>2. Contents(q)[k] = [r.cells EXCEPT ![r.tail] = b][Place(r.head, k)]
        <4>1. Contents(q)[k] = q.cells[Place(q.head, k)]
          BY <2>3, ContentsFacts
        <4>. QED
          BY <2>parts, <4>1
      <3>3. Place(r.head, k) \in Places /\ (Place(r.head, k) = r.tail <=> k = Held(r) + 1)
        <4>1. Held(r) = Distance(r.head, r.tail)
          BY <1>2, HeldFacts
        <4>2. /\ Place(r.head, k) \in Places
              /\ Place(r.head, k) = r.tail <=> k = Distance(r.head, r.tail) + 1
          BY <2>1, <3>1, PlaceOfTail
        <4>. QED
          BY <4>1, <4>2
      <3>4. Append(Contents(r), b)[k] = IF k = Held(r) + 1 THEN b ELSE Contents(r)[k]
        BY <3>1, ContentsFacts, AppendProperties
      <3>5. k # Held(r) + 1 => Contents(r)[k] = r.cells[Place(r.head, k)]
        BY <3>1, ContentsFacts
      <3>. QED
        BY <2>1, <3>2, <3>3, <3>4, <3>5
    <2>6. Contents(q) \in Seq(S) /\ Len(Contents(q)) = Held(q)
      BY <2>3, ContentsFacts
    <2>7. Append(Contents(r), b) \in Seq(S) /\ Len(Append(Contents(r), b)) = Held(q)
      BY <2>4, ContentsFacts, AppendProperties
    <2>. QED
      BY <2>3, <2>5, <2>6, <2>7, SeqEqual
  <1>. QED
    BY <1>1, <1>2, RingParts

\* pop (lib/ring_buffer.rs) takes the first byte held, and leaves the rest.
THEOREM PopTakesFirst ==
    ASSUME NEW S, NEW r \in Rings(S), ~RingEmpty(r)
    PROVE  /\ RingPop(r) \in Rings(S)
           /\ Contents(r) # <<>> /\ RingFirst(r) = Head(Contents(r))
           /\ Contents(RingPop(r)) = Tail(Contents(r))
  <1>1. /\ r.cells \in [Places -> S] /\ r.head \in Places /\ r.tail \in Places
        /\ r.full \in BOOLEAN /\ (r.full => r.head = r.tail) /\ After(r.head) \in Places
    BY RingParts, IndexFacts
  <1>2. /\ Contents(r) \in Seq(S) /\ Len(Contents(r)) = Held(r) /\ Contents(r) # <<>>
        /\ Held(r) \in Nat \ {0} /\ Held(r) <= BufSize
    BY HeldFacts, ContentsFacts, BufSizeAssumption
  <1>3. RingFirst(r) = Head(Contents(r))
    <2>1. 1 \in 1 .. Held(r) /\ Place(r.head, 1) = r.head
      BY <1>1, <1>2, IndexFacts
    <2>2. Contents(r)[1] = r.cells[r.head]
      BY <2>1, ContentsFacts
    <2>. QED
      BY <1>1, <1>2, <2>2, IndexWraps DEF RingFirst
  <1>4. ASSUME NEW q, q = RingPop(r)
        PROVE  q \in Rings(S) /\ Contents(q) = Tail(Contents(r))
    <2>1. /\ q \in Rings(S)
          /\ q.cells = r.cells /\ q.head = After(r.head) /\ q.tail = r.tail /\ ~q.full
      BY <1>1, <1>4 DEF RingPop, Rings
    <2>2. Held(q) = Held(r) - 1
      <3>1. Held(q) = Distance(After(r.head), r.tail)
        BY <2>1, HeldFacts
      <3>2. CASE r.full
        BY <1>1, <3>1, <3>2, HeldFacts, IndexFacts
      <3>3. CASE ~r.full
        BY <1>1, <3>1, <3>3, HeldFacts, IndexFacts DEF RingEmpty
      <3>. QED
        BY <3>2, <3>3
    <2>3. /\ Contents(q) \in Seq(S) /\ Len(Contents(q)) = Held(q)
          /\ \A k \in 1 .. Held(q) : Contents(q)[k] = r.cells[Place(After(r.head), k)]
      BY <2>1, ContentsFacts
    <2>4. /\ Tail(Contents(r)) \in Seq(S) /\ Len(Tail(Contents(r))) = Held(q)
          /\ \A k \in 1 .. Held(q) : Tail(Contents(r))[k] = Contents(r)[k + 1]
      BY <1>2, <2>2, HeadTailProperties
    <2>5. ASSUME NEW k \in 1 .. Held(q)
          PROVE  Contents(q)[k] = Tail(Contents(r))[k]
      <3>1. k \in 1 .. BufSize - 1 /\ k + 1 \in 1 .. Held(r)
        BY <1>2, <2>2, BufSizeAssumption
      <3>2. Place(After(r.head), k) = Place(r.head, k + 1)
        BY <1>1, <3>1, IndexFacts
      <3>. QED
        BY <2>3, <2>4, <3>1, <3>2, ContentsFacts, SMTT(20)
    <2>. QED
      BY <2>1, <2>3, <2>4, <2>5, SeqEqual
  <1>. QED
    BY <1>2, <1>3, <1>4

\* A new buffer is empty, and an empty one holds nothing.
LEMMA NewIsEmpty ==
    ASSUME NEW S, NEW default \in S
    PROVE  RingOf(default) \in Rings(S) /\ Contents(RingOf(default)) = <<>>
  <1>1. RingOf(default) \in Rings(S)
    BY BufSizeAssumption DEF RingOf, Rings, Places
  <1>2. Held(RingOf(default)) = 0
    BY <1>1, HeldFacts DEF RingOf, RingEmpty
  <1>. QED
    BY <1>1, <1>2, ContentsFacts

-------------------------------------------------------------------------------

(* StacksAccounted                                                          *)

\* The slots that hold a task stack: the boot task stands on the boot stack.
Owned(table) == {s \in Slots \ {Boot} : table[s] # "None"}

LEMMA AccountedIsOwned ==
    StacksAccounted <=> freeStacks + Cardinality(Owned(task_table)) = HeapStacks
  BY Zenon DEF StacksAccounted, Owned

LEMMA OwnedIsFinite ==
    ASSUME NEW table
    PROVE  IsFiniteSet(Owned(table)) /\ Cardinality(Owned(table)) \in Nat
  <1>1. IsFiniteSet(Slots)
    BY FS_Interval, NAssumption DEF Slots
  <1>2. Owned(table) \subseteq Slots
    BY DEF Owned
  <1>. QED
    BY <1>1, <1>2, FS_Subset, FS_CardinalityType

\* All steps but three leave every slot as empty or as taken as it was.
Settled ==
    /\ freeStacks' = freeStacks
    /\ \A s \in Slots : task_table'[s] = "None" <=> task_table[s] = "None"

LEMMA MostSettle ==
    ASSUME Inv, [Next]_vars
    PROVE  Settled \/ Pick \/ InitSched \/ Spawn
  <1>. USE DEF sched, input, core, devices, Settled
  <1>1. CASE WakeAll
    BY <1>1 DEF WakeAll, Inv, WaitInv, WaitersAreBlocked
  <1>2. CASE Prepare \/ FinishWait
    <2>1. current = Boot /\ task_table[Boot] # "None"
      BY <1>2, GetcIsBoot DEF Prepare, FinishWait, At, GetcLabels
    <2>. QED
      BY <1>2, <2>1 DEF Prepare, FinishWait, Inv, TypeInv, Tables
  <1>3. CASE MarkDead
    <2>1. cpu \in Slots /\ stack[cpu] # <<>> /\ Here.at = "exit" /\ Here = stack[cpu][1]
      BY <1>3, InvTop DEF MarkDead, At, TaskLabels
    <2>2. cpu # Boot
      BY <2>1, InvTop DEF OwnLabels, BootLabels
    <2>3. current = cpu /\ task_table[cpu] # "None"
      BY <2>1, <2>2 DEF Inv, BootInv, PlaceInv
    <2>. QED
      BY <1>3, <2>1, <2>3 DEF MarkDead, Inv, TypeInv, Tables
  <1>4. CASE TaskStep \/ Finish \/ TakeIrq \/ TimerFire \/ Receive \/ UNCHANGED vars
    BY <1>3, <1>4 DEF TaskStep, SpawnFails, Started, Getc, ExitSchedule, Finish, TakeIrq,
                      TimerFire, Receive, vars
  <1>5. CASE MaskedStep
    BY <1>1, <1>2, <1>5
       DEF MaskedStep, Acknowledge, AcknowledgeSpurious, HandleTimer, HandleUart, DrainByte,
           DrainDone, EndOfInterrupt, Preempt, Eret, Switch, Return, Trampoline, PopByte,
           PopEmpty, GetcAgain
  <1>. QED
    BY <1>4, <1>5 DEF Next

LEMMA AccountedStep ==
    ASSUME Inv, StacksAccounted, [Next]_vars
    PROVE  StacksAccounted'
  <1>. USE DEF sched, input, core, devices
  <1> DEFINE old == Owned(task_table)
             new == Owned(task_table')
  <1>0. /\ freeStacks \in Nat /\ freeStacks + Cardinality(old) = HeapStacks
        /\ Cardinality(old) \in Nat /\ IsFiniteSet(old)
        /\ Cardinality(new) \in Nat /\ IsFiniteSet(new)
        /\ Boot \in Slots /\ Idle \in Slots /\ Boot # Idle
    BY AccountedIsOwned, OwnedIsFinite, NAssumption DEF Inv, TypeInv, Slots, Boot, Idle
  <1>1. SUFFICES freeStacks' + Cardinality(new) = HeapStacks
    BY Zenon DEF StacksAccounted, Owned
  <1>2. CASE Settled
    <2>1. new = old
      BY <1>2 DEF Settled, Owned
    <2>. QED
      BY <1>0, <1>2, <2>1 DEF Settled
  <1>3. CASE Pick
    <2> DEFINE freed == Prunable(task_table, current)
    <2>1. current = cpu /\ Booted
      BY <1>3 DEF Pick, At, Inv, PlaceInv, BootInv, SchedLabels
    <2>2. Boot \notin freed
      BY <1>0, <2>1, InvTop DEF Prunable, Inv, DeadInv, BootInv, ShapeInv, OwnLabels, BootLabels
    <2>3. freed \subseteq old
      BY <2>2 DEF Prunable, Owned
    <2>4. new = old \ freed
      BY <1>3, <2>2 DEF Pick, Prune, Owned
    <2>5. freeStacks' = freeStacks + Cardinality(freed)
      BY <1>3 DEF Pick
    <2> HIDE DEF freed, old, new
    <2>6. IsFiniteSet(freed) /\ Cardinality(freed) \in Nat
      BY <1>0, <2>3, FS_Subset, FS_CardinalityType
    <2>7. old \cap freed = freed
      BY <2>3
    <2>8. Cardinality(old \ freed) = Cardinality(old) - Cardinality(old \cap freed)
      BY <1>0, FS_Difference
    <2>9. Cardinality(new) = Cardinality(old) - Cardinality(freed)
      BY <2>4, <2>7, <2>8
    <2>10. \A a, b, c \in Nat : (a + c) + (b - c) = a + b
      OBVIOUS
    <2>. QED
      BY <1>0, <2>5, <2>6, <2>9, <2>10
  <1>4. CASE InitSched \/ Spawn
    <2>1. PICK n \in Slots \ {Boot} :
             /\ task_table[n] = "None" /\ task_table'[n] = "Ready"
             /\ \A s \in Slots \ {Boot, n} : task_table'[s] = task_table[s]
             /\ freeStacks' = freeStacks - 1
      <3>1. CASE InitSched
        <4>1. Here.at = "boot" /\ stack[cpu][1].at = "boot"
          BY <3>1, InvTop DEF InitSched, At, TaskLabels, BootLabels
        <4>2. ~Booted
          BY <4>1, InvTop DEF OwnLabels, Inv, BootInv
        <4>3. task_table[Idle] = "None"
          BY <1>0, <4>2 DEF Inv, BootInv
        <4>. QED
          BY <1>0, <3>1, <4>3 DEF InitSched, Inv, TypeInv, Tables
      <3>2. CASE Spawn
        <4>1. PICK n : n = FreeId(task_table)
          OBVIOUS
        <4>2. n \in FreeSlots(task_table)
          BY <3>2, <4>1, FreeIdIsFree DEF Spawn
        <4>3. Here.at = "spawn" /\ stack[cpu][1].at = "spawn"
          BY <3>2, InvTop DEF Spawn, At, TaskLabels, BootLabels
        <4>4. cpu = Boot
          BY <4>3, InvTop DEF OwnLabels
        <4>5. Booted
          BY <4>3, <4>4 DEF Inv, BootInv
        <4>6. n \in Slots \ {Boot} /\ task_table[n] = "None"
          BY <4>2, <4>5 DEF FreeSlots, Booted
        <4>. QED
          BY <3>2, <4>1, <4>6 DEF Spawn, Inv, TypeInv, Tables
      <3>. QED
        BY <1>4, <3>1, <3>2
    <2>2. n \notin old /\ new = old \cup {n}
      BY <2>1 DEF Owned
    <2> HIDE DEF old, new
    <2>3. Cardinality(new) = Cardinality(old) + 1
      BY <1>0, <2>2, FS_AddElement
    <2>. QED
      BY <1>0, <2>1, <2>3
  <1>. QED
    BY <1>2, <1>3, <1>4, MostSettle

\* No task stack leaks and none is freed twice (sched/mod.rs prune and spawn,
\* kernel/task.rs).
THEOREM StacksAccountedHolds ==
    ASSUME ~EarlyTick
    PROVE  Spec => []StacksAccounted
  <1>1. Init => StacksAccounted
    <2> SUFFICES ASSUME Init PROVE StacksAccounted
      OBVIOUS
    <2>1. Owned(task_table) = {} /\ freeStacks = HeapStacks
      BY DEF Init, Owned
    <2>. QED
      BY <2>1, AccountedIsOwned, FS_EmptySet, HeapAssumption
  <1>2. Inv /\ StacksAccounted /\ [Next]_vars => StacksAccounted'
    BY AccountedStep
  <1>. QED
    BY <1>1, <1>2, KernelInvariant, PTL DEF Spec
-------------------------------------------------------------------------------
(* TypeOK                                                                   *)

\* The part of TypeOK that KernelInvariant does not need.
DataInv ==
    /\ spawned \in 0 .. Spawns
    /\ buf \in Rings(0 .. MaxBytes) /\ Contents(buf) \in Seq(1 .. MaxBytes)
    /\ got \in Seq(1 .. MaxBytes)
    /\ uartRaw \in BOOLEAN
    /\ fifo \in Seq(1 .. MaxBytes) /\ Len(fifo) <= FifoSize
    /\ nextByte \in 1 .. MaxBytes + 1

LEMMA Queues ==
    ASSUME NEW S, NEW q \in Seq(S)
    PROVE  /\ \A b \in S : Append(q, b) \in Seq(S) /\ Len(Append(q, b)) = Len(q) + 1
           /\ q # <<>> => Head(q) \in S /\ Tail(q) \in Seq(S) /\ Len(Tail(q)) = Len(q) - 1
  BY AppendProperties, HeadTailProperties

LEMMA DataStep ==
    ASSUME DataInv, [Next]_vars
    PROVE  DataInv'
  <1>. USE DEF sched, input, core, devices
  <1>1. CASE Receive
    <2>1. nextByte \in 1 .. MaxBytes /\ nextByte' \in 1 .. MaxBytes + 1
      BY <1>1, InputAssumption DEF Receive, DataInv
    <2>2. fifo' \in Seq(1 .. MaxBytes) /\ Len(fifo') <= FifoSize
      <3>1. CASE Len(fifo) < FifoSize
        <4>1. fifo' = Append(fifo, nextByte)
          BY <1>1, <3>1 DEF Receive
        <4>2. Len(fifo) \in Nat
          BY DEF DataInv
        <4>. QED
          BY <2>1, <3>1, <4>1, <4>2, Queues, InputAssumption DEF DataInv
      <3>2. CASE ~(Len(fifo) < FifoSize)
        BY <1>1, <3>2 DEF Receive, DataInv
      <3>. QED
        BY <3>1, <3>2
    <2>3. uartRaw' \in BOOLEAN
      BY <1>1 DEF Receive
    <2>. QED
      BY <1>1, <2>1, <2>2, <2>3 DEF Receive, DataInv
  <1>2. CASE DrainByte
    <2>1. Head(fifo) \in 1 .. MaxBytes /\ fifo' \in Seq(1 .. MaxBytes) /\ Len(fifo') = Len(fifo) - 1
      BY <1>2, Queues DEF DrainByte, DataInv
    <2>2. Len(fifo') <= FifoSize
      <3>1. Len(fifo) \in Nat
        BY DEF DataInv
      <3>. QED
        BY <2>1, <3>1, InputAssumption DEF DataInv
    <2>3. buf' \in Rings(0 .. MaxBytes) /\ Contents(buf') \in Seq(1 .. MaxBytes)
      <3>1. buf' = RingPush(buf, Head(fifo)) /\ Head(fifo) \in 0 .. MaxBytes
        BY <1>2, <2>1 DEF DrainByte
      <3>2. Append(Contents(buf), Head(fifo)) \in Seq(1 .. MaxBytes)
        BY <2>1, Queues DEF DataInv
      <3>. QED
        BY <3>1, <3>2, PushAppends DEF DataInv
    <2>4. uartRaw' \in BOOLEAN
      BY <1>2 DEF DrainByte
    <2>. QED
      BY <1>2, <2>1, <2>2, <2>3, <2>4 DEF DrainByte, DataInv
  <1>3. CASE PopByte
    <2>1. /\ buf' \in Rings(0 .. MaxBytes) /\ Contents(buf) # <<>>
          /\ RingFirst(buf) = Head(Contents(buf)) /\ Contents(buf') = Tail(Contents(buf))
      BY <1>3, PopTakesFirst DEF PopByte, DataInv
    <2>2. RingFirst(buf) \in 1 .. MaxBytes /\ Contents(buf') \in Seq(1 .. MaxBytes)
      BY <2>1, Queues DEF DataInv
    <2>3. got' \in Seq(1 .. MaxBytes)
      BY <1>3, <2>2, Queues DEF PopByte, DataInv
    <2>. QED
      BY <1>3, <2>1, <2>2, <2>3 DEF PopByte, DataInv
  <1>4. CASE Spawn
    <2>1. spawned' \in 0 .. Spawns
      BY <1>4, SpawnsAssumption DEF Spawn, DataInv
    <2>. QED
      BY <1>4, <2>1 DEF Spawn, DataInv
  <1>5. CASE HandleUart
    BY <1>5 DEF HandleUart, DataInv
  <1>6. CASE UNCHANGED <<spawned, buf, got, uartRaw, fifo, nextByte>>
    BY <1>6 DEF DataInv
  <1>7. CASE TaskStep \/ Finish \/ TakeIrq \/ TimerFire \/ UNCHANGED vars
    BY <1>4, <1>6, <1>7 DEF TaskStep, InitSched, SpawnFails, Started, Getc, MarkDead, ExitSchedule,
                      Finish, TakeIrq, TimerFire, vars
  <1>8. CASE MaskedStep
    BY <1>2, <1>3, <1>5, <1>6, <1>8
       DEF MaskedStep, Acknowledge, AcknowledgeSpurious, HandleTimer, DrainDone, WakeAll,
           EndOfInterrupt, Preempt, Eret, Pick, Switch, Return, Trampoline, Prepare, PopEmpty,
           FinishWait, GetcAgain
  <1>. QED
    BY <1>1, <1>7, <1>8 DEF Next

LEMMA DataInvariant == Spec => []DataInv
  <1>1. Init => DataInv
    <2> SUFFICES ASSUME Init PROVE DataInv
      OBVIOUS
    <2>1. <<>> \in Seq(1 .. MaxBytes) /\ Len(<<>>) = 0
      OBVIOUS
    <2>2. /\ 0 \in 0 .. Spawns /\ 1 \in 1 .. MaxBytes + 1 /\ 0 <= FifoSize
          /\ 0 \in 0 .. MaxBytes
      BY SpawnsAssumption, InputAssumption
    <2>3. buf \in Rings(0 .. MaxBytes) /\ Contents(buf) = <<>>
      BY <2>2, NewIsEmpty DEF Init
    <2>. QED
      BY <2>1, <2>2, <2>3 DEF Init, DataInv
  <1>2. DataInv /\ [Next]_vars => DataInv'
    BY DataStep
  <1>. QED
    BY <1>1, <1>2, PTL DEF Spec

\* Every variable holds a value of its kind, whatever the constants.
THEOREM TypeOKHolds ==
    ASSUME ~EarlyTick
    PROVE  Spec => []TypeOK
  <1>1. Inv /\ DataInv /\ StacksAccounted => TypeOK
    <2> SUFFICES ASSUME Inv, DataInv, StacksAccounted PROVE TypeOK
      OBVIOUS
    <2>1. freeStacks \in 0 .. HeapStacks
      BY AccountedIsOwned, OwnedIsFinite, HeapAssumption DEF Inv, TypeInv
    <2>. QED
      BY <2>1 DEF TypeOK, Inv, TypeInv, DataInv
  <1>. QED
    BY <1>1, DataInvariant, KernelInvariant, StacksAccountedHolds, PTL
-------------------------------------------------------------------------------
(* WorkConserving                                                           *)

SomeReady == \E s \in Slots \ {Idle} : task_table[s] = "Ready"

\* While the idle task has the CPU a Ready task is one a handler has just woken,
\* and the request for its turn is still there to be seen by preempt.
IdleInv ==
    /\ cpu = Idle => /\ Here.at \in {"trampoline", "wfi", "ack", "eret", "return"} => ~SomeReady
                     /\ Here.at \notin {"pick", "switch"} => (SomeReady => need_reschedule)
    /\ Here.at = "switch" /\ Here.to = Idle => ~SomeReady

\* next_idx leaves no Ready task out.
LEMMA NextIdxIsFair ==
    ASSUME NEW table \in Tables, NEW c \in Slots, NextIdx(table, c) = Idle
    PROVE  \A s \in Slots \ {Idle} : table[s] # "Ready"
  <1> DEFINE hits == {i \in 0 .. N - 1 : Runnable(table, Scan(c, i))}
             first == CHOOSE i \in hits : \A j \in hits : i <= j
  <1>1. hits = {}
    <2>1. SUFFICES ASSUME hits # {} PROVE FALSE
      OBVIOUS
    <2>2. hits \in SUBSET Nat
      BY NAssumption
    <2>3. \E i \in hits : \A j \in hits : i <= j
      BY <2>1, <2>2, LeastOfNats
    <2>4. first \in hits
      BY <2>3
    <2>5. NextIdx(table, c) = Scan(c, first)
      BY <2>1 DEF NextIdx
    <2>. QED
      BY <2>4, <2>5 DEF Runnable
  <1>2. ASSUME NEW s \in Slots PROVE \E i \in 0 .. N - 1 : Scan(c, i) = s
    <2>1. CASE s > c
      <3>1. s - c - 1 \in 0 .. N - 1 /\ c + (s - c - 1) + 1 = s
        BY <2>1, NAssumption DEF Slots
      <3>2. s % N = s
        BY NAssumption DEF Slots
      <3>. QED
        BY <3>1, <3>2 DEF Scan
    <2>2. CASE ~(s > c)
      <3>1. s + N - c - 1 \in 0 .. N - 1 /\ c + (s + N - c - 1) + 1 = s + N
        BY <2>2, NAssumption DEF Slots
      <3>2. (s + N) % N = s
        BY NAssumption DEF Slots
      <3>. QED
        BY <3>1, <3>2 DEF Scan
    <2>. QED
      BY <2>1, <2>2
  <1>. QED
    BY <1>1, <1>2 DEF Runnable

\* Only where the table or the CPU changes hands can IdleInv's second half change.
LEMMA IdleStep ==
    ASSUME Inv, Inv', IdleInv, [Next]_vars
    PROVE  IdleInv'
  <1>. USE DEF sched, input, core, devices, At
  <1>0. /\ "pick" \in Labels /\ "eret" \in Labels /\ "eoi" \in Labels /\ "drain" \in Labels /\ "wake" \in Labels /\ "preempt" \in Labels
        /\ Idle \in Slots /\ cpu \in Slots /\ Boot # Idle /\ Here.at \in Labels
        /\ cpu = Idle /\ Here.at \in TaskLabels => Here.at \in {"trampoline", "wfi"}
        /\ cpu = Idle => Here.at \notin GetcLabels
    BY InvTop, GetcIsBoot, NAssumption
       DEF Labels, IrqLabels, SchedLabels, Slots, Boot, Idle, OwnLabels, Frames
  <1>1. ASSUME UNCHANGED <<cpu, current>>, Here.at # "switch" PROVE Here'.at # "switch"
    BY <1>1 DEF Inv, PlaceInv
  <1>2. CASE Pick
    <2>1. /\ current = cpu /\ cpu' = cpu /\ cpu \in Slots
          /\ task_table' = Prune(task_table, current) /\ current' = NextIdx(task_table', current)
          /\ task_table' \in Tables
      BY <1>2 DEF Pick, Inv, PlaceInv, TypeInv
    <2>2. current' = Idle => ~SomeReady'
      BY <2>1, NextIdxIsFair DEF SomeReady
    <2>3. current' # cpu' => Here'.at = "switch"
      BY DEF Inv, PlaceInv
    <2>4. Here'.at = "switch" => Here'.to = current'
      BY DEF Inv, PlaceInv
    <2>. QED
      BY <2>2, <2>3, <2>4 DEF IdleInv
  <1>3. CASE Switch
    <2>1. Here.to = current /\ cpu' = current /\ current' = current
      BY <1>3 DEF Switch, Inv, PlaceInv, TypeInv
    <2>2. Here'.at # "switch"
      BY <2>1 DEF Inv, PlaceInv
    <2>3. SomeReady' = SomeReady
      BY <1>3 DEF Switch, SomeReady
    <2>. QED
      BY <1>3, <2>1, <2>2, <2>3 DEF Switch, IdleInv
  <1>4. CASE TimerFire \/ Receive \/ UNCHANGED vars
    BY <1>4 DEF TimerFire, Receive, vars, IdleInv, SomeReady, Here
  <1>5. CASE HandleTimer
    <2>1. At("eoi")'
      <3>1. task_table[current] # "None"
        BY <1>5, InvTop DEF HandleTimer, Inv, BootInv, PlaceInv
      <3>. QED
        BY <1>0, <1>5, <3>1, ThenAt DEF HandleTimer
    <2>. QED
      BY <1>5, <2>1 DEF HandleTimer, IdleInv
  <1>6. CASE HandleUart \/ DrainByte \/ DrainDone \/ EndOfInterrupt
    <2>1. PICK l \in {"drain", "wake", "eoi", "preempt"} : stack' = GoTo(l)
      BY <1>6 DEF HandleUart, DrainByte, DrainDone, EndOfInterrupt
    <2>2. cpu' = cpu /\ l \in Labels
      BY <1>0, <1>6 DEF HandleUart, DrainByte, DrainDone, EndOfInterrupt
    <2>3. Here'.at = l
      BY <2>1, <2>2, ThenAt
    <2>. QED
      BY <1>6, <2>3 DEF HandleUart, DrainByte, DrainDone, EndOfInterrupt, IdleInv, SomeReady
  <1>7. CASE WakeAll
    <2>1. stack' = GoTo("drain")
      BY <1>7 DEF WakeAll, Inv, WaitInv, WaitersAreBlocked
    <2>2. At("drain")'
      BY <1>0, <1>7, <2>1, ThenAt DEF WakeAll
    <2>3. CASE waiters = {}
      <3>1. SomeReady' => SomeReady
        BY <1>7, <2>3 DEF WakeAll, SomeReady, Inv, TypeInv, Tables
      <3>. QED
        BY <1>7, <2>2, <3>1 DEF WakeAll, IdleInv
    <2>4. CASE waiters # {}
      BY <1>7, <2>2, <2>4 DEF WakeAll, IdleInv
    <2>. QED
      BY <2>3, <2>4
  \* The steps that only go somewhere else.
  <1>8. ASSUME UNCHANGED <<cpu, current, task_table>>, Here.at # "switch",
               cpu = Idle => ~SomeReady
        PROVE  IdleInv'
    BY <1>1, <1>8 DEF IdleInv, SomeReady
  <1>9. CASE Preempt
    <2>1. CASE need_reschedule
      <3>1. masked' /\ cpu' = cpu /\ current' = current
        BY <1>9, <2>1 DEF Preempt, Enter
      <3>2. Here'.at = "pick"
        BY <1>0, <1>9, <2>1, EnteredAt DEF Preempt
      <3>. QED
        BY <3>2 DEF IdleInv
    <2>2. CASE ~need_reschedule
      BY <1>8, <1>9, <2>2 DEF Preempt, IdleInv
    <2>. QED
      BY <2>1, <2>2
  <1>10. CASE \/ \E i \in {"timer", "uart"} : Acknowledge(i)
              \/ AcknowledgeSpurious \/ Eret \/ Return \/ Trampoline
    BY <1>8, <1>10 DEF Acknowledge, AcknowledgeSpurious, Eret, Return, Trampoline, IdleInv
  <1>11. CASE TakeIrq
    <2>1. Here.at \notin MaskedLabels
      BY <1>11 DEF TakeIrq, Inv, MaskInv
    <2>2. Here.at \in TaskLabels /\ Here.at # "switch"
      BY <1>0, <2>1, LabelKinds DEF MaskedLabels, SchedLabels
    <2>. QED
      BY <1>0, <1>8, <1>11, <2>2 DEF TakeIrq, IdleInv
  \* The idle task makes no other step.
  <1>12. CASE Prepare \/ PopByte \/ PopEmpty \/ FinishWait \/ GetcAgain \/ TaskStep \/ Finish
    <2>1. Here.at \in GetcLabels \cup (TaskLabels \ {"trampoline", "wfi"})
      BY <1>12 DEF Prepare, PopByte, PopEmpty, FinishWait, GetcAgain, TaskStep, Finish, InitSched,
                   Spawn, SpawnFails, Started, Getc, MarkDead, ExitSchedule, GetcLabels,
                   TaskLabels, BootLabels
    <2>2. cpu # Idle /\ Here.at # "switch"
      BY <1>0, <2>1 DEF GetcLabels, TaskLabels, BootLabels
    <2>3. UNCHANGED <<cpu, current>>
      BY <1>12 DEF Prepare, PopByte, PopEmpty, FinishWait, GetcAgain, TaskStep, Finish, InitSched,
                   Spawn, SpawnFails, Started, Getc, MarkDead, ExitSchedule
    <2>. QED
      BY <1>1, <2>2, <2>3 DEF IdleInv
  <1>. QED
    BY <1>2, <1>3, <1>4, <1>5, <1>6, <1>7, <1>9, <1>10, <1>11, <1>12 DEF Next, MaskedStep

\* The CPU idles only when no other task is Ready: next_idx misses none, and a
\* wake in a handler is followed by that handler's preempt.
THEOREM WorkConservingHolds ==
    ASSUME ~EarlyTick
    PROVE  Spec => []WorkConserving
  <1>1. Init => IdleInv
    <2> SUFFICES ASSUME Init PROVE IdleInv
      OBVIOUS
    <2>1. BootInv /\ ~Booted
      BY InitInv, NAssumption DEF Init, Inv, Booted, Slots, Boot
    <2>. QED
      BY <2>1 DEF IdleInv, BootInv, Boot, Idle, SchedLabels
  <1>2. Inv /\ Inv' /\ IdleInv /\ [Next]_vars => IdleInv'
    BY IdleStep
  <1>3. Inv /\ IdleInv => WorkConserving
    <2> SUFFICES ASSUME Inv, IdleInv, At("wfi") PROVE ~SomeReady
      BY DEF WorkConserving, SomeReady
    <2>1. Here.at = "wfi" /\ stack[cpu][1].at = "wfi"
      BY InvTop DEF At, TaskLabels
    <2>2. cpu = Idle
      BY <2>1, InvTop DEF OwnLabels, BootLabels
    <2>. QED
      BY <2>1, <2>2 DEF IdleInv
  <1>. QED
    BY <1>1, <1>2, <1>3, KernelInvariant, PTL DEF Spec
-------------------------------------------------------------------------------
(* The keyboard's path                                                     *)

\* With interrupts masked, none is taken.
LEMMA MaskedTakesNone ==
    ASSUME Inv, TakeIrq
    PROVE  Here.at \notin MaskedLabels
  BY DEF Inv, MaskInv, TakeIrq

\* The steps other than getc's and the drain's are not at their labels, and
\* leave the devices' and the buffer's bytes where they are.
Elsewhere ==
    \/ \E i \in {"timer", "uart"} : Acknowledge(i)
    \/ AcknowledgeSpurious \/ HandleTimer \/ EndOfInterrupt \/ Preempt \/ Eret
    \/ Pick \/ Switch \/ Return \/ Trampoline \/ GetcAgain
    \/ TaskStep \/ Finish \/ TakeIrq

LEMMA ElsewhereAway ==
    ASSUME Inv, Elsewhere
    PROVE  /\ UNCHANGED <<buf, fifo, got, nextByte, waiters>>
           /\ Here.at \notin {"pop", "finish", "wake", "drain", "uart", "prepare"}
           /\ uartRaw' = uartRaw
  <1>. USE DEF sched, input, core, devices, At
  <1>1. CASE TakeIrq
    BY <1>1, MaskedTakesNone DEF TakeIrq, MaskedLabels, IrqLabels, GetcLabels
  <1>2. CASE TaskStep
    BY <1>2 DEF TaskStep, InitSched, Spawn, SpawnFails, Started, Getc, MarkDead, ExitSchedule
  <1>3. CASE \E i \in {"timer", "uart"} : Acknowledge(i)
    BY <1>3 DEF Acknowledge
  <1>4. CASE AcknowledgeSpurious \/ HandleTimer \/ EndOfInterrupt \/ Preempt \/ Eret \/ Finish
    BY <1>4 DEF AcknowledgeSpurious, HandleTimer, EndOfInterrupt, Preempt, Eret, Finish
  <1>5. CASE Pick
    BY <1>5 DEF Pick
  <1>6. CASE Switch \/ Return \/ Trampoline \/ GetcAgain
    BY <1>6 DEF Switch, Return, Trampoline, GetcAgain
  <1>. QED
    BY <1>1, <1>2, <1>3, <1>4, <1>5, <1>6 DEF Elsewhere

\* What is left of Next.
LEMMA NextCases ==
    ASSUME [Next]_vars
    PROVE  \/ Elsewhere
           \/ HandleUart \/ DrainByte \/ DrainDone \/ WakeAll
           \/ Prepare \/ PopByte \/ PopEmpty \/ FinishWait
           \/ TimerFire \/ Receive \/ UNCHANGED vars
  BY DEF Next, MaskedStep, Elsewhere

-------------------------------------------------------------------------------
(* NoStrandedByte                                                           *)

LEMMA StrandedStep ==
    ASSUME Inv, NoStrandedByte, [Next]_vars
    PROVE  NoStrandedByte'
  <1>. USE DEF sched, input, core, devices
  <1>0. "drain" \in Labels /\ "wake" \in Labels
    BY DEF Labels, IrqLabels
  <1>1. CASE Elsewhere
    BY <1>1, ElsewhereAway DEF NoStrandedByte, At
  <1>2. CASE HandleUart
    <2>1. At("drain")'
      BY <1>0, <1>2, ThenAt DEF HandleUart
    <2>. QED
      BY <2>1 DEF NoStrandedByte
  <1>3. CASE DrainByte
    <2>1. At("wake")'
      BY <1>0, <1>3, ThenAt DEF DrainByte
    <2>. QED
      BY <2>1 DEF NoStrandedByte
  <1>4. CASE DrainDone
    BY <1>4 DEF DrainDone, NoStrandedByte
  <1>5. CASE WakeAll
    <2>1. stack' = GoTo("drain")
      BY <1>5 DEF WakeAll, Inv, WaitInv, WaitersAreBlocked
    <2>2. At("drain")'
      BY <1>0, <1>5, <2>1, ThenAt DEF WakeAll
    <2>. QED
      BY <2>2 DEF NoStrandedByte
  <1>6. CASE Prepare \/ PopByte \/ PopEmpty \/ FinishWait
    BY <1>6 DEF Prepare, PopByte, PopEmpty, FinishWait, NoStrandedByte, At
  <1>7. CASE Receive
    <2>1. At("drain")' = At("drain") /\ At("wake")' = At("wake")
      BY <1>7 DEF Receive, At, Here
    <2>. QED
      BY <1>7, <2>1 DEF Receive, NoStrandedByte
  <1>8. CASE TimerFire \/ UNCHANGED vars
    BY <1>8 DEF TimerFire, vars, NoStrandedByte, At, Here
  <1>. QED
    BY <1>1, <1>2, <1>3, <1>4, <1>5, <1>6, <1>7, <1>8, NextCases

\* A byte in the UART's FIFO has the interrupt asserted or a drain still to
\* come: pl011::handle_interrupt clears first and drains to the end.
THEOREM NoStrandedByteHolds ==
    ASSUME ~EarlyTick
    PROVE  Spec => []NoStrandedByte
  <1>1. Init => NoStrandedByte
    BY DEF Init, NoStrandedByte
  <1>2. Inv /\ NoStrandedByte /\ [Next]_vars => NoStrandedByte'
    BY StrandedStep
  <1>. QED
    BY <1>1, <1>2, KernelInvariant, PTL DEF Spec
-------------------------------------------------------------------------------
(* NoLostWakeup                                                             *)

\* Only prepare blocks a task.
LEMMA StaysUnblocked ==
    ASSUME Inv, Elsewhere, task_table'[Boot] = "Blocked"
    PROVE  task_table[Boot] = "Blocked"
  <1>. USE DEF sched, input, core, devices
  <1>0. Boot \in Slots /\ task_table \in Tables
    BY NAssumption DEF Slots, Boot, Inv, TypeInv
  <1>1. CASE Pick
    BY <1>0, <1>1 DEF Pick, Prune
  <1>2. CASE TaskStep
    <2>1. CASE InitSched \/ Spawn \/ MarkDead
      <3>1. PICK T \in SUBSET {"Ready", "Dead"} :
               \A s \in Slots : task_table'[s] \in T \/ task_table'[s] = task_table[s]
        BY <1>0, <2>1 DEF InitSched, Spawn, MarkDead, Tables
      <3>. QED
        BY <1>0, <3>1
    <2>. QED
      BY <1>2, <2>1 DEF TaskStep, SpawnFails, Started, Getc, ExitSchedule
  <1>3. CASE ~Pick /\ ~TaskStep
    BY <1>3 DEF Elsewhere, Acknowledge, AcknowledgeSpurious, HandleTimer, EndOfInterrupt, Preempt,
                Eret, Switch, Return, Trampoline, GetcAgain, Finish, TakeIrq
  <1>. QED
    BY <1>1, <1>2, <1>3

LEMMA WakeupStep ==
    ASSUME Inv, NoLostWakeup, [Next]_vars
    PROVE  NoLostWakeup'
  <1>. USE DEF sched, input, core, devices
  <1>0. /\ "pop" \in Labels /\ "wake" \in Labels /\ "finish" \in Labels
        /\ Boot \in Slots /\ task_table \in Tables
    BY NAssumption DEF Labels, IrqLabels, GetcLabels, Slots, Boot, Inv, TypeInv
  <1>1. CASE Elsewhere
    BY <1>1, ElsewhereAway, StaysUnblocked DEF NoLostWakeup, At
  <1>2. CASE HandleUart \/ DrainDone
    BY <1>2 DEF HandleUart, DrainDone, NoLostWakeup, At
  <1>3. CASE DrainByte
    <2>1. At("wake")'
      BY <1>0, <1>3, ThenAt DEF DrainByte
    <2>. QED
      BY <2>1 DEF NoLostWakeup
  <1>4. CASE WakeAll
    <2>1. task_table'[Boot] # "Blocked"
      BY <1>0, <1>4 DEF WakeAll, Inv, WaitInv, WaitersAreBlocked
    <2>. QED
      BY <2>1 DEF NoLostWakeup
  <1>5. CASE Prepare
    <2>1. At("pop")'
      BY <1>0, <1>5, ThenAt DEF Prepare
    <2>. QED
      BY <2>1 DEF NoLostWakeup
  <1>6. CASE PopByte
    <2>1. At("finish")'
      BY <1>0, <1>6, ThenAt DEF PopByte
    <2>. QED
      BY <2>1 DEF NoLostWakeup
  <1>7. CASE PopEmpty
    BY <1>7 DEF PopEmpty, NoLostWakeup
  <1>8. CASE FinishWait
    <2>1. current = Boot
      BY <1>8, GetcIsBoot DEF FinishWait, At, GetcLabels
    <2>2. task_table'[Boot] = "Ready"
      BY <1>0, <1>8, <2>1 DEF FinishWait, Tables
    <2>. QED
      BY <2>2 DEF NoLostWakeup
  <1>9. CASE TimerFire \/ Receive \/ UNCHANGED vars
    BY <1>9 DEF TimerFire, Receive, vars, NoLostWakeup, At, Here
  <1>. QED
    BY <1>1, <1>2, <1>3, <1>4, <1>5, <1>6, <1>7, <1>8, <1>9, NextCases

\* getc never sleeps on a buffered byte: it joins the queue before it looks
\* (tty/input.rs), and the handler wakes the queue after it pushes.
THEOREM NoLostWakeupHolds ==
    ASSUME ~EarlyTick
    PROVE  Spec => []NoLostWakeup
  <1>1. Init => NoLostWakeup
    BY NAssumption DEF Init, NoLostWakeup, Slots, Boot
  <1>2. Inv /\ NoLostWakeup /\ [Next]_vars => NoLostWakeup'
    BY WakeupStep
  <1>. QED
    BY <1>1, <1>2, KernelInvariant, PTL DEF Spec
-------------------------------------------------------------------------------
(* The channel                                                              *)

LEMMA ChannelStep ==
    ASSUME Inv, DataInv, [Next]_vars
    PROVE  [Channel!Next]_(Channel!vars)
  <1>. USE DEF sched, input, core, devices, Channel!vars
  <1>1. CASE Elsewhere
    BY <1>1, ElsewhereAway
  <1>2. CASE HandleUart \/ DrainDone \/ WakeAll \/ Prepare \/ PopEmpty \/ FinishWait \/ TimerFire
             \/ UNCHANGED vars
    BY <1>2 DEF HandleUart, DrainDone, WakeAll, Prepare, PopEmpty, FinishWait, TimerFire, vars
  <1>3. CASE DrainByte
    <2>1. Head(fifo) \in 0 .. MaxBytes
      <3>1. fifo \in Seq(1 .. MaxBytes) /\ fifo # <<>>
        BY <1>3 DEF DrainByte, DataInv
      <3>2. Head(fifo) \in 1 .. MaxBytes
        BY <3>1, Queues
      <3>. QED
        BY <3>2, InputAssumption
    <2>2. Contents(buf') = Channel!Put(Contents(buf), Head(fifo), BufSize)
      BY <1>3, <2>1, PushAppends DEF DrainByte, DataInv, Channel!Put
    <2>. QED
      BY <1>3, <2>2 DEF DrainByte, Channel!Next, Channel!Accept
  <1>4. CASE PopByte
    <2>1. /\ Contents(buf) # <<>> /\ Contents(buf') = Tail(Contents(buf))
          /\ got' = Append(got, Head(Contents(buf)))
      BY <1>4, PopTakesFirst DEF PopByte, DataInv
    <2>. QED
      BY <1>4, <2>1 DEF PopByte, Channel!Next, Channel!Take
  <1>5. CASE Receive
    BY <1>5 DEF Receive, Channel!Next, Channel!Arrive, Channel!Put
  <1>. QED
    BY <1>1, <1>2, <1>3, <1>4, <1>5, NextCases

\* From the wire to getc the kernel takes only the channel's steps: bytes come
\* in order, once each, and are lost only where a queue is full.  (That they do
\* come is liveness, which the run KernelLiveness checks.)
THEOREM ImplementsChannelSteps ==
    ASSUME ~EarlyTick
    PROVE  Spec => Channel!Init /\ [][Channel!Next]_(Channel!vars)
  <1>1. Init => Channel!Init
    <2>1. 0 \in 0 .. MaxBytes
      BY InputAssumption
    <2>. QED
      BY <2>1, NewIsEmpty DEF Init, Channel!Init
  <1>2. Inv /\ DataInv /\ [Next]_vars => [Channel!Next]_(Channel!vars)
    BY ChannelStep
  <1>. QED
    BY <1>1, <1>2, KernelInvariant, DataInvariant, PTL DEF Spec
==============================================================================
