---------------------------------- MODULE Time ---------------------------------
(***************************************************************************)
(* The heartbeat and sleep (kernel/time.rs) on the core's timer            *)
(* (arch/aarch64/timer.rs).  The counter runs by itself, at Frequency a    *)
(* second; the timer's line is high while the counter is not below the     *)
(* compare register.  Masked code, the handler included, may keep the      *)
(* interrupt waiting, and the counter goes on between any two steps of the *)
(* handler, so that rearm may find that deadlines have passed.             *)
(*                                                                         *)
(* The counter counts from timer::start.  An interrupt that is pending and *)
(* not masked is taken before anything else happens: the core needs a few  *)
(* instructions for it, far less than one count of this model.             *)
(***************************************************************************)
EXTENDS Naturals

CONSTANTS
    Frequency,   \* CNTFRQ_EL0, counts in a second
    Hz,          \* TIMER_HZ
    Nanos,       \* NANOSECONDS_PER_SECOND
    Durations,   \* what sleep is called with, in nanoseconds
    MaxLatency,  \* bound on how late masked code lets a deadline become
    MaxCount     \* bound on the counter

\* main.rs checks that the rate is not zero; that the counter is at least as
\* fast as the heartbeat nobody checks, and rearm would not end.
ASSUME TimeAssumption ==
    /\ Frequency \in Nat /\ Hz \in Nat \ {0} /\ Frequency >= Hz
    /\ Nanos \in Nat \ {0}
    /\ Durations \subseteq Nat
    /\ MaxLatency \in Nat /\ MaxCount \in Nat

\* The board's counter runs at 62.5 MHz, the heartbeat at 100 Hz.  With a rate
\* that does not divide the frequency, init rounds the interval down, ticks come
\* early, and a sleep of many of them ends before its time.
ASSUME RateAssumption == Frequency % Hz = 0

VARIABLES
    count,    \* CNTPCT_EL0
    compare,  \* CNTP_CVAL_EL0
    ticks,    \* KERNEL_TICKS
    core,     \* what runs: "run", "masked", or the handler at "rearm", "write", "tick"
    deadline, \* rearm's local
    sleeper   \* the call of sleep: how long, since when, until which tick

clockVars == <<count, compare, ticks, core, deadline, sleeper>>

Interval == Frequency \div Hz

DivCeil(n, d) == (n + d - 1) \div d

\* ticks_from
TicksFrom(duration, rate) ==
    (duration \div Nanos) * rate + DivCeil((duration % Nanos) * rate, Nanos)

Awake == [phase |-> "awake", duration |-> 0, from |-> 0, target |-> 0]

Pending == count >= compare

(* Faulty variants of definitions below, used by no specification. *)

\* the tick under way counts in full
TargetShort(start, duration) == start + TicksFrom(duration, Hz)

\* the next deadline is an interval from now
RearmNow == count

-------------------------------------------------------------------------------
\* The tick under way when sleep starts is partly spent: one more.
Target(start, duration) == start + TicksFrom(duration, Hz) + 1

\* Where rearm starts to count from.
RearmBase == compare

\* Time passes: up to the deadline while interrupts are unmasked, and up to
\* MaxLatency past it while they are not.
Elapse ==
    /\ count < MaxCount
    /\ IF core = "run" THEN ~Pending ELSE count < compare + MaxLatency
    /\ count' = count + 1
    /\ UNCHANGED <<compare, ticks, core, deadline, sleeper>>

\* Other code masks interrupts, or lets them come again.
MaskIrq ==
    /\ core = "run" /\ ~Pending
    /\ core' = "masked"
    /\ UNCHANGED <<count, compare, ticks, deadline, sleeper>>

UnmaskIrq ==
    /\ core = "masked"
    /\ core' = "run"
    /\ UNCHANGED <<count, compare, ticks, deadline, sleeper>>

\* handle_interrupt and the first line of rearm.
TimerInterrupt ==
    /\ core = "run" /\ Pending
    /\ deadline' = RearmBase
    /\ core' = "rearm"
    /\ UNCHANGED <<count, compare, ticks, sleeper>>

\* An iteration of rearm's loop.
Rearm ==
    /\ core = "rearm"
    /\ deadline' = deadline + Interval
    /\ core' = IF deadline' > count THEN "write" ELSE "rearm"
    /\ UNCHANGED <<count, compare, ticks, sleeper>>

WriteCompare ==
    /\ core = "write"
    /\ compare' = deadline
    /\ core' = "tick"
    /\ UNCHANGED <<count, ticks, deadline, sleeper>>

\* The rest of handle_interrupt.
Tick ==
    /\ core = "tick"
    /\ ticks' = ticks + 1
    /\ core' = "run"
    /\ UNCHANGED <<count, compare, deadline, sleeper>>

\* sleep up to its loop.
Sleep(duration) ==
    /\ core = "run" /\ ~Pending
    /\ sleeper.phase # "asleep"
    /\ sleeper' = [phase |-> "asleep", duration |-> duration, from |-> count,
                   target |-> Target(ticks, duration)]
    /\ UNCHANGED <<count, compare, ticks, core, deadline>>

\* wfi returned and the loop's condition fails.
Wake ==
    /\ core = "run" /\ ~Pending
    /\ sleeper.phase = "asleep"
    /\ ticks >= sleeper.target
    /\ sleeper' = [sleeper EXCEPT !.phase = "slept"]
    /\ UNCHANGED <<count, compare, ticks, core, deadline>>

\* What follows the sleep.
Resume ==
    /\ sleeper.phase = "slept"
    /\ sleeper' = Awake
    /\ UNCHANGED <<count, compare, ticks, core, deadline>>

\* timer::start, still with interrupts masked.
InitTime ==
    /\ count = 0
    /\ compare = Interval
    /\ ticks = 0
    /\ core = "masked"
    /\ deadline = 0
    /\ sleeper = Awake

NextTime ==
    \/ Elapse
    \/ MaskIrq
    \/ UnmaskIrq
    \/ TimerInterrupt
    \/ Rearm
    \/ WriteCompare
    \/ Tick
    \/ \E duration \in Durations : Sleep(duration)
    \/ Wake
    \/ Resume


TimeSpec == InitTime /\ [][NextTime]_clockVars

-------------------------------------------------------------------------------
(* Properties.                                                              *)

\* sleep returns no earlier than it promises, whatever part of a tick was spent
\* when it was called and however late the ticks are handled.  The promise is
\* in seconds, so it is compared in counts of the real frequency.
SleepsAtLeast ==
    sleeper.phase = "slept"
        => (count - sleeper.from) * Nanos >= sleeper.duration * Frequency

\* The heartbeat does not drift: however late the handler runs, every deadline
\* is a whole number of intervals after the first, and a deadline yields at
\* most one tick.
NoDrift ==
    /\ compare % Interval = 0
    /\ ticks * Interval <= count
===============================================================================
