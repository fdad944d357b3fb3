--------------------------------- MODULE Boot ---------------------------------
(***************************************************************************)
(* kmain up to the first task (main.rs), with the registration and the     *)
(* dispatch of interrupts (kernel/irq.rs, drivers/gic.rs) and the bringing *)
(* up of the console (drivers/pl011.rs).  The blob the firmware passes is  *)
(* one of Blobs; the devices sit where it says, and may raise their lines  *)
(* from the moment they are set to.  What an interrupt does to the kernel  *)
(* beyond its handler is the business of Kernel.                           *)
(***************************************************************************)
EXTENDS DeviceTree

CONSTANTS
    Blobs,      \* the blobs, each with the board it describes
    IrqCount,   \* IRQ_COUNT, the handlers there is room for (64)
    Earlycon    \* EARLYCON_UART

ASSUME BootAssumption ==
    /\ IrqCount \in Nat /\ IrqCount <= Words
    /\ \A b \in Blobs : {b.board["uart intid"], b.board["timer"]} \subseteq Nat

VARIABLES
    dtb,        \* the blob the firmware passed
    pc,         \* where kmain is
    halted,     \* why it halted
    board,      \* the Board, once discovered
    console,    \* pl011::BASE
    ready,      \* the bases of the UARTs that init has brought up
    listening,  \* IMSC: the UART interrupts for what it receives
    routed,     \* the GIC is on
    handlers,   \* HANDLERS
    enabled,    \* ISENABLER: the lines that are let through
    live,       \* LIVE
    daif,       \* DAIF: interrupts are masked
    ticking,    \* the timer is running
    raised,     \* the devices whose line is high
    stray       \* history: an interrupt found no handler, or another device's

irq == <<handlers, enabled, live>>
device == <<console, ready, listening, routed, ticking>>
bootVars == <<dtb, pc, halted, board, device, irq, daif, raised, stray>>

NoBoard == <<>>

Described == dtb.board

\* The GIC's number for a device's line: where the hardware has it.
Line(d) == IF d = "uart" THEN Described["uart intid"] ELSE Described["timer"]

(* Faulty variants of definitions below, used by no specification. *)

\* the line is let through before there is a handler for it, or room for one
RegisterUnchecked(intid, handler) ==
    /\ enabled' = enabled \cup {intid}
    /\ handlers' = IF intid < IrqCount THEN [handlers EXCEPT ![intid] = handler] ELSE handlers

\* irq::register: refused once interrupts are live or past the table.
Register(intid, handler) ==
    IF ~live /\ intid < IrqCount
    THEN handlers' = [handlers EXCEPT ![intid] = handler] /\ enabled' = enabled \cup {intid}
    ELSE UNCHANGED <<handlers, enabled>>

Step(here, next) == pc = here /\ pc' = next

\* or_halt: the message goes out and the core stops.
Halt(reason) == pc' = "halted" /\ halted' = reason /\ UNCHANGED board
-------------------------------------------------------------------------------
(* kmain.                                                                  *)

\* uart().init() on the one address that is not from the tree.
InitEarlycon ==
    /\ Step("earlycon", "vectors")
    /\ ready' = ready \cup {console}
    /\ UNCHANGED <<dtb, halted, board, console, listening, routed, ticking, irq, daif, raised, stray>>

InstallVectors ==
    /\ Step("vectors", "discover")
    /\ UNCHANGED <<dtb, halted, board, device, irq, daif, raised, stray>>

\* platform::discover
Discover ==
    /\ pc = "discover"
    /\ \/ ~HasTree(dtb) /\ Halt("no tree")
       \/ /\ HasTree(dtb)
          /\ LET missing == FirstMissing(dtb)
             IN  \/ missing # "nothing" /\ Halt(missing)
                 \/ /\ missing = "nothing"
                    /\ pc' = "adopt" /\ board' = BoardOf(dtb) /\ UNCHANGED halted
    /\ UNCHANGED <<dtb, device, irq, daif, raised, stray>>

\* pl011::adopt: init masks the UART's interrupts and clears what is pending.
Adopt ==
    /\ Step("adopt", "gic")
    /\ console' = board["uart base"]
    /\ ready' = ready \cup {console'}
    /\ listening' = FALSE /\ raised' = raised \ {"uart"}
    /\ UNCHANGED <<dtb, halted, board, routed, ticking, irq, daif, stray>>

InitGic ==
    /\ Step("gic", "register")
    /\ routed' = TRUE
    /\ UNCHANGED <<dtb, halted, board, console, ready, listening, ticking, irq, daif, raised, stray>>

RegisterUart ==
    /\ Step("register", "listen")
    /\ Register(board["uart intid"], "uart")
    /\ UNCHANGED <<dtb, halted, board, device, live, daif, raised, stray>>

EnableUart ==
    /\ Step("listen", "time")
    /\ listening' = TRUE
    /\ UNCHANGED <<dtb, halted, board, console, ready, routed, ticking, irq, daif, raised, stray>>

\* time::init registers the timer's interrupt, then starts the timer.
RegisterTimer ==
    /\ Step("time", "start")
    /\ Register(board["timer"], "timer")
    /\ UNCHANGED <<dtb, halted, board, device, live, daif, raised, stray>>

StartTimer ==
    /\ Step("start", "live")
    /\ ticking' = TRUE
    /\ UNCHANGED <<dtb, halted, board, console, ready, listening, routed, irq, daif, raised, stray>>

\* irq::unmask, one store after the other.
GoLive ==
    /\ Step("live", "unmask")
    /\ live' = TRUE
    /\ UNCHANGED <<dtb, halted, board, device, handlers, enabled, daif, raised, stray>>

UnmaskAll ==
    /\ Step("unmask", "running")
    /\ daif' = FALSE
    /\ UNCHANGED <<dtb, halted, board, device, irq, raised, stray>>
-------------------------------------------------------------------------------
(* The devices, and the handler of interrupts.                             *)

\* A device raises its line: the UART when it listens, the timer when it runs.
Raise ==
    /\ \E d \in {"uart", "timer"} \ raised :
          /\ d = "uart" => listening
          /\ d = "timer" => ticking
          /\ raised' = raised \cup {d}
    /\ UNCHANGED <<dtb, pc, halted, board, device, irq, daif, stray>>

\* handle_interrupt, whole: the handler lowers the line of its own device; the
\* end of interrupt comes in any case, so that the next can be taken.  (With
\* nothing to acknowledge it returns at once.)
HandleInterrupt(d) ==
    /\ ~daif /\ routed
    /\ d \in raised /\ Line(d) \in enabled
    /\ LET handler == IF Line(d) < IrqCount THEN handlers[Line(d)] ELSE "none"
       IN  raised' = raised \ {handler} /\ stray' = (stray \/ handler # d)
    /\ UNCHANGED <<dtb, pc, halted, board, device, irq, daif>>
-------------------------------------------------------------------------------
InitBoot ==
    /\ dtb \in Blobs
    /\ pc = "earlycon" /\ halted = "no" /\ board = NoBoard
    /\ console = Earlycon /\ ready = {} /\ listening = FALSE
    /\ routed = FALSE /\ ticking = FALSE
    /\ handlers = [i \in 0 .. IrqCount - 1 |-> "none"] /\ enabled = {} /\ live = FALSE
    /\ daif = TRUE /\ raised = {} /\ stray = FALSE

Kmain ==
    \/ InitEarlycon \/ InstallVectors \/ Discover \/ Adopt \/ InitGic
    \/ RegisterUart \/ EnableUart \/ RegisterTimer \/ StartTimer \/ GoLive \/ UnmaskAll

NextBoot == Kmain \/ Raise \/ (\E d \in {"uart", "timer"} : HandleInterrupt(d))

\* The GIC signals what is raised and let through: handlers
\* are done long before their device raises its line again.
BootSpec ==
    /\ InitBoot /\ [][NextBoot]_bootVars
    /\ \A d \in {"uart", "timer"} : WF_bootVars(HandleInterrupt(d))
-------------------------------------------------------------------------------
(* What must hold.                                                         *)

\* The variables hold values of their kind (kernel/irq.rs, platform/board.rs).
BootTypes ==
    /\ handlers \in [0 .. IrqCount - 1 -> {"none", "uart", "timer"}]
    /\ enabled \subseteq 0 .. Words - 1 /\ raised \subseteq {"uart", "timer"}

\* Whatever the blob, kmain ends up with the very board it describes or halts,
\* and it halts for what the tree first lacks; of a blob cut short nothing is
\* made up.  The message for it goes to a UART that is up (platform::discover,
\* Board::discover, the iterators of dtb/structure.rs).
BoardIsTree ==
    /\ BootTypes
    /\ board # NoBoard => dtb.lacks = "nothing" /\ board = Described
    /\ pc = "halted" /\ dtb.whole => halted = dtb.lacks
    /\ pc # "earlycon" => console \in ready

\* Every interrupt finds the handler of the device that raised it, and every
\* device that the table has room for is served once kmain has unmasked; the
\* table does not change any more (irq::register, irq::handle_interrupt).
InterruptsServed ==
    /\ []~stray
    /\ [][live => UNCHANGED handlers]_bootVars
    /\ \A d \in {"uart", "timer"} :
          (d \in raised /\ pc = "running" /\ Line(d) < IrqCount) ~> d \notin raised

\* The document of the format in the repository (docs/dtb.md): a NOP stands for
\* what a tool has deleted, and every walker skips it.
NopsSkipped == pc = "halted" => dtb.lacks # "nothing"
===============================================================================
