-------------------------------- MODULE BootMC --------------------------------
(* Instances of Boot for TLC: blobs as a tool writes them, with words of two   *)
(* bytes.  The trees differ in their cell counts, in the order of their nodes, *)
(* in what they lack, and in decoys: a console one level too deep, and a       *)
(* second one behind the first.  A blob may be cut short at any byte, and have *)
(* one NOP at any place between tokens.                                        *)
EXTENDS Boot

Number(n) == <<n \div Byte, n % Byte>>

Padded(bytes) == bytes \o [i \in 1 .. (-Len(bytes)) % Cell |-> 0]

\* The strings block holds each property name at an offset of its own.
StringsBlock == <<1, 0, 2, 0, 3, 0, 4, 0, 5, 0, 6, 0, 7, 0>>

Property(name, value) ==
    Number(PROP) \o Number(Len(value)) \o Number(2 * (name[1] - 1)) \o Padded(value)

\* A node as the sequence of its tokens, with what follows each.
Node(name, properties, children) ==
    << Number(BEGIN_NODE) \o Padded(NulTerminated(name)) >>
    \o properties \o FlattenSeq(children) \o << Number(END_NODE) >>

\* A number in cells, and a list of regions.
Cells(n, count) == IF count = 2 THEN Number(0) \o Number(n) ELSE Number(n)

RegOf(regions, c) ==
    Property(Reg, FlattenSeq([i \in DOMAIN regions |->
                                 Cells(regions[i].base, c.address) \o Cells(regions[i].size, c.size)]))

Span(base) == [base |-> base, size |-> 1]

InterruptCells(kind, number) == Number(kind) \o Number(number) \o Number(4)

CompatibleWith(string) ==
    Property(Compatible, NulTerminated(<<15, 15, 15>>) \o NulTerminated(string))

(* A description: the cell counts, and whether the root declares them; the     *)
(* UART's interrupt; whether the children come in reverse; what is lacking.    *)

Root(d) ==
    IF d.declared THEN << Property(AddressCells, Number(d.cells.address)),
                          Property(SizeCells, Number(d.cells.size)) >>
                  ELSE << Property(Compatible, NulTerminated(<<15>>)) >>

UartNode(base, number, c) ==
    Node(<<9>>, << CompatibleWith(Uart), RegOf(<<Span(base)>>, c),
                   Property(Interrupts, InterruptCells(0, number)) >>, <<>>)

Children(d) ==
    LET c == d.cells
        Unless(what, property) == IF d.lacks = what THEN <<>> ELSE <<property>>
        memory == Node(<<8, 1>>, Unless("memory", Property(DeviceType, NulTerminated(Memory)))
                                 \o << RegOf(<<[base |-> 64, size |-> 100]>>, c) >>, <<>>)
        bus    == Node(<<15>>, <<>>, << UartNode(90, 3, c) >>)
        uart   == Node(<<9>>, << CompatibleWith(Uart) >>
                              \o Unless("uart base", RegOf(<<Span(9)>>, c))
                              \o << Property(Interrupts,
                                      InterruptCells(IF d.lacks = "uart intid" THEN 2 ELSE 0, d.number)) >>, <<>>)
        second == UartNode(91, 2, c)
        gic    == Node(<<10>>, << CompatibleWith(GicV2),
                                  RegOf(IF d.lacks = "gic cpu" THEN <<Span(80)>>
                                        ELSE <<Span(80), Span(81)>>, c) >>, <<>>)
        timer  == Node(<<11>>, Unless("timer", CompatibleWith(Timer))
                               \o << Property(Interrupts, InterruptCells(1, 0) \o InterruptCells(1, 1)) >>, <<>>)
        psci   == Node(<<12>>, << CompatibleWith(Psci), Property(Method,
                                  NulTerminated(IF d.lacks = "psci" THEN <<15, 15>> ELSE Smc)) >>, <<>>)
        nodes  == <<memory, bus, timer, gic, psci>>
    IN  (IF d.reversed THEN Reverse(nodes) ELSE nodes) \o <<uart, second>>

Tokens(d) == Node(<<>>, Root(d), Children(d)) \o << Number(END) >>

BoardIn(d) ==
    [x \in {"memory", "uart base", "uart intid", "gic distributor", "gic cpu", "timer", "psci"} |->
        CASE x = "memory" -> [base |-> 64, size |-> 100]
          [] x = "uart base" -> 9
          [] x = "uart intid" -> SpiBase + d.number
          [] x = "gic distributor" -> 80
          [] x = "gic cpu" -> 81
          [] x = "timer" -> PpiBase + 1
          [] x = "psci" -> NulTerminated(Smc)]

\* The blob of a description and its tokens: strings first, then what there is
\* of the structure.
BlobWith(d, tokens, cut) ==
    LET structure == FlattenSeq(tokens)
        bytes == StringsBlock \o SubSeq(structure, 1, Len(structure) - cut)
        strings == Len(StringsBlock)
    IN  [magic |-> d.lacks # "magic", version |-> IF d.lacks = "version" THEN 18 ELSE 16,
         strings |-> [offset |-> 0, size |-> IF d.lacks = "strings" THEN Len(bytes) + 1 ELSE strings],
         structure |-> [offset |-> strings,
                        size |-> Len(bytes) - strings + (IF d.lacks = "/" THEN 1 ELSE 0)],
         bytes |-> bytes,
         lacks |-> IF d.lacks \in {"magic", "version", "strings"} THEN "no tree" ELSE d.lacks,
         whole |-> cut = 0,
         board |-> BoardIn(d)]

Description(cells, declared, number, reversed, lacks) ==
    [cells |-> cells, declared |-> declared, number |-> number, reversed |-> reversed, lacks |-> lacks]

CountsOf(a, s) == [address |-> a, size |-> s]

Counts == { <<CountsOf(2, 1), FALSE>>, <<CountsOf(2, 1), TRUE>>,
            <<CountsOf(1, 1), TRUE>>, <<CountsOf(2, 2), TRUE>> }

Lacking == {"nothing", "magic", "version", "strings", "/", "memory", "uart base", "uart intid",
            "gic cpu", "timer", "psci"}

Descriptions ==
    {Description(c[1], c[2], n, r, l) : c \in Counts, n \in {1, IrqCount}, r \in BOOLEAN, l \in Lacking}

Usual(reversed) == Description(CountsOf(1, 1), TRUE, 1, reversed, "nothing")

\* One NOP before token k.
WithNop(d, k) == SubSeq(Tokens(d), 1, k - 1) \o << Number(NOOP) >> \o SubSeq(Tokens(d), k, Len(Tokens(d)))

\* Before a property the code does not skip it: see NopBlobs.
NopPlaces(d) == {k \in DOMAIN Tokens(d) : k = 1 \/ U32At(Tokens(d)[k], 0) # PROP}

Whole(d) == BlobWith(d, Tokens(d), 0)

Nopped(d, k) == BlobWith(d, WithNop(d, k), 0)

Cut(d, n) == BlobWith(d, Tokens(d), n)

MCBlobs ==
    {Whole(d) : d \in Descriptions}
    \cup {Nopped(Usual(FALSE), k) : k \in NopPlaces(Usual(FALSE))}
    \cup {Cut(Usual(r), n) :
              r \in BOOLEAN, n \in 1 .. Len(FlattenSeq(Tokens(Usual(FALSE))))}

NopBlobs == {Nopped(Usual(FALSE), k) : k \in DOMAIN Tokens(Usual(FALSE))}
===============================================================================
