------------------------------- MODULE Monitor --------------------------------
(***************************************************************************)
(* The monitor (zhemon/mod.rs, zhemon/parser.rs): it reads a line, parses  *)
(* it once to see that it is right and a second time to carry it out,      *)
(* command by command.  One action is one turn of the parser's loop, in    *)
(* either pass, with the command it finds; a range is examined byte by     *)
(* byte.  What the bytes are is left out, as are the device, which may     *)
(* fault, and the program a Run calls: it comes back or it does not.       *)
(***************************************************************************)
EXTENDS LineEditor, LineParser

CONSTANTS
    ExitLine, PsLine,   \* the two lines that are words
    RowWidth,           \* the bytes of a row of a range (8 in the code)
    Alignment,          \* of an instruction (4 in the code)
    MaxLines            \* bound: lines read

ASSUME MonitorAssumption ==
    /\ ExitLine # PsLine
    /\ NoChar \notin Chars /\ PromptCell \notin Chars \cup DOMAIN Digits
    /\ RowWidth \in Nat \ {0} /\ Alignment \in Nat \ {0} /\ MaxLines \in Nat

VARIABLES
    phase,      \* "prompt", "edit", "validate", "execute", "range", "away" or "left"
    outcome,    \* what came of the last line
    error,      \* what its parse error is, and the column of the caret
    pos, mode,  \* the Parser; its modes are "default", "set" and "stored", the
                \* second and third being Set without and with any_byte_yet
    last_address, next_address,     \* Zhemon
    examined,   \* the address the range is at
    rows,       \* what the last range has printed
    done,       \* history: the commands of this line carried out, each with
                \* the address it was carried out at
    entry,      \* history: the two addresses as this line found them
    lines       \* how many lines were begun

parser == <<pos, mode>>
addresses == <<last_address, next_address>>
printed == <<examined, rows>>
history == <<done, entry, lines>>
vars == <<editor, phase, outcome, error, parser, addresses, printed, history>>

NoError == [kind |-> "none", column |-> 0]

\* u64 arithmetic, which wraps in the release build.
Succ(a) == (a + 1) % Addresses

(* Faulty variants of definitions below, used by no specification. *)

\* examining leaves the next address where it was
ExamineOneStays(a) ==
    /\ last_address' = a /\ next_address' = a
    /\ UNCHANGED <<phase, printed>>

\* the digits of a number that is no byte are lost
ResumeAfter(at) == HexNumber(line, at, MaxAddressDigits).pos

-------------------------------------------------------------------------------
(* read_line and start().                                                  *)

\* The parser and the print of the line before are gone.
PromptLine ==
    /\ phase = "prompt"
    /\ lines < MaxLines
    /\ Prompt
    /\ phase' = "edit"
    /\ outcome' = "none" /\ error' = NoError
    /\ pos' = 0 /\ mode' = "default"
    /\ examined' = 0 /\ rows' = <<>>
    /\ done' = <<>> /\ entry' = addresses /\ lines' = lines + 1
    /\ UNCHANGED addresses

Key ==
    /\ phase = "edit"
    /\ \E flag \in BOOLEAN :
          \/ \E c \in Chars : TypeChar(c, flag)
          \/ Backspace(flag)
          \/ NonPrintable(flag)
    /\ UNCHANGED <<phase, outcome, error, parser, addresses, printed, history>>

EndsLine(what) ==
    /\ outcome' = what
    /\ UNCHANGED <<error, parser, addresses, printed, history>>

Escape ==
    /\ phase = "edit"
    /\ \E flag \in BOOLEAN : Abandon(flag)
    /\ phase' = "prompt"
    /\ EndsLine("abandoned")

\* A line with a device error goes no further; the two words are not parsed.
Enter ==
    /\ phase = "edit"
    /\ \E flag \in BOOLEAN : Submit(flag)
    /\ \/ device_error' /\ phase' = "prompt" /\ EndsLine("device error")
       \/ ~device_error' /\ line = ExitLine /\ phase' = "left" /\ EndsLine("exit")
       \/ ~device_error' /\ line = PsLine /\ phase' = "prompt" /\ EndsLine("ps")
       \/ /\ ~device_error' /\ line \notin {ExitLine, PsLine}
          /\ phase' = "validate" /\ pos' = 0 /\ mode' = "default"
          /\ UNCHANGED <<outcome, error, addresses, printed, history>>
-------------------------------------------------------------------------------
(* The commands, carried out in the second pass (the handle_ functions).   *)
(* Each says what becomes of phase, of the addresses and of the print.     *)

SetAddress(a) ==
    /\ last_address' = a /\ next_address' = a
    /\ UNCHANGED <<phase, printed>>

ExamineOne(a) ==
    /\ last_address' = a /\ next_address' = Succ(a)
    /\ UNCHANGED <<phase, printed>>

\* From the next address to end, which may be before it: then there is nothing
\* to examine, but the addresses move all the same.
ExamineContinuing(end) ==
    /\ last_address' = end /\ next_address' = Succ(end)
    /\ IF next_address > end
       THEN UNCHANGED <<phase, printed>>
       ELSE phase' = "range" /\ examined' = next_address /\ rows' = <<>>

StoreContinuing(byte) ==
    /\ next_address' = Succ(next_address)
    /\ UNCHANGED <<phase, last_address, printed>>

\* Only an aligned address is called, and the call need not come back.
Run ==
    /\ \/ UNCHANGED phase
       \/ last_address % Alignment = 0 /\ phase' = "away"
    /\ UNCHANGED <<addresses, printed>>

Command(op, value) == [op |-> op, value |-> value]

CarryOut(c) ==
    /\ CASE c.op = "SetAddress"        -> SetAddress(c.value)
         [] c.op = "ExamineOne"        -> ExamineOne(c.value)
         [] c.op = "ExamineContinuing" -> ExamineContinuing(c.value)
         [] c.op = "StoreContinuing"   -> StoreContinuing(c.value)
         [] c.op = "Run"               -> Run
    /\ done' = Append(done, [command |-> c,
                             at |-> IF c.op = "Run" THEN last_address ELSE next_address])
    /\ UNCHANGED <<entry, lines>>

\* A byte of the range.  A row begins at the range's start, padded to its
\* column, and at every multiple of RowWidth.
PrintByte(a) ==
    LET carry == a % RowWidth
    IN  IF rows = <<>> \/ carry = 0
        THEN Append(rows, [label |-> a, pad |-> carry, cells |-> <<a>>])
        ELSE [rows EXCEPT ![Len(rows)].cells = Append(@, a)]

ExamineByte ==
    /\ phase = "range"
    /\ rows' = PrintByte(examined)
    /\ IF examined = last_address
       THEN phase' = "execute" /\ UNCHANGED examined
       ELSE examined' = Succ(examined) /\ UNCHANGED phase
    /\ UNCHANGED <<editor, outcome, error, parser, addresses, history>>
-------------------------------------------------------------------------------
(* One turn of parse_next's loop.                                          *)

Here == SkipSpaces(line, pos)

AtChar(c) == phase \in {"validate", "execute"} /\ Peek(line, Here) = c

AtDigit == phase \in {"validate", "execute"} /\ IsDigit(Peek(line, Here))

\* Ok(Some(command)): validate drops it, handle_line carries it out.
Found(c) ==
    /\ IF phase = "validate" THEN UNCHANGED <<phase, addresses, printed, history>>
                             ELSE CarryOut(c)
    /\ UNCHANGED <<editor, outcome, error>>

\* Ok(None): the loop goes on.
FoundNothing == UNCHANGED <<editor, phase, outcome, error, addresses, printed, history>>

\* Err: on_parse_error, and the line is over.
Fail(kind, column) ==
    /\ phase' = "prompt"
    /\ outcome' = "refused"
    /\ error' = [kind |-> kind, column |-> column]
    /\ UNCHANGED <<editor, parser, addresses, printed, history>>

\* A faulty variant, used by no specification: the prompt's column is forgotten.
FailNumberLeft(number, missing, tooLong) ==
    Fail(IF number.error = "NoDigits" THEN missing ELSE tooLong, number.pos)

\* The caret stands under the first digit too many: one further than the
\* position says, since the prompt takes a column.
FailNumber(number, missing, tooLong) ==
    IF number.error = "NoDigits" THEN Fail(missing, number.pos)
                                 ELSE Fail(tooLong, number.pos + 1)

FailAddress(number) == FailNumber(number, "ExpectedAnAddress", "AddressTooLong")

Dot ==
    /\ AtChar(".")
    /\ LET number == HexNumber(line, SkipSpaces(line, Here + 1), MaxAddressDigits)
       IN  \/ ~number.ok /\ FailAddress(number)
           \/ /\ number.ok
              /\ pos' = number.pos /\ mode' = "default"
              /\ Found(Command("ExamineContinuing", number.value))

Colon ==
    /\ AtChar(":")
    /\ pos' = Here + 1 /\ mode' = "set"
    /\ FoundNothing

RunSign ==
    /\ AtChar("R")
    /\ pos' = Here + 1 /\ mode' = "default"
    /\ Found(Command("Run", 0))

Unexpected ==
    /\ \E c \in Chars \ {Space} : AtChar(c) /\ ~IsDigit(c) /\ ~IsInstruction(c)
    /\ Fail("UnexpectedCharacter", Here + 1)

\* parse_address_command: an instruction behind the number says what is to be
\* done there; without one the number is examined.
Address ==
    /\ AtDigit /\ mode = "default"
    /\ LET number == HexNumber(line, Here, MaxAddressDigits)
           after  == SkipSpaces(line, number.pos)
       IN  \/ ~number.ok /\ FailAddress(number)
           \/ /\ number.ok
              /\ pos' = after /\ mode' = mode
              /\ Found(Command(IF IsInstruction(Peek(line, after)) THEN "SetAddress"
                                                                   ELSE "ExamineOne",
                               number.value))

\* Where parse_set_command goes back to when the number is no byte.
Resume(at) == at

\* parse_set_command: a number too long for a byte ends the bytes, if there was
\* one; the next turn reads it again as an address.
Byte ==
    /\ AtDigit /\ mode # "default"
    /\ LET number == HexNumber(line, Here, MaxByteDigits)
       IN  \/ /\ number.ok
              /\ pos' = number.pos /\ mode' = "stored"
              /\ Found(Command("StoreContinuing", number.value))
           \/ /\ ~number.ok /\ mode = "stored"
              /\ pos' = Resume(Here) /\ mode' = "default"
              /\ FoundNothing
           \/ ~number.ok /\ mode = "set" /\ FailNumber(number, "ExpectedAByte", "ByteTooLong")

\* The end of the line: after the first pass the second begins.
End ==
    /\ AtChar(NoChar)
    /\ \/ mode = "set" /\ Fail("ExpectedAByte", Here)
       \/ /\ mode # "set" /\ phase = "validate"
          /\ phase' = "execute" /\ pos' = 0 /\ mode' = "default"
          /\ UNCHANGED <<editor, outcome, error, addresses, printed, history>>
       \/ /\ mode # "set" /\ phase = "execute"
          /\ phase' = "prompt" /\ pos' = Here /\ mode' = mode
          /\ outcome' = "ran"
          /\ UNCHANGED <<editor, error, addresses, printed, history>>
-------------------------------------------------------------------------------
Init ==
    /\ InitEditor
    /\ phase = "prompt"
    /\ outcome = "none"
    /\ error = NoError
    /\ pos = 0 /\ mode = "default"
    /\ last_address = 0 /\ next_address = 0
    /\ examined = 0 /\ rows = <<>>
    /\ done = <<>> /\ entry = <<0, 0>> /\ lines = 0

Next ==
    \/ PromptLine \/ Key \/ Escape \/ Enter
    \/ Dot \/ Colon \/ RunSign \/ Unexpected \/ Address \/ Byte \/ End
    \/ ExamineByte

Spec == Init /\ [][Next]_vars
-------------------------------------------------------------------------------
(* What a line means, read as a whole: its tokens are the runs of digits    *)
(* and every other character but the space, by the index they start at.     *)

Tokens == {i \in DOMAIN line :
              /\ line[i] # Space
              /\ IsDigit(line[i]) => i = 1 \/ ~IsDigit(line[i - 1])}

Size(i) == DigitsAt(line, i - 1)

Value(i) == NumberAt(line, i - 1, Size(i))

CharBefore(i) == LET js == {j \in Tokens : j < i} IN IF js = {} THEN NoChar ELSE line[Max(js)]

CharAfter(i) == LET js == {j \in Tokens : j > i} IN IF js = {} THEN NoChar ELSE line[Min(js)]

\* A number is a byte when a colon comes before it and nothing but bytes between.
ShortNumber(i) == IsDigit(line[i]) /\ Size(i) <= MaxByteDigits

IsByte(i) ==
    /\ ShortNumber(i)
    /\ \E c \in Tokens : /\ c < i /\ line[c] = ":"
                         /\ \A j \in Tokens : c < j /\ j < i => ShortNumber(j)

\* What is wrong with a token.
Fault(i) ==
    LET c == line[i]
    IN  CASE c = "." /\ ~IsDigit(CharAfter(i)) -> "ExpectedAnAddress"
          [] c = ":" /\ CharAfter(i) = NoChar  -> "ExpectedAByte"
          [] c \notin {".", ":", "R"} /\ ~IsDigit(c) -> "UnexpectedCharacter"
          [] CharBefore(i) = ":" /\ Size(i) > MaxByteDigits -> "ByteTooLong"
          [] CharBefore(i) # ":" /\ ~IsByte(i) /\ Size(i) > MaxAddressDigits -> "AddressTooLong"
          [] OTHER -> "none"

Meaning(i) ==
    LET c == line[i]
    IN  CASE c = "R" -> <<Command("Run", 0)>>
          [] c = "." -> <<Command("ExamineContinuing", Value(Min({j \in Tokens : j > i})))>>
          [] IsByte(i) -> <<Command("StoreContinuing", Value(i))>>
          [] IsDigit(c) /\ ~IsByte(i) /\ CharBefore(i) # "." ->
                <<Command(IF IsInstruction(CharAfter(i)) THEN "SetAddress" ELSE "ExamineOne",
                          Value(i))>>
          [] OTHER -> <<>>

\* What the first i characters mean, and the whole line.
ReadingTo[i \in 0 .. Len(line)] ==
    IF i = 0 THEN <<>>
    ELSE IF i \in Tokens THEN ReadingTo[i - 1] \o Meaning(i) ELSE ReadingTo[i - 1]

Reading == ReadingTo[Len(line)]

Carried == [k \in DOMAIN done |-> done[k].command]

-------------------------------------------------------------------------------
(* What must hold.                                                         *)

\* A line does what it reads as, all of it and in order, or, with anything
\* wrong in it, nothing at all, and the first thing wrong is what is reported:
\* a number that is no byte is an address and loses no digit, and an error at
\* the line's end comes before its first store (zhemon/parser.rs, start).  What
\* the code reads as a colon without bytes is not what the document does: see
\* ColonWantsBytes.
RunsReading ==
    LET wrong == {i \in Tokens : Fault(i) # "none"}
    IN  /\ outcome = "ran" => wrong = {} /\ Carried = Reading
        /\ outcome = "refused" => wrong # {} /\ error.kind = Fault(Min(wrong)) /\ done = <<>>
        /\ outcome \in {"abandoned", "device error", "ps", "exit"} \/ device_error => done = <<>>
        /\ phase = "away" => /\ wrong = {} /\ IsPrefix(Carried, Reading)
                             /\ Last(Carried).op = "Run" /\ Last(done).at % Alignment = 0

\* The variables hold values of their kind (zhemon/mod.rs, zhemon/parser.rs).
TypeOK ==
    /\ line \in Seq(Chars) /\ Len(line) <= Capacity
    /\ phase \in {"prompt", "edit", "validate", "execute", "range", "away", "left"}
    /\ pos \in 0 .. Len(line) /\ mode \in {"default", "set", "stored"}
    /\ {last_address, next_address, examined} \subseteq 0 .. Addresses - 1
    /\ \A k \in DOMAIN done :
          done[k].command.op = "StoreContinuing" => done[k].command.value < Numbers(MaxByteDigits)

\* The address that follows the first k commands of the line: one behind the
\* last byte they touched, or the one they set.
Following(k) ==
    LET moved == {j \in 1 .. k : done[j].command.op # "Run"}
        c     == done[Max(moved)]
    IN  IF moved = {} THEN entry[2]
        ELSE CASE c.command.op = "SetAddress"      -> c.command.value
               [] c.command.op = "StoreContinuing" -> Succ(c.at)
               [] OTHER                            -> Succ(c.command.value)

\* The address last named among the first k commands.
Named(k) ==
    LET named == {j \in 1 .. k : done[j].command.op \notin {"Run", "StoreContinuing"}}
    IN  IF named = {} THEN entry[1] ELSE done[Max(named)].command.value

\* Bytes are stored, and ranges start, where the command before stopped, on the
\* line before if need be and across the last address; Run calls what was
\* named last (the handle_ functions of zhemon/mod.rs), where the document has
\* it call the last byte stored: see RunsCurrentAddress.
AddressesContinue ==
    /\ TypeOK
    /\ \A k \in DOMAIN done :
          /\ done[k].command.op \in {"StoreContinuing", "ExamineContinuing"} =>
                done[k].at = Following(k - 1)
          /\ done[k].command.op = "Run" => done[k].at = Named(k - 1)
    /\ next_address = Following(Len(done)) /\ last_address = Named(Len(done))

\* What the user sees fits what the program holds: the row shows the prompt and
\* the buffer, the caret stands under the character that is wrong, or right
\* before the place where one is missing, and a range's bytes stand in the
\* columns of their addresses, each once (console.rs, on_parse_error,
\* handle_examine_continuing).  For a missing place the document names another
\* column: see CaretUnderCommand.
ShownInPlace ==
    LET shown == <<PromptCell>> \o line
        caret == error.column + 1
    IN  /\ phase = "edit" => row = shown
        /\ error.kind = "UnexpectedCharacter" =>
              ~IsDigit(shown[caret]) /\ shown[caret] \notin {":", "R", ".", Space, PromptCell}
        /\ error.kind \in {"ByteTooLong", "AddressTooLong"} =>
              LET max == IF error.kind = "ByteTooLong" THEN MaxByteDigits ELSE MaxAddressDigits
              IN  /\ \A j \in caret - max .. caret : IsDigit(shown[j])
                  /\ ~IsDigit(shown[caret - max - 1])
        /\ error.kind \in {"ExpectedAByte", "ExpectedAnAddress"} =>
              caret = Len(shown) \/ shown[caret + 1] # Space
        /\ \A r \in DOMAIN rows : \A j \in DOMAIN rows[r].cells :
              /\ rows[r].cells[j] = rows[r].label + j - 1
              /\ rows[r].cells[j] % RowWidth = rows[r].pad + j - 1
        /\ \A r \in DOMAIN rows : r > 1 => rows[r].label = Last(rows[r - 1].cells) + 1
        /\ rows # <<>> /\ phase # "range" => Last(Last(rows).cells) = examined
-------------------------------------------------------------------------------
(* What docs/wozmon.md says of the monitor and the code does not do.       *)

\* The one address the document has current behind the first k commands, when
\* one of them moved it: a store makes that its last byte (4.4).
Current(k) ==
    LET c == done[Max({j \in 1 .. k : done[j].command.op # "Run"})]
    IN  IF c.command.op = "StoreContinuing" THEN c.at ELSE c.command.value

\* R with no address runs the code at the current address (4.6), which is what
\* the commands before it on the line left (5); handle_run takes the address
\* last named, and a store names none.
RunsCurrentAddress ==
    \A k \in DOMAIN done :
        /\ done[k].command.op = "Run"
        /\ \E j \in 1 .. k - 1 : done[j].command.op # "Run"
        => done[k].at = Current(k - 1)

\* A colon with no bytes after it is an error, and of a line with an error
\* nothing is carried out (6); the parser asks for a byte only at the line's end.
ColonWantsBytes ==
    outcome = "ran" => \A i \in Tokens : line[i] = ":" => IsDigit(CharAfter(i))

\* For something missing the caret sits under the colon or the dot that wanted
\* it (6); the parser points right before the place, behind any spaces.
CaretUnderCommand ==
    LET under == (<<PromptCell>> \o line)[error.column + 1]
    IN  /\ error.kind = "ExpectedAByte" => under = ":"
        /\ error.kind = "ExpectedAnAddress" => under = "."
===============================================================================
