------------------------------ MODULE LineEditor ------------------------------
(***************************************************************************)
(* tty/console.rs: read_line, one key at a time, and the row of the        *)
(* terminal the keys are echoed on.  What ends a line is up to the module  *)
(* that reads it: Submit is the newline, Abandon the escape key.           *)
(***************************************************************************)
EXTENDS Naturals, Sequences, SequencesExt

CONSTANTS
    Chars,      \* the printable characters that are typed
    Capacity    \* the length of the caller's buffer (128 in zhemon/mod.rs)

ASSUME EditorAssumption == Capacity \in Nat

VARIABLES
    line,           \* buf[..i]
    device_error,   \* some byte so far came with an error flag
    row             \* the cells of the terminal's row, up to the cursor

editor == <<line, device_error, row>>

PromptCell == "prompt"

\* Every byte from getc may carry the device's error flag.
Flagged(error) == device_error' = (device_error \/ error)

\* put_prompt, and read_line with an empty buffer.
Prompt ==
    /\ line' = <<>>
    /\ device_error' = FALSE
    /\ row' = <<PromptCell>>

\* putc of a printable character, of ERASE_SEQUENCE, and of a line break.
Echo(c) == Append(row, c)

Erase == Front(row)

NewLine == row' = <<>>

\* InputChar::Char: stored and echoed, unless the buffer is full.
TypeChar(c, error) ==
    /\ Flagged(error)
    /\ IF Len(line) < Capacity
       THEN line' = Append(line, c) /\ row' = Echo(c)
       ELSE UNCHANGED <<line, row>>

\* Whether a backspace has something to erase.
CanErase == line # <<>>

Backspace(error) ==
    /\ Flagged(error)
    /\ IF CanErase
       THEN line' = Front(line) /\ row' = Erase
       ELSE UNCHANGED <<line, row>>

NonPrintable(error) ==
    /\ Flagged(error)
    /\ UNCHANGED <<line, row>>

Submit(error) == Flagged(error) /\ NewLine /\ UNCHANGED line

Abandon(error) == Flagged(error) /\ NewLine /\ UNCHANGED line

InitEditor ==
    /\ line = <<>>
    /\ device_error = FALSE
    /\ row = <<>>
===============================================================================
