------------------------------ MODULE LineParser ------------------------------
(***************************************************************************)
(* zhemon/cursor.rs and the numbers of zhemon/parser.rs: what the parser   *)
(* finds at a position of the line.  Positions count from 0, as in the     *)
(* code.                                                                   *)
(***************************************************************************)
EXTENDS Integers, Sequences, FiniteSetsExt

CONSTANTS
    Digits,             \* the digits: a function from characters to values
    Base,               \* 16 in the code
    MaxAddressDigits,   \* 16, so that an address is a u64
    MaxByteDigits       \* 2, so that a byte is a u8

Space == " "

NoChar == "end of line"

ASSUME ParserAssumption ==
    /\ Base \in Nat \ {0} /\ MaxAddressDigits \in Nat /\ MaxByteDigits \in Nat
    /\ \A c \in DOMAIN Digits : Digits[c] \in 0 .. Base - 1
    /\ DOMAIN Digits \cap {":", "R", ".", Space, NoChar} = {}

\* How many numbers n digits can write.
Numbers(n) ==
    LET power[k \in 0 .. n] == IF k = 0 THEN 1 ELSE power[k - 1] * Base
    IN  power[n]

Addresses == Numbers(MaxAddressDigits)

Peek(line, pos) == IF pos < Len(line) THEN line[pos + 1] ELSE NoChar

\* Cursor::consume_spaces: the position it stops at.
SkipSpaces(line, pos) == Min({q \in pos .. Len(line) + pos : Peek(line, q) # Space})

\* hex::digit
IsDigit(c) == c \in DOMAIN Digits

IsInstruction(c) == c \in {":", "R", "."}

\* How many digits follow pos.
DigitsAt(line, pos) == Min({n \in 0 .. Len(line) : ~IsDigit(Peek(line, pos + n))})

\* hex::append, over n digits from pos.
NumberAt(line, pos, n) ==
    LET number[k \in 0 .. n] ==
            IF k = 0 THEN 0 ELSE number[k - 1] * Base + Digits[line[pos + k]]
    IN  number[n]

\* parse_hex_number: the number and the position after it, or the error and
\* the position it is for.
HexNumber(line, pos, max) ==
    LET n == DigitsAt(line, pos)
    IN  CASE n > max -> [ok |-> FALSE, error |-> "TooLong", pos |-> pos + max]
          [] n = 0   -> [ok |-> FALSE, error |-> "NoDigits", pos |-> pos]
          [] OTHER   -> [ok |-> TRUE, value |-> NumberAt(line, pos, n), pos |-> pos + n]
===============================================================================
