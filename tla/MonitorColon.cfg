SPECIFICATION Spec
CONSTANTS
    Chars <- MCChars
    Capacity = 5
    Digits <- MCDigits
    Base = 2
    MaxAddressDigits = 2
    MaxByteDigits = 1
    ExitLine <- MCExit
    PsLine <- MCPs
    RowWidth = 2
    Alignment = 2
    MaxLines = 2
INVARIANTS
    ColonWantsBytes
\* The monitor may leave, or call what does not come back.
CHECK_DEADLOCK FALSE
