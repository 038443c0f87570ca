CONSTANTS
    NUL = NUL
    CR = CR
    EqualSign = "="
    Backslash = Backslash
    LetterX = "x"
    Stale = "1"
    Sz = 7
    Char <- MCChar
    Hex <- MCHex
    Byte <- MCByte
    Printable <- MCPrintable
    Lines <- MCLines
    Texts <- MCTexts
SPECIFICATION DecodeSpec
INVARIANTS
    DecTypeOK
    UnreadIntact
    NameMeant
CHECK_DEADLOCK FALSE
