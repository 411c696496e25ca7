SPECIFICATION Spec
CONSTANTS
    Kinds <- MCKinds
    Lines <- MCLines
    Digit <- MCDigit
    Addresses <- MCAddresses
    Blanks <- MCBlanks
    Printable <- MCPrintable
    NL = "newline"
    Key = "q"
    WordBits = 4
    BufLen = 6
INVARIANTS
    TypeOK
    MeaningKept
    LineConsumed
    KeyMode
    OneFilter
PROPERTIES
    DialogEnds
