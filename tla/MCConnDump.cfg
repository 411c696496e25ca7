SPECIFICATION LSpec
CONSTANTS
    none = none
    address = address
    info = info
    rtt = rtt
    heading = heading
    nokey = nokey
    Ext <- MCExt
    NoneBit <- none
    AddrBit <- address
    Fields <- MCFields
    Headings <- MCHeadings
    ExtRcv <- MCExtRcv
    NoKey <- nokey
    Values <- MCValues
    Lines <- MCLines
    MaxConns = 4
INVARIANTS
    TypeOK
    Accounting
    SortedList
    DumpComplete
    CursorOnList
    Linked
    CursorsValid
PROPERTIES
    StatusAction
    IsConnDump
