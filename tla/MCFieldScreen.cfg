SPECIFICATION Spec
CONSTANTS
    heading = heading
    src = src
    pid = pid
    none = none
    proc = proc
    nofield = nofield
    Table <- MCTable
    Headings <- MCHeadings
    EnabledIds <- MCEnabled
    ExtReq <- MCExtReq
    NoneExt <- none
    NoField <- nofield
    Lines <- MCLines
    MaxMarks = 3
INVARIANTS
    TypeOK
    PreviewIsTheMove
    CursorVisible
    RequestsMatch
PROPERTIES
    ImplementsOrder
    MoveEnds
