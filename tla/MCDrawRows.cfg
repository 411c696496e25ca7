SPECIFICATION Spec
CONSTANTS
    heading = heading
    src = src
    rtt = rtt
    pid = pid
    none = none
    info = info
    proc = proc
    full = full
    tcp = tcp
    bare = bare
    header = header
    blank = blank
    old = old
    Table <- MCTable
    Headings <- MCHeadings
    Width <- MCWidth
    ExtRcv <- MCExtRcv
    Base <- MCBase
    Conns <- MCConns
    ConnExt <- MCConnExt
    Passes <- MCPasses
    Header <- header
    Blank <- blank
    Old <- old
    Cols = 4
    MaxConns = 2
    MaxX = 2
    MaxY = 1
    MaxMarks = 3
INVARIANTS
    TypeOK
    ScreenShows
