------------------------------ MODULE DrawRows ------------------------------
(***************************************************************************)
(* What a frame of the main screen looks like: draw_connections() draws    *)
(* the header, draw_protocol() a row for each connection, each field by    *)
(* field in a loop of its own that skips hidden fields, fields nothing     *)
(* carries and fields scrolled off to the left.  A filter that fails in    *)
(* the middle of a row has the row blanked, and the next one takes its     *)
(* line.  Each turn of a loop is a step.                                   *)
(*                                                                         *)
(* The window is never erased: a line keeps what earlier frames wrote, and *)
(* what keeps that off the screen is that ncurses copies only the cells    *)
(* written since the last refresh onto a screen blanked by the window      *)
(* below.  What earlier frames left is Old, whatever it was.               *)
(***************************************************************************)
EXTENDS Integers, SequencesExt

CONSTANTS
    Table,      \* tcp_fields[]
    Headings,   \* those with draw_row NULL
    Width,      \* f->width
    ExtRcv,     \* f->ext_rcv
    Base,       \* the extensions every connection carries
    Conns,      \* connections: the extensions each carries, and
    ConnExt,
    Passes,     \* the fields whose filters it passes
    Header, Blank, Old, \* the text of the header; an empty cell; an old one
    Cols,       \* n->cols
    MaxConns,   \* bound: connections in a frame
    MaxX, MaxY, \* bounds: how far the user scrolls
    MaxMarks    \* bound: fields hidden, pinned and filtered at one time

NrFields == Len(Table)
Fields == ToSet(Table)

ASSUME DrawRowsAssumption ==
    /\ Table \in Seq(Fields) /\ IsInjective(Table) /\ Headings \subseteq Fields
    /\ Width \in [Fields -> Nat \ {0}]
    /\ Conns # {}
    /\ \A c \in Conns : Base \subseteq ConnExt[c] /\ Passes[c] \subseteq Fields
    /\ {Cols, MaxConns, MaxX, MaxY, MaxMarks} \subseteq Nat

VARIABLES
    pc,
    enabled, pinned, filter_on, \* the fields so marked
    pos_x, pos_y,       \* n->pos[SCREEN_MAIN]
    conns,              \* the connections of this frame, in order
    conn_list,          \* those not yet drawn
    ext_rcv,
    i, x, skip_x, drawn,        \* the variables of the loop over the fields
    y, skip_y,
    win,                \* WINDOW_CONN_INFO: a sequence of cells for each line
    touched,            \* how many cells of each line were written in this frame
    screen              \* what the user sees from the third line on

marks == <<enabled, pinned, filter_on>>
view == <<marks, pos_x, pos_y>>
frame == <<conns, ext_rcv>>
row == <<i, x, skip_x, drawn>>
vars == <<pc, view, frame, conn_list, row, y, skip_y, win, touched, screen>>

Line(cell) == [c \in 1..Cols |-> cell]

Init ==
    /\ pc = "dump"
    /\ enabled = Fields \ Headings /\ pinned = {} /\ filter_on = {}
    /\ pos_x = 0 /\ pos_y = 0
    /\ conns = <<>> /\ conn_list = <<>> /\ ext_rcv = {}
    /\ i = 1 /\ x = 0 /\ skip_x = 0 /\ drawn = FALSE /\ y = 0 /\ skip_y = 0
    /\ win = <<>> /\ touched = <<>> /\ screen = <<>>

-----------------------------------------------------------------------------
(* The frame begins.                                                       *)

Lists == {list \in UNION {[1..n -> Conns] : n \in 0..MaxConns} : IsInjective(list)}

\* for (i = 0, ...): the loop starts again, on line newy.
StartLoop(newy) ==
    /\ i' = 1 /\ x' = 0 /\ skip_x' = pos_x /\ drawn' = FALSE
    /\ y' = newy

\* A mistake: the window has no line for the header.
BeginFrameNoHeader ==
    /\ pc = "dump"
    /\ \E list \in Lists :
          /\ conns' = list /\ conn_list' = list
          /\ ext_rcv' = Base \cup UNION {ConnExt[c] : c \in ToSet(list)}
          /\ pos_y' = Max({0, Min({pos_y, Len(list) - 1})})
          /\ win' = [l \in 1..Len(list) |-> Line(Old)]
          /\ touched' = [l \in 1..Len(list) |-> 0]
    /\ skip_y' = pos_y'
    /\ StartLoop(1)
    /\ pc' = "header"
    /\ UNCHANGED <<marks, pos_x, screen>>

\* The dump; then draw_connections() keeps the cursor on the list and gives the
\* window a line for each connection below the header.
BeginFrame ==
    /\ pc = "dump"
    /\ \E list \in Lists :
          /\ conns' = list /\ conn_list' = list
          /\ ext_rcv' = Base \cup UNION {ConnExt[c] : c \in ToSet(list)}
          /\ pos_y' = Max({0, Min({pos_y, Len(list) - 1})})
          /\ win' = [l \in 1..Len(list) + 1 |-> Line(Old)]
          /\ touched' = [l \in 1..Len(list) + 1 |-> 0]
    /\ skip_y' = pos_y'
    /\ StartLoop(1)
    /\ pc' = "header"
    /\ UNCHANGED <<marks, pos_x, screen>>

-----------------------------------------------------------------------------
(* The loops over the fields.                                              *)

F == Table[i]
Column(f) == f \in enabled /\ f \notin Headings /\ ExtRcv[f] \in ext_rcv

\* A text in the cells after column from, up to to, cut off at the right edge.
nm_mvwprintw(cells, from, to, cell) ==
    [c \in 1..Cols |-> IF from < c /\ c <= to THEN cell ELSE cells[c]]

Put(cells, to) ==
    /\ win' = [win EXCEPT ![y] = cells]
    /\ touched' = [touched EXCEPT ![y] = Max({@, Min({to, Cols})})]

\* A column goes to x, with a blank before it unless it is the first.
DrawCell(cell) ==
    LET from == IF drawn THEN x + 1 ELSE x IN
    /\ Put(nm_mvwprintw(nm_mvwprintw(win[y], x, from, Blank), from, from + Width[F], cell),
           from + Width[F])
    /\ x' = from + Width[F]
    /\ drawn' = TRUE

\* One turn of a loop: field F is not a column, scrolled off, or drawn.
Turn(cell) ==
    /\ i' = i + 1
    /\ \/ ~Column(F) /\ UNCHANGED <<x, skip_x, drawn, win, touched>>
       \/ /\ Column(F) /\ skip_x > 0 /\ F \notin pinned
          /\ skip_x' = skip_x - 1
          /\ UNCHANGED <<x, drawn, win, touched>>
       \/ /\ Column(F) /\ (skip_x = 0 \/ F \in pinned)
          /\ DrawCell(cell)
          /\ UNCHANGED skip_x
    /\ UNCHANGED <<pc, view, frame, conn_list, y, skip_y, screen>>

HeaderField ==
    /\ pc = "header"
    /\ i <= NrFields /\ x < Cols
    /\ Turn(<<F, Header>>)

HeaderEnd ==
    /\ pc = "header"
    /\ i > NrFields \/ x >= Cols
    /\ pc' = "rows"
    /\ StartLoop(2)
    /\ UNCHANGED <<view, frame, conn_list, skip_y, win, touched, screen>>

-----------------------------------------------------------------------------
(* The rows.                                                               *)

SkipRow ==
    /\ pc = "rows" /\ conn_list # <<>>
    /\ skip_y > 0
    /\ skip_y' = skip_y - 1
    /\ conn_list' = Tail(conn_list)
    /\ UNCHANGED <<pc, view, frame, row, y, win, touched, screen>>

Drawing == pc = "rows" /\ conn_list # <<>> /\ skip_y = 0
Ci == Head(conn_list)
Carries == ExtRcv[F] \in ConnExt[Ci]
Refused == Column(F) /\ F \in filter_on /\ ~(Carries /\ F \in Passes[Ci])

\* A mistake: the loop ends at the right edge, before the filters of columns there.
RowFieldOnScreen ==
    /\ Drawing
    /\ i <= NrFields
    /\ ~Refused \/ x >= Cols
    /\ Turn(IF Carries THEN <<F, Ci>> ELSE Blank)

RowField ==
    /\ Drawing
    /\ i <= NrFields
    /\ ~Refused
    /\ Turn(IF Carries THEN <<F, Ci>> ELSE Blank)

\* A filter that is on refuses the connection: the line is blanked for the next.
Rewind ==
    /\ Drawing
    /\ i <= NrFields
    /\ Refused
    /\ Put(Line(Blank), Cols)
    /\ conn_list' = Tail(conn_list)
    /\ StartLoop(y)
    /\ UNCHANGED <<pc, view, frame, skip_y, screen>>

RowEnd ==
    /\ Drawing
    /\ i > NrFields
    /\ conn_list' = Tail(conn_list)
    /\ StartLoop(y + 1)
    /\ UNCHANGED <<pc, view, frame, skip_y, win, touched, screen>>

\* wnoutrefresh() and doupdate(): the cells written go to the blank screen.
EndFrame ==
    /\ pc = "rows" /\ conn_list = <<>>
    /\ pc' = "keys"
    /\ screen' = [l \in DOMAIN win |->
           [c \in 1..Cols |-> IF c <= touched[l] THEN win[l][c] ELSE Blank]]
    /\ UNCHANGED <<view, frame, conn_list, row, y, skip_y, win, touched>>

-----------------------------------------------------------------------------
(* The keys between two frames.                                            *)

Key(newx, newy) ==
    /\ pc = "keys"
    /\ pc' = "dump"
    /\ pos_x' = newx /\ pos_y' = newy
    /\ newx <= MaxX /\ newy <= MaxY
    /\ UNCHANGED <<frame, conn_list, row, y, skip_y, win, touched, screen>>

KeyRight == Key(pos_x + 1, pos_y) /\ UNCHANGED marks
KeyLeft  == pos_x > 0 /\ Key(pos_x - 1, pos_y) /\ UNCHANGED marks
KeyDown  == Key(pos_x, pos_y + 1) /\ UNCHANGED marks
KeyUp    == pos_y > 0 /\ Key(pos_x, pos_y - 1) /\ UNCHANGED marks

Flip(set, f) == IF f \in set THEN set \ {f} ELSE set \cup {f}

\* A visit to the field screen that changes a mark.
Mark(f) ==
    /\ f \notin Headings
    /\ Key(pos_x, pos_y)
    /\ \/ enabled' = Flip(enabled, f) /\ UNCHANGED <<pinned, filter_on>>
       \/ pinned' = Flip(pinned, f) /\ UNCHANGED <<enabled, filter_on>>
       \/ filter_on' = Flip(filter_on, f) /\ UNCHANGED <<enabled, pinned>>
    /\ Cardinality((Fields \ Headings) \ enabled') + Cardinality(pinned')
          + Cardinality(filter_on') <= MaxMarks

Next ==
    \/ BeginFrame
    \/ HeaderField \/ HeaderEnd
    \/ SkipRow \/ RowField \/ Rewind \/ RowEnd
    \/ EndFrame
    \/ KeyRight \/ KeyLeft \/ KeyDown \/ KeyUp
    \/ \E f \in Fields : Mark(f)

Spec == Init /\ [][Next]_vars

-----------------------------------------------------------------------------
(* What a frame should show.                                               *)

\* The columns left after the first pos_x that are not pinned, by their place in Table.
Columns == {j \in 1..NrFields : Column(Table[j])}
Unpinned == {j \in Columns : Table[j] \notin pinned}
Before(set, j) == {k \in set : k < j}
Visible == {j \in Columns : j \in Unpinned => Cardinality(Before(Unpinned, j)) >= pos_x}

\* The cells to the left of field j: the columns of a set with a blank after each.
Left(set, j) ==
    LET left[k \in 0..NrFields] ==
            IF k = 0 THEN 0
            ELSE left[k - 1] + (IF k \in set THEN Width[Table[k]] + 1 ELSE 0)
    IN  left[j - 1]

\* The columns that cover cell c: there is one at most.
At(set, c) == {j \in set : Left(set, j) < c /\ c <= Left(set, j) + Width[Table[j]]}

LineOf(text) ==
    [c \in 1..Cols |->
        LET at == At(Visible, c)
        IN  IF at = {} THEN Blank ELSE text[Table[Min(at)]]]

HeaderText == [f \in Fields |-> <<f, Header>>]
RowText(c) == [f \in Fields |-> IF ExtRcv[f] \in ConnExt[c] THEN <<f, c>> ELSE Blank]

\* The connections that get a row, by their place in conns, and the line of each.
Matches(c) ==
    \A f \in Fields : Column(f) /\ f \in filter_on =>
        ExtRcv[f] \in ConnExt[c] /\ f \in Passes[c]
RowsShown == {k \in 1..Len(conns) : k > pos_y /\ Matches(conns[k])}
LineFor(k) == 2 + Cardinality(Before(RowsShown, k))

-----------------------------------------------------------------------------
(* Properties.                                                             *)

\* Every variable holds a value of its type, and what is drawn is in the window.
TypeOK ==
    /\ pc \in {"dump", "header", "rows", "keys"}
    /\ {enabled, pinned, filter_on} \subseteq SUBSET Fields
    /\ pos_x \in Nat /\ pos_y \in Nat /\ skip_x \in Nat /\ skip_y \in Nat
    /\ conns \in Seq(Conns) /\ conn_list \in Seq(Conns)
    /\ i \in 1..NrFields + 1 /\ x \in Nat /\ drawn \in BOOLEAN
    /\ DOMAIN touched = DOMAIN win /\ \A l \in DOMAIN touched : touched[l] \in 0..Cols
    /\ pc = "header" \/ (pc = "rows" /\ conn_list # <<>>) => y \in DOMAIN win

\* A frame shows the header, below it, line by line and column under column, the
\* connections that pass the filters of the columns there are, also of columns
\* beyond the right edge, and nothing else: nothing of a refused row, nothing of
\* an earlier frame.
ScreenShows ==
    pc = "keys" =>
        /\ screen[1] = LineOf(HeaderText)
        /\ \A k \in RowsShown : screen[LineFor(k)] = LineOf(RowText(conns[k]))
        /\ \A l \in DOMAIN screen : l > 1 + Cardinality(RowsShown) => screen[l] = Line(Blank)

\* A connection on the screen passes the filter of every displayed field whose
\* filter is on.
FiltersHold ==
    pc = "keys" =>
        \A f \in enabled \cap filter_on, l \in DOMAIN screen, k \in 1..Cols, c \in Conns :
            \A g \in Fields : screen[l][k] = <<g, c>> =>
                ExtRcv[f] \in ConnExt[c] /\ f \in Passes[c]
=============================================================================
