---------------------------- MODULE FieldScreen ----------------------------
(***************************************************************************)
(* The field screen: the table tcp_fields[], the handlers of its keys and  *)
(* draw_field_header(), which shows the table as it would be after the     *)
(* move in progress.  Pointers into the table (sel_field, sort_key) are    *)
(* row numbers, counted from 0 as in C.  The move of the selected field is *)
(* a loop that swaps neighbours; each turn is a step.                      *)
(***************************************************************************)
EXTENDS Integers, ListMove

CONSTANTS
    Table,      \* the ids of tcp_fields[] as compiled in
    Headings,   \* those with draw_row and filter_parse NULL
    EnabledIds, \* those enabled as compiled in
    ExtReq,     \* f->ext_req of each
    NoneExt,    \* INET_DIAG_NONE
    NoField,    \* stands for a NULL sort key where fields are named by id
    Lines,      \* terminal heights
    MaxMarks    \* bound: marks (displayed, pinned, filtered) set at one time

NrFields == Len(Table)      \* nr_tcp_fields
Ids == ToSet(Table)
Rows == 0..NrFields - 1
NULL == -1

ASSUME FieldScreenAssumption ==
    /\ Table \in Seq(Ids) /\ NrFields > 0
    /\ \A i, j \in 1..NrFields : i # j => Table[i] # Table[j]
    /\ Headings \subseteq Ids
    /\ EnabledIds \subseteq {i \in Ids \ Headings : ExtReq[i] = NoneExt}
    /\ NoField \notin Ids
    \* Below three lines (n->lines - 4) / 2 is negative and paging leaves the table.
    /\ Lines \subseteq Nat \ 0..2 /\ Lines # {}
    /\ MaxMarks \in Nat

VARIABLES
    tcp_fields,     \* the table: id, enabled, pinned, filter_on, filter # NULL
    sort_key, sort_ascending,
    sel_field,      \* n->sel_field, the field being moved
    pos_y,          \* n->pos[SCREEN_FIELD].y
    f,              \* field_key_left_handler(): the loop's f, or NULL outside it
    ext_req, cur_screen, lines

vars == <<tcp_fields, sort_key, sort_ascending, sel_field, pos_y, f, ext_req,
          cur_screen, lines>>

Field == [id : Ids, enabled : BOOLEAN, pinned : BOOLEAN, filter_on : BOOLEAN,
          filter : BOOLEAN]
At(row) == tcp_fields[row + 1]
Cursor == At(pos_y)
IsHeading(field) == field.id \in Headings

Init ==
    /\ tcp_fields = [i \in 1..NrFields |->
          [id |-> Table[i], enabled |-> Table[i] \in EnabledIds,
           pinned |-> FALSE, filter_on |-> FALSE, filter |-> FALSE]]
    /\ sort_key = NULL /\ sort_ascending = FALSE
    /\ sel_field = NULL /\ pos_y = 0 /\ f = NULL
    /\ ext_req = {} /\ cur_screen = "main" /\ lines \in Lines

-----------------------------------------------------------------------------
(* should_stop() calls a handler of the current screen.                    *)

OnField == cur_screen = "field" /\ f = NULL

EnterField ==
    /\ cur_screen = "main"
    /\ cur_screen' = "field"
    /\ UNCHANGED <<tcp_fields, sort_key, sort_ascending, sel_field, pos_y, f,
                   ext_req, lines>>

Resize ==
    /\ f = NULL
    /\ lines' \in Lines
    /\ UNCHANGED <<tcp_fields, sort_key, sort_ascending, sel_field, pos_y, f,
                   ext_req, cur_screen>>

Marks(table) ==
    Cardinality({i \in 1..NrFields : table[i].enabled})
    + Cardinality({i \in 1..NrFields : table[i].pinned})
    + Cardinality({i \in 1..NrFields : table[i].filter_on \/ table[i].filter})

\* A handler that changes only the field under the cursor.
ChangeCursorField(field) ==
    /\ OnField
    /\ tcp_fields' = [tcp_fields EXCEPT ![pos_y + 1] = field]
    /\ Marks(tcp_fields') <= MaxMarks
    /\ UNCHANGED <<sort_key, sort_ascending, sel_field, pos_y, f, ext_req,
                   cur_screen, lines>>

Space ==
    /\ ~IsHeading(Cursor)
    /\ ChangeCursorField([Cursor EXCEPT !.enabled = ~@])

PinKey ==
    /\ ~IsHeading(Cursor)
    /\ ChangeCursorField([Cursor EXCEPT !.pinned = ~@])

\* filter_parse(): a valid line replaces the filter; a line with an operator and
\* no value, and an empty line where there is a filter, succeed and leave it; any
\* other line fails.
FilterParse(field) ==
    {[field EXCEPT !.filter = TRUE, !.filter_on = TRUE],
     [field EXCEPT !.filter_on = TRUE],
     field}

FilterKey ==
    /\ ~IsHeading(Cursor)
    /\ \E field \in IF Cursor.filter_on
                    THEN {[Cursor EXCEPT !.filter_on = FALSE]}
                    ELSE FilterParse(Cursor) :
           ChangeCursorField(field)

SortKey ==
    /\ OnField
    /\ IF sort_key = pos_y
       THEN IF ~sort_ascending
            THEN sort_ascending' = TRUE /\ UNCHANGED sort_key
            ELSE sort_key' = NULL /\ UNCHANGED sort_ascending
       ELSE sort_key' = pos_y /\ sort_ascending' = FALSE
    /\ UNCHANGED <<tcp_fields, sel_field, pos_y, f, ext_req, cur_screen, lines>>

-----------------------------------------------------------------------------
(* The cursor.                                                             *)

CursorTo(row) ==
    /\ OnField
    /\ pos_y' = row
    /\ UNCHANGED <<tcp_fields, sort_key, sort_ascending, sel_field, f, ext_req,
                   cur_screen, lines>>

\* (n->lines - 4) / 2: C rounds towards zero.
HalfPage == IF lines >= 4 THEN (lines - 4) \div 2 ELSE -((4 - lines) \div 2)

\* A mistake: the last page is not cut short.
PgDnUnclamped == pos_y < NrFields - 1 /\ CursorTo(pos_y + HalfPage)

KeyDown == pos_y < NrFields - 1 /\ CursorTo(pos_y + 1)
KeyUp   == pos_y > 0 /\ CursorTo(pos_y - 1)
PgDn ==
    /\ pos_y < NrFields - 1
    /\ CursorTo(IF pos_y + HalfPage > NrFields - 1 THEN NrFields - 1
                ELSE pos_y + HalfPage)
PgUp ==
    /\ pos_y > 0
    /\ CursorTo(IF pos_y - HalfPage < 0 THEN 0 ELSE pos_y - HalfPage)

-----------------------------------------------------------------------------
(* Moving a field.                                                         *)

KeyRight ==
    /\ OnField
    /\ sel_field = NULL
    /\ ~IsHeading(Cursor)
    /\ sel_field' = pos_y
    /\ UNCHANGED <<tcp_fields, sort_key, sort_ascending, pos_y, f, ext_req,
                   cur_screen, lines>>

\* A mistake: a field can be dropped on a heading.
KeyLeftOnHeading ==
    /\ OnField
    /\ sel_field # NULL
    /\ sel_field # pos_y
    /\ f' = sel_field
    /\ UNCHANGED <<tcp_fields, sort_key, sort_ascending, sel_field, pos_y,
                   ext_req, cur_screen, lines>>

KeyLeft ==
    /\ OnField
    /\ sel_field # NULL
    /\ ~IsHeading(Cursor)
    /\ sel_field # pos_y
    /\ f' = sel_field
    /\ UNCHANGED <<tcp_fields, sort_key, sort_ascending, sel_field, pos_y,
                   ext_req, cur_screen, lines>>

\* A mistake: the sort key that points to one of the two rows stays there.
SwapFieldOnly(a, b) ==
    /\ tcp_fields' = [tcp_fields EXCEPT ![a + 1] = At(b), ![b + 1] = At(a)]
    /\ UNCHANGED sort_key

SwapField(a, b) ==
    /\ sort_key' = IF sort_key = a THEN b ELSE IF sort_key = b THEN a ELSE sort_key
    /\ tcp_fields' = [tcp_fields EXCEPT ![a + 1] = At(b), ![b + 1] = At(a)]

\* A mistake: the loop goes down whichever way the field moves.
SwapStepDown ==
    LET next == f + 1 IN
    /\ f # NULL /\ next <= NrFields - 1
    /\ SwapField(f, next)
    /\ IF next = pos_y
       THEN f' = NULL /\ sel_field' = NULL
       ELSE f' = next /\ UNCHANGED sel_field
    /\ UNCHANGED <<sort_ascending, pos_y, ext_req, cur_screen, lines>>

\* One turn of the loop; after the last one nothing is selected.
SwapStep ==
    LET next == IF sel_field < pos_y THEN f + 1 ELSE f - 1 IN
    /\ f # NULL
    /\ SwapField(f, next)
    /\ IF next = pos_y
       THEN f' = NULL /\ sel_field' = NULL
       ELSE f' = next /\ UNCHANGED sel_field
    /\ UNCHANGED <<sort_ascending, pos_y, ext_req, cur_screen, lines>>

\* A mistake: the extensions of hidden fields stay requested.
QuitKeepsRequests ==
    /\ OnField
    /\ ext_req' = ext_req \cup
           ({ExtReq[At(r).id] : r \in {r \in Rows : At(r).enabled}} \ {NoneExt})
    /\ sel_field' = NULL
    /\ cur_screen' = "main"
    /\ UNCHANGED <<tcp_fields, sort_key, sort_ascending, pos_y, f, lines>>

Quit ==
    /\ OnField
    /\ ext_req' = {ExtReq[At(r).id] : r \in {r \in Rows : At(r).enabled}} \ {NoneExt}
    /\ sel_field' = NULL
    /\ cur_screen' = "main"
    /\ UNCHANGED <<tcp_fields, sort_key, sort_ascending, pos_y, f, lines>>

Next ==
    \/ EnterField \/ Resize
    \/ Space \/ PinKey \/ FilterKey \/ SortKey
    \/ KeyDown \/ KeyUp \/ PgDn \/ PgUp
    \/ KeyRight \/ KeyLeft \/ SwapStep
    \/ Quit

\* The loop of field_key_left_handler() runs on.
Spec == Init /\ [][Next]_vars /\ WF_vars(SwapStep)

-----------------------------------------------------------------------------
(* draw_field_header().                                                    *)

\* A mistake: the line the field is taken from is not filled from below.
PreviewOffByOne(i) ==
    IF sel_field = NULL \/ sel_field = pos_y THEN i
    ELSE IF i = pos_y THEN sel_field
    ELSE IF sel_field < i /\ i < pos_y THEN i + 1
    ELSE IF pos_y < i /\ i <= sel_field THEN i - 1
    ELSE i

\* The row of the table that line i of the list shows.
Preview(i) ==
    IF sel_field = NULL \/ sel_field = pos_y THEN i
    ELSE IF i = pos_y THEN sel_field
    ELSE IF sel_field <= i /\ i < pos_y THEN i + 1
    ELSE IF pos_y < i /\ i <= sel_field THEN i - 1
    ELSE i

\* A mistake: half a page is counted from the top of the screen, not of the list.
SkipWholeScreen ==
    LET half  == IF pos_y - lines \div 2 < 0 THEN 0 ELSE pos_y - lines \div 2
    IN  IF NrFields - half < lines THEN NrFields - lines ELSE half

\* The first line of the list on the screen; below zero, all of it is.
Skip ==
    LET half  == IF pos_y - HalfPage < 0 THEN 0 ELSE pos_y - HalfPage
    IN  IF NrFields - half < lines - 4 THEN NrFields - (lines - 4) ELSE half

-----------------------------------------------------------------------------
(* Properties.                                                             *)

\* The table and the pointers into it hold values of their types.
TypeOK ==
    /\ tcp_fields \in [1..NrFields -> Field]
    /\ sort_key \in Rows \cup {NULL} /\ sort_ascending \in BOOLEAN
    /\ sel_field \in Rows \cup {NULL}
    /\ pos_y \in Rows
    /\ f \in Rows \cup {NULL}
    /\ ext_req \subseteq {ExtReq[i] : i \in Ids} \ {NoneExt}
    /\ cur_screen \in {"main", "field"}
    /\ lines \in Lines

IdsIn(table) == [i \in 1..NrFields |-> table[i].id]
Marked(mark(_)) == {At(r).id : r \in {r \in Rows : mark(At(r))}}
IsEnabled(field) == field.enabled
IsPinned(field) == field.pinned
IsFiltered(field) == field.filter_on

\* What the user sees of the table: a move counts when its loop has ended, so
\* until then the moving field is put back to where it was.
Order == INSTANCE FieldOrder WITH
    order <- IF f = NULL THEN IdsIn(tcp_fields)
             ELSE MoveItem(IdsIn(tcp_fields), f + 1, sel_field + 1),
    enabled <- Marked(IsEnabled),
    pinned <- Marked(IsPinned),
    filtered <- Marked(IsFiltered),
    key <- IF sort_key = NULL THEN NoField ELSE At(sort_key).id,
    ascending <- sort_ascending

\* The loop of neighbour swaps moves one field, keeps every mark with its field
\* and the sort key on the field the user chose; no other handler moves anything.
ImplementsOrder == Order!Spec

\* The list shown while a field is being moved is the list that Left will leave.
PreviewIsTheMove ==
    sel_field # NULL /\ f = NULL =>
        [i \in 1..NrFields |-> At(Preview(i - 1)).id] =
            MoveItem(IdsIn(tcp_fields), sel_field + 1, pos_y + 1)

\* The line under the cursor is on the screen, whatever the screen's height and
\* wherever paging has put the cursor (four lines are taken by the text above).
CursorVisible ==
    lines >= 5 => /\ Skip <= pos_y
                  /\ pos_y - (IF Skip < 0 THEN 0 ELSE Skip) < lines - 4

\* Back on the main screen the extensions requested are those of the fields that
\* are displayed, no more and no less, and no move is left half done.
RequestsMatch ==
    cur_screen = "main" =>
        /\ ext_req = {ExtReq[i] : i \in Marked(IsEnabled)} \ {NoneExt}
        /\ sel_field = NULL

\* The loop ends, for every distance and direction.
MoveEnds == f # NULL ~> f = NULL

\* A filter that is on is there to be applied.
FilterOnHasFilter == \A r \in Rows : At(r).filter_on => At(r).filter
=============================================================================
