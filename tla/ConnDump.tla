------------------------------ MODULE ConnDump ------------------------------
(***************************************************************************)
(* One display cycle of the main screen: connections_dump() asks the       *)
(* kernel for the sockets and receives the answer message by message,      *)
(* diag_dump() allocates a conn_info for each and add_conn_info() inserts  *)
(* it at its place in n->conn_list, draw_connections() draws and frees     *)
(* them one by one, should_stop() handles one key.  An error leaves the    *)
(* loop and nm_ctx_exit() frees what the list still holds.                 *)
(*                                                                         *)
(* A conn_info is a record: seq is its arrival number in this dump (and    *)
(* its identity on the heap), ext the extensions it carries, val the value *)
(* of the sort key's field.  n->conn_list is the sequence of its elements. *)
(***************************************************************************)
EXTENDS Integers, SequencesExt

CONSTANTS
    Ext,        \* INET_DIAG_* extension numbers, the bits of ci->ext
    NoneBit,    \* INET_DIAG_NONE: every message has it
    AddrBit,    \* INET_DIAG_ADDRESS: the addresses of every message
    Fields,     \* tcp_fields[], headings included
    Headings,   \* those with draw_row, sort_func and filter_* NULL
    ExtRcv,     \* f->ext_rcv of each field
    NoKey,      \* n->sort_key == NULL
    Values,     \* what the field the list is sorted by can hold
    Lines,      \* terminal heights
    MaxConns    \* bound: connections in one dump

ASSUME ConnDumpAssumption ==
    /\ {NoneBit, AddrBit} \subseteq Ext
    /\ Headings \subseteq Fields
    /\ ExtRcv \in [Fields -> Ext]
    /\ NoKey \notin Fields
    /\ Values \subseteq Int
    /\ Lines \subseteq Nat \ {0} /\ Lines # {}
    /\ MaxConns \in Nat

VARIABLES
    pc,             \* where main() is in its loop
    conn_list,      \* n->conn_list
    nr_conns,       \* n->nr_conns
    heap,           \* the conn_infos allocated and not freed, by seq
    arrivals,       \* conn_infos added since the request was sent
    ext_rcv,        \* n->ext_rcv
    sort_key,       \* n->sort_key
    sort_ascending, \* n->sort_ascending
    pos_y,          \* n->pos[SCREEN_MAIN].y
    lines,          \* n->lines
    skip_y,         \* draw_connections(): rows still to skip
    shown,          \* the conn_infos draw_protocol() was called for
    err             \* main(): err

list == <<conn_list, nr_conns, heap, arrivals>>
sort == <<sort_key, sort_ascending>>
view == <<pos_y, lines>>
draw == <<skip_y, shown>>
vars == <<pc, list, ext_rcv, sort, view, draw, err>>

PC == {"dump", "recv", "parse", "draw", "rows", "input", "exit", "stopped",
       "fault"}
Conn == [seq : Nat \ {0}, ext : SUBSET Ext, val : Values]
Base == {NoneBit, AddrBit}

Init ==
    /\ pc = "dump"
    /\ conn_list = <<>> /\ nr_conns = 0 /\ heap = {} /\ arrivals = 0
    /\ ext_rcv = {}
    /\ sort_key = NoKey /\ sort_ascending = FALSE
    /\ pos_y = 0 /\ lines \in Lines
    /\ skip_y = 0 /\ shown = <<>>
    /\ err = 1

-----------------------------------------------------------------------------
(* add_conn_info(): where a new conn_info goes.                            *)

Keyed(ci) == ExtRcv[sort_key] \in ci.ext

\* sort_common() and the other sort functions: the sign of the comparison.
Compare(v, w) == IF v < w THEN -1 ELSE IF v > w THEN 1 ELSE 0

\* A mistake: equal values break the loop too, and a dump turns them round.
BreaksAtEqual(ci, pos) ==
    \/ ~Keyed(pos)
    \/ sort_ascending /\ Compare(ci.val, pos.val) <= 0
    \/ ~sort_ascending /\ Compare(ci.val, pos.val) >= 0

\* The loop of add_conn_info() breaks at element pos.
BreaksAt(ci, pos) ==
    \/ ~Keyed(pos)
    \/ sort_ascending /\ Compare(ci.val, pos.val) < 0
    \/ ~sort_ascending /\ Compare(ci.val, pos.val) > 0

AppendsAtOnce(ci) == sort_key = NoKey \/ ~Keyed(ci) \/ conn_list = <<>>

AddConnInfo(ci) ==
    IF AppendsAtOnce(ci)
    THEN Append(conn_list, ci)
    ELSE LET breaks == {i \in DOMAIN conn_list : BreaksAt(ci, conn_list[i])}
         IN  IF breaks = {} THEN Append(conn_list, ci)
             ELSE InsertAt(conn_list, Min(breaks), ci)

\* n->sort_key->sort_func is called, and it is NULL in a heading.
CallsNullSort(ci) ==
    /\ ~AppendsAtOnce(ci)
    /\ sort_key \in Headings
    /\ Keyed(conn_list[1])

-----------------------------------------------------------------------------
(* connections_dump() and diag_dump().                                     *)

\* A mistake: n->ext_rcv keeps what the last dump received.
SendmsgKeepsExt ==
    /\ pc = "dump"
    /\ \/ pc' = "recv" /\ ext_rcv' = ext_rcv \cup Base /\ arrivals' = 0
       \/ pc' = "exit" /\ UNCHANGED <<ext_rcv, arrivals>>
    /\ err' = 1
    /\ UNCHANGED <<conn_list, nr_conns, heap, sort, view, draw>>

Sendmsg ==
    /\ pc = "dump"
    /\ \/ pc' = "recv" /\ ext_rcv' = Base /\ arrivals' = 0
       \/ pc' = "exit" /\ UNCHANGED <<ext_rcv, arrivals>>
    /\ err' = 1
    /\ UNCHANGED <<conn_list, nr_conns, heap, sort, view, draw>>

Recvmsg ==
    /\ pc = "recv"
    /\ pc' \in {"parse", "exit"}
    /\ UNCHANGED <<list, ext_rcv, sort, view, draw, err>>

\* !NLMSG_OK(nlh, sz): the buffer is used up, receive the next one.
BufferEnd ==
    /\ pc = "parse"
    /\ pc' = "recv"
    /\ UNCHANGED <<list, ext_rcv, sort, view, draw, err>>

NlmsgDone ==
    /\ pc = "parse"
    /\ pc' = "draw"
    /\ err' = 0
    /\ UNCHANGED <<list, ext_rcv, sort, view, draw>>

\* A mistake: NLMSG_ERROR leaves through out instead of err_out.
NlmsgErrorIsSuccess ==
    /\ pc = "parse"
    /\ pc' = "exit"
    /\ err' = 0
    /\ UNCHANGED <<list, ext_rcv, sort, view, draw>>

\* A mistake: the dump is asked for again, on the list of the one that failed.
NlmsgErrorRetries ==
    /\ pc = "parse"
    /\ pc' = "dump"
    /\ UNCHANGED <<list, ext_rcv, sort, view, draw, err>>

NlmsgError ==
    /\ pc = "parse"
    /\ pc' = "exit"
    /\ UNCHANGED <<list, ext_rcv, sort, view, draw, err>>

\* A mistake: the conn_info with the unknown attribute is not freed.
DiagDumpFailsLeaks ==
    /\ pc = "parse"
    /\ \E allocated \in {{}, {arrivals + 1}} : heap' = heap \cup allocated
    /\ pc' = "exit"
    /\ UNCHANGED <<conn_list, nr_conns, arrivals, ext_rcv, sort, view, draw, err>>

\* conn_info_alloc() fails, or an attribute's type is unknown and the new
\* conn_info is freed again (free_ci).
DiagDumpFails ==
    /\ pc = "parse"
    /\ \E allocated \in {{}, {arrivals + 1}} :
           heap' = (heap \cup allocated) \ allocated
    /\ pc' = "exit"
    /\ UNCHANGED <<conn_list, nr_conns, arrivals, ext_rcv, sort, view, draw, err>>

\* conn_info_alloc(), and the attributes of the message.
Received(attrs, val) == [seq |-> arrivals + 1, ext |-> Base \cup attrs, val |-> val]

Allocate(ci) ==
    /\ pc = "parse"
    /\ arrivals < MaxConns
    /\ heap' = heap \cup {ci.seq}
    /\ ext_rcv' = ext_rcv \cup ci.ext
    /\ UNCHANGED <<sort, view, draw, err>>

\* add_conn_info() has returned, or has called NULL.
Count == nr_conns' = nr_conns + 1 /\ arrivals' = arrivals + 1 /\ UNCHANGED pc
Crash == pc' = "fault" /\ UNCHANGED <<conn_list, nr_conns, arrivals>>

DiagDump(attrs, val) ==
    LET ci == Received(attrs, val) IN
    /\ Allocate(ci)
    /\ \/ CallsNullSort(ci) /\ Crash
       \/ ~CallsNullSort(ci) /\ conn_list' = AddConnInfo(ci) /\ Count

-----------------------------------------------------------------------------
(* draw_connections().                                                     *)

\* A mistake: the last row is taken to be row nr_conns.
ClampedOneLow ==
    IF nr_conns > 0
    THEN IF pos_y > nr_conns THEN nr_conns ELSE pos_y
    ELSE IF pos_y > 0 THEN 0 ELSE pos_y

ClampedY ==
    IF nr_conns > 0
    THEN IF pos_y > nr_conns - 1 THEN nr_conns - 1 ELSE pos_y
    ELSE IF pos_y > 0 THEN 0 ELSE pos_y

DrawConnections ==
    /\ pc = "draw"
    /\ pc' = "rows"
    /\ pos_y' = ClampedY
    /\ skip_y' = ClampedY
    /\ shown' = <<>>
    /\ UNCHANGED <<list, ext_rcv, sort, lines, err>>

\* conn_info_free() and --nr_conns, in both freeing loops.
FreeConn(ci) ==
    /\ heap' = heap \ {ci.seq}
    /\ nr_conns' = nr_conns - 1
    /\ UNCHANGED arrivals

FreeFirst ==
    /\ conn_list # <<>>
    /\ conn_list' = Tail(conn_list)
    /\ FreeConn(Head(conn_list))

\* The body of the loop over the list: draw_protocol(), unless the row is scrolled away.
DrawOrSkip(ci) ==
    /\ pc = "rows"
    /\ IF skip_y > 0
       THEN skip_y' = skip_y - 1 /\ UNCHANGED shown
       ELSE shown' = Append(shown, ci) /\ UNCHANGED skip_y
    /\ UNCHANGED <<pc, ext_rcv, sort, view, err>>

DrawRow == FreeFirst /\ DrawOrSkip(Head(conn_list))

\* The loop is over.
RowsDrawn ==
    /\ pc = "rows"
    /\ pc' = "input"
    /\ shown' = <<>>      \* the history of one frame
    /\ UNCHANGED <<list, ext_rcv, sort, view, skip_y, err>>

DrawEnd == conn_list = <<>> /\ RowsDrawn

-----------------------------------------------------------------------------
(* should_stop(): one key of the main screen, then the next dump.          *)

\* (n->lines - 4) / 2: C rounds towards zero.
HalfPage == IF lines >= 4 THEN (lines - 4) \div 2 ELSE -((4 - lines) \div 2)

ScrollTo(y) ==
    /\ pc = "input"
    /\ pc' = "dump"
    /\ pos_y' = y
    /\ UNCHANGED <<list, ext_rcv, sort, lines, draw, err>>

KeyNone == ScrollTo(pos_y)
KeyDown == ScrollTo(pos_y + 1)
KeyUp   == pos_y > 0 /\ ScrollTo(pos_y - 1)
KeyPgDn == ScrollTo(pos_y + HalfPage)
KeyPgUp ==
    /\ pos_y > 0
    /\ ScrollTo(IF pos_y - HalfPage < 0 THEN 0 ELSE pos_y - HalfPage)

KeyResize ==
    /\ pc = "input"
    /\ pc' = "dump"
    /\ lines' \in Lines
    /\ UNCHANGED <<list, ext_rcv, sort, pos_y, draw, err>>

\* The field screen was visited and 's' pressed on field f.
SortBy(f) ==
    /\ pc = "input"
    /\ IF sort_key = f
       THEN IF sort_ascending
            THEN sort_key' = NoKey /\ UNCHANGED sort_ascending
            ELSE sort_ascending' = TRUE /\ UNCHANGED sort_key
       ELSE sort_key' = f /\ sort_ascending' = FALSE
    /\ UNCHANGED <<pc, list, ext_rcv, view, draw, err>>

Quit ==
    /\ pc = "input"
    /\ pc' = "exit"
    /\ UNCHANGED <<list, ext_rcv, sort, view, draw, err>>

-----------------------------------------------------------------------------
(* nm_ctx_exit().                                                          *)

Exiting == pc = "exit" /\ UNCHANGED <<pc, ext_rcv, sort, view, draw, err>>

Exited ==
    /\ pc = "exit"
    /\ pc' = "stopped"
    /\ UNCHANGED <<list, ext_rcv, sort, view, draw, err>>

CtxExitFree == FreeFirst /\ Exiting
CtxExitEnd == conn_list = <<>> /\ Exited

\* The process has ended, or died of a NULL call.
Terminated == pc \in {"stopped", "fault"} /\ UNCHANGED vars

Next ==
    \/ Sendmsg \/ Recvmsg \/ BufferEnd \/ NlmsgDone \/ NlmsgError
    \/ DiagDumpFails
    \/ \E attrs \in SUBSET Ext, val \in Values : DiagDump(attrs, val)
    \/ DrawConnections \/ DrawRow \/ DrawEnd
    \/ KeyNone \/ KeyDown \/ KeyUp \/ KeyPgDn \/ KeyPgUp \/ KeyResize
    \/ \E f \in Fields : SortBy(f)
    \/ Quit \/ CtxExitFree \/ CtxExitEnd
    \/ Terminated

Spec == Init /\ [][Next]_vars

-----------------------------------------------------------------------------
(* Properties.                                                             *)

\* Every variable holds a value of its type; between two dumps, and when the
\* process has ended, the list is empty.
TypeOK ==
    /\ pc \in PC
    /\ conn_list \in Seq(Conn)
    /\ nr_conns \in Nat
    /\ heap \subseteq Nat \ {0}
    /\ arrivals \in Nat
    /\ ext_rcv \subseteq Ext
    /\ sort_key \in Fields \cup {NoKey}
    /\ sort_ascending \in BOOLEAN
    /\ pos_y \in Int
    /\ lines \in Lines
    /\ skip_y \in Int
    /\ shown \in Seq(Conn)
    /\ err \in {0, 1}
    /\ pc \in {"dump", "input", "stopped"} => conn_list = <<>>

Seqs(s) == {s[i].seq : i \in DOMAIN s}

\* n->nr_conns, which sizes the window and is shown in the summary, counts the
\* list; and what is allocated is what is on the list, so that no conn_info is
\* leaked or freed twice on any path, failed dumps included.
Accounting ==
    pc # "fault" => /\ nr_conns = Len(conn_list)
                    /\ heap = Seqs(conn_list)

\* The order the user asked for: connections that have the sort key's field
\* before those that have not, in key order, and in arrival order where the key
\* does not decide.
Precedes(a, b) ==
    IF sort_key = NoKey THEN a.seq < b.seq
    ELSE \/ Keyed(a) /\ ~Keyed(b)
         \/ /\ Keyed(a) /\ Keyed(b)
            /\ \/ IF sort_ascending THEN a.val < b.val ELSE a.val > b.val
               \/ a.val = b.val /\ a.seq < b.seq
         \/ ~Keyed(a) /\ ~Keyed(b) /\ a.seq < b.seq

Ordered(s) == \A i, j \in DOMAIN s : i < j => Precedes(s[i], s[j])

\* add_conn_info() keeps the list sorted and stable after every insertion, with
\* the connections that lack the key at the end; the rows on the screen and those
\* still to be drawn are in that order too.
SortedList ==
    /\ Ordered(conn_list)
    /\ pc = "rows" => Ordered(shown \o conn_list)

\* Nothing the kernel reported is missing from the list or on it twice, and
\* n->ext_rcv names exactly the extensions some connection of the list carries:
\* the columns and filters draw_protocol() goes by.
DumpComplete ==
    pc \in {"recv", "parse", "draw"} =>
        /\ Len(conn_list) = arrivals
        /\ Seqs(conn_list) = 1..arrivals
        /\ ext_rcv = Base \cup UNION {conn_list[i].ext : i \in DOMAIN conn_list}

\* However the list has shrunk since the user scrolled, a frame with connections
\* offers at least one row, and all rows from the cursor on.
CursorOnList ==
    pc = "rows" /\ conn_list = <<>> =>
        /\ arrivals > 0 => shown # <<>>
        /\ Len(shown) = arrivals - (IF pos_y > 0 THEN pos_y ELSE 0)

\* The exit status tells a failure from a quit: main() ends with 0 only out of
\* should_stop(), after a whole frame.
StatusAction ==
    [][pc' = "exit" /\ pc # "exit" => (err' = 0 <=> pc = "input")]_vars

\* A sort key can be compared: no NULL function is called for it.
NoNullCall == pc # "fault"
=============================================================================
