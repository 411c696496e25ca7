----------------------------- MODULE FieldOrder -----------------------------
(***************************************************************************)
(* What the field screen promises: the user arranges a list of fields.     *)
(* Each field keeps its own marks (displayed, pinned, filtered) and the    *)
(* sort key stays the field the user chose, wherever fields move to; a     *)
(* move takes one field out and puts it in elsewhere, in one step.         *)
(* FieldScreen shows how the program does it.                              *)
(***************************************************************************)
EXTENDS Naturals, ListMove

CONSTANTS
    Table,      \* the fields, as compiled in
    EnabledIds, \* those displayed to begin with
    Headings,   \* rows that only name the group below them
    ExtReq,     \* the extension each field needs
    NoneExt,    \* INET_DIAG_NONE: nothing to request
    NoField

VARIABLES
    order,      \* the fields, as listed
    enabled, pinned, filtered,  \* the fields marked so
    key,        \* the field the connections are sorted by, or NoField
    ascending,
    ext_req     \* the extensions requested from now on

vars == <<order, enabled, pinned, filtered, key, ascending, ext_req>>

Ids == ToSet(Table)

Requests(fields) == {ExtReq[i] : i \in fields} \ {NoneExt}

Flip(set, i) == IF i \in set THEN set \ {i} ELSE set \cup {i}

Init ==
    /\ order = Table
    /\ enabled = EnabledIds
    /\ pinned = {} /\ filtered = {}
    /\ key = NoField /\ ascending = FALSE
    /\ ext_req = {}

Toggle(i) ==
    /\ i \notin Headings
    /\ enabled' = Flip(enabled, i)
    /\ UNCHANGED <<order, pinned, filtered, key, ascending, ext_req>>

Pin(i) ==
    /\ i \notin Headings
    /\ pinned' = Flip(pinned, i)
    /\ UNCHANGED <<order, enabled, filtered, key, ascending, ext_req>>

Filter(i) ==
    /\ i \notin Headings
    /\ filtered' = Flip(filtered, i)
    /\ UNCHANGED <<order, enabled, pinned, key, ascending, ext_req>>

\* Descending, then ascending, then unsorted.
Sort(i) ==
    /\ IF key # i THEN key' = i /\ ascending' = FALSE
       ELSE IF ascending THEN key' = NoField /\ UNCHANGED ascending
       ELSE ascending' = TRUE /\ UNCHANGED key
    /\ UNCHANGED <<order, enabled, pinned, filtered, ext_req>>

Move(from, to) ==
    /\ from # to
    /\ order[from] \notin Headings /\ order[to] \notin Headings
    /\ order' = MoveItem(order, from, to)
    /\ UNCHANGED <<enabled, pinned, filtered, key, ascending, ext_req>>

Leave ==
    /\ ext_req' = Requests(enabled)
    /\ UNCHANGED <<order, enabled, pinned, filtered, key, ascending>>

Next ==
    \/ \E i \in Ids : Toggle(i) \/ Pin(i) \/ Filter(i) \/ Sort(i)
    \/ \E from, to \in DOMAIN order : Move(from, to)
    \/ Leave

Spec == Init /\ [][Next]_vars
=============================================================================
