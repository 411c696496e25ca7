----------------------------- MODULE ListDialog -----------------------------
(***************************************************************************)
(* The filter of a field from the key `f' of the field screen to the rows  *)
(* of the connections it lets through.  The fields whose values have names *)
(* are filtered by a dialog that lists the names (fp_str_common() and      *)
(* draw_str()), each wgetch() of which is a step; of the line dialogs only *)
(* the outcome is taken here (LineDialog has them in detail).              *)
(*                                                                         *)
(* One field is followed.  chosen is history: the names the user sees      *)
(* starred, kept by the line of the screen and not by the bit.             *)
(***************************************************************************)
EXTENDS FieldValues

CONSTANTS
    Fields,     \* the fields looked at
    Data,       \* the values of each, as the kernel's answers hold them
    Typed,      \* the filters the line dialogs make for the others
    MaxStars    \* bound: names starred at a time

\* A character of a string, whose end is 0; a char is signed on the machine modelled.
Chars == (-128..127) \ {0}

\* What the kernel answers with: bytes, flags and the shutdown mask in their range.  The
\* connections listed at a time are of one family.
Values(f) ==
    CASE f = "sport" -> (0..255) \X (0..255)
      [] f = "bw" -> (0..2^WordBits - 1) \X (0..2^WordBits - 1)
      [] f \in Strings -> Seq(Chars)
      [] f = "shutdown" -> 0..3
      [] f \in ReadPast \cup {"ipv6only"} -> {0, 1}
      [] OTHER -> 0..255
Family(n) == [1..n -> 0..255]

\* An address is typed with a prefix length, and no string is typed without a character.
ASSUME ListDialogAssumption ==
    /\ Fields \subseteq AllFields
    /\ MaxStars \in Nat
    /\ \A f \in Fields \ AddressFields : Data[f] \subseteq Values(f)
    /\ \A f \in Fields \cap AddressFields :
          /\ \E n \in {4, 16} : Data[f] \subseteq Family(n)
          /\ \A flt \in Typed[f] :
                flt.val[1] \in Family(4) \cup Family(16) /\ flt.val[2] \in 0..128
    /\ \A f \in Fields \cap Strings : \A flt \in Typed[f] : flt.val \in Seq(Chars) \ {<<>>}

VARIABLES
    field,
    pc,         \* "keys" of the field screen, or "dialog"
    filter,     \* f->filter: <<>> for NULL, or a record in a sequence
    filter_on,
    y, selected,    \* local variables of fp_str_common()
    chosen          \* history

vars == <<field, pc, filter, filter_on, y, selected, chosen>>

Init ==
    /\ field \in Fields
    /\ pc = "keys"
    /\ filter = <<>> /\ filter_on = FALSE
    /\ y = 1 /\ selected = {} /\ chosen = {}

-----------------------------------------------------------------------------

\* The height the fp_ functions pass: one line for each name.
Rows(f) == End[f] + 1 - Start[f]

\* draw_str(): the name that stands on a line of the window.
NameOn(line) == line - (1 - Start[field])

\* field_filter_handler() for a filter that is off.
Open ==
    /\ pc = "keys" /\ field \in Named /\ ~filter_on
    /\ pc' = "dialog"
    /\ y' = 1
    /\ selected' = IF filter = <<>> THEN {} ELSE filter[1].val
    /\ UNCHANGED <<field, filter, filter_on, chosen>>

KeyDown ==
    /\ pc = "dialog"
    /\ y < Rows(field)
    /\ y' = y + 1
    /\ UNCHANGED <<field, pc, filter, filter_on, selected, chosen>>

KeyUp ==
    /\ pc = "dialog"
    /\ y > 1
    /\ y' = y - 1
    /\ UNCHANGED <<field, pc, filter, filter_on, selected, chosen>>

Toggle(set, e) == IF e \in set THEN set \ {e} ELSE set \cup {e}

\* A mistake: the bits are counted from 0, the lines from 1.
SpaceByLine ==
    /\ pc = "dialog"
    /\ selected' = Toggle(selected, y - 1)
    /\ Cardinality(selected') <= MaxStars
    /\ chosen' = Toggle(chosen, NameOn(y))
    /\ UNCHANGED <<field, pc, filter, filter_on, y>>

\* v = 1U << (y - offset).
Space ==
    /\ pc = "dialog"
    /\ LET offset == 1 - Start[field]
       IN  selected' = Toggle(selected, y - offset)
    /\ Cardinality(selected') <= MaxStars
    /\ chosen' = Toggle(chosen, NameOn(y))
    /\ UNCHANGED <<field, pc, filter, filter_on, y>>

Return(set) == <<[op |-> "OTHER", val |-> set]>>

\* The window is left; the local variables are gone.
Back == pc' = "keys" /\ y' = 1 /\ selected' = {}

\* A mistake: a dialog left with nothing starred turns the filter on.
AcceptEmpty ==
    /\ pc = "dialog"
    /\ Back
    /\ filter' = Return(selected)
    /\ filter_on' = TRUE
    /\ UNCHANGED <<field, chosen>>

\* q, Q or escape with names starred.
Accept ==
    /\ pc = "dialog" /\ selected # {}
    /\ Back
    /\ filter' = Return(selected)
    /\ filter_on' = TRUE
    /\ UNCHANGED <<field, chosen>>

\* The same when calloc() fails, which it is called for once a field: the names are lost.
AcceptNoMemory ==
    /\ pc = "dialog" /\ selected # {} /\ filter = <<>>
    /\ Back
    /\ chosen' = {}
    /\ UNCHANGED <<field, filter, filter_on>>

\* The same with nothing starred: the filter is forgotten and stays off.
Leave ==
    /\ pc = "dialog" /\ selected = {}
    /\ Back
    /\ filter' = IF filter = <<>> THEN <<>> ELSE Return({})
    /\ UNCHANGED <<field, filter_on, chosen>>

\* A line dialog has made a filter.
Type ==
    /\ pc = "keys" /\ field \notin Named /\ ~filter_on
    /\ \E flt \in Typed[field] : filter' = <<flt>>
    /\ filter_on' = TRUE
    /\ UNCHANGED <<field, pc, y, selected, chosen>>

\* field_filter_handler() for a filter that is on.
FilterOff ==
    /\ pc = "keys" /\ filter_on
    /\ filter_on' = FALSE
    /\ UNCHANGED <<field, pc, filter, y, selected, chosen>>

Next ==
    \/ Open \/ KeyDown \/ KeyUp \/ Space
    \/ Accept \/ AcceptNoMemory \/ Leave
    \/ Type \/ FilterOff

Spec == Init /\ [][Next]_vars

\* draw_protocol(): whether the connection with a value gets a row.
RowShown(d) == IF filter_on THEN Answers(field, filter[1], d) ELSE {TRUE}

-----------------------------------------------------------------------------
(* Properties.                                                             *)

\* Type correctness.  The cursor is on a name of the list and every bit set stands for a
\* name of it, so no shift by a bit the word does not have: a star that is not on the
\* list could not be taken off again.
TypeOK ==
    /\ field \in Fields /\ pc \in {"keys", "dialog"} /\ filter_on \in BOOLEAN
    /\ field \in Named =>
          /\ y \in 1..Rows(field)
          /\ \A set \in {selected, chosen} : set \subseteq Listed(field)
    /\ filter # <<>> /\ field \in Named => filter[1].val \subseteq Listed(field)

\* The bits of an address, from the left.
BitOf(addr, i) == (addr[(i \div 8) + 1] \div 2^(7 - (i % 8))) % 2

StartsWith(addr, prefix, n) ==
    \A i \in 0..(8 * Len(addr) - 1) : i < n => BitOf(addr, i) = BitOf(prefix, i)

Substrings(s) == {SubSeq(s, i, j) : i \in 1..Len(s), j \in 0..Len(s)}

\* What a user takes a filter for, in terms of what the column shows.
Wanted(flt, d) ==
    LET text == Shown(field, d)
    IN  CASE field \in Masks -> text = chosen
          [] field \in Named \ Masks -> text \in chosen
          [] field \in Numbers -> HoldsFor(flt.op, text, flt.val)
          [] field \in Strings ->
                 \/ flt.op = "EQ" /\ text = flt.val
                 \/ flt.op = "CT" /\ flt.val \in Substrings(text)
                 \/ flt.op = "NC" /\ flt.val \notin Substrings(text)
          [] field \in AddressFields ->
                 (flt.op = "NE") # (/\ Len(text) = Len(flt.val[1])
                                    /\ StartsWith(text, flt.val[1], flt.val[2]))

\* With a filter on, the rows on the screen are those whose column shows one of the names
\* the user starred, in a set of flags exactly those, a number in the relation typed, a
\* string that contains the one typed, or an address that begins with the bits of the
\* prefix - although the column and the filter read the value with layouts of their own,
\* and the dialog numbers names by lines, bits and values.  An operator that is not of
\* the field's kind lets nothing through.  Of the two fields named `enabled' nothing of
\* the kind can be said: their filter reads more than the byte it is given.
RowsAsChosen ==
    filter_on /\ field \notin ReadPast =>
        \A d \in Data[field] : \A shown \in RowShown(d) : shown <=> Wanted(filter[1], d)

\* A filter made by starring names is never on with no name starred: it would hide every
\* connection, and the screen would not say which filter does.
OnMeansChosen ==
    filter_on /\ field \in Named => chosen # {} /\ filter[1].val = chosen

\* Sorting by a column sorts by what the column shows: values with the same text are
\* equal, names and numbers are in the order of their values, and strings, addresses and
\* sets of flags are in one order, whichever the two compared.
SortAsShown ==
    LET Cmp(d, e) == Compare(field, d, e)
        named == {d \in Data[field] : Shown(field, d) # -1}
    IN  IF field \in Strings \cup AddressFields \cup Masks
        THEN \A d, e \in Data[field] :
                /\ Cmp(d, e) = 0 <=> Shown(field, d) = Shown(field, e)
                /\ Cmp(d, e) = -Cmp(e, d)
                /\ \A g \in Data[field] : Cmp(d, e) >= 0 /\ Cmp(e, g) >= 0 => Cmp(d, g) >= 0
        ELSE \A d, e \in named : Cmp(d, e) = SignOf(Shown(field, d), Shown(field, e))
=============================================================================
