------------------------- MODULE FieldScreen_proofs -------------------------
(* Proofs about FieldScreen, for every table, set of headings, extensions    *)
(* and terminal heights.                                                     *)
EXTENDS FieldScreen, SequenceTheorems, TLAPS

-----------------------------------------------------------------------------
(* Lemmas about the move of one element of a list.                         *)

\* RemoveAt closes the gap it leaves.
LEMMA RemoveAtEntries ==
    ASSUME NEW S, NEW s \in Seq(S), NEW at \in 1..Len(s)
    PROVE  /\ RemoveAt(s, at) \in Seq(S)
           /\ Len(RemoveAt(s, at)) = Len(s) - 1
           /\ \A j \in 1..Len(s) - 1 :
                 RemoveAt(s, at)[j] = IF j < at THEN s[j] ELSE s[j + 1]
<1> DEFINE front == SubSeq(s, 1, at - 1)
           back  == SubSeq(s, at + 1, Len(s))
<1>0. at \in Nat /\ Len(s) \in Nat
  BY LenProperties
<1>1. /\ front \in Seq(S)
      /\ Len(front) = at - 1
      /\ \A j \in 1..at - 1 : front[j] = s[j]
  BY SubSeqProperties
<1>2. /\ back \in Seq(S)
      /\ Len(back) = Len(s) - at
      /\ \A j \in 1..Len(s) - at : back[j] = s[at + 1 + j - 1]
  BY SubSeqProperties
<1> HIDE DEF front, back
<1>3. /\ front \o back \in Seq(S)
      /\ Len(front \o back) = Len(front) + Len(back)
      /\ \A j \in 1..Len(front) + Len(back) :
            (front \o back)[j] = IF j <= Len(front) THEN front[j] ELSE back[j - Len(front)]
  BY <1>1, <1>2, ConcatProperties
<1>4. ASSUME NEW j \in 1..Len(s) - 1
      PROVE  (front \o back)[j] = IF j < at THEN s[j] ELSE s[j + 1]
  <2>1. j \in 1..Len(front) + Len(back)
    BY <1>0, <1>1, <1>2
  <2>2. CASE j <= at - 1
    <3>1. (front \o back)[j] = front[j] /\ front[j] = s[j]
      BY <1>0, <1>1, <1>3, <2>1, <2>2
    <3> QED BY <1>0, <2>2, <3>1
  <2>3. CASE j >= at
    <3>1. (front \o back)[j] = back[j - (at - 1)]
      BY <1>0, <1>1, <1>3, <2>1, <2>3
    <3>2. j - (at - 1) \in 1..Len(s) - at /\ at + 1 + (j - (at - 1)) - 1 = j + 1
      BY <1>0, <2>3
    <3> QED BY <1>0, <1>2, <2>3, <3>1, <3>2
  <2>4. j <= at - 1 \/ j >= at
    BY <1>0
  <2> QED BY <2>2, <2>3, <2>4, Zenon
<1>5. RemoveAt(s, at) = front \o back
  BY DEF RemoveAt, front, back
<1>6. Len(front) + Len(back) = Len(s) - 1
  BY <1>0, <1>1, <1>2
<1> QED BY <1>3, <1>4, <1>5, <1>6

\* InsertAt makes room for e.
LEMMA InsertAtEntries ==
    ASSUME NEW S, NEW s \in Seq(S), NEW e \in S, NEW at \in 1..Len(s) + 1
    PROVE  /\ InsertAt(s, at, e) \in Seq(S)
           /\ Len(InsertAt(s, at, e)) = Len(s) + 1
           /\ \A j \in 1..Len(s) + 1 :
                 InsertAt(s, at, e)[j] = IF j < at THEN s[j]
                                         ELSE IF j = at THEN e ELSE s[j - 1]
<1> DEFINE front == SubSeq(s, 1, at - 1)
           mid   == front \o <<e>>
           back  == SubSeq(s, at, Len(s))
<1>0. at \in Nat /\ Len(s) \in Nat
  BY LenProperties
<1>1. /\ front \in Seq(S)
      /\ Len(front) = at - 1
      /\ \A j \in 1..at - 1 : front[j] = s[j]
  BY SubSeqProperties
<1>2. /\ back \in Seq(S)
      /\ Len(back) = Len(s) - at + 1
      /\ \A j \in 1..Len(s) - at + 1 : back[j] = s[at + j - 1]
  BY SubSeqProperties
<1>3. <<e>> \in Seq(S) /\ Len(<<e>>) = 1 /\ <<e>>[1] = e
  OBVIOUS
<1> HIDE DEF front, back
<1>4. /\ mid \in Seq(S)
      /\ Len(mid) = at
      /\ \A j \in 1..at : mid[j] = IF j < at THEN s[j] ELSE e
  <2>1. /\ mid \in Seq(S)
        /\ Len(mid) = Len(front) + 1
        /\ \A j \in 1..Len(front) + 1 :
              mid[j] = IF j <= Len(front) THEN front[j] ELSE <<e>>[j - Len(front)]
    BY <1>1, <1>3, ConcatProperties
  <2>2. mid[at] = e
    <3>1. mid[at] = <<e>>[at - Len(front)] /\ at - Len(front) = 1
      BY <1>0, <1>1, <2>1
    <3> QED BY <1>3, <3>1
  <2>3. \A j \in 1..at - 1 : mid[j] = s[j]
    BY <1>0, <1>1, <2>1
  <2>4. Len(mid) = at
    BY <1>0, <1>1, <2>1
  <2> HIDE DEF mid
  <2> QED BY <2>1, <2>2, <2>3, <2>4
<1> HIDE DEF mid
<1>5. /\ mid \o back \in Seq(S)
      /\ Len(mid \o back) = Len(mid) + Len(back)
      /\ \A j \in 1..Len(mid) + Len(back) :
            (mid \o back)[j] = IF j <= Len(mid) THEN mid[j] ELSE back[j - Len(mid)]
  BY <1>2, <1>4, ConcatProperties
<1>6. ASSUME NEW j \in 1..Len(s) + 1
      PROVE  (mid \o back)[j] = IF j < at THEN s[j] ELSE IF j = at THEN e ELSE s[j - 1]
  <2>1. CASE j <= at
    BY <1>0, <1>2, <1>4, <1>5, <2>1
  <2>2. CASE j > at
    <3>1. (mid \o back)[j] = back[j - at]
      BY <1>0, <1>2, <1>4, <1>5, <2>2
    <3>2. j - at \in 1..Len(s) - at + 1 /\ at + (j - at) - 1 = j - 1
      BY <1>0, <2>2
    <3> QED BY <1>0, <1>2, <2>2, <3>1, <3>2
  <2>3. j <= at \/ j > at
    BY <1>0
  <2> QED BY <2>1, <2>2, <2>3, Zenon
<1>7. InsertAt(s, at, e) = mid \o back
  BY DEF InsertAt, mid, front, back
<1>8. Len(mid) + Len(back) = Len(s) + 1
  BY <1>0, <1>2, <1>4
<1> QED BY <1>5, <1>6, <1>7, <1>8

\* A move shifts what lies between the two positions by one, towards where the
\* element was.
Moved(s, from, to, i) ==
    IF i = to THEN s[from]
    ELSE IF from <= i /\ i < to THEN s[i + 1]
    ELSE IF to < i /\ i <= from THEN s[i - 1]
    ELSE s[i]

LEMMA MoveItemEntries ==
    ASSUME NEW S, NEW s \in Seq(S), NEW from \in 1..Len(s), NEW to \in 1..Len(s)
    PROVE  MoveItem(s, from, to) = [i \in 1..Len(s) |-> Moved(s, from, to, i)]
<1>1. PICK rest \in Seq(S) :
         /\ rest = RemoveAt(s, from)
         /\ Len(rest) = Len(s) - 1
         /\ \A j \in 1..Len(s) - 1 : rest[j] = IF j < from THEN s[j] ELSE s[j + 1]
  BY RemoveAtEntries
<1>2. PICK e \in S : e = s[from]
  BY ElementOfSeq
<1>3. to \in 1..Len(rest) + 1 /\ Len(s) \in Nat
  BY <1>1, LenProperties
<1>4. PICK t \in Seq(S) :
         /\ t = InsertAt(rest, to, e)
         /\ Len(t) = Len(rest) + 1
         /\ \A j \in 1..Len(rest) + 1 : t[j] = IF j < to THEN rest[j]
                                               ELSE IF j = to THEN e ELSE rest[j - 1]
  BY <1>3, InsertAtEntries
<1>5. Len(t) = Len(s)
  BY <1>1, <1>3, <1>4
<1>6. MoveItem(s, from, to) = t
  BY <1>1, <1>2, <1>4 DEF MoveItem
<1>7. t = [i \in 1..Len(s) |-> t[i]]
  BY <1>4, <1>5
<1>8. ASSUME NEW i \in 1..Len(s)
      PROVE  t[i] = Moved(s, from, to, i)
  <2>1. t[i] = IF i < to THEN rest[i] ELSE IF i = to THEN s[from] ELSE rest[i - 1]
    BY <1>1, <1>2, <1>3, <1>4
  <2>2. CASE i < to
    <3>1. i \in 1..Len(s) - 1
      BY <1>3, <2>2
    <3> QED BY <1>1, <2>1, <2>2, <3>1 DEF Moved
  <2>3. CASE i = to
    BY <2>1, <2>3 DEF Moved
  <2>4. CASE i > to
    <3>1. i - 1 \in 1..Len(s) - 1 /\ (i - 1) + 1 = i
      BY <1>3, <2>4
    <3>2. rest[i - 1] = IF i - 1 < from THEN s[i - 1] ELSE s[i]
      BY <1>1, <3>1
    <3> QED BY <2>1, <2>4, <3>1, <3>2 DEF Moved
  <2> QED BY <2>2, <2>3, <2>4
<1> QED BY <1>6, <1>7, <1>8

-----------------------------------------------------------------------------
(* The inductive invariant.                                                *)

\* No two rows are of one field.
DistinctIds == \A q, r \in Rows : q # r => At(q).id # At(r).id

\* The loop of field_key_left_handler() is between the row the field was selected on and
\* the cursor, which is no heading, and carries a field that is none.
LoopInv ==
    f # NULL =>
        /\ sel_field # NULL /\ sel_field # pos_y
        /\ IF sel_field < pos_y THEN sel_field <= f /\ f < pos_y
           ELSE pos_y < f /\ f <= sel_field
        /\ ~IsHeading(At(f)) /\ ~IsHeading(At(pos_y))

SelectedInv == f = NULL /\ sel_field # NULL => ~IsHeading(At(sel_field))

IInv == TypeOK /\ DistinctIds /\ LoopInv /\ SelectedInv /\ RequestsMatch

LEMMA NrFieldsPositive == NrFields \in Nat /\ NrFields > 0 /\ 0 \in Rows
  BY FieldScreenAssumption, LenProperties DEF NrFields, Rows

LEMMA RowTypes ==
    ASSUME TypeOK
    PROVE  \A r \in Rows : r + 1 \in 1..NrFields /\ At(r) \in Field /\ At(r).id \in Ids
<1>1. \A r \in Rows : r + 1 \in 1..NrFields
  BY NrFieldsPositive DEF Rows
<1>2. \A r \in Rows : At(r) \in Field
  BY <1>1 DEF TypeOK, At
<1> QED BY <1>1, <1>2 DEF Field

LEMMA HalfPageNat == ASSUME TypeOK PROVE HalfPage \in Nat
<1>1. lines \in Nat /\ lines > 2
  BY FieldScreenAssumption DEF TypeOK
<1>2. CASE lines >= 4
  BY <1>1, <1>2 DEF HalfPage
<1>3. CASE lines = 3
  BY <1>3 DEF HalfPage
<1> QED BY <1>1, <1>2, <1>3

LEMMA InitIInv == Init => IInv
<1> SUFFICES ASSUME Init PROVE IInv
  OBVIOUS
<1>1. \A r \in Rows : At(r) = [id |-> Table[r + 1], enabled |-> Table[r + 1] \in EnabledIds,
                              pinned |-> FALSE, filter_on |-> FALSE, filter |-> FALSE]
  BY NrFieldsPositive DEF Init, At, Rows
<1>2. \A i \in 1..NrFields : Table[i] \in Ids
  BY FieldScreenAssumption DEF Ids, ToSet, NrFields
<1>3. TypeOK
  <2>1. tcp_fields \in [1..NrFields -> Field]
    BY <1>2 DEF Init, Field
  <2> QED BY <2>1, NrFieldsPositive DEF Init, TypeOK
<1>4. DistinctIds
  BY <1>1, FieldScreenAssumption, NrFieldsPositive DEF DistinctIds, Rows
<1>5. RequestsMatch
  <2>1. \A r \in Rows : At(r).id = Table[r + 1] /\ At(r).enabled = (Table[r + 1] \in EnabledIds)
    BY <1>1
  <2>2. \A r \in Rows : At(r).enabled => ExtReq[At(r).id] = NoneExt
    BY <2>1, FieldScreenAssumption, Zenon
  <2>3. \A i \in Marked(IsEnabled) : ExtReq[i] = NoneExt
    BY <2>2, Zenon DEF Marked, IsEnabled
  <2>4. {ExtReq[i] : i \in Marked(IsEnabled)} \ {NoneExt} = {}
    BY <2>3, Zenon
  <2> QED BY <2>4, Zenon DEF Init, RequestsMatch
<1> QED BY <1>3, <1>4, <1>5 DEF IInv, LoopInv, SelectedInv, Init

\* A handler that changes no field's id and no pointer, on the field screen or to get there.
LEMMA KeepsIds ==
    ASSUME IInv, TypeOK', UNCHANGED <<sel_field, pos_y, f>>,
           \A r \in Rows : At(r)'.id = At(r).id
    PROVE  DistinctIds' /\ LoopInv' /\ SelectedInv'
<1>1. Rows' = Rows
  BY DEF Rows
<1>2. DistinctIds'
  BY DEF IInv, DistinctIds, Rows, At
<1>3. LoopInv' /\ SelectedInv'
  BY DEF IInv, TypeOK, LoopInv, SelectedInv, IsHeading
<1> QED BY <1>2, <1>3

-----------------------------------------------------------------------------
(* The steps.                                                              *)

\* Actions that leave the table alone.
TableKept ==
    \/ EnterField \/ Resize \/ SortKey
    \/ KeyDown \/ KeyUp \/ PgDn \/ PgUp
    \/ KeyRight \/ KeyLeft \/ Quit

\* Actions that set the marks of the field under the cursor.
MarksSet == Space \/ PinKey \/ FilterKey

LEMMA TableKeptStep == IInv /\ TableKept => IInv'
<1> SUFFICES ASSUME IInv, TableKept PROVE IInv'
  OBVIOUS
<1> USE DEF OnField
<1>0. UNCHANGED tcp_fields /\ DistinctIds' /\ \A r \in Rows : At(r)' = At(r)
  <2>1. UNCHANGED tcp_fields
    BY DEF TableKept, EnterField, Resize, SortKey, CursorTo, KeyDown, KeyUp, PgDn, PgUp,
           KeyRight, KeyLeft, Quit
  <2> QED BY <2>1 DEF IInv, DistinctIds, At, Rows
<1>1. HalfPage \in Nat
  BY HalfPageNat DEF IInv
<1>2. TypeOK'
  <2>1. CASE EnterField \/ Resize \/ SortKey \/ KeyRight \/ KeyLeft
    BY <2>1, Zenon DEF IInv, TypeOK, EnterField, Resize, SortKey, KeyRight, KeyLeft
  <2>2. CASE KeyDown \/ KeyUp \/ PgDn \/ PgUp
    <3>1. pos_y' \in Rows
      BY <1>1, <2>2, NrFieldsPositive
      DEF IInv, TypeOK, Rows, KeyDown, KeyUp, PgDn, PgUp, CursorTo
    <3> QED BY <2>2, <3>1 DEF IInv, TypeOK, KeyDown, KeyUp, PgDn, PgUp, CursorTo
  <2>3. CASE Quit
    <3>1. \A r \in Rows : At(r).id \in Ids
      BY RowTypes DEF IInv
    <3>2. ext_req' \subseteq {ExtReq[i] : i \in Ids} \ {NoneExt}
      BY <2>3, <3>1, Zenon DEF Quit
    <3> QED BY <2>3, <3>2 DEF IInv, TypeOK, Quit
  <2> QED BY <2>1, <2>2, <2>3 DEF TableKept
<1>3. LoopInv' /\ SelectedInv'
  <2>1. CASE EnterField \/ Resize \/ SortKey
    BY <1>0, <2>1 DEF IInv, TypeOK, LoopInv, SelectedInv, EnterField, Resize, SortKey, IsHeading
  <2>2. CASE KeyDown \/ KeyUp \/ PgDn \/ PgUp
    BY <1>0, <2>2 DEF IInv, TypeOK, LoopInv, SelectedInv, KeyDown, KeyUp, PgDn, PgUp, CursorTo,
                      IsHeading
  <2>3. CASE KeyRight \/ KeyLeft
    BY <1>0, <2>3 DEF IInv, TypeOK, LoopInv, SelectedInv, KeyRight, KeyLeft, Cursor, IsHeading,
                      Rows, NULL
  <2>4. CASE Quit
    BY <2>4 DEF LoopInv, SelectedInv, Quit
  <2> QED BY <2>1, <2>2, <2>3, <2>4 DEF TableKept
<1>4. RequestsMatch'
  <2>1. Marked(IsEnabled)' = Marked(IsEnabled)
    BY <1>0, Zenon DEF Marked, IsEnabled, Rows
  <2>2. CASE EnterField \/ Resize
    BY <2>1, <2>2, Zenon DEF IInv, RequestsMatch, EnterField, Resize
  <2>3. CASE SortKey \/ KeyDown \/ KeyUp \/ PgDn \/ PgUp \/ KeyRight \/ KeyLeft
    <3>1. cur_screen' = "field"
      BY <2>3 DEF SortKey, KeyDown, KeyUp, PgDn, PgUp, CursorTo, KeyRight, KeyLeft
    <3> QED BY <3>1 DEF RequestsMatch
  <2>4. CASE Quit
    <3>1. ext_req' = {ExtReq[i] : i \in Marked(IsEnabled)} \ {NoneExt}
      BY <2>4, Zenon DEF Quit, Marked, IsEnabled
    <3> QED BY <2>1, <2>4, <3>1, Zenon DEF RequestsMatch, Quit
  <2> QED BY <2>2, <2>3, <2>4 DEF TableKept
<1> QED BY <1>0, <1>2, <1>3, <1>4 DEF IInv

LEMMA MarksSetStep == IInv /\ MarksSet => IInv'
<1> SUFFICES ASSUME IInv, MarksSet PROVE IInv'
  OBVIOUS
<1>1. PICK field \in Field : field.id = Cursor.id /\ ChangeCursorField(field)
  <2>1. Cursor \in Field
    BY RowTypes DEF IInv, TypeOK, Cursor
  <2>2. CASE Space
    <3>1. [Cursor EXCEPT !.enabled = ~@] \in Field
      BY <2>1 DEF Field
    <3> QED BY <2>1, <2>2, <3>1 DEF Space, Field
  <2>3. CASE PinKey
    <3>1. [Cursor EXCEPT !.pinned = ~@] \in Field
      BY <2>1 DEF Field
    <3> QED BY <2>1, <2>3, <3>1 DEF PinKey, Field
  <2>4. CASE FilterKey
    BY <2>1, <2>4 DEF FilterKey, FilterParse, Field
  <2> QED BY <2>2, <2>3, <2>4 DEF MarksSet
<1>2. /\ cur_screen = "field" /\ UNCHANGED cur_screen
      /\ UNCHANGED <<sort_key, sort_ascending, sel_field, pos_y, f, ext_req, lines>>
      /\ tcp_fields' = [tcp_fields EXCEPT ![pos_y + 1] = field]
  BY <1>1 DEF ChangeCursorField, OnField
<1>3. TypeOK'
  BY <1>2 DEF IInv, TypeOK
<1>4. \A r \in Rows : At(r)'.id = At(r).id
  BY <1>1, <1>2 DEF IInv, TypeOK, At, Cursor, Rows
<1>5. RequestsMatch'
  BY <1>2 DEF RequestsMatch
<1> QED BY <1>2, <1>3, <1>4, <1>5, KeepsIds DEF IInv

\* The row the loop is at and the next one change places.
LEMMA SwapRows ==
    ASSUME IInv, SwapStep,
           NEW next, next = IF sel_field < pos_y THEN f + 1 ELSE f - 1
    PROVE  /\ next \in Rows /\ next # f /\ f \in Rows
           /\ IF sel_field < pos_y THEN next <= pos_y ELSE next >= pos_y
           /\ tcp_fields' = [tcp_fields EXCEPT ![f + 1] = At(next), ![next + 1] = At(f)]
           /\ \A r \in Rows : At(r)' = IF r = f THEN At(next)
                                      ELSE IF r = next THEN At(f) ELSE At(r)
<1>1. next \in Rows /\ next # f /\ f \in Rows
  BY NrFieldsPositive DEF IInv, TypeOK, LoopInv, SwapStep, Rows, NULL
<1>2. IF sel_field < pos_y THEN next <= pos_y ELSE next >= pos_y
  BY NrFieldsPositive DEF IInv, TypeOK, LoopInv, SwapStep, Rows, NULL
<1>3. tcp_fields' = [tcp_fields EXCEPT ![f + 1] = At(next), ![next + 1] = At(f)]
  BY DEF SwapStep, SwapField
<1>4. ASSUME NEW r \in Rows
      PROVE  At(r)' = IF r = f THEN At(next) ELSE IF r = next THEN At(f) ELSE At(r)
  <2>1. r \in Int /\ f \in Int /\ next \in Int
    BY <1>1, NrFieldsPositive DEF Rows
  <2>2. {r + 1, f + 1, next + 1} \subseteq 1..NrFields
    BY <1>1, RowTypes DEF IInv
  <2>3. (r + 1 = f + 1 <=> r = f) /\ (r + 1 = next + 1 <=> r = next)
    BY <2>1
  <2> QED BY <1>1, <1>3, <2>2, <2>3 DEF IInv, TypeOK, At
<1> QED BY <1>1, <1>2, <1>3, <1>4

LEMMA SwapStepStep == IInv /\ SwapStep => IInv'
<1> SUFFICES ASSUME IInv, SwapStep PROVE IInv'
  OBVIOUS
<1> DEFINE next == IF sel_field < pos_y THEN f + 1 ELSE f - 1
<1>1. /\ next \in Rows /\ next # f /\ f \in Rows
      /\ IF sel_field < pos_y THEN next <= pos_y ELSE next >= pos_y
      /\ tcp_fields' = [tcp_fields EXCEPT ![f + 1] = At(next), ![next + 1] = At(f)]
      /\ \A r \in Rows : At(r)' = IF r = f THEN At(next)
                                 ELSE IF r = next THEN At(f) ELSE At(r)
  BY SwapRows
<1>2. /\ f # NULL
      /\ sort_key' = IF sort_key = f THEN next ELSE IF sort_key = next THEN f ELSE sort_key
      /\ IF next = pos_y THEN f' = NULL /\ sel_field' = NULL
         ELSE f' = next /\ UNCHANGED sel_field
      /\ UNCHANGED <<sort_ascending, pos_y, ext_req, cur_screen, lines>>
  BY DEF SwapStep, SwapField
<1>3. TypeOK'
  <2>1. At(next) \in Field /\ At(f) \in Field
    BY <1>1, RowTypes DEF IInv
  <2>2. tcp_fields' \in [1..NrFields -> Field]
    BY <1>1, <2>1 DEF IInv, TypeOK
  <2>3. sort_key' \in Rows \cup {NULL} /\ f' \in Rows \cup {NULL} /\ sel_field' \in Rows \cup {NULL}
    BY <1>1, <1>2 DEF IInv, TypeOK
  <2> QED BY <1>2, <2>2, <2>3 DEF IInv, TypeOK
<1>4. DistinctIds'
  BY <1>1 DEF IInv, DistinctIds, Rows
<1>5. LoopInv'
  BY <1>1, <1>2 DEF IInv, TypeOK, LoopInv, IsHeading, Rows, NULL
<1>6. SelectedInv'
  BY <1>1, <1>2 DEF SelectedInv, NULL, Rows
<1>7. RequestsMatch'
  BY <1>2 DEF IInv, RequestsMatch, LoopInv
<1> QED BY <1>3, <1>4, <1>5, <1>6, <1>7 DEF IInv

LEMMA NextIInv == IInv /\ [Next]_vars => IInv'
<1>1. IInv /\ UNCHANGED vars => IInv'
  BY DEF vars, IInv, TypeOK, DistinctIds, LoopInv, SelectedInv, RequestsMatch, Marked, IsEnabled,
         IsHeading, At, Rows
<1> QED BY <1>1, TableKeptStep, MarksSetStep, SwapStepStep DEF Next, TableKept, MarksSet

-----------------------------------------------------------------------------
(* The invariants.                                                         *)

\* The inductive invariant holds in every state the field screen's handlers can reach.
THEOREM Invariance == Spec => []IInv
<1> QED BY InitIInv, NextIInv, PTL DEF Spec

\* The table keeps its rows and their types, and every pointer into it, the loop's too,
\* stays inside, however the keys follow each other.
THEOREM TypeCorrect == Spec => []TypeOK
<1>1. IInv => TypeOK
  BY DEF IInv
<1> QED BY <1>1, Invariance, PTL

\* On the main screen n->ext_req has the extensions of the displayed fields, for every
\* table, and no move is left over.
THEOREM RequestsCorrect == Spec => []RequestsMatch
<1>1. IInv => RequestsMatch
  BY DEF IInv
<1> QED BY <1>1, Invariance, PTL

\* draw_field_header() shows the line under the cursor, for every table and height.
THEOREM CursorCorrect == Spec => []CursorVisible
<1>1. ASSUME TypeOK PROVE CursorVisible
  <2> SUFFICES ASSUME lines >= 5
               PROVE  /\ Skip <= pos_y
                      /\ pos_y - (IF Skip < 0 THEN 0 ELSE Skip) < lines - 4
    BY DEF CursorVisible
  <2>1. lines \in Nat /\ NrFields \in Nat /\ pos_y \in 0..NrFields - 1
    BY <1>1, FieldScreenAssumption, NrFieldsPositive DEF TypeOK, Rows
  <2>2. HalfPage \in Nat /\ 2 * HalfPage <= lines - 4 /\ HalfPage < lines - 4
    BY <2>1 DEF HalfPage
  <2> HIDE DEF HalfPage
  <2> QED BY <2>1, <2>2 DEF Skip
<1> QED BY <1>1, TypeCorrect, PTL

\* The ids of the table are a sequence, and its moves are as MoveItemEntries says.
LEMMA TableMoves ==
    ASSUME TypeOK, NEW from \in Rows, NEW to \in Rows
    PROVE  MoveItem(IdsIn(tcp_fields), from + 1, to + 1)
              = [i \in 1..NrFields |-> Moved(IdsIn(tcp_fields), from + 1, to + 1, i)]
<1>1. IdsIn(tcp_fields) \in Seq(Ids) /\ Len(IdsIn(tcp_fields)) = NrFields
  <2>1. \A i \in 1..NrFields : tcp_fields[i].id \in Ids
    BY DEF TypeOK, Field
  <2> QED BY <2>1, NrFieldsPositive DEF IdsIn
<1>2. from + 1 \in 1..NrFields /\ to + 1 \in 1..NrFields
  BY RowTypes
<1> QED BY <1>1, <1>2, MoveItemEntries

\* The preview is what Left will leave, for every table and wherever the field goes.
THEOREM PreviewCorrect == Spec => []PreviewIsTheMove
<1>1. ASSUME TypeOK PROVE PreviewIsTheMove
  <2> SUFFICES ASSUME sel_field # NULL, NEW i \in 1..NrFields
               PROVE  At(Preview(i - 1)).id = Moved(IdsIn(tcp_fields), sel_field + 1, pos_y + 1, i)
    <3>1. sel_field # NULL => sel_field \in Rows /\ pos_y \in Rows
      BY <1>1 DEF TypeOK
    <3> QED BY <1>1, <3>1, TableMoves DEF PreviewIsTheMove
  <2>1. sel_field \in Int /\ pos_y \in Int /\ i \in Int /\ NrFields \in Nat
        /\ sel_field \in 0..NrFields - 1 /\ pos_y \in 0..NrFields - 1
    BY <1>1, NrFieldsPositive DEF TypeOK, Rows
  <2>2. Preview(i - 1) + 1 \in 1..NrFields
    BY <2>1 DEF Preview, NULL
  <2>3. At(Preview(i - 1)).id = IdsIn(tcp_fields)[Preview(i - 1) + 1]
    BY <2>2 DEF At, IdsIn
  <2>4. Moved(IdsIn(tcp_fields), sel_field + 1, pos_y + 1, i) = IdsIn(tcp_fields)[Preview(i - 1) + 1]
    <3> HIDE DEF IdsIn
    <3> QED BY <2>1 DEF Preview, Moved, NULL
  <2> QED BY <2>3, <2>4
<1> QED BY <1>1, TypeCorrect, PTL

-----------------------------------------------------------------------------
(* FieldScreen implements FieldOrder.                                      *)

\* The values FieldOrder's variables order and key have.
UserOrder == IF f = NULL THEN IdsIn(tcp_fields)
             ELSE MoveItem(IdsIn(tcp_fields), f + 1, sel_field + 1)
UserKey == IF sort_key = NULL THEN NoField ELSE At(sort_key).id

LEMMA InitOrder == Init /\ IInv => Order!Init
<1> SUFFICES ASSUME Init, IInv PROVE Order!Init
  OBVIOUS
<1>1. IdsIn(tcp_fields) = Table
  BY FieldScreenAssumption DEF Init, IdsIn, NrFields
<1>2. \A r \in Rows : /\ At(r).id = Table[r + 1]
                      /\ At(r).enabled = (Table[r + 1] \in EnabledIds)
                      /\ ~At(r).pinned /\ ~At(r).filter_on
  BY NrFieldsPositive DEF Init, At, Rows
<1>3. Marked(IsEnabled) = EnabledIds
  <2>1. \A i \in EnabledIds : \E r \in Rows : Table[r + 1] = i
    <3> SUFFICES ASSUME NEW i \in EnabledIds PROVE \E r \in Rows : Table[r + 1] = i
      OBVIOUS
    <3>1. PICK n \in 1..NrFields : Table[n] = i
      BY FieldScreenAssumption DEF Ids, ToSet, NrFields
    <3>2. n - 1 \in Rows /\ (n - 1) + 1 = n
      BY NrFieldsPositive DEF Rows
    <3> QED BY <3>1, <3>2
  <2>2. ASSUME NEW i \in EnabledIds PROVE i \in Marked(IsEnabled)
    <3>1. i \in Ids
      BY FieldScreenAssumption, Zenon
    <3>2. PICK r \in Rows : Table[r + 1] = i
      BY <2>1
    <3>3. r \in {q \in Rows : At(q).enabled} /\ At(r).id = i
      BY <1>2, <3>2, Zenon
    <3> QED BY <3>3, Zenon DEF Marked, IsEnabled
  <2>3. ASSUME NEW i \in Marked(IsEnabled) PROVE i \in EnabledIds
    <3>1. PICK r \in Rows : At(r).enabled /\ At(r).id = i
      BY Zenon DEF Marked, IsEnabled
    <3> QED BY <1>2, <3>1, Zenon
  <2> QED BY <2>2, <2>3, Zenon
<1>4. Marked(IsPinned) = {} /\ Marked(IsFiltered) = {}
  BY <1>2, Zenon DEF Marked, IsPinned, IsFiltered
<1> QED BY <1>1, <1>3, <1>4 DEF Init, Order!Init

\* A step that changes neither the list, nor a mark, nor the sort key.
LEMMA SameOrder ==
    ASSUME UserOrder' = UserOrder, UserKey' = UserKey,
           Marked(IsEnabled)' = Marked(IsEnabled), Marked(IsPinned)' = Marked(IsPinned),
           Marked(IsFiltered)' = Marked(IsFiltered),
           UNCHANGED <<sort_ascending, ext_req>>
    PROVE  UNCHANGED Order!vars
  BY Zenon DEF Order!vars, UserOrder, UserKey

LEMMA KeptOrder ==
    ASSUME UNCHANGED tcp_fields
    PROVE  /\ IdsIn(tcp_fields)' = IdsIn(tcp_fields)
           /\ Marked(IsEnabled)' = Marked(IsEnabled)
           /\ Marked(IsPinned)' = Marked(IsPinned)
           /\ Marked(IsFiltered)' = Marked(IsFiltered)
           /\ \A r : At(r)' = At(r)
  BY Zenon DEF IdsIn, Marked, IsEnabled, IsPinned, IsFiltered, At, Rows

\* What leaves the table alone is a stutter, a choice of the sort key, or Leave.
LEMMA TableKeptOrder == IInv /\ TableKept => [Order!Next]_(Order!vars)
<1> SUFFICES ASSUME IInv, TableKept PROVE [Order!Next]_(Order!vars)
  OBVIOUS
<1> USE DEF OnField
<1>0. UNCHANGED tcp_fields
  BY DEF TableKept, EnterField, Resize, SortKey, CursorTo, KeyDown, KeyUp, PgDn, PgUp,
         KeyRight, KeyLeft, Quit
<1>1. /\ IdsIn(tcp_fields)' = IdsIn(tcp_fields)
      /\ Marked(IsEnabled)' = Marked(IsEnabled)
      /\ Marked(IsPinned)' = Marked(IsPinned)
      /\ Marked(IsFiltered)' = Marked(IsFiltered)
      /\ \A r : At(r)' = At(r)
  BY <1>0, KeptOrder
<1>2. CASE EnterField \/ Resize \/ KeyDown \/ KeyUp \/ PgDn \/ PgUp \/ KeyRight
  <2>1. UserOrder' = UserOrder
    <3>1. UNCHANGED <<f, sel_field>> \/ (f = NULL /\ f' = NULL)
      BY <1>2 DEF EnterField, Resize, KeyDown, KeyUp, PgDn, PgUp, CursorTo, KeyRight
    <3> QED BY <1>1, <3>1, Zenon DEF UserOrder
  <2>2. UNCHANGED <<sort_key, sort_ascending, ext_req>>
    BY <1>2 DEF EnterField, Resize, KeyDown, KeyUp, PgDn, PgUp, CursorTo, KeyRight
  <2>3. UserKey' = UserKey
    BY <1>1, <2>2, Zenon DEF UserKey
  <2> QED BY <1>1, <2>1, <2>2, <2>3, SameOrder
<1>3. CASE KeyLeft
  <2>1. f = NULL /\ f' = sel_field /\ sel_field' = sel_field /\ sel_field \in Rows
        /\ UNCHANGED <<sort_key, sort_ascending, ext_req>>
    BY <1>3 DEF IInv, TypeOK, KeyLeft
  <2>2. MoveItem(IdsIn(tcp_fields), sel_field + 1, sel_field + 1) = IdsIn(tcp_fields)
    <3>1. \A i \in 1..NrFields :
             Moved(IdsIn(tcp_fields), sel_field + 1, sel_field + 1, i) = IdsIn(tcp_fields)[i]
      BY <2>1, NrFieldsPositive DEF Moved, Rows
    <3>2. IdsIn(tcp_fields) = [i \in 1..NrFields |-> IdsIn(tcp_fields)[i]]
      BY DEF IdsIn
    <3>3. MoveItem(IdsIn(tcp_fields), sel_field + 1, sel_field + 1)
             = [i \in 1..NrFields |-> Moved(IdsIn(tcp_fields), sel_field + 1, sel_field + 1, i)]
      BY <2>1, TableMoves DEF IInv
    <3> QED BY <3>1, <3>2, <3>3
  <2>3. UserOrder' = UserOrder
    BY <1>1, <2>1, <2>2, Zenon DEF UserOrder
  <2>4. UserKey' = UserKey
    BY <1>1, <2>1, Zenon DEF UserKey
  <2> QED BY <1>1, <2>1, <2>3, <2>4, SameOrder
<1>4. CASE SortKey
  <2>1. Cursor.id \in Ids /\ pos_y \in Rows /\ pos_y # NULL
    BY RowTypes DEF IInv, TypeOK, Cursor, Rows, NULL
  <2>2. UserKey = Cursor.id <=> sort_key = pos_y
    <3>1. CASE sort_key = NULL
      BY <2>1, <3>1, FieldScreenAssumption DEF UserKey
    <3>2. CASE sort_key # NULL
      BY <2>1, <3>2 DEF IInv, TypeOK, DistinctIds, UserKey, Cursor
    <3> QED BY <3>1, <3>2
  <2>3. UserOrder' = UserOrder
    BY <1>1, <1>4, Zenon DEF UserOrder, SortKey
  <2>4. IF UserKey # Cursor.id THEN UserKey' = Cursor.id /\ sort_ascending' = FALSE
        ELSE IF sort_ascending THEN UserKey' = NoField /\ UNCHANGED sort_ascending
        ELSE sort_ascending' = TRUE /\ UNCHANGED UserKey
    BY <1>1, <1>4, <2>1, <2>2 DEF SortKey, UserKey, Cursor
  <2>5. Order!Sort(Cursor.id)
    BY <1>1, <1>4, <2>3, <2>4, Zenon DEF Order!Sort, SortKey, UserKey, UserOrder
  <2>6. Cursor.id \in Order!Ids
    BY <2>1 DEF Order!Ids, Ids, Order!ToSet, ToSet
  <2> QED BY <2>5, <2>6, Zenon DEF Order!Next
<1>5. CASE Quit
  <2>1. ext_req' = {ExtReq[i] : i \in Marked(IsEnabled)} \ {NoneExt}
    BY <1>5, Zenon DEF Quit, Marked, IsEnabled
  <2>2. UserOrder' = UserOrder /\ UserKey' = UserKey
    BY <1>1, <1>5, Zenon DEF UserOrder, UserKey, Quit
  <2>3. Order!Leave
    BY <1>1, <1>5, <2>1, <2>2, Zenon
    DEF Order!Leave, Order!Requests, Quit, UserOrder, UserKey
  <2> QED BY <2>3, Zenon DEF Order!Next
<1> QED BY <1>2, <1>3, <1>4, <1>5 DEF TableKept

\* Flipping one row's mark flips that row's field in the set of marked fields.
LEMMA FlippedRow ==
    ASSUME IInv, NEW c \in Rows, NEW on \in SUBSET Rows
    PROVE  {At(r).id : r \in IF c \in on THEN on \ {c} ELSE on \cup {c}}
              = Order!Flip({At(r).id : r \in on}, At(c).id)
<1>1. \A r \in Rows : r # c => At(r).id # At(c).id
  BY DEF IInv, DistinctIds
<1>2. At(c).id \in {At(r).id : r \in on} <=> c \in on
  BY <1>1, Zenon
<1>3. CASE c \in on
  <2>1. {At(r).id : r \in on \ {c}} = {At(r).id : r \in on} \ {At(c).id}
    <3>1. \A r \in on : r # c => At(r).id # At(c).id
      BY <1>1
    <3> HIDE DEF At
    <3> QED BY <3>1
  <2> QED BY <1>2, <1>3, <2>1 DEF Order!Flip
<1>4. CASE c \notin on
  <2>1. {At(r).id : r \in on \cup {c}} = {At(r).id : r \in on} \cup {At(c).id}
    OBVIOUS
  <2> QED BY <1>2, <1>4, <2>1 DEF Order!Flip
<1> QED BY <1>3, <1>4, Zenon

\* What a change of the field under the cursor does to the marks, and to nothing else.
LEMMA ChangedMarks ==
    ASSUME IInv, NEW field \in Field, field.id = Cursor.id, ChangeCursorField(field)
    PROVE  /\ UserOrder' = UserOrder /\ UserKey' = UserKey
           /\ UNCHANGED <<sort_ascending, ext_req>>
           /\ Marked(IsEnabled)' = IF field.enabled = Cursor.enabled THEN Marked(IsEnabled)
                                   ELSE Order!Flip(Marked(IsEnabled), Cursor.id)
           /\ Marked(IsPinned)' = IF field.pinned = Cursor.pinned THEN Marked(IsPinned)
                                  ELSE Order!Flip(Marked(IsPinned), Cursor.id)
           /\ Marked(IsFiltered)' = IF field.filter_on = Cursor.filter_on
                                    THEN Marked(IsFiltered)
                                    ELSE Order!Flip(Marked(IsFiltered), Cursor.id)
<1>1. /\ tcp_fields' = [tcp_fields EXCEPT ![pos_y + 1] = field]
      /\ f = NULL /\ f' = NULL
      /\ UNCHANGED <<sort_key, sort_ascending, ext_req, sel_field>>
  BY DEF ChangeCursorField, OnField
<1>2. pos_y \in Rows /\ Cursor = At(pos_y) /\ Cursor \in Field
  BY RowTypes DEF IInv, TypeOK, Cursor
<1>3. ASSUME NEW r \in Rows PROVE At(r)' = IF r = pos_y THEN field ELSE At(r)
  <2>1. r \in Int /\ pos_y \in Int /\ {r + 1, pos_y + 1} \subseteq 1..NrFields
    BY <1>2, RowTypes, NrFieldsPositive DEF IInv, Rows
  <2>2. r + 1 = pos_y + 1 <=> r = pos_y
    BY <2>1
  <2> QED BY <1>1, <2>1, <2>2 DEF IInv, TypeOK, At
<1>4. \A r \in Rows : At(r).id = At(r)'.id
  BY <1>2, <1>3
<1>5. IdsIn(tcp_fields)' = IdsIn(tcp_fields)
  BY <1>1 DEF IInv, TypeOK, IdsIn, Cursor, At
<1>6. UserOrder' = UserOrder
  BY <1>1, <1>5, Zenon DEF UserOrder
<1>7. UserKey' = UserKey
  <2>1. sort_key \in Rows \/ sort_key = NULL
    BY DEF IInv, TypeOK
  <2> QED BY <1>1, <1>4, <2>1, Zenon DEF UserKey
<1>8. Marked(IsEnabled)' = IF field.enabled = Cursor.enabled THEN Marked(IsEnabled)
                           ELSE Order!Flip(Marked(IsEnabled), Cursor.id)
  <2>1. PICK on \in SUBSET Rows : on = {r \in Rows : At(r).enabled}
    OBVIOUS
  <2>2. PICK onNext \in SUBSET Rows : onNext = {r \in Rows : At(r)'.enabled}
    OBVIOUS
  <2>3. Marked(IsEnabled) = {At(r).id : r \in on}
    BY <2>1, Zenon DEF Marked, IsEnabled
  <2>4. Marked(IsEnabled)' = {At(r).id : r \in onNext}
    BY <1>4, <2>2, Zenon DEF Marked, IsEnabled, Rows
  <2>5. onNext = IF field.enabled = Cursor.enabled THEN on
                 ELSE IF pos_y \in on THEN on \ {pos_y} ELSE on \cup {pos_y}
    BY <1>2, <1>3, <2>1, <2>2 DEF Field
  <2>6. {At(r).id : r \in IF pos_y \in on THEN on \ {pos_y} ELSE on \cup {pos_y}}
           = Order!Flip({At(r).id : r \in on}, At(pos_y).id)
    BY <1>2, FlippedRow
  <2> QED BY <1>2, <2>3, <2>4, <2>5, <2>6, Zenon
<1>9. Marked(IsPinned)' = IF field.pinned = Cursor.pinned THEN Marked(IsPinned)
                          ELSE Order!Flip(Marked(IsPinned), Cursor.id)
  <2>1. PICK on \in SUBSET Rows : on = {r \in Rows : At(r).pinned}
    OBVIOUS
  <2>2. PICK onNext \in SUBSET Rows : onNext = {r \in Rows : At(r)'.pinned}
    OBVIOUS
  <2>3. Marked(IsPinned) = {At(r).id : r \in on}
    BY <2>1, Zenon DEF Marked, IsPinned
  <2>4. Marked(IsPinned)' = {At(r).id : r \in onNext}
    BY <1>4, <2>2, Zenon DEF Marked, IsPinned, Rows
  <2>5. onNext = IF field.pinned = Cursor.pinned THEN on
                 ELSE IF pos_y \in on THEN on \ {pos_y} ELSE on \cup {pos_y}
    BY <1>2, <1>3, <2>1, <2>2 DEF Field
  <2>6. {At(r).id : r \in IF pos_y \in on THEN on \ {pos_y} ELSE on \cup {pos_y}}
           = Order!Flip({At(r).id : r \in on}, At(pos_y).id)
    BY <1>2, FlippedRow
  <2> QED BY <1>2, <2>3, <2>4, <2>5, <2>6, Zenon
<1>10. Marked(IsFiltered)' = IF field.filter_on = Cursor.filter_on THEN Marked(IsFiltered)
                             ELSE Order!Flip(Marked(IsFiltered), Cursor.id)
  <2>1. PICK on \in SUBSET Rows : on = {r \in Rows : At(r).filter_on}
    OBVIOUS
  <2>2. PICK onNext \in SUBSET Rows : onNext = {r \in Rows : At(r)'.filter_on}
    OBVIOUS
  <2>3. Marked(IsFiltered) = {At(r).id : r \in on}
    BY <2>1, Zenon DEF Marked, IsFiltered
  <2>4. Marked(IsFiltered)' = {At(r).id : r \in onNext}
    BY <1>4, <2>2, Zenon DEF Marked, IsFiltered, Rows
  <2>5. onNext = IF field.filter_on = Cursor.filter_on THEN on
                 ELSE IF pos_y \in on THEN on \ {pos_y} ELSE on \cup {pos_y}
    BY <1>2, <1>3, <2>1, <2>2 DEF Field
  <2>6. {At(r).id : r \in IF pos_y \in on THEN on \ {pos_y} ELSE on \cup {pos_y}}
           = Order!Flip({At(r).id : r \in on}, At(pos_y).id)
    BY <1>2, FlippedRow
  <2> QED BY <1>2, <2>3, <2>4, <2>5, <2>6, Zenon
<1> QED BY <1>1, <1>6, <1>7, <1>8, <1>9, <1>10

\* A key that marks the field under the cursor is Toggle, Pin or Filter, or no step.
LEMMA MarksSetOrder == IInv /\ MarksSet => [Order!Next]_(Order!vars)
<1> SUFFICES ASSUME IInv, MarksSet PROVE [Order!Next]_(Order!vars)
  OBVIOUS
<1>1. /\ Cursor \in Field /\ Cursor.id \in Ids
      /\ Cursor.enabled \in BOOLEAN /\ Cursor.pinned \in BOOLEAN /\ Cursor.filter_on \in BOOLEAN
  BY RowTypes DEF IInv, TypeOK, Cursor, Field
<1>2. Cursor.id \in Order!Ids /\ Cursor.id \notin Headings
  BY <1>1 DEF MarksSet, Space, PinKey, FilterKey, IsHeading, Order!Ids, Ids, Order!ToSet, ToSet
<1>3. CASE Space
  <2>1. PICK field \in Field :
           /\ field.id = Cursor.id /\ field.enabled # Cursor.enabled
           /\ field.pinned = Cursor.pinned /\ field.filter_on = Cursor.filter_on
           /\ ChangeCursorField(field)
    <3>1. [Cursor EXCEPT !.enabled = ~@] \in Field
      BY <1>1 DEF Field
    <3>2. ChangeCursorField([Cursor EXCEPT !.enabled = ~@])
      BY <1>3, Zenon DEF Space
    <3> HIDE DEF ChangeCursorField
    <3> QED BY <1>1, <3>1, <3>2 DEF Field
  <2>2. Order!Toggle(Cursor.id)
    BY <1>2, <2>1, ChangedMarks, Zenon DEF Order!Toggle, UserOrder, UserKey
  <2> QED BY <1>2, <2>2, Zenon DEF Order!Next
<1>4. CASE PinKey
  <2>1. PICK field \in Field :
           /\ field.id = Cursor.id /\ field.pinned # Cursor.pinned
           /\ field.enabled = Cursor.enabled /\ field.filter_on = Cursor.filter_on
           /\ ChangeCursorField(field)
    <3>1. [Cursor EXCEPT !.pinned = ~@] \in Field
      BY <1>1 DEF Field
    <3>2. ChangeCursorField([Cursor EXCEPT !.pinned = ~@])
      BY <1>4, Zenon DEF PinKey
    <3> HIDE DEF ChangeCursorField
    <3> QED BY <1>1, <3>1, <3>2 DEF Field
  <2>2. Order!Pin(Cursor.id)
    BY <1>2, <2>1, ChangedMarks, Zenon DEF Order!Pin, UserOrder, UserKey
  <2> QED BY <1>2, <2>2, Zenon DEF Order!Next
<1>5. CASE FilterKey
  <2>1. PICK field \in Field :
           /\ field.id = Cursor.id
           /\ field.enabled = Cursor.enabled /\ field.pinned = Cursor.pinned
           /\ ChangeCursorField(field)
    <3>1. PICK field \in IF Cursor.filter_on THEN {[Cursor EXCEPT !.filter_on = FALSE]}
                         ELSE FilterParse(Cursor) : ChangeCursorField(field)
      BY <1>5, Zenon DEF FilterKey
    <3> HIDE DEF ChangeCursorField
    <3> QED BY <1>1, <3>1 DEF FilterParse, Field
  <2>2. CASE field.filter_on = Cursor.filter_on
    <3>1. UNCHANGED Order!vars
      BY <2>1, <2>2, ChangedMarks, SameOrder
    <3> QED BY <3>1
  <2>3. CASE field.filter_on # Cursor.filter_on
    <3>1. Order!Filter(Cursor.id)
      BY <1>2, <2>1, <2>3, ChangedMarks, Zenon DEF Order!Filter, UserOrder, UserKey
    <3> QED BY <1>2, <3>1, Zenon DEF Order!Next
  <2> QED BY <2>2, <2>3
<1> QED BY <1>3, <1>4, <1>5 DEF MarksSet

\* The abstract specification's move is the one of TableMoves.
LEMMA SameMove == \A s, from, to : Order!MoveItem(s, from, to) = MoveItem(s, from, to)
  BY Zenon DEF Order!MoveItem, MoveItem, Order!InsertAt, InsertAt, Order!RemoveAt, RemoveAt

\* A swap moves the fields' marks along with them, and the sort key.
LEMMA SwappedMarks ==
    ASSUME IInv, SwapStep
    PROVE  /\ UserKey' = UserKey
           /\ Marked(IsEnabled)' = Marked(IsEnabled)
           /\ Marked(IsPinned)' = Marked(IsPinned)
           /\ Marked(IsFiltered)' = Marked(IsFiltered)
<1>1. PICK next : next = IF sel_field < pos_y THEN f + 1 ELSE f - 1
  OBVIOUS
<1>2. /\ next \in Rows /\ next # f /\ f \in Rows
      /\ \A r \in Rows : At(r)' = IF r = f THEN At(next)
                                 ELSE IF r = next THEN At(f) ELSE At(r)
  BY <1>1, SwapRows
<1>3. sort_key' = IF sort_key = f THEN next ELSE IF sort_key = next THEN f ELSE sort_key
  BY <1>1 DEF SwapStep, SwapField
<1>4. \A r \in Rows : \E q \in Rows : At(r)' = At(q)
  BY <1>2, Zenon
<1>5. \A q \in Rows : \E r \in Rows : At(r)' = At(q)
  <2> SUFFICES ASSUME NEW q \in Rows PROVE \E r \in Rows : At(r)' = At(q)
    OBVIOUS
  <2>1. CASE q = f
    BY <1>2, <2>1, Zenon
  <2>2. CASE q = next
    BY <1>2, <2>2, Zenon
  <2>3. CASE q # f /\ q # next
    BY <1>2, <2>3, Zenon
  <2> QED BY <2>1, <2>2, <2>3, Zenon
<1>6. Marked(IsEnabled)' = Marked(IsEnabled)
  <2>1. Marked(IsEnabled)' = {At(r)'.id : r \in {r \in Rows : At(r)'.enabled}}
    BY Zenon DEF Marked, IsEnabled, Rows
  <2>2. Marked(IsEnabled) = {At(r).id : r \in {r \in Rows : At(r).enabled}}
    BY Zenon DEF Marked, IsEnabled
  <2> QED BY <1>4, <1>5, <2>1, <2>2, Zenon
<1>7. Marked(IsPinned)' = Marked(IsPinned)
  <2>1. Marked(IsPinned)' = {At(r)'.id : r \in {r \in Rows : At(r)'.pinned}}
    BY Zenon DEF Marked, IsPinned, Rows
  <2>2. Marked(IsPinned) = {At(r).id : r \in {r \in Rows : At(r).pinned}}
    BY Zenon DEF Marked, IsPinned
  <2> QED BY <1>4, <1>5, <2>1, <2>2, Zenon
<1>8. Marked(IsFiltered)' = Marked(IsFiltered)
  <2>1. Marked(IsFiltered)' = {At(r)'.id : r \in {r \in Rows : At(r)'.filter_on}}
    BY Zenon DEF Marked, IsFiltered, Rows
  <2>2. Marked(IsFiltered) = {At(r).id : r \in {r \in Rows : At(r).filter_on}}
    BY Zenon DEF Marked, IsFiltered
  <2> QED BY <1>4, <1>5, <2>1, <2>2, Zenon
<1>9. UserKey' = UserKey
  <2>1. (sort_key \in Rows \/ sort_key = NULL) /\ next # NULL /\ f # NULL
    BY <1>2, NrFieldsPositive DEF IInv, TypeOK, Rows, NULL
  <2>2. CASE sort_key = NULL
    BY <1>3, <2>1, <2>2 DEF UserKey
  <2>3. CASE sort_key \in Rows
    <3>1. sort_key # NULL /\ sort_key' # NULL
      BY <1>3, <2>1, <2>3, NrFieldsPositive DEF Rows, NULL
    <3>2. At(sort_key)' = At(sort_key)
      <4>1. CASE sort_key = f
        BY <1>2, <1>3, <4>1, Zenon DEF At
      <4>2. CASE sort_key = next
        BY <1>2, <1>3, <4>2, Zenon DEF At
      <4>3. CASE sort_key # f /\ sort_key # next
        BY <1>2, <1>3, <2>3, <4>3, Zenon DEF At
      <4> QED BY <4>1, <4>2, <4>3, Zenon
    <3> QED BY <3>1, <3>2, Zenon DEF UserKey
  <2> QED BY <2>1, <2>2, <2>3, Zenon
<1> QED BY <1>6, <1>7, <1>8, <1>9

\* Swapping neighbours on the way is no step of the user's list; the last swap is the move.
LEMMA SwapStepOrder == IInv /\ SwapStep => [Order!Next]_(Order!vars)
<1> SUFFICES ASSUME IInv, SwapStep PROVE [Order!Next]_(Order!vars)
  OBVIOUS
<1>1. PICK next : next = IF sel_field < pos_y THEN f + 1 ELSE f - 1
  OBVIOUS
<1>2. /\ next \in Rows /\ next # f /\ f \in Rows
      /\ \A r \in Rows : At(r)' = IF r = f THEN At(next)
                                 ELSE IF r = next THEN At(f) ELSE At(r)
  BY <1>1, SwapRows
<1>3. /\ sel_field \in Rows /\ pos_y \in Rows /\ sel_field # pos_y
      /\ f # NULL
      /\ IF sel_field < pos_y THEN sel_field <= f /\ f < pos_y
         ELSE pos_y < f /\ f <= sel_field
      /\ ~IsHeading(At(f)) /\ ~IsHeading(At(pos_y))
  BY DEF IInv, TypeOK, LoopInv, SwapStep
<1>4. /\ IF next = pos_y THEN f' = NULL /\ sel_field' = NULL
         ELSE f' = next /\ UNCHANGED sel_field
      /\ UNCHANGED <<sort_ascending, pos_y, ext_req>>
  BY <1>1 DEF SwapStep
<1>5. /\ UserKey' = UserKey
      /\ Marked(IsEnabled)' = Marked(IsEnabled)
      /\ Marked(IsPinned)' = Marked(IsPinned)
      /\ Marked(IsFiltered)' = Marked(IsFiltered)
  BY SwappedMarks
<1>6. PICK ids \in Seq(Ids) : /\ ids = IdsIn(tcp_fields) /\ Len(ids) = NrFields
                              /\ ids = [i \in 1..NrFields |-> ids[i]]
  <2>1. \A i \in 1..NrFields : tcp_fields[i].id \in Ids
    BY DEF IInv, TypeOK, Field
  <2>2. IdsIn(tcp_fields) \in Seq(Ids) /\ Len(IdsIn(tcp_fields)) = NrFields
    BY <2>1, NrFieldsPositive DEF IdsIn
  <2>3. IdsIn(tcp_fields) = [i \in 1..NrFields |-> IdsIn(tcp_fields)[i]]
    BY DEF IdsIn
  <2> QED BY <2>2, <2>3, Zenon
<1>7. PICK ids2 \in Seq(Ids) : /\ ids2 = IdsIn(tcp_fields)' /\ Len(ids2) = NrFields
                               /\ ids2 = [i \in 1..NrFields |-> ids2[i]]
  <2>1. \A i \in 1..NrFields : tcp_fields'[i].id \in Ids
    BY SwapStepStep DEF IInv, TypeOK, Field
  <2>2. PICK t : t = tcp_fields'
    OBVIOUS
  <2>3. IdsIn(t) \in Seq(Ids) /\ Len(IdsIn(t)) = NrFields
    BY <2>1, <2>2, NrFieldsPositive DEF IdsIn
  <2>4. IdsIn(t) = [i \in 1..NrFields |-> IdsIn(t)[i]]
    BY DEF IdsIn
  <2>5. IdsIn(t) = IdsIn(tcp_fields)'
    BY <2>2 DEF IdsIn
  <2> QED BY <2>3, <2>4, <2>5, Zenon
<1>8. \A r \in Rows : ids[r + 1] = At(r).id /\ ids2[r + 1] = At(r)'.id
  BY <1>6, <1>7, RowTypes DEF IInv, IdsIn, At
<1>9. \A i \in 1..NrFields : ids2[i] = IF i = f + 1 THEN ids[next + 1]
                                      ELSE IF i = next + 1 THEN ids[f + 1] ELSE ids[i]
  <2> SUFFICES ASSUME NEW i \in 1..NrFields
               PROVE  ids2[i] = IF i = f + 1 THEN ids[next + 1]
                                ELSE IF i = next + 1 THEN ids[f + 1] ELSE ids[i]
    OBVIOUS
  <2>1. /\ i \in Int /\ i - 1 \in Rows /\ (i - 1) + 1 = i
        /\ (i = f + 1 <=> i - 1 = f) /\ (i = next + 1 <=> i - 1 = next)
    BY <1>2, NrFieldsPositive DEF Rows
  <2>2. ids2[i] = At(i - 1)'.id /\ ids[i] = At(i - 1).id
        /\ ids[f + 1] = At(f).id /\ ids[next + 1] = At(next).id
    BY <1>2, <1>8, <2>1
  <2> QED BY <1>2, <2>1, <2>2, Zenon
<1>10. UserOrder = [i \in 1..NrFields |-> Moved(ids, f + 1, sel_field + 1, i)]
  BY <1>2, <1>3, <1>6, TableMoves DEF IInv, UserOrder
<1>11. /\ f \in Int /\ next \in Int /\ sel_field \in Int /\ pos_y \in Int /\ NrFields \in Nat
       /\ {f + 1, next + 1, sel_field + 1, pos_y + 1} \subseteq 1..NrFields
  BY <1>2, <1>3, NrFieldsPositive DEF Rows
<1>12. CASE next # pos_y
  <2>1. UserOrder' = MoveItem(ids2, next + 1, sel_field + 1)
    <3>1. f' = next /\ sel_field' = sel_field /\ next # NULL
      BY <1>2, <1>4, <1>12, NrFieldsPositive DEF Rows, NULL
    <3> QED BY <1>7, <3>1, Zenon DEF UserOrder
  <2>2. MoveItem(ids2, next + 1, sel_field + 1)
           = [i \in 1..NrFields |-> Moved(ids2, next + 1, sel_field + 1, i)]
    <3>1. PICK a, b : a = next + 1 /\ b = sel_field + 1
      OBVIOUS
    <3>2. a \in 1..Len(ids2) /\ b \in 1..Len(ids2)
      BY <1>7, <1>11, <3>1
    <3>3. MoveItem(ids2, a, b) = [i \in 1..Len(ids2) |-> Moved(ids2, a, b, i)]
      BY <3>2, MoveItemEntries
    <3> QED BY <1>7, <3>1, <3>3
  <2>3. ASSUME NEW i \in 1..NrFields
        PROVE  Moved(ids2, next + 1, sel_field + 1, i) = Moved(ids, f + 1, sel_field + 1, i)
    <3>1. CASE sel_field < pos_y
      BY <1>1, <1>3, <1>9, <1>11, <3>1 DEF Moved
    <3>2. CASE ~(sel_field < pos_y)
      BY <1>1, <1>3, <1>9, <1>11, <3>2 DEF Moved
    <3> QED BY <3>1, <3>2
  <2>4. UserOrder' = UserOrder
    BY <1>10, <2>1, <2>2, <2>3
  <2> QED BY <1>4, <1>5, <2>4, SameOrder
<1>13. CASE next = pos_y
  <2>1. UserOrder' = ids2
    BY <1>4, <1>7, <1>13, Zenon DEF UserOrder
  <2>2. PICK u \in Seq(Ids) : u = UserOrder /\ Len(u) = NrFields
    <3>1. ASSUME NEW i \in 1..NrFields PROVE Moved(ids, f + 1, sel_field + 1, i) \in Ids
      <4>1. \A j \in 1..NrFields : ids[j] \in Ids
        BY <1>6, ElementOfSeq
      <4> QED BY <1>3, <1>11, <4>1 DEF Moved
    <3> QED BY <1>10, <1>11, <3>1
  <2>3. \A i \in 1..NrFields : u[i] = Moved(ids, f + 1, sel_field + 1, i)
    BY <1>10, <2>2
  <2>4. MoveItem(u, sel_field + 1, pos_y + 1)
           = [i \in 1..NrFields |-> Moved(u, sel_field + 1, pos_y + 1, i)]
    BY <1>11, <2>2, MoveItemEntries
  <2>5. ASSUME NEW i \in 1..NrFields
        PROVE  Moved(u, sel_field + 1, pos_y + 1, i) = ids2[i]
    <3>1. CASE sel_field < pos_y
      <4>1. \A j \in 1..NrFields :
               u[j] = IF j = sel_field + 1 THEN ids[pos_y]
                      ELSE IF sel_field + 1 < j /\ j <= pos_y THEN ids[j - 1] ELSE ids[j]
        BY <1>1, <1>3, <1>11, <1>13, <2>3, <3>1 DEF Moved
      <4>2. ids2[i] = IF i = pos_y THEN ids[pos_y + 1]
                      ELSE IF i = pos_y + 1 THEN ids[pos_y] ELSE ids[i]
        BY <1>1, <1>9, <1>11, <1>13, <3>1
      <4>3. u[sel_field + 1] = ids[pos_y]
        BY <1>11, <4>1
      <4>4. CASE i = pos_y + 1
        BY <1>11, <4>2, <4>3, <4>4 DEF Moved
      <4>5. CASE sel_field + 1 <= i /\ i < pos_y + 1
        <5>1. i + 1 \in 1..NrFields
          BY <1>11, <4>5
        <5>2. u[i + 1] = IF i + 1 <= pos_y THEN ids[i] ELSE ids[i + 1]
          BY <1>11, <4>1, <4>5, <5>1
        <5> QED BY <1>11, <4>2, <4>5, <5>2 DEF Moved
      <4>6. CASE i < sel_field + 1 \/ i > pos_y + 1
        <5>1. u[i] = ids[i] /\ ids2[i] = ids[i]
          BY <1>11, <3>1, <4>1, <4>2, <4>6
        <5> QED BY <1>11, <3>1, <4>6, <5>1 DEF Moved
      <4> QED BY <1>11, <4>4, <4>5, <4>6
    <3>2. CASE ~(sel_field < pos_y)
      <4>1. \A j \in 1..NrFields :
               u[j] = IF j = sel_field + 1 THEN ids[pos_y + 2]
                      ELSE IF pos_y + 2 <= j /\ j < sel_field + 1 THEN ids[j + 1] ELSE ids[j]
        BY <1>1, <1>3, <1>11, <1>13, <2>3, <3>2 DEF Moved
      <4>2. ids2[i] = IF i = pos_y + 2 THEN ids[pos_y + 1]
                      ELSE IF i = pos_y + 1 THEN ids[pos_y + 2] ELSE ids[i]
        BY <1>1, <1>9, <1>11, <1>13, <3>2
      <4>3. u[sel_field + 1] = ids[pos_y + 2]
        BY <1>11, <4>1
      <4>4. CASE i = pos_y + 1
        BY <1>11, <4>2, <4>3, <4>4 DEF Moved
      <4>5. CASE pos_y + 1 < i /\ i <= sel_field + 1
        <5>1. i - 1 \in 1..NrFields
          BY <1>11, <4>5
        <5>2. u[i - 1] = IF pos_y + 2 <= i - 1 THEN ids[i] ELSE ids[i - 1]
          BY <1>11, <4>1, <4>5, <5>1
        <5> QED BY <1>11, <4>2, <4>5, <5>2 DEF Moved
      <4>6. CASE i < pos_y + 1 \/ i > sel_field + 1
        <5>1. u[i] = ids[i] /\ ids2[i] = ids[i]
          BY <1>3, <1>11, <3>2, <4>1, <4>2, <4>6
        <5> QED BY <1>3, <1>11, <3>2, <4>6, <5>1 DEF Moved
      <4> QED BY <1>11, <4>4, <4>5, <4>6
    <3> QED BY <3>1, <3>2
  <2>6. UserOrder' = MoveItem(UserOrder, sel_field + 1, pos_y + 1)
    BY <1>7, <2>1, <2>2, <2>4, <2>5
  <2>7. UserOrder[sel_field + 1] = At(f).id /\ UserOrder[pos_y + 1] = At(pos_y).id
    <3>1. u[sel_field + 1] = ids[f + 1] /\ u[pos_y + 1] = ids[pos_y + 1]
      BY <1>1, <1>3, <1>11, <1>13, <2>3 DEF Moved
    <3> QED BY <1>2, <1>3, <1>8, <2>2, <3>1
  <2>8. sel_field + 1 \in DOMAIN UserOrder /\ pos_y + 1 \in DOMAIN UserOrder
        /\ sel_field + 1 # pos_y + 1
    BY <1>3, <1>10, <1>11
  <2>9. Order!Move(sel_field + 1, pos_y + 1)
    BY <1>3, <1>4, <1>5, <2>6, <2>7, <2>8, SameMove, Zenon
    DEF Order!Move, UserOrder, UserKey, IsHeading
  <2> QED BY <2>8, <2>9, Zenon DEF Order!Next, UserOrder
<1> QED BY <1>12, <1>13

\* Every step of the field screen's handlers is one of the user's list, or none.
LEMMA StepOrder == IInv /\ [Next]_vars => [Order!Next]_(Order!vars)
<1>1. IInv /\ UNCHANGED vars => UNCHANGED Order!vars
  <2> SUFFICES ASSUME UNCHANGED vars PROVE UNCHANGED Order!vars
    OBVIOUS
  <2>1. UNCHANGED <<tcp_fields, sort_key, sort_ascending, sel_field, f, ext_req>>
    BY DEF vars
  <2>2. UserOrder' = UserOrder /\ UserKey' = UserKey
    BY <2>1, KeptOrder, Zenon DEF UserOrder, UserKey
  <2> QED BY <2>1, <2>2, KeptOrder, SameOrder
<1> QED BY <1>1, TableKeptOrder, MarksSetOrder, SwapStepOrder DEF Next, TableKept, MarksSet

\* The handlers of the field screen implement FieldOrder, for every table: a move in
\* neighbour swaps takes one field out and puts it in elsewhere, the marks stay with their
\* fields and the sort key with the field the user chose.
THEOREM OrderImplemented == Spec => ImplementsOrder
<1>1. Init => IInv /\ Order!Init
  BY InitIInv, InitOrder
<1> QED BY <1>1, NextIInv, StepOrder, PTL DEF Spec, ImplementsOrder, Order!Spec

\* The turns the loop of field_key_left_handler() has left.
TurnsLeft == IF f = NULL THEN 0 ELSE IF f < pos_y THEN pos_y - f ELSE f - pos_y

\* Once the loop runs nothing else does, and each turn brings the field one row closer to
\* the cursor; the turn that reaches it is the last.  This is why MoveEnds holds, and
\* after how many turns.
THEOREM MoveCloser ==
    Spec => [][f # NULL => /\ SwapStep
                           /\ TurnsLeft \in Nat /\ TurnsLeft' = TurnsLeft - 1
                           /\ TurnsLeft' = 0 <=> f' = NULL]_vars
<1>1. ASSUME IInv, Next, f # NULL
      PROVE  /\ SwapStep
             /\ TurnsLeft \in Nat /\ TurnsLeft' = TurnsLeft - 1
             /\ TurnsLeft' = 0 <=> f' = NULL
  <2>1. cur_screen # "main"
    BY <1>1 DEF IInv, LoopInv, RequestsMatch
  <2>2. SwapStep
    BY <1>1, <2>1 DEF Next, EnterField, Resize, Space, PinKey, FilterKey, ChangeCursorField, SortKey,
              KeyDown, KeyUp, PgDn, PgUp, CursorTo, KeyRight, KeyLeft, Quit, OnField
  <2> DEFINE next == IF sel_field < pos_y THEN f + 1 ELSE f - 1
  <2>3. /\ pos_y' = pos_y
        /\ next = pos_y => f' = NULL
        /\ next # pos_y => f' = next
    BY <2>2 DEF SwapStep
  <2>4. /\ f \in Int /\ pos_y \in Int /\ sel_field \in Int
        /\ IF sel_field < pos_y THEN sel_field <= f /\ f < pos_y ELSE pos_y < f /\ f <= sel_field
    BY <1>1 DEF IInv, TypeOK, LoopInv, Rows, NULL
  <2>5. next # NULL \/ next = pos_y
    BY <1>1, <2>4 DEF IInv, TypeOK, Rows, NULL
  <2> QED BY <1>1, <2>2, <2>3, <2>4, <2>5 DEF TurnsLeft
<1>2. IInv /\ [Next]_vars =>
         [f # NULL => /\ SwapStep
                      /\ TurnsLeft \in Nat /\ TurnsLeft' = TurnsLeft - 1
                      /\ TurnsLeft' = 0 <=> f' = NULL]_vars
  BY <1>1
<1> QED BY Invariance, <1>2, PTL DEF Spec
=============================================================================
