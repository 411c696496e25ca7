-------------------------- MODULE DrawRows_proofs --------------------------
(* Proofs about DrawRows, for every table of fields, width of the screen,    *)
(* set of connections and number of them in a frame.                         *)
EXTENDS DrawRows, Induction, FiniteSetTheorems, SequenceTheorems

-----------------------------------------------------------------------------
(* Lemmas about the table and the lists.                                   *)

LEMMA ListType == ASSUME NEW list \in Lists PROVE list \in Seq(Conns)
<1>1. PICK n \in 0..MaxConns : list \in [1..n -> Conns]
  BY DEF Lists
<1>2. n \in Nat
  BY DrawRowsAssumption
<1> QED BY <1>1, <1>2, IsASeq

LEMMA TableFacts == /\ NrFields \in Nat /\ Cols \in Nat
                    /\ \A k \in 1..NrFields : Table[k] \in Fields /\ Width[Table[k]] \in Nat
<1>1. NrFields \in Nat /\ \A k \in 1..NrFields : Table[k] \in Fields
  BY DrawRowsAssumption, LenProperties, ElementOfSeq DEF NrFields
<1> QED BY <1>1, DrawRowsAssumption

-----------------------------------------------------------------------------
(* The inductive invariant.                                                *)

\* The lines left in the window are enough for the connections still to come.
RoomInv ==
    /\ pc \in {"header", "rows"} => DOMAIN win = 1..Len(conns) + 1
    /\ pc = "header" => y = 1 /\ conn_list = conns
    /\ pc = "rows" => /\ y \in Nat \ {0, 1}
                      /\ y + Len(conn_list) <= Len(conns) + 2

IInv == TypeOK /\ RoomInv

\* There is a line for the connection that is drawn.
LEMMA LineLeft ==
    ASSUME IInv, pc = "header" \/ (pc = "rows" /\ conn_list # <<>>)
    PROVE  y \in DOMAIN win
BY DEF IInv, TypeOK

LEMMA Room ==
    ASSUME NEW n \in Nat, NEW line \in Nat \ {0, 1}, NEW list \in Seq(Conns), list # <<>>,
           line + Len(list) <= n + 2
    PROVE  line \in 1..n + 1
<1>1. Len(list) \in Nat \ {0}
  BY EmptySeq, LenProperties
<1> QED BY <1>1

LEMMA Rest ==
    ASSUME NEW list \in Seq(Conns), list # <<>>
    PROVE  Tail(list) \in Seq(Conns) /\ Len(Tail(list)) = Len(list) - 1 /\ Len(list) \in Nat
BY HeadTailProperties, LenProperties

LEMMA InitIInv == Init => IInv
<1> SUFFICES ASSUME Init PROVE IInv
  OBVIOUS
<1>1. <<>> \in Seq(Conns)
  BY EmptySeq
<1>2. 1 \in 1..NrFields + 1
  BY TableFacts
<1>3. DOMAIN <<>> = {}
  OBVIOUS
<1>4. TypeOK
  BY <1>1, <1>2, <1>3 DEF Init, TypeOK
<1> QED BY <1>4 DEF Init, IInv, RoomInv

\* How many cells of a line have been written is never more than there are.
LEMMA PutStep ==
    ASSUME IInv, NEW cells, NEW to \in Nat, Put(cells, to)
    PROVE  /\ DOMAIN win' = DOMAIN win /\ DOMAIN touched' = DOMAIN win
           /\ \A l \in DOMAIN touched' : touched'[l] \in 0..Cols
<1>1. DOMAIN win' = DOMAIN win /\ DOMAIN touched' = DOMAIN touched
  BY DEF Put
<1>2. DOMAIN touched = DOMAIN win /\ \A l \in DOMAIN touched : touched[l] \in 0..Cols
  BY DEF IInv, TypeOK
<1>3. ASSUME NEW l \in DOMAIN touched PROVE touched'[l] \in 0..Cols
  <2>1. CASE l = y
    <3>1. PICK m : m = Min({to, Cols})
      OBVIOUS
    <3>2. m \in 0..Cols
      BY <3>1, TableFacts, MinOfTwo
    <3>3. PICK old \in 0..Cols : old = touched[l]
      BY <1>2, <1>3
    <3>4. touched'[l] = Max({old, m})
      BY <1>3, <2>1, <3>1, <3>3 DEF Put
    <3> QED BY <3>2, <3>4, TableFacts, MaxOfTwo
  <2>2. CASE l # y
    BY <1>2, <1>3, <2>2 DEF Put
  <2> QED BY <2>1, <2>2
<1> QED BY <1>1, <1>2, <1>3

LEMMA TurnStep ==
    ASSUME IInv, NEW cell, Turn(cell), i <= NrFields
    PROVE  IInv'
<1>1. /\ i' = i + 1
      /\ UNCHANGED <<pc, enabled, pinned, filter_on, pos_x, pos_y, conns, ext_rcv, conn_list,
                     y, skip_y, screen>>
  BY DEF Turn, view, marks, frame
<1>2. i \in 1..NrFields /\ i' \in 1..NrFields + 1 /\ x \in Nat /\ skip_x \in Nat
  BY <1>1, TableFacts DEF IInv, TypeOK
<1>3. /\ x' \in Nat /\ skip_x' \in Nat /\ drawn' \in BOOLEAN
      /\ DOMAIN win' = DOMAIN win /\ DOMAIN touched' = DOMAIN win
      /\ \A l \in DOMAIN touched' : touched'[l] \in 0..Cols
  <2>1. CASE UNCHANGED <<x, skip_x, drawn, win, touched>>
    BY <2>1 DEF IInv, TypeOK
  <2>2. CASE skip_x > 0 /\ skip_x' = skip_x - 1 /\ UNCHANGED <<x, drawn, win, touched>>
    BY <1>2, <2>2 DEF IInv, TypeOK
  <2>3. CASE DrawCell(cell) /\ UNCHANGED skip_x
    <3>1. PICK from : from = IF drawn THEN x + 1 ELSE x
      OBVIOUS
    <3>2. PICK to : to = from + Width[F]
      OBVIOUS
    <3>3. to \in Nat
      BY <1>2, <3>1, <3>2, TableFacts DEF F
    <3>4. PICK cells :
            cells = nm_mvwprintw(nm_mvwprintw(win[y], x, from, Blank), from, to, cell)
      OBVIOUS
    <3>5. Put(cells, to) /\ x' = to /\ drawn' = TRUE
      BY <2>3, <3>1, <3>2, <3>4 DEF DrawCell
    <3> QED BY <1>2, <2>3, <3>3, <3>5, PutStep
  <2> QED BY <2>1, <2>2, <2>3 DEF Turn
<1>4. TypeOK'
  BY <1>1, <1>2, <1>3 DEF IInv, TypeOK
<1>5. RoomInv'
  BY <1>1, <1>3 DEF IInv, RoomInv
<1> QED BY <1>4, <1>5 DEF IInv

LEMMA BeginFrameStep == IInv /\ BeginFrame => IInv'
<1> SUFFICES ASSUME IInv, BeginFrame PROVE IInv'
  OBVIOUS
<1>1. PICK list \in Lists :
        /\ conns' = list /\ conn_list' = list
        /\ pos_y' = Max({0, Min({pos_y, Len(list) - 1})})
        /\ win' = [l \in 1..Len(list) + 1 |-> Line(Old)]
        /\ touched' = [l \in 1..Len(list) + 1 |-> 0]
  BY DEF BeginFrame
<1>2. /\ skip_y' = pos_y' /\ pc' = "header" /\ i' = 1 /\ x' = 0 /\ skip_x' = pos_x
      /\ drawn' = FALSE /\ y' = 1
      /\ UNCHANGED <<enabled, pinned, filter_on, pos_x, screen>>
  BY DEF BeginFrame, StartLoop, marks
<1>3. list \in Seq(Conns) /\ Len(list) \in Nat
  BY ListType, LenProperties
<1>4. pos_y' \in Nat
  <2>1. PICK n \in Int : n = Len(list) - 1
    BY <1>3
  <2>2. PICK m \in Int : m = Min({pos_y, n})
    BY MinOfTwo DEF IInv, TypeOK
  <2>3. pos_y' = Max({0, m})
    BY <1>1, <2>1, <2>2
  <2>4. Max({0, m}) = IF 0 >= m THEN 0 ELSE m
    BY MaxOfTwo
  <2> QED BY <2>3, <2>4
<1>5. DOMAIN win' = 1..Len(list) + 1 /\ DOMAIN touched' = 1..Len(list) + 1
      /\ \A l \in DOMAIN touched' : touched'[l] \in 0..Cols
  BY <1>1, TableFacts
<1>6. 1 \in 1..NrFields + 1 /\ 1 \in 1..Len(list) + 1
  BY <1>3, TableFacts
<1>7. TypeOK'
  BY <1>1, <1>2, <1>3, <1>4, <1>5, <1>6 DEF IInv, TypeOK
<1>8. RoomInv'
  BY <1>1, <1>2, <1>5 DEF RoomInv
<1> QED BY <1>7, <1>8 DEF IInv

\* A step that leaves the window alone and begins a line, below the header.
LEMMA NewLineStep ==
    ASSUME IInv, NEW line \in Nat \ {0, 1}, NEW list \in Seq(Conns),
           pc' = "rows", conn_list' = list, StartLoop(line),
           line + Len(list) <= Len(conns) + 2,
           DOMAIN win = 1..Len(conns) + 1, DOMAIN win' = DOMAIN win,
           DOMAIN touched' = DOMAIN win, \A l \in DOMAIN touched' : touched'[l] \in 0..Cols,
           UNCHANGED <<enabled, pinned, filter_on, pos_x, pos_y, conns, ext_rcv, skip_y, screen>>
    PROVE  IInv'
<1>1. i' = 1 /\ x' = 0 /\ skip_x' = pos_x /\ drawn' = FALSE /\ y' = line
  BY DEF StartLoop
<1>2. 1 \in 1..NrFields + 1
  BY TableFacts
<1>3. conns \in Seq(Conns) /\ Len(conns) \in Nat
  BY LenProperties DEF IInv, TypeOK
<1>4. list # <<>> => line \in 1..Len(conns) + 1
  BY <1>3, Room
<1>5. TypeOK'
  BY <1>1, <1>2, <1>4 DEF IInv, TypeOK
<1>6. RoomInv'
  BY <1>1 DEF RoomInv
<1> QED BY <1>5, <1>6 DEF IInv

LEMMA RowsStep == IInv /\ (HeaderEnd \/ SkipRow \/ Rewind \/ RowEnd) => IInv'
<1> SUFFICES ASSUME IInv, HeaderEnd \/ SkipRow \/ Rewind \/ RowEnd PROVE IInv'
  OBVIOUS
<1>1. /\ conn_list \in Seq(Conns) /\ conns \in Seq(Conns) /\ skip_y \in Nat
      /\ Len(conns) \in Nat /\ Len(conn_list) \in Nat
      /\ DOMAIN touched = DOMAIN win /\ \A l \in DOMAIN touched : touched[l] \in 0..Cols
  BY LenProperties DEF IInv, TypeOK
<1>2. CASE HeaderEnd
  <2>1. /\ pc = "header" /\ pc' = "rows" /\ StartLoop(2)
        /\ UNCHANGED <<enabled, pinned, filter_on, pos_x, pos_y, conns, ext_rcv, skip_y, screen>>
        /\ UNCHANGED <<conn_list, win, touched>>
    BY <1>2 DEF HeaderEnd, view, marks, frame
  <2>2. conn_list = conns /\ DOMAIN win = 1..Len(conns) + 1
    BY <2>1 DEF IInv, RoomInv
  <2>3. 2 + Len(conn_list) <= Len(conns) + 2
    BY <1>1, <2>2
  <2> QED BY <1>1, <2>1, <2>2, <2>3, NewLineStep
<1>3. ASSUME pc = "rows", conn_list # <<>>
      PROVE  /\ y \in Nat \ {0, 1} /\ DOMAIN win = 1..Len(conns) + 1
             /\ Tail(conn_list) \in Seq(Conns)
             /\ y + 1 + Len(Tail(conn_list)) <= Len(conns) + 2
             /\ y + Len(Tail(conn_list)) <= Len(conns) + 2
  <2>1. y \in Nat \ {0, 1} /\ DOMAIN win = 1..Len(conns) + 1
        /\ y + Len(conn_list) <= Len(conns) + 2
    BY <1>3 DEF IInv, RoomInv
  <2>2. PICK n \in Nat : n = Len(Tail(conn_list)) /\ Len(conn_list) = n + 1
    <3>1. Tail(conn_list) \in Seq(Conns) /\ Len(Tail(conn_list)) = Len(conn_list) - 1
      BY <1>1, <1>3, Rest
    <3>2. Len(Tail(conn_list)) \in Nat
      BY <3>1, LenProperties
    <3> QED BY <1>1, <3>1, <3>2
  <2> QED BY <1>1, <1>3, <2>1, <2>2, Rest
<1>4. CASE SkipRow
  <2>1. /\ pc = "rows" /\ conn_list # <<>> /\ skip_y > 0 /\ skip_y' = skip_y - 1
        /\ conn_list' = Tail(conn_list)
        /\ UNCHANGED <<enabled, pinned, filter_on, pos_x, pos_y, conns, ext_rcv, screen>>
        /\ UNCHANGED <<pc, i, x, skip_x, drawn, y, win, touched>>
    BY <1>4 DEF SkipRow, view, marks, frame, row
  <2>2. conn_list' # <<>> => y \in 1..Len(conns) + 1
    BY <1>1, <1>3, <2>1, Room
  <2>3. skip_y' \in Nat
    BY <1>1, <2>1
  <2>4. TypeOK'
    BY <1>3, <2>1, <2>2, <2>3 DEF IInv, TypeOK
  <2>5. RoomInv'
    BY <1>3, <2>1 DEF RoomInv
  <2> QED BY <2>4, <2>5 DEF IInv
<1>5. CASE Rewind
  <2>1. /\ pc = "rows" /\ conn_list # <<>> /\ pc' = pc /\ StartLoop(y)
        /\ Put(Line(Blank), Cols) /\ conn_list' = Tail(conn_list)
        /\ UNCHANGED <<enabled, pinned, filter_on, pos_x, pos_y, conns, ext_rcv, skip_y, screen>>
    BY <1>5 DEF Rewind, Drawing, view, marks, frame
  <2>2. PICK cells : Put(cells, Cols)
    BY <2>1
  <2>3. /\ DOMAIN win' = DOMAIN win /\ DOMAIN touched' = DOMAIN win
        /\ \A l \in DOMAIN touched' : touched'[l] \in 0..Cols
    BY <2>2, TableFacts, PutStep
  <2> QED BY <1>3, <2>1, <2>3, NewLineStep
<1>6. CASE RowEnd
  <2>1. /\ pc = "rows" /\ conn_list # <<>> /\ pc' = pc /\ StartLoop(y + 1)
        /\ conn_list' = Tail(conn_list) /\ UNCHANGED <<win, touched>>
        /\ UNCHANGED <<enabled, pinned, filter_on, pos_x, pos_y, conns, ext_rcv, skip_y, screen>>
    BY <1>6 DEF RowEnd, Drawing, view, marks, frame
  <2>2. y + 1 \in Nat \ {0, 1}
    BY <1>3, <2>1
  <2> QED BY <1>1, <1>3, <2>1, <2>2, NewLineStep
<1> QED BY <1>2, <1>4, <1>5, <1>6

LEMMA KeyStep ==
    ASSUME IInv, NEW newx \in Nat, NEW newy \in Nat, Key(newx, newy),
           {enabled', pinned', filter_on'} \subseteq SUBSET Fields
    PROVE  IInv'
<1>1. /\ pc' = "dump" /\ pos_x' = newx /\ pos_y' = newy
      /\ UNCHANGED <<conns, ext_rcv, conn_list, i, x, skip_x, drawn, y, skip_y, win, touched,
                     screen>>
  BY DEF Key, frame, row
<1>2. TypeOK'
  BY <1>1 DEF IInv, TypeOK
<1> QED BY <1>1, <1>2 DEF IInv, RoomInv

LEMMA NextIInv == IInv /\ [Next]_vars => IInv'
<1> SUFFICES ASSUME IInv, [Next]_vars PROVE IInv'
  OBVIOUS
<1>0. pos_x \in Nat /\ pos_y \in Nat /\ {enabled, pinned, filter_on} \subseteq SUBSET Fields
  BY DEF IInv, TypeOK
<1>1. CASE BeginFrame
  BY <1>1, BeginFrameStep
<1>2. CASE HeaderField \/ RowField
  <2>1. PICK cell : Turn(cell)
    BY <1>2 DEF HeaderField, RowField
  <2>2. i <= NrFields
    BY <1>2 DEF HeaderField, RowField
  <2> QED BY <2>1, <2>2, TurnStep
<1>3. CASE HeaderEnd \/ SkipRow \/ Rewind \/ RowEnd
  BY <1>3, RowsStep
<1>4. CASE EndFrame
  <2>1. /\ pc' = "keys"
        /\ UNCHANGED <<enabled, pinned, filter_on, pos_x, pos_y, conns, ext_rcv, conn_list,
                       i, x, skip_x, drawn, y, skip_y, win, touched>>
    BY <1>4 DEF EndFrame, view, marks, frame, row
  <2>2. TypeOK'
    BY <2>1 DEF IInv, TypeOK
  <2> QED BY <2>1, <2>2 DEF IInv, RoomInv
<1>5. CASE KeyRight \/ KeyLeft \/ KeyDown \/ KeyUp
  <2>1. UNCHANGED <<enabled, pinned, filter_on>>
    BY <1>5 DEF KeyRight, KeyLeft, KeyDown, KeyUp, marks
  <2>2. PICK newx \in Nat, newy \in Nat : Key(newx, newy)
    <3>1. CASE KeyRight
      <4>1. Key(pos_x + 1, pos_y)
        BY <3>1 DEF KeyRight
      <4> QED BY <1>0, <4>1
    <3>2. CASE KeyLeft
      <4>1. pos_x > 0 /\ Key(pos_x - 1, pos_y)
        BY <3>2 DEF KeyLeft
      <4> QED BY <1>0, <4>1
    <3>3. CASE KeyDown
      <4>1. Key(pos_x, pos_y + 1)
        BY <3>3 DEF KeyDown
      <4> QED BY <1>0, <4>1
    <3>4. CASE KeyUp
      <4>1. pos_y > 0 /\ Key(pos_x, pos_y - 1)
        BY <3>4 DEF KeyUp
      <4> QED BY <1>0, <4>1
    <3> QED BY <1>5, <3>1, <3>2, <3>3, <3>4
  <2> QED BY <1>0, <2>1, <2>2, KeyStep
<1>6. CASE \E f \in Fields : Mark(f)
  <2>1. PICK f \in Fields : Mark(f)
    BY <1>6
  <2>2. \A set \in SUBSET Fields : Flip(set, f) \in SUBSET Fields
    BY DEF Flip
  <2>3. {enabled', pinned', filter_on'} \subseteq SUBSET Fields
    BY <1>0, <2>1, <2>2 DEF Mark
  <2>4. Key(pos_x, pos_y)
    BY <2>1 DEF Mark
  <2> QED BY <1>0, <2>3, <2>4, KeyStep
<1>7. CASE UNCHANGED vars
  BY <1>7 DEF vars, view, marks, frame, row, IInv, TypeOK, RoomInv
<1> QED BY <1>1, <1>2, <1>3, <1>4, <1>5, <1>6, <1>7 DEF Next

-----------------------------------------------------------------------------
(* Lemmas about the columns of a line.                                     *)

LEMMA TableField == ASSUME NEW j \in 1..NrFields
                    PROVE  Table[j] \in Fields /\ Width[Table[j]] \in Nat \ {0}
BY TableFacts, DrawRowsAssumption

\* The sums Left stands for.
LEMMA LeftSums ==
    ASSUME NEW set
    PROVE  /\ \A j \in 1..NrFields + 1 : Left(set, j) \in Nat
           /\ Left(set, 1) = 0
           /\ \A j \in 1..NrFields :
                 Left(set, j + 1) = Left(set, j) + (IF j \in set THEN Width[Table[j]] + 1 ELSE 0)
<1> DEFINE N == NrFields
           Add(k) == IF k \in set THEN Width[Table[k]] + 1 ELSE 0
           G == [p \in (0..N) \X Nat |-> IF p[1] = 0 THEN 0 ELSE p[2] + Add(p[1])]
           left == CHOOSE f : f = [k \in 0..N |-> IF k = 0 THEN 0 ELSE f[k - 1] + Add(k)]
<1>1. N \in Nat /\ \A k \in 1..N : Add(k) \in Nat
  BY TableFacts, TableField
<1>2. G \in [(0..N) \X Nat -> Nat]
  <2> HIDE DEF Add, N
  <2>1. \A k \in 0..N : k # 0 => Add(k) \in Nat
    BY <1>1
  <2> QED BY <2>1
<1>3. PICK f \in [0..N -> Nat] : Follows(f, 0, G, N)
  <2> HIDE DEF G, N
  <2> QED BY <1>1, <1>2, RecursionExists
<1>4. f[0] = 0 /\ \A k \in 1..N : f[k] = f[k - 1] + Add(k)
  <2>1. f[0] = 0
    BY <1>3 DEF Follows
  <2>2. ASSUME NEW k \in 1..N PROVE f[k] = f[k - 1] + Add(k)
    <3> HIDE DEF Add, N
    <3>1. k \in 0..N /\ k # 0 /\ k - 1 \in 0..N /\ f[k - 1] \in Nat
      BY <1>1
    <3>2. f[k] = G[<<k, f[k - 1]>>]
      <4> HIDE DEF G
      <4> QED BY <1>3, <3>1 DEF Follows
    <3>3. G[<<k, f[k - 1]>>] = f[k - 1] + Add(k)
      BY <3>1
    <3> QED BY <3>2, <3>3
  <2> QED BY <2>1, <2>2
<1>5. f = [k \in 0..N |-> IF k = 0 THEN 0 ELSE f[k - 1] + Add(k)]
  <2> HIDE DEF Add, N
  <2>1. f = [k \in 0..N |-> f[k]]
    OBVIOUS
  <2>2. \A k \in 0..N : f[k] = IF k = 0 THEN 0 ELSE f[k - 1] + Add(k)
    BY <1>1, <1>4
  <2> QED BY <2>1, <2>2
<1>6. left = [k \in 0..N |-> IF k = 0 THEN 0 ELSE left[k - 1] + Add(k)]
  BY <1>5
<1>7. \A j \in 1..N + 1 : Left(set, j) = left[j - 1]
  BY DEF Left
<1> HIDE DEF left, Add, N
<1>8. left[0] = 0 /\ \A k \in 1..N : left[k] = left[k - 1] + Add(k)
  BY <1>1, <1>6
<1>9. \A k \in 0..N : left[k] \in Nat
  <2> DEFINE S == {k \in 0..N : left[k] \in Nat}
  <2>1. 0 \in S
    BY <1>1, <1>8
  <2>2. \A k \in 0..N - 1 : k \in S => k + 1 \in S
    BY <1>1, <1>8
  <2>3. 0..N \subseteq S
    <3> HIDE DEF S
    <3> QED BY <1>1, <2>1, <2>2, BoundedInduction
  <2> QED BY <2>3
<1>10. \A j \in 1..N + 1 : j - 1 \in 0..N
  BY <1>1
<1>11. \A j \in 1..N : Left(set, j + 1) = left[j] /\ Left(set, j) = left[j - 1]
  BY <1>1, <1>7
<1>12. 1 \in 1..N + 1
  BY <1>1
<1> QED
  BY <1>7, <1>8, <1>9, <1>10, <1>11, <1>12 DEF N, Add

\* Columns stand in the order of the table.
LEMMA LeftGrows ==
    ASSUME NEW set, NEW j \in 1..NrFields + 1, NEW k \in 1..NrFields + 1, j <= k
    PROVE  Left(set, j) <= Left(set, k)
<1> DEFINE S == {n \in Nat : j + n <= NrFields + 1 => Left(set, j) <= Left(set, j + n)}
<1>1. NrFields \in Nat /\ \A m \in 1..NrFields + 1 : Left(set, m) \in Nat
  BY LeftSums, TableFacts
<1>2. 0 \in S
  BY <1>1
<1>3. ASSUME NEW n \in Nat, n \in S PROVE n + 1 \in S
  <2>1. SUFFICES ASSUME j + (n + 1) <= NrFields + 1
                 PROVE  Left(set, j) <= Left(set, j + (n + 1))
    OBVIOUS
  <2>2. j + n \in 1..NrFields /\ j + (n + 1) = (j + n) + 1
    BY <1>1, <2>1
  <2>3. Left(set, j) <= Left(set, j + n)
    BY <1>1, <1>3, <2>2
  <2>4. /\ Left(set, j + n) \in Nat /\ Left(set, j + n + 1) \in Nat /\ Left(set, j) \in Nat
        /\ Left(set, j + n) <= Left(set, j + n + 1)
    <3>1. Left(set, j + n + 1) =
            Left(set, j + n) + (IF j + n \in set THEN Width[Table[j + n]] + 1 ELSE 0)
      BY <2>2, LeftSums
    <3>2. Width[Table[j + n]] \in Nat
      BY <2>2, TableField
    <3>3. j + n \in 1..NrFields + 1 /\ j + n + 1 \in 1..NrFields + 1
      BY <1>1, <2>2
    <3> QED BY <1>1, <3>1, <3>2, <3>3
  <2> QED BY <2>2, <2>3, <2>4
<1>4. Nat \subseteq S
  <2> HIDE DEF S
  <2> QED BY <1>2, <1>3, Induction
<1>5. k - j \in S /\ j + (k - j) = k
  BY <1>1, <1>4
<1> QED
  BY <1>1, <1>5

\* A column ends with a blank before any field behind it.
LEMMA ColumnEnds ==
    ASSUME NEW set, NEW j \in 1..NrFields, j \in set, NEW k \in 1..NrFields + 1, j < k
    PROVE  Left(set, j) + Width[Table[j]] + 1 <= Left(set, k)
<1>1. NrFields \in Nat /\ j \in 1..NrFields + 1 /\ j + 1 \in 1..NrFields + 1 /\ j + 1 <= k
  BY TableFacts
<1>2. Left(set, j + 1) = Left(set, j) + Width[Table[j]] + 1
  BY <1>1, LeftSums, TableField
<1>3. Left(set, j + 1) <= Left(set, k)
  BY <1>1, LeftGrows
<1> QED BY <1>2, <1>3

\* What is in a cell of a line: the text of the column that covers it, or nothing.
LEMMA CellCovered ==
    ASSUME NEW text, NEW j \in Visible, NEW c \in 1..Cols,
           Left(Visible, j) < c, c <= Left(Visible, j) + Width[Table[j]]
    PROVE  LineOf(text)[c] = text[Table[j]]
<1>1. Visible \subseteq 1..NrFields
  BY DEF Visible, Columns
<1>2. \A k \in 1..NrFields : /\ Left(Visible, k) \in Nat /\ Width[Table[k]] \in Nat
                             /\ k \in 1..NrFields + 1 /\ k \in Nat
  BY LeftSums, TableField, TableFacts
<1>3. ASSUME NEW k \in At(Visible, c) PROVE k = j
  <2>1. k \in Visible /\ Left(Visible, k) < c /\ c <= Left(Visible, k) + Width[Table[k]]
    BY DEF At
  <2>2. CASE k < j
    <3>1. Left(Visible, k) + Width[Table[k]] + 1 <= Left(Visible, j)
      BY <1>1, <1>2, <2>1, <2>2, ColumnEnds
    <3> QED BY <1>1, <1>2, <2>1, <3>1
  <2>3. CASE j < k
    <3>1. Left(Visible, j) + Width[Table[j]] + 1 <= Left(Visible, k)
      BY <1>1, <1>2, <2>1, <2>3, ColumnEnds
    <3> QED BY <1>1, <1>2, <2>1, <3>1
  <2> QED BY <1>1, <1>2, <2>1, <2>2, <2>3
<1>4. At(Visible, c) = {j}
  <2>1. j \in At(Visible, c)
    BY DEF At
  <2> QED BY <1>3, <2>1
<1>5. Min({j}) = j
  <2>1. {j} \in SUBSET Nat /\ {j} # {}
    BY <1>1, <1>2
  <2> QED BY <2>1, MinIsLeast
<1> QED
  BY <1>4, <1>5 DEF LineOf

\* The cell before a column is empty, and so is every cell behind the columns.
LEMMA CellEmpty ==
    ASSUME NEW text, NEW i0 \in 1..NrFields + 1, NEW c \in 1..Cols,
           \/ c = Left(Visible, i0)
           \/ i0 = NrFields + 1 /\ c >= Left(Visible, i0)
    PROVE  LineOf(text)[c] = Blank
<1>1. Visible \subseteq 1..NrFields
  BY DEF Visible, Columns
<1>2. \A k \in 1..NrFields : /\ Left(Visible, k) \in Nat /\ Width[Table[k]] \in Nat
                             /\ k \in 1..NrFields + 1 /\ k \in Nat
  BY LeftSums, TableField, TableFacts
<1>3. Left(Visible, i0) \in Nat /\ i0 \in Nat /\ NrFields \in Nat
  BY LeftSums, TableFacts
<1>4. ASSUME NEW k \in At(Visible, c) PROVE FALSE
  <2>1. k \in Visible /\ Left(Visible, k) < c /\ c <= Left(Visible, k) + Width[Table[k]]
    BY DEF At
  <2>2. CASE k < i0
    <3>1. Left(Visible, k) + Width[Table[k]] + 1 <= Left(Visible, i0)
      BY <1>1, <1>2, <2>1, <2>2, ColumnEnds
    <3> QED BY <1>1, <1>2, <1>3, <2>1, <3>1
  <2>3. CASE i0 <= k
    <3>1. Left(Visible, i0) <= Left(Visible, k)
      BY <1>1, <1>2, <2>1, <2>3, LeftGrows
    <3> QED BY <1>1, <1>2, <1>3, <2>1, <2>3, <3>1
  <2> QED BY <1>1, <1>2, <1>3, <2>1, <2>2, <2>3
<1>5. At(Visible, c) = {}
  BY <1>4
<1> QED
  BY <1>5 DEF LineOf

\* How many elements of a set of places come before a place.
LEMMA BeforeNext ==
    ASSUME NEW n \in Nat, NEW set \in SUBSET (1..n), NEW j \in 1..n
    PROVE  /\ Cardinality(Before(set, j)) \in Nat
           /\ Before(set, j + 1) = IF j \in set THEN Before(set, j) \cup {j} ELSE Before(set, j)
           /\ Cardinality(Before(set, j + 1)) =
                 Cardinality(Before(set, j)) + (IF j \in set THEN 1 ELSE 0)
<1>1. IsFiniteSet(Before(set, j))
  <2>1. IsFiniteSet(1..n)
    BY FS_Interval
  <2>2. Before(set, j) \in SUBSET (1..n)
    BY DEF Before
  <2> HIDE DEF Before
  <2> QED BY <2>1, <2>2, FS_Subset
<1>2. j \notin Before(set, j)
  BY DEF Before
<1>3. Before(set, j + 1) = IF j \in set THEN Before(set, j) \cup {j} ELSE Before(set, j)
  <2>1. \A k \in set : k < j + 1 <=> k < j \/ k = j
    OBVIOUS
  <2>2. CASE j \in set
    BY <2>1, <2>2 DEF Before
  <2>3. CASE j \notin set
    BY <2>1, <2>3 DEF Before
  <2> QED BY <2>2, <2>3
<1>4. Cardinality(Before(set, j)) \in Nat
  BY <1>1, FS_CardinalityType
<1>5. Cardinality(Before(set, j) \cup {j}) = Cardinality(Before(set, j)) + 1
  BY <1>1, <1>2, FS_AddElement
<1> QED
  BY <1>3, <1>4, <1>5

LEMMA BeforeFirst ==
    ASSUME NEW n \in Nat, NEW set \in SUBSET (1..n)
    PROVE  Before(set, 1) = {} /\ Cardinality(Before(set, 1)) = 0
<1>1. \A k \in set : ~(k < 1)
  OBVIOUS
<1>2. Before(set, 1) = {}
  BY <1>1 DEF Before
<1> QED BY <1>2, FS_EmptySet

-----------------------------------------------------------------------------
(* The invariant for what is on the screen.                                *)

\* What a line looks like once doupdate() has copied the cells written.
OnScreen(l) == [c \in 1..Cols |-> IF c <= touched[l] THEN win[l][c] ELSE Blank]

\* The loop over the fields has skipped and drawn what Visible says of the fields
\* before i, and the next column begins behind the last and a blank.
LoopInv ==
    LET gone == Cardinality(Before(Unpinned, i)) IN
    /\ skip_x = IF gone >= pos_x THEN 0 ELSE pos_x - gone
    /\ drawn <=> Before(Visible, i) # {}
    /\ Left(Visible, i) = IF drawn THEN x + 1 ELSE 0
    /\ ~drawn => x = 0

\* The line up to x is as it should be and behind x nothing would be seen.
PartLine(text) ==
    \A c \in 1..Cols :
        /\ c <= x => c <= touched[y]
        /\ OnScreen(y)[c] = IF c <= x THEN LineOf(text)[c] ELSE Blank

\* How many connections have left the list.
Done == Len(conns) - Len(conn_list)

HeaderInv ==
    pc = "header" =>
        /\ PartLine(HeaderText)
        /\ \A l \in DOMAIN win : l > 1 => OnScreen(l) = Line(Blank)
        /\ skip_y = pos_y

\* The connections that have left the list and pass are on the lines above y, the one
\* that is drawn passes the filters of the fields before i, and below is nothing.
RowsInv ==
    pc = "rows" =>
        /\ \A k \in 1..Len(conn_list) : conn_list[k] = conns[Done + k]
        /\ skip_y = IF Done >= pos_y THEN 0 ELSE pos_y - Done
        /\ skip_y > 0 \/ conn_list = <<>> => i = 1
        /\ y = LineFor(Done + 1)
        /\ conn_list # <<>> =>
              /\ PartLine(RowText(Ci))
              /\ \A j \in 1..i - 1 : Column(Table[j]) /\ Table[j] \in filter_on =>
                    ExtRcv[Table[j]] \in ConnExt[Ci] /\ Table[j] \in Passes[Ci]
        /\ OnScreen(1) = LineOf(HeaderText)
        /\ \A k \in RowsShown : k <= Done => OnScreen(LineFor(k)) = LineOf(RowText(conns[k]))
        /\ \A l \in DOMAIN win : l > y \/ (l = y /\ i = 1) => OnScreen(l) = Line(Blank)

ScreenInv ==
    /\ pc \in {"header", "rows"} => LoopInv
    /\ HeaderInv
    /\ RowsInv
    /\ ScreenShows

-----------------------------------------------------------------------------
(* The loop over the fields draws a line.                                  *)

\* What a frame shows is settled when it begins.
FrameKept == UNCHANGED <<enabled, pinned, filter_on, pos_x, pos_y, conns, ext_rcv>>

LEMMA KeptLayout ==
    ASSUME FrameKept
    PROVE  /\ Unpinned' = Unpinned /\ Visible' = Visible /\ RowsShown' = RowsShown
           /\ \A f : Column(f)' <=> Column(f)
           /\ \A text : LineOf(text)' = LineOf(text)
           /\ \A k : LineFor(k)' = LineFor(k)
<1> USE DEF FrameKept
<1>1. \A f : Column(f)' <=> Column(f)
  BY DEF Column
<1>2. Columns' = Columns
  BY <1>1 DEF Columns
<1>3. Unpinned' = Unpinned
  BY <1>2 DEF Unpinned
<1>4. Visible' = Visible
  BY <1>2, <1>3 DEF Visible
<1>5. \A c : Matches(c)' <=> Matches(c)
  BY <1>1 DEF Matches
<1>6. RowsShown' = RowsShown
  BY <1>5 DEF RowsShown
<1> QED
  BY <1>1, <1>3, <1>4, <1>6 DEF LineOf, LineFor

LEMMA VisibleSets == /\ Columns \in SUBSET (1..NrFields) /\ Unpinned \in SUBSET (1..NrFields)
                     /\ Visible \in SUBSET (1..NrFields)
BY DEF Columns, Unpinned, Visible

\* A turn of the loop draws the field if Visible has it, and at Left.
LEMMA ColumnStep ==
    ASSUME IInv, LoopInv, i \in 1..NrFields, NEW cell, Turn(cell)
    PROVE  /\ LoopInv' /\ FrameKept /\ i' = i + 1
           /\ UNCHANGED <<pc, conn_list, y, skip_y, screen>>
           /\ \/ i \notin Visible /\ UNCHANGED <<x, win, touched>>
              \/ /\ i \in Visible
                 /\ x' = Left(Visible, i) + Width[F]
                 /\ Left(Visible, i) = IF drawn THEN x + 1 ELSE x
                 /\ Put(nm_mvwprintw(nm_mvwprintw(win[y], x, Left(Visible, i), Blank),
                                     Left(Visible, i), x', cell), x')
<1>1. /\ FrameKept /\ i' = i + 1 /\ UNCHANGED <<pc, conn_list, y, skip_y, screen>>
  BY DEF Turn, view, marks, frame, FrameKept
<1>2. Visible' = Visible /\ Unpinned' = Unpinned /\ pos_x' = pos_x
  BY <1>1, KeptLayout DEF FrameKept
<1>3. /\ x \in Nat /\ skip_x \in Nat /\ drawn \in BOOLEAN /\ pos_x \in Nat
      /\ NrFields \in Nat /\ F \in Fields /\ Width[F] \in Nat \ {0}
  BY TableFacts, TableField DEF IInv, TypeOK, F
<1> DEFINE gone == Cardinality(Before(Unpinned, i))
<1>4. /\ gone \in Nat
      /\ Cardinality(Before(Unpinned, i + 1)) = gone + (IF i \in Unpinned THEN 1 ELSE 0)
      /\ Before(Visible, i + 1) = IF i \in Visible THEN Before(Visible, i) \cup {i}
                                  ELSE Before(Visible, i)
  <2>1. NrFields \in Nat /\ Unpinned \in SUBSET (1..NrFields) /\ Visible \in SUBSET (1..NrFields)
    BY <1>3, VisibleSets
  <2> HIDE DEF gone
  <2>2. \A set \in SUBSET (1..NrFields), j \in 1..NrFields :
          /\ Cardinality(Before(set, j)) \in Nat
          /\ Before(set, j + 1) = IF j \in set THEN Before(set, j) \cup {j} ELSE Before(set, j)
          /\ Cardinality(Before(set, j + 1)) =
                Cardinality(Before(set, j)) + (IF j \in set THEN 1 ELSE 0)
    BY <2>1, BeforeNext
  <2>3. /\ Cardinality(Before(Unpinned, i)) \in Nat
        /\ Cardinality(Before(Unpinned, i + 1)) =
              Cardinality(Before(Unpinned, i)) + (IF i \in Unpinned THEN 1 ELSE 0)
        /\ Before(Visible, i + 1) = IF i \in Visible THEN Before(Visible, i) \cup {i}
                                    ELSE Before(Visible, i)
    BY <2>1, <2>2
  <2> QED BY <2>3 DEF gone
<1>5. Left(Visible, i + 1) = Left(Visible, i) + (IF i \in Visible THEN Width[F] + 1 ELSE 0)
  BY LeftSums DEF F
<1> HIDE DEF gone
<1>6. /\ skip_x = IF gone >= pos_x THEN 0 ELSE pos_x - gone
      /\ drawn <=> Before(Visible, i) # {}
      /\ Left(Visible, i) = IF drawn THEN x + 1 ELSE 0
      /\ ~drawn => x = 0
  BY DEF LoopInv, gone
<1>7. /\ i \in Visible <=> Column(F) /\ (F \notin pinned => gone >= pos_x)
      /\ i \in Unpinned <=> Column(F) /\ F \notin pinned
  BY DEF Visible, Unpinned, Columns, F, gone
<1>8. LoopInv' <=>
        LET next == Cardinality(Before(Unpinned, i + 1)) IN
        /\ skip_x' = IF next >= pos_x THEN 0 ELSE pos_x - next
        /\ drawn' <=> Before(Visible, i + 1) # {}
        /\ Left(Visible, i + 1) = IF drawn' THEN x' + 1 ELSE 0
        /\ ~drawn' => x' = 0
  BY <1>1, <1>2 DEF LoopInv
<1>9. CASE ~Column(F) /\ UNCHANGED <<x, skip_x, drawn, win, touched>>
  <2>1. i \notin Visible /\ i \notin Unpinned
    BY <1>7, <1>9
  <2>2. /\ Cardinality(Before(Unpinned, i + 1)) = gone
        /\ Before(Visible, i + 1) = Before(Visible, i)
    BY <1>4, <2>1
  <2>3. Left(Visible, i + 1) = IF drawn THEN x + 1 ELSE 0
    BY <1>3, <1>5, <1>6, <2>1
  <2>4. LoopInv'
    BY <1>6, <1>8, <1>9, <2>2, <2>3
  <2> QED BY <1>1, <1>9, <2>1, <2>4
<1>10. CASE /\ Column(F) /\ skip_x > 0 /\ F \notin pinned
            /\ skip_x' = skip_x - 1 /\ UNCHANGED <<x, drawn, win, touched>>
  <2>1. i \notin Visible /\ i \in Unpinned /\ gone < pos_x
    BY <1>3, <1>4, <1>6, <1>7, <1>10
  <2>2. skip_x' = IF gone + 1 >= pos_x THEN 0 ELSE pos_x - (gone + 1)
    BY <1>3, <1>4, <1>6, <1>10, <2>1
  <2>3. /\ Cardinality(Before(Unpinned, i + 1)) = gone + 1
        /\ Before(Visible, i + 1) = Before(Visible, i)
    BY <1>4, <2>1
  <2>4. Left(Visible, i + 1) = IF drawn THEN x + 1 ELSE 0
    BY <1>3, <1>5, <1>6, <2>1
  <2>5. LoopInv'
    BY <1>6, <1>8, <1>10, <2>2, <2>3, <2>4
  <2> QED BY <1>1, <1>10, <2>1, <2>5
<1>11. CASE Column(F) /\ (skip_x = 0 \/ F \in pinned) /\ DrawCell(cell) /\ UNCHANGED skip_x
  <2>1. i \in Visible /\ (i \in Unpinned => gone >= pos_x)
    BY <1>3, <1>4, <1>6, <1>7, <1>11
  <2>2. Left(Visible, i) = IF drawn THEN x + 1 ELSE x
    BY <1>6
  <2>3. /\ x' = Left(Visible, i) + Width[F] /\ drawn' = TRUE
        /\ Put(nm_mvwprintw(nm_mvwprintw(win[y], x, Left(Visible, i), Blank),
                            Left(Visible, i), x', cell), x')
    <3>1. x' = Left(Visible, i) + Width[F] /\ drawn' = TRUE
      BY <1>11, <2>2 DEF DrawCell
    <3> QED BY <1>11, <2>2, <3>1 DEF DrawCell
  <2>4. skip_x' = IF Cardinality(Before(Unpinned, i + 1)) >= pos_x THEN 0
                  ELSE pos_x - Cardinality(Before(Unpinned, i + 1))
    <3>1. CASE i \in Unpinned
      BY <1>3, <1>4, <1>6, <1>11, <2>1, <3>1
    <3>2. CASE i \notin Unpinned
      BY <1>3, <1>4, <1>6, <1>11, <3>2
    <3> QED BY <3>1, <3>2
  <2>5. Left(Visible, i + 1) = x' + 1
    <3>1. Left(Visible, i) \in Nat
      BY <1>3, <2>2
    <3> QED BY <1>3, <1>5, <2>1, <2>3, <3>1
  <2>6. LoopInv'
    BY <1>4, <1>8, <2>1, <2>3, <2>4, <2>5
  <2> QED BY <1>1, <2>1, <2>2, <2>3, <2>6
<1> QED
  BY <1>9, <1>10, <1>11 DEF Turn

\* The cells of a line, and how far it has been written, after Put.
LEMMA PutCells ==
    ASSUME IInv, NEW cells, NEW to \in Nat, Put(cells, to),
           NEW line \in DOMAIN win, line = y
    PROVE  /\ \A c \in 1..Cols : c <= touched'[line] <=> c <= touched[line] \/ c <= to
           /\ \A c \in 1..Cols : OnScreen(line)'[c] =
                 IF c <= touched[line] \/ c <= to THEN cells[c] ELSE Blank
           /\ \A l \in DOMAIN win : l # line => OnScreen(l)' = OnScreen(l)
<1>1. DOMAIN touched = DOMAIN win /\ touched[line] \in 0..Cols /\ Cols \in Nat
  BY TableFacts DEF IInv, TypeOK
<1>2. win'[line] = cells /\ touched'[line] = Max({touched[line], Min({to, Cols})})
  BY <1>1 DEF Put
<1>3. PICK m \in Int : m = Min({to, Cols}) /\ m = IF to <= Cols THEN to ELSE Cols
  BY <1>1, MinOfTwo
<1>4. touched'[line] = IF touched[line] >= m THEN touched[line] ELSE m
  <2>1. PICK t \in Int : t = touched[line]
    BY <1>1
  <2>2. touched'[line] = Max({t, m})
    BY <1>2, <1>3, <2>1
  <2> QED BY <2>1, <2>2, MaxOfTwo
<1>5. \A c \in 1..Cols : c <= touched'[line] <=> c <= touched[line] \/ c <= to
  BY <1>1, <1>3, <1>4
<1>6. \A l \in DOMAIN win : l # line => win'[l] = win[l] /\ touched'[l] = touched[l]
  BY <1>1 DEF Put
<1>7. \A l \in DOMAIN win : l # line => OnScreen(l)' = OnScreen(l)
  BY <1>6 DEF OnScreen
<1>8. \A c \in 1..Cols : OnScreen(line)'[c] = IF c <= touched'[line] THEN cells[c] ELSE Blank
  BY <1>2 DEF OnScreen
<1> QED
  BY <1>5, <1>7, <1>8

\* A turn draws the line a cell's text goes to one column further.
LEMMA TurnDraws ==
    ASSUME IInv, LoopInv, i \in 1..NrFields, NEW text, Turn(text[F]), PartLine(text),
           NEW line \in DOMAIN win, line = y
    PROVE  /\ LoopInv' /\ PartLine(text)' /\ FrameKept /\ i' = i + 1
           /\ UNCHANGED <<pc, conn_list, y, skip_y, screen>>
           /\ DOMAIN win' = DOMAIN win
           /\ \A l \in DOMAIN win : l # line => OnScreen(l)' = OnScreen(l)
<1>1. /\ LoopInv' /\ FrameKept /\ i' = i + 1
      /\ UNCHANGED <<pc, conn_list, y, skip_y, screen>>
  BY ColumnStep
<1>2. LineOf(text)' = LineOf(text)
  BY <1>1, KeptLayout
<1>3. CASE i \notin Visible /\ UNCHANGED <<x, win, touched>>
  <2>1. \A l : OnScreen(l)' = OnScreen(l)
    BY <1>3 DEF OnScreen
  <2>2. PartLine(text)'
    BY <1>1, <1>2, <1>3, <2>1 DEF PartLine
  <2> QED BY <1>1, <1>3, <2>1, <2>2
<1>4. CASE /\ i \in Visible
           /\ x' = Left(Visible, i) + Width[F]
           /\ Left(Visible, i) = IF drawn THEN x + 1 ELSE x
           /\ Put(nm_mvwprintw(nm_mvwprintw(win[y], x, Left(Visible, i), Blank),
                               Left(Visible, i), x', text[F]), x')
  <2>1. PICK from : from = Left(Visible, i)
    OBVIOUS
  <2>2. PICK to : to = x'
    OBVIOUS
  <2>3. PICK cells : cells = nm_mvwprintw(nm_mvwprintw(win[line], x, from, Blank),
                                          from, to, text[F])
    OBVIOUS
  <2>4. Put(cells, to)
    BY <1>4, <2>1, <2>2, <2>3
  <2>5. x \in Nat /\ Width[F] \in Nat /\ Cols \in Nat /\ i \in 1..NrFields + 1
    BY TableFacts, TableField DEF IInv, TypeOK, F
  <2>6. from \in Nat /\ from = (IF drawn THEN x + 1 ELSE x) /\ to \in Nat /\ to = from + Width[F]
    BY <1>4, <2>1, <2>2, <2>5, LeftSums
  <2>7. \A c \in 1..Cols : cells[c] = IF from < c /\ c <= to THEN text[F]
                                      ELSE IF x < c /\ c <= from THEN Blank
                                      ELSE win[line][c]
    BY <2>3 DEF nm_mvwprintw
  <2>8. /\ \A c \in 1..Cols : c <= touched'[line] <=> c <= touched[line] \/ c <= to
        /\ \A c \in 1..Cols : OnScreen(line)'[c] =
              IF c <= touched[line] \/ c <= to THEN cells[c] ELSE Blank
        /\ \A l \in DOMAIN win : l # line => OnScreen(l)' = OnScreen(l)
    BY <2>4, <2>6, PutCells
  <2>9. \A c \in 1..Cols :
          /\ c <= x => c <= touched[line]
          /\ OnScreen(line)[c] = IF c <= x THEN LineOf(text)[c] ELSE Blank
          /\ OnScreen(line)[c] = IF c <= touched[line] THEN win[line][c] ELSE Blank
    BY DEF PartLine, OnScreen
  <2>10. ASSUME NEW c \in 1..Cols
         PROVE  OnScreen(line)'[c] = IF c <= to THEN LineOf(text)[c] ELSE Blank
    <3>1. c \in Nat
      BY <2>5
    <3>2. touched[line] \in Nat
      BY DEF IInv, TypeOK
    <3>3. CASE c > to
      BY <2>5, <2>6, <2>7, <2>8, <2>9, <3>1, <3>2, <3>3
    <3>4. CASE from < c /\ c <= to
      <4>1. LineOf(text)[c] = text[F]
        BY <1>4, <2>1, <2>6, <3>4, CellCovered DEF F
      <4> QED BY <2>7, <2>8, <3>4, <4>1
    <3>5. CASE x < c /\ c <= from
      <4>1. c = from
        BY <2>5, <2>6, <3>1, <3>5
      <4>2. LineOf(text)[c] = Blank
        BY <2>1, <2>5, <4>1, CellEmpty
      <4> QED BY <2>5, <2>6, <2>7, <2>8, <3>1, <3>5, <4>1, <4>2
    <3>6. CASE c <= x
      BY <2>5, <2>6, <2>7, <2>8, <2>9, <3>1, <3>2, <3>6
    <3> QED BY <2>5, <2>6, <3>1, <3>3, <3>4, <3>5, <3>6
  <2>11. PartLine(text)'
    BY <1>1, <1>2, <2>2, <2>8, <2>10 DEF PartLine
  <2>12. DOMAIN win' = DOMAIN win
    BY <2>4 DEF Put
  <2> QED BY <1>1, <2>8, <2>11, <2>12
<1> QED
  BY <1>3, <1>4, ColumnStep

\* The line is done at the end of the table, and at the right edge of the screen.
LEMMA LineDone ==
    ASSUME IInv, LoopInv, NEW text, PartLine(text), i = NrFields + 1 \/ x >= Cols,
           NEW line, line = y
    PROVE  OnScreen(line) = LineOf(text)
<1>1. x \in Nat /\ Cols \in Nat /\ NrFields \in Nat
  BY TableFacts DEF IInv, TypeOK
<1>2. ASSUME NEW c \in 1..Cols PROVE OnScreen(line)[c] = LineOf(text)[c]
  <2>1. OnScreen(line)[c] = IF c <= x THEN LineOf(text)[c] ELSE Blank
    BY DEF PartLine
  <2>2. CASE c > x
    <3>1. i = NrFields + 1 /\ i \in 1..NrFields + 1
      BY <1>1, <2>2
    <3>2. c >= Left(Visible, i)
      BY <1>1, <2>2 DEF LoopInv
    <3>3. LineOf(text)[c] = Blank
      BY <3>1, <3>2, CellEmpty
    <3> QED BY <1>1, <2>1, <2>2, <3>3
  <2> QED BY <1>1, <2>1, <2>2
<1>3. OnScreen(line) = [c \in 1..Cols |-> OnScreen(line)[c]]
  BY DEF OnScreen
<1>4. LineOf(text) = [c \in 1..Cols |-> LineOf(text)[c]]
  BY DEF LineOf
<1> HIDE DEF OnScreen, LineOf
<1> QED
  BY <1>2, <1>3, <1>4

\* A line is blank if all of its cells are.
LEMMA BlankLine ==
    ASSUME NEW l, \A c \in 1..Cols : OnScreen(l)[c] = Blank
    PROVE  OnScreen(l) = Line(Blank)
BY DEF OnScreen, Line

-----------------------------------------------------------------------------
(* The connections, row by row.                                            *)

\* The rows of two connections are not on the same line.
LEMMA BeforeGrows ==
    ASSUME NEW n \in Nat, NEW set \in SUBSET (1..n), NEW k \in set, NEW m \in 1..n + 1, k < m
    PROVE  /\ Cardinality(Before(set, k)) \in Nat /\ Cardinality(Before(set, m)) \in Nat
           /\ Cardinality(Before(set, k)) < Cardinality(Before(set, m))
<1>1. IsFiniteSet(1..n)
  BY FS_Interval
<1>2. Before(set, k) \in SUBSET (1..n) /\ Before(set, m) \in SUBSET (1..n)
  BY DEF Before
<1>3. IsFiniteSet(Before(set, k)) /\ IsFiniteSet(Before(set, m))
  BY <1>1, <1>2, FS_Subset
<1>4. k \notin Before(set, k)
  BY DEF Before
<1>5. Before(set, k) \cup {k} \in SUBSET Before(set, m)
  <2>1. \A a \in set : a \in Nat
    OBVIOUS
  <2>2. ASSUME NEW a \in Before(set, k) \cup {k} PROVE a \in set /\ a < m
    BY <2>1 DEF Before
  <2> QED BY <2>2 DEF Before
<1> HIDE DEF Before
<1>6. Cardinality(Before(set, k) \cup {k}) = Cardinality(Before(set, k)) + 1
  BY <1>3, <1>4, FS_AddElement
<1>7. Cardinality(Before(set, k) \cup {k}) <= Cardinality(Before(set, m))
  BY <1>3, <1>5, FS_Subset
<1>8. Cardinality(Before(set, k)) \in Nat /\ Cardinality(Before(set, m)) \in Nat
  BY <1>3, FS_CardinalityType
<1> QED
  BY <1>6, <1>7, <1>8

LEMMA RowLines ==
    ASSUME IInv, NEW m \in 1..Len(conns) + 1, NEW k \in RowsShown, k < m
    PROVE  LineFor(k) \in Nat /\ LineFor(m) \in Nat /\ LineFor(k) < LineFor(m) /\ LineFor(k) > 1
<1>1. Len(conns) \in Nat /\ RowsShown \in SUBSET (1..Len(conns))
  BY LenProperties DEF IInv, TypeOK, RowsShown
<1>2. PICK n \in Nat : n = Len(conns)
  BY <1>1
<1>3. PICK set \in SUBSET (1..n) : set = RowsShown
  BY <1>1, <1>2
<1>4. k \in set /\ m \in 1..n + 1
  BY <1>2, <1>3
<1>5. /\ Cardinality(Before(set, k)) \in Nat /\ Cardinality(Before(set, m)) \in Nat
      /\ Cardinality(Before(set, k)) < Cardinality(Before(set, m))
  BY <1>4, BeforeGrows
<1>6. /\ LineFor(k) = 2 + Cardinality(Before(set, k))
      /\ LineFor(m) = 2 + Cardinality(Before(set, m))
  BY <1>3 DEF LineFor
<1> QED
  BY <1>5, <1>6

\* Where the loop over the connections is, and where it goes next.
LEMMA NextRow ==
    ASSUME IInv, pc = "rows", RowsInv, conn_list # <<>>,
           conn_list' = Tail(conn_list), FrameKept
    PROVE  /\ Done \in Nat /\ Done + 1 \in 1..Len(conns) /\ Ci = conns[Done + 1]
           /\ Done' = Done + 1
           /\ \A k \in 1..Len(conn_list') : conn_list'[k] = conns'[Done' + k]
           /\ LineFor(Done + 1) \in Nat
           /\ LineFor(Done + 1)' =
                 LineFor(Done + 1) + (IF Done + 1 \in RowsShown THEN 1 ELSE 0)
<1>1. /\ conn_list \in Seq(Conns) /\ conns \in Seq(Conns) /\ Len(conns) \in Nat
      /\ Len(conn_list) \in Nat /\ y \in Nat \ {0, 1}
      /\ y + Len(conn_list) <= Len(conns) + 2
  BY LenProperties DEF IInv, TypeOK, RoomInv
<1>2. /\ Len(Tail(conn_list)) = Len(conn_list) - 1
      /\ Tail(conn_list) \in Seq(Conns) /\ Len(Tail(conn_list)) \in Nat
      /\ Ci = conn_list[1]
      /\ \A k \in 1..Len(Tail(conn_list)) : Tail(conn_list)[k] = conn_list[k + 1]
  BY <1>1, HeadTailProperties, LenProperties DEF Ci
<1>3. PICK n \in Nat : n = Len(conn_list) /\ n > 0
  <2>1. Len(conn_list) # 0
    BY <1>1, EmptySeq
  <2> QED BY <1>1, <2>1
<1>4. Done \in Nat /\ Done + 1 \in 1..Len(conns) /\ Done + n = Len(conns)
  BY <1>1, <1>3 DEF Done
<1>5. Done' = Done + 1
  BY <1>1, <1>2, <1>3 DEF Done, FrameKept
<1>6. \A k \in 1..Len(conn_list) : conn_list[k] = conns[Done + k]
  BY DEF RowsInv
<1>7. conns' = conns
  BY DEF FrameKept
<1>8. ASSUME NEW k \in 1..Len(conn_list') PROVE conn_list'[k] = conns'[Done' + k]
  <2>1. k + 1 \in 1..Len(conn_list) /\ conn_list'[k] = conn_list[k + 1]
    BY <1>2, <1>3
  <2>2. Done + (k + 1) = Done' + k
    BY <1>2, <1>4, <1>5
  <2> QED BY <1>6, <1>7, <2>1, <2>2
<1>9. Ci = conns[Done + 1]
  BY <1>2, <1>3, <1>6
<1>10. RowsShown \in SUBSET (1..Len(conns))
  BY DEF RowsShown
<1>11. PICK all \in Nat : all = Len(conns)
  BY <1>1
<1>12. PICK at \in 1..all : at = Done + 1
  BY <1>4, <1>11
<1>13. /\ Cardinality(Before(RowsShown, at)) \in Nat
       /\ Cardinality(Before(RowsShown, at + 1)) =
              Cardinality(Before(RowsShown, at)) + (IF at \in RowsShown THEN 1 ELSE 0)
  <2>1. RowsShown \in SUBSET (1..all)
    BY <1>10, <1>11
  <2>2. \A set \in SUBSET (1..all), j \in 1..all :
          /\ Cardinality(Before(set, j)) \in Nat
          /\ Before(set, j + 1) = IF j \in set THEN Before(set, j) \cup {j} ELSE Before(set, j)
          /\ Cardinality(Before(set, j + 1)) =
                 Cardinality(Before(set, j)) + (IF j \in set THEN 1 ELSE 0)
    BY BeforeNext
  <2> QED BY <2>1, <2>2
<1>14. LineFor(at) = 2 + Cardinality(Before(RowsShown, at))
  BY DEF LineFor
<1>15. LineFor(Done + 1)' = 2 + Cardinality(Before(RowsShown, at + 1))
  <2>1. Done' + 1 = at + 1 /\ RowsShown' = RowsShown
    BY <1>5, <1>12, KeptLayout
  <2> QED BY <2>1 DEF LineFor
<1> QED
  BY <1>4, <1>5, <1>8, <1>9, <1>12, <1>13, <1>14, <1>15

\* The loop over the fields starts on a new line.
LEMMA LoopStarts ==
    ASSUME NEW line, StartLoop(line), pos_x \in Nat, pos_x' = pos_x
    PROVE  /\ LoopInv' /\ i' = 1 /\ x' = 0 /\ y' = line
<1>1. i' = 1 /\ x' = 0 /\ skip_x' = pos_x /\ drawn' = FALSE /\ y' = line
  BY DEF StartLoop
<1>2. PICK unpinned, visible : unpinned = Unpinned' /\ visible = Visible'
  OBVIOUS
<1>3. unpinned \in SUBSET (1..NrFields) /\ visible \in SUBSET (1..NrFields) /\ NrFields \in Nat
  BY <1>2, TableFacts DEF Unpinned, Visible, Columns
<1>4. \A set \in SUBSET (1..NrFields) : Before(set, 1) = {} /\ Cardinality(Before(set, 1)) = 0
  BY <1>3, BeforeFirst
<1>5. Left(visible, 1) = 0
  BY LeftSums
<1>6. Cardinality(Before(unpinned, 1)) = 0 /\ Before(visible, 1) = {}
  BY <1>3, <1>4
<1>7. /\ Cardinality(Before(Unpinned', i')) = 0 /\ Before(Visible', i') = {}
      /\ Left(Visible', i') = 0
  BY <1>1, <1>2, <1>5, <1>6
<1>8. LoopInv'
  BY <1>1, <1>7 DEF LoopInv
<1> QED
  BY <1>1, <1>8

\* Before a line is begun nothing is on it.
LEMMA NewLine ==
    ASSUME NEW text, x' = 0, NEW line, y' = line, OnScreen(line)' = Line(Blank)
    PROVE  PartLine(text)'
<1>1. \A c \in 1..Cols : ~(c <= 0) /\ Line(Blank)[c] = Blank
  BY TableFacts DEF Line
<1> QED
  BY <1>1 DEF PartLine

LEMMA BeginFrameScreen == IInv /\ IInv' /\ BeginFrame => ScreenInv'
<1> SUFFICES ASSUME IInv, IInv', BeginFrame PROVE ScreenInv'
  OBVIOUS
<1>1. PICK list \in Lists : touched' = [l \in 1..Len(list) + 1 |-> 0]
  BY DEF BeginFrame
<1>2. pc' = "header" /\ StartLoop(1) /\ pos_x' = pos_x /\ skip_y' = pos_y' /\ pos_x \in Nat
  BY DEF BeginFrame, IInv, TypeOK
<1>3. LoopInv' /\ i' = 1 /\ x' = 0 /\ y' = 1
  BY <1>2, LoopStarts
<1>4. ASSUME NEW l \in DOMAIN win' PROVE OnScreen(l)' = Line(Blank)
  <2>1. touched'[l] = 0
    BY <1>1 DEF IInv, TypeOK
  <2>2. \A c \in 1..Cols : ~(c <= touched'[l])
    BY <2>1, TableFacts
  <2> QED BY <2>2 DEF OnScreen, Line
<1>5. 1 \in DOMAIN win'
  BY <1>2, <1>3 DEF IInv, TypeOK
<1>6. PartLine(HeaderText)'
  <2>1. OnScreen(1)' = Line(Blank)
    BY <1>4, <1>5
  <2>2. \A text : PartLine(text)'
    BY <1>3, <2>1, NewLine
  <2> QED BY <2>2 DEF HeaderText, PartLine
<1>7. HeaderInv'
  BY <1>2, <1>4, <1>6 DEF HeaderInv
<1> QED
  BY <1>2, <1>3, <1>7 DEF ScreenInv, RowsInv, ScreenShows

LEMMA HeaderFieldScreen == IInv /\ IInv' /\ ScreenInv /\ HeaderField => ScreenInv'
<1> SUFFICES ASSUME IInv, IInv', ScreenInv, HeaderField PROVE ScreenInv'
  OBVIOUS
<1>1. pc = "header" /\ i <= NrFields /\ Turn(<<F, Header>>)
  BY DEF HeaderField
<1>2. i \in 1..NrFields /\ NrFields \in Nat
  BY <1>1, TableFacts DEF IInv, TypeOK
<1>3. /\ LoopInv /\ PartLine(HeaderText) /\ skip_y = pos_y
      /\ \A l \in DOMAIN win : l > 1 => OnScreen(l) = Line(Blank)
  BY <1>1 DEF ScreenInv, HeaderInv
<1>4. y = 1 /\ y \in DOMAIN win
  BY <1>1 DEF IInv, TypeOK, RoomInv
<1>5. PICK text : text = HeaderText
  OBVIOUS
<1>6. Turn(text[F])
  <2>1. F \in Fields
    BY <1>2, TableFacts DEF F
  <2>2. text[F] = <<F, Header>>
    BY <1>5, <2>1 DEF HeaderText
  <2> QED BY <1>1, <2>2
<1>7. PartLine(text)
  BY <1>3, <1>5
<1>8. /\ LoopInv' /\ PartLine(text)' /\ FrameKept
      /\ UNCHANGED <<pc, conn_list, y, skip_y, screen>>
      /\ DOMAIN win' = DOMAIN win
      /\ \A l \in DOMAIN win : l # 1 => OnScreen(l)' = OnScreen(l)
  BY <1>2, <1>3, <1>4, <1>6, <1>7, TurnDraws
<1>9. HeaderInv'
  <2>1. PartLine(HeaderText)'
    BY <1>5, <1>8 DEF HeaderText
  <2>2. \A l \in DOMAIN win' : l > 1 => OnScreen(l)' = Line(Blank)
    BY <1>3, <1>8
  <2> QED BY <1>3, <1>8, <2>1, <2>2 DEF HeaderInv, FrameKept
<1> QED
  BY <1>1, <1>8, <1>9 DEF ScreenInv, RowsInv, ScreenShows

LEMMA HeaderEndScreen == IInv /\ IInv' /\ ScreenInv /\ HeaderEnd => ScreenInv'
<1> SUFFICES ASSUME IInv, IInv', ScreenInv, HeaderEnd PROVE ScreenInv'
  OBVIOUS
<1>1. /\ pc = "header" /\ pc' = "rows" /\ StartLoop(2) /\ FrameKept
      /\ UNCHANGED <<conn_list, skip_y, win, touched, screen>>
      /\ i > NrFields \/ x >= Cols
  BY DEF HeaderEnd, view, marks, frame, FrameKept
<1>2. /\ LoopInv /\ PartLine(HeaderText) /\ skip_y = pos_y
      /\ \A l \in DOMAIN win : l > 1 => OnScreen(l) = Line(Blank)
  BY <1>1 DEF ScreenInv, HeaderInv
<1>3. /\ y = 1 /\ conn_list = conns /\ pos_x \in Nat /\ pos_y \in Nat
      /\ DOMAIN win = 1..Len(conns) + 1 /\ i \in 1..NrFields + 1 /\ NrFields \in Nat
      /\ Len(conns) \in Nat
  BY <1>1, TableFacts, LenProperties DEF IInv, TypeOK, RoomInv
<1>4. LoopInv' /\ i' = 1 /\ x' = 0 /\ y' = 2
  BY <1>1, <1>3, LoopStarts DEF FrameKept
<1>5. \A l : OnScreen(l)' = OnScreen(l)
  BY <1>1 DEF OnScreen
<1>6. Done' = 0
  BY <1>1, <1>3 DEF Done, FrameKept
<1>7. OnScreen(1)' = LineOf(HeaderText)'
  <2>1. i = NrFields + 1 \/ x >= Cols
    BY <1>1, <1>3
  <2>2. PICK text : text = HeaderText
    OBVIOUS
  <2>3. OnScreen(1) = LineOf(text)
    BY <1>2, <1>3, <2>1, <2>2, LineDone
  <2>4. LineOf(text)' = LineOf(text)
    BY <1>1, KeptLayout
  <2>5. OnScreen(1)' = LineOf(text)'
    BY <1>5, <2>3, <2>4
  <2> QED BY <2>2, <2>5 DEF HeaderText
<1>8. LineFor(1)' = 2
  <2>1. RowsShown' \in SUBSET (1..Len(conns))
    BY <1>1 DEF RowsShown, FrameKept
  <2>2. PICK n \in Nat : n = Len(conns)
    BY <1>3
  <2>3. \A set \in SUBSET (1..n) : Before(set, 1) = {} /\ Cardinality(Before(set, 1)) = 0
    BY BeforeFirst
  <2>4. Cardinality(Before(RowsShown', 1)) = 0
    BY <2>1, <2>2, <2>3
  <2> QED BY <2>4 DEF LineFor
<1>9. conn_list' # <<>> => 2 \in DOMAIN win
  BY <1>1, <1>4 DEF IInv, TypeOK
<1>10. conn_list' # <<>> => PartLine(RowText(Ci))'
  <2> SUFFICES ASSUME conn_list' # <<>> PROVE PartLine(RowText(Ci))'
    OBVIOUS
  <2>1. OnScreen(2)' = Line(Blank)
    BY <1>2, <1>5, <1>9
  <2>2. \A text : PartLine(text)'
    BY <1>4, <2>1, NewLine
  <2>3. PICK text : text = RowText(Ci)'
    OBVIOUS
  <2>4. PartLine(text)'
    BY <2>2
  <2> QED BY <2>3, <2>4 DEF PartLine
<1>11. \A k \in 1..Len(conn_list') : conn_list'[k] = conns'[Done' + k]
  BY <1>1, <1>3, <1>6 DEF FrameKept
<1>12. RowsInv'
  <2>1. skip_y' = IF Done' >= pos_y' THEN 0 ELSE pos_y' - Done'
    BY <1>1, <1>2, <1>3, <1>6 DEF FrameKept
  <2>2. y' = LineFor(Done + 1)'
    <3>1. Done' + 1 = 1
      BY <1>6
    <3> QED BY <1>4, <1>8, <3>1 DEF LineFor
  <2>3. \A k \in RowsShown' : ~(k <= Done')
    BY <1>6 DEF RowsShown
  <2>4. \A j \in 1..i' - 1 : FALSE
    BY <1>4
  <2>5. \A l \in DOMAIN win' : l > y' \/ (l = y' /\ i' = 1) => OnScreen(l)' = Line(Blank)
    BY <1>1, <1>2, <1>3, <1>4, <1>5
  <2> QED BY <1>1, <1>4, <1>7, <1>10, <1>11, <2>1, <2>2, <2>3, <2>4, <2>5 DEF RowsInv
<1> QED
  BY <1>1, <1>4, <1>12 DEF ScreenInv, HeaderInv, ScreenShows

\* The lines above the one that is drawn stay what they are.
LEMMA RowsKept ==
    ASSUME IInv, RowsInv, pc = "rows", conn_list # <<>>, FrameKept, NEW line, line = y,
           \A l \in DOMAIN win : l # line => OnScreen(l)' = OnScreen(l)
    PROVE  /\ OnScreen(1)' = LineOf(HeaderText)'
           /\ \A k \in RowsShown : k <= Done =>
                 OnScreen(LineFor(k))' = LineOf(RowText(conns[k]))'
<1>1. /\ DOMAIN win = 1..Len(conns) + 1 /\ Len(conns) \in Nat /\ Len(conn_list) \in Nat
      /\ line \in DOMAIN win /\ line \in Nat \ {0, 1} /\ conn_list \in Seq(Conns)
  BY LenProperties DEF IInv, TypeOK, RoomInv
<1>2. /\ OnScreen(1) = LineOf(HeaderText) /\ line = LineFor(Done + 1)
      /\ \A k \in RowsShown : k <= Done => OnScreen(LineFor(k)) = LineOf(RowText(conns[k]))
  BY DEF RowsInv
<1>3. OnScreen(1)' = LineOf(HeaderText)'
  <2>1. PICK text : text = HeaderText
    OBVIOUS
  <2>2. OnScreen(1)' = OnScreen(1) /\ LineOf(text)' = LineOf(text)
    BY <1>1, KeptLayout
  <2>3. OnScreen(1)' = LineOf(text)'
    BY <1>2, <2>1, <2>2
  <2> QED BY <2>1, <2>3 DEF HeaderText
<1>4. ASSUME NEW k \in RowsShown, k <= Done
      PROVE  OnScreen(LineFor(k))' = LineOf(RowText(conns[k]))'
  <2>1. Done + 1 \in 1..Len(conns) + 1 /\ k < Done + 1
    <3>1. Done \in Int /\ Done <= Len(conns)
      BY <1>1 DEF Done
    <3>2. k \in 1..Len(conns)
      BY DEF RowsShown
    <3> QED BY <1>1, <1>4, <3>1, <3>2
  <2>2. LineFor(k) \in Nat /\ LineFor(k) < line /\ LineFor(k) > 1
    BY <1>2, <2>1, RowLines
  <2>3. PICK at : at = LineFor(k)
    OBVIOUS
  <2>4. at \in DOMAIN win /\ at # line
    BY <1>1, <2>2, <2>3
  <2>5. PICK text : text = RowText(conns[k])
    OBVIOUS
  <2>6. LineFor(k)' = at /\ LineOf(text)' = LineOf(text) /\ RowText(conns[k])' = text
    BY <2>3, <2>5, KeptLayout DEF RowText, FrameKept
  <2>7. OnScreen(at)' = LineOf(text)'
    BY <1>2, <1>4, <2>3, <2>4, <2>5, <2>6
  <2>8. OnScreen(LineFor(k))' = OnScreen(at)'
    BY <2>6 DEF OnScreen
  <2>9. LineOf(RowText(conns[k]))' = LineOf(text)'
    BY <2>6 DEF LineOf
  <2> QED BY <2>7, <2>8, <2>9
<1> QED
  BY <1>3, <1>4

LEMMA RowFieldScreen == IInv /\ IInv' /\ ScreenInv /\ RowField => ScreenInv'
<1> SUFFICES ASSUME IInv, IInv', ScreenInv, RowField PROVE ScreenInv'
  OBVIOUS
<1>1. /\ pc = "rows" /\ conn_list # <<>> /\ skip_y = 0 /\ i <= NrFields /\ ~Refused
      /\ Turn(IF Carries THEN <<F, Ci>> ELSE Blank)
  BY DEF RowField, Drawing
<1>2. LoopInv /\ RowsInv /\ PartLine(RowText(Ci))
  BY <1>1 DEF ScreenInv, RowsInv
<1>3. i \in 1..NrFields /\ NrFields \in Nat /\ y \in DOMAIN win /\ F \in Fields
  BY <1>1, TableFacts DEF IInv, TypeOK, F
<1>4. PICK line \in DOMAIN win : line = y
  BY <1>3
<1>5. PICK text : text = RowText(Ci)
  OBVIOUS
<1>6. Turn(text[F])
  <2>1. text[F] = IF Carries THEN <<F, Ci>> ELSE Blank
    BY <1>3, <1>5 DEF RowText, Carries
  <2> QED BY <1>1, <2>1
<1>7. PartLine(text)
  BY <1>2, <1>5
<1>8. /\ LoopInv' /\ PartLine(text)' /\ FrameKept /\ i' = i + 1
      /\ UNCHANGED <<pc, conn_list, y, skip_y, screen>>
      /\ DOMAIN win' = DOMAIN win
      /\ \A l \in DOMAIN win : l # line => OnScreen(l)' = OnScreen(l)
  BY <1>2, <1>3, <1>4, <1>6, <1>7, TurnDraws
<1>9. Done' = Done /\ Ci' = Ci
  BY <1>8 DEF Done, FrameKept, Ci
<1>10. /\ OnScreen(1)' = LineOf(HeaderText)'
       /\ \A k \in RowsShown : k <= Done =>
             OnScreen(LineFor(k))' = LineOf(RowText(conns[k]))'
  BY <1>1, <1>2, <1>4, <1>8, RowsKept
<1>11. PartLine(RowText(Ci))'
  <2>1. RowText(Ci)' = text
    BY <1>5, <1>9 DEF RowText
  <2> QED BY <1>8, <2>1 DEF PartLine
<1>12. ASSUME NEW j \in 1..i' - 1, Column(Table[j])', Table[j] \in filter_on'
       PROVE  ExtRcv[Table[j]] \in ConnExt[Ci'] /\ Table[j] \in Passes[Ci']
  <2>1. Column(Table[j]) /\ Table[j] \in filter_on
    BY <1>8, <1>12, KeptLayout DEF FrameKept
  <2>2. CASE j = i
    BY <1>1, <1>9, <2>1, <2>2 DEF Refused, Carries, F
  <2>3. CASE j # i
    <3>1. j \in 1..i - 1
      BY <1>3, <1>8, <2>3
    <3> QED BY <1>1, <1>2, <1>9, <2>1, <3>1 DEF RowsInv
  <2> QED BY <2>2, <2>3
<1>13. y' = LineFor(Done + 1)'
  <2>1. y = LineFor(Done + 1)
    BY <1>1, <1>2 DEF RowsInv
  <2>2. \A k : LineFor(k)' = LineFor(k)
    BY <1>8, KeptLayout
  <2>3. RowsShown' = RowsShown
    BY <1>8, KeptLayout
  <2> QED BY <1>8, <1>9, <2>1, <2>3 DEF LineFor
<1>14. RowsInv'
  <2>1. \A k \in 1..Len(conn_list') : conn_list'[k] = conns'[Done' + k]
    BY <1>1, <1>2, <1>8, <1>9 DEF RowsInv, FrameKept
  <2>2. skip_y' = IF Done' >= pos_y' THEN 0 ELSE pos_y' - Done'
    BY <1>1, <1>2, <1>8, <1>9 DEF RowsInv, FrameKept
  <2>3. ~(skip_y' > 0 \/ conn_list' = <<>>)
    BY <1>1, <1>8
  <2>4. \A k \in RowsShown' : k <= Done' => OnScreen(LineFor(k))' = LineOf(RowText(conns[k]))'
    BY <1>8, <1>9, <1>10, KeptLayout
  <2>5. \A l \in DOMAIN win' : l > y' \/ (l = y' /\ i' = 1) => OnScreen(l)' = Line(Blank)
    <3>1. \A l \in DOMAIN win : l > y => l # y /\ OnScreen(l) = Line(Blank)
      <4>1. DOMAIN win = 1..Len(conns) + 1 /\ y \in Nat
        BY <1>1 DEF IInv, RoomInv
      <4> QED BY <1>1, <1>2, <4>1 DEF RowsInv
    <3>2. i' # 1
      BY <1>3, <1>8
    <3> QED BY <1>4, <1>8, <3>1, <3>2
  <2> QED BY <1>1, <1>8, <1>10, <1>11, <1>12, <1>13, <2>1, <2>2, <2>3, <2>4, <2>5 DEF RowsInv
<1> QED
  BY <1>1, <1>8, <1>14 DEF ScreenInv, HeaderInv, ScreenShows

\* A connection leaves the list: its row is on the screen if it gets one, and the line
\* after the rows is as empty as those below.
LEMMA RowAfter ==
    ASSUME IInv, IInv', RowsInv, pc = "rows", pc' = "rows", conn_list # <<>>,
           conn_list' = Tail(conn_list), FrameKept,
           skip_y' = IF skip_y > 0 THEN skip_y - 1 ELSE 0,
           i' = 1, x' = 0, y' = IF Done + 1 \in RowsShown THEN y + 1 ELSE y,
           DOMAIN win' = DOMAIN win, NEW line, line = y,
           \A l \in DOMAIN win : l # line => OnScreen(l)' = OnScreen(l),
           OnScreen(line)' = IF Done + 1 \in RowsShown THEN LineOf(RowText(Ci)) ELSE Line(Blank)
    PROVE  RowsInv'
<1>1. /\ DOMAIN win = 1..Len(conns) + 1 /\ Len(conns) \in Nat /\ pos_y \in Nat /\ skip_y \in Nat
      /\ line \in DOMAIN win /\ line \in Nat \ {0, 1}
  BY LenProperties DEF IInv, TypeOK, RoomInv
<1>2. /\ Done \in Nat /\ Done + 1 \in 1..Len(conns) /\ Ci = conns[Done + 1] /\ Done' = Done + 1
      /\ \A k \in 1..Len(conn_list') : conn_list'[k] = conns'[Done' + k]
      /\ LineFor(Done + 1) \in Nat
      /\ LineFor(Done + 1)' = LineFor(Done + 1) + (IF Done + 1 \in RowsShown THEN 1 ELSE 0)
  BY NextRow
<1>3. line = LineFor(Done + 1) /\ skip_y = IF Done >= pos_y THEN 0 ELSE pos_y - Done
  BY DEF RowsInv
<1>4. skip_y' = IF Done' >= pos_y' THEN 0 ELSE pos_y' - Done'
  <2>1. pos_y' = pos_y
    BY DEF FrameKept
  <2> QED BY <1>1, <1>2, <1>3, <2>1
<1>5. y' = LineFor(Done + 1)'
  BY <1>1, <1>2, <1>3
<1>6. /\ OnScreen(1)' = LineOf(HeaderText)'
      /\ \A k \in RowsShown : k <= Done =>
            OnScreen(LineFor(k))' = LineOf(RowText(conns[k]))'
  BY RowsKept
<1>7. ASSUME NEW l \in DOMAIN win', l >= y' PROVE OnScreen(l)' = Line(Blank)
  <2>1. l \in Nat /\ l >= line
    BY <1>1, <1>7
  <2>2. CASE l = line
    <3>1. Done + 1 \notin RowsShown
      BY <1>1, <1>7, <2>2
    <3> QED BY <2>2, <3>1
  <2>3. CASE l > line
    BY <1>1, <2>1, <2>3 DEF RowsInv
  <2> QED BY <1>1, <2>1, <2>2, <2>3
<1>8. conn_list' # <<>> => PartLine(RowText(Ci))'
  <2> SUFFICES ASSUME conn_list' # <<>> PROVE PartLine(RowText(Ci))'
    OBVIOUS
  <2>1. PICK next : next = y'
    OBVIOUS
  <2>2. next \in DOMAIN win' /\ next \in Nat
    BY <1>1, <2>1 DEF IInv, TypeOK
  <2>3. OnScreen(next)' = Line(Blank)
    BY <1>7, <2>1, <2>2
  <2>4. \A text : PartLine(text)'
    BY <2>1, <2>3, NewLine
  <2>5. PICK text : text = RowText(Ci)'
    OBVIOUS
  <2>6. PartLine(text)'
    BY <2>4
  <2> QED BY <2>5, <2>6 DEF PartLine
<1>9. ASSUME NEW k \in RowsShown', k <= Done'
      PROVE  OnScreen(LineFor(k))' = LineOf(RowText(conns[k]))'
  <2>1. k \in RowsShown /\ k \in Nat
    BY <1>1, KeptLayout DEF RowsShown
  <2>2. CASE k <= Done
    BY <1>6, <2>1, <2>2
  <2>3. CASE k = Done + 1
    <3>1. PICK text : text = RowText(Ci)
      OBVIOUS
    <3>2. RowText(conns[k])' = text /\ LineOf(text)' = LineOf(text) /\ LineFor(k)' = line
      BY <1>2, <1>3, <2>3, <3>1, KeptLayout DEF RowText, FrameKept
    <3>3. OnScreen(line)' = LineOf(text)'
      BY <2>1, <2>3, <3>1, <3>2
    <3>4. OnScreen(LineFor(k))' = OnScreen(line)' /\ LineOf(RowText(conns[k]))' = LineOf(text)'
      BY <3>2 DEF OnScreen, LineOf
    <3> QED BY <3>3, <3>4
  <2> QED BY <1>2, <1>9, <2>1, <2>2, <2>3
<1>10. \A j \in 1..i' - 1 : FALSE
  OBVIOUS
<1>11. \A l \in DOMAIN win' : l > y' \/ (l = y' /\ i' = 1) => OnScreen(l)' = Line(Blank)
  <2>1. y' \in Nat
    BY <1>1
  <2> QED BY <1>1, <1>7, <2>1
<1> QED
  BY <1>2, <1>4, <1>5, <1>6, <1>8, <1>9, <1>10, <1>11 DEF RowsInv

LEMMA SkipRowScreen == IInv /\ IInv' /\ ScreenInv /\ SkipRow => ScreenInv'
<1> SUFFICES ASSUME IInv, IInv', ScreenInv, SkipRow PROVE ScreenInv'
  OBVIOUS
<1>1. /\ pc = "rows" /\ pc' = "rows" /\ conn_list # <<>> /\ conn_list' = Tail(conn_list)
      /\ skip_y > 0 /\ skip_y' = skip_y - 1 /\ FrameKept
      /\ UNCHANGED <<i, x, skip_x, drawn, y, win, touched, screen>>
  BY DEF SkipRow, view, marks, frame, row, FrameKept
<1>2. LoopInv /\ RowsInv /\ i = 1
  BY <1>1 DEF ScreenInv, RowsInv
<1>3. y \in DOMAIN win /\ pos_y \in Nat
  BY <1>1 DEF IInv, TypeOK
<1>4. x = 0
  <2>1. NrFields \in Nat /\ Visible \in SUBSET (1..NrFields)
    BY VisibleSets, TableFacts
  <2>2. Before(Visible, 1) = {}
    BY <2>1, BeforeFirst
  <2> QED BY <1>2, <2>2 DEF LoopInv
<1>5. Done + 1 \notin RowsShown
  <2>1. Done \in Nat
    BY <1>1, <1>2, NextRow
  <2>2. ~(Done + 1 > pos_y)
    BY <1>1, <1>2, <1>3, <2>1 DEF RowsInv
  <2> QED BY <2>2 DEF RowsShown
<1>6. \A l : OnScreen(l)' = OnScreen(l)
  BY <1>1 DEF OnScreen
<1>7. PICK line : line = y
  OBVIOUS
<1>8. OnScreen(line)' = Line(Blank)
  BY <1>1, <1>2, <1>3, <1>6, <1>7 DEF RowsInv
<1>9. RowsInv'
  <2>1. skip_y' = IF skip_y > 0 THEN skip_y - 1 ELSE 0
    BY <1>1
  <2>2. y' = IF Done + 1 \in RowsShown THEN y + 1 ELSE y
    BY <1>1, <1>5
  <2>3. OnScreen(line)' = IF Done + 1 \in RowsShown THEN LineOf(RowText(Ci)) ELSE Line(Blank)
    BY <1>5, <1>8
  <2>4. /\ i' = 1 /\ x' = 0 /\ DOMAIN win' = DOMAIN win
        /\ \A l \in DOMAIN win : l # line => OnScreen(l)' = OnScreen(l)
    BY <1>1, <1>2, <1>4, <1>6
  <2> QED BY <1>1, <1>2, <1>7, <2>1, <2>2, <2>3, <2>4, RowAfter
<1>10. LoopInv'
  BY <1>1, <1>2, KeptLayout DEF LoopInv, FrameKept
<1> QED
  BY <1>1, <1>9, <1>10 DEF ScreenInv, HeaderInv, ScreenShows

LEMMA RewindScreen == IInv /\ IInv' /\ ScreenInv /\ Rewind => ScreenInv'
<1> SUFFICES ASSUME IInv, IInv', ScreenInv, Rewind PROVE ScreenInv'
  OBVIOUS
<1>1. /\ pc = "rows" /\ pc' = "rows" /\ conn_list # <<>> /\ conn_list' = Tail(conn_list)
      /\ skip_y = 0 /\ skip_y' = skip_y /\ FrameKept /\ i <= NrFields /\ Refused
      /\ Put(Line(Blank), Cols) /\ StartLoop(y) /\ UNCHANGED screen
  BY DEF Rewind, Drawing, view, marks, frame, FrameKept
<1>2. LoopInv /\ RowsInv
  BY <1>1 DEF ScreenInv, RowsInv
<1>3. /\ y \in DOMAIN win /\ pos_x \in Nat /\ i \in 1..NrFields /\ F \in Fields
  BY <1>1, TableFacts DEF IInv, TypeOK, F
<1>4. LoopInv' /\ i' = 1 /\ x' = 0 /\ y' = y
  BY <1>1, <1>3, LoopStarts DEF FrameKept
<1>5. Done + 1 \notin RowsShown
  <2>1. ~Matches(Ci)
    BY <1>1, <1>3 DEF Matches, Refused, Carries
  <2>2. Ci = conns[Done + 1]
    BY <1>1, <1>2, NextRow
  <2> QED BY <2>1, <2>2 DEF RowsShown
<1>6. PICK line \in DOMAIN win : line = y
  BY <1>3
<1>7. PICK cells : cells = Line(Blank)
  OBVIOUS
<1>8. Cols \in Nat /\ Put(cells, Cols)
  BY <1>1, <1>7, TableFacts
<1>9. /\ \A c \in 1..Cols : OnScreen(line)'[c] =
            IF c <= touched[line] \/ c <= Cols THEN cells[c] ELSE Blank
      /\ \A l \in DOMAIN win : l # line => OnScreen(l)' = OnScreen(l)
  BY <1>6, <1>8, PutCells
<1>10. OnScreen(line)' = Line(Blank)
  <2>1. \A c \in 1..Cols : OnScreen(line)'[c] = Blank
    BY <1>7, <1>9 DEF Line
  <2> QED BY <2>1 DEF OnScreen, Line
<1>11. DOMAIN win' = DOMAIN win
  BY <1>8 DEF Put
<1>12. RowsInv'
  <2>1. skip_y' = IF skip_y > 0 THEN skip_y - 1 ELSE 0
    BY <1>1
  <2>2. y' = IF Done + 1 \in RowsShown THEN y + 1 ELSE y
    BY <1>4, <1>5
  <2>3. OnScreen(line)' = IF Done + 1 \in RowsShown THEN LineOf(RowText(Ci)) ELSE Line(Blank)
    BY <1>5, <1>10
  <2> QED BY <1>1, <1>2, <1>4, <1>6, <1>9, <1>11, <2>1, <2>2, <2>3, RowAfter
<1> QED
  BY <1>1, <1>4, <1>12 DEF ScreenInv, HeaderInv, ScreenShows

LEMMA RowEndScreen == IInv /\ IInv' /\ ScreenInv /\ RowEnd => ScreenInv'
<1> SUFFICES ASSUME IInv, IInv', ScreenInv, RowEnd PROVE ScreenInv'
  OBVIOUS
<1>1. /\ pc = "rows" /\ pc' = "rows" /\ conn_list # <<>> /\ conn_list' = Tail(conn_list)
      /\ skip_y = 0 /\ skip_y' = skip_y /\ FrameKept /\ i > NrFields
      /\ StartLoop(y + 1) /\ UNCHANGED <<win, touched, screen>>
  BY DEF RowEnd, Drawing, view, marks, frame, FrameKept
<1>2. LoopInv /\ RowsInv /\ PartLine(RowText(Ci))
  BY <1>1 DEF ScreenInv, RowsInv
<1>3. /\ pos_x \in Nat /\ pos_y \in Nat /\ i = NrFields + 1 /\ NrFields \in Nat
  BY <1>1, TableFacts DEF IInv, TypeOK
<1>4. LoopInv' /\ i' = 1 /\ x' = 0 /\ y' = y + 1
  BY <1>1, <1>3, LoopStarts DEF FrameKept
<1>5. Done + 1 \in RowsShown
  <2>1. Ci = conns[Done + 1] /\ Done + 1 \in 1..Len(conns) /\ Done \in Nat
    BY <1>1, <1>2, NextRow
  <2>2. Done + 1 > pos_y
    BY <1>1, <1>2, <1>3, <2>1 DEF RowsInv
  <2>3. Matches(Ci)
    <3> SUFFICES ASSUME NEW f \in Fields, Column(f), f \in filter_on
                 PROVE  ExtRcv[f] \in ConnExt[Ci] /\ f \in Passes[Ci]
      BY DEF Matches
    <3>1. PICK j \in 1..NrFields : Table[j] = f
      <4>1. DOMAIN Table = 1..NrFields
        BY DrawRowsAssumption, LenProperties DEF NrFields
      <4> QED BY <4>1 DEF Fields, ToSet
    <3>2. j \in 1..i - 1
      BY <1>3
    <3> QED BY <1>1, <1>2, <3>1, <3>2 DEF RowsInv
  <2> QED BY <2>1, <2>2, <2>3 DEF RowsShown
<1>6. PICK line : line = y
  OBVIOUS
<1>7. \A l : OnScreen(l)' = OnScreen(l)
  BY <1>1 DEF OnScreen
<1>8. OnScreen(line)' = LineOf(RowText(Ci))
  <2>1. PICK text : text = RowText(Ci)
    OBVIOUS
  <2>2. OnScreen(line) = LineOf(text)
    BY <1>2, <1>3, <1>6, <2>1, LineDone
  <2> QED BY <1>7, <2>1, <2>2
<1>9. RowsInv'
  <2>1. skip_y' = IF skip_y > 0 THEN skip_y - 1 ELSE 0
    BY <1>1
  <2>2. y' = IF Done + 1 \in RowsShown THEN y + 1 ELSE y
    BY <1>4, <1>5
  <2>3. OnScreen(line)' = IF Done + 1 \in RowsShown THEN LineOf(RowText(Ci)) ELSE Line(Blank)
    BY <1>5, <1>8
  <2> QED BY <1>1, <1>2, <1>4, <1>6, <1>7, <2>1, <2>2, <2>3, RowAfter
<1> QED
  BY <1>1, <1>4, <1>9 DEF ScreenInv, HeaderInv, ScreenShows

\* The frame shows what the loops have drawn.
LEMMA EndFrameScreen == IInv /\ ScreenInv /\ EndFrame => ScreenInv'
<1> SUFFICES ASSUME IInv, ScreenInv, EndFrame PROVE ScreenInv'
  OBVIOUS
<1>1. /\ pc = "rows" /\ conn_list = <<>> /\ pc' = "keys" /\ FrameKept
      /\ screen' = [l \in DOMAIN win |-> OnScreen(l)]
  BY DEF EndFrame, view, marks, frame, FrameKept, OnScreen
<1>2. /\ Len(conns) \in Nat /\ DOMAIN win = 1..Len(conns) + 1
      /\ y \in Nat \ {0, 1} /\ y <= Len(conns) + 2
  <2>1. Len(conn_list) = 0
    BY <1>1
  <2> QED BY <1>1, <2>1, LenProperties DEF IInv, TypeOK, RoomInv
<1>3. Done = Len(conns)
  BY <1>1, <1>2 DEF Done
<1>4. /\ i = 1 /\ y = LineFor(Done + 1) /\ OnScreen(1) = LineOf(HeaderText)
      /\ \A k \in RowsShown : k <= Done => OnScreen(LineFor(k)) = LineOf(RowText(conns[k]))
      /\ \A l \in DOMAIN win : l > y \/ (l = y /\ i = 1) => OnScreen(l) = Line(Blank)
  BY <1>1 DEF ScreenInv, RowsInv
<1>5. RowsShown' = RowsShown /\ \A text : LineOf(text)' = LineOf(text)
  BY <1>1, KeptLayout
<1>6. screen'[1] = LineOf(HeaderText)'
  <2>1. PICK text : text = HeaderText
    OBVIOUS
  <2>2. screen'[1] = LineOf(text)'
    BY <1>1, <1>2, <1>4, <1>5, <2>1
  <2> QED BY <2>1, <2>2 DEF HeaderText
<1>7. ASSUME NEW k \in RowsShown' PROVE screen'[LineFor(k)'] = LineOf(RowText(conns[k]))'
  <2>1. k \in RowsShown /\ k \in 1..Len(conns)
    BY <1>5 DEF RowsShown
  <2>2. Len(conns) + 1 \in 1..Len(conns) + 1 /\ k < Len(conns) + 1
    BY <1>2, <2>1
  <2>3. LineFor(k) \in Nat /\ LineFor(k) > 1 /\ LineFor(k) < y
    BY <1>3, <1>4, <2>1, <2>2, RowLines
  <2>4. LineFor(k) \in DOMAIN win
    BY <1>2, <2>3
  <2>5. PICK text : text = RowText(conns[k])
    OBVIOUS
  <2>6. LineFor(k)' = LineFor(k) /\ RowText(conns[k])' = text
    BY <1>1, <2>5, KeptLayout DEF RowText, FrameKept
  <2>7. screen'[LineFor(k)'] = LineOf(text)'
    BY <1>1, <1>2, <1>3, <1>4, <1>5, <2>1, <2>4, <2>5, <2>6
  <2>8. LineOf(RowText(conns[k]))' = LineOf(text)'
    BY <2>6 DEF LineOf
  <2> QED BY <2>7, <2>8
<1>8. ASSUME NEW l \in DOMAIN screen', l > 1 + Cardinality(RowsShown')
      PROVE  screen'[l] = Line(Blank)
  <2>1. Before(RowsShown, Done + 1) = RowsShown
    BY <1>2, <1>3 DEF Before, RowsShown
  <2>2. y = 2 + Cardinality(RowsShown)
    BY <1>4, <2>1 DEF LineFor
  <2>3. Cardinality(RowsShown) \in Nat
    <3>1. IsFiniteSet(1..Len(conns))
      BY <1>2, FS_Interval
    <3>2. RowsShown \in SUBSET (1..Len(conns))
      BY DEF RowsShown
    <3>3. IsFiniteSet(RowsShown)
      BY <3>1, <3>2, FS_Subset
    <3> QED BY <3>3, FS_CardinalityType
  <2>4. l \in DOMAIN win /\ l \in Nat /\ l >= y
    BY <1>1, <1>2, <1>5, <1>8, <2>2, <2>3
  <2> QED BY <1>1, <1>2, <1>4, <2>4
<1>9. ScreenShows'
  BY <1>6, <1>7, <1>8 DEF ScreenShows
<1> QED
  BY <1>1, <1>9 DEF ScreenInv, HeaderInv, RowsInv

LEMMA NextScreen == IInv /\ IInv' /\ ScreenInv /\ [Next]_vars => ScreenInv'
<1> SUFFICES ASSUME IInv, IInv', ScreenInv, [Next]_vars PROVE ScreenInv'
  OBVIOUS
<1>1. CASE BeginFrame
  BY <1>1, BeginFrameScreen
<1>2. CASE HeaderField
  BY <1>2, HeaderFieldScreen
<1>3. CASE HeaderEnd
  BY <1>3, HeaderEndScreen
<1>4. CASE SkipRow
  BY <1>4, SkipRowScreen
<1>5. CASE RowField
  BY <1>5, RowFieldScreen
<1>6. CASE Rewind
  BY <1>6, RewindScreen
<1>7. CASE RowEnd
  BY <1>7, RowEndScreen
<1>8. CASE EndFrame
  BY <1>8, EndFrameScreen
<1>9. CASE KeyRight \/ KeyLeft \/ KeyDown \/ KeyUp \/ \E f \in Fields : Mark(f)
  <2>1. pc' = "dump"
    BY <1>9 DEF KeyRight, KeyLeft, KeyDown, KeyUp, Mark, Key
  <2> QED BY <2>1 DEF ScreenInv, HeaderInv, RowsInv, ScreenShows
<1>10. CASE UNCHANGED vars
  <2>1. /\ FrameKept
        /\ UNCHANGED <<pc, conn_list, i, x, skip_x, drawn, y, skip_y, win, touched, screen>>
    BY <1>10 DEF vars, view, marks, frame, row, FrameKept
  <2>2. LoopInv' <=> LoopInv
    BY <2>1, KeptLayout DEF LoopInv, FrameKept
  <2>3. HeaderInv' <=> HeaderInv
    BY <2>1 DEF HeaderInv, FrameKept, PartLine, HeaderText, OnScreen, LineOf, Visible, Columns,
                Unpinned, Column
  <2>4. RowsInv' <=> RowsInv
    BY <2>1 DEF RowsInv, FrameKept, PartLine, RowText, HeaderText, OnScreen, LineOf, Visible,
                Columns, Unpinned, Column, RowsShown, Matches, LineFor, Ci, Done
  <2>5. ScreenShows' <=> ScreenShows
    BY <2>1 DEF ScreenShows, FrameKept, RowText, HeaderText, LineOf, Visible, Columns, Unpinned,
                Column, RowsShown, Matches, LineFor
  <2> QED BY <2>1, <2>2, <2>3, <2>4, <2>5 DEF ScreenInv
<1> QED
  BY <1>1, <1>2, <1>3, <1>4, <1>5, <1>6, <1>7, <1>8, <1>9, <1>10 DEF Next

-----------------------------------------------------------------------------
(* The theorems.                                                           *)

\* The invariant holds in every frame, whatever is scrolled, hidden and filtered.
THEOREM Invariance == Spec => []IInv
<1>1. IInv /\ [Next]_vars => IInv'
  BY NextIInv
<1> QED BY InitIInv, <1>1, PTL DEF Spec

\* draw_connections() and draw_protocol() write to lines of the window only: however
\* many rows are skipped or refused, there is a line for the next.
THEOREM TypeCorrect == Spec => []TypeOK
<1>1. IInv => TypeOK
  BY DEF IInv
<1> QED BY Invariance, <1>1, PTL

\* Every frame shows the header and below it, line by line and column under column,
\* the connections that pass, and nothing of a refused row or of an earlier frame:
\* whatever earlier frames left in the window, however far the user has scrolled.
THEOREM ScreenCorrect == Spec => []ScreenShows
<1>1. Init => ScreenInv
  BY DEF Init, ScreenInv, HeaderInv, RowsInv, ScreenShows
<1>2. ScreenInv => ScreenShows
  BY DEF ScreenInv
<1> QED BY Invariance, NextScreen, <1>1, <1>2, PTL DEF Spec
=============================================================================
