--------------------------- MODULE ConnDump_proofs ---------------------------
(* Proofs about ConnDump, and about LinkedList, whose pointers are the list  *)
(* ConnDump takes them for: for every set of extensions, fields and values   *)
(* and every number of connections.                                          *)
EXTENDS LinkedList, Induction, SequenceTheorems

-----------------------------------------------------------------------------
(* Lemmas about the operators add_conn_info() is modelled with.            *)

\* InsertAt puts e at position at and moves what was there and after up by one.
LEMMA InsertAtEntries ==
    ASSUME NEW S, NEW s \in Seq(S), NEW e \in S, NEW at \in 1..Len(s) + 1
    PROVE  /\ InsertAt(s, at, e) \in Seq(S)
           /\ Len(InsertAt(s, at, e)) = Len(s) + 1
           /\ \A j \in 1..Len(s) + 1 :
                InsertAt(s, at, e)[j] = IF j < at THEN s[j]
                                        ELSE IF j = at THEN e ELSE s[j - 1]
<1> DEFINE front == SubSeq(s, 1, at - 1)
           mid   == front \o <<e>>
           back  == SubSeq(s, at, Len(s))
<1>1. /\ front \in Seq(S)
      /\ Len(front) = at - 1
      /\ \A j \in 1..at - 1 : front[j] = s[j]
  BY SubSeqProperties
<1>2. /\ back \in Seq(S)
      /\ Len(back) = Len(s) - at + 1
      /\ \A j \in 1..Len(s) - at + 1 : back[j] = s[at + j - 1]
  BY SubSeqProperties
<1>3. <<e>> \in Seq(S) /\ Len(<<e>>) = 1 /\ <<e>>[1] = e
  OBVIOUS
<1> HIDE DEF front, back
<1>4. /\ mid \in Seq(S)
      /\ Len(mid) = at
      /\ \A j \in 1..at : mid[j] = IF j <= at - 1 THEN front[j] ELSE <<e>>[j - at + 1]
  BY <1>1, <1>3, ConcatProperties
<1> HIDE DEF mid
<1>5. /\ mid \o back \in Seq(S)
      /\ Len(mid \o back) = Len(s) + 1
      /\ \A j \in 1..Len(s) + 1 : (mid \o back)[j] = IF j <= at THEN mid[j] ELSE back[j - at]
  <2>1. /\ mid \o back \in Seq(S)
        /\ Len(mid \o back) = Len(mid) + Len(back)
        /\ \A j \in 1..Len(mid) + Len(back) :
             (mid \o back)[j] = IF j <= Len(mid) THEN mid[j] ELSE back[j - Len(mid)]
    BY <1>2, <1>4, ConcatProperties, Zenon
  <2>2. Len(mid) = at /\ Len(back) = Len(s) - at + 1
    BY <1>2, <1>4
  <2>3. Len(mid) + Len(back) = Len(s) + 1
    BY <2>2
  <2> QED BY <2>1, <2>2, <2>3, Zenon
<1>6. InsertAt(s, at, e) = mid \o back
  BY DEF InsertAt, mid, front, back
<1>7. ASSUME NEW j \in 1..Len(s) + 1
      PROVE  (mid \o back)[j] = IF j < at THEN s[j]
                                ELSE IF j = at THEN e ELSE s[j - 1]
  <2>1. at \in Nat /\ j \in Nat /\ Len(s) \in Nat
    BY LenProperties
  <2>2. CASE j <= at - 1
    <3>1. mid[j] = front[j] /\ front[j] = s[j]
      BY <1>1, <1>4, <2>1, <2>2
    <3> QED BY <1>5, <2>1, <2>2, <3>1
  <2>3. CASE j = at
    <3>1. mid[j] = <<e>>[j - at + 1] /\ j - at + 1 = 1
      BY <1>4, <2>1, <2>3
    <3> QED BY <1>3, <1>5, <2>1, <2>3, <3>1
  <2>4. CASE j >= at + 1
    <3>1. back[j - at] = s[at + (j - at) - 1] /\ at + (j - at) - 1 = j - 1
      BY <1>2, <2>1, <2>4
    <3> QED BY <1>5, <2>1, <2>4, <3>1
  <2>5. j <= at - 1 \/ j = at \/ j >= at + 1
    BY <2>1
  <2> QED BY <2>2, <2>3, <2>4, <2>5, Zenon
<1> QED BY <1>5, <1>6, <1>7

\* t is s with e inserted at position at.
InsertedAt(t, s, at, e) ==
    /\ at \in 1..Len(s) + 1
    /\ t \in Seq(Conn)
    /\ Len(t) = Len(s) + 1
    /\ \A j \in 1..Len(s) + 1 :
          t[j] = IF j < at THEN s[j] ELSE IF j = at THEN e ELSE s[j - 1]

\* list_add_tail() before pos inserts at the position of pos ...
LEMMA InsertAtInserts ==
    ASSUME NEW s \in Seq(Conn), NEW e \in Conn, NEW at \in 1..Len(s) + 1
    PROVE  InsertedAt(InsertAt(s, at, e), s, at, e)
<1>1. /\ InsertAt(s, at, e) \in Seq(Conn)
      /\ Len(InsertAt(s, at, e)) = Len(s) + 1
      /\ \A j \in 1..Len(s) + 1 :
            InsertAt(s, at, e)[j] = IF j < at THEN s[j]
                                    ELSE IF j = at THEN e ELSE s[j - 1]
  BY InsertAtEntries
<1> QED BY <1>1, Zenon DEF InsertedAt

\* What is left when the first element is removed.
LEMMA RemoveAtFirst ==
    ASSUME NEW s \in Seq(Conn), s # <<>>
    PROVE  RemoveAt(s, 1) = Tail(s)
<1> DEFINE front == SubSeq(s, 1, 1 - 1)
           back  == SubSeq(s, 1 + 1, Len(s))
<1>1. /\ Len(s) \in Nat \ {0} /\ Tail(s) \in Seq(Conn) /\ Len(Tail(s)) = Len(s) - 1
      /\ \A i \in 1..Len(s) - 1 : Tail(s)[i] = s[i + 1]
  BY LenProperties, EmptySeq, HeadTailProperties
<1>2. front \in Seq(Conn) /\ Len(front) = 0
  BY <1>1, SubSeqProperties
<1>3. /\ back \in Seq(Conn) /\ Len(back) = Len(s) - 1
      /\ \A i \in 1..Len(s) - 1 : back[i] = s[i + 1]
  BY <1>1, SubSeqProperties
<1> HIDE DEF front, back
<1>4. front = <<>>
  BY <1>2, EmptySeq
<1>5. front \o back = back
  BY <1>3, <1>4, ConcatEmptySeq
<1>6. back = Tail(s)
  BY <1>1, <1>3, SeqEqual
<1> QED BY <1>5, <1>6 DEF RemoveAt, front, back

\* ... and before the head of the list, after its last element.
LEMMA AppendInserts ==
    ASSUME NEW s \in Seq(Conn), NEW e \in Conn
    PROVE  InsertedAt(Append(s, e), s, Len(s) + 1, e)
<1>1. /\ Append(s, e) \in Seq(Conn)
      /\ Len(Append(s, e)) = Len(s) + 1
      /\ \A j \in 1..Len(s) : Append(s, e)[j] = s[j]
      /\ Append(s, e)[Len(s) + 1] = e
  BY AppendProperties
<1>2. Len(s) \in Nat
  BY LenProperties
<1>3. Len(s) + 1 \in 1..Len(s) + 1
  BY <1>2
<1>4. ASSUME NEW j \in 1..Len(s) + 1
      PROVE  Append(s, e)[j] = IF j < Len(s) + 1 THEN s[j]
                               ELSE IF j = Len(s) + 1 THEN e ELSE s[j - 1]
  <2>1. CASE j = Len(s) + 1
    BY <1>1, <1>2, <2>1
  <2>2. CASE j \in 1..Len(s)
    BY <1>1, <1>2, <2>2
  <2>3. j = Len(s) + 1 \/ j \in 1..Len(s)
    BY <1>2
  <2> QED BY <2>1, <2>2, <2>3, Zenon
<1> QED BY <1>1, <1>3, <1>4, Zenon DEF InsertedAt

\* The order of the list is transitive.
LEMMA PrecedesTransitive ==
    ASSUME NEW a \in Conn, NEW b \in Conn, NEW c \in Conn,
           Precedes(a, b), Precedes(b, c)
    PROVE  Precedes(a, c)
<1>1. /\ {a.val, b.val, c.val} \subseteq Int
      /\ {a.seq, b.seq, c.seq} \subseteq Nat
  BY ConnDumpAssumption DEF Conn
<1> QED BY <1>1 DEF Precedes, Keyed

\* An element that comes after everything before its place, and before
\* everything after it, leaves the list in order.
LEMMA InsertKeepsOrder ==
    ASSUME NEW s \in Seq(Conn), NEW e \in Conn, NEW t, NEW at,
           InsertedAt(t, s, at, e), Ordered(s),
           \A j \in 1..Len(s) : j < at => Precedes(s[j], e),
           \A j \in 1..Len(s) : j >= at => Precedes(e, s[j])
    PROVE  Ordered(t)
<1>1. Len(s) \in Nat /\ DOMAIN s = 1..Len(s)
  BY LenProperties
<1>2. DOMAIN t = 1..Len(s) + 1
  BY LenProperties DEF InsertedAt
<1>3. SUFFICES ASSUME NEW i \in 1..Len(s) + 1, NEW j \in 1..Len(s) + 1, i < j
               PROVE  Precedes(t[i], t[j])
  BY <1>2, Zenon DEF Ordered
<1>4. at \in 1..Len(s) + 1
  BY DEF InsertedAt
<1>5. t[i] = IF i < at THEN s[i] ELSE IF i = at THEN e ELSE s[i - 1]
  BY DEF InsertedAt
<1>6. t[j] = IF j < at THEN s[j] ELSE IF j = at THEN e ELSE s[j - 1]
  BY DEF InsertedAt
<1>7. \A k, l \in 1..Len(s) : k < l => Precedes(s[k], s[l])
  BY <1>1, Zenon DEF Ordered
<1>8. CASE j < at
  <2>1. i \in 1..Len(s) /\ j \in 1..Len(s) /\ i < at
    BY <1>1, <1>3, <1>4, <1>8
  <2> QED BY <1>3, <1>5, <1>6, <1>7, <1>8, <2>1, Zenon
<1>9. CASE j = at
  <2>1. i \in 1..Len(s) /\ i < at /\ ~(j < at)
    BY <1>1, <1>3, <1>4, <1>9
  <2> QED BY <1>5, <1>6, <1>9, <2>1, Zenon
<1>10. CASE j > at /\ i < at
  <2>1. /\ i \in 1..Len(s) /\ j - 1 \in 1..Len(s) /\ i < j - 1
        /\ ~(j < at) /\ j # at
    BY <1>1, <1>3, <1>4, <1>10
  <2> QED BY <1>5, <1>6, <1>7, <1>10, <2>1, Zenon
<1>11. CASE j > at /\ i = at
  <2>1. j - 1 \in 1..Len(s) /\ j - 1 >= at /\ ~(j < at) /\ j # at /\ ~(i < at)
    BY <1>1, <1>3, <1>4, <1>11
  <2> QED BY <1>5, <1>6, <1>11, <2>1, Zenon
<1>12. CASE j > at /\ i > at
  <2>1. /\ i - 1 \in 1..Len(s) /\ j - 1 \in 1..Len(s) /\ i - 1 < j - 1
        /\ ~(j < at) /\ j # at /\ ~(i < at) /\ i # at
    BY <1>1, <1>3, <1>4, <1>12
  <2> QED BY <1>5, <1>6, <1>7, <2>1, Zenon
<1>13. \/ j < at
       \/ j = at
       \/ j > at /\ i < at
       \/ j > at /\ i = at
       \/ j > at /\ i > at
  BY <1>1, <1>4
<1> QED BY <1>8, <1>9, <1>10, <1>11, <1>12, <1>13, Zenon

\* add_conn_info() inserts the new conn_info somewhere in the list, and the
\* list stays in order if the new one arrived after all of them.
LEMMA AddConnInfoInserts ==
    ASSUME NEW ci \in Conn, conn_list \in Seq(Conn),
           sort_ascending \in BOOLEAN,
           \A j \in 1..Len(conn_list) : conn_list[j].seq < ci.seq,
           Ordered(conn_list)
    PROVE  /\ Ordered(AddConnInfo(ci))
           /\ \E at \in 1..Len(conn_list) + 1 :
                 InsertedAt(AddConnInfo(ci), conn_list, at, ci)
<1> DEFINE n == Len(conn_list)
           breaks == {i \in DOMAIN conn_list : BreaksAt(ci, conn_list[i])}
<1>1. n \in Nat /\ DOMAIN conn_list = 1..n
  BY LenProperties
<1>2. \A j \in 1..n : conn_list[j] \in Conn
  BY <1>1, ElementOfSeq
<1>3. /\ ci.val \in Int
      /\ \A j \in 1..n : conn_list[j].val \in Int
  BY <1>2, ConnDumpAssumption DEF Conn
\* Where the loop does not break, the element stays before the new one.
<1>4. ASSUME NEW j \in 1..n, ~AppendsAtOnce(ci), j \notin breaks
      PROVE  Precedes(conn_list[j], ci)
  <2>1. ~BreaksAt(ci, conn_list[j])
    BY <1>1, <1>4
  <2> QED BY <1>3, <1>4, <2>1 DEF BreaksAt, Compare, AppendsAtOnce, Precedes, Keyed
\* Where it breaks, the new one precedes the element.
<1>5. ASSUME NEW j \in 1..n, ~AppendsAtOnce(ci), j \in breaks
      PROVE  Precedes(ci, conn_list[j])
  <2>1. BreaksAt(ci, conn_list[j])
    BY <1>5
  <2> QED BY <1>3, <1>5, <2>1 DEF BreaksAt, Compare, AppendsAtOnce, Precedes, Keyed
<1>6. ASSUME \A j \in 1..n : Precedes(conn_list[j], ci), AddConnInfo(ci) = Append(conn_list, ci)
      PROVE  /\ Ordered(AddConnInfo(ci))
             /\ \E at \in 1..n + 1 : InsertedAt(AddConnInfo(ci), conn_list, at, ci)
  <2>1. InsertedAt(AddConnInfo(ci), conn_list, n + 1, ci)
    BY <1>6, AppendInserts, Zenon
  <2>2. n + 1 \in 1..n + 1 /\ \A j \in 1..n : ~(j >= n + 1)
    BY <1>1
  <2>3. Ordered(AddConnInfo(ci))
    BY <1>6, <2>1, <2>2, InsertKeepsOrder, Zenon
  <2> QED BY <2>1, <2>2, <2>3, Zenon
<1>7. CASE AppendsAtOnce(ci)
  <2>1. AddConnInfo(ci) = Append(conn_list, ci)
    BY <1>7, Zenon DEF AddConnInfo
  <2>2. ASSUME NEW j \in 1..n
        PROVE  Precedes(conn_list[j], ci)
    <3>1. conn_list # <<>>
      BY <1>1
    <3> QED BY <1>3, <1>7, <3>1 DEF AppendsAtOnce, Precedes, Keyed
  <2> QED BY <1>6, <2>1, <2>2
<1>8. CASE ~AppendsAtOnce(ci) /\ breaks = {}
  <2>1. AddConnInfo(ci) = Append(conn_list, ci)
    BY <1>8 DEF AddConnInfo
  <2> QED BY <1>4, <1>6, <1>8, <2>1
<1>9. CASE ~AppendsAtOnce(ci) /\ breaks # {}
  <2> DEFINE at == Min(breaks)
  <2>1. AddConnInfo(ci) = InsertAt(conn_list, at, ci)
    BY <1>9 DEF AddConnInfo
  <2>2. at \in breaks /\ \A j \in breaks : at <= j
    <3>1. breaks \in SUBSET Nat
      BY <1>1
    <3> HIDE DEF breaks
    <3> QED BY <1>9, <3>1, MinIsLeast
  <2>3. at \in 1..n /\ at \in 1..n + 1
    BY <1>1, <2>2
  <2> HIDE DEF at
  <2>4. InsertedAt(AddConnInfo(ci), conn_list, at, ci)
    BY <2>1, <2>3, InsertAtInserts, Zenon
  <2>5. ASSUME NEW j \in 1..n, j < at
        PROVE  Precedes(conn_list[j], ci)
    <3>1. j \notin breaks
      BY <1>1, <2>2, <2>3, <2>5
    <3> QED BY <1>4, <1>9, <3>1, Zenon
  <2>6. ASSUME NEW j \in 1..n, j >= at
        PROVE  Precedes(ci, conn_list[j])
    <3>1. Precedes(ci, conn_list[at])
      BY <1>5, <1>9, <2>2, <2>3, Zenon
    <3>2. CASE j = at
      BY <3>1, <3>2, Zenon
    <3>3. CASE at < j
      <4>1. Precedes(conn_list[at], conn_list[j])
        BY <1>1, <2>3, <3>3, Zenon DEF Ordered
      <4> QED BY <1>2, <2>3, <3>1, <4>1, PrecedesTransitive, Zenon
    <3>4. j = at \/ at < j
      BY <1>1, <2>3, <2>6
    <3> QED BY <3>2, <3>3, <3>4, Zenon
  <2>7. Ordered(AddConnInfo(ci))
    BY <2>4, <2>5, <2>6, InsertKeepsOrder, Zenon
  <2> QED BY <2>3, <2>4, <2>7, Zenon
<1> QED BY <1>7, <1>8, <1>9, Zenon

Distinct(s) == \A i, j \in 1..Len(s) : i # j => s[i].seq # s[j].seq

Exts(s) == UNION {s[i].ext : i \in DOMAIN s}

\* An insertion adds exactly the new element.
LEMMA InsertAddsOne ==
    ASSUME NEW s \in Seq(Conn), NEW e \in Conn, NEW t, NEW at,
           InsertedAt(t, s, at, e), Distinct(s),
           \A j \in 1..Len(s) : s[j].seq < e.seq
    PROVE  /\ Seqs(t) = Seqs(s) \cup {e.seq}
           /\ Exts(t) = Exts(s) \cup e.ext
           /\ Distinct(t)
<1>1. /\ Len(s) \in Nat /\ DOMAIN s = 1..Len(s)
      /\ DOMAIN t = 1..Len(s) + 1 /\ Len(t) = Len(s) + 1
      /\ at \in 1..Len(s) + 1
  BY LenProperties DEF InsertedAt
<1>2. \A j \in 1..Len(s) + 1 :
         t[j] = IF j < at THEN s[j] ELSE IF j = at THEN e ELSE s[j - 1]
  BY DEF InsertedAt
\* Every element of t is e or one of s, and the other way round.
<1>3. ASSUME NEW j \in DOMAIN t
      PROVE  t[j] = e \/ \E k \in DOMAIN s : t[j] = s[k]
  <2>1. j < at => j \in DOMAIN s
    BY <1>1
  <2>2. ~(j < at) /\ j # at => j - 1 \in DOMAIN s
    BY <1>1
  <2> QED BY <1>1, <1>2, <2>1, <2>2, Zenon
<1>4. \E j \in DOMAIN t : t[j] = e
  <2>1. ~(at < at)
    BY <1>1
  <2> QED BY <1>1, <1>2, <2>1, Zenon
<1>5. ASSUME NEW k \in DOMAIN s
      PROVE  \E j \in DOMAIN t : t[j] = s[k]
  <2>1. CASE k < at
    <3>1. k \in DOMAIN t
      BY <1>1
    <3> QED BY <1>1, <1>2, <2>1, <3>1, Zenon
  <2>2. CASE ~(k < at)
    <3>1. /\ k + 1 \in DOMAIN t /\ ~(k + 1 < at) /\ k + 1 # at
          /\ (k + 1) - 1 = k
      BY <1>1, <2>2
    <3> QED BY <1>1, <1>2, <3>1, Zenon
  <2> QED BY <2>1, <2>2
<1>6. Seqs(t) = Seqs(s) \cup {e.seq}
  <2>1. Seqs(t) \subseteq Seqs(s) \cup {e.seq}
    BY <1>3, Zenon DEF Seqs
  <2>2. Seqs(s) \cup {e.seq} \subseteq Seqs(t)
    BY <1>4, <1>5, Zenon DEF Seqs
  <2> QED BY <2>1, <2>2, Zenon
<1>7. Exts(t) = Exts(s) \cup e.ext
  <2>1. ASSUME NEW x \in Exts(t) PROVE x \in Exts(s) \cup e.ext
    <3>1. PICK j \in DOMAIN t : x \in t[j].ext
      BY Zenon DEF Exts
    <3> QED BY <1>3, <3>1, Zenon DEF Exts
  <2>2. ASSUME NEW x \in Exts(s) \cup e.ext PROVE x \in Exts(t)
    <3>1. x \in e.ext \/ \E k \in DOMAIN s : x \in s[k].ext
      BY Zenon DEF Exts
    <3> QED BY <1>4, <1>5, <3>1, Zenon DEF Exts
  <2> QED BY <2>1, <2>2, Zenon
<1>8. Distinct(t)
  <2>1. SUFFICES ASSUME NEW i \in 1..Len(s) + 1, NEW j \in 1..Len(s) + 1, i < j
                 PROVE  t[i].seq # t[j].seq
    <3>1. \A i, j \in 1..Len(s) + 1 : i < j => t[i].seq # t[j].seq
      BY <2>1
    <3>2. \A i, j \in 1..Len(s) + 1 : i # j => i < j \/ j < i
      BY <1>1
    <3> QED BY <1>1, <3>1, <3>2, Zenon DEF Distinct
  <2>2. \A k \in 1..Len(s) : s[k].seq # e.seq
    <3> TAKE k \in 1..Len(s)
    <3>1. s[k] \in Conn
      BY ElementOfSeq
    <3> QED BY <3>1 DEF Conn
  <2>3. \A k, l \in 1..Len(s) : k # l => s[k].seq # s[l].seq
    BY DEF Distinct
  <2>4. CASE j < at
    <3>1. i < at /\ i \in 1..Len(s) /\ j \in 1..Len(s) /\ i # j
      BY <1>1, <2>1, <2>4
    <3> QED BY <1>2, <2>3, <2>4, <3>1, Zenon
  <2>5. CASE j = at
    <3>1. i < at /\ i \in 1..Len(s) /\ ~(j < at)
      BY <1>1, <2>1, <2>5
    <3> QED BY <1>2, <2>2, <2>5, <3>1, Zenon
  <2>6. CASE at < j
    <3>1. ~(j < at) /\ j # at /\ j - 1 \in 1..Len(s)
      BY <1>1, <2>6
    <3>2. CASE i < at
      <4>1. i \in 1..Len(s) /\ i # j - 1
        BY <1>1, <2>6, <3>2
      <4> QED BY <1>2, <2>3, <3>1, <3>2, <4>1, Zenon
    <3>3. CASE i = at
      <4>1. ~(i < at)
        BY <1>1, <3>3
      <4> QED BY <1>2, <2>2, <3>1, <3>3, <4>1, Zenon
    <3>4. CASE at < i
      <4>1. ~(i < at) /\ i # at /\ i - 1 \in 1..Len(s) /\ i - 1 # j - 1
        BY <1>1, <2>1, <3>4
      <4> QED BY <1>2, <2>3, <3>1, <4>1, Zenon
    <3>5. i < at \/ i = at \/ at < i
      BY <1>1
    <3> QED BY <3>2, <3>3, <3>4, <3>5, Zenon
  <2>7. j < at \/ j = at \/ at < j
    BY <1>1
  <2> QED BY <2>4, <2>5, <2>6, <2>7, Zenon
<1> QED BY <1>6, <1>7, <1>8

\* Freeing the first element removes exactly it, and leaves the rest in order.
LEMMA TailRemovesOne ==
    ASSUME NEW s \in Seq(Conn), s # <<>>, Distinct(s), Ordered(s)
    PROVE  /\ Tail(s) \in Seq(Conn) /\ Head(s) \in Conn
           /\ Len(s) > 0
           /\ Len(Tail(s)) = Len(s) - 1
           /\ Seqs(Tail(s)) = Seqs(s) \ {Head(s).seq}
           /\ Distinct(Tail(s))
           /\ Ordered(Tail(s))
<1>1. /\ Len(s) \in Nat /\ DOMAIN s = 1..Len(s) /\ Len(s) > 0
      /\ Tail(s) \in Seq(Conn) /\ Head(s) \in Conn /\ Head(s) = s[1]
      /\ Len(Tail(s)) = Len(s) - 1
      /\ DOMAIN Tail(s) = 1..Len(s) - 1
      /\ \A i \in 1..Len(s) - 1 : Tail(s)[i] = s[i + 1]
  BY LenProperties, HeadTailProperties, EmptySeq
<1>2. Distinct(Tail(s))
  <2> SUFFICES ASSUME NEW i \in 1..Len(s) - 1, NEW j \in 1..Len(s) - 1, i # j
               PROVE  Tail(s)[i].seq # Tail(s)[j].seq
    BY <1>1, Zenon DEF Distinct
  <2>1. i + 1 \in 1..Len(s) /\ j + 1 \in 1..Len(s) /\ i + 1 # j + 1
    BY <1>1
  <2> QED BY <1>1, <2>1, Zenon DEF Distinct
<1>3. Ordered(Tail(s))
  <2> SUFFICES ASSUME NEW i \in 1..Len(s) - 1, NEW j \in 1..Len(s) - 1, i < j
               PROVE  Precedes(Tail(s)[i], Tail(s)[j])
    BY <1>1, Zenon DEF Ordered
  <2>1. i + 1 \in 1..Len(s) /\ j + 1 \in 1..Len(s) /\ i + 1 < j + 1
    BY <1>1
  <2> QED BY <1>1, <2>1, Zenon DEF Ordered
<1>4. Seqs(Tail(s)) = Seqs(s) \ {Head(s).seq}
  <2>1. ASSUME NEW i \in 1..Len(s) - 1
        PROVE  i + 1 \in 1..Len(s) /\ i + 1 # 1
    BY <1>1
  <2>2. ASSUME NEW j \in 1..Len(s), j # 1
        PROVE  j - 1 \in 1..Len(s) - 1 /\ (j - 1) + 1 = j
    BY <1>1, <2>2
  <2>3. 1 \in 1..Len(s)
    BY <1>1
  <2>4. ASSUME NEW x \in Seqs(Tail(s)) PROVE x \in Seqs(s) \ {Head(s).seq}
    <3>1. PICK i \in DOMAIN Tail(s) : x = Tail(s)[i].seq
      BY Zenon DEF Seqs
    <3>2. i \in 1..Len(s) - 1 /\ x = s[i + 1].seq
      BY <1>1, <3>1, Zenon
    <3>3. s[i + 1].seq # s[1].seq
      BY <2>1, <2>3, <3>2, Zenon DEF Distinct
    <3> QED BY <1>1, <2>1, <3>2, <3>3, Zenon DEF Seqs
  <2>5. ASSUME NEW x \in Seqs(s) \ {Head(s).seq} PROVE x \in Seqs(Tail(s))
    <3>1. PICK j \in 1..Len(s) : x = s[j].seq /\ j # 1
      BY <1>1, Zenon DEF Seqs
    <3>2. j - 1 \in DOMAIN Tail(s) /\ Tail(s)[j - 1] = s[j]
      <4>1. j - 1 \in 1..Len(s) - 1 /\ (j - 1) + 1 = j
        BY <2>2, <3>1, Zenon
      <4>2. Tail(s)[j - 1] = s[(j - 1) + 1]
        BY <1>1, <4>1, Zenon
      <4> QED BY <1>1, <4>1, <4>2, Zenon
    <3> QED BY <3>1, <3>2, Zenon DEF Seqs
  <2> QED BY <2>4, <2>5, Zenon
<1> QED BY <1>1, <1>2, <1>3, <1>4

\* Moving the first row still to be drawn behind those drawn changes neither
\* the rows nor their order.
LEMMA DrawingKeepsRows ==
    ASSUME NEW s \in Seq(Conn), NEW t \in Seq(Conn), t # <<>>
    PROVE  /\ Append(s, Head(t)) \in Seq(Conn)
           /\ Len(Append(s, Head(t))) = Len(s) + 1
           /\ Append(s, Head(t)) \o Tail(t) = s \o t
<1>1. Head(t) \in Conn /\ Tail(t) \in Seq(Conn) /\ <<Head(t)>> \in Seq(Conn)
  BY HeadTailProperties
<1>2. Append(s, Head(t)) = s \o <<Head(t)>>
  BY <1>1, AppendIsConcat
<1>3. (s \o <<Head(t)>>) \o Tail(t) = s \o (<<Head(t)>> \o Tail(t))
  BY <1>1, ConcatAssociative
<1>4. <<Head(t)>> \o Tail(t) = t
  BY HeadTailProperties
<1> QED BY <1>1, <1>2, <1>3, <1>4, AppendProperties

-----------------------------------------------------------------------------
(* The inductive invariant.                                                *)

Positive(n) == IF n > 0 THEN n ELSE 0

\* The frame in progress: what has been drawn, what is still on the list and
\* what the cursor hides add up to what the dump returned.
RowsInv ==
    pc = "rows" =>
        /\ Len(shown) + Len(conn_list) = (arrivals - Positive(pos_y)) + Positive(skip_y)
        /\ Positive(skip_y) <= Len(conn_list)
        /\ shown = <<>> /\ arrivals > 0 => Positive(skip_y) < Len(conn_list)
        /\ skip_y > 0 => shown = <<>>

IInv ==
    /\ TypeOK
    /\ Accounting
    /\ SortedList
    /\ DumpComplete
    /\ Distinct(conn_list)
    /\ RowsInv

\* The initial state satisfies it.
LEMMA InitIInv == Init => IInv
<1> SUFFICES ASSUME Init PROVE IInv
  OBVIOUS
<1>1. conn_list = <<>> /\ shown = <<>> /\ pc = "dump" /\ heap = {} /\ nr_conns = 0
  BY DEF Init
<1>2. TypeOK
  <2>1. <<>> \in Seq(Conn)
    OBVIOUS
  <2>2. conn_list \in Seq(Conn) /\ shown \in Seq(Conn)
    BY <1>1, <2>1
  <2>3. /\ arrivals = 0 /\ ext_rcv = {} /\ sort_key = NoKey /\ sort_ascending = FALSE
        /\ pos_y = 0 /\ lines \in Lines /\ skip_y = 0 /\ err = 1
    BY DEF Init
  <2>4. pc \in PC /\ heap \subseteq Nat \ {0} /\ ext_rcv \subseteq Ext
    BY <1>1, <2>3 DEF PC
  <2>5. nr_conns \in Nat /\ arrivals \in Nat /\ pos_y \in Int /\ skip_y \in Int
    BY <1>1, <2>3
  <2>6. sort_key \in Fields \cup {NoKey} /\ sort_ascending \in BOOLEAN /\ err \in {0, 1}
    BY <2>3, Zenon
  <2> QED BY <1>1, <2>2, <2>3, <2>4, <2>5, <2>6, Zenon DEF TypeOK
<1>3. Accounting /\ SortedList /\ DumpComplete /\ Distinct(conn_list) /\ RowsInv
  BY <1>1 DEF Accounting, SortedList, Ordered, DumpComplete, Distinct, RowsInv, Seqs
<1> QED BY <1>2, <1>3 DEF IInv

\* Steps that leave the list, the sort key and the frame as they are.
LEMMA QuietStep ==
    ASSUME IInv, UNCHANGED <<list, sort, draw>>,
           pc' \in PC, ext_rcv' \subseteq Ext, err' \in {0, 1},
           pos_y' \in Int, lines' \in Lines,
           pc # "fault", pc' # "rows",
           pc' \in {"dump", "input", "stopped"} => conn_list = <<>>,
           pc' \in {"recv", "parse", "draw"} =>
               pc \in {"recv", "parse", "draw"} /\ UNCHANGED ext_rcv
    PROVE  IInv'
<1>1. TypeOK'
  BY DEF IInv, TypeOK, list, sort, draw
<1>2. Accounting'
  BY DEF IInv, Accounting, Seqs, list
<1>3. SortedList'
  BY DEF IInv, SortedList, Ordered, Precedes, Keyed, list, sort, draw
<1>4. DumpComplete'
  BY DEF IInv, DumpComplete, Seqs, list
<1>5. Distinct(conn_list)' /\ RowsInv'
  BY DEF IInv, Distinct, RowsInv, list
<1> QED BY <1>1, <1>2, <1>3, <1>4, <1>5 DEF IInv

\* A message of the dump: diag_dump() and add_conn_info().
LEMMA DiagDumpStep ==
    ASSUME IInv, NEW attrs \in SUBSET Ext, NEW val \in Values, DiagDump(attrs, val)
    PROVE  IInv'
<1> DEFINE ci == [seq |-> arrivals + 1, ext |-> Base \cup attrs, val |-> val]
<1>1. /\ pc = "parse" /\ conn_list \in Seq(Conn) /\ arrivals \in Nat
      /\ Seqs(conn_list) = 1..arrivals /\ Len(conn_list) = arrivals
      /\ nr_conns = arrivals /\ heap = 1..arrivals
      /\ ext_rcv = Base \cup Exts(conn_list)
      /\ Distinct(conn_list) /\ Ordered(conn_list)
      /\ sort_ascending \in BOOLEAN
  BY DEF IInv, TypeOK, DumpComplete, Accounting, SortedList, DiagDump, Allocate, Exts
<1>2. Base \subseteq Ext
  BY ConnDumpAssumption DEF Base
<1>3. ci \in Conn
  BY <1>1, <1>2 DEF Conn
<1>4. ci.seq = arrivals + 1 /\ ci.ext = Base \cup attrs
  OBVIOUS
<1>5. \A j \in 1..Len(conn_list) : conn_list[j].seq < ci.seq
  <2> TAKE j \in 1..Len(conn_list)
  <2>1. conn_list[j].seq \in Seqs(conn_list)
    BY <1>1, LenProperties DEF Seqs
  <2> QED BY <1>1, <1>4, <2>1
<1>6. CASE pc' = "fault"
  <2>1. TypeOK'
    BY <1>1, <1>2, <1>6 DEF IInv, TypeOK, DiagDump, Allocate, Crash, Count, Received, PC,
       list, sort, view, draw
  <2>2. Accounting' /\ DumpComplete' /\ RowsInv'
    BY <1>6 DEF Accounting, DumpComplete, RowsInv
  <2>3. UNCHANGED <<conn_list, sort_key, sort_ascending>>
    BY <1>1, <1>6 DEF DiagDump, Allocate, Crash, Count, list, sort
  <2>4. SortedList' /\ Distinct(conn_list)'
    BY <1>1, <1>6, <2>3 DEF SortedList, Ordered, Precedes, Keyed, Distinct
  <2> QED BY <2>1, <2>2, <2>4 DEF IInv
<1>7. CASE pc' # "fault"
  <2> HIDE DEF ci
  <2>1. /\ conn_list' = AddConnInfo(ci) /\ nr_conns' = nr_conns + 1
        /\ arrivals' = arrivals + 1 /\ heap' = heap \cup {ci.seq}
        /\ ext_rcv' = ext_rcv \cup ci.ext /\ pc' = "parse"
        /\ UNCHANGED <<sort_key, sort_ascending, pos_y, lines, skip_y, shown, err>>
    BY <1>7 DEF DiagDump, Allocate, Crash, Count, Received, list, sort, view, draw, ci
  <2>2. /\ Ordered(AddConnInfo(ci))
        /\ \E at \in 1..Len(conn_list) + 1 :
              InsertedAt(AddConnInfo(ci), conn_list, at, ci)
    BY <1>1, <1>3, <1>5, AddConnInfoInserts
  <2>3. PICK at \in 1..Len(conn_list) + 1 : InsertedAt(conn_list', conn_list, at, ci)
    BY <2>1, <2>2
  <2>4. /\ Seqs(conn_list') = Seqs(conn_list) \cup {ci.seq}
        /\ Exts(conn_list') = Exts(conn_list) \cup ci.ext
        /\ Distinct(conn_list')
    BY <1>1, <1>3, <1>5, <2>3, InsertAddsOne
  <2>5. conn_list' \in Seq(Conn) /\ Len(conn_list') = Len(conn_list) + 1
    BY <2>3 DEF InsertedAt
  <2>6. Seqs(conn_list') = 1..arrivals'
    BY <1>1, <1>4, <2>1, <2>4
  <2>7. TypeOK'
    BY <1>1, <1>2, <1>4, <2>1, <2>5 DEF IInv, TypeOK, PC
  <2>8. Accounting'
    BY <1>1, <2>1, <2>4, <2>5 DEF Accounting, Seqs
  <2>9. SortedList'
    BY <2>1, <2>2 DEF SortedList, Ordered, Precedes, Keyed
  <2>10. DumpComplete'
    <3>1. ext_rcv' = Base \cup Exts(conn_list')
      BY <1>1, <1>4, <2>1, <2>4
    <3> QED BY <1>1, <2>1, <2>5, <2>6, <3>1 DEF DumpComplete, Exts, Seqs
  <2>11. Distinct(conn_list)' /\ RowsInv'
    BY <2>1, <2>4 DEF Distinct, RowsInv
  <2> QED BY <2>7, <2>8, <2>9, <2>10, <2>11 DEF IInv
<1> QED BY <1>6, <1>7

\* The request is sent: a new dump begins, on an empty list.
LEMMA SendmsgStep == IInv /\ Sendmsg => IInv'
<1> SUFFICES ASSUME IInv, Sendmsg PROVE IInv'
  OBVIOUS
<1>1. /\ conn_list = <<>> /\ conn_list' = <<>>
      /\ pc' \in {"recv", "exit"}
      /\ pc' = "recv" => ext_rcv' = Base /\ arrivals' = 0
      /\ pc' = "exit" => UNCHANGED <<ext_rcv, arrivals>>
      /\ UNCHANGED <<nr_conns, heap, sort_key, sort_ascending, pos_y, lines, skip_y, shown>>
      /\ err' = 1
      /\ pc = "dump"
  BY DEF IInv, TypeOK, Sendmsg, sort, view, draw
<1>2. Base \subseteq Ext
  BY ConnDumpAssumption DEF Base
<1>3. TypeOK'
  BY <1>1, <1>2 DEF IInv, TypeOK, PC
<1>4. Accounting' /\ SortedList' /\ Distinct(conn_list)' /\ RowsInv'
  BY <1>1 DEF IInv, Accounting, Seqs, SortedList, Ordered, Distinct, RowsInv
<1>5. DumpComplete'
  BY <1>1 DEF DumpComplete, Seqs
<1> QED BY <1>3, <1>4, <1>5 DEF IInv

\* The cursor is clamped to the list and the frame begins.
LEMMA DrawConnectionsStep == IInv /\ DrawConnections => IInv'
<1> SUFFICES ASSUME IInv, DrawConnections PROVE IInv'
  OBVIOUS
<1>1. /\ pc = "draw" /\ pc' = "rows"
      /\ pos_y' = ClampedY /\ skip_y' = ClampedY /\ shown' = <<>>
      /\ UNCHANGED <<conn_list, nr_conns, heap, arrivals, ext_rcv, sort_key,
                     sort_ascending, lines, err>>
      /\ nr_conns = arrivals /\ Len(conn_list) = arrivals /\ arrivals \in Nat
      /\ pos_y \in Int
      /\ conn_list \in Seq(Conn)
  BY DEF IInv, TypeOK, DumpComplete, Accounting, DrawConnections, list, sort
<1>2. ClampedY \in Int
  BY <1>1 DEF ClampedY
<1>3. TypeOK'
  <2>1. <<>> \in Seq(Conn)
    OBVIOUS
  <2> QED BY <1>1, <1>2, <2>1 DEF IInv, TypeOK, PC
<1>4. Accounting' /\ DumpComplete' /\ Distinct(conn_list)'
  BY <1>1 DEF IInv, Accounting, DumpComplete, Distinct, Seqs
<1>5. SortedList'
  <2>1. <<>> \o conn_list = conn_list
    BY <1>1, ConcatEmptySeq
  <2>2. shown' \o conn_list' = conn_list
    BY <1>1, <2>1
  <2> QED BY <1>1, <2>2 DEF IInv, SortedList, Ordered, Precedes, Keyed
<1>6. RowsInv'
  BY <1>1, EmptySeq DEF RowsInv, ClampedY, Positive
<1> QED BY <1>3, <1>4, <1>5, <1>6 DEF IInv

\* The first connection is drawn or skipped, and freed.
LEMMA DrawRowStep == IInv /\ DrawRow => IInv'
<1> SUFFICES ASSUME IInv, DrawRow PROVE IInv'
  OBVIOUS
<1>1. /\ pc = "rows" /\ pc' = "rows" /\ conn_list # <<>>
      /\ conn_list' = Tail(conn_list) /\ heap' = heap \ {Head(conn_list).seq}
      /\ nr_conns' = nr_conns - 1
      /\ UNCHANGED <<arrivals, ext_rcv, sort_key, sort_ascending, pos_y, lines, err>>
      /\ conn_list \in Seq(Conn) /\ shown \in Seq(Conn)
      /\ Distinct(conn_list) /\ Ordered(conn_list) /\ Ordered(shown \o conn_list)
      /\ nr_conns = Len(conn_list) /\ heap = Seqs(conn_list)
      /\ heap \subseteq Nat \ {0} /\ arrivals \in Nat /\ skip_y \in Int /\ pos_y \in Int
  BY DEF IInv, TypeOK, Accounting, SortedList, DrawRow, DrawOrSkip, FreeFirst, FreeConn,
     sort, view
<1>2. /\ Tail(conn_list) \in Seq(Conn) /\ Head(conn_list) \in Conn
      /\ Len(conn_list) > 0
      /\ Len(Tail(conn_list)) = Len(conn_list) - 1
      /\ Seqs(Tail(conn_list)) = Seqs(conn_list) \ {Head(conn_list).seq}
      /\ Distinct(Tail(conn_list)) /\ Ordered(Tail(conn_list))
  BY <1>1, TailRemovesOne
<1>3. Len(conn_list) \in Nat /\ Len(shown) \in Nat
  BY <1>1, LenProperties
<1>4. Accounting' /\ DumpComplete' /\ Distinct(conn_list)'
  BY <1>1, <1>2 DEF Accounting, DumpComplete, Distinct, Seqs
<1>5. CASE skip_y > 0
  <2>1. skip_y' = skip_y - 1 /\ shown' = shown /\ shown = <<>>
    BY <1>1, <1>5 DEF IInv, RowsInv, DrawRow, DrawOrSkip
  <2>2. TypeOK'
    BY <1>1, <1>2, <1>3, <2>1 DEF IInv, TypeOK
  <2>3. shown' \o conn_list' = Tail(conn_list)
    BY <1>1, <1>2, <2>1, ConcatEmptySeq
  <2>4. SortedList'
    <3>1. Ordered(conn_list)'
      BY <1>1, <1>2 DEF Ordered, Precedes, Keyed
    <3>2. Ordered(shown \o conn_list)'
      <4> DEFINE rows == shown \o conn_list
      <4>1. rows' = Tail(conn_list)
        BY <2>3
      <4>2. Ordered(Tail(conn_list))
        BY <1>2
      <4> HIDE DEF rows
      <4>3. Ordered(rows)'
        BY <1>1, <4>1, <4>2 DEF Ordered, Precedes, Keyed
      <4> QED BY <4>3 DEF rows
    <3> QED BY <3>1, <3>2 DEF SortedList
  <2>5. RowsInv'
    BY <1>1, <1>2, <1>3, <1>5, <2>1 DEF IInv, RowsInv, Positive
  <2> QED BY <1>4, <2>2, <2>4, <2>5 DEF IInv
<1>6. CASE ~(skip_y > 0)
  <2>1. skip_y' = skip_y /\ shown' = Append(shown, Head(conn_list))
    BY <1>1, <1>6 DEF DrawRow, DrawOrSkip
  <2>2. /\ shown' \in Seq(Conn) /\ Len(shown') = Len(shown) + 1
        /\ shown' \o conn_list' = shown \o conn_list
    BY <1>1, <2>1, DrawingKeepsRows
  <2>3. TypeOK'
    BY <1>1, <1>2, <1>3, <2>1, <2>2 DEF IInv, TypeOK
  <2>4. SortedList'
    <3>1. Ordered(conn_list)'
      BY <1>1, <1>2 DEF Ordered, Precedes, Keyed
    <3>2. Ordered(shown \o conn_list)'
      <4> DEFINE rows == shown \o conn_list
      <4>1. rows' = rows
        BY <2>2
      <4>2. Ordered(rows)
        BY <1>1
      <4> HIDE DEF rows
      <4>3. Ordered(rows)'
        BY <1>1, <4>1, <4>2 DEF Ordered, Precedes, Keyed
      <4> QED BY <4>3 DEF rows
    <3> QED BY <3>1, <3>2 DEF SortedList
  <2>5. RowsInv'
    <3>1. shown' # <<>>
      BY <1>1, <1>2, <2>1, AppendProperties
    <3>2. /\ Positive(skip_y) = 0 /\ Positive(pos_y) \in Int
          /\ Len(shown) + Len(conn_list) = (arrivals - Positive(pos_y)) + 0
      BY <1>1, <1>6 DEF IInv, RowsInv, Positive
    <3>3. /\ Len(shown') = Len(shown) + 1
          /\ Len(conn_list') = Len(conn_list) - 1
          /\ Positive(pos_y)' = Positive(pos_y) /\ Positive(skip_y)' = 0
      BY <1>1, <1>2, <1>6, <2>1, <2>2 DEF Positive
    <3>4. Len(shown') + Len(conn_list') = (arrivals' - Positive(pos_y)') + Positive(skip_y)'
      BY <1>1, <1>3, <3>2, <3>3
    <3>5. 0 <= Len(conn_list')
      BY <1>2, <1>3, <3>3
    <3> QED BY <1>1, <1>6, <2>1, <3>1, <3>3, <3>4, <3>5 DEF RowsInv
  <2> QED BY <1>4, <2>3, <2>4, <2>5 DEF IInv
<1> QED BY <1>5, <1>6

\* nm_ctx_exit() frees what a failed dump has left on the list.
LEMMA CtxExitFreeStep == IInv /\ CtxExitFree => IInv'
<1> SUFFICES ASSUME IInv, CtxExitFree PROVE IInv'
  OBVIOUS
<1>1. /\ pc = "exit" /\ pc' = "exit" /\ conn_list # <<>>
      /\ conn_list' = Tail(conn_list) /\ heap' = heap \ {Head(conn_list).seq}
      /\ nr_conns' = nr_conns - 1
      /\ UNCHANGED <<arrivals, ext_rcv, sort_key, sort_ascending, pos_y, lines,
                     skip_y, shown, err>>
      /\ conn_list \in Seq(Conn) /\ Distinct(conn_list) /\ Ordered(conn_list)
      /\ nr_conns = Len(conn_list) /\ heap = Seqs(conn_list)
      /\ heap \subseteq Nat \ {0}
  BY DEF IInv, TypeOK, Accounting, SortedList, CtxExitFree, Exiting, FreeFirst, FreeConn,
     sort, view, draw
<1>2. /\ Tail(conn_list) \in Seq(Conn)
      /\ Len(conn_list) > 0
      /\ Len(Tail(conn_list)) = Len(conn_list) - 1
      /\ Seqs(Tail(conn_list)) = Seqs(conn_list) \ {Head(conn_list).seq}
      /\ Distinct(Tail(conn_list)) /\ Ordered(Tail(conn_list))
  BY <1>1, TailRemovesOne
<1>3. Len(conn_list) \in Nat
  BY <1>1, LenProperties
<1>4. TypeOK'
  BY <1>1, <1>2, <1>3 DEF IInv, TypeOK
<1>5. SortedList'
  BY <1>1, <1>2 DEF SortedList, Ordered, Precedes, Keyed
<1>6. Accounting' /\ DumpComplete' /\ Distinct(conn_list)' /\ RowsInv'
  BY <1>1, <1>2 DEF Accounting, DumpComplete, Distinct, Seqs, RowsInv
<1> QED BY <1>4, <1>5, <1>6 DEF IInv

\* The frame ends, or the user chooses another key, when the list is empty.
LEMMA EmptyListStep ==
    ASSUME IInv, conn_list = <<>>, UNCHANGED <<list, ext_rcv, view, skip_y, err>>,
           pc' = "input", pc # "fault", shown' \in {shown, <<>>},
           sort_key' \in Fields \cup {NoKey}, sort_ascending' \in BOOLEAN
    PROVE  IInv'
<1>1. TypeOK'
  <2>1. <<>> \in Seq(Conn)
    OBVIOUS
  <2> QED BY <2>1 DEF IInv, TypeOK, PC, list, view
<1>2. Accounting'
  BY DEF IInv, Accounting, Seqs, list
<1>3. SortedList' /\ DumpComplete' /\ Distinct(conn_list)' /\ RowsInv'
  BY DEF IInv, SortedList, Ordered, DumpComplete, Distinct, RowsInv, list
<1> QED BY <1>1, <1>2, <1>3 DEF IInv

\* Every step preserves it.
LEMMA NextIInv == IInv /\ [Next]_vars => IInv'
<1> SUFFICES ASSUME IInv, [Next]_vars PROVE IInv'
  OBVIOUS
<1>0. TypeOK
  BY DEF IInv
<1>1. CASE Sendmsg
  BY <1>1, SendmsgStep
<1>2. CASE Recvmsg
  BY <1>0, <1>2, QuietStep DEF Recvmsg, TypeOK, PC, list, sort, view, draw
<1>3. CASE BufferEnd
  BY <1>0, <1>3, QuietStep DEF BufferEnd, TypeOK, PC, list, sort, view, draw
<1>4. CASE NlmsgDone
  BY <1>0, <1>4, QuietStep DEF NlmsgDone, TypeOK, PC, list, sort, view, draw
<1>5. CASE NlmsgError
  BY <1>0, <1>5, QuietStep DEF NlmsgError, TypeOK, PC, list, sort, view, draw
<1>6. CASE DiagDumpFails
  <2>1. heap = 1..arrivals /\ arrivals \in Nat
    BY <1>6 DEF IInv, TypeOK, Accounting, DumpComplete, DiagDumpFails
  <2>2. arrivals + 1 \notin heap
    BY <2>1
  <2>3. heap' = heap
    BY <1>6, <2>2 DEF DiagDumpFails
  <2> QED BY <1>0, <1>6, <2>3, QuietStep
         DEF DiagDumpFails, TypeOK, PC, list, sort, view, draw
<1>7. CASE KeyNone
  BY <1>0, <1>7, QuietStep DEF KeyNone, ScrollTo, TypeOK, PC, list, sort, view, draw
<1>8. CASE KeyDown
  BY <1>0, <1>8, QuietStep DEF KeyDown, ScrollTo, TypeOK, PC, list, sort, view, draw
<1>9. CASE KeyUp
  BY <1>0, <1>9, QuietStep DEF KeyUp, ScrollTo, TypeOK, PC, list, sort, view, draw
<1>10. CASE KeyPgDn
  <2>1. HalfPage \in Int
    BY <1>0, ConnDumpAssumption DEF TypeOK, HalfPage
  <2> QED BY <1>0, <1>10, <2>1, QuietStep
         DEF KeyPgDn, ScrollTo, TypeOK, PC, list, sort, view, draw
<1>11. CASE KeyPgUp
  <2>1. HalfPage \in Int
    BY <1>0, ConnDumpAssumption DEF TypeOK, HalfPage
  <2> QED BY <1>0, <1>11, <2>1, QuietStep
         DEF KeyPgUp, ScrollTo, TypeOK, PC, list, sort, view, draw
<1>12. CASE KeyResize
  BY <1>0, <1>12, QuietStep DEF KeyResize, TypeOK, PC, list, sort, view, draw
<1>13. CASE Quit
  BY <1>0, <1>13, QuietStep DEF Quit, TypeOK, PC, list, sort, view, draw
<1>14. CASE CtxExitEnd
  BY <1>0, <1>14, QuietStep DEF CtxExitEnd, Exited, TypeOK, PC, list, sort, view, draw
<1>15. CASE \E attrs \in SUBSET Ext, val \in Values : DiagDump(attrs, val)
  BY <1>15, DiagDumpStep
<1>16. CASE DrawConnections
  BY <1>16, DrawConnectionsStep
<1>17. CASE DrawRow
  BY <1>17, DrawRowStep
<1>18. CASE DrawEnd
  BY <1>0, <1>18, EmptyListStep DEF DrawEnd, RowsDrawn, TypeOK, sort, view
<1>19. CASE \E f \in Fields : SortBy(f)
  <2>1. PICK f \in Fields : SortBy(f)
    BY <1>19
  <2>2. sort_key' \in Fields \cup {NoKey} /\ sort_ascending' \in BOOLEAN
    BY <1>0, <2>1 DEF SortBy, TypeOK
  <2> QED BY <1>0, <2>1, <2>2, EmptyListStep DEF SortBy, TypeOK, view, draw
<1>20. CASE CtxExitFree
  BY <1>20, CtxExitFreeStep
<1>21. CASE Terminated \/ UNCHANGED vars
  <2>1. UNCHANGED vars
    BY <1>21 DEF Terminated
  <2>2. TypeOK' /\ Accounting' /\ DumpComplete'
    BY <2>1 DEF vars, list, sort, view, draw, IInv, TypeOK, Accounting, DumpComplete, Seqs
  <2>3. SortedList'
    BY <2>1 DEF vars, list, sort, draw, IInv, SortedList, Ordered, Precedes, Keyed
  <2>4. Distinct(conn_list)' /\ RowsInv'
    BY <2>1 DEF vars, list, view, draw, IInv, Distinct, RowsInv, Positive
  <2> QED BY <2>2, <2>3, <2>4 DEF IInv
<1> QED
  BY <1>1, <1>2, <1>3, <1>4, <1>5, <1>6, <1>7, <1>8, <1>9, <1>10, <1>11, <1>12, <1>13, <1>14, <1>15, <1>16, <1>17, <1>18, <1>19, <1>20, <1>21
  DEF Next

\* Every reachable state satisfies IInv, the strengthening of the invariants below
\* that each step preserves: what is proved of a frame here is what they rest on.
THEOREM Invariance == Spec => []IInv
BY InitIInv, NextIInv, PTL DEF Spec

-----------------------------------------------------------------------------
(* What follows from it.                                                   *)

\* The variables of a dump keep their types, and the list is empty between two
\* dumps, whatever the kernel sends and the user types.
THEOREM TypeCorrect == Spec => []TypeOK
<1>1. IInv => TypeOK
  BY DEF IInv
<1> QED BY <1>1, Invariance, PTL

\* nr_conns counts the list and the heap holds what is on it: on no path through
\* a dump, a frame or the exit is a conn_info leaked or freed twice.
THEOREM AccountingCorrect == Spec => []Accounting
<1>1. IInv => Accounting
  BY DEF IInv
<1> QED BY <1>1, Invariance, PTL

\* For any number of connections and any order of arrival the list is sorted by
\* the chosen key, stably, keyless connections last, and drawn in that order.
THEOREM SortCorrect == Spec => []SortedList
<1>1. IInv => SortedList
  BY DEF IInv
<1> QED BY <1>1, Invariance, PTL

\* Every connection of the dump is listed exactly once, and ext_rcv is the union
\* of what they carry.
THEOREM DumpCorrect == Spec => []DumpComplete
<1>1. IInv => DumpComplete
  BY DEF IInv
<1> QED BY <1>1, Invariance, PTL

\* The cursor never scrolls past the last connection of a frame, and every row
\* from the cursor on is offered to draw_protocol().
THEOREM CursorCorrect == Spec => []CursorOnList
<1>1. IInv => CursorOnList
  <2> SUFFICES ASSUME IInv, pc = "rows", conn_list = <<>>
               PROVE  /\ arrivals > 0 => shown # <<>>
                      /\ Len(shown) = arrivals - (IF pos_y > 0 THEN pos_y ELSE 0)
    BY DEF CursorOnList
  <2>1. skip_y \in Int /\ pos_y \in Int /\ arrivals \in Nat /\ Len(shown) \in Nat
    BY LenProperties DEF IInv, TypeOK
  <2>2. Len(conn_list) = 0
    BY EmptySeq
  <2> QED BY <2>1, <2>2 DEF IInv, RowsInv, Positive
<1> QED BY <1>1, Invariance, PTL


-----------------------------------------------------------------------------
(* The exit status.                                                        *)

\* err says failure until a dump is complete, and success from then on until the
\* next one is asked for.
StatusInv ==
    /\ pc \in {"recv", "parse"} => err = 1
    /\ pc \in {"draw", "rows", "input"} => err = 0

\* Each step keeps it, and leaves the loop with the status of where it left.
LEMMA StatusStep ==
    ASSUME StatusInv, [Next]_vars
    PROVE  /\ StatusInv'
           /\ pc' = "exit" /\ pc # "exit" => (err' = 0 <=> pc = "input")
<1>1. CASE Sendmsg
  BY <1>1 DEF StatusInv, Sendmsg
<1>2. CASE Recvmsg \/ BufferEnd \/ NlmsgDone \/ NlmsgError
  BY <1>2 DEF StatusInv, Recvmsg, BufferEnd, NlmsgDone, NlmsgError
<1>3. CASE DiagDumpFails
  BY <1>3 DEF StatusInv, DiagDumpFails
<1>4. CASE \E attrs \in SUBSET Ext, val \in Values : DiagDump(attrs, val)
  BY <1>4 DEF StatusInv, DiagDump, Allocate, Crash, Count
<1>5. CASE DrawConnections \/ DrawEnd
  BY <1>5 DEF StatusInv, DrawConnections, DrawEnd, RowsDrawn
<1>6. CASE DrawRow
  BY <1>6 DEF StatusInv, DrawRow, DrawOrSkip
<1>7. CASE KeyNone \/ KeyDown \/ KeyUp \/ KeyPgDn \/ KeyPgUp \/ KeyResize \/ Quit
  BY <1>7 DEF StatusInv, KeyNone, KeyDown, KeyUp, KeyPgDn, KeyPgUp, KeyResize,
     Quit, ScrollTo
<1>8. CASE \E f \in Fields : SortBy(f)
  BY <1>8 DEF StatusInv, SortBy
<1>9. CASE CtxExitFree \/ CtxExitEnd
  BY <1>9 DEF StatusInv, CtxExitFree, Exiting, CtxExitEnd, Exited
<1>10. CASE UNCHANGED vars
  BY <1>10 DEF StatusInv, vars
<1>11. Terminated => UNCHANGED vars
  BY DEF Terminated
<1> QED
  BY <1>1, <1>2, <1>3, <1>4, <1>5, <1>6, <1>7, <1>8, <1>9, <1>10, <1>11 DEF Next

\* main() ends with status 0 only when the user quits after a whole frame: no
\* failure of any of the steps before is reported as success, nor a quit as failure.
THEOREM StatusCorrect == Spec => StatusAction
<1>1. Init => StatusInv
  BY DEF Init, StatusInv
<1>2. StatusInv /\ [Next]_vars => StatusInv'
  BY StatusStep
<1>3. StatusInv /\ [Next]_vars =>
        [pc' = "exit" /\ pc # "exit" => (err' = 0 <=> pc = "input")]_vars
  BY StatusStep
<1> QED BY <1>1, <1>2, <1>3, PTL DEF Spec, StatusAction

-----------------------------------------------------------------------------
(* What list_add_tail() and list_del() do to a chain of elements.          *)

\* The elements of s have addresses of their own, none of them that of the head.
Placed(s) ==
    /\ s \in Seq(Conn)
    /\ Distinct(s)
    /\ \A i \in 1..Len(s) : s[i].seq \in Addr

\* Two places of a chain are the same only if both are the head.
LEMMA NodesDistinct ==
    ASSUME NEW s, Placed(s), NEW i \in Nat, NEW j \in Nat,
           i \in 1..Len(s), i # j
    PROVE  Node(s, i) # Node(s, j) /\ Node(s, i) # HEAD /\ Node(s, i) \in Addr
<1>1. Len(s) \in Nat /\ s[i] \in Conn
  BY LenProperties, ElementOfSeq DEF Placed
<1>2. s[i].seq # HEAD
  BY <1>1 DEF Conn, HEAD
<1> QED BY <1>1, <1>2 DEF Node, Placed, Distinct

LEMMA NodesInAddr ==
    ASSUME NEW s, Placed(s), NEW i \in Nat
    PROVE  Node(s, i) \in Addr
BY ConnDumpAssumption DEF Node, Placed, Addr, HEAD

\* list_add_tail(e, the element at k) puts e at place k.
LEMMA AddTailChains ==
    ASSUME NEW s, Placed(s), NEW e \in Conn, e.seq \in Addr, e.seq \notin Seqs(s),
           NEW k \in 1..Len(s) + 1, NEW t, InsertedAt(t, s, k, e),
           NEW nx, NEW pv, DOMAIN nx = Addr, DOMAIN pv = Addr, Chain(nx, pv, s),
           NEW nx2, nx2 = [nx EXCEPT ![e.seq] = Node(s, k), ![pv[Node(s, k)]] = e.seq],
           NEW pv2, pv2 = [pv EXCEPT ![Node(s, k)] = e.seq, ![e.seq] = pv[Node(s, k)]]
    PROVE  Chain(nx2, pv2, t)
<1>1. /\ Len(s) \in Nat /\ Len(t) = Len(s) + 1 /\ k \in Nat
      /\ e.seq \in Nat \ {0} /\ DOMAIN s = 1..Len(s)
  BY LenProperties DEF Placed, InsertedAt, Conn
<1>2. \A i \in Nat : Node(s, i) # e.seq /\ Node(s, i) \in Addr
  <2> TAKE i \in Nat
  <2>1. i \in 1..Len(s) => s[i].seq # e.seq
    BY <1>1 DEF Seqs
  <2>2. HEAD # e.seq
    BY <1>1 DEF HEAD
  <2> QED BY <2>1, <2>2, NodesInAddr, Zenon DEF Node
<1>3. \A i \in Nat : Node(t, i) = IF i < k THEN Node(s, i)
                                  ELSE IF i = k THEN e.seq ELSE Node(s, i - 1)
  <2> TAKE i \in Nat
  <2>1. CASE i \in 1..Len(s) + 1
    <3>1. t[i] = IF i < k THEN s[i] ELSE IF i = k THEN e ELSE s[i - 1]
      BY <2>1 DEF InsertedAt
    <3>2. i < k => i \in 1..Len(s)
      BY <1>1, <2>1
    <3>3. ~(i < k) /\ i # k => i - 1 \in 1..Len(s)
      BY <1>1, <2>1
    <3>4. i \in 1..Len(t)
      BY <1>1, <2>1
    <3> QED BY <3>1, <3>2, <3>3, <3>4, Zenon DEF Node
  <2>2. CASE i = 0
    BY <1>1, <2>2 DEF Node
  <2>3. CASE i > Len(s) + 1
    BY <1>1, <2>3 DEF Node
  <2> QED BY <1>1, <2>1, <2>2, <2>3
<1> DEFINE h == Node(s, k)  b == Node(s, k - 1)
<1>4. pv[h] = b /\ nx[b] = h /\ h \in Addr /\ b \in Addr
  <2>1. k - 1 \in 0..Len(s) /\ (k - 1) + 1 = k /\ k - 1 \in Nat
    BY <1>1
  <2> QED BY <1>1, <1>2, <2>1 DEF Chain
<1>5. SUFFICES ASSUME NEW i \in 0..Len(s) + 1
               PROVE  nx2[Node(t, i)] = Node(t, i + 1) /\ pv2[Node(t, i + 1)] = Node(t, i)
  BY <1>1 DEF Chain
<1>6. /\ \A a \in Addr : nx2[a] = IF a = b THEN e.seq ELSE IF a = e.seq THEN h ELSE nx[a]
      /\ \A a \in Addr : pv2[a] = IF a = e.seq THEN b ELSE IF a = h THEN e.seq ELSE pv[a]
  BY <1>4
<1>7. i \in Nat /\ i + 1 \in Nat /\ k - 1 \in Nat /\ e.seq \in Addr
  BY <1>1
<1>8. b # e.seq /\ h # e.seq
  BY <1>1, <1>2, <1>7
<1> HIDE DEF h, b
<1>9. CASE i < k - 1
  <2>1. Node(t, i) = Node(s, i) /\ Node(t, i + 1) = Node(s, i + 1) /\ i \in 0..Len(s)
    BY <1>1, <1>3, <1>7, <1>9
  <2>2. Node(s, i) # b
    <3>1. k - 1 \in 1..Len(s) /\ k - 1 # i
      BY <1>1, <1>7, <1>9
    <3> QED BY <1>7, <3>1, NodesDistinct DEF b
  <2>3. Node(s, i + 1) # h
    <3>1. i + 1 \in 1..Len(s) /\ k # i + 1
      BY <1>1, <1>7, <1>9
    <3> QED BY <1>1, <1>7, <3>1, NodesDistinct DEF h
  <2>4. nx[Node(s, i)] = Node(s, i + 1) /\ pv[Node(s, i + 1)] = Node(s, i)
    BY <2>1 DEF Chain
  <2> QED BY <1>2, <1>6, <1>7, <2>1, <2>2, <2>3, <2>4, Zenon
<1>10. CASE i = k - 1
  <2>1. Node(t, i) = b /\ Node(t, i + 1) = e.seq
    BY <1>1, <1>3, <1>7, <1>10 DEF b
  <2> QED BY <1>4, <1>6, <1>7, <1>8, <2>1, Zenon
<1>11. CASE i = k
  <2>1. Node(t, i) = e.seq /\ Node(t, i + 1) = h
    BY <1>1, <1>3, <1>7, <1>11 DEF h
  <2> QED BY <1>4, <1>6, <1>7, <1>8, <2>1, Zenon
<1>12. CASE i > k
  <2>1. /\ Node(t, i) = Node(s, i - 1) /\ Node(t, i + 1) = Node(s, i)
        /\ i - 1 \in 0..Len(s) /\ i - 1 \in Nat
    BY <1>1, <1>3, <1>7, <1>12
  <2>2. Node(s, i - 1) # b
    <3>1. i - 1 \in 1..Len(s) /\ k - 1 # i - 1
      BY <1>1, <1>7, <1>12
    <3> QED BY <1>7, <2>1, <3>1, NodesDistinct DEF b
  <2>3. Node(s, i) # h
    <3>1. k \in 1..Len(s) /\ k # i
      BY <1>1, <1>7, <1>12
    <3> QED BY <1>1, <1>7, <3>1, NodesDistinct DEF h
  <2>4. nx[Node(s, i - 1)] = Node(s, i) /\ pv[Node(s, i)] = Node(s, i - 1)
    <3>1. (i - 1) + 1 = i
      BY <1>7
    <3> QED BY <2>1, <3>1, Zenon DEF Chain
  <2> QED BY <1>2, <1>6, <1>7, <2>1, <2>2, <2>3, <2>4, Zenon
<1> QED BY <1>1, <1>7, <1>9, <1>10, <1>11, <1>12

\* list_del() of the first element leaves the chain of the others.
LEMMA DelFirstChains ==
    ASSUME NEW s, Placed(s), s # <<>>,
           DOMAIN next = Addr, DOMAIN prev = Addr, Chain(next, prev, s),
           NEW a, a = next[HEAD], ListDelFree(a)
    PROVE  /\ a = s[1].seq /\ a \in Addr \ {HEAD}
           /\ Chain(next', prev', Tail(s))
<1>1. /\ Len(s) \in Nat \ {0} /\ Tail(s) \in Seq(Conn) /\ Len(Tail(s)) = Len(s) - 1
      /\ \A i \in 1..Len(s) - 1 : Tail(s)[i] = s[i + 1]
  BY LenProperties, EmptySeq, HeadTailProperties DEF Placed
<1>2. /\ next[HEAD] = Node(s, 1) /\ prev[Node(s, 1)] = HEAD
      /\ next[Node(s, 1)] = Node(s, 2) /\ prev[Node(s, 2)] = Node(s, 1)
      /\ Node(s, 1) = s[1].seq
  <2>1. 0 \in 0..Len(s) /\ 1 \in 0..Len(s) /\ 1 \in 1..Len(s) /\ ~(0 \in 1..Len(s))
    BY <1>1
  <2>2. Node(s, 0) = HEAD /\ Node(s, 1) = s[1].seq
    BY <2>1, Zenon DEF Node
  <2>3. 0 + 1 = 1 /\ 1 + 1 = 2
    OBVIOUS
  <2> QED BY <2>1, <2>2, <2>3, Zenon DEF Chain
<1>3. a = Node(s, 1) /\ a \in Addr /\ a # HEAD /\ HEAD \in Addr /\ Node(s, 2) \in Addr
  <2>1. 1 \in 1..Len(s) /\ 0 \in Nat /\ 2 \in Nat /\ 1 # 0
    BY <1>1
  <2>2. HEAD = Node(s, 0)
    BY <1>1 DEF Node
  <2> QED BY <1>2, <2>1, <2>2, NodesDistinct, NodesInAddr
<1>4. \A i \in 1..Len(s) : Node(Tail(s), i) = Node(s, i + 1)
  <2> TAKE i \in 1..Len(s)
  <2>1. i \in 1..Len(Tail(s)) <=> i + 1 \in 1..Len(s)
    BY <1>1
  <2>2. i \in 1..Len(Tail(s)) => Tail(s)[i] = s[i + 1]
    BY <1>1
  <2> QED BY <2>1, <2>2, Zenon DEF Node
<1>5. Node(Tail(s), 0) = HEAD
  BY <1>1 DEF Node
<1>6. SUFFICES ASSUME NEW i \in 0..Len(s) - 1
               PROVE  /\ next'[Node(Tail(s), i)] = Node(Tail(s), i + 1)
                      /\ prev'[Node(Tail(s), i + 1)] = Node(Tail(s), i)
  BY <1>1, <1>2, <1>3 DEF Chain
<1>7. /\ \A b \in Addr : next'[b] = IF b = a THEN NULL ELSE IF b = HEAD THEN Node(s, 2) ELSE next[b]
      /\ \A b \in Addr : prev'[b] = IF b = a THEN NULL
                                  ELSE IF b = Node(s, 2) THEN HEAD ELSE prev[b]
  BY <1>2, <1>3 DEF ListDelFree
<1>8. \A j \in Nat : j # 1 => a # Node(s, j) /\ Node(s, j) \in Addr
  <2>1. 1 \in 1..Len(s) /\ 1 \in Nat
    BY <1>1
  <2> QED BY <1>3, <2>1, NodesDistinct, NodesInAddr
<1>9. CASE i = 0
  <2>1. Node(Tail(s), i + 1) = Node(s, 2) /\ a # Node(s, 2)
    BY <1>1, <1>4, <1>8, <1>9
  <2> QED BY <1>3, <1>5, <1>7, <1>9, <2>1
<1>10. CASE i # 0
  <2>1. /\ Node(Tail(s), i) = Node(s, i + 1) /\ Node(Tail(s), i + 1) = Node(s, i + 2)
        /\ i + 1 \in 1..Len(s) /\ i + 1 \in Nat /\ i + 2 \in Nat /\ i + 1 # 0
        /\ i + 1 # 1 /\ i + 2 # 1 /\ i + 2 # i + 1 /\ (i + 1) + 1 = i + 2
        /\ 2 \in Nat /\ 0 \in Nat
    BY <1>1, <1>4, <1>10
  <2>2. next[Node(s, i + 1)] = Node(s, i + 2) /\ prev[Node(s, i + 2)] = Node(s, i + 1)
    <3>1. i + 1 \in 0..Len(s)
      BY <1>1, <1>10
    <3> QED BY <2>1, <3>1 DEF Chain
  <2>3. Node(s, i + 1) # HEAD
    BY <2>1, NodesDistinct
  <2>4. Node(s, i + 2) # Node(s, 2)
    <3>1. 2 \in 1..Len(s) /\ i + 2 # 2
      BY <1>1, <1>10
    <3> QED BY <2>1, <3>1, NodesDistinct
  <2> QED BY <1>7, <1>8, <2>1, <2>2, <2>3, <2>4
<1> QED BY <1>9, <1>10

-----------------------------------------------------------------------------
(* The inductive invariant.                                                *)

\* The loop of add_conn_info() has compared the new one with this one, and gone on.
Passed(ci) == ~BreaksAt(new, ci) /\ sort_key \notin Headings

\* It has done so with all before its cursor.
AddInv ==
    loop = "add" =>
        /\ pc = "parse" /\ arrivals < MaxConns
        /\ \E attrs \in SUBSET Ext, val \in Values :
              new = [seq |-> arrivals + 1, ext |-> Base \cup attrs, val |-> val]
        /\ AppendsAtOnce(new) => pos = HEAD
        /\ ~AppendsAtOnce(new) =>
              \E k \in 1..Len(conn_list) + 1 :
                 /\ pos = Node(conn_list, k)
                 /\ \A j \in 1..k - 1 : Passed(conn_list[j])

\* A freeing loop is at the first element, with the second at hand.
FreeInv ==
    loop = "free" => pos = next[HEAD] /\ p = next[next[HEAD]]

LInv ==
    /\ DOMAIN next = Addr /\ DOMAIN prev = Addr /\ DOMAIN mem = Addr
    /\ arrivals <= MaxConns
    /\ Seqs(conn_list) \subseteq 1..arrivals
    /\ Linked
    /\ AddInv
    /\ FreeInv

\* Steps that leave the list and the pointers as they are, with no loop running.
LEMMA OutsideLoops ==
    ASSUME LInv, UNCHANGED <<links, conn_list>>, loop' = "none",
           arrivals' = arrivals \/ (arrivals' = 0 /\ conn_list = <<>>)
    PROVE  LInv'
<1>1. /\ next' = next /\ prev' = prev /\ mem' = mem
      /\ conn_list' = conn_list
  BY DEF links
<1>2. Seqs(conn_list) \subseteq 1..arrivals /\ arrivals <= MaxConns
  BY DEF LInv
<1>3. Seqs(conn_list)' \subseteq 1..arrivals' /\ arrivals' <= MaxConns
  BY <1>1, <1>2, ConnDumpAssumption DEF Seqs
<1>4. Linked'
  BY <1>1 DEF LInv, Linked, Chain, Node, Seqs
<1>5. AddInv' /\ FreeInv'
  BY DEF AddInv, FreeInv
<1> QED BY <1>1, <1>3, <1>4, <1>5 DEF LInv

\* While the pointers are the list, its elements are placed, and the head points
\* at itself only if there are none.
LEMMA ListFacts ==
    ASSUME IInv, LInv
    PROVE  /\ Placed(conn_list)
           /\ Len(conn_list) \in Nat /\ DOMAIN conn_list = 1..Len(conn_list)
           /\ arrivals \in Nat /\ MaxConns \in Nat
           /\ next[HEAD] = Node(conn_list, 1)
           /\ ListEmpty <=> conn_list = <<>>
<1>1. /\ conn_list \in Seq(Conn) /\ arrivals \in Nat /\ MaxConns \in Nat
      /\ Distinct(conn_list)
  BY ConnDumpAssumption DEF IInv, TypeOK
<1>2. Len(conn_list) \in Nat /\ DOMAIN conn_list = 1..Len(conn_list)
  BY <1>1, LenProperties
<1>3. Placed(conn_list)
  <2> SUFFICES ASSUME NEW i \in 1..Len(conn_list) PROVE conn_list[i].seq \in Addr
    BY <1>1 DEF Placed
  <2>1. conn_list[i].seq \in Seqs(conn_list)
    BY <1>2 DEF Seqs
  <2> QED BY <1>1, <2>1 DEF LInv, Addr
<1>4. next[HEAD] = Node(conn_list, 1)
  <2>1. 0 \in 0..Len(conn_list) /\ Node(conn_list, 0) = HEAD /\ 0 + 1 = 1
    BY <1>2 DEF Node
  <2> QED BY <2>1, Zenon DEF LInv, Linked, Chain
<1>5. ListEmpty <=> conn_list = <<>>
  <2>1. CASE conn_list = <<>>
    <3>1. ~(1 \in 1..Len(conn_list))
      BY <1>2, <2>1, EmptySeq
    <3> QED BY <1>4, <2>1, <3>1 DEF Node, ListEmpty
  <2>2. CASE conn_list # <<>>
    <3>1. 1 \in 1..Len(conn_list) /\ 1 \in Nat /\ 0 \in Nat /\ 1 # 0
      BY <1>1, <1>2, <2>2, EmptySeq
    <3> QED BY <1>3, <1>4, <2>2, <3>1, NodesDistinct DEF ListEmpty
  <2> QED BY <2>1, <2>2
<1> QED BY <1>1, <1>2, <1>3, <1>4, <1>5

\* diag_dump() has a new conn_info and the loop of add_conn_info() begins.
LEMMA BeginAddStep ==
    ASSUME IInv, LInv, NEW attrs \in SUBSET Ext, NEW val \in Values, BeginAdd(attrs, val)
    PROVE  LInv'
<1> DEFINE ci == [seq |-> arrivals + 1, ext |-> Base \cup attrs, val |-> val]
<1>1. /\ pc = "parse" /\ arrivals < MaxConns /\ loop' = "add" /\ new' = ci
      /\ pos' = IF sort_key = NoKey \/ ~Keyed(ci) \/ ListEmpty THEN HEAD ELSE next[HEAD]
      /\ UNCHANGED <<next, prev, mem, pc, conn_list, arrivals, sort_key, sort_ascending>>
  BY DEF BeginAdd, Received, vars, links, list, sort
<1>2. /\ Len(conn_list) \in Nat /\ next[HEAD] = Node(conn_list, 1)
      /\ ListEmpty <=> conn_list = <<>>
  BY ListFacts
<1> HIDE DEF ci
<1>3. AppendsAtOnce(new)' <=> sort_key = NoKey \/ ~Keyed(ci) \/ ListEmpty
  BY <1>1, <1>2 DEF AppendsAtOnce, Keyed
<1>4. AddInv'
  <2>1. \E a \in SUBSET Ext, v \in Values :
           new' = [seq |-> arrivals' + 1, ext |-> Base \cup a, val |-> v]
    BY <1>1 DEF ci
  <2>2. AppendsAtOnce(new)' => pos' = HEAD
    BY <1>1, <1>3
  <2>3. ASSUME ~AppendsAtOnce(new)'
        PROVE  \E k \in 1..Len(conn_list') + 1 :
                 /\ pos' = Node(conn_list, k)'
                 /\ \A j \in 1..k - 1 : Passed(conn_list[j])'
    <3>1. 1 \in 1..Len(conn_list') + 1 /\ \A j \in 1..1 - 1 : FALSE
      BY <1>1, <1>2
    <3>2. pos' = Node(conn_list, 1)'
      BY <1>1, <1>2, <1>3, <2>3 DEF Node
    <3> QED BY <3>1, <3>2
  <2> QED BY <1>1, <2>1, <2>2, <2>3 DEF AddInv
<1>5. FreeInv'
  BY <1>1 DEF FreeInv
<1> QED BY <1>1, <1>4, <1>5 DEF LInv, Linked, Chain, Node, Seqs

\* What the loop of add_conn_info() knows at its cursor.
LEMMA CursorFacts ==
    ASSUME IInv, LInv, loop = "add"
    PROVE  /\ new \in Conn /\ new.seq = arrivals + 1 /\ new.seq \in Addr
           /\ new.seq \notin Seqs(conn_list)
           /\ new = [seq |-> arrivals + 1, ext |-> Base \cup new.ext, val |-> new.val]
           /\ pos # HEAD =>
                /\ ~AppendsAtOnce(new)
                /\ \E k \in 1..Len(conn_list) :
                      /\ pos = Node(conn_list, k) /\ mem[pos] = conn_list[k]
                      /\ \A j \in 1..k - 1 : Passed(conn_list[j])
           /\ pos = HEAD /\ ~AppendsAtOnce(new) =>
                \A j \in 1..Len(conn_list) : Passed(conn_list[j])
<1>1. /\ Placed(conn_list) /\ Len(conn_list) \in Nat /\ DOMAIN conn_list = 1..Len(conn_list)
      /\ arrivals \in Nat /\ MaxConns \in Nat
  BY ListFacts
<1>2. PICK attrs \in SUBSET Ext, val \in Values :
         new = [seq |-> arrivals + 1, ext |-> Base \cup attrs, val |-> val]
  BY DEF LInv, AddInv
<1>3. Base \subseteq Ext /\ arrivals < MaxConns
  BY ConnDumpAssumption DEF Base, LInv, AddInv
<1>4. /\ new.seq = arrivals + 1 /\ new.ext = Base \cup attrs /\ new.val = val
  BY <1>2
<1>5. /\ new \in Conn /\ new.seq \in Addr /\ new.seq \notin Seqs(conn_list)
      /\ new = [seq |-> arrivals + 1, ext |-> Base \cup new.ext, val |-> new.val]
  <2>1. new \in Conn
    BY <1>1, <1>2, <1>3 DEF Conn
  <2>2. new.seq \in Addr /\ new.seq \notin Seqs(conn_list)
    BY <1>1, <1>3, <1>4 DEF LInv, Addr
  <2>3. Base \cup new.ext = Base \cup attrs
    BY <1>4
  <2> QED BY <1>2, <1>4, <2>1, <2>2, <2>3
<1>6. ASSUME ~AppendsAtOnce(new)
      PROVE  \E k \in 1..Len(conn_list) + 1 :
                 /\ pos = Node(conn_list, k)
                 /\ \A j \in 1..k - 1 : Passed(conn_list[j])
  BY <1>6 DEF LInv, AddInv
<1>7. ASSUME pos # HEAD
      PROVE  /\ ~AppendsAtOnce(new)
             /\ \E k \in 1..Len(conn_list) :
                      /\ pos = Node(conn_list, k) /\ mem[pos] = conn_list[k]
                      /\ \A j \in 1..k - 1 : Passed(conn_list[j])
  <2>1. ~AppendsAtOnce(new)
    BY <1>7 DEF LInv, AddInv
  <2>2. PICK k \in 1..Len(conn_list) + 1 :
                 /\ pos = Node(conn_list, k)
                 /\ \A j \in 1..k - 1 : Passed(conn_list[j])
    BY <1>6, <2>1
  <2>3. k \in 1..Len(conn_list)
    BY <1>7, <2>2 DEF Node
  <2>4. mem[pos] = conn_list[k]
    BY <1>1, <2>2, <2>3 DEF Node, LInv, Linked
  <2> QED BY <2>1, <2>2, <2>3, <2>4
<1>8. ASSUME pos = HEAD, ~AppendsAtOnce(new)
      PROVE  \A j \in 1..Len(conn_list) : Passed(conn_list[j])
  <2>1. PICK k \in 1..Len(conn_list) + 1 :
                 /\ pos = Node(conn_list, k)
                 /\ \A j \in 1..k - 1 : Passed(conn_list[j])
    BY <1>6, <1>8
  <2>2. k \notin 1..Len(conn_list)
    <3>1. k \in 1..Len(conn_list) => k \in Nat /\ 0 \in Nat /\ k # 0
      BY <1>1
    <3> QED BY <1>1, <1>8, <2>1, <3>1, NodesDistinct
  <2>3. k - 1 = Len(conn_list)
    BY <1>1, <2>2
  <2> QED BY <2>1, <2>3
<1> QED BY <1>4, <1>5, <1>7, <1>8

\* One turn of the loop: nothing to break at, on to the next element.
LEMMA AddLoopStep == IInv /\ LInv /\ AddLoop => LInv'
<1> SUFFICES ASSUME IInv, LInv, AddLoop PROVE LInv'
  OBVIOUS
<1>1. /\ loop = "add" /\ loop' = "add" /\ pos' = next[pos] /\ new' = new
      /\ ~Stops /\ ~CallsNull
      /\ UNCHANGED <<next, prev, mem, pc, conn_list, arrivals, sort_key, sort_ascending>>
  BY DEF AddLoop, vars, links, list, sort
<1>2. pos # HEAD /\ Passed(mem[pos])
  <2>1. pos # HEAD /\ ~BreaksAt(new, mem[pos])
    BY <1>1 DEF Stops
  <2>2. Keyed(mem[pos])
    BY <2>1 DEF BreaksAt
  <2> QED BY <1>1, <2>1, <2>2, Zenon DEF CallsNull, Passed
<1>3. ~AppendsAtOnce(new) /\ Len(conn_list) \in Nat
  BY <1>1, <1>2, CursorFacts, ListFacts
<1>4. PICK k \in 1..Len(conn_list) :
         /\ pos = Node(conn_list, k) /\ mem[pos] = conn_list[k]
         /\ \A j \in 1..k - 1 : Passed(conn_list[j])
  BY <1>1, <1>2, CursorFacts
<1>5. AddInv'
  <2>1. k \in 0..Len(conn_list) /\ k + 1 \in 1..Len(conn_list) + 1
    BY <1>3
  <2>2. pos' = Node(conn_list, k + 1)
    BY <1>1, <1>4, <2>1, Zenon DEF LInv, Linked, Chain
  <2>3. \A j \in 1..(k + 1) - 1 : Passed(conn_list[j])
    <3> TAKE j \in 1..(k + 1) - 1
    <3>1. j \in 1..k - 1 \/ j = k
      BY <1>3
    <3> QED BY <1>2, <1>4, <3>1
  <2>4. /\ AppendsAtOnce(new)' <=> AppendsAtOnce(new)
        /\ \A j : Passed(conn_list[j])' <=> Passed(conn_list[j])
        /\ Node(conn_list, k + 1)' = Node(conn_list, k + 1)
    BY <1>1 DEF AppendsAtOnce, Passed, BreaksAt, Keyed, Node
  <2>5. \E m \in 1..Len(conn_list') + 1 :
           /\ pos' = Node(conn_list, m)'
           /\ \A j \in 1..m - 1 : Passed(conn_list[j])'
    <3>1. k + 1 \in 1..Len(conn_list') + 1
      BY <1>1, <2>1
    <3> WITNESS k + 1 \in 1..Len(conn_list') + 1
    <3> QED BY <2>2, <2>3, <2>4
  <2>6. pc' = pc /\ arrivals' = arrivals
    BY <1>1
  <2> QED BY <1>1, <1>3, <2>4, <2>5, <2>6 DEF AddInv, LInv
<1>6. FreeInv'
  BY <1>1 DEF FreeInv
<1> QED BY <1>1, <1>5, <1>6 DEF LInv, Linked, Chain, Node, Seqs

\* The element at a cursor is where the cursor points.
LEMMA PlaceOfNode ==
    ASSUME IInv, LInv, NEW k \in 1..Len(conn_list), NEW a, a = Node(conn_list, k)
    PROVE  Place(a) = k
<1>1. /\ Placed(conn_list) /\ Len(conn_list) \in Nat /\ DOMAIN conn_list = 1..Len(conn_list)
  BY ListFacts
<1>2. conn_list[k].seq = a
  BY DEF Node
<1>3. \A i \in DOMAIN conn_list : conn_list[i].seq = a => i = k
  BY <1>1, <1>2 DEF Placed, Distinct
<1> QED BY <1>1, <1>2, <1>3, Zenon DEF Place

\* No NULL is called at the cursor just when ConnDump says that none will be.
LEMMA NullWhereSaid ==
    ASSUME IInv, LInv, loop = "add"
    PROVE  /\ CallsNull => CallsNullSort(new)
           /\ ~CallsNull /\ Stops => ~CallsNullSort(new)
<1>1. /\ Len(conn_list) \in Nat /\ DOMAIN conn_list = 1..Len(conn_list)
      /\ conn_list \in Seq(Conn)
  BY ListFacts DEF Placed
<1>2. ASSUME pos # HEAD
      PROVE  /\ ~AppendsAtOnce(new)
             /\ \E k \in 1..Len(conn_list) :
                    /\ mem[pos] = conn_list[k]
                    /\ \A j \in 1..k - 1 : Passed(conn_list[j])
  BY <1>2, CursorFacts
<1>3. ASSUME NEW j \in 1..Len(conn_list), Passed(conn_list[j])
      PROVE  Keyed(conn_list[j]) /\ sort_key \notin Headings
  BY <1>3 DEF Passed, BreaksAt
<1>4. ASSUME CallsNull PROVE CallsNullSort(new)
  <2>1. pos # HEAD /\ Keyed(mem[pos]) /\ sort_key \in Headings
    BY <1>4 DEF CallsNull
  <2>2. PICK k \in 1..Len(conn_list) :
           mem[pos] = conn_list[k] /\ \A j \in 1..k - 1 : Passed(conn_list[j])
    BY <1>2, <2>1
  <2>3. k = 1
    <3>1. k # 1 => 1 \in 1..k - 1 /\ 1 \in 1..Len(conn_list)
      BY <1>1
    <3> QED BY <1>3, <2>1, <2>2, <3>1
  <2> QED BY <1>2, <2>1, <2>2, <2>3 DEF CallsNullSort
<1>5. ASSUME ~CallsNull, Stops, CallsNullSort(new) PROVE FALSE
  <2>1. /\ ~AppendsAtOnce(new) /\ sort_key \in Headings /\ Keyed(conn_list[1])
        /\ 1 \in 1..Len(conn_list)
    <3>1. ~AppendsAtOnce(new) /\ sort_key \in Headings /\ Keyed(conn_list[1])
      BY <1>5 DEF CallsNullSort
    <3>2. conn_list # <<>>
      BY <3>1 DEF AppendsAtOnce
    <3> QED BY <1>1, <3>1, <3>2, EmptySeq
  <2>2. CASE pos = HEAD
    <3>1. Passed(conn_list[1])
      BY <2>1, <2>2, CursorFacts
    <3> QED BY <1>3, <2>1, <3>1
  <2>3. CASE pos # HEAD
    <3>1. PICK k \in 1..Len(conn_list) :
             mem[pos] = conn_list[k] /\ \A j \in 1..k - 1 : Passed(conn_list[j])
      BY <1>2, <2>3
    <3>2. k = 1
      <4>1. k # 1 => 1 \in 1..k - 1
        BY <1>1
      <4> QED BY <1>3, <2>1, <3>1, <4>1
    <3> QED BY <1>5, <2>1, <2>3, <3>1, <3>2 DEF CallsNull
  <2> QED BY <2>2, <2>3
<1> QED BY <1>4, <1>5

\* The loop has found its place, which is the one AddConnInfo() inserts at.
LEMMA EndAddInserts ==
    ASSUME IInv, LInv, EndAdd
    PROVE  /\ conn_list' = AddConnInfo(new)
           /\ \E k \in 1..Len(conn_list) + 1 :
                 pos = Node(conn_list, k) /\ InsertedAt(conn_list', conn_list, k, new)
<1> DEFINE s == conn_list
           n == Len(conn_list)
           breaks == {i \in DOMAIN s : BreaksAt(new, s[i])}
<1>1. /\ loop = "add" /\ Stops
      /\ conn_list' = IF pos = HEAD THEN Append(s, new) ELSE InsertAt(s, Place(pos), new)
  BY DEF EndAdd
<1>2. new \in Conn
  BY <1>1, CursorFacts
<1>3. n \in Nat /\ DOMAIN s = 1..n /\ s \in Seq(Conn)
  BY ListFacts DEF Placed
<1>4. CASE pos = HEAD
  <2>1. ~AppendsAtOnce(new) => breaks = {}
    BY <1>1, <1>3, <1>4, CursorFacts DEF Passed
  <2>2. AddConnInfo(new) = Append(s, new)
    BY <2>1, Zenon DEF AddConnInfo
  <2>3. InsertedAt(Append(s, new), s, n + 1, new)
    BY <1>2, <1>3, AppendInserts
  <2>4. n + 1 \in 1..n + 1 /\ pos = Node(s, n + 1)
    BY <1>3, <1>4 DEF Node
  <2> QED BY <1>1, <1>4, <2>2, <2>3, <2>4
<1>5. CASE pos # HEAD
  <2>1. ~AppendsAtOnce(new) /\ BreaksAt(new, mem[pos])
    BY <1>1, <1>5, CursorFacts DEF Stops
  <2>2. PICK k \in 1..n : /\ pos = Node(s, k) /\ mem[pos] = s[k]
                          /\ \A j \in 1..k - 1 : Passed(s[j])
    BY <1>1, <1>5, CursorFacts
  <2>3. k \in breaks /\ breaks # {} /\ breaks \in SUBSET Nat
    BY <1>3, <2>1, <2>2
  <2>4. \A i \in breaks : i \in 1..n /\ ~(i \in 1..k - 1)
    BY <1>3, <2>2 DEF Passed
  <2> HIDE DEF breaks
  <2>5. Min(breaks) \in breaks /\ Min(breaks) <= k
    BY <2>3, MinIsLeast
  <2>6. Min(breaks) = k
    BY <1>3, <2>2, <2>4, <2>5
  <2>7. AddConnInfo(new) = InsertAt(s, k, new)
    BY <2>1, <2>3, <2>6, Zenon DEF AddConnInfo, breaks
  <2>8. k \in 1..n + 1
    BY <1>3, <2>2
  <2>9. InsertedAt(InsertAt(s, k, new), s, k, new)
    BY <1>2, <1>3, <2>8, InsertAtInserts
  <2>10. Place(pos) = k
    BY <2>2, PlaceOfNode
  <2> QED BY <1>1, <1>5, <2>2, <2>7, <2>8, <2>9, <2>10
<1> QED BY <1>4, <1>5

\* list_add_tail() puts the new one there.
LEMMA EndAddStep == IInv /\ LInv /\ EndAdd => LInv'
<1> SUFFICES ASSUME IInv, LInv, EndAdd PROVE LInv'
  OBVIOUS
<1> DEFINE s == conn_list  n == Len(conn_list)
<1>1. /\ loop = "add" /\ loop' = "none"
      /\ prev' = [prev EXCEPT ![pos] = new.seq, ![new.seq] = prev[pos]]
      /\ next' = [next EXCEPT ![new.seq] = pos, ![prev[pos]] = new.seq]
      /\ mem' = [mem EXCEPT ![new.seq] = new]
  BY DEF EndAdd, ListAddTail
<1>2. /\ new \in Conn /\ new.seq = arrivals + 1 /\ new.seq \in Addr
      /\ new.seq \notin Seqs(s)
  BY <1>1, CursorFacts
<1>3. arrivals' = arrivals + 1 /\ arrivals < MaxConns
  BY DEF EndAdd, Allocate, Count
<1>4. /\ Placed(s) /\ n \in Nat /\ DOMAIN s = 1..n /\ arrivals \in Nat /\ MaxConns \in Nat
      /\ s \in Seq(Conn)
  BY ListFacts DEF Placed
<1>6. PICK k \in 1..n + 1 : pos = Node(s, k) /\ InsertedAt(conn_list', s, k, new)
  BY EndAddInserts
<1> HIDE DEF s
<1>7. DOMAIN next = Addr /\ DOMAIN prev = Addr /\ DOMAIN mem = Addr /\ Chain(next, prev, s)
  BY DEF LInv, Linked, s
<1>8. Chain(next', prev', conn_list')
  BY <1>1, <1>2, <1>4, <1>6, <1>7, AddTailChains DEF s
<1>9. Seqs(conn_list') = Seqs(s) \cup {new.seq}
  <2>1. Distinct(s)
    BY <1>4 DEF Placed
  <2>2. \A j \in 1..Len(s) : s[j].seq < new.seq
    <3> TAKE j \in 1..Len(s)
    <3>1. s[j].seq \in Seqs(s)
      BY <1>4 DEF Seqs, s
    <3>2. s[j].seq \in 1..arrivals
      BY <3>1 DEF LInv, s
    <3> QED BY <1>2, <1>4, <3>2
  <2> QED BY <1>2, <1>4, <1>6, <2>1, <2>2, InsertAddsOne
<1>10. Linked'
  <2>1. \A i \in DOMAIN conn_list' : mem'[conn_list'[i].seq] = conn_list'[i]
    <3> TAKE i \in DOMAIN conn_list'
    <3>1. conn_list'[i] = new \/ \E j \in 1..n : conn_list'[i] = s[j]
      <4>1. i \in 1..Len(s) + 1 /\ k \in 1..Len(s) + 1
        BY <1>6, LenProperties DEF InsertedAt
      <4>2. conn_list'[i] = IF i < k THEN s[i] ELSE IF i = k THEN new ELSE s[i - 1]
        BY <1>6, <4>1 DEF InsertedAt
      <4>3. /\ i < k => i \in 1..n
            /\ ~(i < k) /\ i # k => i - 1 \in 1..n
        BY <1>4, <4>1 DEF s
      <4> QED BY <4>2, <4>3, Zenon
    <3>2. CASE conn_list'[i] = new
      BY <1>1, <1>2, <1>7, <3>2
    <3>3. ASSUME NEW j \in 1..n, conn_list'[i] = s[j]
          PROVE  mem'[conn_list'[i].seq] = conn_list'[i]
      <4>1. s[j].seq \in Addr /\ s[j].seq # new.seq /\ mem[s[j].seq] = s[j]
        BY <1>2, <1>4 DEF Placed, Seqs, LInv, Linked, s
      <4> QED BY <1>1, <1>7, <3>3, <4>1
    <3> QED BY <3>1, <3>2, <3>3
  <2>2. \A a \in Addr : mem'[a] # Free => a \in Seqs(conn_list')
    <3> TAKE a \in Addr
    <3>1. a # new.seq => mem'[a] = mem[a]
      BY <1>1, <1>7
    <3>2. mem[a] # Free => a \in Seqs(s)
      BY DEF LInv, Linked, s
    <3> QED BY <1>9, <3>1, <3>2
  <2> QED BY <1>8, <2>1, <2>2 DEF Linked, Chain, Node, Seqs
<1>11. Seqs(conn_list)' \subseteq 1..arrivals' /\ arrivals' <= MaxConns
  <2>1. Seqs(s) \subseteq 1..arrivals
    BY DEF LInv, s
  <2>2. Seqs(conn_list)' = Seqs(conn_list')
    BY DEF Seqs
  <2>3. Seqs(conn_list') \subseteq 1..arrivals + 1
    BY <1>2, <1>4, <1>9, <2>1
  <2> QED BY <1>3, <1>4, <2>2, <2>3
<1>12. DOMAIN next' = Addr /\ DOMAIN prev' = Addr /\ DOMAIN mem' = Addr
  BY <1>1, <1>7
<1>13. AddInv' /\ FreeInv'
  BY <1>1 DEF AddInv, FreeInv
<1> QED BY <1>10, <1>11, <1>12, <1>13 DEF LInv

\* A freeing loop begins.
LEMMA BeginFreeStep ==
    ASSUME LInv, BeginFree, UNCHANGED <<conn_list, arrivals>>
    PROVE  LInv'
<1>1. next' = next /\ prev' = prev /\ mem' = mem
  BY DEF BeginFree, links
<1>2. AddInv' /\ FreeInv'
  BY <1>1 DEF BeginFree, AddInv, FreeInv
<1> QED BY <1>1, <1>2 DEF LInv, Linked, Chain, Node, Seqs

\* A freeing loop that stands on an element stands on the first of those left ...
LEMMA FreeThisIsFirst ==
    ASSUME IInv, LInv, FreeThis
    PROVE  FreeFirst /\ mem[pos] = Head(conn_list)
<1>1. /\ loop = "free" /\ pos # HEAD /\ pos = next[HEAD]
      /\ FreeConn(mem[pos]) /\ conn_list' = RemoveAt(conn_list, Place(pos))
  BY DEF FreeThis, LInv, FreeInv
<1>2. /\ Len(conn_list) \in Nat /\ DOMAIN conn_list = 1..Len(conn_list) /\ conn_list \in Seq(Conn)
      /\ next[HEAD] = Node(conn_list, 1)
      /\ ListEmpty <=> conn_list = <<>>
  BY ListFacts DEF Placed
<1>3. conn_list # <<>> /\ 1 \in 1..Len(conn_list)
  <2>1. conn_list # <<>>
    BY <1>1, <1>2 DEF ListEmpty
  <2> QED BY <1>2, <2>1, EmptySeq
<1>4. mem[pos] = conn_list[1]
  <2>1. pos = conn_list[1].seq
    BY <1>1, <1>2, <1>3, Zenon DEF Node
  <2> QED BY <1>2, <1>3, <2>1 DEF LInv, Linked
<1>5. Place(pos) = 1
  BY <1>1, <1>2, <1>3, PlaceOfNode
<1>6. RemoveAt(conn_list, 1) = Tail(conn_list)
  BY <1>2, <1>3, RemoveAtFirst
<1>7. Head(conn_list) = conn_list[1]
  BY <1>2, <1>3, HeadTailProperties
<1> QED BY <1>1, <1>3, <1>4, <1>5, <1>6, <1>7 DEF FreeFirst

\* ... and one that stands on the head has left none.
LEMMA EndFreeIsEmpty ==
    ASSUME IInv, LInv, EndFree
    PROVE  conn_list = <<>>
<1>1. next[HEAD] = HEAD
  BY DEF EndFree, LInv, FreeInv
<1> QED BY <1>1, ListFacts DEF ListEmpty

\* It frees the element it stands on, the first, and goes on to the next one.
LEMMA FreeThisStep ==
    ASSUME IInv, LInv, FreeThis
    PROVE  LInv'
<1> DEFINE s == conn_list  a == next[HEAD]
<1>10. FreeFirst
  BY FreeThisIsFirst
<1>1. /\ loop = "free" /\ loop' = "free" /\ pos = a /\ p = next[a] /\ pos' = p /\ p' = next'[p]
      /\ prev' = [prev EXCEPT ![next[a]] = prev[a], ![a] = NULL]
      /\ next' = [next EXCEPT ![prev[a]] = next[a], ![a] = NULL]
      /\ mem' = [mem EXCEPT ![a] = Free]
      /\ ListDelFree(a)
      /\ s # <<>> /\ conn_list' = Tail(s) /\ arrivals' = arrivals
      /\ s \in Seq(Conn) /\ Distinct(s) /\ Ordered(s)
  BY <1>10 DEF FreeThis, FreeFirst, FreeConn, ListDelFree, LInv, FreeInv, IInv, TypeOK, SortedList
<1>2. /\ DOMAIN next = Addr /\ DOMAIN prev = Addr /\ DOMAIN mem = Addr
      /\ Chain(next, prev, s) /\ Placed(s)
      /\ Len(s) \in Nat /\ DOMAIN s = 1..Len(s)
  BY ListFacts DEF LInv, Linked
<1>0. a = next[HEAD]
  OBVIOUS
<1> HIDE DEF s, a
<1>3. /\ a = s[1].seq /\ a \in Addr \ {HEAD}
      /\ Chain(next', prev', Tail(s))
  <2>1. /\ Placed(s) /\ s # <<>>
        /\ DOMAIN next = Addr /\ DOMAIN prev = Addr /\ Chain(next, prev, s)
        /\ a = next[HEAD] /\ ListDelFree(a)
    BY <1>0, <1>1, <1>2
  <2> QED BY <2>1, DelFirstChains, Zenon
<1>4. /\ Len(s) > 0 /\ Seqs(Tail(s)) = Seqs(s) \ {a}
      /\ Tail(s) \in Seq(Conn) /\ DOMAIN Tail(s) = 1..Len(s) - 1 /\ Head(s) = s[1]
      /\ \A i \in 1..Len(s) - 1 : Tail(s)[i] = s[i + 1]
  BY <1>1, <1>3, TailRemovesOne, HeadTailProperties, LenProperties
<1>5. Linked'
  <2>1. \A i \in DOMAIN Tail(s) : mem'[Tail(s)[i].seq] = Tail(s)[i]
    <3> TAKE i \in DOMAIN Tail(s)
    <3>1. i \in 1..Len(s) - 1 /\ i + 1 \in 1..Len(s) /\ 1 \in 1..Len(s) /\ i + 1 # 1
      BY <1>2, <1>4
    <3>2. /\ Tail(s)[i] = s[i + 1] /\ s[i + 1].seq # a /\ s[i + 1].seq \in Addr
      BY <1>2, <1>3, <1>4, <3>1 DEF Placed, Distinct
    <3>3. mem[s[i + 1].seq] = s[i + 1]
      BY <1>2, <3>1 DEF LInv, Linked, s
    <3> QED BY <1>1, <1>2, <3>2, <3>3
  <2>2. \A b \in Addr : mem'[b] # Free => b \in Seqs(Tail(s))
    <3> TAKE b \in Addr
    <3>1. mem'[b] = IF b = a THEN Free ELSE mem[b]
      BY <1>1, <1>2
    <3>2. mem[b] # Free => b \in Seqs(s)
      BY DEF LInv, Linked, s
    <3> QED BY <1>4, <3>1, <3>2
  <2> QED BY <1>1, <1>3, <2>1, <2>2 DEF Linked, Chain, Node, Seqs
<1>6. Seqs(conn_list)' \subseteq 1..arrivals' /\ arrivals' <= MaxConns
  <2>1. Seqs(s) \subseteq 1..arrivals /\ arrivals <= MaxConns
    BY DEF LInv, s
  <2>2. Seqs(conn_list)' = Seqs(Tail(s))
    BY <1>1 DEF Seqs
  <2> QED BY <1>1, <1>4, <2>1, <2>2
<1>7. next'[HEAD] = next[a]
  <2>1. prev[a] = HEAD /\ HEAD \in Addr
    <3>1. 0 \in 0..Len(s) /\ 1 \in 1..Len(s) /\ 0 + 1 = 1 /\ ~(0 \in 1..Len(s))
      BY <1>2, <1>4
    <3>2. Node(s, 0) = HEAD /\ Node(s, 1) = a
      BY <1>3, <3>1 DEF Node
    <3>3. HEAD \in Addr
      BY ConnDumpAssumption DEF HEAD, Addr
    <3> QED BY <1>2, <3>1, <3>2, <3>3, Zenon DEF Chain
  <2> QED BY <1>1, <1>2, <1>3, <2>1
<1>8. FreeInv' /\ AddInv'
  BY <1>1, <1>7 DEF FreeInv, AddInv
<1>9. DOMAIN next' = Addr /\ DOMAIN prev' = Addr /\ DOMAIN mem' = Addr
  BY <1>1, <1>2
<1> QED BY <1>5, <1>6, <1>8, <1>9 DEF LInv

\* Every step of LinkedList is one of ConnDump, or leaves its variables alone: an
\* insertion where the walk has stopped is the insertion of add_conn_info(), and the
\* element a freeing loop stands on is the first of the sequence.
LEMMA LNextIsNext == IInv /\ LInv /\ [LNext]_lvars => [Next]_vars
<1> SUFFICES ASSUME IInv, LInv, [LNext]_lvars PROVE [Next]_vars
  OBVIOUS
<1>1. CASE Elsewhere
  BY <1>1, Zenon DEF Elsewhere, Next
<1>2. CASE \E attrs \in SUBSET Ext, val \in Values : BeginAdd(attrs, val)
  BY <1>2, Zenon DEF BeginAdd
<1>3. CASE AddLoop \/ LCtxExit \/ UNCHANGED lvars
  BY <1>3, Zenon DEF AddLoop, LCtxExit, lvars
<1>4. CASE LDrawConnections
  BY <1>4, Zenon DEF LDrawConnections, Next
<1>5. CASE EndAdd \/ AddFault
  <2>1. loop = "add"
    BY <1>5 DEF EndAdd, AddFault
  <2>2. /\ new.ext \in SUBSET Ext /\ new.val \in Values
        /\ Received(new.ext, new.val) = new
    BY <2>1, CursorFacts DEF Conn, Received
  <2>3. CASE EndAdd
    <3>1. Allocate(new) /\ Count /\ conn_list' = AddConnInfo(new) /\ ~CallsNullSort(new)
      BY <2>1, <2>3, EndAddInserts, NullWhereSaid DEF EndAdd
    <3>2. DiagDump(new.ext, new.val)
      BY <2>2, <3>1, Zenon DEF DiagDump
    <3> QED BY <2>2, <3>2, Zenon DEF Next
  <2>4. CASE AddFault
    <3>1. Allocate(new) /\ Crash /\ CallsNullSort(new)
      BY <2>1, <2>4, NullWhereSaid DEF AddFault
    <3>2. DiagDump(new.ext, new.val)
      BY <2>2, <3>1, Zenon DEF DiagDump
    <3> QED BY <2>2, <3>2, Zenon DEF Next
  <2> QED BY <1>5, <2>3, <2>4
<1>6. CASE LDrawRow
  <2>1. FreeFirst /\ DrawOrSkip(Head(conn_list))
    BY <1>6, FreeThisIsFirst, Zenon DEF LDrawRow
  <2> QED BY <2>1, Zenon DEF DrawRow, Next
<1>7. CASE LCtxExitFree
  <2>1. FreeFirst /\ Exiting
    BY <1>7, FreeThisIsFirst, Zenon DEF LCtxExitFree
  <2> QED BY <2>1, Zenon DEF CtxExitFree, Next
<1>8. CASE LDrawEnd \/ LCtxExitEnd
  <2>1. conn_list = <<>> /\ (RowsDrawn \/ Exited)
    BY <1>8, EndFreeIsEmpty, Zenon DEF LDrawEnd, LCtxExitEnd
  <2> QED BY <2>1, Zenon DEF DrawEnd, CtxExitEnd, Next
<1> QED BY <1>1, <1>2, <1>3, <1>4, <1>5, <1>6, <1>7, <1>8, Zenon DEF LNext

\* Every step preserves it.
LEMMA LNextLInv == IInv /\ LInv /\ [LNext]_lvars => LInv'
<1> SUFFICES ASSUME IInv, LInv, [LNext]_lvars PROVE LInv'
  OBVIOUS
<1>0. /\ arrivals \in Nat
      /\ pc = "dump" => conn_list = <<>>
  BY DEF IInv, TypeOK
<1>1. CASE loop = "none" /\ Elsewhere /\ UNCHANGED <<links, cursor>>
  <2>1. UNCHANGED conn_list /\ (arrivals' = arrivals \/ (arrivals' = 0 /\ conn_list = <<>>))
    <3>1. CASE Sendmsg
      BY <1>0, <3>1 DEF Sendmsg
    <3>2. CASE Recvmsg \/ BufferEnd \/ NlmsgDone \/ NlmsgError
      BY <3>2 DEF Recvmsg, BufferEnd, NlmsgDone, NlmsgError, list
    <3>3. CASE DiagDumpFails
      BY <3>3 DEF DiagDumpFails
    <3>4. CASE KeyNone \/ KeyDown \/ KeyUp \/ KeyPgDn \/ KeyPgUp \/ KeyResize
      BY <3>4 DEF KeyNone, KeyDown, KeyUp, KeyPgDn, KeyPgUp, KeyResize, ScrollTo, list
    <3>5. CASE (\E f \in Fields : SortBy(f)) \/ Quit \/ Terminated
      BY <3>5 DEF SortBy, Quit, Terminated, vars, list
    <3> QED BY <1>1, <3>1, <3>2, <3>3, <3>4, <3>5 DEF Elsewhere
  <2>2. UNCHANGED links /\ loop' = "none"
    BY <1>1 DEF cursor
  <2> QED BY <1>0, <2>1, <2>2, OutsideLoops
<1>2. CASE \E attrs \in SUBSET Ext, val \in Values : BeginAdd(attrs, val)
  BY <1>2, BeginAddStep
<1>3. CASE AddLoop
  BY <1>3, AddLoopStep
<1>4. CASE EndAdd
  BY <1>4, EndAddStep
<1>5. CASE AddFault
  <2>1. UNCHANGED <<links, conn_list, arrivals>> /\ loop' = "none"
    BY <1>5 DEF AddFault, Crash
  <2> QED BY <1>0, <2>1, OutsideLoops
<1>6. CASE LDrawConnections
  BY <1>6, BeginFreeStep DEF LDrawConnections, DrawConnections, list
<1>7. CASE LCtxExit
  BY <1>7, BeginFreeStep DEF LCtxExit, vars, list
<1>8. CASE LDrawRow
  BY <1>8, FreeThisStep DEF LDrawRow
<1>9. CASE LCtxExitFree
  BY <1>9, FreeThisStep DEF LCtxExitFree
<1>10. CASE LDrawEnd \/ LCtxExitEnd
  <2>1. UNCHANGED <<links, conn_list, arrivals>> /\ loop' = "none"
    BY <1>10 DEF LDrawEnd, LCtxExitEnd, EndFree, RowsDrawn, Exited, list
  <2> QED BY <1>0, <2>1, OutsideLoops
<1>11. CASE UNCHANGED lvars
  BY <1>11 DEF lvars, vars, list, links, cursor, sort, LInv, Linked, Chain, Node, Seqs,
     AddInv, FreeInv, AppendsAtOnce, Passed, Keyed, BreaksAt
<1> QED BY <1>1, <1>2, <1>3, <1>4, <1>5, <1>6, <1>7, <1>8, <1>9, <1>10, <1>11 DEF LNext

\* The empty list: the head points at itself.
LEMMA InitLInv == LInit => IInv /\ LInv
<1> SUFFICES ASSUME LInit PROVE IInv /\ LInv
  OBVIOUS
<1>1. IInv
  BY InitIInv DEF LInit
<1>2. /\ conn_list = <<>> /\ arrivals = 0 /\ loop = "none" /\ MaxConns \in Nat
      /\ next = [a \in Addr |-> IF a = HEAD THEN HEAD ELSE NULL]
      /\ prev = [a \in Addr |-> IF a = HEAD THEN HEAD ELSE NULL]
      /\ mem = [a \in Addr |-> Free]
  BY ConnDumpAssumption DEF LInit, Init
<1>3. Linked
  <2>1. HEAD \in Addr /\ Len(conn_list) = 0
    BY <1>2 DEF HEAD, Addr
  <2>2. \A i \in Nat : Node(conn_list, i) = HEAD
    BY <2>1 DEF Node
  <2> QED BY <1>2, <2>1, <2>2 DEF Linked, Chain
<1>4. AddInv /\ FreeInv
  BY <1>2 DEF AddInv, FreeInv
<1> QED BY <1>1, <1>2, <1>3, <1>4 DEF LInv, Seqs

\* The inductive invariants of the sequence (IInv) and of the pointers that carry it (LInv)
\* hold in every state that add_conn_info(), list_del() and their loops can reach.
THEOREM LInvariance == LSpec => [](IInv /\ LInv)
<1>1. IInv /\ LInv /\ [LNext]_lvars => (IInv /\ LInv)'
  BY LNextIsNext, NextIInv, LNextLInv
<1> QED BY InitLInv, <1>1, PTL DEF LSpec

-----------------------------------------------------------------------------
(* What follows from it.                                                   *)

\* The walk of add_conn_info() from pointer to pointer ends where ConnDump inserts into
\* its sequence, and calls NULL where it does; each freeing loop takes the elements from
\* the front and ends with the last.  So all that is proved of ConnDump holds of the
\* pointers, for any number of connections.
THEOREM ListImplements == LSpec => IsConnDump
<1>1. LInit => Init
  BY DEF LInit
<1> QED BY <1>1, LInvariance, LNextIsNext, PTL DEF LSpec, IsConnDump, Spec

\* For any number of connections and wherever each one is inserted, the pointers of
\* the list are those of its elements, forwards and backwards.
THEOREM LinkedCorrect == LSpec => []Linked
<1>1. LInv => Linked
  BY DEF LInv
<1> QED BY <1>1, LInvariance, PTL

\* No loop over the list stands on memory that was freed.
THEOREM CursorsCorrect == LSpec => []CursorsValid
<1>1. IInv /\ LInv => CursorsValid
  <2> SUFFICES ASSUME IInv, LInv PROVE CursorsValid
    OBVIOUS
  <2>1. ASSUME loop = "add", pos # HEAD PROVE pos \in heap
    <3>1. pc = "parse"
      BY <2>1 DEF LInv, AddInv
    <3>2. heap = Seqs(conn_list)
      BY <3>1 DEF IInv, Accounting
    <3>3. PICK k \in 1..Len(conn_list) : pos = Node(conn_list, k)
      BY <2>1, CursorFacts
    <3> QED BY <3>2, <3>3, ListFacts DEF Node, Seqs
  <2> QED BY <2>1 DEF CursorsValid, LInv, FreeInv
<1> QED BY <1>1, LInvariance, PTL
=============================================================================
