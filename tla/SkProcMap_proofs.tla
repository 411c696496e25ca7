-------------------------- MODULE SkProcMap_proofs --------------------------
(* Proofs about SkProcMap, for every set of processes, descriptors and       *)
(* sockets, every hash function and word size, and either outcome of the     *)
(* undefined shift.                                                          *)
EXTENDS SkProcMap, Induction, FiniteSetTheorems, SequenceTheorems

-----------------------------------------------------------------------------
(* Lemmas about minima and sizes.                                          *)

LEMMA InodesFinite == IsFiniteSet(Inodes) /\ Cardinality(Inodes) \in Nat
                      /\ Cardinality(Inodes) <= 2^WordBits
<1>1. PICK words \in Nat \ {0} : words = 2^WordBits
  BY SkProcMapAssumption
<1>2. Inodes \in SUBSET (1..words - 1)
  BY <1>1, SkProcMapAssumption
<1>3. IsFiniteSet(1..words - 1) /\ Cardinality(1..words - 1) <= words
  <2>1. PICK last \in Nat : last = words - 1
    OBVIOUS
  <2>2. IsFiniteSet(1..last) /\ Cardinality(1..last) = (IF 1 > last THEN 0 ELSE last - 1 + 1)
    BY FS_Interval
  <2> QED BY <2>1, <2>2
<1>4. IsFiniteSet(Inodes) /\ Cardinality(Inodes) <= Cardinality(1..words - 1)
  BY <1>2, <1>3, FS_Subset
<1>5. Cardinality(Inodes) \in Nat /\ Cardinality(1..words - 1) \in Nat
  BY <1>3, <1>4, FS_CardinalityType
<1> QED BY <1>1, <1>3, <1>4, <1>5

\* Owners of different sockets are not more than there are sockets.
LEMMA ChainFits ==
    ASSUME NEW s \in Seq(Owner),
           \A i, j \in DOMAIN s : s[i].sk_ino = s[j].sk_ino => i = j
    PROVE  Len(s) <= Cardinality(Inodes)
<1>1. Len(s) \in Nat /\ DOMAIN s = 1..Len(s) /\ \A i \in 1..Len(s) : s[i] \in Owner
  BY LenProperties, ElementOfSeq
<1> DEFINE ino == [i \in 1..Len(s) |-> s[i].sk_ino]
<1>2. ino \in [1..Len(s) -> Inodes]
  BY <1>1 DEF Owner
<1>3. ino \in Injection(1..Len(s), Inodes)
  BY <1>1, <1>2 DEF Injection, IsInjective
<1>4. Cardinality(1..Len(s)) <= Cardinality(Inodes)
  <2> HIDE DEF ino
  <2> QED BY <1>3, FS_Injection, InodesFinite
<1>5. Cardinality(1..Len(s)) = Len(s)
  BY <1>1, FS_Interval
<1> QED BY <1>4, <1>5

\* The sizes a table can have.
LEMMA TableSizes == \A i \in 0..WordBits : /\ 2^i \in Nat \ {0}
                                           /\ 0 \in 0..2^i - 1 /\ IsFiniteSet(0..2^i - 1)
<1> SUFFICES ASSUME NEW i \in 0..WordBits
             PROVE  /\ 2^i \in Nat \ {0}
                    /\ 0 \in 0..2^i - 1 /\ IsFiniteSet(0..2^i - 1)
  OBVIOUS
<1>1. PICK n \in Nat \ {0} : n = 2^i
  BY SkProcMapAssumption
<1>2. PICK last \in Nat : last = n - 1
  OBVIOUS
<1>3. 0 \in 0..last /\ IsFiniteSet(0..last)
  BY FS_Interval
<1> QED BY <1>1, <1>2, <1>3

-----------------------------------------------------------------------------
(* The inductive invariant.                                                *)

\* The places in the chains, however long they are.
Place(h, i) == h \in DOMAIN sk_ino_hb /\ i \in DOMAIN sk_ino_hb[h]
OwnerAt(h, i) == sk_ino_hb[h][i]

\* Where the program is.
PhaseInv ==
    /\ pc \notin {"idle", "exited", "fault"} => wanted
    /\ pc \in {"comm", "fds"} => pid \in Pids
    /\ pc = "lookup" => todo = {}
    /\ \A p \in Pids : p \notin alive => \A d \in Fds : fds[p][d] = NoInode

\* Every owner is in the bucket of its socket, and once.
ChainInv ==
    /\ \A h, i : Place(h, i) => sk_ino_hash(OwnerAt(h, i).sk_ino) = h
    /\ \A h, i, j : Place(h, i) /\ Place(h, j) /\ OwnerAt(h, i).sk_ino = OwnerAt(h, j).sk_ino
                        => i = j

CountInv == IsFiniteSet(Chained) /\ nr_sockets = Cardinality(Chained)

EmptyInv == pc \in {"idle", "exited"} => \A h, i : ~Place(h, i)

\* What processes hold during a scan is remembered.
HeldInv == InFrame => Held \subseteq held

OwnedInv ==
    Running => \A h, i : Place(h, i) => <<OwnerAt(h, i).pid, OwnerAt(h, i).sk_ino>> \in held

\* The scan goes up through the process ids.
OrderInv ==
    InFrame =>
        /\ \A q \in todo : \A h, i : Place(h, i) => OwnerAt(h, i).pid <= q
        /\ pc \in {"comm", "fds"} =>
              /\ \A q \in todo : pid <= q
              /\ \A h, i : Place(h, i) => OwnerAt(h, i).pid <= pid

\* The map has an owner for the socket, and one not after p.
KnownBy(ino, p) ==
    \E h, i : /\ Place(h, i)
              /\ OwnerAt(h, i).sk_ino = ino /\ OwnerAt(h, i).pid <= p

\* What was not touched since the scan began is still to be scanned, or in the map.
ScanInv ==
    InFrame =>
        \A s \in steady :
            s[1] \in Readable /\ fds[s[1]][s[2]] # NoInode =>
                \/ s[1] \in todo
                \/ pc = "comm" /\ s[1] = pid
                \/ pc = "fds" /\ s[1] = pid /\ s[2] \in fd_todo
                \/ KnownBy(fds[s[1]][s[2]], s[1])

IInv ==
    /\ TypeOK /\ PhaseInv /\ ChainInv /\ CountInv /\ EmptyInv
    /\ HeldInv /\ OwnedInv /\ OrderInv /\ ScanInv

\* A chain is a sequence of owners, no longer than there are sockets.
LEMMA Chains ==
    ASSUME TypeOK, ChainInv, NEW h \in DOMAIN sk_ino_hb
    PROVE  /\ sk_ino_hb[h] \in Seq(Owner)
           /\ Len(sk_ino_hb[h]) \in Nat
           /\ DOMAIN sk_ino_hb[h] = 1..Len(sk_ino_hb[h])
           /\ Len(sk_ino_hb[h]) <= Cardinality(Inodes)
           /\ \A i \in DOMAIN sk_ino_hb[h] : OwnerAt(h, i) \in Owner
<1>1. PICK s \in Seq(Owner) : s = sk_ino_hb[h]
  <2>1. sk_ino_hb # <<>>
    BY DEF TypeOK
  <2> QED BY <2>1 DEF TypeOK, NULL
<1>2. \A i, j \in DOMAIN s : s[i].sk_ino = s[j].sk_ino => i = j
  BY <1>1, Zenon DEF ChainInv, Place, OwnerAt
<1>3. Len(s) <= Cardinality(Inodes)
  BY <1>2, ChainFits
<1>4. Len(s) \in Nat /\ DOMAIN s = 1..Len(s) /\ \A i \in DOMAIN s : s[i] \in Owner
  BY LenProperties, ElementOfSeq
<1> QED BY <1>1, <1>3, <1>4 DEF OwnerAt

\* Chained is all places.
LEMMA AllChained ==
    ASSUME TypeOK, ChainInv
    PROVE  \A h, i : <<h, i>> \in Chained <=> Place(h, i)
<1> SUFFICES ASSUME NEW h, NEW i, Place(h, i) PROVE i \in 1..Cardinality(Inodes)
  BY DEF Chained, Place
<1>1. h \in DOMAIN sk_ino_hb /\ i \in 1..Len(sk_ino_hb[h])
  BY Chains DEF Place
<1> QED BY <1>1, Chains, InodesFinite

\* Two owners of one socket would be in one bucket.
LEMMA SameSocket ==
    ASSUME ChainInv, NEW g, NEW h, NEW i, NEW j, Place(g, i), Place(h, j),
           OwnerAt(g, i).sk_ino = OwnerAt(h, j).sk_ino
    PROVE  g = h
<1>1. sk_ino_hash(OwnerAt(g, i).sk_ino) = g
  BY Zenon DEF ChainInv
<1>2. sk_ino_hash(OwnerAt(h, j).sk_ino) = h
  BY Zenon DEF ChainInv
<1> QED BY <1>1, <1>2

\* The owners in the map are not more than the sockets there are.
LEMMA OwnersFew ==
    ASSUME TypeOK, ChainInv, CountInv
    PROVE  nr_sockets \in Nat /\ nr_sockets <= Cardinality(Inodes)
<1> DEFINE ino == [c \in Chained |-> OwnerAt(c[1], c[2]).sk_ino]
<1>1. \A c \in Chained : Place(c[1], c[2]) /\ c = <<c[1], c[2]>>
  BY DEF Chained, Place
<1>2. ino \in [Chained -> Inodes]
  <2>1. \A c \in Chained : OwnerAt(c[1], c[2]) \in Owner
    BY <1>1, Chains DEF Place
  <2> QED BY <2>1 DEF Owner
<1>3. \A b, c \in Chained : ino[b] = ino[c] => b = c
  <2> SUFFICES ASSUME NEW b \in Chained, NEW c \in Chained, ino[b] = ino[c] PROVE b = c
    OBVIOUS
  <2>1. OwnerAt(b[1], b[2]).sk_ino = OwnerAt(c[1], c[2]).sk_ino
    OBVIOUS
  <2>2. b[1] = c[1]
    BY <1>1, <2>1, SameSocket, Zenon
  <2>3. b[2] = c[2]
    BY <1>1, <2>1, <2>2, Zenon DEF ChainInv
  <2> QED BY <1>1, <2>2, <2>3, Zenon
<1>4. ino \in Injection(Chained, Inodes)
  BY <1>2, <1>3 DEF Injection, IsInjective
<1> HIDE DEF ino
<1>5. Cardinality(Chained) <= Cardinality(Inodes)
  BY <1>4, FS_Injection, InodesFinite
<1> QED BY <1>5, FS_CardinalityType DEF CountInv

-----------------------------------------------------------------------------
(* The initial states, and the table's allocation.                         *)

LEMMA NewTable ==
    ASSUME NEW i \in 0..WordBits
    PROVE  /\ EmptyTable(i) \in [0..2^i - 1 -> Seq(Owner)]
           /\ \A h \in DOMAIN EmptyTable(i) : EmptyTable(i)[h] = <<>>
<1>1. <<>> \in Seq(Owner)
  BY EmptySeq
<1> QED BY <1>1 DEF EmptyTable

LEMMA NoneChained ==
    ASSUME \A h \in DOMAIN sk_ino_hb : sk_ino_hb[h] = <<>>
    PROVE  /\ \A h, i : ~Place(h, i)
           /\ Chained = {}
<1>1. DOMAIN <<>> = {}
  OBVIOUS
<1>2. \A h, i : ~Place(h, i)
  BY <1>1, Zenon DEF Place
<1>3. \A c : c \notin Chained
  BY <1>2, Zenon DEF Chained, Place
<1> QED BY <1>2, <1>3, Zenon

LEMMA InitIInv == Init => IInv
<1> SUFFICES ASSUME Init PROVE IInv
  OBVIOUS
<1>1. InitShift \in 0..WordBits /\ sk_ino_hb = EmptyTable(InitShift) /\ shift = InitShift
  BY SkProcMapAssumption DEF Init
<1>2. (\A h, i : ~Place(h, i)) /\ Chained = {}
  BY <1>1, NewTable, NoneChained
<1>3. TypeOK
  <2>1. sk_ino_hb \in [0..2^shift - 1 -> Seq(Owner)] /\ shift \in 0..WordBits
    BY <1>1, NewTable
  <2> QED BY <2>1 DEF Init, TypeOK
<1>4. CountInv
  BY <1>2, FS_EmptySet DEF Init, CountInv
<1>5. PhaseInv
  BY DEF Init, PhaseInv
<1>6. ChainInv /\ EmptyInv /\ OwnedInv
  BY <1>2, Zenon DEF ChainInv, EmptyInv, OwnedInv
<1>7. HeldInv /\ OrderInv /\ ScanInv
  BY DEF Init, HeldInv, OrderInv, ScanInv, InFrame
<1> QED BY <1>3, <1>4, <1>5, <1>6, <1>7 DEF IInv

-----------------------------------------------------------------------------
(* The steps.                                                              *)

\* A step that leaves the table alone.
LEMMA MapKept ==
    ASSUME IInv, UNCHANGED map
    PROVE  /\ \A h, i : Place(h, i)' <=> Place(h, i)
           /\ \A h, i : OwnerAt(h, i)' = OwnerAt(h, i)
           /\ ChainInv' /\ CountInv'
<1>1. UNCHANGED <<sk_ino_hb, shift, nr_sockets>>
  BY DEF map
<1>2. /\ \A h, i : Place(h, i)' <=> Place(h, i)
      /\ \A h, i : OwnerAt(h, i)' = OwnerAt(h, i)
  BY <1>1 DEF Place, OwnerAt
<1>3. \A k : sk_ino_hash(k)' = sk_ino_hash(k)
  BY <1>1 DEF sk_ino_hash
<1>4. ChainInv'
  BY <1>1, <1>2, <1>3 DEF IInv, ChainInv, Place, OwnerAt, sk_ino_hash
<1>5. Chained' = Chained
  BY <1>1 DEF Chained
<1> QED BY <1>1, <1>2, <1>4, <1>5 DEF IInv, CountInv

\* A process's descriptors become newfds; it may come into being with them, or end.
LEMMA TouchStep ==
    ASSUME IInv, NEW p \in Pids, NEW newfds \in [Fds -> Inodes \cup {NoInode}],
           Touch(p, newfds),
           alive' \subseteq Pids, \A q : q # p => (q \in alive' <=> q \in alive),
           p \in alive' \/ \A d \in Fds : newfds[d] = NoInode
    PROVE  IInv'
<1>1. /\ fds' = [fds EXCEPT ![p] = newfds]
      /\ held' = IF ~InFrame THEN held
                 ELSE held \cup {<<p, newfds[d]>> : d \in {d \in Fds : newfds[d] # NoInode}}
      /\ steady' = {s \in steady : s[1] # p \/ newfds[s[2]] = fds[p][s[2]]}
      /\ UNCHANGED <<pc, wanted, todo, pid, fd_todo, reported>> /\ UNCHANGED map
  BY DEF Touch, scan
<1>2. fds \in [Pids -> [Fds -> Inodes \cup {NoInode}]]
      /\ held \subseteq Pids \X Inodes /\ steady \subseteq Pids \X Fds
  BY DEF IInv, TypeOK
<1>3. \A q \in Pids : fds'[q] = IF q = p THEN newfds ELSE fds[q]
  BY <1>1, <1>2
<1>4. /\ \A h, i : Place(h, i)' <=> Place(h, i)
      /\ \A h, i : OwnerAt(h, i)' = OwnerAt(h, i)
      /\ ChainInv' /\ CountInv'
  BY <1>1, MapKept
<1>5. held \subseteq held' /\ held' \subseteq Pids \X Inodes
  BY <1>1, <1>2
<1>6. TypeOK'
  <2>1. fds' \in [Pids -> [Fds -> Inodes \cup {NoInode}]]
    BY <1>1, <1>2
  <2>2. steady' \subseteq Pids \X Fds
    BY <1>1, <1>2
  <2>3. UNCHANGED <<sk_ino_hb, shift, nr_sockets>>
    BY <1>1 DEF map
  <2> QED BY <1>1, <1>5, <2>1, <2>2, <2>3, Zenon DEF IInv, TypeOK
<1>7. PhaseInv'
  <2>1. \A q \in Pids : q \notin alive' => \A d \in Fds : fds'[q][d] = NoInode
    BY <1>3 DEF IInv, PhaseInv
  <2> QED BY <1>1, <2>1, Zenon DEF IInv, PhaseInv
<1>8. EmptyInv' /\ OwnedInv' /\ OrderInv'
  <2>1. EmptyInv'
    BY <1>1, <1>4, Zenon DEF IInv, EmptyInv
  <2>2. OwnedInv'
    BY <1>1, <1>4, <1>5, Zenon DEF IInv, OwnedInv, Running
  <2>3. OrderInv'
    BY <1>1, <1>4, Zenon DEF IInv, OrderInv, InFrame
  <2> QED BY <2>1, <2>2, <2>3
<1>9. HeldInv'
  <2> SUFFICES ASSUME InFrame, NEW c \in Held' PROVE c \in held'
    BY <1>1 DEF HeldInv, InFrame
  <2>1. PICK d \in Fds : c \in alive' \X Inodes /\ fds'[c[1]][d] = c[2]
    BY DEF Held
  <2>2. c = <<c[1], c[2]>> /\ c[1] \in Pids /\ c[2] \in Inodes /\ c[2] # NoInode
    <3>1. c = <<c[1], c[2]>> /\ c[1] \in alive' /\ c[2] \in Inodes
      BY <2>1
    <3>2. NoInode \notin Inodes
      BY SkProcMapAssumption
    <3> QED BY <3>1, <3>2
  <2>3. CASE c[1] = p
    <3>1. newfds[d] = c[2]
      BY <1>3, <2>1, <2>2, <2>3
    <3>2. c = <<p, newfds[d]>> /\ newfds[d] # NoInode
      BY <2>2, <2>3, <3>1
    <3> QED BY <1>1, <3>2
  <2>4. CASE c[1] # p
    <3>1. c[1] \in alive /\ fds[c[1]][d] = c[2]
      BY <1>3, <2>1, <2>2, <2>4
    <3>2. c \in Held
      BY <2>2, <3>1 DEF Held
    <3> QED BY <1>5, <3>2 DEF IInv, HeldInv
  <2> QED BY <2>3, <2>4
<1>10. ScanInv'
  <2>1. \A s \in steady' : s \in steady /\ s[1] \in Pids /\ fds'[s[1]][s[2]] = fds[s[1]][s[2]]
    BY <1>1, <1>2, <1>3
  <2>2. \A ino, q : KnownBy(ino, q)' <=> KnownBy(ino, q)
    BY <1>4, Zenon DEF KnownBy
  <2> SUFFICES ASSUME InFrame, NEW s \in steady', s[1] \in Readable,
                      fds'[s[1]][s[2]] # NoInode
               PROVE  \/ s[1] \in todo'
                      \/ pc' = "comm" /\ s[1] = pid'
                      \/ pc' = "fds" /\ s[1] = pid' /\ s[2] \in fd_todo'
                      \/ KnownBy(fds[s[1]][s[2]], s[1])'
    BY <1>1, Zenon DEF ScanInv, InFrame
  <2>3. \/ s[1] \in todo
        \/ pc = "comm" /\ s[1] = pid
        \/ pc = "fds" /\ s[1] = pid /\ s[2] \in fd_todo
        \/ KnownBy(fds[s[1]][s[2]], s[1])
    BY <2>1, Zenon DEF IInv, ScanInv
  <2>4. CASE KnownBy(fds[s[1]][s[2]], s[1])
    <3>1. PICK ino : ino = fds[s[1]][s[2]] /\ ino = fds'[s[1]][s[2]]
      BY <2>1
    <3>2. KnownBy(ino, s[1])'
      BY <2>2, <2>4, <3>1, Zenon
    <3> QED BY <3>1, <3>2, Zenon DEF KnownBy
  <2> QED BY <1>1, <2>3, <2>4, Zenon
<1> QED BY <1>4, <1>6, <1>7, <1>8, <1>9, <1>10 DEF IInv

LEMMA ProcessesStep == IInv /\ Processes => IInv'
<1> SUFFICES ASSUME IInv, Processes PROVE IInv'
  OBVIOUS
<1>1. alive \subseteq Pids /\ fds \in [Pids -> [Fds -> Inodes \cup {NoInode}]]
  BY DEF IInv, TypeOK
<1>2. CASE \E p \in Pids, d \in Fds, ino \in Inodes \cup {NoInode} : SetFd(p, d, ino)
  <2>1. PICK p \in Pids, d \in Fds, ino \in Inodes \cup {NoInode} : SetFd(p, d, ino)
    BY <1>2
  <2>2. PICK newfds \in [Fds -> Inodes \cup {NoInode}] : newfds = [fds[p] EXCEPT ![d] = ino]
    BY <1>1
  <2>3. Touch(p, newfds) /\ p \in alive /\ alive' = alive
    BY <2>1, <2>2 DEF SetFd
  <2> QED BY <1>1, <2>3, TouchStep
<1>3. CASE \E p, child \in Pids : Fork(p, child)
  <2>1. PICK p \in Pids, child \in Pids : Fork(p, child)
    BY <1>3
  <2>2. PICK newfds \in [Fds -> Inodes \cup {NoInode}] : newfds = fds[p]
    BY <1>1
  <2>3. Touch(child, newfds) /\ alive' = alive \cup {child}
    BY <2>1, <2>2 DEF Fork
  <2> QED BY <1>1, <2>3, TouchStep
<1>4. CASE \E p \in Pids : Exit(p)
  <2>1. PICK p \in Pids : Exit(p)
    BY <1>4
  <2>2. PICK newfds \in [Fds -> Inodes \cup {NoInode}] : newfds = [d \in Fds |-> NoInode]
    OBVIOUS
  <2>3. Touch(p, newfds) /\ alive' = alive \ {p} /\ \A d \in Fds : newfds[d] = NoInode
    BY <2>1, <2>2 DEF Exit
  <2> QED BY <1>1, <2>3, TouchStep
<1> QED BY <1>2, <1>3, <1>4 DEF Processes

\* ScanInv after a step of the program, said of the table before it.
LEMMA ScanKept ==
    ASSUME IInv, UNCHANGED fds,
           \A ino, q : KnownBy(ino, q) => KnownBy(ino, q)',
           \A s \in steady' : InFrame' /\ s[1] \in Readable /\ fds[s[1]][s[2]] # NoInode =>
                \/ s[1] \in todo'
                \/ pc' = "comm" /\ s[1] = pid'
                \/ pc' = "fds" /\ s[1] = pid' /\ s[2] \in fd_todo'
                \/ KnownBy(fds[s[1]][s[2]], s[1])
    PROVE  ScanInv'
<1> SUFFICES ASSUME InFrame', NEW s \in steady', s[1] \in Readable,
                    fds'[s[1]][s[2]] # NoInode
             PROVE  \/ s[1] \in todo'
                    \/ pc' = "comm" /\ s[1] = pid'
                    \/ pc' = "fds" /\ s[1] = pid' /\ s[2] \in fd_todo'
                    \/ KnownBy(fds[s[1]][s[2]], s[1])'
  BY Zenon DEF ScanInv
<1>1. \/ s[1] \in todo'
      \/ pc' = "comm" /\ s[1] = pid'
      \/ pc' = "fds" /\ s[1] = pid' /\ s[2] \in fd_todo'
      \/ KnownBy(fds[s[1]][s[2]], s[1])
  BY Zenon
<1>2. CASE KnownBy(fds[s[1]][s[2]], s[1])
  <2>1. PICK ino : ino = fds[s[1]][s[2]] /\ ino = fds'[s[1]][s[2]]
    OBVIOUS
  <2>2. KnownBy(ino, s[1])'
    BY <1>2, <2>1, Zenon
  <2> QED BY <2>1, <2>2, Zenon DEF KnownBy
<1> QED BY <1>1, <1>2, Zenon

\* Steps of the program that leave the processes and the table alone.
Quiet ==
    \/ ToggleWanted \/ BeginScan \/ OpenPid \/ GetComm
    \/ EndPid \/ EndScan \/ Dump

LEMMA QuietStep == IInv /\ Quiet => IInv'
<1> SUFFICES ASSUME IInv, Quiet PROVE IInv'
  OBVIOUS
<1>0. UNCHANGED <<alive, fds>> /\ UNCHANGED map
  BY DEF Quiet, ToggleWanted, BeginScan, OpenPid, GetComm, EndPid, EndScan, Dump, procs, scan
<1>1. /\ \A h, i : Place(h, i)' <=> Place(h, i)
      /\ \A h, i : OwnerAt(h, i)' = OwnerAt(h, i)
      /\ ChainInv' /\ CountInv'
  BY <1>0, MapKept
<1>2. \A ino, q : KnownBy(ino, q)' <=> KnownBy(ino, q)
  BY <1>1, Zenon DEF KnownBy
<1>3. UNCHANGED <<sk_ino_hb, shift, nr_sockets>> /\ Held' = Held
  BY <1>0 DEF map, Held
<1>4. todo \subseteq Pids /\ todo \in SUBSET Nat /\ alive \subseteq Pids
  BY SkProcMapAssumption DEF IInv, TypeOK
<1>5. CASE ToggleWanted
  <2>1. UNCHANGED <<held, steady, pc, todo, pid, fd_todo, reported>> /\ wanted' \in BOOLEAN
        /\ pc = "idle"
    BY <1>5 DEF IInv, TypeOK, ToggleWanted, procs, scan
  <2>2. TypeOK'
    BY <1>0, <1>3, <2>1, Zenon DEF IInv, TypeOK
  <2>3. PhaseInv' /\ HeldInv' /\ OrderInv' /\ ScanInv'
    BY <1>0, <2>1 DEF IInv, PhaseInv, HeldInv, OrderInv, ScanInv, InFrame
  <2>4. EmptyInv' /\ OwnedInv'
    BY <1>1, <2>1, Zenon DEF IInv, EmptyInv, OwnedInv, Running
  <2> QED BY <1>1, <2>2, <2>3, <2>4 DEF IInv
<1>6. CASE BeginScan
  <2>1. /\ pc = "idle" /\ wanted /\ pc' = "scan" /\ todo' = alive /\ held' = Held
        /\ steady' = alive \X Fds
        /\ UNCHANGED <<wanted, pid, fd_todo, reported>>
    BY <1>6 DEF BeginScan
  <2>2. \A h, i : ~Place(h, i)
    BY <2>1 DEF IInv, EmptyInv
  <2>3. TypeOK'
    <3>1. Held \subseteq Pids \X Inodes
      BY <1>4 DEF Held
    <3>2. alive \X Fds \subseteq Pids \X Fds
      BY <1>4
    <3> QED BY <1>0, <1>3, <1>4, <2>1, <3>1, <3>2 DEF IInv, TypeOK
  <2>4. PhaseInv'
    BY <1>0, <2>1 DEF IInv, PhaseInv
  <2>5. HeldInv'
    BY <1>3, <2>1 DEF HeldInv
  <2>6. EmptyInv' /\ OwnedInv' /\ OrderInv'
    BY <1>1, <2>1, <2>2 DEF EmptyInv, OwnedInv, OrderInv
  <2>7. ScanInv'
    BY <2>1 DEF ScanInv
  <2> QED BY <1>1, <2>3, <2>4, <2>5, <2>6, <2>7 DEF IInv
<1>7. CASE OpenPid
  <2>1. PICK p : p = Min(todo)
    OBVIOUS
  <2>2. /\ pc = "scan" /\ todo # {} /\ todo' = todo \ {p}
        /\ IF p \in alive \cap Readable THEN pid' = p /\ pc' = "comm" ELSE UNCHANGED <<pid, pc>>
        /\ UNCHANGED <<held, steady, wanted, fd_todo, reported>>
    BY <1>7, <2>1 DEF OpenPid, procs
  <2>3. p \in todo /\ p \in Pids /\ \A q \in todo : p <= q
    BY <1>4, <2>1, <2>2, MinIsLeast
  <2>4. TypeOK'
    BY <1>0, <1>3, <2>2, <2>3 DEF IInv, TypeOK
  <2>5. PhaseInv'
    BY <1>0, <2>2, <2>3 DEF IInv, PhaseInv
  <2>6. HeldInv'
    BY <1>3, <2>2 DEF IInv, HeldInv, InFrame
  <2>7. EmptyInv' /\ OwnedInv'
    BY <1>1, <2>2, Zenon DEF IInv, EmptyInv, OwnedInv, Running
  <2>8. OrderInv'
    <3>1. /\ \A q \in todo' : q \in todo
          /\ \A q \in todo : \A h, i : Place(h, i) => OwnerAt(h, i).pid <= q
      BY <2>2 DEF IInv, OrderInv, InFrame
    <3>2. pc' \in {"comm", "fds"} => pid' = p
      BY <2>2
    <3> QED BY <1>1, <2>3, <3>1, <3>2, Zenon DEF OrderInv
  <2>9. ScanInv'
    <3> SUFFICES ASSUME NEW s \in steady, s[1] \in Readable, fds[s[1]][s[2]] # NoInode
                 PROVE  \/ s[1] \in todo'
                        \/ pc' = "comm" /\ s[1] = pid'
                        \/ KnownBy(fds[s[1]][s[2]], s[1])
      <4> HIDE DEF KnownBy
      <4> QED BY <1>0, <1>2, <2>2, ScanKept, Zenon
    <3>1. s[1] \in todo \/ KnownBy(fds[s[1]][s[2]], s[1])
      BY <2>2 DEF IInv, ScanInv, InFrame
    <3>2. s[1] = p => s[1] \in alive
      BY <2>3 DEF IInv, PhaseInv, TypeOK
    <3> QED BY <2>2, <3>1, <3>2
  <2> QED BY <1>1, <2>4, <2>5, <2>6, <2>7, <2>8, <2>9 DEF IInv
<1>8. CASE GetComm
  <2>1. /\ pc = "comm"
        /\ IF pid \in alive \ LongComm
           THEN pc' = "fds" /\ fd_todo' = {d \in Fds : fds[pid][d] # NoInode}
           ELSE pc' = "failed" /\ UNCHANGED fd_todo
        /\ UNCHANGED <<held, steady, wanted, todo, pid, reported>>
    BY <1>8 DEF GetComm, procs
  <2>2. TypeOK'
    BY <1>0, <1>3, <2>1 DEF IInv, TypeOK
  <2>3. PhaseInv'
    BY <1>0, <2>1 DEF IInv, PhaseInv
  <2>4. HeldInv'
    BY <1>3, <2>1 DEF IInv, HeldInv, InFrame
  <2>5. EmptyInv' /\ OwnedInv'
    BY <1>1, <2>1, Zenon DEF IInv, EmptyInv, OwnedInv, Running
  <2>6. OrderInv'
    <3>1. /\ \A q \in todo : \A h, i : Place(h, i) => OwnerAt(h, i).pid <= q
          /\ \A q \in todo : pid <= q
          /\ \A h, i : Place(h, i) => OwnerAt(h, i).pid <= pid
      BY <2>1 DEF IInv, OrderInv, InFrame
    <3> QED BY <1>1, <2>1, <3>1, Zenon DEF OrderInv
  <2>7. ScanInv'
    <3> SUFFICES ASSUME NEW s \in steady, s[1] \in Readable, fds[s[1]][s[2]] # NoInode,
                        pc' = "fds"
                 PROVE  \/ s[1] \in todo
                        \/ s[1] = pid /\ s[2] \in fd_todo'
                        \/ KnownBy(fds[s[1]][s[2]], s[1])
      <4>1. InFrame' => pc' = "fds"
        BY <2>1 DEF InFrame
      <4> QED BY <1>0, <1>2, <2>1, <4>1, ScanKept, Zenon
    <3>1. s[1] \in todo \/ s[1] = pid \/ KnownBy(fds[s[1]][s[2]], s[1])
      BY <2>1 DEF IInv, ScanInv, InFrame
    <3>2. s[2] \in Fds
      BY DEF IInv, TypeOK
    <3> QED BY <2>1, <3>1, <3>2
  <2> QED BY <1>1, <2>2, <2>3, <2>4, <2>5, <2>6, <2>7 DEF IInv
<1>9. CASE EndPid \/ EndScan
  <2>1. /\ UNCHANGED <<held, steady, wanted, todo, pid, fd_todo, reported>>
        /\ \/ pc = "fds" /\ fd_todo = {} /\ pc' = "scan"
           \/ pc = "scan" /\ todo = {} /\ pc' = "lookup"
    BY <1>9 DEF EndPid, EndScan, procs, scan
  <2>2. TypeOK'
    BY <1>0, <1>3, <2>1 DEF IInv, TypeOK
  <2>3. PhaseInv'
    BY <1>0, <2>1 DEF IInv, PhaseInv
  <2>4. HeldInv'
    BY <1>3, <2>1 DEF IInv, HeldInv, InFrame
  <2>5. EmptyInv' /\ OwnedInv'
    BY <1>1, <2>1, Zenon DEF IInv, EmptyInv, OwnedInv, Running
  <2>6. OrderInv'
    <3>1. \A q \in todo : \A h, i : Place(h, i) => OwnerAt(h, i).pid <= q
      BY <2>1 DEF IInv, OrderInv, InFrame
    <3> QED BY <1>1, <2>1, <3>1 DEF OrderInv
  <2>7. ScanInv'
    <3> SUFFICES ASSUME NEW s \in steady, s[1] \in Readable, fds[s[1]][s[2]] # NoInode
                 PROVE  s[1] \in todo \/ KnownBy(fds[s[1]][s[2]], s[1])
      BY <1>0, <1>2, <2>1, ScanKept, Zenon
    <3> QED BY <2>1 DEF IInv, ScanInv, InFrame
  <2> QED BY <1>1, <2>2, <2>3, <2>4, <2>5, <2>6, <2>7 DEF IInv
<1>10. CASE Dump
  <2>1. /\ UNCHANGED <<held, steady, wanted, todo, pid, fd_todo>>
        /\ pc = "lookup" /\ pc' \in {"fault", "failed"} /\ reported' \in BOOLEAN
    BY <1>10 DEF IInv, TypeOK, Dump, procs, scan
  <2>2. TypeOK'
    BY <1>0, <1>3, <2>1 DEF IInv, TypeOK
  <2>3. PhaseInv'
    BY <1>0, <2>1 DEF IInv, PhaseInv
  <2>4. HeldInv' /\ OrderInv' /\ ScanInv' /\ EmptyInv'
    BY <2>1 DEF HeldInv, OrderInv, ScanInv, EmptyInv, InFrame
  <2>5. OwnedInv'
    BY <1>1, <2>1, Zenon DEF IInv, OwnedInv, Running
  <2> QED BY <1>1, <2>2, <2>3, <2>4, <2>5 DEF IInv
<1> QED BY <1>5, <1>6, <1>7, <1>8, <1>9, <1>10 DEF Quiet

\* A descriptor that adds nothing to the map: it is closed by now, its socket has an
\* owner already, or the scan ends.
LEMMA SkipStep ==
    ASSUME IInv, NEW d, d \in fd_todo,
           pc = "fds", fd_todo' = fd_todo \ {d}, reported' \in BOOLEAN,
           UNCHANGED <<alive, fds, held, steady, wanted, todo, pid>>, UNCHANGED map,
           pc' \in {"fds", "failed", "fault"},
           pc' = "fds" => \/ fds[pid][d] = NoInode
                          \/ \E h, i : Place(h, i) /\ OwnerAt(h, i).sk_ino = fds[pid][d]
    PROVE  IInv'
<1>1. /\ \A h, i : Place(h, i)' <=> Place(h, i)
      /\ \A h, i : OwnerAt(h, i)' = OwnerAt(h, i)
      /\ ChainInv' /\ CountInv'
  BY MapKept
<1>2. \A k, q : KnownBy(k, q)' <=> KnownBy(k, q)
  BY <1>1, Zenon DEF KnownBy
<1>3. UNCHANGED <<sk_ino_hb, shift, nr_sockets>> /\ Held' = Held
  BY DEF map, Held
<1>4. TypeOK'
  BY <1>3 DEF IInv, TypeOK
<1>5. PhaseInv'
  BY DEF IInv, PhaseInv
<1>6. HeldInv'
  BY <1>3 DEF IInv, HeldInv, InFrame
<1>7. EmptyInv' /\ OwnedInv'
  BY <1>1, Zenon DEF IInv, EmptyInv, OwnedInv, Running
<1>8. OrderInv'
  <2>1. /\ \A q \in todo : \A h, i : Place(h, i) => OwnerAt(h, i).pid <= q
        /\ \A q \in todo : pid <= q
        /\ \A h, i : Place(h, i) => OwnerAt(h, i).pid <= pid
    BY DEF IInv, OrderInv, InFrame
  <2> QED BY <1>1, <2>1, Zenon DEF OrderInv
<1>9. ScanInv'
  <2> SUFFICES ASSUME NEW s \in steady, s[1] \in Readable, fds[s[1]][s[2]] # NoInode,
                      pc' = "fds"
               PROVE  \/ s[1] \in todo
                      \/ s[1] = pid /\ s[2] \in fd_todo'
                      \/ KnownBy(fds[s[1]][s[2]], s[1])
    <3>1. InFrame' => pc' = "fds"
      BY DEF InFrame
    <3> QED BY <1>2, <3>1, ScanKept, Zenon
  <2>1. s[1] \in todo \/ (s[1] = pid /\ s[2] \in fd_todo) \/ KnownBy(fds[s[1]][s[2]], s[1])
    BY DEF IInv, ScanInv, InFrame
  <2>2. CASE s[1] = pid /\ s[2] = d
    <3>1. PICK h, i : Place(h, i) /\ OwnerAt(h, i).sk_ino = fds[s[1]][s[2]]
      BY <2>2, Zenon
    <3>2. OwnerAt(h, i).pid <= s[1]
      BY <2>2, <3>1 DEF IInv, OrderInv, InFrame
    <3> QED BY <3>1, <3>2, Zenon DEF KnownBy
  <2>3. CASE s[1] = pid /\ s[2] \in fd_todo /\ s[2] # d
    BY <2>3
  <2> QED BY <2>1, <2>2, <2>3, Zenon
<1> QED BY <1>1, <1>4, <1>5, <1>6, <1>7, <1>8, <1>9 DEF IInv

\* An owner is put at the end of the chain of its socket.
LEMMA InsertStep ==
    ASSUME IInv, NEW d, d \in fd_todo, NEW ino \in Inodes, ino = fds[pid][d],
           pc = "fds", pc' = "fds", fd_todo' = fd_todo \ {d},
           UNCHANGED <<alive, fds, held, steady, wanted, todo, pid, shift, reported>>,
           NEW h \in DOMAIN sk_ino_hb, h = sk_ino_hash(ino),
           ~ \E i \in DOMAIN sk_ino_hb[h] : sk_ino_hb[h][i].sk_ino = ino,
           sk_ino_hb' = [sk_ino_hb EXCEPT ![h] = Append(@, [sk_ino |-> ino, pid |-> pid])],
           nr_sockets' = nr_sockets + 1
    PROVE  IInv'
<1>1. /\ TypeOK /\ PhaseInv /\ ChainInv /\ CountInv /\ pid \in Pids /\ d \in Fds
      /\ pid \in Nat /\ ino # NoInode
  BY SkProcMapAssumption DEF IInv, PhaseInv, TypeOK
<1>2. PICK o \in Owner : o = [sk_ino |-> ino, pid |-> pid]
  BY <1>1 DEF Owner
<1>3. PICK s \in Seq(Owner) : s = sk_ino_hb[h]
  BY <1>1, Chains
<1>4. PICK n \in Nat \ {0} : n = Len(s) + 1
  BY LenProperties
<1>5. PICK t \in Seq(Owner) : t = Append(s, o)
  BY AppendProperties
<1>6. /\ Len(t) = n /\ DOMAIN t = 1..n /\ DOMAIN s = 1..n - 1 /\ t[n] = o
      /\ \A i \in 1..n - 1 : t[i] = s[i]
  BY <1>4, <1>5, AppendProperties, LenProperties
<1>7. /\ sk_ino_hb \in [0..2^shift - 1 -> Seq(Owner)]
      /\ sk_ino_hb' = [sk_ino_hb EXCEPT ![h] = t]
  <2>1. sk_ino_hb # <<>>
    OBVIOUS
  <2> QED BY <1>1, <1>2, <1>3, <1>5, <2>1 DEF TypeOK, NULL
<1>8. /\ DOMAIN sk_ino_hb' = DOMAIN sk_ino_hb /\ sk_ino_hb'[h] = t
      /\ \A g \in DOMAIN sk_ino_hb : g # h => sk_ino_hb'[g] = sk_ino_hb[g]
  BY <1>7
<1>9. \A g, i : Place(g, i)' <=> Place(g, i) \/ (g = h /\ i = n)
  <2>1. 1..n = 1..n - 1 \cup {n}
    OBVIOUS
  <2> QED BY <1>3, <1>6, <1>8, <2>1 DEF Place
<1>10. ~Place(h, n) /\ Place(h, n)' /\ OwnerAt(h, n)' = o
  BY <1>3, <1>6, <1>8, <1>9 DEF Place, OwnerAt
<1>11. \A g, i : Place(g, i) => OwnerAt(g, i)' = OwnerAt(g, i)
  BY <1>3, <1>6, <1>8 DEF Place, OwnerAt
<1>12. \A i : Place(h, i) => OwnerAt(h, i).sk_ino # ino
  BY Zenon DEF Place, OwnerAt
<1>13. TypeOK'
  <2>1. sk_ino_hb' \in [0..2^shift - 1 -> Seq(Owner)]
    BY <1>7
  <2>2. fd_todo' \subseteq Fds /\ nr_sockets' \in Nat
    BY <1>1 DEF TypeOK
  <2> QED BY <1>1, <2>1, <2>2, Zenon DEF TypeOK
<1>14. PhaseInv'
  BY <1>1 DEF PhaseInv
<1>15. ChainInv'
  <2>1. \A k : sk_ino_hash(k)' = sk_ino_hash(k)
    BY DEF sk_ino_hash
  <2>2. o.sk_ino = ino /\ o.pid = pid
    BY <1>2
  <2>3. ASSUME NEW g, NEW i, Place(g, i)'
        PROVE  sk_ino_hash(OwnerAt(g, i)'.sk_ino) = g
    <3>1. CASE g = h /\ i = n
      BY <1>10, <2>2, <3>1
    <3>2. CASE Place(g, i)
      <4>1. sk_ino_hash(OwnerAt(g, i).sk_ino) = g
        BY <1>1, <3>2, Zenon DEF ChainInv
      <4>2. OwnerAt(g, i)' = OwnerAt(g, i)
        BY <1>11, <3>2, Zenon
      <4> QED BY <4>1, <4>2, Zenon
    <3> QED BY <1>9, <2>3, <3>1, <3>2, Zenon
  <2>4. ASSUME NEW g, NEW i, NEW j, Place(g, i)', Place(g, j)',
               OwnerAt(g, i)'.sk_ino = OwnerAt(g, j)'.sk_ino
        PROVE  i = j
    <3>1. CASE Place(g, i) /\ Place(g, j)
      <4>1. OwnerAt(g, i).sk_ino = OwnerAt(g, j).sk_ino
        BY <1>11, <2>4, <3>1, Zenon
      <4> QED BY <1>1, <3>1, <4>1, Zenon DEF ChainInv
    <3>2. CASE g = h /\ i = n /\ j # n
      <4>1. Place(h, j) /\ OwnerAt(h, j).sk_ino = o.sk_ino
        BY <1>9, <1>10, <1>11, <2>4, <3>2, Zenon
      <4> QED BY <1>12, <2>2, <4>1
    <3>3. CASE g = h /\ j = n /\ i # n
      <4>1. Place(h, i) /\ OwnerAt(h, i).sk_ino = o.sk_ino
        BY <1>9, <1>10, <1>11, <2>4, <3>3, Zenon
      <4> QED BY <1>12, <2>2, <4>1
    <3> QED BY <1>9, <2>4, <3>1, <3>2, <3>3, Zenon
  <2>5. \A g, i : Place(g, i)' => sk_ino_hash(OwnerAt(g, i).sk_ino)' = g
    <3> SUFFICES ASSUME NEW g, NEW i, Place(g, i)'
                 PROVE  sk_ino_hash(OwnerAt(g, i).sk_ino)' = g
      OBVIOUS
    <3>1. sk_ino_hash(OwnerAt(g, i)'.sk_ino) = g
      BY <2>3
    <3>2. PICK k : k = OwnerAt(g, i)'.sk_ino
      OBVIOUS
    <3>3. sk_ino_hash(OwnerAt(g, i).sk_ino)' = sk_ino_hash(OwnerAt(g, i)'.sk_ino)
      BY DEF sk_ino_hash
    <3> QED BY <3>1, <3>3
  <2> QED BY <2>4, <2>5, Zenon DEF ChainInv
<1>16. n <= Cardinality(Inodes)
  <2>1. \A i, j \in DOMAIN t : t[i].sk_ino = t[j].sk_ino => i = j
    <3>1. \A i, j : Place(h, i)' /\ Place(h, j)' /\ OwnerAt(h, i)'.sk_ino = OwnerAt(h, j)'.sk_ino
                       => i = j
      BY <1>15, Zenon DEF ChainInv
    <3>2. \A i \in DOMAIN t : Place(h, i)' /\ OwnerAt(h, i)' = t[i]
      BY <1>8 DEF Place, OwnerAt
    <3> QED BY <3>1, <3>2, Zenon
  <2> QED BY <1>6, <2>1, ChainFits
<1>17. CountInv'
  <2>1. \A c : c \in Chained' <=> c \in Chained \cup {<<h, n>>}
    <3> SUFFICES ASSUME NEW c PROVE c \in Chained' <=> c \in Chained \cup {<<h, n>>}
      OBVIOUS
    <3>1. c \in Chained <=> /\ c \in (DOMAIN sk_ino_hb) \X (1..Cardinality(Inodes))
                            /\ Place(c[1], c[2])
      BY DEF Chained, Place
    <3>2. c \in Chained' <=> /\ c \in (DOMAIN sk_ino_hb) \X (1..Cardinality(Inodes))
                             /\ Place(c[1], c[2])'
      BY <1>8 DEF Chained, Place
    <3>3. Place(c[1], c[2])' <=> Place(c[1], c[2]) \/ (c[1] = h /\ c[2] = n)
      BY <1>9
    <3>4. <<h, n>> \in (DOMAIN sk_ino_hb) \X (1..Cardinality(Inodes))
      BY <1>16, InodesFinite
    <3>5. c \in (DOMAIN sk_ino_hb) \X (1..Cardinality(Inodes)) => c = <<c[1], c[2]>>
      OBVIOUS
    <3>6. c = <<h, n>> => c[1] = h /\ c[2] = n
      OBVIOUS
    <3> QED BY <3>1, <3>2, <3>3, <3>4, <3>5, <3>6
  <2>2. Chained' = Chained \cup {<<h, n>>}
    BY <2>1
  <2>3. <<h, n>> \notin Chained
    BY <1>1, <1>10, AllChained
  <2> QED BY <1>1, <2>2, <2>3, FS_AddElement DEF CountInv
<1>18. HeldInv' /\ EmptyInv'
  <2>1. Held' = Held
    BY DEF Held
  <2> QED BY <2>1 DEF IInv, HeldInv, EmptyInv, InFrame
<1>19. OwnedInv'
  <2>1. pid \in alive
    BY <1>1 DEF PhaseInv
  <2>2. <<pid, ino>> \in Held
    BY <1>1, <2>1 DEF Held
  <2>3. <<o.pid, o.sk_ino>> \in held
    BY <1>2, <2>2 DEF IInv, HeldInv, InFrame
  <2>4. \A g, i : Place(g, i) => <<OwnerAt(g, i).pid, OwnerAt(g, i).sk_ino>> \in held
    BY DEF IInv, OwnedInv, Running
  <2>5. \A g, i : Place(g, i)' => <<OwnerAt(g, i)'.pid, OwnerAt(g, i)'.sk_ino>> \in held
    BY <1>9, <1>10, <1>11, <2>3, <2>4, Zenon
  <2> QED BY <2>5, Zenon DEF OwnedInv
<1>20. OrderInv'
  <2>1. /\ \A q \in todo : \A g, i : Place(g, i) => OwnerAt(g, i).pid <= q
        /\ \A q \in todo : pid <= q
        /\ \A g, i : Place(g, i) => OwnerAt(g, i).pid <= pid
    BY DEF IInv, OrderInv, InFrame
  <2>2. o.pid <= pid /\ \A q \in todo : o.pid <= q
    BY <1>1, <1>2, <2>1
  <2>3. /\ \A q \in todo : \A g, i : Place(g, i)' => OwnerAt(g, i)'.pid <= q
        /\ \A g, i : Place(g, i)' => OwnerAt(g, i)'.pid <= pid
    BY <1>9, <1>10, <1>11, <2>1, <2>2, Zenon
  <2> QED BY <2>1, <2>3, Zenon DEF OrderInv
<1>21. ScanInv'
  <2>1. \A k, q : KnownBy(k, q) => KnownBy(k, q)'
    BY <1>9, <1>11, Zenon DEF KnownBy
  <2>2. KnownBy(ino, pid)'
    <3>1. o.sk_ino = ino /\ o.pid <= pid
      BY <1>1, <1>2
    <3> QED BY <1>10, <3>1, Zenon DEF KnownBy
  <2> SUFFICES ASSUME NEW s1 \in steady, s1[1] \in Readable, fds[s1[1]][s1[2]] # NoInode
               PROVE  \/ s1[1] \in todo
                      \/ s1[1] = pid /\ s1[2] \in fd_todo'
                      \/ KnownBy(fds[s1[1]][s1[2]], s1[1])'
    BY Zenon DEF ScanInv
  <2>3. \/ s1[1] \in todo \/ (s1[1] = pid /\ s1[2] \in fd_todo)
        \/ KnownBy(fds[s1[1]][s1[2]], s1[1])
    BY DEF IInv, ScanInv, InFrame
  <2>4. CASE s1[1] = pid /\ s1[2] = d
    <3>1. PICK k : k = fds[s1[1]][s1[2]] /\ k = fds'[s1[1]][s1[2]]
      OBVIOUS
    <3>2. k = ino
      BY <2>4, <3>1
    <3> QED BY <2>2, <2>4, <3>1, <3>2, Zenon DEF KnownBy
  <2>5. CASE s1[1] = pid /\ s1[2] \in fd_todo /\ s1[2] # d
    BY <2>5
  <2>6. CASE KnownBy(fds[s1[1]][s1[2]], s1[1])
    <3>1. PICK k : k = fds[s1[1]][s1[2]] /\ k = fds'[s1[1]][s1[2]]
      OBVIOUS
    <3>2. KnownBy(k, s1[1])'
      BY <2>1, <2>6, <3>1, Zenon
    <3> QED BY <3>1, <3>2, Zenon DEF KnownBy
  <2> QED BY <2>3, <2>4, <2>5, <2>6, Zenon
<1> QED BY <1>13, <1>14, <1>15, <1>17, <1>18, <1>19, <1>20, <1>21 DEF IInv

LEMMA AddSkInoStep == IInv /\ AddSkIno => IInv'
<1> SUFFICES ASSUME IInv, AddSkIno PROVE IInv'
  OBVIOUS
<1>1. PICK d : d = Min(fd_todo)
  OBVIOUS
<1>2. PICK ino : ino = fds[pid][d]
  OBVIOUS
<1>3. PICK h : h = sk_ino_hash(ino)
  OBVIOUS
<1>4. /\ pc = "fds" /\ fd_todo # {} /\ fd_todo' = fd_todo \ {d}
      /\ UNCHANGED <<alive, fds, held, steady, wanted, todo, pid>>
  BY <1>1 DEF AddSkIno, procs
<1>5. d \in fd_todo /\ d \in Fds /\ pid \in Pids /\ ino \in Inodes \cup {NoInode}
  <2>1. fd_todo \in SUBSET Nat /\ fd_todo \subseteq Fds
    BY SkProcMapAssumption DEF IInv, TypeOK
  <2>2. d \in fd_todo
    BY <1>1, <1>4, <2>1, MinIsLeast
  <2> QED BY <1>2, <1>4, <2>1, <2>2 DEF IInv, TypeOK, PhaseInv
<1>6. CASE ino = NoInode
  <2>1. UNCHANGED pc /\ UNCHANGED map /\ UNCHANGED reported
    BY <1>1, <1>2, <1>6 DEF AddSkIno
  <2>2. reported' \in BOOLEAN
    BY <2>1 DEF IInv, TypeOK
  <2> QED BY <1>2, <1>4, <1>5, <1>6, <2>1, <2>2, SkipStep
<1>7. CASE ino # NoInode /\ ~InTable(h)
  <2>1. pc' = "fault" /\ UNCHANGED map /\ UNCHANGED reported
    BY <1>1, <1>2, <1>3, <1>7 DEF AddSkIno
  <2>2. reported' \in BOOLEAN
    BY <2>1 DEF IInv, TypeOK
  <2> QED BY <1>4, <1>5, <2>1, <2>2, SkipStep
<1>8. CASE ino # NoInode /\ InTable(h) /\ Found(ino)
  <2>1. UNCHANGED pc /\ UNCHANGED map /\ UNCHANGED reported
    BY <1>1, <1>2, <1>3, <1>8 DEF AddSkIno
  <2>2. reported' \in BOOLEAN
    BY <2>1 DEF IInv, TypeOK
  <2>3. \E i : Place(h, i) /\ OwnerAt(h, i).sk_ino = ino
    BY <1>3, <1>8 DEF Found, Matches, Bucket, Place, OwnerAt, InTable
  <2> QED BY <1>2, <1>4, <1>5, <2>1, <2>2, <2>3, SkipStep
<1>9. CASE ino # NoInode /\ InTable(h) /\ ~Found(ino)
  <2>1. \/ /\ sk_ino_hb' = [sk_ino_hb EXCEPT ![h] =
                              Append(@, [sk_ino |-> ino, pid |-> pid])]
           /\ nr_sockets' = nr_sockets + 1
           /\ UNCHANGED <<pc, shift, reported>>
        \/ pc' = "failed" /\ reported' = TRUE /\ UNCHANGED map
    BY <1>1, <1>2, <1>3, <1>9 DEF AddSkIno
  <2>2. CASE pc' = "failed" /\ reported' = TRUE /\ UNCHANGED map
    BY <1>4, <1>5, <2>2, SkipStep
  <2>3. CASE /\ sk_ino_hb' = [sk_ino_hb EXCEPT ![h] =
                              Append(@, [sk_ino |-> ino, pid |-> pid])]
             /\ nr_sockets' = nr_sockets + 1
             /\ UNCHANGED <<pc, shift, reported>>
    <3>1. ino \in Inodes /\ h \in DOMAIN sk_ino_hb
      BY <1>5, <1>9 DEF InTable
    <3>2. ~ \E i \in DOMAIN sk_ino_hb[h] : sk_ino_hb[h][i].sk_ino = ino
      BY <1>3, <1>9 DEF Found, Matches, Bucket
    <3> QED BY <1>2, <1>3, <1>4, <1>5, <2>3, <3>1, <3>2, InsertStep
  <2> QED BY <2>1, <2>2, <2>3
<1> QED BY <1>6, <1>7, <1>8, <1>9

\* The program dies of a bad address.
LEMMA FaultStep ==
    ASSUME IInv, pc' = "fault", UNCHANGED map,
           UNCHANGED <<alive, fds, wanted, todo, pid, fd_todo, reported>>,
           held' \subseteq held, steady' \subseteq steady
    PROVE  IInv'
<1>1. ChainInv' /\ CountInv'
  BY MapKept
<1>2. TypeOK'
  BY DEF IInv, TypeOK, map
<1>3. PhaseInv'
  BY DEF IInv, PhaseInv
<1>4. HeldInv' /\ OrderInv' /\ ScanInv' /\ EmptyInv' /\ OwnedInv'
  BY DEF HeldInv, OrderInv, ScanInv, EmptyInv, OwnedInv, InFrame, Running
<1> QED BY <1>1, <1>2, <1>3, <1>4 DEF IInv

\* The owners are freed, at the end of the frame or of the program.
LEMMA EmptiedStep ==
    ASSUME IInv, pc' \in {"idle", "exited"}, nr_sockets' = 0, shift' \in 0..WordBits,
           sk_ino_hb' = NULL \/ sk_ino_hb' = EmptyTable(shift'),
           UNCHANGED <<alive, fds, wanted, todo, pid, fd_todo>>,
           reported' \in BOOLEAN,
           held' \subseteq held, steady' \subseteq steady
    PROVE  IInv'
<1>1. \A h \in DOMAIN sk_ino_hb' : sk_ino_hb'[h] = <<>>
  <2>1. CASE sk_ino_hb' = NULL
    <3>1. DOMAIN NULL = {}
      BY DEF NULL
    <3> QED BY <2>1, <3>1
  <2>2. CASE sk_ino_hb' = EmptyTable(shift')
    <3>1. PICK i \in 0..WordBits : i = shift'
      OBVIOUS
    <3> QED BY <2>2, <3>1, NewTable
  <2> QED BY <2>1, <2>2
<1>2. \A h, i : ~Place(h, i)'
  <2>1. DOMAIN <<>> = {}
    OBVIOUS
  <2> QED BY <1>1, <2>1, Zenon DEF Place
<1>3. Chained' = {}
  <2>1. \A c : c \notin Chained'
    BY <1>2, Zenon DEF Chained, Place
  <2> QED BY <2>1, Zenon
<1>4. TypeOK'
  <2>1. sk_ino_hb' = NULL \/ sk_ino_hb' \in [0..2^shift' - 1 -> Seq(Owner)]
    <3>1. PICK i \in 0..WordBits : i = shift'
      OBVIOUS
    <3> QED BY <3>1, NewTable
  <2>2. /\ alive \subseteq Pids
        /\ fds \in [Pids -> [Fds -> Inodes \cup {NoInode}]]
        /\ held' \subseteq Pids \X Inodes /\ steady' \subseteq Pids \X Fds
        /\ wanted \in BOOLEAN /\ todo \subseteq Pids /\ pid \in Pids \cup {0}
        /\ fd_todo \subseteq Fds
    BY DEF IInv, TypeOK
  <2>3. pc' \in {"idle", "scan", "comm", "fds", "lookup", "failed", "exited", "fault"}
        /\ nr_sockets' \in Nat
    OBVIOUS
  <2> QED BY <2>1, <2>2, <2>3, Zenon DEF TypeOK
<1>5. PhaseInv'
  BY DEF IInv, PhaseInv
<1>6. ChainInv' /\ EmptyInv' /\ OwnedInv'
  BY <1>2, Zenon DEF ChainInv, EmptyInv, OwnedInv
<1>7. CountInv'
  BY <1>3, FS_EmptySet DEF CountInv
<1>8. HeldInv' /\ OrderInv' /\ ScanInv'
  BY DEF HeldInv, OrderInv, ScanInv, InFrame
<1> QED BY <1>4, <1>5, <1>6, <1>7, <1>8 DEF IInv

\* The next table can hold the owners there were: its size is one of a word's powers.
LEMMA NewShiftType == ASSUME TypeOK, ChainInv, CountInv PROVE NewShift \in 0..WordBits
<1>1. nr_sockets \in Nat /\ nr_sockets <= Cardinality(Inodes)
  BY OwnersFew
<1>2. PICK words \in Nat \ {0} : words = 2^WordBits
  BY SkProcMapAssumption
<1>3. nr_sockets <= words
  BY <1>1, <1>2, InodesFinite
<1>4. PICK S : S = {i \in 0..WordBits : nr_sockets <= 2^i}
  OBVIOUS
<1>5. WordBits \in S
  BY <1>2, <1>3, <1>4, SkProcMapAssumption
<1>6. S \in SUBSET Nat
  BY <1>4, SkProcMapAssumption
<1>7. Min(S) \in S
  BY <1>5, <1>6, MinIsLeast
<1> QED BY <1>4, <1>7 DEF NewShift

LEMMA FreeMapStep == IInv /\ FreeMap => IInv'
<1> SUFFICES ASSUME IInv, FreeMap PROVE IInv'
  OBVIOUS
<1>1. /\ pc = "lookup" /\ held' = {} /\ steady' = {}
      /\ UNCHANGED <<alive, fds, wanted, todo, pid, fd_todo>>
  BY DEF FreeMap, scan
<1>2. CASE sk_ino_hb = NULL
  <2>1. pc' = "fault" /\ UNCHANGED map /\ UNCHANGED reported
    BY <1>2 DEF FreeMap
  <2> QED BY <1>1, <2>1, FaultStep
<1>3. CASE sk_ino_hb # NULL
  <2>1. /\ pc' = "idle" /\ nr_sockets' = nr_sockets - Cardinality(Chained)
        /\ \/ /\ sk_ino_hb' = EmptyTable(NewShift) /\ shift' = NewShift /\ UNCHANGED reported
           \/ /\ sk_ino_hb' = NULL /\ reported' = TRUE /\ UNCHANGED shift
    BY <1>3 DEF FreeMap
  <2>2. nr_sockets' = 0
    <3>1. nr_sockets = Cardinality(Chained) /\ Cardinality(Chained) \in Nat
      BY FS_CardinalityType DEF IInv, CountInv
    <3> QED BY <2>1, <3>1
  <2>3. NewShift \in 0..WordBits
    BY NewShiftType DEF IInv
  <2>4. shift \in 0..WordBits /\ reported \in BOOLEAN
    BY DEF IInv, TypeOK
  <2>5. shift' \in 0..WordBits /\ reported' \in BOOLEAN
        /\ (sk_ino_hb' = NULL \/ sk_ino_hb' = EmptyTable(shift'))
    BY <2>1, <2>3, <2>4
  <2> QED BY <1>1, <2>1, <2>2, <2>5, EmptiedStep
<1> QED BY <1>2, <1>3

LEMMA ProcExitStep == IInv /\ ProcExit => IInv'
<1> SUFFICES ASSUME IInv, ProcExit PROVE IInv'
  OBVIOUS
<1>1. /\ pc \in {"idle", "failed"}
      /\ UNCHANGED <<alive, fds, held, steady, wanted, todo, pid, fd_todo, reported>>
  BY DEF ProcExit, procs, scan
<1>2. CASE wanted /\ sk_ino_hb = NULL
  <2>1. pc' = "fault" /\ UNCHANGED map
    BY <1>2 DEF ProcExit
  <2> QED BY <1>1, <2>1, FaultStep
<1>3. CASE ~(wanted /\ sk_ino_hb = NULL)
  <2>1. /\ pc' = "exited" /\ sk_ino_hb' = NULL /\ UNCHANGED shift
        /\ nr_sockets' = IF wanted THEN nr_sockets - Cardinality(Chained) ELSE nr_sockets
    BY <1>3 DEF ProcExit
  <2>2. nr_sockets = Cardinality(Chained) /\ Cardinality(Chained) \in Nat
    BY FS_CardinalityType DEF IInv, CountInv
  <2>3. ~wanted => Cardinality(Chained) = 0
    <3>1. ~wanted => pc = "idle"
      BY <1>1 DEF IInv, PhaseInv
    <3>2. (\A h, i : ~Place(h, i)) => Chained = {}
      BY AllChained DEF Chained, Place
    <3>3. Cardinality({}) = 0
      BY FS_EmptySet
    <3> QED BY <3>1, <3>2, <3>3 DEF IInv, EmptyInv
  <2>4. nr_sockets' = 0
    BY <2>1, <2>2, <2>3
  <2>5. shift' \in 0..WordBits /\ reported' \in BOOLEAN
    BY <1>1, <2>1 DEF IInv, TypeOK
  <2> QED BY <1>1, <2>1, <2>4, <2>5, EmptiedStep
<1> QED BY <1>2, <1>3

LEMMA NextIInv == IInv /\ [Next]_vars => IInv'
<1> SUFFICES ASSUME IInv, [Next]_vars PROVE IInv'
  OBVIOUS
<1>1. CASE Quiet
  BY <1>1, QuietStep
<1>2. CASE AddSkIno
  BY <1>2, AddSkInoStep
<1>3. CASE FreeMap
  BY <1>3, FreeMapStep
<1>4. CASE ProcExit
  BY <1>4, ProcExitStep
<1>5. CASE Processes
  BY <1>5, ProcessesStep
<1>6. CASE UNCHANGED vars
  <2>1. UNCHANGED <<alive, fds, held, steady, pc, wanted, todo, pid, fd_todo, reported>>
        /\ UNCHANGED <<sk_ino_hb, shift, nr_sockets>>
    BY <1>6 DEF vars, procs, scan, map
  <2>2. /\ TypeOK' /\ PhaseInv' /\ ChainInv' /\ CountInv' /\ EmptyInv'
        /\ HeldInv' /\ OwnedInv' /\ OrderInv' /\ ScanInv'
    <3>1. TypeOK' /\ PhaseInv'
      BY <2>1 DEF IInv, TypeOK, PhaseInv
    <3>2. UNCHANGED map
      BY <2>1 DEF map
    <3>3. /\ \A h, i : Place(h, i)' <=> Place(h, i)
          /\ \A h, i : OwnerAt(h, i)' = OwnerAt(h, i)
          /\ ChainInv' /\ CountInv'
      BY <3>2, MapKept
    <3>4. EmptyInv' /\ OwnedInv' /\ OrderInv'
      BY <2>1, <3>3, Zenon DEF IInv, EmptyInv, OwnedInv, OrderInv, InFrame, Running
    <3>5. HeldInv'
      BY <2>1 DEF IInv, HeldInv, Held, InFrame
    <3>6. ScanInv'
      <4>1. \A k, q : KnownBy(k, q) => KnownBy(k, q)'
        BY <3>3, Zenon DEF KnownBy
      <4>2. \A s \in steady' : InFrame' /\ s[1] \in Readable /\ fds[s[1]][s[2]] # NoInode =>
                \/ s[1] \in todo'
                \/ pc' = "comm" /\ s[1] = pid'
                \/ pc' = "fds" /\ s[1] = pid' /\ s[2] \in fd_todo'
                \/ KnownBy(fds[s[1]][s[2]], s[1])
        BY <2>1, Zenon DEF IInv, ScanInv, InFrame
      <4> QED BY <2>1, <4>1, <4>2, ScanKept, Zenon
    <3> QED BY <3>1, <3>3, <3>4, <3>5, <3>6
  <2> QED BY <2>2 DEF IInv
<1>7. Quiet \/ AddSkIno \/ FreeMap \/ ProcExit \/ Processes \/ UNCHANGED vars
  BY DEF Next, Program, Terminated, Quiet
<1> QED BY <1>1, <1>2, <1>3, <1>4, <1>5, <1>6, <1>7

-----------------------------------------------------------------------------
(* The theorems.                                                           *)

\* The invariant holds in every behaviour of the scan, the dump and the processes,
\* whatever sockets they open, pass on and close, and when.
THEOREM Invariance == Spec => []IInv
<1>1. IInv /\ [Next]_vars => IInv'
  BY NextIInv
<1> QED BY InitIInv, <1>1, PTL DEF Spec

\* Every variable of build_sk_proc_map() and free_sk_proc_map() keeps its type: the
\* table is NULL or has 2^shift buckets, and the next shift always exists.
THEOREM TypeCorrect == Spec => []TypeOK
<1>1. IInv => TypeOK
  BY DEF IInv
<1> QED BY Invariance, <1>1, PTL

\* add_sk_ino() keeps a socket once, in the bucket lookup_socket_owner() looks in,
\* and nr_sockets counts the owners.
THEOREM ChainsCorrect == Spec => []ChainsConsistent
<1>1. IInv => ChainsConsistent
  <2> SUFFICES ASSUME IInv PROVE ChainsConsistent
    OBVIOUS
  <2>1. \A c \in Chained : Place(c[1], c[2]) /\ c = <<c[1], c[2]>>
    BY DEF Chained, Place
  <2>2. \A c \in Chained : sk_ino_hash(OwnerAt(c[1], c[2]).sk_ino) = c[1]
    BY <2>1, Zenon DEF IInv, ChainInv
  <2>3. ASSUME NEW b \in Chained, NEW c \in Chained,
               OwnerAt(b[1], b[2]).sk_ino = OwnerAt(c[1], c[2]).sk_ino
        PROVE  b = c
    <3>1. b[1] = c[1]
      BY <2>1, <2>3, SameSocket, Zenon DEF IInv
    <3>2. b[2] = c[2]
      BY <2>1, <2>3, <3>1, Zenon DEF IInv, ChainInv
    <3> QED BY <2>1, <3>1, <3>2, Zenon
  <2> QED BY <2>2, <2>3, Zenon DEF IInv, CountInv, ChainsConsistent, OwnerAt
<1> QED BY Invariance, <1>1, PTL

\* An owner in the map held its socket at some time during the scan that put it there.
THEOREM OwnersCorrect == Spec => []OwnersTrue
<1>1. IInv => OwnersTrue
  <2>1. \A c \in Chained : Place(c[1], c[2])
    BY DEF Chained, Place
  <2> QED BY <2>1, Zenon DEF IInv, OwnedInv, OwnersTrue, OwnerAt
<1> QED BY Invariance, <1>1, PTL

\* The scan finds the owner of each socket that a readable process kept while it
\* ran, and of several the first in /proc.
THEOREM ScanCorrect == Spec => []ScanComplete
<1>1. IInv => ScanComplete
  <2> SUFFICES ASSUME IInv, pc = "lookup", NEW s \in steady,
                      s[1] \in Readable, fds[s[1]][s[2]] # NoInode
               PROVE  /\ Found(fds[s[1]][s[2]])
                      /\ lookup_socket_owner(fds[s[1]][s[2]]) <= s[1]
    BY DEF ScanComplete
  <2>1. PICK ino : ino = fds[s[1]][s[2]]
    OBVIOUS
  <2>2. KnownBy(ino, s[1])
    BY <2>1 DEF IInv, PhaseInv, ScanInv, InFrame
  <2>3. PICK h, i : Place(h, i) /\ OwnerAt(h, i).sk_ino = ino /\ OwnerAt(h, i).pid <= s[1]
    BY <2>2, Zenon DEF KnownBy
  <2>4. sk_ino_hash(ino) = h
    BY <2>3, Zenon DEF IInv, ChainInv
  <2>5. Matches(ino) = {i}
    <3>1. \A j : Place(h, j) /\ OwnerAt(h, j).sk_ino = ino => j = i
      BY <2>3, Zenon DEF IInv, ChainInv
    <3>2. \A j : j \in Matches(ino) <=> Place(h, j) /\ OwnerAt(h, j).sk_ino = ino
      BY <2>3, <2>4 DEF Matches, Bucket, Place, OwnerAt
    <3> QED BY <2>3, <3>1, <3>2
  <2>6. i \in Nat
    BY <2>3, Chains DEF IInv, Place
  <2>7. Min({i}) = i
    <3>1. {i} \in SUBSET Nat
      BY <2>6
    <3> QED BY <3>1, MinIsLeast
  <2>8. lookup_socket_owner(ino) = OwnerAt(h, i).pid
    BY <2>4, <2>5, <2>7 DEF lookup_socket_owner, Bucket, OwnerAt
  <2> QED BY <2>1, <2>3, <2>5, <2>8 DEF Found
<1> QED BY Invariance, <1>1, PTL

\* free_sk_proc_map() and proc_exit() leave no owner behind, whichever way the frame
\* or the program ends.
THEOREM EmptiedCorrect == Spec => []MapEmptied
<1>1. IInv => MapEmptied
  <2> SUFFICES ASSUME IInv, pc \in {"idle", "exited"} PROVE nr_sockets = 0 /\ Chained = {}
    BY DEF MapEmptied
  <2>1. \A c \in Chained : Place(c[1], c[2])
    BY DEF Chained, Place
  <2>2. Chained = {}
    BY <2>1, Zenon DEF IInv, EmptyInv
  <2> QED BY <2>2, FS_EmptySet DEF IInv, CountInv
<1> QED BY Invariance, <1>1, PTL
=============================================================================
