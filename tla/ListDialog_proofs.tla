------------------------- MODULE ListDialog_proofs -------------------------
(* Proofs about ListDialog, for every choice of fields, values and filters,  *)
(* and any number of stars.                                                  *)
EXTENDS ListDialog, Induction, SequenceTheorems, FiniteSetTheorems, TLAPS

-----------------------------------------------------------------------------
(* The lists of names.                                                     *)

\* Every list has a first and a last name, whose numbers are bits of a word.
LEMMA Lists == \A f \in Named : /\ Start[f] \in 0..1 /\ End[f] \in 1..11
<1> SUFFICES ASSUME NEW f \in Named PROVE Start[f] \in 0..1 /\ End[f] \in 1..11
  OBVIOUS
<1>1. CASE f \in Booleans
  BY <1>1 DEF Start, End
<1>2. CASE f \in DOMAIN Names /\ f \notin Booleans
  <2>1. Start[f] = Names[f][1] /\ End[f] = Names[f][2]
    BY <1>2 DEF Start, End
  <2>2. \A g \in DOMAIN Names : Names[g][1] \in 0..1 /\ Names[g][2] \in 1..11
    BY DEF Names
  <2> QED BY <1>2, <2>1, <2>2
<1> QED BY <1>1, <1>2 DEF Named

LEMMA Windows ==
    ASSUME NEW f \in Named
    PROVE  /\ Rows(f) \in Nat \ {0} /\ Start[f] \in Nat
           /\ \A line \in 1..Rows(f) : line - (1 - Start[f]) \in Listed(f)
<1>1. PICK s \in 0..1, e \in 1..11 : s = Start[f] /\ e = End[f]
  BY Lists
<1>2. \A line \in 1..e + 1 - s : line - (1 - s) \in s..e
  OBVIOUS
<1>3. Rows(f) = e + 1 - s /\ Listed(f) = s..e
  BY <1>1 DEF Rows, Listed
<1>4. \A line \in 1..Rows(f) : line - (1 - Start[f]) \in Listed(f)
  BY <1>1, <1>2, <1>3
<1>5. s \in Nat /\ e + 1 - s \in Nat \ {0}
  OBVIOUS
<1>6. Rows(f) \in Nat \ {0} /\ Start[f] \in Nat
  BY <1>1, <1>3, <1>5, Zenon
<1> QED BY <1>4, <1>6

-----------------------------------------------------------------------------
(* The inductive invariant.                                                *)

\* What is starred on the screen is what the dialog, or the filter behind it, holds.
StarsInv ==
    field \in Named =>
        /\ pc = "dialog" => ~filter_on /\ selected = chosen
        /\ pc = "keys" => chosen = IF filter = <<>> THEN {} ELSE filter[1].val
        /\ filter_on => filter # <<>> /\ chosen # {}

\* The dialog is left by no other field than one with names.
DialogInv == pc = "dialog" => field \in Named

IInv == TypeOK /\ StarsInv /\ DialogInv

LEMMA ReturnVal == ASSUME NEW set PROVE Return(set) # <<>> /\ Return(set)[1].val = set
  BY DEF Return

LEMMA InitIInv == Init => IInv
<1> SUFFICES ASSUME Init PROVE IInv
  OBVIOUS
<1>1. field \in Named => 1 \in 1..Rows(field)
  BY Windows
<1>2. TypeOK
  BY <1>1 DEF Init, TypeOK
<1> QED BY <1>2 DEF Init, IInv, StarsInv, DialogInv

\* v = 1U << (y - offset): the bit is that of the name on the line.
LEMMA SpaceStep == IInv /\ Space => IInv'
<1> SUFFICES ASSUME IInv, Space PROVE IInv'
  OBVIOUS
<1>1. field \in Named /\ pc = "dialog" /\ selected = chosen /\ ~filter_on
  BY DEF IInv, DialogInv, StarsInv, Space
<1>2. PICK e : e = NameOn(y)
  OBVIOUS
<1>3. /\ selected' = Toggle(selected, e) /\ chosen' = Toggle(chosen, e)
      /\ UNCHANGED <<field, pc, filter, filter_on, y>>
  BY <1>2 DEF Space, NameOn
<1>4. e \in Listed(field)
  BY <1>1, <1>2, Windows DEF IInv, TypeOK, NameOn
<1>5. selected' \subseteq Listed(field) /\ chosen' \subseteq Listed(field)
  BY <1>1, <1>3, <1>4 DEF IInv, TypeOK, Toggle
<1>6. TypeOK'
  BY <1>1, <1>3, <1>5 DEF IInv, TypeOK, Rows, Listed
<1>7. StarsInv' /\ DialogInv'
  BY <1>1, <1>3 DEF StarsInv, DialogInv
<1> QED BY <1>6, <1>7 DEF IInv

LEMMA NextIInv == IInv /\ [Next]_vars => IInv'
<1> SUFFICES ASSUME IInv, [Next]_vars PROVE IInv'
  OBVIOUS
<1>0. field' = field /\ (field \in Named => 1 \in 1..Rows(field))
  <2>1. field' = field
    BY DEF Next, vars, Open, KeyDown, KeyUp, Space, Accept, AcceptNoMemory, Leave, Type, FilterOff
  <2> QED BY <2>1, Windows
<1>1. CASE Open
  <2>1. /\ pc = "keys" /\ field \in Named /\ ~filter_on /\ pc' = "dialog" /\ y' = 1
        /\ selected' = IF filter = <<>> THEN {} ELSE filter[1].val
        /\ UNCHANGED <<filter, filter_on, chosen>>
    BY <1>1 DEF Open
  <2>2. selected' = chosen
    BY <2>1 DEF IInv, StarsInv
  <2>3. TypeOK'
    BY <1>0, <2>1, <2>2 DEF IInv, TypeOK
  <2>4. StarsInv' /\ DialogInv'
    BY <1>0, <2>1, <2>2 DEF IInv, StarsInv, DialogInv
  <2> QED BY <2>3, <2>4 DEF IInv
<1>2. CASE KeyDown \/ KeyUp
  <2>1. /\ pc = "dialog" /\ UNCHANGED <<pc, filter, filter_on, selected, chosen>>
        /\ (y < Rows(field) /\ y' = y + 1) \/ (y > 1 /\ y' = y - 1)
    BY <1>2 DEF KeyDown, KeyUp
  <2>2. field \in Named /\ y \in 1..Rows(field) /\ Rows(field) \in Nat
    BY <2>1, Windows DEF IInv, TypeOK, DialogInv
  <2>3. y' \in 1..Rows(field)
    <3>1. PICK n \in Nat : n = Rows(field)
      BY <2>2
    <3> QED BY <2>1, <2>2, <3>1
  <2>4. TypeOK'
    BY <1>0, <2>1, <2>3 DEF IInv, TypeOK
  <2>5. StarsInv' /\ DialogInv'
    BY <1>0, <2>1 DEF IInv, StarsInv, DialogInv
  <2> QED BY <2>4, <2>5 DEF IInv
<1>3. CASE Space
  BY <1>3, SpaceStep
<1>4. CASE Accept \/ AcceptNoMemory \/ Leave
  <2>1. /\ pc = "dialog" /\ pc' = "keys" /\ y' = 1 /\ selected' = {}
        /\ field \in Named /\ selected = chosen /\ ~filter_on
        /\ selected \subseteq Listed(field)
    BY <1>4 DEF IInv, TypeOK, StarsInv, DialogInv, Accept, AcceptNoMemory, Leave, Back
  <2>2. CASE Accept
    <3>1. /\ selected # {} /\ filter' = Return(selected) /\ filter_on' = TRUE
          /\ chosen' = chosen
      BY <2>2 DEF Accept
    <3>2. filter' # <<>> /\ filter'[1].val = selected
      BY <3>1, ReturnVal
    <3>3. TypeOK'
      BY <1>0, <2>1, <3>1, <3>2 DEF IInv, TypeOK
    <3>4. StarsInv' /\ DialogInv'
      BY <1>0, <2>1, <3>1, <3>2 DEF StarsInv, DialogInv
    <3> QED BY <3>3, <3>4 DEF IInv
  <2>3. CASE AcceptNoMemory
    <3>1. filter = <<>> /\ chosen' = {} /\ UNCHANGED <<filter, filter_on>>
      BY <2>3 DEF AcceptNoMemory
    <3>2. TypeOK'
      BY <1>0, <2>1, <3>1 DEF IInv, TypeOK
    <3>3. StarsInv' /\ DialogInv'
      BY <1>0, <2>1, <3>1 DEF StarsInv, DialogInv
    <3> QED BY <3>2, <3>3 DEF IInv
  <2>4. CASE Leave
    <3>1. /\ selected = {} /\ filter' = IF filter = <<>> THEN <<>> ELSE Return({})
          /\ UNCHANGED <<filter_on, chosen>>
      BY <2>4 DEF Leave
    <3>2. filter' # <<>> => filter'[1].val = {}
      BY <3>1, ReturnVal
    <3>3. TypeOK'
      BY <1>0, <2>1, <3>1, <3>2 DEF IInv, TypeOK
    <3>4. StarsInv' /\ DialogInv'
      BY <1>0, <2>1, <3>1, <3>2 DEF StarsInv, DialogInv
    <3> QED BY <3>3, <3>4 DEF IInv
  <2> QED BY <1>4, <2>2, <2>3, <2>4
<1>5. CASE Type
  <2>1. /\ pc = "keys" /\ field \notin Named /\ filter_on' = TRUE
        /\ UNCHANGED <<pc, y, selected, chosen>>
    BY <1>5 DEF Type
  <2> QED BY <1>0, <2>1 DEF IInv, TypeOK, StarsInv, DialogInv
<1>6. CASE FilterOff
  <2>1. /\ pc = "keys" /\ filter_on' = FALSE
        /\ UNCHANGED <<pc, filter, y, selected, chosen>>
    BY <1>6 DEF FilterOff
  <2>2. TypeOK'
    BY <1>0, <2>1 DEF IInv, TypeOK
  <2> QED BY <1>0, <2>1, <2>2 DEF IInv, StarsInv, DialogInv
<1>7. CASE UNCHANGED vars
  BY <1>7 DEF vars, IInv, TypeOK, StarsInv, DialogInv
<1> QED BY <1>1, <1>2, <1>3, <1>4, <1>5, <1>6, <1>7 DEF Next

-----------------------------------------------------------------------------
(* Bits.                                                                   *)

LEMMA Powers ==
    /\ 2^0 = 1 /\ 2^1 = 2 /\ 2^2 = 4 /\ 2^3 = 8 /\ 2^4 = 16
    /\ 2^5 = 32 /\ 2^6 = 64 /\ 2^7 = 128 /\ 2^8 = 256
OBVIOUS

\* A byte is the sum of its bits, the first the most significant.
BitAt(a, k) == (a \div 2^(7 - k)) % 2

LEMMA ByteBits ==
    ASSUME NEW a \in 0..255
    PROVE  \E b0, b1, b2, b3, b4, b5, b6, b7 \in {0, 1} :
              /\ a = 128 * b0 + 64 * b1 + 32 * b2 + 16 * b3 + 8 * b4 + 4 * b5 + 2 * b6 + b7
              /\ BitAt(a, 0) = b0 /\ BitAt(a, 1) = b1 /\ BitAt(a, 2) = b2 /\ BitAt(a, 3) = b3
              /\ BitAt(a, 4) = b4 /\ BitAt(a, 5) = b5 /\ BitAt(a, 6) = b6 /\ BitAt(a, 7) = b7
<1>1. /\ BitAt(a, 0) = (a \div 128) % 2 /\ BitAt(a, 1) = (a \div 64) % 2
      /\ BitAt(a, 2) = (a \div 32) % 2 /\ BitAt(a, 3) = (a \div 16) % 2
      /\ BitAt(a, 4) = (a \div 8) % 2 /\ BitAt(a, 5) = (a \div 4) % 2
      /\ BitAt(a, 6) = (a \div 2) % 2 /\ BitAt(a, 7) = (a \div 1) % 2
  <2>1. 7 - 0 = 7 /\ 7 - 1 = 6 /\ 7 - 2 = 5 /\ 7 - 3 = 4 /\ 7 - 4 = 3 /\ 7 - 5 = 2 /\ 7 - 6 = 1
        /\ 7 - 7 = 0
    OBVIOUS
  <2> QED BY <2>1, Powers, Zenon DEF BitAt
<1>2. /\ (a \div 128) % 2 \in {0, 1} /\ (a \div 64) % 2 \in {0, 1}
      /\ (a \div 32) % 2 \in {0, 1} /\ (a \div 16) % 2 \in {0, 1}
      /\ (a \div 8) % 2 \in {0, 1} /\ (a \div 4) % 2 \in {0, 1}
      /\ (a \div 2) % 2 \in {0, 1} /\ (a \div 1) % 2 \in {0, 1}
  OBVIOUS
<1>3. a = 128 * ((a \div 128) % 2) + 64 * ((a \div 64) % 2) + 32 * ((a \div 32) % 2)
          + 16 * ((a \div 16) % 2) + 8 * ((a \div 8) % 2) + 4 * ((a \div 4) % 2)
          + 2 * ((a \div 2) % 2) + ((a \div 1) % 2)
  OBVIOUS
<1>4. PICK b0, b1, b2, b3, b4, b5, b6, b7 \in {0, 1} :
         /\ b0 = (a \div 128) % 2 /\ b1 = (a \div 64) % 2 /\ b2 = (a \div 32) % 2
         /\ b3 = (a \div 16) % 2 /\ b4 = (a \div 8) % 2 /\ b5 = (a \div 4) % 2
         /\ b6 = (a \div 2) % 2 /\ b7 = (a \div 1) % 2
  BY <1>2
<1>5. a = 128 * b0 + 64 * b1 + 32 * b2 + 16 * b3 + 8 * b4 + 4 * b5 + 2 * b6 + b7
  BY <1>3, <1>4, Zenon
<1>6. /\ BitAt(a, 0) = b0 /\ BitAt(a, 1) = b1 /\ BitAt(a, 2) = b2 /\ BitAt(a, 3) = b3
      /\ BitAt(a, 4) = b4 /\ BitAt(a, 5) = b5 /\ BitAt(a, 6) = b6 /\ BitAt(a, 7) = b7
  BY <1>1, <1>4, Zenon
<1> WITNESS b0 \in {0, 1}, b1 \in {0, 1}, b2 \in {0, 1}, b3 \in {0, 1},
            b4 \in {0, 1}, b5 \in {0, 1}, b6 \in {0, 1}, b7 \in {0, 1}
<1> QED BY <1>5, <1>6

\* Masking a byte keeps as many bits as the mask has ones.
LEMMA MaskedBits ==
    ASSUME NEW a \in 0..255, NEW b \in 0..255, NEW ones \in 0..8
    PROVE  Masked(a, ones) = Masked(b, ones)
              <=> \A k \in 0..7 : k < ones => BitAt(a, k) = BitAt(b, k)
<1>1. PICK a0, a1, a2, a3, a4, a5, a6, a7 \in {0, 1} :
         /\ a = 128 * a0 + 64 * a1 + 32 * a2 + 16 * a3 + 8 * a4 + 4 * a5 + 2 * a6 + a7
         /\ BitAt(a, 0) = a0 /\ BitAt(a, 1) = a1 /\ BitAt(a, 2) = a2 /\ BitAt(a, 3) = a3
         /\ BitAt(a, 4) = a4 /\ BitAt(a, 5) = a5 /\ BitAt(a, 6) = a6 /\ BitAt(a, 7) = a7
  BY ByteBits
<1>2. PICK b0, b1, b2, b3, b4, b5, b6, b7 \in {0, 1} :
         /\ b = 128 * b0 + 64 * b1 + 32 * b2 + 16 * b3 + 8 * b4 + 4 * b5 + 2 * b6 + b7
         /\ BitAt(b, 0) = b0 /\ BitAt(b, 1) = b1 /\ BitAt(b, 2) = b2 /\ BitAt(b, 3) = b3
         /\ BitAt(b, 4) = b4 /\ BitAt(b, 5) = b5 /\ BitAt(b, 6) = b6 /\ BitAt(b, 7) = b7
  BY ByteBits
<1>3. (\A k \in 0..7 : k < ones => BitAt(a, k) = BitAt(b, k)) <=>
         /\ (0 < ones => a0 = b0) /\ (1 < ones => a1 = b1)
         /\ (2 < ones => a2 = b2) /\ (3 < ones => a3 = b3)
         /\ (4 < ones => a4 = b4) /\ (5 < ones => a5 = b5)
         /\ (6 < ones => a6 = b6) /\ (7 < ones => a7 = b7)
  BY <1>1, <1>2
<1>4. CASE ones = 0
  <2>1. Masked(a, ones) = a - (a % 256) /\ Masked(b, ones) = b - (b % 256)
    BY <1>4, Powers DEF Masked
  <2> QED BY <1>3, <1>4, <2>1
<1>5. CASE ones = 1
  <2>1. Masked(a, ones) = a - (a % 128) /\ Masked(b, ones) = b - (b % 128)
    BY <1>5, Powers DEF Masked
  <2>2. Masked(a, ones) = 128 * a0 /\ Masked(b, ones) = 128 * b0
    BY <1>1, <1>2, <2>1
  <2> QED BY <1>3, <1>5, <2>2
<1>6. CASE ones = 2
  <2>1. Masked(a, ones) = a - (a % 64) /\ Masked(b, ones) = b - (b % 64)
    BY <1>6, Powers DEF Masked
  <2>2. Masked(a, ones) = 128 * a0 + 64 * a1 /\ Masked(b, ones) = 128 * b0 + 64 * b1
    BY <1>1, <1>2, <2>1
  <2> QED BY <1>3, <1>6, <2>2
<1>7. CASE ones = 3
  <2>1. Masked(a, ones) = a - (a % 32) /\ Masked(b, ones) = b - (b % 32)
    BY <1>7, Powers DEF Masked
  <2>2. /\ Masked(a, ones) = 128 * a0 + 64 * a1 + 32 * a2
        /\ Masked(b, ones) = 128 * b0 + 64 * b1 + 32 * b2
    BY <1>1, <1>2, <2>1
  <2> QED BY <1>3, <1>7, <2>2
<1>8. CASE ones = 4
  <2>1. Masked(a, ones) = a - (a % 16) /\ Masked(b, ones) = b - (b % 16)
    BY <1>8, Powers DEF Masked
  <2>2. /\ Masked(a, ones) = 128 * a0 + 64 * a1 + 32 * a2 + 16 * a3
        /\ Masked(b, ones) = 128 * b0 + 64 * b1 + 32 * b2 + 16 * b3
    BY <1>1, <1>2, <2>1
  <2> QED BY <1>3, <1>8, <2>2
<1>9. CASE ones = 5
  <2>1. Masked(a, ones) = a - (a % 8) /\ Masked(b, ones) = b - (b % 8)
    BY <1>9, Powers DEF Masked
  <2>2. /\ Masked(a, ones) = 128 * a0 + 64 * a1 + 32 * a2 + 16 * a3 + 8 * a4
        /\ Masked(b, ones) = 128 * b0 + 64 * b1 + 32 * b2 + 16 * b3 + 8 * b4
    BY <1>1, <1>2, <2>1
  <2> QED BY <1>3, <1>9, <2>2
<1>10. CASE ones = 6
  <2>1. Masked(a, ones) = a - (a % 4) /\ Masked(b, ones) = b - (b % 4)
    BY <1>10, Powers DEF Masked
  <2>2. /\ Masked(a, ones) = 128 * a0 + 64 * a1 + 32 * a2 + 16 * a3 + 8 * a4 + 4 * a5
        /\ Masked(b, ones) = 128 * b0 + 64 * b1 + 32 * b2 + 16 * b3 + 8 * b4 + 4 * b5
    BY <1>1, <1>2, <2>1
  <2> QED BY <1>3, <1>10, <2>2
<1>11. CASE ones = 7
  <2>1. Masked(a, ones) = a - (a % 2) /\ Masked(b, ones) = b - (b % 2)
    BY <1>11, Powers DEF Masked
  <2>2. /\ Masked(a, ones) = 128 * a0 + 64 * a1 + 32 * a2 + 16 * a3 + 8 * a4 + 4 * a5 + 2 * a6
        /\ Masked(b, ones) = 128 * b0 + 64 * b1 + 32 * b2 + 16 * b3 + 8 * b4 + 4 * b5 + 2 * b6
    BY <1>1, <1>2, <2>1
  <2> QED BY <1>3, <1>11, <2>2
<1>12. CASE ones = 8
  <2>1. Masked(a, ones) = a - (a % 1) /\ Masked(b, ones) = b - (b % 1)
    BY <1>12, Powers DEF Masked
  <2>2. Masked(a, ones) = a /\ Masked(b, ones) = b
    BY <2>1
  <2> QED BY <1>1, <1>2, <1>3, <1>12, <2>2
<1> QED BY <1>4, <1>5, <1>6, <1>7, <1>8, <1>9, <1>10, <1>11, <1>12

-----------------------------------------------------------------------------
(* Layouts.                                                                *)

\* The three functions read every field with one layout, but for the shutdown mask and
\* for the filters that read past a local variable.
LEMMA OneLayout ==
    ASSUME NEW f \in AllFields, f # "shutdown"
    PROVE  /\ Layout(SortBits, f) = Layout(DrawBits, f)
           /\ f \notin ReadPast => Layout(FilterBits, f) = Layout(DrawBits, f)
<1>1. /\ DOMAIN SortBits = DOMAIN DrawBits /\ DOMAIN FilterBits = DOMAIN DrawBits
      /\ f \in DOMAIN DrawBits => SortBits[f] = DrawBits[f]
      /\ f \in DOMAIN DrawBits \ ReadPast => FilterBits[f] = DrawBits[f]
  BY DEF SortBits, DrawBits, FilterBits, ReadPast
<1> QED BY <1>1 DEF Layout

\* A whole word is read as it is.
LEMMA WholeWord ==
    ASSUME NEW f \in ReadPast, NEW d
    PROVE  Read(Layout(DrawBits, f), d) = d
<1>1. Layout(DrawBits, f) = Whole
  BY DEF Layout, DrawBits, ReadPast
<1>2. Read(Whole, d) = d
  BY DEF Read, Whole
<1> QED BY <1>1, <1>2

LEMMA Shutdown ==
    ASSUME NEW d \in 0..3
    PROVE  /\ Read(Layout(DrawBits, "shutdown"), d) = d
           /\ Read(Layout(SortBits, "shutdown"), d) = d
           /\ Read(Layout(FilterBits, "shutdown"), d) = d
<1>1. /\ Layout(DrawBits, "shutdown") = Bits(0, 2)
      /\ Layout(SortBits, "shutdown") = Bits(0, 8)
      /\ Layout(FilterBits, "shutdown") = Bits(0, 8)
  BY DEF Layout, DrawBits, SortBits, FilterBits, Byte
<1>2. /\ Read(Bits(0, 2), d) = (d \div 1) % 4 /\ Read(Bits(0, 8), d) = (d \div 1) % 256
  BY Powers DEF Read, Bits
<1>3. (d \div 1) % 4 = d /\ (d \div 1) % 256 = d
  OBVIOUS
<1> QED BY <1>1, <1>2, <1>3

\* A bit field of a byte.
LEMMA BitField ==
    ASSUME NEW d \in 0..255, NEW first \in 0..7, NEW n \in 1..8
    PROVE  /\ Read(Bits(first, n), d) \in 0..255
           /\ n = 1 => Read(Bits(first, n), d) \in {0, 1}
<1>1. Read(Bits(first, n), d) = (d \div 2^first) % 2^n
  BY DEF Read, Bits
<1>2. 2^first \in Nat \ {0} /\ 2^n \in 1..256 /\ (n = 1 => 2^n = 2)
  <2>1. /\ first \in {0, 1, 2, 3, 4, 5, 6, 7} /\ n \in {1, 2, 3, 4, 5, 6, 7, 8}
    OBVIOUS
  <2>2. \A k : /\ (k = 0 => 2^k = 1) /\ (k = 1 => 2^k = 2) /\ (k = 2 => 2^k = 4)
               /\ (k = 3 => 2^k = 8) /\ (k = 4 => 2^k = 16) /\ (k = 5 => 2^k = 32)
               /\ (k = 6 => 2^k = 64) /\ (k = 7 => 2^k = 128) /\ (k = 8 => 2^k = 256)
    <3>1. \A k : k = 0 => 2^k = 1
      BY 2^0 = 1, Zenon
    <3>2. \A k : k = 1 => 2^k = 2
      BY 2^1 = 2, Zenon
    <3>3. \A k : k = 2 => 2^k = 4
      BY 2^2 = 4, Zenon
    <3>4. \A k : k = 3 => 2^k = 8
      BY 2^3 = 8, Zenon
    <3>5. \A k : k = 4 => 2^k = 16
      BY 2^4 = 16, Zenon
    <3>6. \A k : k = 5 => 2^k = 32
      BY 2^5 = 32, Zenon
    <3>7. \A k : k = 6 => 2^k = 64
      BY 2^6 = 64, Zenon
    <3>8. \A k : k = 7 => 2^k = 128
      BY 2^7 = 128, Zenon
    <3>9. \A k : k = 8 => 2^k = 256
      BY 2^8 = 256, Zenon
    <3> QED BY <3>1, <3>2, <3>3, <3>4, <3>5, <3>6, <3>7, <3>8, <3>9
  <2>3. 2^first \in {1, 2, 4, 8, 16, 32, 64, 128}
    BY <2>1, <2>2
  <2>4. 2^n \in {2, 4, 8, 16, 32, 64, 128, 256} /\ (n = 1 => 2^n = 2)
    BY <2>1, <2>2
  <2> QED BY <2>3, <2>4
<1>3. PICK p \in Nat \ {0}, w \in 1..256 : p = 2^first /\ w = 2^n
  BY <1>2
<1>4. d \div p \in Nat
  OBVIOUS
<1>5. (d \div p) % w \in 0..255 /\ (w = 2 => (d \div p) % w \in {0, 1})
  BY <1>4
<1> QED BY <1>1, <1>2, <1>3, <1>5

Bytewise == AllFields \ (Strings \cup AddressFields \cup ReadPast \cup {"sport", "bw"})

LEMMA ByteValue ==
    ASSUME NEW f \in Bytewise, NEW d \in 0..255
    PROVE  /\ Read(Layout(DrawBits, f), d) \in 0..255
           /\ f \in Booleans \ {"ipv6only"} => Read(Layout(DrawBits, f), d) \in {0, 1}
           /\ f = "ipv6only" => Read(Layout(DrawBits, f), d) = d
<1>1. \E first \in 0..7, n \in 1..8 :
         /\ Layout(DrawBits, f) = Bits(first, n)
         /\ f \in Booleans \ {"ipv6only"} => n = 1
  <2>1. CASE f \in DOMAIN DrawBits
    BY <2>1 DEF Layout, DrawBits, Bytewise, Booleans, TypeBit, ReadPast
  <2>2. CASE f \notin DOMAIN DrawBits /\ f \in DOMAIN TypeBit
    <3>1. TypeBit[f] \in 0..7 /\ Layout(DrawBits, f) = Bits(TypeBit[f], 1)
      BY <2>2 DEF Layout, TypeBit
    <3>2. 1 \in 1..8
      OBVIOUS
    <3> QED BY <3>1, <3>2
  <2>3. CASE f \notin DOMAIN DrawBits /\ f \notin DOMAIN TypeBit
    <3>1. Layout(DrawBits, f) = Bits(0, 8) /\ 0 \in 0..7 /\ 8 \in 1..8
      BY <2>3 DEF Layout, Byte
    <3>2. f \notin Booleans \ {"ipv6only"}
      BY <2>3 DEF Booleans, DrawBits, Bytewise
    <3> QED BY <3>1, <3>2
  <2> QED BY <2>1, <2>2, <2>3
<1>2. PICK first \in 0..7, n \in 1..8 :
         /\ Layout(DrawBits, f) = Bits(first, n)
         /\ f \in Booleans \ {"ipv6only"} => n = 1
  BY <1>1
<1>3. /\ Read(Bits(first, n), d) \in 0..255
      /\ n = 1 => Read(Bits(first, n), d) \in {0, 1}
  BY BitField
<1>4. ASSUME f = "ipv6only" PROVE Read(Layout(DrawBits, f), d) = d
  <2>1. Layout(DrawBits, f) = Bits(0, 8)
    BY <1>4 DEF Layout, DrawBits, TypeBit, Byte
  <2>2. Read(Bits(0, 8), d) = (d \div 1) % 256
    BY Powers DEF Read, Bits
  <2>3. (d \div 1) % 256 = d
    OBVIOUS
  <2> QED BY <2>1, <2>2, <2>3
<1> QED BY <1>2, <1>3, <1>4

\* A byte is known by its bits.
LEMMA BitsOfByte ==
    ASSUME NEW a \in 0..255, NEW b \in 0..255
    PROVE  SetBits(a) = SetBits(b) <=> a = b
<1> SUFFICES ASSUME SetBits(a) = SetBits(b) PROVE a = b
  OBVIOUS
<1>1. \A i \in 0..7 : (a \div 2^i) % 2 = 1 <=> (b \div 2^i) % 2 = 1
  <2>1. \A i \in 0..7 : i \in SetBits(a) <=> i \in SetBits(b)
    OBVIOUS
  <2> QED BY <2>1 DEF SetBits
<1>2. \A k \in 0..7 : BitAt(a, k) \in {0, 1} /\ BitAt(b, k) \in {0, 1}
  <2>1. \A k \in 0..7 : k \in {0, 1, 2, 3, 4, 5, 6, 7}
    OBVIOUS
  <2>2. \A k \in {0, 1, 2, 3, 4, 5, 6, 7} : BitAt(a, k) \in {0, 1}
    BY ByteBits
  <2>3. \A k \in {0, 1, 2, 3, 4, 5, 6, 7} : BitAt(b, k) \in {0, 1}
    BY ByteBits
  <2> QED BY <2>1, <2>2, <2>3, Zenon
<1>3. \A k \in 0..7 : BitAt(a, k) = BitAt(b, k)
  <2> SUFFICES ASSUME NEW k \in 0..7 PROVE BitAt(a, k) = BitAt(b, k)
    OBVIOUS
  <2>1. 7 - k \in 0..7
    OBVIOUS
  <2>2. BitAt(a, k) = 1 <=> BitAt(b, k) = 1
    BY <1>1, <2>1 DEF BitAt
  <2> QED BY <1>2, <2>2
<1>4. Masked(a, 8) = Masked(b, 8)
  <2>1. PICK ones \in 0..8 : ones = 8
    OBVIOUS
  <2>2. Masked(a, ones) = Masked(b, ones)
    BY <1>3, MaskedBits
  <2> QED BY <2>1, <2>2
<1>5. Masked(a, 8) = a - (a % 1) /\ Masked(b, 8) = b - (b % 1)
  BY Powers DEF Masked
<1>6. a - (a % 1) = a /\ b - (b % 1) = b
  OBVIOUS
<1> QED BY <1>4, <1>5, <1>6

-----------------------------------------------------------------------------
(* What a filter lets through.                                             *)

LEMMA FamilyFacts ==
    ASSUME NEW n \in {4, 16}, NEW a \in Family(n)
    PROVE  a \in Seq(0..255) /\ Len(a) = n /\ \A i \in 1..n : a[i] \in 0..255
<1>1. n \in Nat /\ a \in [1..n -> 0..255]
  BY DEF Family
<1>2. a \in Seq(0..255)
  BY <1>1, SeqDef
<1>3. DOMAIN a = 1..n /\ Len(a) \in Nat /\ DOMAIN a = 1..Len(a)
  BY <1>1, <1>2, LenProperties
<1>4. Len(a) = n
  BY <1>1, <1>3
<1> QED BY <1>1, <1>2, <1>4

\* fp_addr(): the mask has a one for each bit of the prefix.
LEMMA MaskOnes ==
    ASSUME NEW n \in 0..128, NEW j \in 1..16
    PROVE  /\ Mask(n)[j] \in 0..8
           /\ \A k \in 0..7 : k < Mask(n)[j] <=> 8 * (j - 1) + k < n
<1>1. PICK q \in Nat, r \in 0..7 : q = n \div 8 /\ r = n % 8 /\ n = 8 * q + r
  <2>1. n \div 8 \in Nat /\ n % 8 \in 0..7 /\ n = 8 * (n \div 8) + (n % 8)
    OBVIOUS
  <2> QED BY <2>1
<1>2. Mask(n)[j] = IF j <= q THEN 8 ELSE IF j = q + 1 THEN r ELSE 0
  BY <1>1 DEF Mask
<1>3. CASE j <= q
  BY <1>1, <1>2, <1>3
<1>4. CASE j = q + 1
  BY <1>1, <1>2, <1>4
<1>5. CASE j > q + 1
  BY <1>1, <1>2, <1>5
<1> QED BY <1>3, <1>4, <1>5

\* fa_addr() compares the bits of the prefix and no others.
LEMMA PrefixCompared ==
    ASSUME NEW len \in {4, 16}, NEW a \in Family(len), NEW b \in Family(len), NEW n \in 0..128
    PROVE  (\A i \in 1..len : Masked(a[i], Mask(n)[i]) = Masked(b[i], Mask(n)[i]))
              <=> StartsWith(a, b, n)
<1> DEFINE Same(j, k) == 8 * (j - 1) + k < n => BitAt(a[j], k) = BitAt(b[j], k)
<1>1. /\ Len(a) = len /\ len \in Nat /\ len <= 16
      /\ \A i \in 1..len : a[i] \in 0..255 /\ b[i] \in 0..255
  <2>1. Len(a) = len /\ \A i \in 1..len : a[i] \in 0..255
    BY FamilyFacts
  <2>2. \A i \in 1..len : b[i] \in 0..255
    BY FamilyFacts
  <2>3. len \in Nat /\ len <= 16
    OBVIOUS
  <2> QED BY <2>1, <2>2, <2>3
<1>2. ASSUME NEW j \in 1..len
      PROVE  Masked(a[j], Mask(n)[j]) = Masked(b[j], Mask(n)[j]) <=> \A k \in 0..7 : Same(j, k)
  <2>1. j \in 1..16
    BY <1>1
  <2>2. PICK ones \in 0..8 : ones = Mask(n)[j] /\ \A k \in 0..7 : k < ones <=> 8 * (j - 1) + k < n
    BY <2>1, MaskOnes
  <2>3. PICK x \in 0..255, z \in 0..255 : x = a[j] /\ z = b[j]
    BY <1>1
  <2>4. Masked(x, ones) = Masked(z, ones) <=> \A k \in 0..7 : k < ones => BitAt(x, k) = BitAt(z, k)
    BY MaskedBits
  <2> QED BY <2>2, <2>3, <2>4
<1>3. \A i : BitOf(a, i) = BitAt(a[(i \div 8) + 1], i % 8) /\ BitOf(b, i) = BitAt(b[(i \div 8) + 1], i % 8)
  BY DEF BitOf, BitAt
<1>4. ASSUME NEW i \in 0..(8 * len - 1)
      PROVE  \E j \in 1..len, k \in 0..7 : j = (i \div 8) + 1 /\ k = i % 8 /\ i = 8 * (j - 1) + k
  <2>1. i \div 8 \in Nat /\ i % 8 \in 0..7 /\ i = 8 * (i \div 8) + (i % 8)
    OBVIOUS
  <2>2. (i \div 8) + 1 \in 1..len
    BY <1>1, <2>1
  <2>3. i = 8 * (((i \div 8) + 1) - 1) + (i % 8)
    BY <2>1
  <2> QED BY <2>1, <2>2, <2>3
<1>5. ASSUME NEW j \in 1..len, NEW k \in 0..7
      PROVE  \E i \in 0..(8 * len - 1) :
                i = 8 * (j - 1) + k /\ (i \div 8) + 1 = j /\ i % 8 = k
  <2>1. PICK i \in 0..(8 * len - 1) : i = 8 * (j - 1) + k
    BY <1>1
  <2>2. i \div 8 = j - 1 /\ i % 8 = k
    BY <2>1
  <2> QED BY <2>1, <2>2
<1>6. StartsWith(a, b, n) <=> \A j \in 1..len : \A k \in 0..7 : Same(j, k)
  <2>1. StartsWith(a, b, n) <=> \A i \in 0..(8 * len - 1) :
                                   i < n => BitAt(a[(i \div 8) + 1], i % 8) = BitAt(b[(i \div 8) + 1], i % 8)
    BY <1>1, <1>3 DEF StartsWith
  <2>2. ASSUME StartsWith(a, b, n), NEW j \in 1..len, NEW k \in 0..7 PROVE Same(j, k)
    BY <1>5, <2>1, <2>2
  <2>3. ASSUME \A j \in 1..len : \A k \in 0..7 : Same(j, k), NEW i \in 0..(8 * len - 1), i < n
        PROVE  BitAt(a[(i \div 8) + 1], i % 8) = BitAt(b[(i \div 8) + 1], i % 8)
    <3>1. PICK j \in 1..len, k \in 0..7 : j = (i \div 8) + 1 /\ k = i % 8 /\ i = 8 * (j - 1) + k
      BY <1>4
    <3>2. Same(j, k)
      BY <2>3
    <3> QED BY <2>3, <3>1, <3>2
  <2> QED BY <2>1, <2>2, <2>3
<1> HIDE DEF Same
<1> QED BY <1>2, <1>6

\* strstr() finds the strings that are part of another one.
LEMMA PartsFound ==
    ASSUME NEW C, NEW s \in Seq(C), NEW t \in Seq(C), t # <<>>
    PROVE  Occurs(t, s) <=> t \in Substrings(s)
<1>1. PICK n \in Nat, m \in Nat : n = Len(s) /\ m = Len(t) /\ m > 0
  <2>1. Len(t) \in Nat /\ Len(t) # 0
    BY LenProperties, EmptySeq
  <2> QED BY <2>1, LenProperties
<1>2. Occurs(t, s) <=> \E i \in 0..n - m : SubSeq(s, i + 1, i + m) = t
  BY <1>1 DEF Occurs
<1>3. t \in Substrings(s) <=> \E i \in 1..n, j \in 0..n : SubSeq(s, i, j) = t
  BY <1>1 DEF Substrings
<1>4. ASSUME NEW i \in 0..n - m, SubSeq(s, i + 1, i + m) = t PROVE t \in Substrings(s)
  <2>1. i + 1 \in 1..n /\ i + m \in 0..n
    BY <1>1
  <2> QED BY <1>3, <1>4, <2>1
<1>5. ASSUME NEW i \in 1..n, NEW j \in 0..n, SubSeq(s, i, j) = t
      PROVE  \E h \in 0..n - m : SubSeq(s, h + 1, h + m) = t
  <2>1. /\ i <= j => Len(SubSeq(s, i, j)) = j - i + 1
        /\ i > j => Len(SubSeq(s, i, j)) = 0
    BY <1>1, SubSeqProperties
  <2>2. i <= j /\ j - i + 1 = m
    BY <1>1, <1>5, <2>1
  <2>3. PICK h \in 0..n - m : h = i - 1 /\ h + 1 = i /\ h + m = j
    BY <1>1, <2>2
  <2> QED BY <1>5, <2>3
<1> QED BY <1>2, <1>3, <1>4, <1>5

-----------------------------------------------------------------------------
(* Rows.                                                                   *)

\* A filter of another field is one a line dialog has made.
FilterInv == filter_on /\ field \notin Named => filter[1] \in Typed[field]

LEMMA KeepsFilter == IInv /\ FilterInv /\ [Next]_vars => FilterInv'
<1> SUFFICES ASSUME IInv, FilterInv, [Next]_vars PROVE FilterInv'
  OBVIOUS
<1>1. field' = field
  BY DEF Next, vars, Open, KeyDown, KeyUp, Space, Accept, AcceptNoMemory, Leave, Type, FilterOff
<1>2. CASE Type
  <2>1. PICK flt \in Typed[field] : filter' = <<flt>>
    BY <1>2 DEF Type
  <2>2. filter'[1] = flt
    BY <2>1
  <2> QED BY <1>1, <2>2 DEF FilterInv
<1>3. CASE Accept
  BY <1>1, <1>3 DEF IInv, DialogInv, Accept, FilterInv
<1>4. CASE Leave
  BY <1>1, <1>4 DEF IInv, DialogInv, Leave, FilterInv
<1>5. CASE FilterOff
  BY <1>5 DEF FilterOff, FilterInv
<1>6. CASE UNCHANGED <<filter, filter_on>>
  BY <1>1, <1>6 DEF FilterInv
<1> QED BY <1>2, <1>3, <1>4, <1>5, <1>6
        DEF Next, vars, Open, KeyDown, KeyUp, Space, AcceptNoMemory

\* The kinds of fields exclude each other.
LEMMA Kinds ==
    /\ Masks \subseteq Named /\ Booleans \subseteq Named \ Masks /\ "shutdown" \in Named \ Masks
    /\ \A f \in Strings : f \notin Named \cup Numbers \cup AddressFields
    /\ \A f \in AddressFields : f \notin Named \cup Numbers \cup Strings
    /\ \A f \in Numbers : f \notin Named \cup Strings \cup AddressFields
    /\ \A f \in Named : f \notin Numbers \cup Strings \cup AddressFields
BY DEF Masks, Named, Numbers, Strings, AddressFields, Booleans, Names, TypeBit, ReadPast

LEMMA ByteData ==
    ASSUME NEW f \in Fields \ (Strings \cup AddressFields), f \notin ReadPast \cup {"sport", "bw"},
           NEW d \in Data[f]
    PROVE  /\ f \in Bytewise /\ d \in 0..255 /\ (f = "shutdown" => d \in 0..3)
           /\ f = "ipv6only" => d \in {0, 1}
<1>1. f \in AllFields /\ d \in Values(f)
  BY ListDialogAssumption
<1>2. Values(f) \subseteq 0..255
  BY DEF Values
<1> QED BY <1>1, <1>2 DEF Values, Bytewise

\* The value read for a row, an order or a filter is the same.
LEMMA ReadAlike ==
    ASSUME NEW f \in Fields \ (Strings \cup AddressFields), NEW d \in Data[f]
    PROVE  /\ Read(Layout(SortBits, f), d) = Read(Layout(DrawBits, f), d)
           /\ f \notin ReadPast => Read(Layout(FilterBits, f), d) = Read(Layout(DrawBits, f), d)
           /\ f \in Named => Read(Layout(DrawBits, f), d) \in 0..255
           /\ f \in Booleans => Read(Layout(DrawBits, f), d) \in {0, 1}
<1>1. f \in AllFields
  BY ListDialogAssumption
<1>2. CASE f = "shutdown"
  <2>0. f \notin ReadPast \cup {"sport", "bw"}
    BY <1>2 DEF ReadPast
  <2>1. d \in 0..3 /\ d \in 0..255
    BY <1>2, <2>0, ByteData
  <2>2. f \notin Booleans
    BY <1>2 DEF Booleans, TypeBit, ReadPast
  <2> QED BY <1>2, <2>1, <2>2, Shutdown
<1>3. CASE f \in ReadPast
  <2>1. f # "shutdown"
    BY <1>3 DEF ReadPast
  <2>2. Layout(SortBits, f) = Layout(DrawBits, f)
    BY <1>1, <2>1, OneLayout
  <2>3. d \in {0, 1} /\ Read(Layout(DrawBits, f), d) = d
    <3>1. d \in Values(f) /\ f \notin {"sport", "bw"} /\ f \notin Strings
      BY <1>3, ListDialogAssumption DEF ReadPast
    <3>2. Values(f) = {0, 1}
      BY <1>3, <2>1, <3>1 DEF Values
    <3> QED BY <1>3, <3>1, <3>2, WholeWord
  <2>4. \A x \in {0, 1} : x \in 0..255
    OBVIOUS
  <2> QED BY <1>3, <2>2, <2>3, <2>4
<1>4. CASE f \notin ReadPast /\ f # "shutdown"
  <2>1. /\ Layout(SortBits, f) = Layout(DrawBits, f)
        /\ Layout(FilterBits, f) = Layout(DrawBits, f)
    BY <1>1, <1>4, OneLayout
  <2>2. ASSUME f \in Named
        PROVE  /\ Read(Layout(DrawBits, f), d) \in 0..255
               /\ f \in Booleans => Read(Layout(DrawBits, f), d) \in {0, 1}
    <3>1. f \notin ReadPast \cup {"sport", "bw"}
      BY <1>4, <2>2, Kinds DEF Numbers
    <3>2. f \in Bytewise /\ d \in 0..255 /\ (f = "ipv6only" => d \in {0, 1})
      BY <3>1, ByteData
    <3>3. /\ Read(Layout(DrawBits, f), d) \in 0..255
          /\ f \in Booleans \ {"ipv6only"} => Read(Layout(DrawBits, f), d) \in {0, 1}
          /\ f = "ipv6only" => Read(Layout(DrawBits, f), d) = d
      BY <3>2, ByteValue
    <3> QED BY <3>2, <3>3
  <2>3. Booleans \subseteq Named
    BY DEF Named
  <2> QED BY <2>1, <2>2, <2>3
<1> QED BY <1>2, <1>3, <1>4

\* The name a value has, if it has one.
LEMMA NameShown ==
    ASSUME NEW f \in Fields \cap (Named \ Masks), NEW d \in Data[f]
    PROVE  LET v == Read(Layout(DrawBits, f), d) IN
           /\ v \in 0..255
           /\ Shown(f, d) = v \/ (Shown(f, d) = -1 /\ v \notin Listed(f))
<1>1. f \notin Strings \cup AddressFields \cup Numbers \cup Masks
  BY Kinds
<1>2. PICK v \in 0..255 : v = Read(Layout(DrawBits, f), d) /\ (f \in Booleans => v \in {0, 1})
  BY <1>1, ReadAlike
<1>3. CASE f \in Booleans
  <2>1. Shown(f, d) = IF v = 0 THEN 0 ELSE 1
    BY <1>1, <1>2, <1>3 DEF Shown
  <2> QED BY <1>2, <1>3, <2>1
<1>4. CASE f \notin Booleans /\ f = "shutdown"
  <2>1. Shown(f, d) = v
    BY <1>1, <1>2, <1>4 DEF Shown
  <2> QED BY <1>2, <2>1
<1>5. CASE f \notin Booleans /\ f # "shutdown"
  <2>1. Shown(f, d) = IF v \in Listed(f) THEN v ELSE -1
    BY <1>1, <1>2, <1>5 DEF Shown
  <2> QED BY <1>2, <2>1
<1> QED BY <1>3, <1>4, <1>5

\* What the three functions do with a value of each kind.
LEMMA OfKind ==
    ASSUME NEW f, NEW flt, NEW d
    PROVE  /\ f \in Strings => Shown(f, d) = d /\ (Apply(f, flt, d) <=> ApplyString(flt, d))
           /\ f \in AddressFields =>
                 Shown(f, d) = d /\ (Apply(f, flt, d) <=> ApplyAddress(flt, d))
           /\ f \in Numbers =>
                 /\ Shown(f, d) = Read(Layout(DrawBits, f), d)
                 /\ Apply(f, flt, d)
                       <=> HoldsFor(flt.op, Read(Layout(FilterBits, f), d), flt.val)
           /\ f \in Masks =>
                 /\ Shown(f, d) = SetBits(Read(Layout(DrawBits, f), d))
                 /\ Apply(f, flt, d)
                       <=> flt.val = SetBits(Read(Layout(FilterBits, f), d))
           /\ f \in Named \ Masks =>
                 (Apply(f, flt, d) <=> Read(Layout(FilterBits, f), d) \in flt.val)
<1>1. CASE f \in Strings
  <2>1. f \notin Named \cup Numbers \cup AddressFields \cup Masks \cup Booleans /\ f # "shutdown"
    BY <1>1, Kinds
  <2>2. Shown(f, d) = d
    BY <1>1, <2>1 DEF Shown
  <2>3. Apply(f, flt, d) <=> ApplyString(flt, d)
    BY <1>1, <2>1 DEF Apply
  <2> QED BY <1>1, <2>1, <2>2, <2>3
<1>2. CASE f \in AddressFields
  <2>1. f \notin Named \cup Numbers \cup Strings \cup Masks \cup Booleans /\ f # "shutdown"
    BY <1>2, Kinds
  <2>2. Shown(f, d) = d
    BY <1>2, <2>1 DEF Shown
  <2>3. Apply(f, flt, d) <=> ApplyAddress(flt, d)
    BY <1>2, <2>1 DEF Apply
  <2> QED BY <1>2, <2>1, <2>2, <2>3
<1>3. CASE f \in Numbers
  <2>1. f \notin Named \cup AddressFields \cup Strings \cup Masks \cup Booleans /\ f # "shutdown"
    BY <1>3, Kinds
  <2>2. Shown(f, d) = Read(Layout(DrawBits, f), d)
    BY <1>3, <2>1 DEF Shown
  <2>3. Apply(f, flt, d) <=> HoldsFor(flt.op, Read(Layout(FilterBits, f), d), flt.val)
    BY <1>3, <2>1 DEF Apply
  <2> QED BY <1>3, <2>1, <2>2, <2>3
<1>4. CASE f \in Masks
  <2>1. f \notin Numbers \cup AddressFields \cup Strings \cup Booleans /\ f # "shutdown"
    BY <1>4, Kinds
  <2>2. Shown(f, d) = SetBits(Read(Layout(DrawBits, f), d))
    BY <1>4, <2>1 DEF Shown
  <2>3. Apply(f, flt, d) <=> flt.val = SetBits(Read(Layout(FilterBits, f), d))
    BY <1>4, <2>1 DEF Apply
  <2> QED BY <1>4, <2>1, <2>2, <2>3
<1>5. CASE f \in Named \ Masks
  <2>1. f \notin Numbers \cup AddressFields \cup Strings \cup Masks
    BY <1>5, Kinds
  <2> QED BY <1>5, <2>1 DEF Shown, Apply
<1> QED BY <1>1, <1>2, <1>3, <1>4, <1>5

LEMMA RowMeaning ==
    ASSUME IInv, FilterInv, filter_on, field \notin ReadPast, NEW d \in Data[field]
    PROVE  Apply(field, filter[1], d) <=> Wanted(filter[1], d)
<1>0. PICK flt : flt = filter[1]
  OBVIOUS
<1>1. PICK f \in Fields : f = field /\ flt = filter[1] /\ (f \notin Named => flt \in Typed[f])
  BY <1>0 DEF IInv, TypeOK, FilterInv
<1>2. f \in Named => flt.val = chosen /\ chosen \subseteq Listed(f)
  <2> SUFFICES ASSUME f \in Named PROVE flt.val = chosen /\ chosen \subseteq Listed(f)
    OBVIOUS
  <2>1. pc = "keys"
    BY <1>1 DEF IInv, TypeOK, StarsInv
  <2> QED BY <1>1, <2>1 DEF IInv, TypeOK, StarsInv
<1>3. PICK text : text = Shown(f, d)
  OBVIOUS
<1>4. f \in AllFields
  BY ListDialogAssumption
<1>5. CASE f \in Strings
  <2>1. (Apply(f, flt, d) <=> ApplyString(flt, d)) /\ text = d
    BY <1>3, <1>5, OfKind
  <2>0. f \notin Named \cup Numbers \cup Masks \cup AddressFields
    BY <1>5, Kinds
  <2>2. d \in Seq(Chars) /\ flt.val \in Seq(Chars) /\ flt.val # <<>>
    <3>1. Values(f) = Seq(Chars) /\ f \notin AddressFields
      BY <1>5, Kinds DEF Values, Strings, ReadPast
    <3> QED BY <1>1, <1>5, <2>0, <3>1, ListDialogAssumption
  <2>3. Occurs(flt.val, d) <=> flt.val \in Substrings(d)
    BY <2>2, PartsFound
  <2>4. Wanted(flt, d) <=> \/ flt.op = "EQ" /\ text = flt.val
                           \/ flt.op = "CT" /\ flt.val \in Substrings(text)
                           \/ flt.op = "NC" /\ flt.val \notin Substrings(text)
    BY <1>1, <1>3, <1>5, <2>0 DEF Wanted
  <2>5. ApplyString(flt, d) <=> \/ flt.op = "EQ" /\ d = flt.val
                                \/ flt.op = "CT" /\ Occurs(flt.val, d)
                                \/ flt.op = "NC" /\ ~Occurs(flt.val, d)
    BY DEF ApplyString
  <2> QED BY <1>1, <2>1, <2>3, <2>4, <2>5
<1>6. CASE f \in AddressFields
  <2>1. (Apply(f, flt, d) <=> ApplyAddress(flt, d)) /\ text = d
    BY <1>3, <1>6, OfKind
  <2>0. f \notin Named \cup Numbers \cup Masks \cup Strings
    BY <1>6, Kinds
  <2>2. PICK len \in {4, 16}, ven \in {4, 16} :
           d \in Family(len) /\ flt.val[1] \in Family(ven) /\ flt.val[2] \in 0..128
    BY <1>1, <1>6, <2>0, ListDialogAssumption
  <2>3. PICK a \in Family(ven), n \in 0..128 : a = flt.val[1] /\ n = flt.val[2]
    BY <2>2
  <2>4. Len(d) = len /\ Len(a) = ven
    BY <2>2, FamilyFacts
  <2>5. Wanted(flt, d) <=> (flt.op = "NE") # (len = ven /\ StartsWith(d, a, n))
    <3>1. Wanted(flt, d) <=> (flt.op = "NE") # (/\ Len(text) = Len(flt.val[1])
                                                /\ StartsWith(text, flt.val[1], flt.val[2]))
      BY <1>1, <1>3, <1>6, <2>0, Zenon DEF Wanted
    <3> QED BY <2>1, <2>3, <2>4, <3>1
  <2>6. ApplyAddress(flt, d) <=>
           (flt.op = "NE") # (len = ven /\ \A i \in 1..len :
                                 Masked(d[i], Mask(n)[i]) = Masked(a[i], Mask(n)[i]))
    BY <2>3, <2>4 DEF ApplyAddress
  <2>7. len = ven => ((\A i \in 1..len : Masked(d[i], Mask(n)[i]) = Masked(a[i], Mask(n)[i]))
                         <=> StartsWith(d, a, n))
    <3> DEFINE Same(l, g, h, m) ==
                  \A i \in 1..l : Masked(g[i], Mask(m)[i]) = Masked(h[i], Mask(m)[i])
    <3>1. \A l \in {4, 16} : \A g, h \in Family(l) : \A m \in 0..128 :
             Same(l, g, h, m) <=> StartsWith(g, h, m)
      BY PrefixCompared
    <3> HIDE DEF Same
    <3>2. len = ven => (Same(len, d, a, n) <=> StartsWith(d, a, n))
      BY <2>2, <3>1
    <3> QED BY <3>2 DEF Same
  <2> QED BY <1>1, <2>1, <2>5, <2>6, <2>7
<1>7. CASE f \in Numbers
  <2>1. f \notin Named \cup Masks \cup Strings \cup AddressFields
    BY <1>7, Kinds
  <2>2. /\ Apply(f, flt, d) <=> HoldsFor(flt.op, Read(Layout(FilterBits, f), d), flt.val)
        /\ text = Read(Layout(DrawBits, f), d)
    BY <1>3, <1>7, OfKind
  <2>3. Read(Layout(FilterBits, f), d) = text
    BY <1>1, <2>1, <2>2, ReadAlike
  <2>4. Wanted(flt, d) = HoldsFor(flt.op, text, flt.val)
    BY <1>1, <1>3, <1>7, <2>1 DEF Wanted
  <2> QED BY <1>1, <2>2, <2>3, <2>4
<1>8. CASE f \in Masks
  <2>1. f \in Named /\ f \notin Numbers \cup Strings \cup AddressFields
    BY <1>8, Kinds
  <2>2. /\ Apply(f, flt, d) <=> flt.val = SetBits(Read(Layout(FilterBits, f), d))
        /\ text = SetBits(Read(Layout(DrawBits, f), d))
    BY <1>3, <1>8, OfKind
  <2>3. SetBits(Read(Layout(FilterBits, f), d)) = text
    BY <1>1, <2>1, <2>2, ReadAlike
  <2>4. Wanted(flt, d) <=> text = chosen
    BY <1>1, <1>3, <1>8, <2>1 DEF Wanted
  <2> QED BY <1>1, <1>2, <2>1, <2>2, <2>3, <2>4
<1>9. CASE f \in Named \ Masks
  <2>1. f \notin Masks /\ f \notin Numbers \cup Strings \cup AddressFields
    BY <1>9, Kinds
  <2>2. Apply(f, flt, d) <=> Read(Layout(FilterBits, f), d) \in flt.val
    BY <1>9, OfKind
  <2>3. PICK v \in 0..255 : /\ v = Read(Layout(DrawBits, f), d)
                            /\ text = v \/ (text = -1 /\ v \notin Listed(f))
    BY <1>1, <1>3, <1>9, NameShown
  <2>4. Read(Layout(FilterBits, f), d) = v
    BY <1>1, <2>1, <2>3, ReadAlike
  <2>5. Wanted(flt, d) = (text \in chosen)
    BY <1>1, <1>3, <1>9, <2>1 DEF Wanted
  <2>6. -1 \notin Listed(f)
    <3>1. PICK s \in 0..1, e \in 1..11 : s = Start[f] /\ e = End[f]
      BY <1>9, Lists
    <3>2. -1 \notin s..e
      OBVIOUS
    <3> QED BY <3>1, <3>2 DEF Listed
  <2>7. text \in chosen <=> v \in chosen
    BY <1>2, <1>9, <2>3, <2>6
  <2> QED BY <1>1, <1>2, <1>9, <2>2, <2>4, <2>5, <2>7
<1> QED BY <1>4, <1>5, <1>6, <1>7, <1>8, <1>9 DEF AllFields

-----------------------------------------------------------------------------
(* Orders.                                                                 *)

\* What stands at a place, 0 behind the end.
Char(s, j) == IF j \in 1..Len(s) THEN s[j] ELSE 0

\* s is greater than t where they first differ.
Beyond(s, t) ==
    \E k \in Nat \ {0} : /\ Char(s, k) > Char(t, k)
                         /\ \A m \in 1..k - 1 : Char(s, m) = Char(t, m)

Ordered(c, s, t) ==
    \/ c = 0 /\ s = t
    \/ c = 1 /\ Beyond(s, t)
    \/ c = -1 /\ Beyond(t, s)

\* The bytes of addresses and the characters of strings, signed or not.
Texts == Seq(-128..255)

LEMMA InTexts ==
    ASSUME NEW C, \A c \in C : c \in -128..255, NEW x \in Seq(C)
    PROVE  x \in Texts
<1>1. PICK n \in Nat : n = Len(x) /\ DOMAIN x = 1..n /\ x \in [1..n -> C]
  BY SeqDef, LenProperties
<1>2. PICK R : R = -128..255
  OBVIOUS
<1>3. x \in [1..n -> R]
  BY <1>1, <1>2
<1>4. x \in Seq(R)
  BY <1>3, SeqDef
<1> QED BY <1>2, <1>4 DEF Texts

LEMMA CharIs == \A s \in Texts : \A j : Char(s, j) \in -128..255
<1> SUFFICES ASSUME NEW s \in Texts, NEW j PROVE Char(s, j) \in -128..255
  OBVIOUS
<1>1. ASSUME j \in 1..Len(s) PROVE s[j] \in -128..255
  BY <1>1, ElementOfSeq DEF Texts
<1> QED BY <1>1 DEF Char

LEMMA BeyondOnce ==
    ASSUME NEW s \in Texts, NEW t \in Texts, Beyond(s, t)
    PROVE  ~Beyond(t, s)
<1> SUFFICES ASSUME Beyond(t, s) PROVE FALSE
  OBVIOUS
<1>1. PICK k \in Nat \ {0} : Char(s, k) > Char(t, k) /\ \A m \in 1..k - 1 : Char(s, m) = Char(t, m)
  BY DEF Beyond
<1>2. PICK h \in Nat \ {0} : Char(t, h) > Char(s, h) /\ \A m \in 1..h - 1 : Char(t, m) = Char(s, m)
  BY DEF Beyond
<1>3. PICK a \in -128..255, b \in -128..255, c \in -128..255, d \in -128..255 :
         a = Char(s, k) /\ b = Char(t, k) /\ c = Char(s, h) /\ d = Char(t, h)
  BY CharIs
<1>4. k < h => k \in 1..h - 1
  OBVIOUS
<1>5. h < k => h \in 1..k - 1
  OBVIOUS
<1>6. k = h => a = c /\ b = d
  BY <1>3
<1>7. a > b /\ d > c /\ (k < h => a = b) /\ (h < k => c = d)
  BY <1>1, <1>2, <1>3, <1>4, <1>5
<1> QED BY <1>6, <1>7

LEMMA BeyondFurther ==
    ASSUME NEW s \in Texts, NEW t \in Texts, NEW u \in Texts, Beyond(s, t), Beyond(t, u)
    PROVE  Beyond(s, u)
<1>1. PICK k \in Nat \ {0} : Char(s, k) > Char(t, k) /\ \A m \in 1..k - 1 : Char(s, m) = Char(t, m)
  BY DEF Beyond
<1>2. PICK h \in Nat \ {0} : Char(t, h) > Char(u, h) /\ \A m \in 1..h - 1 : Char(t, m) = Char(u, m)
  BY DEF Beyond
<1>3. PICK j \in Nat \ {0} : j = IF k < h THEN k ELSE h
  OBVIOUS
<1>4. j <= k /\ j <= h /\ (j = k \/ j = h)
  BY <1>3
<1>5. \A m \in 1..j - 1 : Char(s, m) = Char(u, m)
  <2>1. \A m \in 1..j - 1 : m \in 1..k - 1 /\ m \in 1..h - 1
    BY <1>4
  <2> QED BY <1>1, <1>2, <2>1
<1>6. PICK a \in -128..255, b \in -128..255, c \in -128..255 : a = Char(s, j) /\ b = Char(t, j) /\ c = Char(u, j)
  BY CharIs
<1>7. (j = k => a > b) /\ (j < k => a = b)
  <2>1. j < k => j \in 1..k - 1
    OBVIOUS
  <2> QED BY <1>1, <1>6, <2>1
<1>8. (j = h => b > c) /\ (j < h => b = c)
  <2>1. j < h => j \in 1..h - 1
    OBVIOUS
  <2> QED BY <1>2, <1>6, <2>1
<1>9. a > c
  BY <1>4, <1>7, <1>8
<1> QED BY <1>5, <1>6, <1>9 DEF Beyond

\* Comparing by Ordered is one order.
LEMMA OneOrder ==
    ASSUME NEW s \in Texts, NEW t \in Texts, NEW u \in Texts,
           NEW st, NEW ts, NEW tu, NEW su,
           Ordered(st, s, t), Ordered(ts, t, s), Ordered(tu, t, u), Ordered(su, s, u)
    PROVE  /\ st = 0 <=> s = t
           /\ st = -ts
           /\ st >= 0 /\ tu >= 0 => su >= 0
<1>1. \A x \in Texts : ~Beyond(x, x)
  BY BeyondOnce
<1>2. st = 0 <=> s = t
  BY <1>1 DEF Ordered
<1>3. st = -ts
  <2>1. /\ s = t => st = 0 /\ ts = 0
        /\ Beyond(s, t) => st = 1 /\ ts = -1
        /\ Beyond(t, s) => st = -1 /\ ts = 1
    BY <1>1, BeyondOnce DEF Ordered
  <2> QED BY <2>1 DEF Ordered
<1>4. ASSUME st >= 0, tu >= 0 PROVE su >= 0
  <2>1. (s = t \/ Beyond(s, t)) /\ (t = u \/ Beyond(t, u))
    BY <1>4 DEF Ordered
  <2>2. s = u \/ Beyond(s, u)
    BY <2>1, BeyondFurther
  <2>3. su # -1
    BY <1>1, <2>2, BeyondOnce DEF Ordered
  <2> QED BY <2>3 DEF Ordered
<1> QED BY <1>2, <1>3, <1>4

\* The sign of two characters where two sequences first differ.
LEMMA SignOrders ==
    ASSUME NEW s \in Texts, NEW t \in Texts, NEW k \in Nat \ {0},
           \A m \in 1..k - 1 : Char(s, m) = Char(t, m), Char(s, k) # Char(t, k)
    PROVE  Ordered(SignOf(Char(s, k), Char(t, k)), s, t)
<1>1. PICK a \in -128..255, b \in -128..255 : a = Char(s, k) /\ b = Char(t, k)
  BY CharIs
<1>2. CASE a > b
  <2>1. SignOf(a, b) = 1
    BY <1>2 DEF SignOf, Sign
  <2>2. Beyond(s, t)
    BY <1>1, <1>2 DEF Beyond
  <2> QED BY <1>1, <2>1, <2>2 DEF Ordered
<1>3. CASE a < b
  <2>1. SignOf(a, b) = -1
    BY <1>3 DEF SignOf, Sign
  <2>2. Beyond(t, s)
    BY <1>1, <1>3 DEF Beyond
  <2> QED BY <1>1, <2>1, <2>2 DEF Ordered
<1> QED BY <1>1, <1>2, <1>3

\* A string ends where its first zero stands.
LEMMA StringChar ==
    ASSUME NEW x \in Seq(Chars), NEW j \in Nat \ {0}
    PROVE  /\ (IF j <= Len(x) THEN x[j] ELSE 0) = Char(x, j)
           /\ Char(x, j) = 0 <=> j > Len(x)
<1>1. PICK n \in Nat : n = Len(x) /\ (j \in 1..Len(x) <=> j <= n)
  BY LenProperties
<1>2. CASE j <= n
  <2>1. x[j] \in Chars
    BY <1>1, <1>2, ElementOfSeq
  <2>2. PICK c \in Chars : c = x[j]
    BY <2>1
  <2>3. c # 0 /\ ~(j > n)
    BY <1>2 DEF Chars
  <2> QED BY <1>1, <1>2, <2>2, <2>3 DEF Char
<1>3. CASE j > n
  BY <1>1, <1>3 DEF Char
<1> QED BY <1>2, <1>3

\* The loop of sort_common() over two strings.
LEMMA StringsOrdered ==
    ASSUME NEW s \in Seq(Chars), NEW t \in Seq(Chars)
    PROVE  s \in Texts /\ t \in Texts /\ Ordered(CompareStrings(s, t), s, t)
<1> DEFINE At(x, j) == IF j <= Len(x) THEN x[j] ELSE 0
           Stop(n) == /\ At(s, n) = 0 \/ At(t, n) = 0 \/ At(s, n) # At(t, n)
                      /\ \A m \in 1..n - 1 : At(s, m) # 0 /\ At(t, m) # 0 /\ At(s, m) = At(t, m)
           End0(n) == At(s, n) = 0 \/ At(t, n) = 0 \/ At(s, n) # At(t, n)
           S == {n \in 1..Len(s) + 1 : End0(n)}
           k == CHOOSE n \in 1..Len(s) + 1 : Stop(n)
<1>1. s \in Texts /\ t \in Texts
  <2>1. \A c \in Chars : c \in -128..255
    BY DEF Chars
  <2> QED BY <2>1, InTexts
<1>2. /\ Len(s) \in Nat /\ Len(t) \in Nat
      /\ \A j \in 1..Len(s) : s[j] \in Chars
      /\ \A j \in 1..Len(t) : t[j] \in Chars
  BY LenProperties, ElementOfSeq
<1>3. \A j \in Nat \ {0} : /\ At(s, j) = Char(s, j) /\ At(t, j) = Char(t, j)
                           /\ Char(s, j) = 0 <=> j > Len(s)
                           /\ Char(t, j) = 0 <=> j > Len(t)
  BY StringChar
<1>4. Len(s) + 1 \in S
  <2>1. At(s, Len(s) + 1) = 0
    BY <1>2
  <2> QED BY <1>2, <2>1
<1>5. PICK n \in S : \A m \in S : n <= m
  <2>1. S \in SUBSET Nat /\ S # {}
    BY <1>2, <1>4
  <2> HIDE DEF S
  <2> QED BY <2>1, LeastElement
<1>6. Stop(n)
  <2>1. End0(n) /\ n \in 1..Len(s) + 1
    OBVIOUS
  <2>2. ASSUME NEW m \in 1..n - 1 PROVE ~End0(m)
    <3>1. m \in 1..Len(s) + 1 /\ ~(n <= m)
      BY <1>2, <2>1
    <3>2. m \notin S
      BY <1>5, <3>1
    <3> QED BY <3>1, <3>2
  <2> QED BY <2>1, <2>2
<1>7. k \in 1..Len(s) + 1 /\ Stop(k)
  <2>1. n \in 1..Len(s) + 1
    OBVIOUS
  <2> HIDE DEF Stop
  <2> QED BY <1>6, <2>1
<1>8. CompareStrings(s, t) = SignOf(At(s, k), At(t, k))
  BY DEF CompareStrings
<1> HIDE DEF k
<1>9. PICK h \in Nat \ {0} : h = k /\ h <= Len(s) + 1
  BY <1>2, <1>7
<1>10. /\ Char(s, h) = 0 \/ Char(t, h) = 0 \/ Char(s, h) # Char(t, h)
       /\ \A m \in 1..h - 1 : Char(s, m) = Char(t, m) /\ Char(s, m) # 0
       /\ CompareStrings(s, t) = SignOf(Char(s, h), Char(t, h))
  <2>1. \A m \in 1..h - 1 : m \in Nat \ {0}
    OBVIOUS
  <2> QED BY <1>3, <1>7, <1>8, <1>9, <2>1
<1>11. CASE Char(s, h) # Char(t, h)
  BY <1>1, <1>10, <1>11, SignOrders
<1>12. CASE Char(s, h) = Char(t, h)
  <2>1. Char(s, h) = 0 /\ Char(t, h) = 0
    BY <1>10, <1>12
  <2>2. h > Len(s) /\ h > Len(t)
    BY <1>3, <2>1
  <2>3. \A m \in 1..h - 1 : m <= Len(s) /\ m <= Len(t)
    <3>1. \A m \in 1..h - 1 : m \in Nat \ {0} /\ Char(s, m) # 0 /\ Char(t, m) # 0
      BY <1>10
    <3>2. \A m \in 1..h - 1 : ~(m > Len(s)) /\ ~(m > Len(t))
      BY <1>3, <3>1
    <3> QED BY <1>2, <3>2
  <2>4. Len(s) = h - 1 /\ Len(t) = h - 1
    <3>1. h = 1 \/ h - 1 \in 1..h - 1
      OBVIOUS
    <3>2. PICK a \in Nat, b \in Nat : a = Len(s) /\ b = Len(t)
      BY <1>2
    <3>3. h > a /\ h > b /\ (h = 1 \/ (h - 1 <= a /\ h - 1 <= b))
      BY <2>2, <2>3, <3>1, <3>2
    <3> QED BY <3>2, <3>3
  <2>5. \A m \in 1..h - 1 : s[m] = t[m]
    <3>1. \A m \in 1..h - 1 : Char(s, m) = s[m] /\ Char(t, m) = t[m]
      BY <2>4 DEF Char
    <3> QED BY <1>10, <3>1
  <2>6. s = t
    BY <1>2, <2>4, <2>5, SeqEqual
  <2>7. CompareStrings(s, t) = 0
    BY <1>10, <2>1 DEF SignOf, Sign
  <2> QED BY <1>1, <2>6, <2>7 DEF Ordered
<1> QED BY <1>1, <1>11, <1>12

\* sort_address(): a word for each four bytes, and the bytes of a word in order.
Words(n) == IF n = 4 THEN 0..0 ELSE 0..3

LEMMA WordCompared ==
    ASSUME NEW n \in {4, 16}, NEW a \in Family(n), NEW b \in Family(n), NEW w \in Words(n)
    PROVE  LET c == CompareWords(SubSeq(a, 4 * w + 1, 4 * w + 4), SubSeq(b, 4 * w + 1, 4 * w + 4)) IN
           \/ c = 0 /\ \A j \in 1..4 : a[4 * w + j] = b[4 * w + j]
           \/ \E j \in 1..4 : /\ \A i \in 1..j - 1 : a[4 * w + i] = b[4 * w + i]
                              /\ a[4 * w + j] # b[4 * w + j]
                              /\ c = SignOf(a[4 * w + j], b[4 * w + j]) /\ c # 0
<1>1. /\ w \in 0..3 /\ 4 * w + 1 \in Int /\ 4 * w + 4 \in Int
      /\ \A j \in 1..4 : 4 * w + j \in 1..n
      /\ \A i \in 4 * w + 1..4 * w + 4 : i \in 1..n
  BY DEF Words
<1>2. \A i \in 1..n : a[i] \in 0..255 /\ b[i] \in 0..255
  BY FamilyFacts
<1>3. PICK x, z : x = SubSeq(a, 4 * w + 1, 4 * w + 4) /\ z = SubSeq(b, 4 * w + 1, 4 * w + 4)
  OBVIOUS
<1>4. \A j \in 1..4 : x[j] = a[4 * w + j] /\ z[j] = b[4 * w + j]
  <2>1. PICK p \in Int, q \in Int : p = 4 * w + 1 /\ q = 4 * w + 4
    BY <1>1
  <2>2. q - p + 1 = 4 /\ \A i \in p..q : i \in 1..n
    BY <1>1, <2>1
  <2>3. \A j \in 1..q - p + 1 : x[j] = a[p + j - 1]
    <3>1. a \in Seq(0..255) /\ Len(a) = n
      BY FamilyFacts
    <3>2. x = SubSeq(a, p, q) /\ p <= q /\ \A i \in p..q : i \in 1..Len(a)
      BY <1>3, <2>1, <2>2, <3>1
    <3> QED BY <3>1, <3>2, SubSeqProperties
  <2>4. \A j \in 1..q - p + 1 : z[j] = b[p + j - 1]
    <3>1. b \in Seq(0..255) /\ Len(b) = n
      BY FamilyFacts
    <3>2. z = SubSeq(b, p, q) /\ p <= q /\ \A i \in p..q : i \in 1..Len(b)
      BY <1>3, <2>1, <2>2, <3>1
    <3> QED BY <3>1, <3>2, SubSeqProperties
  <2>5. \A j \in 1..4 : p + j - 1 = 4 * w + j
    BY <1>1, <2>1
  <2>6. \A j \in 1..4 : x[j] = a[p + j - 1] /\ z[j] = b[p + j - 1]
    BY <2>2, <2>3, <2>4
  <2> QED BY <2>5, <2>6
<1> DEFINE differ == {i \in 1..4 : x[i] # z[i]}
<1>5. CompareWords(x, z) = IF differ = {} THEN 0 ELSE SignOf(x[Min(differ)], z[Min(differ)])
  BY DEF CompareWords
<1>6. CASE differ = {}
  <2>1. \A j \in 1..4 : x[j] = z[j]
    BY <1>6
  <2> QED BY <1>3, <1>4, <1>5, <1>6, <2>1
<1>7. CASE differ # {}
  <2>1. PICK j \in differ : j = Min(differ) /\ \A i \in differ : j <= i
    <3>1. differ \in SUBSET Nat
      OBVIOUS
    <3> HIDE DEF differ
    <3> QED BY <1>7, <3>1, MinIsLeast
  <2>2. j \in 1..4 /\ x[j] # z[j] /\ \A i \in 1..j - 1 : x[i] = z[i]
    <3>1. \A i \in 1..j - 1 : i \in 1..4 /\ ~(j <= i)
      OBVIOUS
    <3>2. \A i \in 1..j - 1 : i \notin differ
      BY <2>1, <3>1
    <3> QED BY <3>1, <3>2
  <2>3. CompareWords(x, z) = SignOf(x[j], z[j])
    <3>1. j = Min(differ)
      BY <2>1
    <3> HIDE DEF differ
    <3> QED BY <1>5, <1>7, <3>1, Zenon
  <2>4. PICK u \in 0..255, v \in 0..255 : u = x[j] /\ v = z[j]
    <3>1. PICK h \in 1..n : h = 4 * w + j
      BY <1>1, <2>2
    <3>2. x[j] = a[h] /\ z[j] = b[h]
      BY <1>4, <2>2, <3>1
    <3> QED BY <1>2, <3>2
  <2>5. SignOf(u, v) # 0
    BY <2>2, <2>4 DEF SignOf, Sign
  <2>6. \A i \in 1..j - 1 : a[4 * w + i] = b[4 * w + i]
    <3>1. \A i \in 1..j - 1 : i \in 1..4
      BY <2>2
    <3> QED BY <1>4, <2>2, <3>1
  <2>7. x[j] = a[4 * w + j] /\ z[j] = b[4 * w + j]
    BY <1>4, <2>2
  <2>8. CompareWords(x, z) = SignOf(a[4 * w + j], b[4 * w + j]) /\ CompareWords(x, z) # 0
    BY <2>3, <2>4, <2>5, <2>7
  <2> QED BY <1>3, <2>2, <2>6, <2>7, <2>8
<1> QED BY <1>6, <1>7

LEMMA AddressesOrdered ==
    ASSUME NEW n \in {4, 16}, NEW a \in Family(n), NEW b \in Family(n)
    PROVE  a \in Texts /\ b \in Texts /\ Ordered(CompareAddresses(a, b), a, b)
<1> DEFINE signs == [w \in Words(n) |-> CompareWords(SubSeq(a, 4 * w + 1, 4 * w + 4),
                                                     SubSeq(b, 4 * w + 1, 4 * w + 4))]
           differ == {w \in Words(n) : signs[w] # 0}
<1>1. a \in Texts /\ b \in Texts /\ Len(a) = n /\ Len(b) = n
  <2>1. a \in Seq(0..255) /\ Len(a) = n
    BY FamilyFacts
  <2>2. b \in Seq(0..255) /\ Len(b) = n
    BY FamilyFacts
  <2>3. \A c \in 0..255 : c \in -128..255
    OBVIOUS
  <2> QED BY <2>1, <2>2, <2>3, InTexts
<1>2. CompareAddresses(a, b) = IF differ = {} THEN 0 ELSE signs[Min(differ)]
  <2>1. (0..(IF Len(a) = 4 THEN 0 ELSE 3)) = Words(n)
    BY <1>1 DEF Words
  <2> DEFINE Word(addr, i) == SubSeq(addr, 4 * i + 1, 4 * i + 4)
             all == [i \in 0..(IF Len(a) = 4 THEN 0 ELSE 3) |-> CompareWords(Word(a, i), Word(b, i))]
             some == {i \in DOMAIN all : all[i] # 0}
  <2>2. CompareAddresses(a, b) = IF some = {} THEN 0 ELSE all[Min(some)]
    BY Zenon DEF CompareAddresses
  <2>3. all = signs
    BY <2>1, Zenon
  <2>4. DOMAIN signs = Words(n)
    OBVIOUS
  <2>5. some = differ
    <3> HIDE DEF all, signs
    <3> QED BY <2>3, <2>4
  <2> HIDE DEF all, signs, some, differ
  <2> QED BY <2>2, <2>3, <2>5
<1>3. \A w \in Words(n) :
         \/ signs[w] = 0 /\ \A j \in 1..4 : a[4 * w + j] = b[4 * w + j]
         \/ \E j \in 1..4 : /\ \A i \in 1..j - 1 : a[4 * w + i] = b[4 * w + i]
                            /\ a[4 * w + j] # b[4 * w + j]
                            /\ signs[w] = SignOf(a[4 * w + j], b[4 * w + j]) /\ signs[w] # 0
  BY WordCompared
<1> HIDE DEF signs
<1>4. ASSUME NEW p \in 1..n
      PROVE  \E w \in Words(n), j \in 1..4 : p = 4 * w + j
  <2>1. PICK w \in 0..3 : w = (p - 1) \div 4 /\ p - 4 * w \in 1..4
    <3>1. (p - 1) \div 4 \in 0..3 /\ p - 4 * ((p - 1) \div 4) \in 1..4
      OBVIOUS
    <3> QED BY <3>1
  <2>2. PICK j \in 1..4 : j = p - 4 * w /\ p = 4 * w + j
    BY <2>1
  <2>3. w \in Words(n)
    BY <2>2 DEF Words
  <2> QED BY <2>2, <2>3
<1>5. CASE differ = {}
  <2>1. \A w \in Words(n), j \in 1..4 : a[4 * w + j] = b[4 * w + j]
    BY <1>3, <1>5
  <2>2. \A p \in 1..n : a[p] = b[p]
    BY <1>4, <2>1
  <2>3. a = b
    BY <1>1, <2>2, SeqEqual DEF Texts
  <2> QED BY <1>1, <1>2, <1>5, <2>3 DEF Ordered
<1>6. CASE differ # {}
  <2>1. PICK w \in differ : w = Min(differ) /\ \A x \in differ : w <= x
    <3>1. differ \in SUBSET Nat
      BY DEF Words
    <3> HIDE DEF differ
    <3> QED BY <1>6, <3>1, MinIsLeast
  <2>2. w \in Words(n) /\ signs[w] # 0 /\ CompareAddresses(a, b) = signs[w]
    BY <1>2, <1>6, <2>1
  <2>3. PICK j \in 1..4 : /\ \A i \in 1..j - 1 : a[4 * w + i] = b[4 * w + i]
                          /\ a[4 * w + j] # b[4 * w + j]
                          /\ signs[w] = SignOf(a[4 * w + j], b[4 * w + j])
    BY <1>3, <2>2
  <2>4. PICK k \in Nat \ {0} : k = 4 * w + j /\ k \in 1..n
    BY <2>2 DEF Words
  <2>5. ASSUME NEW p \in 1..k - 1 PROVE a[p] = b[p]
    <3>1. p \in 1..n
      BY <2>4
    <3>2. PICK x \in Words(n), i \in 1..4 : p = 4 * x + i
      BY <1>4, <3>1
    <3>3. x < w \/ (x = w /\ i \in 1..j - 1)
      BY <2>2, <2>4, <3>2 DEF Words
    <3>4. CASE x < w
      <4>1. x \notin differ
        BY <2>1, <2>2, <3>2, <3>4 DEF Words
      <4>2. signs[x] = 0
        BY <4>1
      <4> QED BY <1>3, <3>2, <4>2
    <3> QED BY <2>3, <3>2, <3>3, <3>4
  <2>6. \A p \in 1..n : Char(a, p) = a[p] /\ Char(b, p) = b[p]
    BY <1>1 DEF Char
  <2>7. /\ \A m \in 1..k - 1 : Char(a, m) = Char(b, m)
        /\ Char(a, k) = a[k] /\ Char(b, k) = b[k] /\ a[k] # b[k]
    <3>1. \A m \in 1..k - 1 : m \in 1..n
      BY <2>4
    <3> QED BY <2>3, <2>4, <2>5, <2>6, <3>1
  <2>8. Ordered(SignOf(Char(a, k), Char(b, k)), a, b)
    BY <1>1, <2>7, SignOrders
  <2> QED BY <1>1, <2>2, <2>3, <2>4, <2>7, <2>8
<1> QED BY <1>5, <1>6

-----------------------------------------------------------------------------
(* The order of the rows.                                                  *)

\* What one sort_func does with the values of its kind.
LEMMA ComparedBy ==
    ASSUME NEW f, NEW d, NEW e
    PROVE  /\ f \in Strings => Compare(f, d, e) = CompareStrings(d, e)
           /\ f \in AddressFields => Compare(f, d, e) = CompareAddresses(d, e)
           /\ f \notin Strings \cup AddressFields =>
                 Compare(f, d, e) = SignOf(Read(Layout(SortBits, f), d), Read(Layout(SortBits, f), e))
<1>1. f \in AddressFields => f \notin Strings
  BY Kinds
<1>2. ASSUME f \in Strings PROVE Compare(f, d, e) = CompareStrings(d, e)
  <2>1. f \notin AddressFields
    BY <1>1, <1>2
  <2> QED BY <1>2, <2>1 DEF Compare
<1>3. ASSUME f \in AddressFields PROVE Compare(f, d, e) = CompareAddresses(d, e)
  BY <1>1, <1>3 DEF Compare
<1>4. ASSUME f \notin Strings \cup AddressFields
      PROVE  Compare(f, d, e) = SignOf(Read(Layout(SortBits, f), d), Read(Layout(SortBits, f), e))
  BY <1>4 DEF Compare
<1> QED BY <1>2, <1>3, <1>4

\* The signs of three numbers are one order.
LEMMA NumbersOrdered ==
    ASSUME NEW u \in Int, NEW v \in Int, NEW w \in Int
    PROVE  /\ SignOf(u, v) = 0 <=> u = v
           /\ SignOf(u, v) = -SignOf(v, u)
           /\ SignOf(u, v) >= 0 /\ SignOf(v, w) >= 0 => SignOf(u, w) >= 0
<1>1. \A x \in Int, z \in Int : /\ x < z => SignOf(x, z) = -1
                                /\ x > z => SignOf(x, z) = 1
                                /\ x = z => SignOf(x, z) = 0
  BY DEF SignOf, Sign
<1>2. SignOf(u, v) = 0 <=> u = v
  BY <1>1
<1>3. SignOf(u, v) = -SignOf(v, u)
  BY <1>1
<1>4. \A x \in Int, z \in Int : SignOf(x, z) >= 0 <=> x >= z
  BY <1>1
<1>5. SignOf(u, v) >= 0 /\ SignOf(v, w) >= 0 => SignOf(u, w) >= 0
  BY <1>4
<1> QED BY <1>2, <1>3, <1>5

\* One order for the values of a field, in which the values with one text are equal.
OneOrderOf(f) ==
    \A d, e \in Data[f] :
        /\ Compare(f, d, e) = 0 <=> Shown(f, d) = Shown(f, e)
        /\ Compare(f, d, e) = -Compare(f, e, d)
        /\ \A g \in Data[f] : Compare(f, d, e) >= 0 /\ Compare(f, e, g) >= 0
                                 => Compare(f, d, g) >= 0

\* Strings and addresses.
LEMMA TextsOrdered ==
    ASSUME NEW f \in Fields \cap (Strings \cup AddressFields)
    PROVE  OneOrderOf(f)
<1>1. \A d, e \in Data[f] : /\ d \in Texts /\ e \in Texts
                            /\ Ordered(Compare(f, d, e), d, e)
  <2> SUFFICES ASSUME NEW d \in Data[f], NEW e \in Data[f]
               PROVE  d \in Texts /\ e \in Texts /\ Ordered(Compare(f, d, e), d, e)
    OBVIOUS
  <2>1. CASE f \in Strings
    <3>1. Values(f) = Seq(Chars) /\ f \notin AddressFields
      BY <2>1, Kinds DEF Values, Strings, ReadPast
    <3>2. d \in Seq(Chars) /\ e \in Seq(Chars)
      BY <3>1, ListDialogAssumption
    <3> QED BY <2>1, <3>2, ComparedBy, StringsOrdered
  <2>2. CASE f \in AddressFields
    <3>1. PICK n \in {4, 16} : d \in Family(n) /\ e \in Family(n)
      BY <2>2, ListDialogAssumption
    <3>2. Compare(f, d, e) = CompareAddresses(d, e)
      BY <2>2, ComparedBy
    <3> QED BY <3>1, <3>2, AddressesOrdered
  <2> QED BY <2>1, <2>2
<1>2. \A d \in Data[f] : Shown(f, d) = d
  BY OfKind
<1> SUFFICES ASSUME NEW d \in Data[f], NEW e \in Data[f]
             PROVE  /\ Compare(f, d, e) = 0 <=> Shown(f, d) = Shown(f, e)
                    /\ Compare(f, d, e) = -Compare(f, e, d)
                    /\ \A g \in Data[f] : Compare(f, d, e) >= 0 /\ Compare(f, e, g) >= 0
                                             => Compare(f, d, g) >= 0
  BY DEF OneOrderOf
<1>3. ASSUME NEW g \in Data[f]
      PROVE  /\ Compare(f, d, e) = 0 <=> d = e
             /\ Compare(f, d, e) = -Compare(f, e, d)
             /\ Compare(f, d, e) >= 0 /\ Compare(f, e, g) >= 0 => Compare(f, d, g) >= 0
  <2>1. PICK de, ed, eg, dg : /\ de = Compare(f, d, e) /\ ed = Compare(f, e, d)
                              /\ eg = Compare(f, e, g) /\ dg = Compare(f, d, g)
    OBVIOUS
  <2>2. /\ d \in Texts /\ e \in Texts /\ g \in Texts
        /\ Ordered(de, d, e) /\ Ordered(ed, e, d) /\ Ordered(eg, e, g) /\ Ordered(dg, d, g)
    BY <1>1, <2>1
  <2>3. /\ de = 0 <=> d = e
        /\ de = -ed
        /\ de >= 0 /\ eg >= 0 => dg >= 0
    BY <2>2, OneOrder
  <2> QED BY <2>1, <2>3
<1> QED BY <1>2, <1>3

\* Sets of flags, by the byte they stand in.
LEMMA FlagsOrdered ==
    ASSUME NEW f \in Fields \cap Masks
    PROVE  OneOrderOf(f)
<1>1. f \in Named /\ f \notin Strings \cup AddressFields
  BY Kinds
<1> DEFINE Flags(d) == Read(Layout(DrawBits, f), d)
<1>2. \A d \in Data[f] : /\ Flags(d) \in 0..255
                         /\ Read(Layout(SortBits, f), d) = Flags(d)
                         /\ Shown(f, d) = SetBits(Flags(d))
  BY <1>1, ReadAlike, OfKind
<1> HIDE DEF Flags
<1>3. \A d, e \in Data[f] : Compare(f, d, e) = SignOf(Flags(d), Flags(e))
  BY <1>1, <1>2, ComparedBy
<1> SUFFICES ASSUME NEW d \in Data[f], NEW e \in Data[f]
             PROVE  /\ Compare(f, d, e) = 0 <=> Shown(f, d) = Shown(f, e)
                    /\ Compare(f, d, e) = -Compare(f, e, d)
                    /\ \A g \in Data[f] : Compare(f, d, e) >= 0 /\ Compare(f, e, g) >= 0
                                             => Compare(f, d, g) >= 0
  BY DEF OneOrderOf
<1>4. PICK u \in 0..255, v \in 0..255 : u = Flags(d) /\ v = Flags(e)
  BY <1>2
<1>5. /\ Compare(f, d, e) = SignOf(u, v) /\ Compare(f, e, d) = SignOf(v, u)
      /\ Shown(f, d) = SetBits(u) /\ Shown(f, e) = SetBits(v)
  BY <1>2, <1>3, <1>4
<1>6. SetBits(u) = SetBits(v) <=> u = v
  BY BitsOfByte
<1>7. (SignOf(u, v) = 0 <=> u = v) /\ SignOf(u, v) = -SignOf(v, u)
  BY NumbersOrdered
<1>8. ASSUME NEW g \in Data[f], Compare(f, d, e) >= 0, Compare(f, e, g) >= 0
      PROVE  Compare(f, d, g) >= 0
  <2>1. PICK w \in 0..255 : w = Flags(g)
    BY <1>2
  <2>2. Compare(f, e, g) = SignOf(v, w) /\ Compare(f, d, g) = SignOf(u, w)
    BY <1>3, <1>4, <2>1
  <2>3. SignOf(u, v) >= 0 /\ SignOf(v, w) >= 0 => SignOf(u, w) >= 0
    BY NumbersOrdered
  <2> QED BY <1>5, <1>8, <2>2, <2>3
<1> QED BY <1>5, <1>6, <1>7, <1>8

\* Names and numbers, by their value.
LEMMA ValuesOrdered ==
    ASSUME NEW f \in Fields \ (Strings \cup AddressFields \cup Masks),
           NEW d \in Data[f], NEW e \in Data[f], Shown(f, d) # -1, Shown(f, e) # -1
    PROVE  Compare(f, d, e) = SignOf(Shown(f, d), Shown(f, e))
<1>1. f \in Named \ Masks \/ f \in Numbers
  BY ListDialogAssumption DEF AllFields
<1>2. ASSUME NEW g \in Data[f], Shown(f, g) # -1 PROVE Read(Layout(SortBits, f), g) = Shown(f, g)
  <2>1. Read(Layout(SortBits, f), g) = Read(Layout(DrawBits, f), g)
    BY ReadAlike
  <2>2. CASE f \in Named \ Masks
    BY <1>2, <2>1, <2>2, NameShown
  <2>3. CASE f \in Numbers
    BY <2>1, <2>3, OfKind
  <2> QED BY <1>1, <2>2, <2>3
<1>3. Compare(f, d, e) = SignOf(Read(Layout(SortBits, f), d), Read(Layout(SortBits, f), e))
  BY ComparedBy
<1> QED BY <1>2, <1>3

\* What a number or a name is compared by.
LEMMA ReadNumber ==
    ASSUME NEW f \in Fields \ (Strings \cup AddressFields), NEW d \in Data[f]
    PROVE  Read(Layout(SortBits, f), d) \in Int
<1>1. f \in AllFields /\ d \in Values(f)
  BY ListDialogAssumption
<1>2. CASE f = "sport"
  <2>1. Layout(SortBits, f) = Ntohs
    BY <1>2 DEF Layout, SortBits
  <2>2. PICK a \in 0..255, b \in 0..255 : d[1] = a /\ d[2] = b
    BY <1>1, <1>2 DEF Values, ReadPast
  <2>3. Read(Ntohs, d) = a * 256 + b /\ a * 256 + b \in Int
    <3>1. Ntohs[1] = "ntohs"
      BY DEF Ntohs
    <3>2. Read(Ntohs, d) = d[1] * 2^8 + d[2]
      BY <3>1 DEF Read
    <3>3. PICK w \in Nat : w = 2^8 /\ w = 256
      BY Powers
    <3>4. Read(Ntohs, d) = a * w + b
      BY <2>2, <3>2, <3>3, Zenon
    <3>5. Read(Ntohs, d) = a * 256 + b
      BY <3>3, <3>4, Zenon
    <3>6. a * 256 + b \in Int
      OBVIOUS
    <3> QED BY <3>5, <3>6
  <2> QED BY <2>1, <2>3
<1>3. CASE f = "bw"
  <2>1. Layout(SortBits, f) = LowHigh
    BY <1>3 DEF Layout, SortBits
  <2>2. PICK w \in Nat : w = 2^WordBits
    BY FieldValuesAssumption
  <2>3. PICK a \in Int, b \in Int : d[1] = a /\ d[2] = b
    BY <1>1, <1>3, <2>2 DEF Values, ReadPast
  <2>4. Read(LowHigh, d) = b * w + a
    BY <2>2, <2>3 DEF Read, LowHigh
  <2>5. b * w + a \in Int
    OBVIOUS
  <2> QED BY <2>1, <2>4, <2>5
<1>4. CASE f = "shutdown"
  <2>1. d \in 0..3
    BY <1>4, ByteData DEF ReadPast
  <2> QED BY <1>4, <2>1, Shutdown
<1>5. CASE f \in ReadPast
  BY <1>5, ReadAlike DEF Booleans
<1>6. CASE f \notin ReadPast \cup {"sport", "bw", "shutdown"}
  <2>1. f \in Bytewise /\ d \in 0..255
    BY <1>6, ByteData
  <2>2. Layout(SortBits, f) = Layout(DrawBits, f)
    BY <1>1, <1>6, OneLayout
  <2>3. Read(Layout(DrawBits, f), d) \in 0..255
    BY <2>1, ByteValue
  <2> QED BY <2>2, <2>3
<1> QED BY <1>2, <1>3, <1>4, <1>5, <1>6

-----------------------------------------------------------------------------
(* The theorems.                                                           *)

\* The invariant holds however the user walks through fp_str_common()'s dialog, and
\* whether or not calloc() succeeds.
THEOREM Invariance == Spec => []IInv
<1>1. IInv /\ [Next]_vars => IInv'
  BY NextIInv
<1> QED BY InitIInv, <1>1, PTL DEF Spec

\* In fp_str_common() the cursor stays on the list, and only bits of names on the
\* list are ever set.
THEOREM TypeCorrect == Spec => []TypeOK
<1>1. IInv => TypeOK
  BY DEF IInv
<1> QED BY Invariance, <1>1, PTL

\* A filter that fp_str_common() turned on holds exactly the names the user has seen
\* starred, and at least one.
THEOREM ChosenCorrect == Spec => []OnMeansChosen
<1>1. IInv => OnMeansChosen
  <2> SUFFICES ASSUME IInv, filter_on, field \in Named
               PROVE  chosen # {} /\ filter[1].val = chosen
    BY DEF OnMeansChosen
  <2>1. pc = "keys"
    BY DEF IInv, TypeOK, StarsInv
  <2> QED BY <2>1 DEF IInv, StarsInv
<1> QED BY Invariance, <1>1, PTL

\* filter_apply lets through exactly the connections whose column, as draw_row shows it,
\* is what the user has starred or typed - for every field but the two whose filter reads
\* past its local variable, fa_vegas_enabled() and fa_dctcp_enabled().
THEOREM RowsCorrect == Spec => []RowsAsChosen
<1>1. Init => FilterInv
  BY DEF Init, FilterInv
<1>2. IInv /\ FilterInv /\ [Next]_vars => FilterInv'
  BY KeepsFilter
<1>3. IInv /\ FilterInv => RowsAsChosen
  <2> SUFFICES ASSUME IInv, FilterInv, filter_on, field \notin ReadPast, NEW d \in Data[field]
               PROVE  \A shown \in RowShown(d) : shown <=> Wanted(filter[1], d)
    BY DEF RowsAsChosen
  <2>1. RowShown(d) = {Apply(field, filter[1], d)}
    BY DEF RowShown, Answers
  <2>2. Apply(field, filter[1], d) <=> Wanted(filter[1], d)
    BY RowMeaning
  <2> QED BY <2>1, <2>2, Zenon
<1>4. Spec => []FilterInv
  BY Invariance, <1>1, <1>2, PTL DEF Spec
<1> QED BY Invariance, <1>3, <1>4, PTL

\* sort_func puts any two connections of a dump in the order their column, as draw_row
\* shows it, is in.
THEOREM SortCorrect == Spec => []SortAsShown
<1>1. IInv => SortAsShown
  <2> SUFFICES ASSUME IInv PROVE SortAsShown
    OBVIOUS
  <2>1. PICK f \in Fields : f = field
    BY DEF IInv, TypeOK
  <2>2. CASE f \in Strings \cup AddressFields \cup Masks
    <3>1. OneOrderOf(f)
      BY <2>2, TextsOrdered, FlagsOrdered
    <3> QED BY <2>1, <2>2, <3>1 DEF SortAsShown, OneOrderOf
  <2>3. CASE f \notin Strings \cup AddressFields \cup Masks
    <3>1. \A d, e \in {g \in Data[f] : Shown(f, g) # -1} :
             Compare(f, d, e) = SignOf(Shown(f, d), Shown(f, e))
      BY <2>3, ValuesOrdered
    <3> QED BY <2>1, <2>3, <3>1 DEF SortAsShown
  <2> QED BY <2>2, <2>3
<1> QED BY Invariance, <1>1, PTL

\* Each sort_func is one order on the values of its field, those shown as "?" too: two
\* compared the other way round give the opposite sign, and it is transitive.  It is what
\* the loop of add_conn_info() needs, and what ConnDump takes a comparison for.
THEOREM CompareIsOrder ==
    ASSUME NEW f \in Fields
    PROVE  \A d, e \in Data[f] :
              /\ Compare(f, d, e) = -Compare(f, e, d)
              /\ \A g \in Data[f] : Compare(f, d, e) >= 0 /\ Compare(f, e, g) >= 0
                                       => Compare(f, d, g) >= 0
<1>1. CASE f \in Strings \cup AddressFields
  <2>1. OneOrderOf(f)
    BY <1>1, TextsOrdered
  <2> QED BY <2>1 DEF OneOrderOf
<1>2. CASE f \notin Strings \cup AddressFields
  <2> SUFFICES ASSUME NEW d \in Data[f], NEW e \in Data[f], NEW g \in Data[f]
               PROVE  /\ Compare(f, d, e) = -Compare(f, e, d)
                      /\ Compare(f, d, e) >= 0 /\ Compare(f, e, g) >= 0
                            => Compare(f, d, g) >= 0
    OBVIOUS
  <2>1. PICK u \in Int, v \in Int, w \in Int : /\ u = Read(Layout(SortBits, f), d)
                                               /\ v = Read(Layout(SortBits, f), e)
                                               /\ w = Read(Layout(SortBits, f), g)
    BY <1>2, ReadNumber
  <2>2. /\ Compare(f, d, e) = SignOf(u, v) /\ Compare(f, e, d) = SignOf(v, u)
        /\ Compare(f, e, g) = SignOf(v, w) /\ Compare(f, d, g) = SignOf(u, w)
    BY <1>2, <2>1, ComparedBy
  <2>3. /\ SignOf(u, v) = -SignOf(v, u)
        /\ SignOf(u, v) >= 0 /\ SignOf(v, w) >= 0 => SignOf(u, w) >= 0
    BY NumbersOrdered
  <2> QED BY <2>2, <2>3
<1> QED BY <1>1, <1>2
=============================================================================
