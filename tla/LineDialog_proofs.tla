------------------------- MODULE LineDialog_proofs -------------------------
(* Proofs about LineDialog, for every set of lines, alphabet, width of a     *)
(* number and length of the buffer.                                          *)
EXTENDS LineDialog, Induction, SequenceTheorems, TLAPS

-----------------------------------------------------------------------------
(* The inductive invariant.                                                *)

\* What a terminal may return.
Chars == (UNION {UNION {ToSet(text) : text \in Lines[k]} : k \in Kinds}) \cup {NL, Key}

\* The rest of a line with its newline, and the key typed ahead.
LineAhead(s) ==
    /\ s \in Seq(Chars) /\ Len(s) >= 2
    /\ s[Len(s) - 1] = NL /\ s[Len(s)] = Key
    /\ \A i \in 1..Len(s) - 2 : s[i] # NL

Reading == {"op", "!", ">", "<", "value", "skip", "delay"}

\* The newline is the last character a dialog reads.
TtyInv ==
    /\ pc \in Reading => LineAhead(tty)
    /\ pc = "apply" => tty = <<Key>>
    /\ pc = "keys" => tty = <<>> \/ tty = <<Key>>

BufInv == buf \in Seq(Printable \cup AddressChars)

IInv == TypeOK /\ KeyMode /\ OneFilter /\ BufInv /\ TtyInv

LEMMA TailEntries ==
    ASSUME NEW S, NEW s \in Seq(S), s # <<>>
    PROVE  \E t \in Seq(S) : /\ t = Tail(s)
                              /\ Len(t) = Len(s) - 1
                              /\ \A i \in 1..Len(s) - 1 : t[i] = s[i + 1]
<1>1. /\ Tail(s) \in Seq(S)
      /\ Len(Tail(s)) = Len(s) - 1
  BY HeadTailProperties
<1>2. \A i \in 1..Len(s) - 1 : Tail(s)[i] = s[i + 1]
  BY <1>1
<1> QED BY <1>1, <1>2, Zenon

\* A character that is no newline leaves the newline ahead.
LEMMA ReadOn ==
    ASSUME NEW s, LineAhead(s), Head(s) # NL
    PROVE  LineAhead(Tail(s))
<1>1. s \in Seq(Chars) /\ s # <<>> /\ Len(s) \in Nat /\ Len(s) >= 2
  BY LenProperties DEF LineAhead
<1>2. Len(s) # 2
  BY <1>1 DEF LineAhead
<1>3. PICK t \in Seq(Chars) : /\ t = Tail(s)
                              /\ Len(t) = Len(s) - 1
                              /\ \A i \in 1..Len(s) - 1 : t[i] = s[i + 1]
  BY <1>1, TailEntries
<1>4. Len(t) >= 2 /\ t[Len(t) - 1] = NL /\ t[Len(t)] = Key
  BY <1>1, <1>2, <1>3 DEF LineAhead
<1>5. \A i \in 1..Len(t) - 2 : t[i] # NL
  BY <1>1, <1>3 DEF LineAhead
<1> QED BY <1>3, <1>4, <1>5 DEF LineAhead

\* The newline leaves the key.
LEMMA ReadToEnd ==
    ASSUME NEW s, LineAhead(s), Head(s) = NL
    PROVE  Tail(s) = <<Key>>
<1>1. s \in Seq(Chars) /\ s # <<>> /\ Len(s) \in Nat /\ Len(s) >= 2 /\ s[1] = NL
  BY LenProperties DEF LineAhead
<1>2. Len(s) = 2
  <2>1. ~(1 \in 1..Len(s) - 2)
    BY <1>1, Zenon DEF LineAhead
  <2>2. PICK n \in Nat : n = Len(s)
    BY <1>1
  <2>3. n >= 2 /\ ~(1 \in 1..n - 2)
    BY <1>1, <2>1, <2>2, Zenon
  <2>4. n = 2
    BY <2>3
  <2> QED BY <2>2, <2>4
<1>3. s[2] = Key
  BY <1>2 DEF LineAhead
<1>4. PICK t \in Seq(Chars) : /\ t = Tail(s)
                              /\ Len(t) = Len(s) - 1
                              /\ \A i \in 1..Len(s) - 1 : t[i] = s[i + 1]
  BY <1>1, TailEntries
<1>5. Len(t) = 1 /\ t[1] = Key
  <2>1. 1 \in 1..2 - 1 /\ 2 - 1 = 1 /\ 1 + 1 = 2
    OBVIOUS
  <2> QED BY <1>2, <1>3, <1>4, <2>1, Zenon
<1>6. t = <<Key>>
  BY <1>5
<1> QED BY <1>4, <1>6

\* The terminal delivers the line and its newline at once.
LEMMA Typed ==
    ASSUME NEW k \in Kinds, NEW text \in Lines[k]
    PROVE  LineAhead(text \o <<NL, Key>>)
<1>1. text \in Seq(ToSet(text)) /\ NL \notin ToSet(text)
  BY LineDialogAssumption
<1>2. ToSet(text) \subseteq Chars
  BY DEF Chars
<1>3. text \in Seq(Chars) /\ Len(text) \in Nat
  BY <1>1, <1>2, LenProperties
<1>4. \A i \in 1..Len(text) : text[i] # NL
  BY <1>1 DEF ToSet
<1>5. PICK end \in Seq(Chars) : end = <<NL, Key>> /\ Len(end) = 2 /\ end[1] = NL /\ end[2] = Key
  <2>1. NL \in Chars /\ Key \in Chars
    BY DEF Chars
  <2>2. <<NL, Key>> \in Seq(Chars) /\ Len(<<NL, Key>>) = 2
        /\ <<NL, Key>>[1] = NL /\ <<NL, Key>>[2] = Key
    BY <2>1
  <2> QED BY <2>2, Zenon
<1>6. PICK t \in Seq(Chars) :
         /\ t = text \o end
         /\ Len(t) = Len(text) + Len(end)
         /\ \A i \in 1..Len(text) + Len(end) :
               t[i] = IF i <= Len(text) THEN text[i] ELSE end[i - Len(text)]
  <2>1. /\ text \o end \in Seq(Chars)
        /\ Len(text \o end) = Len(text) + Len(end)
        /\ \A i \in 1..Len(text) + Len(end) :
              (text \o end)[i] = IF i <= Len(text) THEN text[i] ELSE end[i - Len(text)]
    BY <1>3, ConcatProperties
  <2> QED BY <2>1, Zenon
<1>7. Len(t) - 1 = Len(text) + 1 /\ Len(t) = Len(text) + 2 /\ Len(t) >= 2
  BY <1>3, <1>5, <1>6
<1>8. t[Len(text) + 1] = end[1] /\ t[Len(text) + 2] = end[2]
  BY <1>3, <1>5, <1>6
<1>9. \A i \in 1..Len(t) - 2 : t[i] # NL
  BY <1>3, <1>4, <1>5, <1>6, <1>7
<1> QED BY <1>5, <1>6, <1>7, <1>8, <1>9 DEF LineAhead

LEMMA BufLenPositive == BufLen \in Nat /\ 0 <= BufLen
<1>1. BufLen \in Nat
  BY LineDialogAssumption, Zenon
<1> QED BY <1>1

LEMMA InitIInv == Init => IInv
<1> SUFFICES ASSUME Init PROVE IInv
  OBVIOUS
<1>1. Len(buf) = 0 /\ BufInv
  <2>1. buf = <<>>
    BY DEF Init
  <2> QED BY <2>1, EmptySeq DEF BufInv
<1>2. TypeOK
  <2>1. Len(buf) <= BufLen
    BY <1>1, BufLenPositive
  <2>2. delay \in 1..255 /\ v \in Nat /\ flts \in Nat /\ strs \in Nat
    <3>1. delay = 30 /\ v = 0 /\ flts = 0 /\ strs = 0
      BY Zenon DEF Init
    <3> QED BY <3>1
  <2> QED BY <2>1, <2>2, Zenon DEF Init, TypeOK
<1>3. KeyMode /\ OneFilter /\ TtyInv
  BY DEF Init, KeyMode, OneFilter, TtyInv, Reading
<1> QED BY <1>1, <1>2, <1>3 DEF IInv

-----------------------------------------------------------------------------
(* The steps.                                                              *)


LEMMA ReadKept ==
    ASSUME IInv, pc \in Reading, NEW ch, ch # NL, Read(ch)
    PROVE  LineAhead(tty')
<1>1. LineAhead(tty) /\ Head(tty) # NL /\ tty' = Tail(tty)
  BY DEF IInv, TtyInv, Read
<1> QED BY <1>1, ReadOn

LEMMA ReadLast ==
    ASSUME IInv, pc \in Reading, Read(NL)
    PROVE  tty' = <<Key>>
<1>1. LineAhead(tty) /\ Head(tty) = NL /\ tty' = Tail(tty)
  BY DEF IInv, TtyInv, Read
<1> QED BY <1>1, ReadToEnd

\* A step that reads on and changes at most op.
LEMMA ReadStep ==
    ASSUME IInv, pc \in Reading, NEW ch, ch # NL, Read(ch),
           NEW label \in Reading, Goto(label),
           op' \in {"", "EQ", "NE", "GT", "GE", "LT", "LE", "CT", "NC"},
           UNCHANGED <<buf, v, seen_input, result, history>>
    PROVE  IInv'
<1>1. LineAhead(tty')
  BY ReadKept
<1>2. TypeOK'
  BY DEF IInv, TypeOK, Goto, result, history, Reading
<1>3. KeyMode' /\ OneFilter' /\ BufInv'
  BY DEF IInv, KeyMode, OneFilter, BufInv, Goto, result, history, Reading
<1>4. TtyInv'
  BY <1>1 DEF TtyInv, Goto, Reading
<1> QED BY <1>2, <1>3, <1>4 DEF IInv

\* The newline read, and the dialog over without a new filter.
LEMMA ReadFinish ==
    ASSUME IInv, pc \in Reading, Read(NL), NEW err \in {0, 1}, Finish(err),
           UNCHANGED <<local, result, history>>
    PROVE  IInv'
<1>1. tty' = <<Key>>
  BY ReadLast
<1>2. TypeOK'
  BY DEF IInv, TypeOK, Finish, local, result, history
<1>3. KeyMode' /\ OneFilter' /\ BufInv'
  BY DEF IInv, KeyMode, OneFilter, BufInv, Finish, local, result, history
<1>4. TtyInv'
  BY <1>1 DEF TtyInv, Finish, Reading
<1> QED BY <1>2, <1>3, <1>4 DEF IInv

OperatorStep == ReadEmpty \/ ReadBlank \/ ReadOp \/ ReadNoOp \/ ReadOp2

LEMMA OperatorStepStep == IInv /\ OperatorStep => IInv'
<1> SUFFICES ASSUME IInv, OperatorStep PROVE IInv'
  OBVIOUS
<1>0. op \in {"", "EQ", "NE", "GT", "GE", "LT", "LE", "CT", "NC"}
  BY DEF IInv, TypeOK
<1>1. CASE ReadEmpty
  BY <1>1, ReadFinish DEF ReadEmpty, Reading
<1>2. CASE ReadBlank
  <2>1. PICK ch \in Blanks : Read(ch)
    BY <1>2 DEF ReadBlank
  <2>2. ch # NL
    BY LineDialogAssumption
  <2> QED BY <1>0, <1>2, <2>1, <2>2, ReadStep DEF ReadBlank, Goto, Reading, local
<1>3. CASE ReadOp
  <2>1. /\ pc = "op" /\ tty[1] \in {"=", "~", ">", "<", "!"}
        /\ DOMAIN First \subseteq {"=", "~", ">", "<"}
    BY <1>3 DEF ReadOp, First
  <2>2. tty[1] # NL
    BY <2>1, LineDialogAssumption
  <2>3. op' \in {"", "EQ", "NE", "GT", "GE", "LT", "LE", "CT", "NC"}
    BY <1>3, <2>1 DEF ReadOp, First
  <2>4. DOMAIN Second(tty[1]) # {} => tty[1] \in {"!", ">", "<"}
    BY <2>1 DEF Second
  <2>5. PICK label \in Reading : Goto(label)
    BY <1>3, <2>4 DEF ReadOp, Reading
  <2> QED BY <1>3, <2>1, <2>2, <2>3, <2>5, ReadStep DEF ReadOp, Reading
<1>4. CASE ReadNoOp
  BY <1>0, <1>4, ReadStep DEF ReadNoOp, Reading, local
<1>5. CASE ReadOp2
  <2>1. pc \in {"!", ">", "<"} /\ pc \in Reading
    BY <1>5 DEF ReadOp2, Reading
  <2>2. CASE tty[1] \in DOMAIN Second(pc)
    <3>1. tty[1] \in {"=", "~"} /\ Second(pc)[tty[1]] \in {"NE", "NC", "GE", "LE"}
      BY <2>1, <2>2 DEF Second
    <3>2. tty[1] # NL
      BY <3>1, LineDialogAssumption
    <3> QED BY <1>5, <2>1, <2>2, <3>1, <3>2, ReadStep DEF ReadOp2, Reading
  <2>3. CASE tty[1] \notin DOMAIN Second(pc)
    <3>1. /\ pc' \in {"skip", "value"}
          /\ UNCHANGED <<tty, op, buf, v, seen_input, result, history, ret, tty_mode>>
      BY <1>5, <2>3 DEF ReadOp2, Goto
    <3>2. TypeOK'
      BY <3>1 DEF IInv, TypeOK, result, history
    <3>3. KeyMode' /\ OneFilter' /\ BufInv'
      BY <3>1 DEF IInv, KeyMode, OneFilter, BufInv, result, history
    <3>4. TtyInv'
      BY <2>1, <3>1 DEF IInv, TtyInv, Reading
    <3> QED BY <3>2, <3>3, <3>4 DEF IInv
  <2> QED BY <2>2, <2>3
<1> QED BY <1>1, <1>2, <1>3, <1>4, <1>5 DEF OperatorStep

ValueStep == ReadValueBlank \/ ReadDigit \/ ReadChar \/ ReadBad \/ ReadEnd \/ Skip

LEMMA ValueStepStep == IInv /\ ValueStep => IInv'
<1> SUFFICES ASSUME IInv, ValueStep PROVE IInv'
  OBVIOUS
<1>0. op \in {"", "EQ", "NE", "GT", "GE", "LT", "LE", "CT", "NC"} /\ v \in Nat
  BY DEF IInv, TypeOK
<1>1. CASE ReadValueBlank
  <2>1. PICK ch \in Blanks : Read(ch)
    BY <1>1 DEF ReadValueBlank
  <2>2. ch # NL
    BY LineDialogAssumption
  <2> QED BY <1>0, <1>1, <2>1, <2>2, ReadStep DEF ReadValueBlank, Goto, Reading, local
<1>2. CASE ReadDigit
  <2>1. PICK ch \in Digits : Read(ch) /\ v' = (v * 10 + Digit[ch]) % 2^WordBits
    BY <1>2 DEF ReadDigit
  <2>2. ch # NL /\ Digit[ch] \in Nat
    BY LineDialogAssumption DEF AddressChars
  <2>3. v' \in Nat
    <3>1. PICK words \in Nat \ {0} : words = 2^WordBits
      BY LineDialogAssumption
    <3>2. PICK a \in Nat, d \in Nat : a = v /\ d = Digit[ch]
      BY <1>0, <2>2, Zenon
    <3>3. a * 10 + d \in Nat
      OBVIOUS
    <3>4. v' = (a * 10 + d) % words
      BY <2>1, <3>1, <3>2, Zenon
    <3> QED BY <3>1, <3>3, <3>4
  <2>4. LineAhead(tty')
    BY <1>2, <2>1, <2>2, ReadKept DEF ReadDigit, Reading
  <2>5. TypeOK'
    BY <1>2, <2>3 DEF IInv, TypeOK, ReadDigit, result, history
  <2>6. KeyMode' /\ OneFilter' /\ BufInv'
    BY <1>2 DEF IInv, KeyMode, OneFilter, BufInv, ReadDigit, result, history
  <2>7. TtyInv'
    BY <1>2, <2>4 DEF TtyInv, ReadDigit, Reading
  <2> QED BY <2>5, <2>6, <2>7 DEF IInv
<1>3. CASE ReadChar
  <2>1. PICK ch \in Accepted : /\ Read(ch)
                               /\ buf' = IF Len(buf) < BufLen THEN Append(buf, ch) ELSE buf
    BY <1>3 DEF ReadChar
  <2>2. ch \in Printable \cup AddressChars
    BY <1>3 DEF ReadChar, Accepted
  <2>3. ch # NL
    BY <2>2, LineDialogAssumption
  <2>4. buf \in Seq(Printable \cup AddressChars) /\ Len(buf) \in Nat /\ Len(buf) <= BufLen
        /\ BufLen \in Nat
    BY LenProperties, LineDialogAssumption DEF IInv, BufInv, TypeOK
  <2>5. buf' \in Seq(Printable \cup AddressChars) /\ Len(buf') <= BufLen
    BY <2>1, <2>2, <2>4, AppendProperties
  <2>6. LineAhead(tty')
    BY <1>3, <2>1, <2>3, ReadKept DEF ReadChar, Reading
  <2>7. pc' \in {"value", "skip"} /\ UNCHANGED <<ret, tty_mode>>
    BY <1>3 DEF ReadChar, Goto
  <2>8. TypeOK'
    BY <1>3, <2>5, <2>7 DEF IInv, TypeOK, ReadChar, result, history
  <2>9. KeyMode' /\ OneFilter' /\ BufInv'
    BY <1>3, <2>5, <2>7 DEF IInv, KeyMode, OneFilter, BufInv, ReadChar, result, history
  <2>10. TtyInv'
    BY <2>6, <2>7 DEF TtyInv, Reading
  <2> QED BY <2>8, <2>9, <2>10 DEF IInv
<1>4. CASE ReadBad
  BY <1>0, <1>4, ReadStep DEF ReadBad, Reading, local
<1>5. CASE ReadEnd
  <2>1. tty' = <<Key>>
    BY <1>5, ReadLast DEF ReadEnd, Reading
  <2>2. CASE Len(buf) # BufLen /\ ~seen_input
    BY <1>5, <2>2, ReadFinish DEF ReadEnd, Reading
  <2>3. CASE Len(buf) = BufLen \/ seen_input
    <3>1. pc' \in {"fault", "apply"} /\ UNCHANGED <<ret, tty_mode, local, result, history>>
      BY <1>5, <2>3 DEF ReadEnd, Goto
    <3>2. TypeOK'
      BY <3>1 DEF IInv, TypeOK, local, result, history
    <3>3. KeyMode' /\ OneFilter' /\ BufInv'
      BY <3>1 DEF IInv, KeyMode, OneFilter, BufInv, local, result, history
    <3>4. TtyInv'
      BY <2>1, <3>1 DEF TtyInv, Reading
    <3> QED BY <3>2, <3>3, <3>4 DEF IInv
  <2>4. seen_input \in BOOLEAN
    BY DEF IInv, TypeOK
  <2> QED BY <2>2, <2>3, <2>4
<1>6. CASE Skip
  <2>1. CASE tty[1] = NL
    BY <1>6, <2>1, ReadFinish DEF Skip, Reading
  <2>2. CASE tty[1] # NL
    BY <1>0, <1>6, <2>2, ReadStep DEF Skip, Reading, local
  <2> QED BY <2>1, <2>2
<1> QED BY <1>1, <1>2, <1>3, <1>4, <1>5, <1>6 DEF ValueStep

\* A filter takes the place of the one there was.
LEMMA ApplyStep == IInv /\ Apply => IInv'
<1> SUFFICES ASSUME IInv, Apply PROVE IInv'
  OBVIOUS
<1>1. /\ pc = "apply" /\ pc' = "keys" /\ tty_mode' = delay' /\ ret' \in {0, 1}
      /\ UNCHANGED <<tty, op, buf, v, seen_input, delay, kind>>
  BY DEF Apply, Finish, local, history
<1>2. OneFilter' /\ flts' \in Nat /\ strs' \in Nat
  <2>1. CASE UNCHANGED <<filter, flts, strs>>
    BY <1>1, <2>1 DEF IInv, TypeOK, OneFilter
  <2>2. CASE /\ filter' = <<op, Value>>
             /\ LET gone == IF filter = <<>> THEN 0 ELSE 1 IN
                /\ flts' = flts + 1 - gone
                /\ strs' = IF kind = "string" THEN strs + 1 - gone ELSE strs
    <3>1. filter' # <<>>
      <4>1. filter' = <<op, Value>>
        BY <2>2
      <4> QED BY <4>1
    <3>2. flts' = 1 /\ strs' = IF kind = "string" THEN 1 ELSE 0
      BY <2>2 DEF IInv, OneFilter
    <3> QED BY <1>1, <3>1, <3>2 DEF OneFilter
  <2> QED BY <2>1, <2>2 DEF Apply
<1>3. TypeOK'
  BY <1>1, <1>2 DEF IInv, TypeOK
<1>4. KeyMode' /\ BufInv'
  BY <1>1 DEF IInv, KeyMode, BufInv
<1>5. TtyInv'
  BY <1>1 DEF IInv, TtyInv, Reading
<1> QED BY <1>2, <1>3, <1>4, <1>5 DEF IInv

DelayStep == DelayDigit \/ DelayBad \/ DelayEnd

LEMMA DelayStepStep == IInv /\ DelayStep => IInv'
<1> SUFFICES ASSUME IInv, DelayStep PROVE IInv'
  OBVIOUS
<1>0. op \in {"", "EQ", "NE", "GT", "GE", "LT", "LE", "CT", "NC"} /\ v \in Nat
  BY DEF IInv, TypeOK
<1>1. CASE DelayDigit
  <2>1. PICK ch \in Digits : /\ Read(ch)
                             /\ v' = v * 10 + Digit[ch]
                             /\ Goto(IF v' > 255 THEN "skip" ELSE "delay")
    BY <1>1 DEF DelayDigit
  <2>2. ch # NL /\ Digit[ch] \in Nat
    BY LineDialogAssumption DEF AddressChars
  <2>3. v' \in Nat
    <3>1. PICK a \in Nat, d \in Nat : v' = a * 10 + d
      BY <1>0, <2>1, <2>2, Zenon
    <3> QED BY <3>1
  <2>4. LineAhead(tty')
    BY <1>1, <2>1, <2>2, ReadKept DEF DelayDigit, Reading
  <2>5. pc' \in {"skip", "delay"} /\ UNCHANGED <<ret, tty_mode>>
    BY <2>1 DEF Goto
  <2>6. TypeOK'
    BY <1>1, <2>3, <2>5 DEF IInv, TypeOK, DelayDigit, result, history
  <2>7. KeyMode' /\ OneFilter' /\ BufInv'
    BY <1>1, <2>5 DEF IInv, KeyMode, OneFilter, BufInv, DelayDigit, result, history
  <2>8. TtyInv'
    BY <2>4, <2>5 DEF TtyInv, Reading
  <2> QED BY <2>6, <2>7, <2>8 DEF IInv
<1>2. CASE DelayBad
  BY <1>0, <1>2, ReadStep DEF DelayBad, Reading, local
<1>3. CASE DelayEnd
  <2>1. tty' = <<Key>>
    BY <1>3, ReadLast DEF DelayEnd, Reading
  <2>2. /\ delay' \in 1..255 /\ tty_mode' = delay' /\ pc' = "keys" /\ ret' \in {0, 1}
        /\ UNCHANGED <<op, buf, v, seen_input, filter, flts, strs, kind>>
    BY <1>3 DEF IInv, TypeOK, DelayEnd, Finish, local, history
  <2>3. TypeOK'
    BY <2>2 DEF IInv, TypeOK
  <2>4. KeyMode' /\ OneFilter' /\ BufInv'
    BY <2>2 DEF IInv, KeyMode, OneFilter, BufInv
  <2>5. TtyInv'
    BY <2>1, <2>2 DEF TtyInv, Reading
  <2> QED BY <2>3, <2>4, <2>5 DEF IInv
<1> QED BY <1>1, <1>2, <1>3 DEF DelayStep

\* A dialog is opened, the key behind it is read, or the program ends.
KeysStep == NextKey \/ Open \/ WindowExit

LEMMA KeysStepStep == IInv /\ KeysStep => IInv'
<1> SUFFICES ASSUME IInv, KeysStep PROVE IInv'
  OBVIOUS
<1>1. CASE NextKey
  <2>1. tty' = <<>>
    <3>1. tty = <<Key>> /\ tty' = Tail(tty)
      BY <1>1, Zenon DEF IInv, TtyInv, NextKey
    <3>2. Tail(<<Key>>) = <<>>
      OBVIOUS
    <3> QED BY <3>1, <3>2, Zenon
  <2>2. Len(buf') = 0 /\ BufInv' /\ 0 <= BufLen
    <3>1. buf' = <<>>
      BY <1>1 DEF NextKey
    <3> QED BY <3>1, EmptySeq, BufLenPositive DEF BufInv
  <2>3. TypeOK'
    BY <1>1, <2>2 DEF IInv, TypeOK, NextKey, result
  <2>4. KeyMode' /\ OneFilter'
    BY <1>1 DEF IInv, KeyMode, OneFilter, NextKey, result
  <2>5. TtyInv'
    BY <1>1, <2>1 DEF TtyInv, NextKey, Reading
  <2> QED BY <2>2, <2>3, <2>4, <2>5 DEF IInv
<1>2. CASE Open
  <2>1. LineAhead(tty')
    <3>1. line' \in Lines[kind] /\ tty' = line' \o <<NL, Key>> /\ kind \in Kinds
      BY <1>2 DEF IInv, TypeOK, Open
    <3>2. PICK text \in Lines[kind] : tty' = text \o <<NL, Key>>
      BY <3>1
    <3> QED BY <3>1, <3>2, Typed
  <2>2. pc' \in {"delay", "op"} /\ UNCHANGED <<kind, ret, local, result>>
    BY <1>2 DEF Open
  <2>3. TypeOK'
    BY <2>2 DEF IInv, TypeOK, local, result
  <2>4. KeyMode' /\ OneFilter' /\ BufInv'
    BY <2>2 DEF IInv, KeyMode, OneFilter, BufInv, local, result
  <2>5. TtyInv'
    BY <2>1, <2>2 DEF TtyInv, Reading
  <2> QED BY <2>3, <2>4, <2>5 DEF IInv
<1>3. CASE WindowExit
  <2>1. pc' = "exited" /\ filter' = <<>> /\ UNCHANGED <<tty, local, ret, delay, tty_mode, history>>
    BY <1>3 DEF WindowExit
  <2>2. OneFilter' /\ flts' = 0 /\ strs' = 0
    BY <1>3, <2>1 DEF IInv, OneFilter, WindowExit, history
  <2>3. TypeOK'
    BY <2>1, <2>2 DEF IInv, TypeOK, local, history
  <2>4. KeyMode' /\ BufInv'
    BY <2>1 DEF IInv, KeyMode, BufInv, local
  <2>5. TtyInv'
    BY <2>1 DEF TtyInv, Reading
  <2> QED BY <2>2, <2>3, <2>4, <2>5 DEF IInv
<1> QED BY <1>1, <1>2, <1>3 DEF KeysStep

LEMMA NextIInv == IInv /\ [Next]_vars => IInv'
<1>1. IInv /\ UNCHANGED vars => IInv'
  <2> SUFFICES ASSUME IInv, UNCHANGED vars PROVE IInv'
    OBVIOUS
  <2>1. TypeOK' /\ KeyMode' /\ OneFilter'
    BY DEF vars, IInv, TypeOK, KeyMode, OneFilter
  <2>2. BufInv' /\ TtyInv'
    BY Zenon DEF vars, IInv, BufInv, TtyInv
  <2> QED BY <2>1, <2>2 DEF IInv
<1> QED BY <1>1, OperatorStepStep, ValueStepStep, ApplyStep, DelayStepStep, KeysStepStep
        DEF Next, Dialog, Idle, OperatorStep, ValueStep, DelayStep, KeysStep

-----------------------------------------------------------------------------
(* Lemmas about numbers and texts.                                         *)

\* The function Number stands for, over the prefixes of some digits.
LEMMA NumberFunction ==
    ASSUME NEW s \in Seq(Digits)
    PROVE  \E f \in [0..Len(s) -> Nat] :
              /\ f[0] = 0 /\ \A n \in 1..Len(s) : f[n] = f[n - 1] * 10 + Digit[s[n]]
              /\ Number(s) = f[Len(s)]
<1> DEFINE N == Len(s)
           G == [p \in (0..N) \X Nat |-> IF p[1] = 0 THEN 0 ELSE p[2] * 10 + Digit[s[p[1]]]]
           number == CHOOSE f : f = [n \in 0..N |-> IF n = 0 THEN 0
                                                    ELSE f[n - 1] * 10 + Digit[s[n]]]
<1>1. N \in Nat /\ \A n \in 1..N : Digit[s[n]] \in Nat
  BY LenProperties, ElementOfSeq, LineDialogAssumption
<1>2. G \in [(0..N) \X Nat -> Nat]
  <2>1. \A n \in 0..N : n # 0 => Digit[s[n]] \in Nat
    BY <1>1
  <2> HIDE DEF N
  <2> QED BY <2>1
<1>3. PICK f \in [0..N -> Nat] : Follows(f, 0, G, N)
  <2> HIDE DEF G, N
  <2> QED BY <1>1, <1>2, RecursionExists
<1>4. f[0] = 0 /\ \A n \in 1..N : f[n] = f[n - 1] * 10 + Digit[s[n]]
  <2>1. f[0] = 0
    BY <1>3 DEF Follows
  <2>2. ASSUME NEW n \in 1..N PROVE f[n] = f[n - 1] * 10 + Digit[s[n]]
    <3> HIDE DEF N
    <3>1. n \in 0..N /\ n # 0 /\ n - 1 \in 0..N /\ f[n - 1] \in Nat
      BY <1>1
    <3>2. f[n] = G[<<n, f[n - 1]>>]
      <4> HIDE DEF G
      <4> QED BY <1>3, <3>1 DEF Follows
    <3> QED BY <3>1, <3>2
  <2> QED BY <2>1, <2>2
<1>5. f = [n \in 0..N |-> IF n = 0 THEN 0 ELSE f[n - 1] * 10 + Digit[s[n]]]
  <2> HIDE DEF N
  <2>1. f = [n \in 0..N |-> f[n]]
    OBVIOUS
  <2>2. \A n \in 0..N : f[n] = IF n = 0 THEN 0 ELSE f[n - 1] * 10 + Digit[s[n]]
    BY <1>1, <1>4
  <2> QED BY <2>1, <2>2
<1>6. number = [n \in 0..N |-> IF n = 0 THEN 0 ELSE number[n - 1] * 10 + Digit[s[n]]]
  BY <1>5
<1>7. Number(s) = number[N]
  BY DEF Number
<1> HIDE DEF number, N
<1>8. number[0] = 0 /\ \A n \in 1..N : number[n] = number[n - 1] * 10 + Digit[s[n]]
  BY <1>1, <1>6
<1>9. \A n \in 0..N : number[n] = f[n]
  <2> DEFINE S == {n \in 0..N : number[n] = f[n]}
  <2>1. 0 \in S
    BY <1>1, <1>4, <1>8
  <2>2. \A n \in 0..N - 1 : n \in S => n + 1 \in S
    BY <1>1, <1>4, <1>8
  <2>3. 0..N \subseteq S
    <3> HIDE DEF S
    <3> QED BY <1>1, <2>1, <2>2, BoundedInduction
  <2> QED BY <2>3
<1>10. N \in 0..N
  BY <1>1
<1> QED
  BY <1>4, <1>7, <1>9, <1>10 DEF N

\* The number of some digits, digit by digit.
LEMMA NumberDigits ==
    /\ Number(<<>>) = 0
    /\ \A s \in Seq(Digits) : Number(s) \in Nat
    /\ \A s \in Seq(Digits), c \in Digits : Number(Append(s, c)) = Number(s) * 10 + Digit[c]
<1>1. Number(<<>>) = 0
  <2>1. <<>> \in Seq(Digits) /\ Len(<<>>) = 0
    BY EmptySeq
  <2> QED BY <2>1, NumberFunction
<1>2. ASSUME NEW s \in Seq(Digits) PROVE Number(s) \in Nat
  <2>1. PICK f \in [0..Len(s) -> Nat] : Number(s) = f[Len(s)]
    BY NumberFunction
  <2>2. Len(s) \in 0..Len(s)
    BY LenProperties
  <2> QED BY <2>1, <2>2
<1>3. ASSUME NEW s \in Seq(Digits), NEW c \in Digits
      PROVE  Number(Append(s, c)) = Number(s) * 10 + Digit[c]
  <2>1. PICK t \in Seq(Digits) : /\ t = Append(s, c) /\ Len(t) = Len(s) + 1
                                 /\ \A i \in 1..Len(s) : t[i] = s[i]
                                 /\ t[Len(s) + 1] = c
    BY AppendProperties
  <2>2. PICK n \in Nat : n = Len(s)
    BY LenProperties
  <2>3. PICK f \in [0..n -> Nat] :
           /\ f[0] = 0 /\ \A i \in 1..n : f[i] = f[i - 1] * 10 + Digit[s[i]]
           /\ Number(s) = f[n]
    BY <2>2, NumberFunction
  <2>4. PICK g \in [0..n + 1 -> Nat] :
           /\ g[0] = 0 /\ \A i \in 1..n + 1 : g[i] = g[i - 1] * 10 + Digit[t[i]]
           /\ Number(t) = g[n + 1]
    BY <2>1, <2>2, NumberFunction
  <2> DEFINE S == {i \in 0..n : f[i] = g[i]}
  <2>5. 0 \in S
    BY <2>3, <2>4
  <2>6. ASSUME NEW i \in 0..n - 1, i \in S PROVE i + 1 \in S
    <3>1. /\ i + 1 \in 1..n /\ i + 1 \in 1..n + 1 /\ (i + 1) - 1 = i /\ t[i + 1] = s[i + 1]
          /\ i + 1 \in 0..n
      <4>1. i + 1 \in 1..n /\ i + 1 \in 1..n + 1 /\ (i + 1) - 1 = i /\ i + 1 \in 0..n
        OBVIOUS
      <4>2. \A k \in 1..n : t[k] = s[k]
        BY <2>1, <2>2
      <4> QED BY <4>1, <4>2
    <3>2. f[i + 1] = f[i] * 10 + Digit[s[i + 1]] /\ g[i + 1] = g[i] * 10 + Digit[t[i + 1]]
      BY <2>3, <2>4, <3>1
    <3> QED BY <2>6, <3>1, <3>2
  <2>7. 0..n \subseteq S
    <3> HIDE DEF S
    <3> QED BY <2>5, <2>6, BoundedInduction
  <2>8. f[n] = g[n]
    BY <2>7
  <2>9. g[n + 1] = g[n] * 10 + Digit[c]
    <3>1. n + 1 \in 1..n + 1 /\ (n + 1) - 1 = n /\ t[n + 1] = c
      BY <2>1, <2>2
    <3> QED BY <2>4, <3>1
  <2> QED BY <2>1, <2>3, <2>4, <2>8, <2>9
<1> QED BY <1>1, <1>2, <1>3

\* The function Text stands for, over the prefixes of a text.
LEMMA TextFunction ==
    ASSUME NEW C, NEW s \in Seq(C)
    PROVE  \E f \in [0..Len(s) -> Seq(C)] :
              /\ f[0] = <<>>
              /\ \A n \in 1..Len(s) :
                    f[n] = IF s[n] \in Blanks THEN f[n - 1] ELSE Append(f[n - 1], s[n])
              /\ Text(s) = f[Len(s)]
<1> DEFINE N == Len(s)
           Next1(t, c) == IF c \in Blanks THEN t ELSE Append(t, c)
           G == [p \in (0..N) \X Seq(C) |-> IF p[1] = 0 THEN <<>> ELSE Next1(p[2], s[p[1]])]
           text == CHOOSE f : f = [n \in 0..N |-> IF n = 0 THEN <<>> ELSE Next1(f[n - 1], s[n])]
<1>1. N \in Nat /\ \A n \in 1..N : s[n] \in C
  BY LenProperties, ElementOfSeq
<1>2. \A t \in Seq(C), c \in C : Next1(t, c) \in Seq(C)
  BY AppendProperties
<1>3. <<>> \in Seq(C)
  BY EmptySeq
<1>4. G \in [(0..N) \X Seq(C) -> Seq(C)]
  <2>1. \A n \in 0..N : n # 0 => s[n] \in C
    BY <1>1
  <2> HIDE DEF N, Next1
  <2> QED BY <1>2, <1>3, <2>1
<1>5. PICK f \in [0..N -> Seq(C)] : Follows(f, <<>>, G, N)
  <2> HIDE DEF G, N
  <2> QED BY <1>1, <1>3, <1>4, RecursionExists
<1>6. f[0] = <<>> /\ \A n \in 1..N : f[n] = Next1(f[n - 1], s[n])
  <2>1. f[0] = <<>>
    BY <1>5 DEF Follows
  <2>2. ASSUME NEW n \in 1..N PROVE f[n] = Next1(f[n - 1], s[n])
    <3> HIDE DEF N, Next1
    <3>1. n \in 0..N /\ n # 0 /\ n - 1 \in 0..N /\ f[n - 1] \in Seq(C)
      BY <1>1
    <3>2. f[n] = G[<<n, f[n - 1]>>]
      <4> HIDE DEF G
      <4> QED BY <1>5, <3>1 DEF Follows
    <3> QED BY <3>1, <3>2
  <2> QED BY <2>1, <2>2
<1>7. f = [n \in 0..N |-> IF n = 0 THEN <<>> ELSE Next1(f[n - 1], s[n])]
  <2> HIDE DEF N, Next1
  <2>1. f = [n \in 0..N |-> f[n]]
    OBVIOUS
  <2>2. \A n \in 0..N : f[n] = IF n = 0 THEN <<>> ELSE Next1(f[n - 1], s[n])
    BY <1>1, <1>6
  <2> QED BY <2>1, <2>2
<1>8. text = [n \in 0..N |-> IF n = 0 THEN <<>> ELSE Next1(text[n - 1], s[n])]
  <2> HIDE DEF Next1, N
  <2> QED BY <1>7
<1>9. Text(s) = text[N]
  BY DEF Text
<1> HIDE DEF text, N, Next1
<1>10. text[0] = <<>> /\ \A n \in 1..N : text[n] = Next1(text[n - 1], s[n])
  BY <1>1, <1>8
<1>11. \A n \in 0..N : text[n] = f[n]
  <2> DEFINE S == {n \in 0..N : text[n] = f[n]}
  <2>1. 0 \in S
    BY <1>1, <1>6, <1>10
  <2>2. \A n \in 0..N - 1 : n \in S => n + 1 \in S
    BY <1>1, <1>6, <1>10
  <2>3. 0..N \subseteq S
    <3> HIDE DEF S
    <3> QED BY <1>1, <2>1, <2>2, BoundedInduction
  <2> QED BY <2>3
<1>12. N \in 0..N
  BY <1>1
<1> QED
  BY <1>6, <1>9, <1>11, <1>12 DEF N, Next1

\* A text without its blanks, character by character.
LEMMA TextChars ==
    ASSUME NEW C
    PROVE  /\ Text(<<>>) = <<>>
           /\ \A s \in Seq(C) : Text(s) \in Seq(C)
           /\ \A s \in Seq(C), c \in C :
                 Text(Append(s, c)) = IF c \in Blanks THEN Text(s) ELSE Append(Text(s), c)
<1>1. Text(<<>>) = <<>>
  <2>1. <<>> \in Seq(C) /\ Len(<<>>) = 0
    BY EmptySeq
  <2>2. PICK empty \in Seq(C) : empty = <<>> /\ Len(empty) = 0
    BY <2>1
  <2>3. PICK f : f[0] = <<>> /\ Text(empty) = f[Len(empty)]
    BY TextFunction
  <2> QED BY <2>2, <2>3
<1>2. ASSUME NEW s \in Seq(C) PROVE Text(s) \in Seq(C)
  <2>1. PICK f \in [0..Len(s) -> Seq(C)] : Text(s) = f[Len(s)]
    BY TextFunction
  <2>2. Len(s) \in 0..Len(s)
    BY LenProperties
  <2> QED BY <2>1, <2>2
<1>3. ASSUME NEW s \in Seq(C), NEW c \in C
      PROVE  Text(Append(s, c)) = IF c \in Blanks THEN Text(s) ELSE Append(Text(s), c)
  <2>1. PICK t \in Seq(C) : /\ t = Append(s, c) /\ Len(t) = Len(s) + 1
                            /\ \A i \in 1..Len(s) : t[i] = s[i]
                            /\ t[Len(s) + 1] = c
    BY AppendProperties
  <2>2. PICK n \in Nat : n = Len(s)
    BY LenProperties
  <2>3. PICK f \in [0..n -> Seq(C)] :
           /\ f[0] = <<>>
           /\ \A i \in 1..n : f[i] = IF s[i] \in Blanks THEN f[i - 1] ELSE Append(f[i - 1], s[i])
           /\ Text(s) = f[n]
    BY <2>2, TextFunction
  <2>4. PICK g \in [0..n + 1 -> Seq(C)] :
           /\ g[0] = <<>>
           /\ \A i \in 1..n + 1 :
                 g[i] = IF t[i] \in Blanks THEN g[i - 1] ELSE Append(g[i - 1], t[i])
           /\ Text(t) = g[n + 1]
    <3>1. Len(t) = n + 1
      BY <2>1, <2>2
    <3>2. \E g \in [0..Len(t) -> Seq(C)] :
             /\ g[0] = <<>>
             /\ \A i \in 1..Len(t) :
                   g[i] = IF t[i] \in Blanks THEN g[i - 1] ELSE Append(g[i - 1], t[i])
             /\ Text(t) = g[Len(t)]
      BY TextFunction
    <3> QED BY <3>1, <3>2
  <2> DEFINE S == {i \in 0..n : f[i] = g[i]}
  <2>5. 0 \in S
    BY <2>3, <2>4
  <2>6. ASSUME NEW i \in 0..n - 1, i \in S PROVE i + 1 \in S
    <3>1. /\ i + 1 \in 1..n /\ i + 1 \in 1..n + 1 /\ (i + 1) - 1 = i /\ t[i + 1] = s[i + 1]
          /\ i + 1 \in 0..n
      <4>1. i + 1 \in 1..n /\ i + 1 \in 1..n + 1 /\ (i + 1) - 1 = i /\ i + 1 \in 0..n
        OBVIOUS
      <4>2. \A k \in 1..n : t[k] = s[k]
        BY <2>1, <2>2
      <4> QED BY <4>1, <4>2
    <3>2. /\ f[i + 1] = IF s[i + 1] \in Blanks THEN f[i] ELSE Append(f[i], s[i + 1])
          /\ g[i + 1] = IF t[i + 1] \in Blanks THEN g[i] ELSE Append(g[i], t[i + 1])
      BY <2>3, <2>4, <3>1
    <3> QED BY <2>6, <3>1, <3>2
  <2>7. 0..n \subseteq S
    <3> HIDE DEF S
    <3> QED BY <2>5, <2>6, BoundedInduction
  <2>8. f[n] = g[n]
    BY <2>7
  <2>9. g[n + 1] = IF c \in Blanks THEN g[n] ELSE Append(g[n], c)
    <3>1. n + 1 \in 1..n + 1 /\ (n + 1) - 1 = n /\ t[n + 1] = c
      BY <2>1, <2>2
    <3> QED BY <2>4, <3>1
  <2> QED BY <2>1, <2>3, <2>4, <2>8, <2>9
<1> QED BY <1>1, <1>2, <1>3

\* The characters of a longer text.
LEMMA AppendSet ==
    ASSUME NEW C, NEW s \in Seq(C), NEW c \in C
    PROVE  ToSet(Append(s, c)) = ToSet(s) \cup {c}
<1>1. PICK t \in Seq(C) : /\ t = Append(s, c) /\ Len(t) = Len(s) + 1
                          /\ \A i \in 1..Len(s) : t[i] = s[i]
                          /\ t[Len(s) + 1] = c
  BY AppendProperties
<1>2. Len(s) \in Nat /\ DOMAIN s = 1..Len(s) /\ DOMAIN t = 1..Len(s) + 1
  BY <1>1, LenProperties
<1>3. \A i \in 1..Len(s) + 1 : i \in 1..Len(s) \/ i = Len(s) + 1
  BY <1>2
<1>4. \A i \in 1..Len(s) : i \in 1..Len(s) + 1
  BY <1>2
<1>5. Len(s) + 1 \in 1..Len(s) + 1
  BY <1>2
<1> QED
  BY <1>1, <1>2, <1>3, <1>4, <1>5 DEF ToSet

\* A part of a text, one character longer.
LEMMA PartGrows ==
    ASSUME NEW C, NEW s \in Seq(C), NEW m \in 1..Len(s) + 1, NEW g \in m - 1..Len(s)
    PROVE  /\ SubSeq(s, m, g) \in Seq(C) /\ Len(SubSeq(s, m, g)) = g - m + 1
           /\ \A i \in 1..g - m + 1 : SubSeq(s, m, g)[i] = s[m + i - 1]
           /\ g = m - 1 => SubSeq(s, m, g) = <<>>
           /\ g < Len(s) => SubSeq(s, m, g + 1) = Append(SubSeq(s, m, g), s[g + 1])
<1>1. Len(s) \in Nat
  BY LenProperties
<1>2. \A h \in m - 1..Len(s) :
        /\ SubSeq(s, m, h) \in Seq(C) /\ Len(SubSeq(s, m, h)) = h - m + 1
        /\ \A i \in 1..h - m + 1 : SubSeq(s, m, h)[i] = s[m + i - 1]
  BY <1>1, SubSeqProperties
<1>3. g = m - 1 => SubSeq(s, m, g) = <<>>
  <2>1. g = m - 1 => Len(SubSeq(s, m, g)) = 0
    BY <1>1, <1>2
  <2> QED BY <1>2, <2>1, EmptySeq
<1>4. ASSUME g < Len(s) PROVE SubSeq(s, m, g + 1) = Append(SubSeq(s, m, g), s[g + 1])
  <2>1. g + 1 \in m - 1..Len(s) /\ g \in Int /\ m \in Nat /\ m >= 1
    BY <1>1, <1>4
  <2>2. PICK t \in Seq(C) : t = SubSeq(s, m, g) /\ Len(t) = g - m + 1
                            /\ \A i \in 1..g - m + 1 : t[i] = s[m + i - 1]
    BY <1>2
  <2>3. PICK u \in Seq(C) : u = SubSeq(s, m, g + 1) /\ Len(u) = g - m + 2
                            /\ \A i \in 1..g - m + 2 : u[i] = s[m + i - 1]
    <3>1. g + 1 - m + 1 = g - m + 2
      BY <2>1
    <3>2. PICK h \in m - 1..Len(s) : h = g + 1 /\ h - m + 1 = g - m + 2
      BY <2>1, <3>1
    <3>3. /\ SubSeq(s, m, h) \in Seq(C) /\ Len(SubSeq(s, m, h)) = h - m + 1
          /\ \A i \in 1..h - m + 1 : SubSeq(s, m, h)[i] = s[m + i - 1]
      BY <1>2
    <3> QED BY <3>2, <3>3
  <2>4. s[g + 1] \in C
    BY <1>1, <1>4, <2>1, ElementOfSeq
  <2>5. PICK a \in Seq(C) : /\ a = Append(t, s[g + 1]) /\ Len(a) = Len(t) + 1
                            /\ \A i \in 1..Len(t) : a[i] = t[i]
                            /\ a[Len(t) + 1] = s[g + 1]
    <3>1. PICK c \in C : c = s[g + 1]
      BY <2>4
    <3>2. /\ Append(t, c) \in Seq(C) /\ Len(Append(t, c)) = Len(t) + 1
          /\ \A i \in 1..Len(t) : Append(t, c)[i] = t[i]
          /\ Append(t, c)[Len(t) + 1] = c
      BY AppendProperties
    <3> QED BY <3>1, <3>2
  <2>6. PICK n \in Nat : n = g - m + 1
    BY <2>1
  <2>7. ASSUME NEW i \in 1..n + 1 PROVE u[i] = a[i]
    <3>1. i \in 1..g - m + 2 /\ u[i] = s[m + i - 1]
      BY <2>1, <2>3, <2>6
    <3>2. CASE i = n + 1
      <4>1. m + i - 1 = g + 1 /\ i = Len(t) + 1
        BY <2>1, <2>2, <2>6, <3>2
      <4> QED BY <2>5, <3>1, <4>1
    <3>3. CASE i # n + 1
      <4>1. i \in 1..n
        BY <3>3
      <4> QED BY <2>2, <2>5, <2>6, <3>1, <4>1
    <3> QED BY <3>2, <3>3
  <2>8. Len(u) = n + 1 /\ Len(a) = n + 1
    BY <2>1, <2>2, <2>3, <2>5, <2>6
  <2>9. u = a
    BY <2>7, <2>8, SeqEqual
  <2> QED BY <2>2, <2>3, <2>5, <2>9
<1> QED BY <1>1, <1>2, <1>3, <1>4

LEMMA DigitValues == \A d \in Digits : Digit[d] \in Nat
BY LineDialogAssumption

\* A text and its text without blanks have the same other characters.
LEMMA TextSet ==
    ASSUME NEW C, NEW s \in Seq(C)
    PROVE  ToSet(Text(s)) = ToSet(s) \ Blanks
<1> DEFINE S == {g \in 0..Len(s) : ToSet(Text(SubSeq(s, 1, g))) = ToSet(SubSeq(s, 1, g)) \ Blanks}
<1>1. PICK N \in Nat : N = Len(s) /\ 1 \in 1..N + 1
  BY LenProperties
<1>2. \A g \in 0..N :
        /\ SubSeq(s, 1, g) \in Seq(C)
        /\ g = 0 => SubSeq(s, 1, g) = <<>>
        /\ g < N => SubSeq(s, 1, g + 1) = Append(SubSeq(s, 1, g), s[g + 1])
  <2>1. \A m \in 1..N + 1 : \A g \in m - 1..N :
          /\ SubSeq(s, m, g) \in Seq(C)
          /\ g = m - 1 => SubSeq(s, m, g) = <<>>
          /\ g < N => SubSeq(s, m, g + 1) = Append(SubSeq(s, m, g), s[g + 1])
    BY <1>1, PartGrows
  <2>2. 1 \in 1..N + 1 /\ 1 - 1 = 0
    BY <1>1
  <2> QED BY <2>1, <2>2
<1>3. 0 \in S
  <2>1. Text(<<>>) = <<>>
    BY TextChars
  <2>2. ToSet(<<>>) = {}
    BY DEF ToSet
  <2>3. 0 \in 0..N /\ 0 \in 0..Len(s)
    BY <1>1
  <2>4. SubSeq(s, 1, 0) = <<>>
    BY <1>2, <2>3
  <2> QED BY <2>1, <2>2, <2>3, <2>4
<1>4. ASSUME NEW g \in 0..N - 1, g \in S PROVE g + 1 \in S
  <2>1. PICK t \in Seq(C) : t = SubSeq(s, 1, g)
    <3>1. g \in 0..N
      OBVIOUS
    <3>2. SubSeq(s, 1, g) \in Seq(C)
      BY <1>2, <3>1
    <3> QED BY <3>2
  <2>2. PICK c \in C : c = s[g + 1]
    <3>1. g + 1 \in 1..Len(s)
      BY <1>1
    <3> QED BY <3>1, ElementOfSeq
  <2>3. SubSeq(s, 1, g + 1) = Append(t, c) /\ g + 1 \in 0..Len(s)
    BY <1>1, <1>2, <2>1, <2>2
  <2>4. Text(Append(t, c)) = IF c \in Blanks THEN Text(t) ELSE Append(Text(t), c)
    BY TextChars
  <2>5. Text(t) \in Seq(C)
    BY TextChars
  <2>6. /\ ToSet(Append(t, c)) = ToSet(t) \cup {c}
        /\ ToSet(Append(Text(t), c)) = ToSet(Text(t)) \cup {c}
    BY <2>5, AppendSet
  <2>7. ToSet(Text(t)) = ToSet(t) \ Blanks
    BY <1>4, <2>1
  <2>8. ToSet(Text(Append(t, c))) = ToSet(Append(t, c)) \ Blanks
    BY <2>4, <2>6, <2>7
  <2> QED BY <2>3, <2>8
<1>5. 0..N \subseteq S
  <2> HIDE DEF S
  <2> QED BY <1>3, <1>4, BoundedInduction
<1>6. SubSeq(s, 1, N) = s /\ N \in S
  BY <1>1, <1>5, SubSeqFull
<1> QED BY <1>1, <1>6

\* More of a text never makes its text without blanks shorter, nor its number smaller.
LEMMA PartsGrow ==
    ASSUME NEW C, NEW s \in Seq(C), NEW m \in 1..Len(s) + 1,
           NEW g \in m - 1..Len(s), NEW h \in m - 1..Len(s), g <= h
    PROVE  /\ Len(Text(SubSeq(s, m, g))) <= Len(Text(SubSeq(s, m, h)))
           /\ C \subseteq Digits => Number(SubSeq(s, m, g)) <= Number(SubSeq(s, m, h))
<1>1. PICK N \in Nat : N = Len(s)
  BY LenProperties
<1>2. PICK a \in Nat : a = h - g
  BY <1>1
<1> DEFINE P(n) == SubSeq(s, m, g + n)
           S == {n \in 0..a : /\ Len(Text(P(0))) <= Len(Text(P(n)))
                              /\ C \subseteq Digits => Number(P(0)) <= Number(P(n))}
<1>3. \A n \in 0..a :
        /\ P(n) \in Seq(C)
        /\ n < a => P(n + 1) = Append(P(n), s[g + n + 1]) /\ s[g + n + 1] \in C
  <2>1. \A k \in m - 1..N : /\ SubSeq(s, m, k) \in Seq(C)
                            /\ k < N => SubSeq(s, m, k + 1) = Append(SubSeq(s, m, k), s[k + 1])
    BY <1>1, PartGrows
  <2>2. ASSUME NEW n \in 0..a
        PROVE  /\ g + n \in m - 1..N /\ g + (n + 1) = (g + n) + 1
               /\ n < a => g + n < N /\ g + n + 1 \in 1..N
    BY <1>1, <1>2
  <2>3. \A k \in 1..N : s[k] \in C
    BY <1>1, ElementOfSeq
  <2> QED BY <2>1, <2>2, <2>3
<1>4. \A t \in Seq(C) : /\ Text(t) \in Seq(C) /\ Len(Text(t)) \in Nat
                        /\ C \subseteq Digits => Number(t) \in Nat
  <2>1. \A t \in Seq(C) : C \subseteq Digits => t \in Seq(Digits)
    OBVIOUS
  <2> QED BY <2>1, TextChars, LenProperties, NumberDigits
<1>5. 0 \in S
  <2>1. 0 \in 0..a
    BY <1>2
  <2>2. PICK z \in Seq(C) : z = P(0)
    <3> HIDE DEF P
    <3> QED BY <1>3, <2>1
  <2>3. Len(Text(z)) <= Len(Text(z)) /\ (C \subseteq Digits => Number(z) <= Number(z))
    BY <1>4
  <2> HIDE DEF P
  <2> QED BY <2>1, <2>2, <2>3
<1>6. ASSUME NEW n \in 0..a - 1, n \in S PROVE n + 1 \in S
  <2>1. PICK t \in Seq(C), c \in C : t = P(n) /\ P(n + 1) = Append(t, c)
    <3>1. n \in 0..a /\ n < a
      BY <1>2
    <3> HIDE DEF P
    <3> QED BY <1>3, <3>1
  <2>2. PICK z \in Seq(C) : z = P(0)
    <3>1. 0 \in 0..a
      BY <1>2
    <3> HIDE DEF P
    <3> QED BY <1>3, <3>1
  <2>3. Len(Text(t)) <= Len(Text(Append(t, c)))
    <3>1. Text(Append(t, c)) = IF c \in Blanks THEN Text(t) ELSE Append(Text(t), c)
      BY TextChars
    <3>2. PICK u \in Seq(C) : u = Text(t) /\ Len(u) \in Nat
      BY <1>4
    <3>3. Len(Append(u, c)) = Len(u) + 1
      BY AppendProperties
    <3> QED BY <3>1, <3>2, <3>3
  <2>4. C \subseteq Digits => Number(t) <= Number(Append(t, c))
    <3> SUFFICES ASSUME C \subseteq Digits PROVE Number(t) <= Number(Append(t, c))
      OBVIOUS
    <3>1. t \in Seq(Digits) /\ c \in Digits
      OBVIOUS
    <3>2. Number(Append(t, c)) = Number(t) * 10 + Digit[c] /\ Number(t) \in Nat
      BY <3>1, NumberDigits
    <3>3. Digit[c] \in Nat
      BY <3>1, DigitValues
    <3> QED BY <3>2, <3>3
  <2>5. Append(t, c) \in Seq(C)
    BY AppendProperties
  <2>6. /\ Len(Text(z)) \in Nat /\ Len(Text(t)) \in Nat /\ Len(Text(Append(t, c))) \in Nat
        /\ C \subseteq Digits => /\ Number(z) \in Nat /\ Number(t) \in Nat
                                 /\ Number(Append(t, c)) \in Nat
    BY <1>4, <2>5
  <2>7. Len(Text(z)) <= Len(Text(t)) /\ (C \subseteq Digits => Number(z) <= Number(t))
    BY <1>6, <2>1, <2>2
  <2>8. /\ Len(Text(z)) <= Len(Text(Append(t, c)))
        /\ C \subseteq Digits => Number(z) <= Number(Append(t, c))
    BY <2>3, <2>4, <2>6, <2>7
  <2>9. n + 1 \in 0..a
    BY <1>2
  <2> HIDE DEF P
  <2> QED BY <2>1, <2>2, <2>8, <2>9
<1>7. 0..a \subseteq S
  <2> HIDE DEF S
  <2> QED BY <1>5, <1>6, BoundedInduction
<1>8. a \in 0..a
  BY <1>2
<1>9. g + 0 = g /\ g + a = h
  BY <1>1, <1>2
<1> QED BY <1>7, <1>8, <1>9

LEMMA Division ==
    ASSUME NEW w \in Nat \ {0}, NEW b \in Nat
    PROVE  \E q \in Nat, r \in 0..w - 1 : b = w * q + r /\ r = b % w
<1>1. b % w \in 0..w - 1 /\ b \div w \in Nat /\ b = w * (b \div w) + (b % w)
  OBVIOUS
<1> QED BY <1>1

LEMMA RemainderUnique ==
    ASSUME NEW w \in Nat \ {0}, NEW q \in Nat, NEW p \in Nat, q <= p,
           NEW r \in 0..w - 1, NEW s \in 0..w - 1, w * q + r = w * p + s
    PROVE  r = s
<1>1. CASE q = p
  BY <1>1
<1>2. CASE q < p
  <2>1. PICK k \in Nat : p = q + 1 + k
    <3>1. p - q - 1 \in Nat
      BY <1>2
    <3> QED BY <3>1
  <2>2. w * p = w * q + w + w * k
    BY <2>1
  <2>3. w * k >= 0
    BY <2>1
  <2> QED BY <2>2, <2>3
<1> QED BY <1>1, <1>2

\* What is left of a number of WordBits bits is left of it a digit later.
LEMMA Wraps ==
    ASSUME NEW words \in Nat \ {0}, NEW n \in Nat, NEW d \in Nat
    PROVE  ((n % words) * 10 + d) % words = (n * 10 + d) % words
<1>1. PICK q \in Nat, r \in 0..words - 1 : n = words * q + r /\ r = n % words
  BY Division
<1>2. PICK b \in Nat : b = r * 10 + d
  <2>1. r * 10 + d \in Nat
    OBVIOUS
  <2> QED BY <2>1
<1>3. PICK a \in Nat : a = n * 10 + d
  OBVIOUS
<1>4. PICK p \in Nat, s \in 0..words - 1 : b = words * p + s /\ s = b % words
  BY Division
<1>5. PICK o \in Nat, t \in 0..words - 1 : a = words * o + t /\ t = a % words
  BY Division
<1>6. PICK k \in Nat : k = q * 10 + p
  OBVIOUS
<1>7. a = words * k + s
  <2>1. words * (q * 10 + p) = (words * q) * 10 + words * p
    OBVIOUS
  <2>2. words * k = (words * q) * 10 + words * p
    BY <1>6, <2>1
  <2>3. PICK x \in Nat, z \in Nat : x = words * q /\ z = words * p
    OBVIOUS
  <2>4. n = x + r /\ b = z + s /\ words * k = x * 10 + z
    BY <1>1, <1>4, <2>2, <2>3
  <2>5. a = (x * 10 + z) + s
    BY <1>2, <1>3, <2>4
  <2> QED BY <2>4, <2>5
<1>8. k <= o \/ o <= k
  OBVIOUS
<1>9. s = t
  <2>1. words * k + s = words * o + t
    BY <1>5, <1>7
  <2>2. CASE k <= o
    BY <2>1, <2>2, RemainderUnique
  <2>3. CASE o <= k
    BY <2>1, <2>3, RemainderUnique
  <2> QED BY <1>8, <2>2, <2>3
<1> QED
  BY <1>1, <1>2, <1>3, <1>4, <1>5, <1>9

LEMMA MaxIs ==
    ASSUME NEW S \in SUBSET Nat, NEW m \in S, \A k \in S : k <= m
    PROVE  Max(S) = m
<1>1. \A w \in S : (\A k \in S : w >= k) => w = m
  OBVIOUS
<1>2. \A k \in S : m >= k
  OBVIOUS
<1> QED
  BY <1>1, <1>2, Zenon DEF Max

\* The operators of one character and of two.
LEMMA OperatorTexts ==
    ASSUME NEW a, NEW b
    PROVE  /\ <<a>> \in DOMAIN Operators <=> a \in DOMAIN First
           /\ a \in DOMAIN First => Operators[<<a>>] = First[a]
           /\ <<a, b>> \in DOMAIN Operators <=> b \in DOMAIN Second(a)
           /\ b \in DOMAIN Second(a) => Operators[<<a, b>>] = Second(a)[b]
<1>1. /\ \A x : <<a>> = <<x>> <=> a = x
      /\ \A x, z : <<a, b>> = <<x, z>> <=> a = x /\ b = z
      /\ \A x, z : <<a>> # <<x, z>> /\ <<a, b>> # <<x>>
  OBVIOUS
<1>2. CASE kind = "address"
  <2>1. DOMAIN Second(a) = IF a = "!" THEN {"="} ELSE {}
    BY <1>2 DEF Second
  <2>2. <<a>> \in DOMAIN Operators <=> a \in DOMAIN First
    BY <1>1, <1>2 DEF Operators, First
  <2>3. a \in DOMAIN First => Operators[<<a>>] = First[a]
    BY <1>1, <1>2 DEF Operators, First
  <2>4. <<a, b>> \in DOMAIN Operators <=> b \in DOMAIN Second(a)
    BY <1>1, <1>2, <2>1 DEF Operators
  <2>5. b \in DOMAIN Second(a) => Operators[<<a, b>>] = Second(a)[b]
    BY <1>1, <1>2, <2>1 DEF Operators, Second
  <2> QED BY <2>2, <2>3, <2>4, <2>5
<1>3. CASE kind # "address"
  <2>1. DOMAIN Second(a) = IF a = "!" THEN {"=", "~"} ELSE IF a \in {">", "<"} THEN {"="} ELSE {}
    BY <1>3 DEF Second
  <2>2. <<a>> \in DOMAIN Operators <=> a \in DOMAIN First
    BY <1>1, <1>3 DEF Operators, First
  <2>3. a \in DOMAIN First => Operators[<<a>>] = First[a]
    BY <1>1, <1>3 DEF Operators, First
  <2>4. <<a, b>> \in DOMAIN Operators <=> b \in DOMAIN Second(a)
    BY <1>1, <1>3, <2>1 DEF Operators
  <2>5. b \in DOMAIN Second(a) => Operators[<<a, b>>] = Second(a)[b]
    BY <1>1, <1>3, <2>1 DEF Operators, Second
  <2> QED BY <2>2, <2>3, <2>4, <2>5
<1> QED BY <1>2, <1>3

-----------------------------------------------------------------------------
(* Lemmas about the operator of a line.                                    *)

LEMMA TrimmedEmpty ==
    ASSUME NEW C, NEW s \in Seq(C), \A i \in 1..Len(s) : s[i] \in Blanks
    PROVE  Trimmed(s) = <<>>
<1>1. DOMAIN s = 1..Len(s)
  BY LenProperties
<1>2. ToSet(s) \subseteq Blanks
  BY <1>1 DEF ToSet
<1> QED BY <1>2 DEF Trimmed

LEMMA TrimmedFrom ==
    ASSUME NEW C, NEW s \in Seq(C), NEW g \in 1..Len(s),
           \A i \in 1..g - 1 : s[i] \in Blanks, s[g] \notin Blanks
    PROVE  /\ Trimmed(s) = SubSeq(s, g, Len(s)) /\ Trimmed(s) \in Seq(C)
           /\ Len(Trimmed(s)) = Len(s) - g + 1
           /\ \A i \in 1..Len(s) - g + 1 : Trimmed(s)[i] = s[g + i - 1]
<1>1. Len(s) \in Nat /\ DOMAIN s = 1..Len(s)
  BY LenProperties
<1> DEFINE S == {i \in DOMAIN s : s[i] \notin Blanks}
<1>2. S \in SUBSET Nat /\ g \in S
  BY <1>1
<1>3. Min(S) = g
  <2>1. Min(S) \in S /\ Min(S) <= g
    <3> HIDE DEF S
    <3> QED BY <1>2, MinIsLeast
  <2>2. ~(Min(S) < g)
    BY <1>1, <2>1
  <2> QED BY <1>2, <2>1, <2>2
<1>4. Trimmed(s) = SubSeq(s, g, Len(s))
  <2>1. ~(ToSet(s) \subseteq Blanks)
    BY <1>1 DEF ToSet
  <2> QED BY <1>3, <2>1 DEF Trimmed
<1>5. g \in 1..Len(s) + 1 /\ Len(s) \in g - 1..Len(s)
  BY <1>1
<1> QED BY <1>4, <1>5, PartGrows

\* How long the operator is that a text begins with.
LEMMA OpLenOf ==
    ASSUME NEW C, NEW t \in Seq(C), Len(t) > 0
    PROVE  /\ OpLen(t) = IF Len(t) > 1 /\ t[2] \in DOMAIN Second(t[1]) THEN 2
                         ELSE IF t[1] \in DOMAIN First THEN 1 ELSE 0
           /\ SubSeq(t, 1, 1) = <<t[1]>>
           /\ Len(t) > 1 => SubSeq(t, 1, 2) = <<t[1], t[2]>>
<1>1. PICK N \in Nat : N = Len(t) /\ N > 0
  BY LenProperties
<1>2. /\ t[1] \in C /\ (N > 1 => t[2] \in C)
      /\ \A i \in 1..N : t[i] \in C
  BY <1>1, ElementOfSeq
<1>3. SubSeq(t, 1, 1) = <<t[1]>>
  <2>1. /\ SubSeq(t, 1, 1) \in Seq(C) /\ Len(SubSeq(t, 1, 1)) = 1
        /\ SubSeq(t, 1, 1)[1] = t[1]
    <3>1. \A i \in 1..1 : t[i] \in C
      BY <1>2
    <3>2. 1 <= 1 /\ 1 - 1 + 1 = 1 /\ 1 \in 1..1 /\ 1 + 1 - 1 = 1
      OBVIOUS
    <3> QED BY <3>1, <3>2, SubSeqProperties
  <2>2. PICK u \in Seq(C) : u = SubSeq(t, 1, 1) /\ Len(u) = 1 /\ u[1] = t[1]
    BY <2>1
  <2>3. PICK c \in C : c = t[1]
    BY <1>2
  <2>4. Len(u) = 1 /\ u[1] = c
    BY <2>2, <2>3
  <2>5. u = <<c>>
    BY <2>4
  <2> QED BY <2>2, <2>3, <2>5
<1>4. ASSUME N > 1 PROVE SubSeq(t, 1, 2) = <<t[1], t[2]>>
  <2>1. /\ SubSeq(t, 1, 2) \in Seq(C) /\ Len(SubSeq(t, 1, 2)) = 2
        /\ \A i \in 1..2 : SubSeq(t, 1, 2)[i] = t[1 + i - 1]
    <3>1. \A i \in 1..2 : t[i] \in C
      BY <1>1, <1>2, <1>4
    <3>2. 1 <= 2 /\ 2 - 1 + 1 = 2
      OBVIOUS
    <3> QED BY <3>1, <3>2, SubSeqProperties
  <2>2. PICK u \in Seq(C) : u = SubSeq(t, 1, 2) /\ Len(u) = 2 /\ u[1] = t[1] /\ u[2] = t[2]
    <3>1. 1 + 1 - 1 = 1 /\ 1 + 2 - 1 = 2 /\ 1 \in 1..2 /\ 2 \in 1..2
      OBVIOUS
    <3> QED BY <2>1, <3>1
  <2>3. PICK c \in C, d \in C : c = t[1] /\ d = t[2]
    BY <1>2, <1>4
  <2>4. Len(u) = 2 /\ u[1] = c /\ u[2] = d
    BY <2>2, <2>3
  <2>5. u = <<c, d>>
    BY <2>4
  <2> QED BY <2>2, <2>3, <2>5
<1> DEFINE S == {0} \cup {k \in {1, 2} : k <= Len(t) /\ SubSeq(t, 1, k) \in DOMAIN Operators}
<1>5. /\ S \in SUBSET Nat /\ 0 \in S
      /\ 1 \in S <=> t[1] \in DOMAIN First
      /\ 2 \in S <=> N > 1 /\ t[2] \in DOMAIN Second(t[1])
      /\ \A k \in S : k \in {0, 1, 2}
  <2>0. \A k \in {1, 2} : k \in S <=> k <= Len(t) /\ SubSeq(t, 1, k) \in DOMAIN Operators
    <3> DEFINE T == {k \in {1, 2} : k <= Len(t) /\ SubSeq(t, 1, k) \in DOMAIN Operators}
    <3>1. \A k \in {1, 2} : k \in T <=> k <= Len(t) /\ SubSeq(t, 1, k) \in DOMAIN Operators
      BY Zenon
    <3>2. \A k \in {1, 2} : k # 0
      OBVIOUS
    <3>3. S = {0} \cup T
      BY Zenon
    <3> HIDE DEF S, T
    <3> QED BY <3>1, <3>2, <3>3
  <2>1. 1 \in S <=> <<t[1]>> \in DOMAIN Operators
    <3> HIDE DEF S
    <3>1. 1 \in S <=> SubSeq(t, 1, 1) \in DOMAIN Operators
      BY <1>1, <2>0
    <3> QED BY <1>3, <3>1, Zenon
  <2>2. 2 \in S <=> N > 1 /\ <<t[1], t[2]>> \in DOMAIN Operators
    <3> HIDE DEF S
    <3>1. 2 \in S <=> N > 1 /\ SubSeq(t, 1, 2) \in DOMAIN Operators
      BY <1>1, <2>0
    <3> QED BY <1>4, <3>1, Zenon
  <2>3. /\ <<t[1]>> \in DOMAIN Operators <=> t[1] \in DOMAIN First
        /\ <<t[1], t[2]>> \in DOMAIN Operators <=> t[2] \in DOMAIN Second(t[1])
    BY OperatorTexts
  <2>4. S \in SUBSET Nat /\ 0 \in S /\ \A k \in S : k \in {0, 1, 2}
    OBVIOUS
  <2> QED BY <2>1, <2>2, <2>3, <2>4
<1>6. OpLen(t) = Max(S)
  BY DEF OpLen
<1>7. \A m \in S : (\A k \in S : k <= m) => Max(S) = m
  <2> HIDE DEF S
  <2> QED BY <1>5, MaxIs
<1> HIDE DEF S
<1>8. CASE 2 \in S
  <2>1. Max(S) = 2
    BY <1>5, <1>7, <1>8
  <2> QED BY <1>1, <1>3, <1>4, <1>5, <1>6, <1>8, <2>1
<1>9. CASE 2 \notin S /\ 1 \in S
  <2>1. \A k \in S : k <= 1
    BY <1>5, <1>9
  <2>2. Max(S) = 1
    BY <1>7, <1>9, <2>1
  <2> QED BY <1>1, <1>3, <1>4, <1>5, <1>6, <1>9, <2>2
<1>10. CASE 2 \notin S /\ 1 \notin S
  <2>1. \A k \in S : k <= 0
    BY <1>5, <1>10
  <2>2. Max(S) = 0
    BY <1>5, <1>7, <2>1
  <2> QED BY <1>1, <1>3, <1>4, <1>5, <1>6, <1>10, <2>2
<1> QED BY <1>8, <1>9, <1>10

\* Line s has operator o, and what follows it starts at place m.
OperatorRead(s, m, o) ==
    LET t == Trimmed(s)
        n == OpLen(t)
    IN  /\ t # <<>> /\ n # 0
        /\ o = Operators[SubSeq(t, 1, n)]
        /\ SubSeq(t, n + 1, Len(t)) = SubSeq(s, m, Len(s))

LEMMA OperatorFound ==
    ASSUME NEW C, NEW s \in Seq(C), NEW g \in 1..Len(s),
           \A i \in 1..g - 1 : s[i] \in Blanks, s[g] \notin Blanks
    PROVE  LET two == g < Len(s) /\ s[g + 1] \in DOMAIN Second(s[g]) IN
           /\ two => OperatorRead(s, g + 2, Second(s[g])[s[g + 1]])
           /\ ~two /\ s[g] \in DOMAIN First => OperatorRead(s, g + 1, First[s[g]])
           /\ ~two /\ s[g] \notin DOMAIN First => Trimmed(s) # <<>> /\ OpLen(Trimmed(s)) = 0
<1>1. PICK N \in Nat : N = Len(s)
  BY LenProperties
<1>2. PICK t \in Seq(C) : /\ t = Trimmed(s) /\ t = SubSeq(s, g, N) /\ Len(t) = N - g + 1
                          /\ \A i \in 1..N - g + 1 : t[i] = s[g + i - 1]
  BY <1>1, TrimmedFrom
<1>3. Len(t) > 0 /\ t[1] = s[g] /\ (Len(t) > 1 <=> g < N) /\ (g < N => t[2] = s[g + 1])
  <2>1. /\ 1 \in 1..N - g + 1 /\ g + 1 - 1 = g /\ g + 2 - 1 = g + 1
        /\ g < N => 2 \in 1..N - g + 1
    BY <1>1
  <2> QED BY <1>1, <1>2, <2>1
<1>4. t # <<>>
  BY <1>3
<1>5. /\ OpLen(t) = IF Len(t) > 1 /\ t[2] \in DOMAIN Second(t[1]) THEN 2
                    ELSE IF t[1] \in DOMAIN First THEN 1 ELSE 0
      /\ SubSeq(t, 1, 1) = <<t[1]>>
      /\ Len(t) > 1 => SubSeq(t, 1, 2) = <<t[1], t[2]>>
  BY <1>3, OpLenOf
<1>6. \A n \in 0..Len(t) : SubSeq(t, n + 1, Len(t)) = SubSeq(s, g + n, N)
  <2> SUFFICES ASSUME NEW n \in 0..Len(t)
               PROVE  SubSeq(t, n + 1, Len(t)) = SubSeq(s, g + n, N)
    OBVIOUS
  <2>1. PICK L \in Nat : L = Len(t)
    BY LenProperties
  <2>2. L = N - g + 1
    BY <1>2, <2>1
  <2>3. PICK m \in 1..L + 1, k \in 1..N + 1 : m = n + 1 /\ k = g + n
    <3>1. n + 1 \in 1..L + 1 /\ g + n \in 1..N + 1
      BY <1>1, <2>1, <2>2
    <3> QED BY <3>1
  <2>4. PICK u \in Seq(C) : /\ u = SubSeq(t, n + 1, Len(t)) /\ Len(u) = L - n
                            /\ \A i \in 1..L - n : u[i] = t[n + i]
    <3>1. m \in 1..Len(t) + 1 /\ L \in m - 1..Len(t)
      BY <2>1, <2>3
    <3>2. /\ SubSeq(t, m, L) \in Seq(C) /\ Len(SubSeq(t, m, L)) = L - m + 1
          /\ \A i \in 1..L - m + 1 : SubSeq(t, m, L)[i] = t[m + i - 1]
      BY <3>1, PartGrows
    <3>3. L - m + 1 = L - n /\ \A i \in 1..L - n : m + i - 1 = n + i
      BY <2>1, <2>3
    <3>4. /\ SubSeq(t, m, L) \in Seq(C) /\ Len(SubSeq(t, m, L)) = L - n
          /\ \A i \in 1..L - n : SubSeq(t, m, L)[i] = t[n + i]
      BY <3>2, <3>3
    <3>5. SubSeq(t, m, L) = SubSeq(t, n + 1, Len(t))
      BY <2>1, <2>3
    <3> QED BY <3>4, <3>5
  <2>5. PICK w \in Seq(C) : /\ w = SubSeq(s, g + n, N) /\ Len(w) = L - n
                            /\ \A i \in 1..L - n : w[i] = s[g + n + i - 1]
    <3>1. k \in 1..Len(s) + 1 /\ N \in k - 1..Len(s)
      BY <1>1, <2>1, <2>2, <2>3
    <3>2. /\ SubSeq(s, k, N) \in Seq(C) /\ Len(SubSeq(s, k, N)) = N - k + 1
          /\ \A i \in 1..N - k + 1 : SubSeq(s, k, N)[i] = s[k + i - 1]
      BY <3>1, PartGrows
    <3>3. N - k + 1 = L - n
      BY <1>1, <2>2, <2>3
    <3>4. /\ SubSeq(s, k, N) \in Seq(C) /\ Len(SubSeq(s, k, N)) = L - n
          /\ \A i \in 1..L - n : SubSeq(s, k, N)[i] = s[k + i - 1]
      BY <3>2, <3>3
    <3> QED BY <2>3, <3>4
  <2>6. ASSUME NEW i \in 1..L - n PROVE u[i] = w[i]
    <3>1. n + i \in 1..N - g + 1 /\ g + (n + i) - 1 = g + n + i - 1
      BY <1>1, <2>1, <2>2
    <3>2. t[n + i] = s[g + (n + i) - 1]
      BY <1>2, <3>1
    <3> QED BY <2>4, <2>5, <3>1, <3>2
  <2>7. u = w
    BY <2>4, <2>5, <2>6, SeqEqual
  <2> QED BY <2>4, <2>5, <2>7
<1>7. /\ t[1] \in DOMAIN First => Operators[<<t[1]>>] = First[t[1]]
      /\ t[2] \in DOMAIN Second(t[1]) => Operators[<<t[1], t[2]>>] = Second(t[1])[t[2]]
  BY OperatorTexts
<1>8. ASSUME g < N, s[g + 1] \in DOMAIN Second(s[g])
      PROVE  OperatorRead(s, g + 2, Second(s[g])[s[g + 1]])
  <2>1. OpLen(t) = 2 /\ 2 \in 0..Len(t)
    BY <1>1, <1>2, <1>3, <1>5, <1>8
  <2>2. SubSeq(t, 2 + 1, Len(t)) = SubSeq(s, g + 2, N)
    BY <1>6, <2>1
  <2>3. Second(s[g])[s[g + 1]] = Operators[SubSeq(t, 1, 2)]
    BY <1>3, <1>5, <1>7, <1>8
  <2> QED BY <1>1, <1>2, <1>4, <2>1, <2>2, <2>3 DEF OperatorRead
<1>9. ASSUME ~(g < N /\ s[g + 1] \in DOMAIN Second(s[g])), s[g] \in DOMAIN First
      PROVE  OperatorRead(s, g + 1, First[s[g]])
  <2>1. OpLen(t) = 1 /\ 1 \in 0..Len(t)
    BY <1>1, <1>2, <1>3, <1>5, <1>9
  <2>2. SubSeq(t, 1 + 1, Len(t)) = SubSeq(s, g + 1, N)
    BY <1>6, <2>1
  <2>3. First[s[g]] = Operators[SubSeq(t, 1, 1)]
    BY <1>3, <1>5, <1>7, <1>9
  <2> QED BY <1>1, <1>2, <1>4, <2>1, <2>2, <2>3 DEF OperatorRead
<1>10. ASSUME ~(g < N /\ s[g + 1] \in DOMAIN Second(s[g])), s[g] \notin DOMAIN First
       PROVE  Trimmed(s) # <<>> /\ OpLen(Trimmed(s)) = 0
  BY <1>2, <1>3, <1>4, <1>5, <1>10
<1> QED BY <1>1, <1>8, <1>9, <1>10

-----------------------------------------------------------------------------
(* The invariant for the meaning of a line.                                *)

\* How much of the line has been read.
Got == Len(line) + 2 - Len(tty)

\* The value read so far, if it starts at place m of the line.
Upto(m, g) == IF kind = "string" THEN SubSeq(line, m, g) ELSE Text(SubSeq(line, m, g))

LineInv ==
    pc \in Reading =>
        /\ line \in Seq(ToSet(line)) /\ NL \notin ToSet(line)
        /\ Got \in 0..Len(line)
        /\ \A i \in 1..Len(line) - Got : tty[i] = line[Got + i]

\* Nothing is changed before the line has been read.
OldInv ==
    /\ pc \in Reading \cup {"apply"} => old = IF kind = "delay" THEN <<delay>> ELSE filter
    /\ pc \in Reading \cup {"apply"} => (pc = "delay" => kind = "delay")
    /\ pc \in (Reading \ {"skip", "delay"}) \cup {"apply"} => kind # "delay"

FreshInv ==
    pc \in {"op", "!", ">", "<"} \/ (pc = "keys" /\ tty = <<>>) =>
        buf = <<>> /\ v = 0 /\ seen_input = FALSE

\* Only blanks were read, and then what an operator begins with.
OpInv ==
    /\ pc = "op" => \A i \in 1..Got : line[i] \in Blanks
    /\ pc \in {"!", ">", "<"} =>
          /\ Got >= 1 /\ line[Got] = pc
          /\ \A i \in 1..Got - 1 : line[i] \in Blanks
          /\ pc # "!" => pc \in DOMAIN First /\ op = First[pc]

\* The operator, and the value up to here, are what they are in the line.
ValueInv ==
    pc = "value" =>
        \E m \in 1..Got + 1 :
            /\ OperatorRead(line, m, op)
            /\ ToSet(Upto(m, Got)) \subseteq Accepted
            /\ seen_input <=> Upto(m, Got) # <<>>
            /\ kind = "number" => v = Number(Upto(m, Got)) % 2^WordBits /\ buf = <<>>
            /\ kind # "number" => buf = Upto(m, Got)

ApplyInv ==
    pc = "apply" =>
        /\ <<1, filter>> \in Meaning(filter)
        /\ (kind = "address" => IsAddress(buf)) => <<0, <<op, Value>>>> \in Meaning(filter)

DelayInv ==
    pc = "delay" => /\ \A i \in 1..Got : line[i] \in Digits
                    /\ v = Number(SubSeq(line, 1, Got))
                    /\ v <= 255

MInv == /\ LineInv /\ OldInv /\ FreshInv /\ OpInv /\ ValueInv /\ ApplyInv /\ DelayInv
        /\ MeaningKept

\* The character ahead is the next of the line, or the newline.
LEMMA Ahead ==
    ASSUME IInv, LineInv, pc \in Reading
    PROVE  /\ Head(tty) = tty[1]
           /\ tty[1] = NL => Got = Len(line)
           /\ tty[1] # NL => Got < Len(line) /\ tty[1] = line[Got + 1]
           /\ Got \in 0..Len(line) /\ Len(line) \in Nat /\ line \in Seq(ToSet(line))
           /\ \A i \in 1..Len(line) : line[i] # NL
<1>1. LineAhead(tty) /\ tty \in Seq(Chars) /\ Len(tty) \in Nat /\ Len(tty) >= 2
  BY LenProperties DEF IInv, TtyInv, LineAhead
<1>2. /\ line \in Seq(ToSet(line)) /\ NL \notin ToSet(line) /\ Got \in 0..Len(line)
      /\ \A i \in 1..Len(line) - Got : tty[i] = line[Got + i]
  BY DEF LineInv
<1>3. Len(line) \in Nat /\ DOMAIN line = 1..Len(line)
  BY <1>2, LenProperties
<1>4. \A i \in 1..Len(line) : line[i] # NL
  BY <1>2, <1>3 DEF ToSet
<1>5. PICK n \in Nat, k \in Nat : n = Len(line) /\ k = Len(tty)
  BY <1>1, <1>3
<1>6. Got = n + 2 - k /\ Got <= n /\ Got >= 0
  BY <1>2, <1>5 DEF Got
<1>7. CASE Got = n
  <2>1. k = 2 /\ k - 1 = 1
    BY <1>6, <1>7
  <2>2. tty[1] = NL
    BY <1>1, <1>5, <2>1 DEF LineAhead
  <2> QED BY <1>1, <1>2, <1>3, <1>4, <1>5, <1>7, <2>2
<1>8. CASE Got # n
  <2>1. Got < n /\ 1 \in 1..n - Got /\ Got + 1 \in 1..n
    BY <1>6, <1>8
  <2>2. tty[1] = line[Got + 1]
    BY <1>2, <1>5, <2>1
  <2>3. tty[1] # NL
    BY <1>4, <1>5, <2>1, <2>2
  <2>4. Got < Len(line)
    BY <1>5, <2>1
  <2>5. Head(tty) = tty[1]
    BY <1>1
  <2> QED BY <1>2, <1>3, <1>4, <2>2, <2>3, <2>4, <2>5, Zenon
<1> QED BY <1>7, <1>8

\* A character of the line is read.
LEMMA Advance ==
    ASSUME IInv, LineInv, pc \in Reading, NEW ch, ch # NL, Read(ch), line' = line
    PROVE  /\ ch = tty[1] /\ Got < Len(line) /\ ch = line[Got + 1] /\ Got' = Got + 1
           /\ LineInv'
<1>1. /\ ch = tty[1] /\ tty' = Tail(tty) /\ Got < Len(line) /\ ch = line[Got + 1]
      /\ Got \in 0..Len(line) /\ Len(line) \in Nat
  BY Ahead DEF Read
<1>2. tty \in Seq(Chars) /\ tty # <<>> /\ Len(tty) \in Nat
  BY LenProperties DEF IInv, TtyInv, LineAhead, Read
<1>3. PICK t \in Seq(Chars) : /\ t = Tail(tty)
                              /\ Len(t) = Len(tty) - 1
                              /\ \A i \in 1..Len(tty) - 1 : t[i] = tty[i + 1]
  BY <1>2, TailEntries
<1>4. Got' = Got + 1
  BY <1>1, <1>2, <1>3 DEF Got
<1>5. ASSUME NEW i \in 1..Len(line) - (Got + 1) PROVE tty'[i] = line[(Got + 1) + i]
  <2>1. i + 1 \in 1..Len(line) - Got /\ i \in 1..Len(tty) - 1 /\ Got + (i + 1) = (Got + 1) + i
    BY <1>1, <1>2 DEF Got
  <2>2. tty[i + 1] = line[Got + (i + 1)]
    BY <2>1 DEF LineInv
  <2> QED BY <1>1, <1>3, <2>1, <2>2
<1>6. /\ line \in Seq(ToSet(line)) /\ NL \notin ToSet(line)
      /\ Got + 1 \in 0..Len(line)
  BY <1>1 DEF LineInv
<1>7. LineInv'
  <2>1. ToSet(line)' = ToSet(line)
    BY DEF ToSet
  <2> QED BY <1>4, <1>5, <1>6, <2>1 DEF LineInv
<1> QED BY <1>1, <1>4, <1>7

\* What a line means does not change while it is read.
LEMMA SameMeaning ==
    ASSUME UNCHANGED <<kind, line>>
    PROVE  /\ \A f : Meaning(f)' = Meaning(f)
           /\ \A d : DelayMeaning(d)' = DelayMeaning(d)
           /\ \A m, o : OperatorRead(line, m, o)' <=> OperatorRead(line, m, o)
           /\ \A m, g : Upto(m, g)' = Upto(m, g)
           /\ Accepted' = Accepted /\ First' = First /\ \A c : Second(c)' = Second(c)
<1>1. Operators' = Operators /\ First' = First /\ \A c : Second(c)' = Second(c) /\ Accepted' = Accepted
  BY DEF Operators, First, Second, Accepted
<1>2. \A f : Meaning(f)' = Meaning(f)
  <2>1. PICK t : t = Trimmed(line)
    OBVIOUS
  <2>2. Trimmed(line)' = t
    BY <2>1 DEF Trimmed, ToSet
  <2>3. OpLen(Trimmed(line))' = OpLen(t)
    BY <1>1, <2>2 DEF OpLen
  <2>4. Operand(Trimmed(line))' = Operand(t)
    BY <2>2, <2>3 DEF Operand, Text
  <2>5. \A x : IsAddress(x)' <=> IsAddress(x)
    BY DEF IsAddress, Prefix, Host, Slashes, Number, ToSet
  <2>6. \A x : Valid(x)' <=> Valid(x)
    BY <2>5 DEF Valid, ToSet
  <2>7. \A x : Means(x)' = Means(x)
    BY DEF Means, Prefix, Host, Slashes, Number, ToSet
  <2>8. ASSUME NEW f PROVE Meaning(f)' = Meaning(f)
    BY <1>1, <2>1, <2>2, <2>3, <2>4, <2>6, <2>7 DEF Meaning
  <2> QED BY <2>8
<1>3. \A d : DelayMeaning(d)' = DelayMeaning(d)
  BY DEF DelayMeaning, Number, ToSet
<1>4. \A m, o : OperatorRead(line, m, o)' <=> OperatorRead(line, m, o)
  BY DEF OperatorRead, OpLen, Operators, Trimmed, ToSet
<1>5. \A m, g : Upto(m, g)' = Upto(m, g)
  BY DEF Upto, Text
<1> QED BY <1>1, <1>2, <1>3, <1>4, <1>5

\* The value of a line, character by character.
LEMMA UptoFacts ==
    ASSUME NEW C, line \in Seq(C), NEW m \in 1..Len(line) + 1, NEW g \in m - 1..Len(line)
    PROVE  /\ Upto(m, g) \in Seq(C) /\ (g = m - 1 => Upto(m, g) = <<>>)
           /\ Len(Upto(m, g)) <= Len(Upto(m, Len(line)))
           /\ g < Len(line) =>
                 /\ line[g + 1] \in C
                 /\ Upto(m, g + 1) = IF kind # "string" /\ line[g + 1] \in Blanks THEN Upto(m, g)
                                     ELSE Append(Upto(m, g), line[g + 1])
                 /\ kind = "string" \/ line[g + 1] \notin Blanks =>
                       line[g + 1] \in ToSet(Upto(m, Len(line)))
<1>1. Len(line) \in Nat /\ Len(line) \in m - 1..Len(line) /\ g <= Len(line)
  BY LenProperties
<1>2. PICK s \in Seq(C) : s = line
  OBVIOUS
<1>3. PICK N \in Nat : N = Len(s)
  BY <1>1, <1>2
<1>4. \A h \in m - 1..N :
        /\ SubSeq(s, m, h) \in Seq(C) /\ Len(SubSeq(s, m, h)) = h - m + 1
        /\ \A i \in 1..h - m + 1 : SubSeq(s, m, h)[i] = s[m + i - 1]
        /\ h = m - 1 => SubSeq(s, m, h) = <<>>
        /\ h < N => SubSeq(s, m, h + 1) = Append(SubSeq(s, m, h), s[h + 1])
  <2> SUFFICES ASSUME NEW h \in m - 1..Len(s)
               PROVE  /\ SubSeq(s, m, h) \in Seq(C) /\ Len(SubSeq(s, m, h)) = h - m + 1
                      /\ \A i \in 1..h - m + 1 : SubSeq(s, m, h)[i] = s[m + i - 1]
                      /\ h = m - 1 => SubSeq(s, m, h) = <<>>
                      /\ h < Len(s) => SubSeq(s, m, h + 1) = Append(SubSeq(s, m, h), s[h + 1])
    BY <1>3
  <2>1. m \in 1..Len(s) + 1
    BY <1>2
  <2> QED BY <2>1, PartGrows
<1>5. PICK t \in Seq(C), u \in Seq(C) : t = SubSeq(s, m, g) /\ u = SubSeq(s, m, N)
  BY <1>1, <1>2, <1>3, <1>4
<1>6. Text(<<>>) = <<>> /\ Text(t) \in Seq(C) /\ Text(u) \in Seq(C)
  BY TextChars
<1>7. /\ Upto(m, g) = IF kind = "string" THEN t ELSE Text(t)
      /\ Upto(m, Len(line)) = IF kind = "string" THEN u ELSE Text(u)
  BY <1>2, <1>3, <1>5 DEF Upto
<1>8. g = m - 1 => Upto(m, g) = <<>>
  BY <1>2, <1>3, <1>4, <1>5, <1>6, <1>7
<1>9. Len(Upto(m, g)) <= Len(Upto(m, Len(line)))
  <2>1. Len(t) <= Len(u)
    <3>1. Len(t) = g - m + 1 /\ Len(u) = N - m + 1
      BY <1>1, <1>2, <1>3, <1>4, <1>5
    <3> QED BY <1>1, <1>2, <1>3, <3>1
  <2>2. Len(Text(t)) <= Len(Text(u))
    BY <1>1, <1>2, <1>3, <1>5, PartsGrow
  <2> QED BY <1>7, <2>1, <2>2
<1>10. ASSUME g < N
       PROVE  /\ line[g + 1] \in C
              /\ Upto(m, g + 1) = IF kind # "string" /\ line[g + 1] \in Blanks THEN Upto(m, g)
                                  ELSE Append(Upto(m, g), line[g + 1])
              /\ kind = "string" \/ line[g + 1] \notin Blanks =>
                    line[g + 1] \in ToSet(Upto(m, Len(line)))
  <2>1. g + 1 \in 1..N /\ g + 1 \in 1..Len(s)
    BY <1>3, <1>10
  <2>2. PICK c \in C : c = line[g + 1]
    BY <1>2, <2>1, ElementOfSeq
  <2>3. SubSeq(s, m, g + 1) = Append(t, c)
    BY <1>2, <1>3, <1>4, <1>5, <1>10, <2>2
  <2>4. Text(Append(t, c)) = IF c \in Blanks THEN Text(t) ELSE Append(Text(t), c)
    BY TextChars
  <2>5. Upto(m, g + 1) = IF kind = "string" THEN Append(t, c) ELSE Text(Append(t, c))
    BY <1>2, <2>3 DEF Upto
  <2>6. c \in ToSet(u)
    <3>1. PICK i \in 1..N - m + 1 : i = g + 1 - m + 1
      BY <1>1, <1>2, <1>3, <1>10
    <3>2. u[i] = s[m + i - 1] /\ DOMAIN u = 1..N - m + 1
      BY <1>1, <1>2, <1>3, <1>4, <1>5, LenProperties
    <3>3. u[i] = c
      BY <1>2, <2>2, <3>1, <3>2
    <3> QED BY <3>2, <3>3 DEF ToSet
  <2>7. ToSet(Text(u)) = ToSet(u) \ Blanks
    BY TextSet
  <2> QED BY <1>7, <2>2, <2>4, <2>5, <2>6, <2>7
<1> QED BY <1>2, <1>3, <1>6, <1>7, <1>8, <1>9, <1>10

\* What a line means whose operator has been read.
LEMMA MeaningOf ==
    ASSUME NEW m, NEW o, OperatorRead(line, m, o), NEW f, NEW operand,
           operand = Upto(m, Len(line))
    PROVE  Meaning(f) = IF operand = <<>> THEN {<<0, f>>}
                        ELSE IF Valid(operand) THEN {<<0, <<o, Means(operand)>>>>, <<1, f>>}
                        ELSE {<<1, f>>}
<1>1. PICK t, n : t = Trimmed(line) /\ n = OpLen(t)
  OBVIOUS
<1>2. /\ t # <<>> /\ n # 0 /\ o = Operators[SubSeq(t, 1, n)]
      /\ SubSeq(t, n + 1, Len(t)) = SubSeq(line, m, Len(line))
  BY <1>1 DEF OperatorRead
<1>3. Operand(t) = operand
  BY <1>1, <1>2 DEF Operand, Upto
<1> QED BY <1>1, <1>2, <1>3 DEF Meaning

-----------------------------------------------------------------------------
(* The steps keep what the line means.                                     *)

\* The dialog is over.
LEMMA Over ==
    ASSUME pc' = "keys", tty' # <<>>, UNCHANGED <<kind, line>>,
           IF kind = "delay" THEN <<ret', delay'>> = DelayMeaning(old'[1])
           ELSE <<ret', filter'>> \in Meaning(old')
    PROVE  MInv'
<1>1. \A f : Meaning(f)' = Meaning(f)
  BY SameMeaning
<1>2. \A d : DelayMeaning(d)' = DelayMeaning(d)
  BY SameMeaning
<1>3. MeaningKept'
  <2>1. PICK f, d : f = old' /\ d = old'[1]
    OBVIOUS
  <2>2. CASE kind = "delay"
    <3>1. DelayMeaning(old[1])' = DelayMeaning(d)
      BY <1>2, <2>1 DEF DelayMeaning, Number, ToSet
    <3> QED BY <2>1, <2>2, <3>1 DEF MeaningKept
  <2>3. CASE kind # "delay"
    <3>1. Meaning(old)' = Meaning(f)'
      BY <2>1 DEF Meaning
    <3>2. Meaning(old)' = Meaning(f)
      BY <1>1, <3>1
    <3> QED BY <2>1, <2>3, <3>2 DEF MeaningKept
  <2> QED BY <2>2, <2>3
<1> QED
  BY <1>3 DEF MInv, LineInv, OldInv, FreshInv, OpInv, ValueInv, ApplyInv, DelayInv, Reading

\* The rest of a line without meaning is skipped.
LEMMA Skipped ==
    ASSUME OldInv, pc \in Reading, pc' = "skip", LineInv', UNCHANGED <<kind, line, old, filter, delay>>,
           IF kind = "delay" THEN DelayMeaning(delay) = <<1, delay>>
           ELSE Meaning(filter) = {<<1, filter>>}
    PROVE  MInv'
<1>1. MeaningKept'
  <2>1. PICK f, d : f = filter /\ d = delay
    OBVIOUS
  <2>2. Meaning(f)' = Meaning(f) /\ DelayMeaning(d)' = DelayMeaning(d)
    BY SameMeaning
  <2>3. DelayMeaning(delay)' = DelayMeaning(d)'
    BY <2>1 DEF DelayMeaning
  <2>4. Meaning(filter)' = Meaning(f)'
    BY <2>1 DEF Meaning
  <2> QED BY <2>1, <2>2, <2>3, <2>4 DEF MeaningKept, Answered
<1>2. OldInv'
  BY DEF OldInv, Reading
<1> QED
  BY <1>1, <1>2 DEF MInv, FreshInv, OpInv, ValueInv, ApplyInv, DelayInv

\* The value goes on, from place m of the line to what has been read.
LEMMA ValueOn ==
    ASSUME OldInv, pc \in Reading \ {"skip", "delay"}, pc' = "value", LineInv',
           UNCHANGED <<kind, line, old, filter, delay>>,
           NEW g, g = Got', NEW m \in 1..g + 1, OperatorRead(line, m, op'),
           NEW u, u = Upto(m, g), ToSet(u) \subseteq Accepted, seen_input' <=> u # <<>>,
           kind = "number" => v' = Number(u) % 2^WordBits /\ buf' = <<>>,
           kind # "number" => buf' = u
    PROVE  MInv'
<1>1. ValueInv'
  <2>1. OperatorRead(line, m, op)'
    <3>1. PICK o : o = op'
      OBVIOUS
    <3>2. OperatorRead(line, m, o)' <=> OperatorRead(line, m, o)
      BY SameMeaning
    <3>3. OperatorRead(line, m, o)'
      BY <3>1, <3>2
    <3> QED BY <3>1, <3>3 DEF OperatorRead
  <2>2. Upto(m, Got)' = u
    <3>1. Upto(m, g)' = Upto(m, g)
      BY SameMeaning
    <3>2. Upto(m, Got)' = Upto(m, g)'
      BY DEF Upto
    <3> QED BY <3>1, <3>2
  <2>3. ToSet(Upto(m, Got))' = ToSet(u) /\ Number(Upto(m, Got))' = Number(u)
    BY <2>2 DEF ToSet, Number
  <2>4. Accepted' = Accepted
    BY SameMeaning
  <2>5. /\ ToSet(Upto(m, Got))' \subseteq Accepted' /\ (seen_input' <=> Upto(m, Got)' # <<>>)
        /\ kind' = "number" => v' = Number(Upto(m, Got))' % 2^WordBits /\ buf' = <<>>
        /\ kind' # "number" => buf' = Upto(m, Got)'
    BY <2>2, <2>3, <2>4
  <2> QED BY <2>1, <2>5 DEF ValueInv
<1>2. OldInv' /\ MeaningKept'
  BY DEF OldInv, Reading, MeaningKept, Answered
<1> QED
  BY <1>1, <1>2 DEF MInv, FreshInv, OpInv, ApplyInv, DelayInv

\* The value begins here.
LEMMA ValueBegins ==
    ASSUME OldInv, pc \in Reading \ {"skip", "delay"}, pc' = "value", LineInv',
           UNCHANGED <<kind, line, old, filter, delay>>,
           NEW g, g = Got', OperatorRead(line, g + 1, op'),
           buf' = <<>>, v' = 0, seen_input' = FALSE
    PROVE  MInv'
<1>1. g \in 0..Len(line) /\ Len(line) \in Nat /\ line \in Seq(ToSet(line))
  <2>1. g \in 0..Len(line) /\ line \in Seq(ToSet(line)')
    BY DEF LineInv, Reading
  <2>2. ToSet(line)' = ToSet(line)
    BY DEF ToSet
  <2> QED BY <2>1, <2>2, LenProperties
<1>2. g + 1 \in 1..Len(line) + 1 /\ g \in (g + 1) - 1..Len(line) /\ (g + 1) - 1 = g /\ g + 1 \in 1..g + 1
  <2>1. PICK n \in Nat, k \in Nat : n = Len(line) /\ k = g /\ k <= n
    BY <1>1
  <2>2. k + 1 \in 1..n + 1 /\ k \in (k + 1) - 1..n /\ (k + 1) - 1 = k /\ k + 1 \in 1..k + 1
    <3>1. \A a, b \in Nat : b <= a => /\ b + 1 \in 1..a + 1 /\ b \in (b + 1) - 1..a
                                      /\ (b + 1) - 1 = b /\ b + 1 \in 1..b + 1
      OBVIOUS
    <3> QED BY <2>1, <3>1
  <2> QED BY <2>1, <2>2
<1>3. PICK m \in 1..Len(line) + 1 : m = g + 1 /\ g \in m - 1..Len(line) /\ g = m - 1
  BY <1>2
<1>4. Upto(m, g) = <<>>
  BY <1>1, <1>3, UptoFacts
<1>5. ToSet(<<>>) \subseteq Accepted
  BY DEF ToSet
<1>6. 0 = Number(<<>>) % 2^WordBits
  <2>1. PICK words \in Nat \ {0} : words = 2^WordBits
    BY LineDialogAssumption
  <2>2. Number(<<>>) = 0
    BY NumberDigits
  <2> QED BY <2>1, <2>2
<1>7. PICK k, u : k = m /\ k \in 1..g + 1 /\ u = Upto(k, g) /\ u = <<>> /\ OperatorRead(line, k, op')
  BY <1>2, <1>3, <1>4
<1>8. /\ ToSet(u) \subseteq Accepted /\ (seen_input' <=> u # <<>>)
      /\ kind = "number" => v' = Number(u) % 2^WordBits /\ buf' = <<>>
      /\ kind # "number" => buf' = u
  BY <1>5, <1>6, <1>7
<1> QED BY <1>7, <1>8, ValueOn

LEMMA OperatorChars ==
    /\ \A c \in DOMAIN First \cup {"!"} : c \in {"=", "~", ">", "<", "!"} /\ c \notin Blanks /\ c # NL
    /\ \A c : DOMAIN Second(c) # {} => c \in {"!", ">", "<"}
    /\ \A c : c \notin DOMAIN First \cup {"!"} => DOMAIN Second(c) = {}
    /\ DOMAIN Second("!") # {} /\ "!" \notin DOMAIN First
    /\ \A c : NL \notin DOMAIN Second(c)
<1>1. /\ \A c \in {"=", "~", ">", "<", "!"} : c \notin Blanks /\ c # NL
      /\ DOMAIN First \subseteq {"=", "~", ">", "<"}
  BY LineDialogAssumption DEF First
<1>2. DOMAIN <<>> = {}
  OBVIOUS
<1>3. ASSUME NEW c, DOMAIN Second(c) # {} PROVE c \in {"!", ">", "<"}
  BY <1>2, <1>3 DEF Second
<1>4. ASSUME NEW c, c \notin DOMAIN First \cup {"!"} PROVE DOMAIN Second(c) = {}
  BY <1>2, <1>4 DEF Second, First
<1>5. DOMAIN Second("!") # {} /\ "!" \notin DOMAIN First
  <2>1. "=" \in DOMAIN Second("!")
    BY DEF Second
  <2> QED BY <1>1, <2>1
<1>6. ASSUME NEW c PROVE DOMAIN Second(c) \subseteq {"=", "~"}
  BY <1>2 DEF Second
<1> QED
  BY <1>1, <1>3, <1>4, <1>5, <1>6

LEMMA OperatorMeaning == IInv /\ MInv /\ OperatorStep => MInv'
<1> SUFFICES ASSUME IInv, MInv, OperatorStep PROVE MInv'
  OBVIOUS
<1>0. LineInv /\ OldInv /\ FreshInv /\ OpInv
  BY DEF MInv
<1>1. CASE ReadEmpty
  <2>1. /\ pc = "op" /\ Read(NL) /\ pc' = "keys" /\ ret' = (IF filter = <<>> THEN 1 ELSE 0)
        /\ UNCHANGED <<filter, old, kind, line>>
    BY <1>1 DEF ReadEmpty, Finish, result, history
  <2>2. pc \in Reading /\ tty' = <<Key>> /\ tty[1] = NL
    BY <2>1, <1>0, ReadLast, Ahead DEF Reading, Read
  <2>3. Got = Len(line) /\ line \in Seq(ToSet(line))
    BY <1>0, <2>2, Ahead
  <2>4. Trimmed(line) = <<>>
    <3>1. \A i \in 1..Len(line) : line[i] \in Blanks
      BY <1>0, <2>1, <2>3 DEF OpInv
    <3>2. PICK s \in Seq(ToSet(line)) : s = line
      BY <2>3
    <3> QED BY <3>1, <3>2, TrimmedEmpty
  <2>5. \A f : Meaning(f) = {<<IF f = <<>> THEN 1 ELSE 0, f>>}
    BY <2>4 DEF Meaning
  <2>6. old = filter /\ kind # "delay"
    BY <1>0, <2>1 DEF OldInv, Reading
  <2> QED BY <2>1, <2>2, <2>5, <2>6, Over
<1>2. CASE ReadBlank
  <2>1. /\ pc = "op" /\ pc' = "op" /\ UNCHANGED <<filter, delay, old, kind, line, op, buf, v, seen_input>>
    BY <1>2 DEF ReadBlank, result, history, local
  <2>2. PICK ch \in Blanks : Read(ch) /\ ch # NL
    BY <1>2, LineDialogAssumption DEF ReadBlank
  <2>3. /\ ch = line[Got + 1] /\ Got' = Got + 1 /\ LineInv' /\ Got \in 0..Len(line)
        /\ Len(line) \in Nat
    BY <1>0, <2>1, <2>2, Advance, Ahead DEF Reading
  <2>4. \A i \in 1..Got + 1 : line[i] \in Blanks
    <3>1. \A i \in 1..Got + 1 : i \in 1..Got \/ i = Got + 1
      BY <2>3
    <3> QED BY <1>0, <2>1, <2>2, <2>3, <3>1 DEF OpInv
  <2>5. OpInv'
    BY <2>1, <2>3, <2>4 DEF OpInv
  <2>6. OldInv' /\ FreshInv' /\ MeaningKept'
    BY <1>0, <2>1 DEF OldInv, FreshInv, MeaningKept, Answered, Reading
  <2> QED BY <2>1, <2>3, <2>5, <2>6 DEF MInv, ValueInv, ApplyInv, DelayInv
<1>3. CASE ReadOp \/ ReadNoOp
  <2>1. /\ pc = "op" /\ Read(tty[1]) /\ tty[1] # NL /\ tty[1] \notin Blanks
        /\ UNCHANGED <<filter, delay, old, kind, line, buf, v, seen_input>>
    BY <1>3, OperatorChars DEF ReadOp, ReadNoOp, result, history, local
  <2>2. PICK ch : ch = tty[1]
    OBVIOUS
  <2>3. /\ ch = line[Got + 1] /\ Got' = Got + 1 /\ LineInv' /\ Got \in 0..Len(line)
        /\ Got < Len(line) /\ Len(line) \in Nat /\ line \in Seq(ToSet(line))
    BY <1>0, <2>1, <2>2, Advance, Ahead DEF Reading
  <2>4. PICK g \in 1..Len(line) : g = Got + 1
    BY <2>3
  <2>5. line[g] = ch /\ ch \notin Blanks /\ \A i \in 1..g - 1 : line[i] \in Blanks
    <3>1. g - 1 = Got
      BY <2>3, <2>4
    <3> QED BY <1>0, <2>1, <2>2, <2>3, <2>4, <3>1 DEF OpInv
  <2>6. LET two == g < Len(line) /\ line[g + 1] \in DOMAIN Second(line[g]) IN
        /\ two => OperatorRead(line, g + 2, Second(line[g])[line[g + 1]])
        /\ ~two /\ line[g] \in DOMAIN First => OperatorRead(line, g + 1, First[line[g]])
        /\ ~two /\ line[g] \notin DOMAIN First => Trimmed(line) # <<>> /\ OpLen(Trimmed(line)) = 0
    BY <2>3, <2>5, OperatorFound
  <2>7. CASE ReadOp /\ DOMAIN Second(ch) # {}
    <3>1. /\ pc' = ch /\ op' = IF ch \in DOMAIN First THEN First[ch] ELSE ""
          /\ ch \in {"!", ">", "<"}
      BY <2>2, <2>7, OperatorChars DEF ReadOp, Goto
    <3>2. OpInv'
      <4>1. First' = First
        BY <2>1, SameMeaning
      <4>2. Got' = g /\ g >= 1 /\ g - 1 = Got' - 1
        BY <2>3, <2>4
      <4>3. line'[g] = pc' /\ \A i \in 1..g - 1 : line'[i] \in Blanks
        BY <2>1, <2>5, <3>1
      <4>4. ch # "!" => ch \in DOMAIN First
        BY <2>2, <2>7 DEF ReadOp
      <4> QED BY <3>1, <4>1, <4>2, <4>3, <4>4 DEF OpInv
    <3>3. OldInv' /\ FreshInv' /\ MeaningKept'
      BY <1>0, <2>1, <3>1 DEF OldInv, FreshInv, MeaningKept, Answered, Reading
    <3> QED BY <2>3, <3>1, <3>2, <3>3 DEF MInv, ValueInv, ApplyInv, DelayInv
  <2>8. CASE ReadOp /\ DOMAIN Second(ch) = {}
    <3>1. pc' = "value" /\ ch \in DOMAIN First \cup {"!"} /\ ch # "!"
      BY <2>2, <2>8, OperatorChars DEF ReadOp, Goto
    <3>2. ch \in DOMAIN First /\ op' = First[ch]
      BY <2>2, <2>8, <3>1 DEF ReadOp
    <3>3. OperatorRead(line, g + 1, op')
      BY <2>5, <2>6, <2>8, <3>2
    <3>4. buf' = <<>> /\ v' = 0 /\ seen_input' = FALSE
      BY <1>0, <2>1 DEF FreshInv
    <3>5. g = Got'
      BY <2>3, <2>4
    <3> QED BY <1>0, <2>1, <2>3, <3>1, <3>3, <3>4, <3>5, ValueBegins DEF Reading
  <2>9. CASE ReadNoOp
    <3>1. pc' = "skip" /\ ch \notin DOMAIN First \cup {"!"}
      BY <2>2, <2>9 DEF ReadNoOp, Goto
    <3>2. DOMAIN Second(ch) = {}
      BY <3>1, OperatorChars
    <3>3. Trimmed(line) # <<>> /\ OpLen(Trimmed(line)) = 0
      BY <2>5, <2>6, <3>1, <3>2
    <3>4. Meaning(filter) = {<<1, filter>>}
      BY <3>3 DEF Meaning
    <3>5. kind # "delay" /\ pc \in Reading
      BY <1>0, <2>1 DEF OldInv, Reading
    <3> QED BY <1>0, <2>1, <2>3, <3>1, <3>4, <3>5, Skipped
  <2> QED BY <1>3, <2>7, <2>8, <2>9
<1>4. CASE ReadOp2
  <2>1. /\ pc \in {"!", ">", "<"} /\ pc \in Reading
        /\ UNCHANGED <<filter, delay, old, kind, line, buf, v, seen_input>>
    BY <1>4 DEF ReadOp2, result, history, Reading
  <2>2. /\ Got \in 0..Len(line) /\ Len(line) \in Nat /\ line \in Seq(ToSet(line))
        /\ (tty[1] # NL => Got < Len(line) /\ tty[1] = line[Got + 1])
        /\ (tty[1] = NL => Got = Len(line))
    BY <1>0, <2>1, Ahead
  <2>3. PICK g \in 1..Len(line) : /\ g = Got /\ line[g] = pc
                                  /\ \A i \in 1..g - 1 : line[i] \in Blanks
                                  /\ (pc # "!" => pc \in DOMAIN First /\ op = First[pc])
    BY <1>0, <2>1, <2>2 DEF OpInv
  <2>4. pc \notin Blanks
    BY <2>1, LineDialogAssumption
  <2>5. LET two == g < Len(line) /\ line[g + 1] \in DOMAIN Second(line[g]) IN
        /\ two => OperatorRead(line, g + 2, Second(line[g])[line[g + 1]])
        /\ ~two /\ line[g] \in DOMAIN First => OperatorRead(line, g + 1, First[line[g]])
        /\ ~two /\ line[g] \notin DOMAIN First => Trimmed(line) # <<>> /\ OpLen(Trimmed(line)) = 0
    BY <2>2, <2>3, <2>4, OperatorFound
  <2>6. buf' = <<>> /\ v' = 0 /\ seen_input' = FALSE
    BY <1>0, <2>1 DEF FreshInv
  <2>7. CASE tty[1] \in DOMAIN Second(pc)
    <3>1. /\ Read(tty[1]) /\ op' = Second(pc)[tty[1]] /\ pc' = "value" /\ tty[1] # NL
      BY <1>4, <2>7, OperatorChars DEF ReadOp2, Goto
    <3>2. Got' = Got + 1 /\ LineInv' /\ Got < Len(line) /\ tty[1] = line[Got + 1]
      BY <1>0, <2>1, <3>1, Advance
    <3>3. OperatorRead(line, g + 2, op')
      BY <2>3, <2>5, <2>7, <3>1, <3>2
    <3>4. PICK h : h = Got' /\ h + 1 = g + 2
      BY <2>2, <2>3, <3>2
    <3> QED BY <1>0, <2>1, <2>6, <3>1, <3>2, <3>3, <3>4, ValueBegins
  <2>8. CASE tty[1] \notin DOMAIN Second(pc)
    <3>1. /\ UNCHANGED <<tty, op>> /\ pc' = IF pc = "!" THEN "skip" ELSE "value"
      BY <1>4, <2>8 DEF ReadOp2, Goto
    <3>2. Got' = Got /\ LineInv'
      <4>1. Got' = Got
        BY <2>1, <3>1 DEF Got
      <4>2. ToSet(line)' = ToSet(line)
        BY <2>1 DEF ToSet
      <4> QED BY <1>0, <2>1, <3>1, <4>1, <4>2 DEF LineInv
    <3>3. ~(g < Len(line) /\ line[g + 1] \in DOMAIN Second(line[g]))
      BY <2>2, <2>3, <2>8
    <3>4. CASE pc = "!"
      <4>1. Trimmed(line) # <<>> /\ OpLen(Trimmed(line)) = 0
        BY <2>3, <2>5, <3>3, <3>4, OperatorChars
      <4>2. Meaning(filter) = {<<1, filter>>}
        BY <4>1 DEF Meaning
      <4>3. kind # "delay"
        BY <1>0, <2>1 DEF OldInv
      <4> QED BY <1>0, <2>1, <3>1, <3>2, <3>4, <4>2, <4>3, Skipped
    <3>5. CASE pc # "!"
      <4>1. pc \in DOMAIN First
        BY <2>3, <3>5
      <4>2. OperatorRead(line, g + 1, op')
        BY <2>3, <2>5, <3>1, <3>3, <3>5, <4>1
      <4> QED BY <1>0, <2>1, <2>3, <2>6, <3>1, <3>2, <3>5, <4>2, ValueBegins DEF Reading
    <3> QED BY <3>4, <3>5
  <2> QED BY <2>7, <2>8
<1> QED BY <1>1, <1>2, <1>3, <1>4 DEF OperatorStep

\* The characters of a line up to here, all of it, and what number they are.
LEMMA DelayFacts ==
    ASSUME NEW C, line \in Seq(C), NEW g \in 0..Len(line),
           \A i \in 1..g : line[i] \in Digits
    PROVE  /\ SubSeq(line, 1, g) \in Seq(Digits)
           /\ g = Len(line) => line = SubSeq(line, 1, g) /\ ToSet(line) \subseteq Digits
           /\ g = 0 => SubSeq(line, 1, g) = <<>>
           /\ g < Len(line) => SubSeq(line, 1, g + 1) = Append(SubSeq(line, 1, g), line[g + 1])
           /\ ToSet(line) \subseteq Digits => Number(SubSeq(line, 1, g)) <= Number(line)
<1>1. PICK s \in Seq(C), N \in Nat : s = line /\ N = Len(s) /\ N = Len(line)
  BY LenProperties
<1>2. \A m \in 1..N + 1 : \A h \in m - 1..N :
         /\ SubSeq(s, m, h) \in Seq(C) /\ Len(SubSeq(s, m, h)) = h - m + 1
         /\ \A i \in 1..h - m + 1 : SubSeq(s, m, h)[i] = s[m + i - 1]
         /\ h = m - 1 => SubSeq(s, m, h) = <<>>
         /\ h < N => SubSeq(s, m, h + 1) = Append(SubSeq(s, m, h), s[h + 1])
  <2> SUFFICES ASSUME NEW m \in 1..Len(s) + 1, NEW h \in m - 1..Len(s)
               PROVE  /\ SubSeq(s, m, h) \in Seq(C) /\ Len(SubSeq(s, m, h)) = h - m + 1
                      /\ \A i \in 1..h - m + 1 : SubSeq(s, m, h)[i] = s[m + i - 1]
                      /\ h = m - 1 => SubSeq(s, m, h) = <<>>
                      /\ h < Len(s) => SubSeq(s, m, h + 1) = Append(SubSeq(s, m, h), s[h + 1])
    BY <1>1
  <2> QED BY PartGrows
<1>3. 1 \in 1..N + 1 /\ 1 - 1 = 0
  BY <1>1
<1>4. \A h \in 0..N :
         /\ SubSeq(s, 1, h) \in Seq(C) /\ Len(SubSeq(s, 1, h)) = h
         /\ \A i \in 1..h : SubSeq(s, 1, h)[i] = s[i]
         /\ h = 0 => SubSeq(s, 1, h) = <<>>
         /\ h < N => SubSeq(s, 1, h + 1) = Append(SubSeq(s, 1, h), s[h + 1])
  <2> SUFFICES ASSUME NEW h \in 0..N
               PROVE  /\ SubSeq(s, 1, h) \in Seq(C) /\ Len(SubSeq(s, 1, h)) = h
                      /\ \A i \in 1..h : SubSeq(s, 1, h)[i] = s[i]
                      /\ h = 0 => SubSeq(s, 1, h) = <<>>
                      /\ h < N => SubSeq(s, 1, h + 1) = Append(SubSeq(s, 1, h), s[h + 1])
    OBVIOUS
  <2>1. \A i \in 1..h : 1 + i - 1 = i
    OBVIOUS
  <2>2. h - 1 + 1 = h
    OBVIOUS
  <2> QED BY <1>2, <1>3, <2>1, <2>2
<1>5. PICK t \in Seq(C) : t = SubSeq(s, 1, g) /\ Len(t) = g /\ \A i \in 1..g : t[i] = s[i]
  BY <1>1, <1>4
<1>6. t \in Seq(Digits)
  <2>1. Len(t) \in Nat /\ t \in [1..Len(t) -> C]
    BY <1>5, LenProperties
  <2>2. t \in [1..Len(t) -> Digits]
    BY <1>1, <1>5, <2>1
  <2> QED BY <2>1, <2>2, SeqDef
<1>7. ASSUME g = N PROVE line = t /\ ToSet(line) \subseteq Digits
  <2>1. line = t
    BY <1>1, <1>5, <1>7, SeqEqual
  <2> QED BY <1>1, <1>7, <2>1, LenProperties DEF ToSet
<1>8. ASSUME ToSet(line) \subseteq Digits PROVE Number(t) <= Number(line)
  <2>1. \A i \in 1..N : s[i] \in Digits
    BY <1>1, <1>8, LenProperties DEF ToSet
  <2>2. s \in Seq(Digits)
    <3>1. s \in [1..N -> C]
      BY <1>1, LenProperties
    <3>2. s \in [1..N -> Digits]
      BY <2>1, <3>1
    <3> QED BY <3>2, <1>1, SeqDef
  <2>3. PICK u \in Seq(C) : u = SubSeq(s, 1, N) /\ Len(u) = N /\ \A i \in 1..N : u[i] = s[i]
    BY <1>1, <1>4
  <2>4. u = s
    BY <1>1, <2>3, SeqEqual
  <2>5. PICK m \in 1..Len(s) + 1 : m = 1
    BY <1>1, <1>3
  <2>6. g \in m - 1..Len(s) /\ N \in m - 1..Len(s) /\ g <= N
    BY <1>1, <2>5
  <2>7. Number(SubSeq(s, m, g)) <= Number(SubSeq(s, m, N))
    BY <2>2, <2>6, PartsGrow
  <2> QED BY <1>1, <1>5, <2>3, <2>4, <2>5, <2>7
<1> QED BY <1>1, <1>4, <1>5, <1>6, <1>7, <1>8

\* A line whose operand is typed and no value means an error.
LEMMA NoMeaning ==
    ASSUME NEW m, OperatorRead(line, m, op),
           Upto(m, Len(line)) # <<>>, ~Valid(Upto(m, Len(line)))
    PROVE  Meaning(filter) = {<<1, filter>>}
<1>1. PICK o, f, operand : o = op /\ f = filter /\ operand = Upto(m, Len(line))
  OBVIOUS
<1>2. Meaning(f) = {<<1, f>>}
  BY <1>1, MeaningOf
<1> QED BY <1>1, <1>2

\* Where a dialog stands that has read the value u, and the next character.
ValueAt(m, u) ==
    /\ m \in 1..Got + 1 /\ m \in 1..Len(line) + 1 /\ Got \in m - 1..Len(line)
    /\ OperatorRead(line, m, op)
    /\ u = Upto(m, Got) /\ u \in Seq(ToSet(line)) /\ u \in Seq(Accepted)
    /\ (seen_input <=> u # <<>>)
    /\ (kind = "number" => v = Number(u) % 2^WordBits /\ buf = <<>>)
    /\ (kind # "number" => buf = u)

LEMMA ValueRead ==
    ASSUME IInv, MInv, pc = "value"
    PROVE  \E m, u : ValueAt(m, u)
<1>1. PICK m \in 1..Got + 1 :
         /\ OperatorRead(line, m, op)
         /\ ToSet(Upto(m, Got)) \subseteq Accepted
         /\ seen_input <=> Upto(m, Got) # <<>>
         /\ kind = "number" => v = Number(Upto(m, Got)) % 2^WordBits /\ buf = <<>>
         /\ kind # "number" => buf = Upto(m, Got)
  BY DEF MInv, ValueInv
<1>2. Got \in 0..Len(line) /\ Len(line) \in Nat /\ line \in Seq(ToSet(line))
  BY Ahead DEF MInv, Reading
<1>3. m \in 1..Len(line) + 1 /\ Got \in m - 1..Len(line)
  <2>1. PICK n \in Nat, g \in Nat : n = Len(line) /\ g = Got /\ g <= n
    BY <1>2
  <2>2. \A a, b \in Nat : \A c \in 1..b + 1 : b <= a => c \in 1..a + 1 /\ b \in c - 1..a
    OBVIOUS
  <2> QED BY <2>1, <2>2
<1>4. PICK u \in Seq(ToSet(line)) : u = Upto(m, Got)
  BY <1>2, <1>3, UptoFacts
<1>5. \A i \in 1..Len(u) : u[i] \in Accepted
  BY <1>1, <1>4, LenProperties DEF ToSet
<1>6. u \in Seq(Accepted)
  <2>1. PICK C : C = ToSet(line) /\ u \in Seq(C)
    BY <1>4
  <2>2. PICK D : D = Accepted
    OBVIOUS
  <2>3. \A i \in 1..Len(u) : u[i] \in D
    BY <1>5, <2>2
  <2>4. Len(u) \in Nat /\ u \in [1..Len(u) -> C]
    BY <2>1, LenProperties
  <2>5. u \in [1..Len(u) -> D]
    BY <2>3, <2>4
  <2>6. u \in Seq(D)
    BY <2>4, <2>5, SeqDef
  <2> QED BY <2>2, <2>6
<1> QED BY <1>1, <1>3, <1>4, <1>6 DEF ValueAt

LEMMA Alphabet ==
    ASSUME IInv, OldInv, pc \in {"value", "apply"}
    PROVE  /\ kind \in {"number", "string", "address"}
           /\ \A s : Valid(s) <=> /\ ToSet(s) \subseteq Accepted
                                  /\ kind # "number" => Len(s) < BufLen
                                  /\ kind = "address" => IsAddress(s)
           /\ kind # "string" => Accepted \cap Blanks = {}
           /\ NL \notin Accepted \cup Blanks
<1>1. kind \in {"number", "string", "address"}
  BY LineDialogAssumption DEF IInv, TypeOK, OldInv, Reading
<1>2. /\ kind = "number" => Accepted = Digits
      /\ kind = "string" => Accepted = Printable
      /\ kind = "address" => Accepted = AddressChars
  BY DEF Accepted
<1>3. \A s : Valid(s) <=> /\ ToSet(s) \subseteq Accepted
                          /\ kind # "number" => Len(s) < BufLen
                          /\ kind = "address" => IsAddress(s)
  BY <1>1, <1>2 DEF Valid
<1>4. Digits \subseteq AddressChars
  BY DEF AddressChars
<1>5. (kind # "string" => Accepted \cap Blanks = {}) /\ NL \notin Accepted \cup Blanks
  BY <1>1, <1>2, <1>4, LineDialogAssumption
<1> QED BY <1>1, <1>3, <1>5

\* One character more of a value.
LEMMA ValueMore ==
    ASSUME IInv, MInv, pc = "value", NEW m, NEW u, ValueAt(m, u),
           NEW ch, ch # NL, Read(ch), UNCHANGED <<kind, line>>
    PROVE  /\ Got' = Got + 1 /\ LineInv' /\ m \in 1..(Got + 1) + 1
           /\ Upto(m, Got + 1) = IF kind # "string" /\ ch \in Blanks THEN u ELSE Append(u, ch)
           /\ Len(Upto(m, Got + 1)) <= Len(Upto(m, Len(line)))
           /\ Upto(m, Len(line)) \in Seq(ToSet(line))
           /\ kind = "string" \/ ch \notin Blanks => ch \in ToSet(Upto(m, Len(line)))
<1>1. /\ Got < Len(line) /\ ch = line[Got + 1] /\ Got' = Got + 1 /\ LineInv'
      /\ Got \in 0..Len(line) /\ Len(line) \in Nat /\ line \in Seq(ToSet(line))
  BY Ahead, Advance DEF MInv, Reading
<1>2. m \in 1..Len(line) + 1 /\ Got \in m - 1..Len(line) /\ u = Upto(m, Got) /\ m \in 1..Got + 1
  BY DEF ValueAt
<1>3. Got + 1 \in m - 1..Len(line) /\ Len(line) \in m - 1..Len(line) /\ m \in 1..(Got + 1) + 1
  <2>1. PICK n \in Nat, g \in Nat : n = Len(line) /\ g = Got /\ g < n
    BY <1>1
  <2>2. \A a, b \in Nat : \A c \in 1..a + 1 :
           b < a /\ b >= c - 1 => b + 1 \in c - 1..a /\ a \in c - 1..a /\ c \in 1..(b + 1) + 1
    OBVIOUS
  <2> QED BY <1>2, <2>1, <2>2
<1>4. /\ Upto(m, Got + 1) = IF kind # "string" /\ ch \in Blanks THEN u ELSE Append(u, ch)
      /\ kind = "string" \/ ch \notin Blanks => ch \in ToSet(Upto(m, Len(line)))
  BY <1>1, <1>2, UptoFacts
<1>5. Len(Upto(m, Got + 1)) <= Len(Upto(m, Len(line)))
  BY <1>1, <1>2, <1>3, UptoFacts
<1>6. Upto(m, Len(line)) \in Seq(ToSet(line))
  BY <1>1, <1>2, <1>3, UptoFacts
<1> QED BY <1>1, <1>3, <1>4, <1>5, <1>6

LEMMA ValueMeaning == IInv /\ MInv /\ (ReadValueBlank \/ ReadDigit \/ ReadChar \/ ReadBad) => MInv'
<1> SUFFICES ASSUME IInv, MInv, ReadValueBlank \/ ReadDigit \/ ReadChar \/ ReadBad PROVE MInv'
  OBVIOUS
<1>0. LineInv /\ OldInv
  BY DEF MInv
<1>1. pc = "value" /\ pc \in Reading \ {"skip", "delay"}
      /\ UNCHANGED <<kind, line, old, filter, delay, op>>
  BY DEF ReadValueBlank, ReadDigit, ReadChar, ReadBad, local, result, history, Reading
<1>2. PICK m, u : ValueAt(m, u)
  BY <1>1, ValueRead
<1>3. /\ OperatorRead(line, m, op) /\ u \in Seq(ToSet(line)) /\ u \in Seq(Accepted)
      /\ (seen_input <=> u # <<>>) /\ Len(u) \in Nat
      /\ kind = "number" => v = Number(u) % 2^WordBits /\ buf = <<>>
      /\ kind # "number" => buf = u
  BY <1>2, LenProperties DEF ValueAt
<1>4. /\ kind \in {"number", "string", "address"} /\ NL \notin Accepted \cup Blanks
      /\ kind # "string" => Accepted \cap Blanks = {}
      /\ kind = "number" => Accepted = Digits
  BY <1>0, <1>1, Alphabet DEF Accepted
<1>5. PICK g : g = Got /\ g \in 0..Len(line) /\ Len(line) \in Nat
  BY <1>0, <1>1, Ahead DEF Reading
<1>6. PICK operand : operand = Upto(m, Len(line))
  OBVIOUS
<1>7. ASSUME NEW ch, ch # NL, Read(ch)
      PROVE  /\ Got' = g + 1 /\ LineInv' /\ m \in 1..(g + 1) + 1
             /\ Upto(m, g + 1) = IF kind # "string" /\ ch \in Blanks THEN u ELSE Append(u, ch)
             /\ Len(Upto(m, g + 1)) <= Len(operand) /\ operand \in Seq(ToSet(line))
             /\ kind = "string" \/ ch \notin Blanks => ch \in ToSet(operand)
  BY <1>1, <1>2, <1>5, <1>6, <1>7, ValueMore
<1>8. ASSUME NEW ch \in Accepted
      PROVE  /\ ch # NL /\ ~(kind # "string" /\ ch \in Blanks)
             /\ Append(u, ch) \in Seq(Accepted) /\ ToSet(Append(u, ch)) \subseteq Accepted
             /\ Append(u, ch) # <<>> /\ Len(Append(u, ch)) = Len(u) + 1
  <2>1. Append(u, ch) \in Seq(Accepted) /\ Len(Append(u, ch)) = Len(u) + 1
    BY <1>3, AppendProperties
  <2>2. ToSet(Append(u, ch)) \subseteq Accepted
    BY <2>1, LenProperties, ElementOfSeq DEF ToSet
  <2>3. Append(u, ch) # <<>>
    BY <1>3, <2>1, EmptySeq
  <2> QED BY <1>4, <2>1, <2>2, <2>3
<1>9. ASSUME operand # <<>>, ~Valid(operand), pc' = "skip", LineInv' PROVE MInv'
  <2>1. Meaning(filter) = {<<1, filter>>}
    BY <1>3, <1>6, <1>9, NoMeaning
  <2> QED BY <1>0, <1>1, <1>4, <1>9, <2>1, Skipped
<1>10. ASSUME pc' = "value", LineInv', Got' = g + 1, m \in 1..(g + 1) + 1,
              NEW w, w = Upto(m, g + 1), ToSet(w) \subseteq Accepted, seen_input' <=> w # <<>>,
              kind = "number" => v' = Number(w) % 2^WordBits /\ buf' = <<>>,
              kind # "number" => buf' = w
       PROVE  MInv'
  <2>1. PICK h : h = g + 1 /\ h = Got' /\ m \in 1..h + 1 /\ w = Upto(m, h)
    BY <1>10
  <2>2. OperatorRead(line, m, op')
    BY <1>1, <1>3
  <2> QED BY <1>0, <1>1, <1>10, <2>1, <2>2, ValueOn
<1>11. CASE ReadValueBlank
  <2>1. PICK ch \in Blanks : Read(ch) /\ ch # NL
    BY <1>4, <1>11 DEF ReadValueBlank
  <2>2. pc' = "value" /\ kind # "string" /\ UNCHANGED <<buf, v, seen_input>>
    BY <1>11 DEF ReadValueBlank, local
  <2>3. Got' = g + 1 /\ LineInv' /\ m \in 1..(g + 1) + 1 /\ u = Upto(m, g + 1)
    BY <1>7, <2>1, <2>2
  <2>4. ToSet(u) \subseteq Accepted
    BY <1>3, LenProperties, ElementOfSeq DEF ToSet
  <2>5. /\ seen_input' <=> u # <<>>
        /\ kind = "number" => v' = Number(u) % 2^WordBits /\ buf' = <<>>
        /\ kind # "number" => buf' = u
    BY <1>3, <2>2
  <2> QED BY <1>10, <2>2, <2>3, <2>4, <2>5
<1>12. CASE ReadDigit
  <2>1. PICK ch \in Digits : Read(ch) /\ v' = (v * 10 + Digit[ch]) % 2^WordBits
    BY <1>12 DEF ReadDigit
  <2>2. pc' = "value" /\ kind = "number" /\ UNCHANGED buf /\ seen_input' = TRUE
    BY <1>12 DEF ReadDigit
  <2>3. ch \in Accepted /\ Accepted = Digits
    BY <1>4, <2>1, <2>2
  <2>4. PICK w : w = Append(u, ch)
    OBVIOUS
  <2>5. Got' = g + 1 /\ LineInv' /\ m \in 1..(g + 1) + 1 /\ w = Upto(m, g + 1)
    BY <1>7, <1>8, <2>1, <2>3, <2>4
  <2>6. ToSet(w) \subseteq Accepted /\ w # <<>>
    BY <1>8, <2>3, <2>4
  <2>7. v' = Number(w) % 2^WordBits
    <3>1. PICK words \in Nat \ {0} : words = 2^WordBits
      BY LineDialogAssumption
    <3>2. PICK n \in Nat, d \in Nat : n = Number(u) /\ d = Digit[ch] /\ Number(w) = n * 10 + d
      BY <1>3, <2>3, <2>4, NumberDigits, DigitValues
    <3>3. v' = ((n % words) * 10 + d) % words
      BY <1>3, <2>1, <2>2, <3>1, <3>2
    <3>4. v' = (n * 10 + d) % words
      BY <3>3, Wraps
    <3> QED BY <3>1, <3>2, <3>4
  <2>8. buf' = <<>>
    BY <1>3, <2>2
  <2> QED BY <1>10, <2>2, <2>5, <2>6, <2>7, <2>8
<1>13. CASE ReadChar
  <2>1. PICK ch \in Accepted : /\ Read(ch)
                               /\ buf' = IF Len(buf) < BufLen THEN Append(buf, ch) ELSE buf
    BY <1>13 DEF ReadChar
  <2>2. /\ kind \in {"string", "address"} /\ kind # "number" /\ seen_input' = TRUE
        /\ pc' = IF Len(buf) < BufLen THEN "value" ELSE "skip"
    BY <1>13 DEF ReadChar, Goto
  <2>3. PICK w : w = Append(u, ch)
    OBVIOUS
  <2>4. /\ Got' = g + 1 /\ LineInv' /\ m \in 1..(g + 1) + 1 /\ w = Upto(m, g + 1)
        /\ Len(w) <= Len(operand) /\ operand \in Seq(ToSet(line))
    BY <1>7, <1>8, <2>1, <2>3
  <2>5. CASE Len(buf) < BufLen
    <3>1. buf' = w /\ pc' = "value"
      BY <1>3, <2>1, <2>2, <2>3, <2>5
    <3>2. ToSet(w) \subseteq Accepted /\ w # <<>>
      BY <1>8, <2>1, <2>3
    <3> QED BY <1>10, <2>2, <2>4, <3>1, <3>2
  <2>6. CASE ~(Len(buf) < BufLen)
    <3>1. PICK n \in Nat, k \in Nat, b \in Nat : n = Len(u) /\ k = Len(operand) /\ b = BufLen
      BY <1>3, <2>4, LenProperties, LineDialogAssumption
    <3>2. n + 1 <= k /\ ~(n < b)
      BY <1>3, <1>8, <2>1, <2>2, <2>3, <2>4, <2>6, <3>1
    <3>3. ~(k < b) /\ k # 0
      BY <3>2
    <3>4. operand # <<>> /\ ~Valid(operand)
      BY <1>0, <1>1, <2>2, <3>1, <3>3, Alphabet, EmptySeq
    <3> QED BY <1>9, <2>2, <2>4, <2>6, <3>4
  <2> QED BY <2>5, <2>6
<1>14. CASE ReadBad
  <2>1. PICK ch : /\ ch = tty[1] /\ Read(ch) /\ ch \notin Accepted /\ ch # NL
                  /\ (kind # "string" => ch \notin Blanks)
    BY <1>14 DEF ReadBad
  <2>2. pc' = "skip"
    BY <1>14 DEF ReadBad, Goto
  <2>3. LineInv' /\ ch \in ToSet(operand)
    BY <1>7, <2>1
  <2>4. operand # <<>> /\ ~Valid(operand)
    <3>1. ToSet(<<>>) = {}
      BY DEF ToSet
    <3> QED BY <1>0, <1>1, <2>1, <2>3, <3>1, Alphabet
  <2> QED BY <1>9, <2>2, <2>3, <2>4
<1> QED BY <1>11, <1>12, <1>13, <1>14

LEMMA ReadEndMeaning == IInv /\ MInv /\ ReadEnd => MInv'
<1> SUFFICES ASSUME IInv, MInv, ReadEnd PROVE MInv'
  OBVIOUS
<1>0. LineInv /\ OldInv
  BY DEF MInv
<1>1. /\ pc = "value" /\ pc \in Reading \ {"skip", "delay"} /\ Read(NL)
      /\ UNCHANGED <<kind, line, old, filter, delay, op, buf, v, seen_input>>
  BY DEF ReadEnd, local, result, history, Reading
<1>2. PICK m, u : ValueAt(m, u)
  BY <1>1, ValueRead
<1>3. /\ OperatorRead(line, m, op) /\ u = Upto(m, Got) /\ u \in Seq(Accepted)
      /\ (seen_input <=> u # <<>>)
      /\ kind = "number" => v = Number(u) % 2^WordBits /\ buf = <<>>
      /\ kind # "number" => buf = u
  BY <1>2 DEF ValueAt
<1>4. Got = Len(line) /\ old = filter /\ kind # "delay"
  <2>1. tty[1] = NL
    BY <1>0, <1>1, Ahead DEF Read, Reading
  <2> QED BY <1>0, <1>1, <2>1, Ahead DEF OldInv, Reading
<1>5. \A f, o : OperatorRead(line, m, o) =>
                   Meaning(f) = IF u = <<>> THEN {<<0, f>>}
                                ELSE IF Valid(u) THEN {<<0, <<o, Means(u)>>>>, <<1, f>>}
                                ELSE {<<1, f>>}
  <2>1. u = Upto(m, Len(line))
    BY <1>3, <1>4
  <2> QED BY <2>1, MeaningOf
<1>6. CASE Len(buf) = BufLen
  <2>1. pc' = "fault"
    BY <1>6 DEF ReadEnd, Goto
  <2> QED BY <2>1 DEF MInv, LineInv, OldInv, FreshInv, OpInv, ValueInv, ApplyInv, DelayInv,
                      MeaningKept, Answered, Reading
<1>7. CASE Len(buf) # BufLen /\ ~seen_input
  <2>1. pc' = "keys" /\ ret' = 0
    BY <1>7 DEF ReadEnd, Finish
  <2>2. tty' # <<>>
    BY <1>1, ReadLast DEF Reading
  <2>3. PICK f, o : f = filter /\ o = op
    OBVIOUS
  <2>4. Meaning(f) = {<<0, f>>}
    BY <1>3, <1>5, <1>7, <2>3
  <2>5. <<ret', filter'>> \in Meaning(old')
    <3>1. old' = f /\ filter' = f
      BY <1>1, <1>4, <2>3
    <3> QED BY <2>1, <2>4, <3>1
  <2> QED BY <1>1, <1>4, <2>1, <2>2, <2>5, Over
<1>8. CASE Len(buf) # BufLen /\ seen_input
  <2>1. pc' = "apply"
    BY <1>8 DEF ReadEnd, Goto
  <2>2. PICK f, o, x : f = filter /\ o = op /\ x = Value
    OBVIOUS
  <2>3. <<1, f>> \in Meaning(f)
    BY <1>3, <1>5, <1>8, <2>2
  <2>4. (kind = "address" => IsAddress(buf)) => <<0, <<o, x>>>> \in Meaning(f)
    <3> SUFFICES ASSUME kind = "address" => IsAddress(buf) PROVE <<0, <<o, x>>>> \in Meaning(f)
      OBVIOUS
    <3>1. kind \in {"number", "string", "address"}
      BY <1>0, <1>1, Alphabet
    <3>2. ToSet(u) \subseteq Accepted
      BY <1>3, LenProperties, ElementOfSeq DEF ToSet
    <3>3. kind # "number" => Len(u) < BufLen
      <4>1. kind # "number" => Len(u) <= BufLen /\ Len(u) # BufLen
        BY <1>3, <1>8 DEF IInv, TypeOK
      <4>2. PICK n \in Nat, b \in Nat : n = Len(u) /\ b = BufLen
        BY <1>3, LenProperties, LineDialogAssumption
      <4> QED BY <4>1, <4>2
    <3>4. kind = "address" => IsAddress(u)
      BY <1>3
    <3>5. Valid(u)
      BY <1>0, <1>1, <3>2, <3>3, <3>4, Alphabet
    <3>6. x = Means(u)
      BY <1>3, <2>2, <3>1 DEF Value, Means
    <3> QED BY <1>3, <1>5, <1>8, <2>2, <3>5, <3>6
  <2>5. ApplyInv'
    <3>1. <<1, filter>>' \in Meaning(filter)'
      <4>1. Meaning(f)' = Meaning(f)
        BY <1>1, SameMeaning
      <4>2. Meaning(filter)' = Meaning(f)'
        BY <1>1, <2>2 DEF Meaning
      <4> QED BY <1>1, <2>2, <2>3, <4>1, <4>2
    <3>2. (kind = "address" => IsAddress(buf))' =>
             <<0, <<op, Value>>>>' \in Meaning(filter)'
      <4>1. Meaning(f)' = Meaning(f)
        BY <1>1, SameMeaning
      <4>2. Meaning(filter)' = Meaning(f)'
        BY <1>1, <2>2 DEF Meaning
      <4>3. Value' = x /\ op' = o
        BY <1>1, <2>2 DEF Value, Host, Prefix, Slashes, Number, ToSet
      <4>4. IsAddress(buf)' <=> IsAddress(buf)
        BY <1>1 DEF IsAddress, Host, Prefix, Slashes, Number, ToSet
      <4> QED BY <1>1, <2>4, <4>1, <4>2, <4>3, <4>4
    <3> QED BY <3>1, <3>2 DEF ApplyInv
  <2>6. OldInv' /\ MeaningKept'
    BY <1>1, <1>4, <2>1 DEF OldInv, Reading, MeaningKept, Answered
  <2> QED BY <2>1, <2>5, <2>6 DEF MInv, LineInv, FreshInv, OpInv, ValueInv, DelayInv, Reading
<1>9. seen_input \in BOOLEAN
  BY DEF IInv, TypeOK
<1> QED BY <1>6, <1>7, <1>8, <1>9

LEMMA SkipMeaning == IInv /\ MInv /\ Skip => MInv'
<1> SUFFICES ASSUME IInv, MInv, Skip PROVE MInv'
  OBVIOUS
<1>0. LineInv /\ OldInv /\ MeaningKept
  BY DEF MInv
<1>1. /\ pc = "skip" /\ pc \in Reading /\ Read(tty[1])
      /\ UNCHANGED <<kind, line, old, filter>>
  BY DEF Skip, local, result, history, Reading
<1>2. /\ old = IF kind = "delay" THEN <<delay>> ELSE filter
      /\ IF kind = "delay" THEN DelayMeaning(delay) = <<1, delay>>
         ELSE Meaning(filter) = {<<1, filter>>}
  BY <1>0, <1>1 DEF OldInv, MeaningKept
<1>3. UNCHANGED delay
  BY DEF Skip, result
<1>4. CASE tty[1] = NL
  <2>1. pc' = "keys" /\ ret' = 1
    BY <1>4 DEF Skip, Finish
  <2>2. tty' # <<>>
    BY <1>1, <1>4, ReadLast
  <2>3. kind = "delay" => <<ret', delay'>> = DelayMeaning(old'[1])
    <3>1. PICK d : d = delay
      OBVIOUS
    <3>2. kind = "delay" => old'[1] = d /\ DelayMeaning(d) = <<1, d>>
      BY <1>1, <1>2, <3>1
    <3> QED BY <1>3, <2>1, <3>1, <3>2
  <2>4. kind # "delay" => <<ret', filter'>> \in Meaning(old')
    <3>1. PICK f : f = filter
      OBVIOUS
    <3>2. kind # "delay" => old' = f /\ Meaning(f) = {<<1, f>>}
      BY <1>1, <1>2, <3>1
    <3> QED BY <1>1, <2>1, <3>1, <3>2
  <2> QED BY <1>1, <2>1, <2>2, <2>3, <2>4, Over
<1>5. CASE tty[1] # NL
  <2>1. pc' = "skip"
    BY <1>5 DEF Skip, Goto
  <2>2. LineInv'
    BY <1>0, <1>1, <1>5, Advance
  <2> QED BY <1>0, <1>1, <1>2, <1>3, <2>1, <2>2, Skipped
<1> QED BY <1>4, <1>5

LEMMA ApplyMeaning == IInv /\ MInv /\ Apply => MInv'
<1> SUFFICES ASSUME IInv, MInv, Apply PROVE MInv'
  OBVIOUS
<1>1. /\ pc = "apply" /\ pc' = "keys" /\ UNCHANGED <<tty, kind, line, old>>
  BY DEF Apply, Finish, history
<1>2. old = filter /\ kind # "delay" /\ tty # <<>>
  BY <1>1 DEF MInv, OldInv, IInv, TtyInv
<1>3. /\ <<1, filter>> \in Meaning(filter)
      /\ (kind = "address" => IsAddress(buf)) => <<0, <<op, Value>>>> \in Meaning(filter)
  BY <1>1 DEF MInv, ApplyInv
<1>4. \/ ret' = 1 /\ filter' = filter
      \/ ret' = 0 /\ filter' = <<op, Value>> /\ (kind = "address" => IsAddress(buf))
  BY DEF Apply, Finish
<1>5. PICK f, x : f = filter /\ x = filter' /\ old' = f
  BY <1>1, <1>2
<1>6. <<ret', x>> \in Meaning(f)
  BY <1>3, <1>4, <1>5
<1> QED BY <1>1, <1>2, <1>5, <1>6, Over

LEMMA DelayStepMeaning == IInv /\ MInv /\ DelayStep => MInv'
<1> SUFFICES ASSUME IInv, MInv, DelayStep PROVE MInv'
  OBVIOUS
<1>0. LineInv /\ OldInv
  BY DEF MInv
<1>1. /\ pc = "delay" /\ pc \in Reading /\ kind = "delay" /\ old = <<delay>>
      /\ \A i \in 1..Got : line[i] \in Digits
      /\ v = Number(SubSeq(line, 1, Got)) /\ v <= 255
  <2>1. pc = "delay"
    BY DEF DelayStep, DelayDigit, DelayBad, DelayEnd
  <2> QED BY <1>0, <2>1 DEF MInv, OldInv, DelayInv, Reading
<1>2. UNCHANGED <<kind, line, old, filter>>
  BY DEF DelayStep, DelayDigit, DelayBad, DelayEnd, local, result, history
<1>3. PICK g \in 0..Len(line) : g = Got /\ Len(line) \in Nat /\ line \in Seq(ToSet(line))
  BY <1>0, <1>1, Ahead
<1>4. PICK t \in Seq(Digits) :
         /\ t = SubSeq(line, 1, g) /\ v = Number(t)
         /\ g = Len(line) => line = t /\ ToSet(line) \subseteq Digits
         /\ g < Len(line) => SubSeq(line, 1, g + 1) = Append(t, line[g + 1])
  BY <1>1, <1>3, DelayFacts
<1>5. ASSUME pc' = "skip", UNCHANGED delay, LineInv', DelayMeaning(delay) = <<1, delay>>
      PROVE  MInv'
  BY <1>0, <1>1, <1>2, <1>5, Skipped
<1>6. CASE DelayDigit
  <2>1. PICK ch \in Digits : /\ Read(ch) /\ v' = v * 10 + Digit[ch]
                             /\ pc' = IF v' > 255 THEN "skip" ELSE "delay"
    BY <1>6 DEF DelayDigit, Goto
  <2>2. ch # NL /\ UNCHANGED delay
    BY <1>6, LineDialogAssumption DEF DelayDigit, result, AddressChars
  <2>3. g < Len(line) /\ ch = line[g + 1] /\ Got' = g + 1 /\ LineInv'
    BY <1>0, <1>1, <1>2, <1>3, <2>1, <2>2, Advance
  <2>4. PICK w \in Seq(Digits) : w = SubSeq(line, 1, g + 1) /\ v' = Number(w)
    <3>1. SubSeq(line, 1, g + 1) = Append(t, ch)
      BY <1>4, <2>3
    <3>2. Append(t, ch) \in Seq(Digits)
      BY AppendProperties
    <3>3. v' = Number(Append(t, ch))
      BY <1>4, <2>1, NumberDigits
    <3> QED BY <3>1, <3>2, <3>3
  <2>5. v' \in Nat
    BY <2>4, NumberDigits
  <2>6. \A i \in 1..g + 1 : line[i] \in Digits
    <3>1. \A i \in 1..g + 1 : i \in 1..g \/ i = g + 1
      BY <1>3
    <3> QED BY <1>1, <1>3, <2>1, <2>3, <3>1
  <2>7. PICK h \in 0..Len(line) : h = g + 1
    BY <1>3, <2>3
  <2>8. CASE v' > 255
    <3>1. ToSet(line) \subseteq Digits => Number(w) <= Number(line) /\ Number(line) \in Nat
      <4>1. ToSet(line) \subseteq Digits => Number(SubSeq(line, 1, h)) <= Number(line)
        BY <1>3, <2>6, <2>7, DelayFacts
      <4>2. ToSet(line) \subseteq Digits => Number(line) \in Nat
        <5> SUFFICES ASSUME ToSet(line) \subseteq Digits PROVE Number(line) \in Nat
          OBVIOUS
        <5>1. PICK n \in Nat : n = Len(line)
          BY <1>3
        <5>2. \A i \in 1..n : line[i] \in Digits
          BY <1>3, <5>1, LenProperties DEF ToSet
        <5>3. PICK all \in 0..Len(line) : all = Len(line) /\ all = n
          BY <5>1
        <5>4. SubSeq(line, 1, all) \in Seq(Digits) /\ line = SubSeq(line, 1, all)
          BY <1>3, <5>2, <5>3, DelayFacts
        <5> QED BY <5>4, NumberDigits
      <4> QED BY <2>4, <2>7, <4>1, <4>2
    <3>2. ~(ToSet(line) \subseteq Digits /\ Number(line) \in 1..255)
      <4> SUFFICES ASSUME ToSet(line) \subseteq Digits, Number(line) \in 1..255 PROVE FALSE
        OBVIOUS
      <4>1. PICK k \in Nat : k = Number(w) /\ k > 255
        BY <2>4, <2>5, <2>8
      <4>2. PICK n \in 1..255 : n = Number(line)
        OBVIOUS
      <4>3. k <= n
        BY <3>1, <4>1, <4>2
      <4>4. \A a \in Nat, b \in 1..255 : ~(a > 255 /\ a <= b)
        OBVIOUS
      <4> QED BY <4>1, <4>2, <4>3, <4>4
    <3>3. DelayMeaning(delay) = <<1, delay>>
      BY <3>2 DEF DelayMeaning
    <3> QED BY <1>5, <2>1, <2>2, <2>3, <2>8, <3>3
  <2>9. CASE ~(v' > 255)
    <3>1. pc' = "delay" /\ v' <= 255
      BY <2>1, <2>5, <2>9
    <3>2. DelayInv'
      <4>1. v' = Number(SubSeq(line', 1, Got'))
        BY <1>2, <2>3, <2>4
      <4>2. \A i \in 1..Got' : line'[i] \in Digits
        BY <1>2, <2>3, <2>6
      <4>3. Number(SubSeq(line, 1, Got))' = Number(SubSeq(line', 1, Got'))
        BY DEF Number
      <4> QED BY <3>1, <4>1, <4>2, <4>3 DEF DelayInv
    <3>3. OldInv' /\ MeaningKept'
      BY <1>1, <1>2, <2>2, <3>1 DEF OldInv, Reading, MeaningKept, Answered
    <3> QED BY <2>3, <3>1, <3>2, <3>3 DEF MInv, FreshInv, OpInv, ValueInv, ApplyInv
  <2> QED BY <2>8, <2>9
<1>7. CASE DelayBad
  <2>1. /\ pc' = "skip" /\ Read(tty[1]) /\ tty[1] \notin Digits /\ tty[1] # NL /\ UNCHANGED delay
    BY <1>7 DEF DelayBad, Goto, result
  <2>2. LineInv' /\ g < Len(line) /\ tty[1] = line[g + 1]
    BY <1>0, <1>1, <1>2, <1>3, <2>1, Advance
  <2>3. tty[1] \in ToSet(line)
    <3>1. g + 1 \in 1..Len(line) /\ DOMAIN line = 1..Len(line)
      BY <1>3, <2>2, LenProperties
    <3> QED BY <2>2, <3>1 DEF ToSet
  <2>4. DelayMeaning(delay) = <<1, delay>>
    BY <2>1, <2>3 DEF DelayMeaning
  <2> QED BY <1>5, <2>1, <2>2, <2>4
<1>8. CASE DelayEnd
  <2>1. /\ pc' = "keys" /\ Read(NL)
        /\ <<ret', delay'>> = IF v \in 1..255 THEN <<0, v>> ELSE <<1, delay>>
    BY <1>8 DEF DelayEnd, Finish
  <2>2. tty' # <<>> /\ tty[1] = NL
    <3>1. tty' = <<Key>>
      BY <1>1, <2>1, ReadLast
    <3>2. Head(tty) = tty[1]
      BY <1>0, <1>1, Ahead
    <3>3. NL = Head(tty)
      BY <2>1 DEF Read
    <3>4. <<Key>> # <<>>
      OBVIOUS
    <3> QED BY <3>1, <3>2, <3>3, <3>4, Zenon
  <2>3. g = Len(line)
    BY <1>0, <1>1, <1>3, <2>2, Ahead
  <2>4. line = t /\ ToSet(line) \subseteq Digits /\ v = Number(line)
    BY <1>4, <2>3
  <2>5. v \in 1..255 => line # <<>>
    <3>1. Number(<<>>) = 0
      BY NumberDigits
    <3>2. line = <<>> => v = Number(<<>>)
      BY <2>4
    <3> QED BY <3>1, <3>2
  <2>6. PICK d : d = delay
    OBVIOUS
  <2>7. <<ret', delay'>> = DelayMeaning(d)
    BY <2>1, <2>4, <2>5, <2>6 DEF DelayMeaning
  <2>8. old'[1] = d
    BY <1>1, <1>2, <2>6
  <2> QED BY <1>1, <1>2, <2>1, <2>2, <2>7, <2>8, Over
<1> QED BY <1>6, <1>7, <1>8 DEF DelayStep

LEMMA KeysMeaning == IInv /\ MInv /\ KeysStep => MInv'
<1> SUFFICES ASSUME IInv, MInv, KeysStep PROVE MInv'
  OBVIOUS
<1>1. CASE NextKey
  <2>1. tty' = <<>>
    <3>1. tty = <<Key>> /\ tty' = Tail(tty)
      BY <1>1, Zenon DEF IInv, TtyInv, NextKey
    <3>2. Tail(<<Key>>) = <<>>
      OBVIOUS
    <3> QED BY <3>1, <3>2, Zenon
  <2>2. pc' = "keys" /\ buf' = <<>> /\ v' = 0 /\ seen_input' = FALSE
    BY <1>1 DEF NextKey
  <2> QED BY <2>1, <2>2 DEF MInv, LineInv, OldInv, FreshInv, OpInv, ValueInv, ApplyInv,
                            DelayInv, MeaningKept, Answered, Reading
<1>2. CASE Open
  <2>1. /\ pc = "keys" /\ tty = <<>> /\ line' \in Lines[kind] /\ tty' = line' \o <<NL, Key>>
        /\ old' = (IF kind = "delay" THEN <<delay>> ELSE filter)
        /\ pc' = (IF kind = "delay" THEN "delay" ELSE "op")
        /\ UNCHANGED <<kind, buf, v, seen_input, filter, delay>>
    BY <1>2 DEF Open, local, result
  <2>2. kind \in Kinds
    BY DEF IInv, TypeOK
  <2>3. PICK text : text = line' /\ text \in Seq(ToSet(text)) /\ NL \notin ToSet(text)
    BY <2>1, <2>2, LineDialogAssumption
  <2> DEFINE C == ToSet(text) \cup {NL, Key}
  <2>4. PICK s \in Seq(C) : s = text
    <3>1. Len(text) \in Nat /\ text \in [1..Len(text) -> ToSet(text)]
      BY <2>3, LenProperties
    <3>2. text \in [1..Len(text) -> C]
      BY <3>1
    <3> QED BY <3>1, <3>2, SeqDef
  <2>5. PICK n \in Nat : n = Len(s)
    BY LenProperties
  <2>0. NL \in C /\ Key \in C
    OBVIOUS
  <2> HIDE DEF C
  <2>6. Len(tty') = n + 2 /\ \A i \in 1..n : tty'[i] = s[i]
    <3>1. PICK e \in Seq(C) : e = <<NL, Key>> /\ Len(e) = 2
      <4>1. \A D, a, b : a \in D /\ b \in D => <<a, b>> \in Seq(D) /\ Len(<<a, b>>) = 2
        OBVIOUS
      <4> QED BY <2>0, <4>1
    <3>2. /\ Len(s \o e) = Len(s) + Len(e)
          /\ \A i \in 1..Len(s) + Len(e) :
                (s \o e)[i] = IF i <= Len(s) THEN s[i] ELSE e[i - Len(s)]
      BY <2>4, <3>1, ConcatProperties
    <3>3. \A i \in 1..n : i \in 1..Len(s) + Len(e) /\ i <= Len(s)
      BY <2>5, <3>1
    <3> QED BY <2>1, <2>3, <2>4, <2>5, <3>1, <3>2, <3>3
  <2>7. Got' = 0
    <3>1. Len(line') = n /\ n + 2 - (n + 2) = 0
      BY <2>3, <2>4, <2>5
    <3> QED BY <2>6, <3>1 DEF Got
  <2>8. LineInv'
    <3>1. line' \in Seq(ToSet(line')) /\ NL \notin ToSet(line') /\ ToSet(line)' = ToSet(line')
      BY <2>3 DEF ToSet
    <3>2. 0 \in 0..Len(line') /\ \A i \in 1..Len(line') - 0 : tty'[i] = line'[0 + i]
      <4>1. Len(line') = n /\ line' = s
        BY <2>3, <2>4, <2>5
      <4>2. \A i \in 1..n - 0 : i \in 1..n /\ 0 + i = i
        OBVIOUS
      <4> QED BY <2>6, <4>1, <4>2
    <3> QED BY <2>7, <3>1, <3>2 DEF LineInv
  <2>9. 1..0 = {} /\ 1..(0 - 1) = {}
    OBVIOUS
  <2>10. DelayInv'
    <3>1. SubSeq(s, 1, 0) = <<>>
      BY <2>4, <2>5, SubSeqProperties, EmptySeq
    <3>2. Number(SubSeq(line, 1, Got))' = 0
      <4>1. Number(SubSeq(line, 1, Got))' = Number(SubSeq(line', 1, Got'))
        BY DEF Number
      <4>2. SubSeq(line', 1, Got') = <<>>
        BY <2>3, <2>4, <2>7, <3>1
      <4>3. Number(<<>>) = 0
        BY NumberDigits
      <4>4. \A a \in Nat, b \in 1..255 : ~(a > 255 /\ a <= b)
        OBVIOUS
      <4> QED BY <4>1, <4>2, <4>3, <4>4
    <3>3. v' = 0
      BY <2>1 DEF MInv, FreshInv
    <3> QED BY <2>7, <2>9, <3>2, <3>3 DEF DelayInv
  <2>11. OpInv'
    BY <2>1, <2>7, <2>9 DEF OpInv
  <2>12. OldInv' /\ FreshInv' /\ MeaningKept'
    BY <2>1 DEF MInv, OldInv, FreshInv, MeaningKept, Answered, Reading
  <2> QED BY <2>1, <2>8, <2>10, <2>11, <2>12 DEF MInv, ValueInv, ApplyInv
<1>3. CASE WindowExit
  <2>1. pc' = "exited"
    BY <1>3 DEF WindowExit
  <2> QED BY <2>1 DEF MInv, LineInv, OldInv, FreshInv, OpInv, ValueInv, ApplyInv, DelayInv,
                      MeaningKept, Answered, Reading
<1> QED BY <1>1, <1>2, <1>3 DEF KeysStep

\* Nothing changes.
LEMMA StutterMeaning == MInv /\ UNCHANGED vars => MInv'
<1> SUFFICES ASSUME MInv, UNCHANGED vars PROVE MInv'
  OBVIOUS
<1>1. UNCHANGED <<pc, kind, tty, op, buf, v, seen_input, ret, filter, flts, strs, delay,
                  tty_mode, line, old>>
  BY DEF vars
<1>2. Got' = Got /\ ToSet(line)' = ToSet(line)
  BY <1>1 DEF Got, ToSet
<1>3. First' = First /\ Accepted' = Accepted
  BY <1>1, SameMeaning
<1>4. LineInv' /\ OldInv' /\ FreshInv' /\ OpInv'
  BY <1>1, <1>2, <1>3 DEF MInv, LineInv, OldInv, FreshInv, OpInv
<1>5. ValueInv'
  <2> SUFFICES ASSUME pc = "value" PROVE ValueInv'
    BY <1>1 DEF ValueInv
  <2>1. PICK m \in 1..Got + 1 :
            /\ OperatorRead(line, m, op)
            /\ ToSet(Upto(m, Got)) \subseteq Accepted
            /\ seen_input <=> Upto(m, Got) # <<>>
            /\ kind = "number" => v = Number(Upto(m, Got)) % 2^WordBits /\ buf = <<>>
            /\ kind # "number" => buf = Upto(m, Got)
    BY DEF MInv, ValueInv
  <2>2. PICK o, g : o = op /\ g = Got
    OBVIOUS
  <2>3. Upto(m, Got)' = Upto(m, Got)
    <3>1. Upto(m, g)' = Upto(m, g)
      BY <1>1, SameMeaning
    <3>2. Upto(m, Got)' = Upto(m, g)'
      BY <1>2, <2>2 DEF Upto
    <3> QED BY <2>2, <3>1, <3>2
  <2>4. OperatorRead(line, m, op)'
    <3>1. OperatorRead(line, m, o)'
      BY <1>1, <2>1, <2>2, SameMeaning
    <3> QED BY <1>1, <2>2, <3>1 DEF OperatorRead
  <2>5. ToSet(Upto(m, Got))' = ToSet(Upto(m, Got)) /\ Number(Upto(m, Got))' = Number(Upto(m, Got))
    BY <2>3 DEF ToSet, Number
  <2> QED BY <1>1, <1>2, <1>3, <2>1, <2>3, <2>4, <2>5 DEF ValueInv
<1>6. PICK f, d : f = filter /\ d = delay
  OBVIOUS
<1>7. Meaning(filter)' = Meaning(filter) /\ DelayMeaning(delay)' = DelayMeaning(delay)
  <2>1. Meaning(f)' = Meaning(f) /\ DelayMeaning(d)' = DelayMeaning(d)
    BY <1>1, SameMeaning
  <2>2. Meaning(filter)' = Meaning(f)' /\ DelayMeaning(delay)' = DelayMeaning(d)'
    BY <1>1, <1>6 DEF Meaning, DelayMeaning
  <2> QED BY <1>6, <2>1, <2>2
<1>8. ApplyInv'
  <2>1. Value' = Value /\ (IsAddress(buf)' <=> IsAddress(buf))
    BY <1>1 DEF Value, IsAddress, Host, Prefix, Slashes, Number, ToSet
  <2> QED BY <1>1, <1>7, <2>1 DEF MInv, ApplyInv
<1>9. DelayInv'
  <2>1. Number(SubSeq(line, 1, Got))' = Number(SubSeq(line, 1, Got))
    BY <1>1, <1>2 DEF Number
  <2> QED BY <1>1, <1>2, <2>1 DEF MInv, DelayInv
<1>10. MeaningKept'
  <2>1. Meaning(old)' = Meaning(old) /\ DelayMeaning(old[1])' = DelayMeaning(old[1])
    <3>1. PICK o, c : o = old /\ c = old[1]
      OBVIOUS
    <3>2. Meaning(o)' = Meaning(o) /\ DelayMeaning(c)' = DelayMeaning(c)
      BY <1>1, SameMeaning
    <3>3. Meaning(old)' = Meaning(o)' /\ DelayMeaning(old[1])' = DelayMeaning(c)'
      BY <1>1, <3>1 DEF Meaning, DelayMeaning
    <3> QED BY <3>1, <3>2, <3>3
  <2> QED BY <1>1, <1>7, <2>1 DEF MInv, MeaningKept, Answered
<1> QED BY <1>4, <1>5, <1>8, <1>9, <1>10 DEF MInv

LEMMA InitMInv == Init => MInv
BY DEF Init, MInv, LineInv, OldInv, FreshInv, OpInv, ValueInv, ApplyInv, DelayInv,
       MeaningKept, Answered, Reading

LEMMA NextMInv == IInv /\ MInv /\ [Next]_vars => MInv'
<1>1. IInv /\ MInv /\ ValueStep => MInv'
  BY ValueMeaning, ReadEndMeaning, SkipMeaning DEF ValueStep
<1> QED BY <1>1, OperatorMeaning, ApplyMeaning, DelayStepMeaning, KeysMeaning, StutterMeaning
        DEF Next, Dialog, Idle, OperatorStep, ValueStep, DelayStep, KeysStep

-----------------------------------------------------------------------------
(* The invariants.                                                         *)

\* The inductive invariant holds in every state of every dialog.
THEOREM Invariance == Spec => []IInv
<1> QED BY InitIInv, NextIInv, PTL DEF Spec

\* fp_common(), fp_addr() and main_delay_handler() keep every variable in its type,
\* whatever is typed: the buffer is never written past its length while it is filled, and
\* n->delay stays a time halfdelay() takes.
THEOREM TypeCorrect == Spec => []TypeOK
<1>1. IInv => TypeOK
  BY DEF IInv
<1> QED BY <1>1, Invariance, PTL

\* Whichever way a dialog ends, it has read its line to the newline and no further.
THEOREM LineCorrect == Spec => []LineConsumed
<1>1. IInv => LineConsumed
  BY DEF IInv, TtyInv, LineConsumed, Answered
<1> QED BY <1>1, Invariance, PTL

\* Outside the dialogs halfdelay() is in effect with the present delay.
THEOREM ModeCorrect == Spec => []KeyMode
<1>1. IInv => KeyMode
  BY DEF IInv
<1> QED BY <1>1, Invariance, PTL

\* No filter and no string is leaked or freed twice.
THEOREM FilterCorrect == Spec => []OneFilter
<1>1. IInv => OneFilter
  BY DEF IInv
<1> QED BY <1>1, Invariance, PTL

\* Read character by character, with one character pushed back and every early exit, a
\* line means to fp_common(), fp_addr() and main_delay_handler() what it means as a
\* whole, whatever is typed; a line in error changes nothing.
THEOREM MeaningCorrect == Spec => []MeaningKept
<1>1. MInv => MeaningKept
  BY DEF MInv
<1> QED BY <1>1, Invariance, InitMInv, NextMInv, PTL DEF Spec

\* The steps a dialog has left at most: a character is read, put back and read again.
StepsLeft == 2 * Len(tty) + IF pc \in {"!", ">", "<", "apply"} THEN 1 ELSE 0

LEMMA ReadCloser ==
    ASSUME IInv, pc \in Reading, NEW ch, Read(ch)
    PROVE  Len(tty) \in Nat /\ Len(tty') \in Nat /\ Len(tty') = Len(tty) - 1
<1>1. tty \in Seq(Chars) /\ tty # <<>>
  BY DEF IInv, TtyInv, LineAhead, Read
<1>2. PICK t \in Seq(Chars) : t = Tail(tty) /\ Len(t) = Len(tty) - 1
  BY <1>1, TailEntries
<1>3. tty' = t
  BY <1>2 DEF Read
<1> QED BY <1>1, <1>2, <1>3, LenProperties

\* Each step of a dialog reads a character or is the last before the next is read or the
\* dialog is over: a line of n characters takes at most 2n + 2 steps, whatever they are.
\* This is why DialogEnds holds.
THEOREM DialogCloser ==
    Spec => [][pc \notin {"keys", "exited", "fault"} =>
                  StepsLeft \in Nat /\ StepsLeft' \in Nat /\ StepsLeft' < StepsLeft]_vars
<1>1. ASSUME IInv, Next, pc \notin {"keys", "exited", "fault"}, ~UNCHANGED vars
      PROVE  StepsLeft \in Nat /\ StepsLeft' \in Nat /\ StepsLeft' < StepsLeft
  <2>1. Dialog
    <3>1. NextKey \/ Open \/ WindowExit => pc = "keys"
      BY Zenon DEF NextKey, Open, WindowExit
    <3>2. ~Idle
      BY <1>1, Zenon DEF Idle
    <3> QED BY <1>1, <3>1, <3>2, Zenon DEF Next
  <2>2. CASE Apply
    <3>1. pc = "apply" /\ pc' = "keys" /\ tty' = tty
      BY <2>2 DEF Apply, Finish
    <3>2. tty = <<Key>>
      BY <1>1, <3>1 DEF IInv, TtyInv
    <3> QED BY <3>1, <3>2 DEF StepsLeft
  <2>3. CASE pc \in Reading /\ \E ch : Read(ch)
    <3>1. Len(tty) \in Nat /\ Len(tty') \in Nat /\ Len(tty') = Len(tty) - 1
      BY <1>1, <2>3, ReadCloser
    <3> QED BY <3>1 DEF StepsLeft
  <2>4. CASE ReadOp2 /\ UNCHANGED tty
    <3>1. pc \in {"!", ">", "<"} /\ pc' \in {"skip", "value"} /\ tty' = tty
      BY <1>1, <2>4 DEF ReadOp2, Read, Goto, vars, IInv, TtyInv, LineAhead
    <3>2. Len(tty) \in Nat
      BY <1>1, <3>1, LenProperties DEF IInv, TtyInv, LineAhead, Reading
    <3> QED BY <3>1, <3>2 DEF StepsLeft
  <2>5. ASSUME OperatorStep PROVE (pc \in Reading /\ \E ch : Read(ch)) \/ (ReadOp2 /\ UNCHANGED tty)
    <3>1. CASE ReadOp2
      BY <3>1 DEF ReadOp2, Reading
    <3>2. CASE ReadEmpty
      BY <3>2, Zenon DEF ReadEmpty, Reading
    <3>3. CASE ReadBlank
      BY <3>3, Zenon DEF ReadBlank, Reading
    <3>4. CASE ReadOp
      BY <3>4, Zenon DEF ReadOp, Reading
    <3>5. CASE ReadNoOp
      BY <3>5, Zenon DEF ReadNoOp, Reading
    <3> QED BY <2>5, <3>1, <3>2, <3>3, <3>4, <3>5 DEF OperatorStep
  <2>6. ASSUME ValueStep PROVE pc \in Reading /\ \E ch : Read(ch)
    <3>1. CASE ReadValueBlank \/ ReadDigit \/ ReadChar
      BY <3>1, Zenon DEF ReadValueBlank, ReadDigit, ReadChar, Reading
    <3>2. CASE ReadBad \/ ReadEnd \/ Skip
      BY <3>2, Zenon DEF ReadBad, ReadEnd, Skip, Reading
    <3> QED BY <2>6, <3>1, <3>2 DEF ValueStep
  <2>7. ASSUME DelayStep PROVE pc \in Reading /\ \E ch : Read(ch)
    BY <2>7, Zenon DEF DelayStep, DelayDigit, DelayBad, DelayEnd, Reading
  <2> QED BY <2>1, <2>2, <2>3, <2>4, <2>5, <2>6, <2>7 DEF Dialog, OperatorStep, ValueStep, DelayStep
<1>2. IInv /\ [Next]_vars =>
         [pc \notin {"keys", "exited", "fault"} =>
             StepsLeft \in Nat /\ StepsLeft' \in Nat /\ StepsLeft' < StepsLeft]_vars
  BY <1>1
<1> QED BY Invariance, <1>2, PTL DEF Spec
=============================================================================
