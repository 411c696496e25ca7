----------------------------- MODULE LineDialog -----------------------------
(***************************************************************************)
(* The dialogs that read a line: fp_common() and fp_addr() read a filter,  *)
(* main_delay_handler() the delay.  They switch the terminal to line mode, *)
(* take the line in character by character, with one character pushed back *)
(* where an operator may be longer, and go back to key mode.  Each         *)
(* wgetch() is a step.                                                     *)
(*                                                                         *)
(* Characters are members of Chars; the text of a whole address is one of  *)
(* them.  One field (or the delay) is followed through any number of       *)
(* dialogs; behind the line there is always a key the user typed ahead.    *)
(***************************************************************************)
EXTENDS Integers, SequencesExt

CONSTANTS
    Kinds,      \* "number", "string", "address": field_type(f); or "delay"
    Lines,      \* bound: the lines typed in a dialog of each kind
    Digit,      \* the value of each digit
    Addresses,  \* the characters inet_pton() takes for an address
    Blanks,     \* space and tab
    Printable,  \* isprint()
    NL, Key,    \* newline; the key typed ahead
    WordBits,   \* 64 for an unsigned long long
    BufLen      \* sizeof(buf)

Digits == DOMAIN Digit
AddressChars == Addresses \cup Digits \cup {"/"}

ASSUME LineDialogAssumption ==
    /\ Kinds \subseteq {"number", "string", "address", "delay"}
    /\ \A k \in Kinds : \A text \in Lines[k] : text \in Seq(ToSet(text)) /\ NL \notin ToSet(text)
    /\ NL \notin Blanks \cup Printable \cup AddressChars \cup {"=", "~", ">", "<", "!"}
    /\ Blanks \cap (AddressChars \cup {"=", "~", ">", "<", "!"}) = {}
    /\ \A d \in Digits : Digit[d] \in 0..9
    /\ WordBits \in Nat \ {0} /\ 2^WordBits \in Nat \ {0} /\ BufLen \in Nat \ {0}

VARIABLES
    pc,
    kind,       \* what the dialog is for
    tty,        \* the characters wgetch() will return
    op, buf, v, seen_input,     \* the local variables
    ret,        \* what filter_parse() returned: 0, or 1 for an error
    filter,     \* f->filter: <<>> for NULL, or <<op, value>>
    flts, strs, \* struct filters and filter strings allocated
    delay,      \* n->delay
    tty_mode,   \* 0 in line mode, else the argument of the last halfdelay()
    line, old   \* history: the line typed, and f->filter or n->delay before it

vars == <<pc, kind, tty, op, buf, v, seen_input, ret, filter, flts, strs, delay,
          tty_mode, line, old>>
local == <<op, buf, v, seen_input>>
result == <<filter, flts, strs, delay>>
history == <<kind, line, old>>

Init ==
    /\ pc = "keys" /\ kind \in Kinds
    /\ tty = <<>>
    /\ op = "" /\ buf = <<>> /\ v = 0 /\ seen_input = FALSE /\ ret = 0
    /\ filter = <<>> /\ flts = 0 /\ strs = 0
    /\ delay = 30 /\ tty_mode = 30
    /\ line = <<>> /\ old = <<>>

-----------------------------------------------------------------------------

\* should_stop() reads the key typed ahead; the dialog's variables are gone.
NextKey ==
    /\ pc = "keys"
    /\ tty # <<>> /\ tty' = Tail(tty)
    /\ op' = "" /\ buf' = <<>> /\ v' = 0 /\ seen_input' = FALSE
    /\ ret' = 0 /\ line' = <<>> /\ old' = <<>>
    /\ UNCHANGED <<pc, kind, result, tty_mode>>

\* The dialog is drawn, and the user types.
Open ==
    /\ pc = "keys"
    /\ tty = <<>>
    /\ line' \in Lines[kind]
    /\ tty' = line' \o <<NL, Key>>
    /\ old' = IF kind = "delay" THEN <<delay>> ELSE filter
    /\ pc' = IF kind = "delay" THEN "delay" ELSE "op"
    /\ tty_mode' = 0
    /\ UNCHANGED <<kind, ret, local, result>>

\* wgetch() returns ch.
Read(ch) == tty # <<>> /\ ch = Head(tty) /\ tty' = Tail(tty)

Goto(label) == pc' = label /\ UNCHANGED <<ret, tty_mode>>

\* out: the terminal goes back to key mode.
Finish(err) ==
    /\ pc' = "keys"
    /\ ret' = err
    /\ tty_mode' = delay'

\* A mistake: an empty line returns before out.
ReadEmptyReturns ==
    /\ pc = "op"
    /\ Read(NL)
    /\ pc' = "keys" /\ ret' = IF filter = <<>> THEN 1 ELSE 0
    /\ UNCHANGED <<local, result, history, tty_mode>>

\* An empty line is an error unless there is a filter, which it leaves alone.
ReadEmpty ==
    /\ pc = "op"
    /\ Read(NL)
    /\ UNCHANGED <<local, result, history>>
    /\ Finish(IF filter = <<>> THEN 1 ELSE 0)

-----------------------------------------------------------------------------
(* The operator.                                                           *)

\* The cases of the switch, and what a second character makes of them.
First ==
    IF kind = "address" THEN [c \in {"="} |-> "EQ"]
    ELSE [c \in {"=", "~", ">", "<"} |->
             CASE c = "=" -> "EQ" [] c = "~" -> "CT" [] c = ">" -> "GT" [] c = "<" -> "LT"]

Second(c) ==
    CASE c = "!" /\ kind # "address" ->
             [d \in {"=", "~"} |-> IF d = "=" THEN "NE" ELSE "NC"]
      [] c = "!" /\ kind = "address" -> [d \in {"="} |-> "NE"]
      [] c \in {">", "<"} /\ kind # "address" ->
             [d \in {"="} |-> IF c = ">" THEN "GE" ELSE "LE"]
      [] OTHER -> <<>>

ReadBlank ==
    /\ pc = "op"
    /\ \E ch \in Blanks : Read(ch)
    /\ UNCHANGED <<pc, ret, tty_mode, local, result, history>>

\* A character that is an operator, or begins one.
ReadOp ==
    /\ pc = "op"
    /\ tty[1] \in DOMAIN First \cup {"!"}
    /\ Read(tty[1])
    /\ op' = IF tty[1] \in DOMAIN First THEN First[tty[1]] ELSE ""
    /\ Goto(IF DOMAIN Second(tty[1]) # {} THEN tty[1] ELSE "value")
    /\ UNCHANGED <<buf, v, seen_input, result, history>>

ReadNoOp ==
    /\ pc = "op"
    /\ tty[1] \notin DOMAIN First \cup {"!", NL} \cup Blanks
    /\ Read(tty[1])
    /\ Goto("skip")
    /\ UNCHANGED <<local, result, history>>

\* A mistake: ungetch() is forgotten after '>' and '<'.
ReadOp2Drops ==
    /\ pc \in {"!", ">", "<"}
    /\ Read(tty[1])
    /\ IF tty[1] \in DOMAIN Second(pc)
       THEN op' = Second(pc)[tty[1]] /\ Goto("value")
       ELSE UNCHANGED op /\ Goto(IF pc = "!" THEN "skip" ELSE "value")
    /\ UNCHANGED <<buf, v, seen_input, result, history>>

\* The second character, which ungetch() puts back if it is not of the operator.
ReadOp2 ==
    /\ pc \in {"!", ">", "<"}
    /\ IF tty[1] \in DOMAIN Second(pc)
       THEN Read(tty[1]) /\ op' = Second(pc)[tty[1]] /\ Goto("value")
       ELSE UNCHANGED <<tty, op>> /\ Goto(IF pc = "!" THEN "skip" ELSE "value")
    /\ UNCHANGED <<buf, v, seen_input, result, history>>

-----------------------------------------------------------------------------
(* The value.                                                              *)

ReadValueBlank ==
    /\ pc = "value" /\ kind # "string"
    /\ \E ch \in Blanks : Read(ch)
    /\ UNCHANGED <<pc, ret, tty_mode, local, result, history>>

ReadDigit ==
    /\ pc = "value" /\ kind = "number"
    /\ \E ch \in Digits : Read(ch) /\ v' = (v * 10 + Digit[ch]) % 2^WordBits
    /\ seen_input' = TRUE
    /\ UNCHANGED <<pc, ret, tty_mode, op, buf, result, history>>

Accepted ==
    CASE kind = "number" -> Digits
      [] kind = "string" -> Printable
      [] kind = "address" -> AddressChars

\* A character of a string or an address: an error when buf is full.
ReadChar ==
    /\ pc = "value" /\ kind \in {"string", "address"}
    /\ \E ch \in Accepted : Read(ch) /\ buf' = IF Len(buf) < BufLen THEN Append(buf, ch) ELSE buf
    /\ seen_input' = TRUE
    /\ Goto(IF Len(buf) < BufLen THEN "value" ELSE "skip")
    /\ UNCHANGED <<op, v, result, history>>

\* A mistake: the dialog ends at once, and the rest of the line is left.
ReadBadEnds ==
    /\ pc = "value"
    /\ tty[1] \notin Accepted \cup {NL}
    /\ kind # "string" => tty[1] \notin Blanks
    /\ Read(tty[1])
    /\ UNCHANGED <<local, result, history>>
    /\ Finish(1)

ReadBad ==
    /\ pc = "value"
    /\ tty[1] \notin Accepted \cup {NL}
    /\ kind # "string" => tty[1] \notin Blanks
    /\ Read(tty[1])
    /\ Goto("skip")
    /\ UNCHANGED <<local, result, history>>

\* A mistake: with no value typed the rest of the line is skipped, which is gone.
ReadEndSkips ==
    /\ pc = "value"
    /\ Read(NL)
    /\ Goto(IF seen_input THEN "apply" ELSE "skip")
    /\ UNCHANGED <<local, result, history>>

\* The end of the line: *s = '\0' is past the end of a full buffer, and what it
\* overwrites is not known.  With no value typed the line is accepted as it is.
ReadEnd ==
    /\ pc = "value"
    /\ Read(NL)
    /\ UNCHANGED <<local, result, history>>
    /\ IF Len(buf) = BufLen THEN Goto("fault")
       ELSE IF seen_input THEN Goto("apply")
       ELSE Finish(0)

\* An error was found: read on to the end of the line.
Skip ==
    /\ pc = "skip"
    /\ tty # <<>>
    /\ Read(tty[1])
    /\ UNCHANGED <<local, result, history>>
    /\ IF tty[1] = NL THEN Finish(1) ELSE Goto("skip")

-----------------------------------------------------------------------------
(* The new filter.                                                         *)

\* The number some digits stand for.
Number(s) ==
    LET number[n \in 0..Len(s)] == IF n = 0 THEN 0 ELSE number[n - 1] * 10 + Digit[s[n]]
    IN  number[Len(s)]

\* Text before the last slash, and the prefix length after it; -1 when strtol()
\* stops early or the length is out of range, all bits without a slash.  (With
\* nothing behind the slash strtol() returns 0.)
Slashes(text) == {i \in DOMAIN text : text[i] = "/"}
Host(text) == IF Slashes(text) = {} THEN text
              ELSE SubSeq(text, 1, Max(Slashes(text)) - 1)
Prefix(text) ==
    IF Slashes(text) = {} THEN 128
    ELSE LET digits == SubSeq(text, Max(Slashes(text)) + 1, Len(text))
         IN  IF ToSet(digits) \subseteq Digits /\ Number(digits) <= 128
             THEN Number(digits) ELSE -1

IsAddress(text) == Prefix(text) >= 0 /\ \E a \in Addresses : Host(text) = <<a>>

Value ==
    CASE kind = "number" -> v
      [] kind = "string" -> buf
      [] kind = "address" -> <<Host(buf), Prefix(buf)>>

\* A mistake: the filter there was is not freed.
ApplyLeaks ==
    /\ pc = "apply"
    /\ flts' = flts + 1 /\ strs' = strs + (IF kind = "string" THEN 1 ELSE 0)
    /\ filter' = <<op, Value>>
    /\ UNCHANGED <<tty, local, delay, history>>
    /\ Finish(0)

\* calloc(), and strdup() for a string, fail, or the old filter is freed and the
\* new one takes its place.
Apply ==
    /\ pc = "apply"
    /\ UNCHANGED <<tty, local, delay, history>>
    /\ \/ /\ kind = "address" => IsAddress(buf)
          /\ filter' = <<op, Value>>
          /\ LET gone == IF filter = <<>> THEN 0 ELSE 1 IN
             /\ flts' = flts + 1 - gone
             /\ strs' = IF kind = "string" THEN strs + 1 - gone ELSE strs
          /\ Finish(0)
       \/ UNCHANGED <<filter, flts, strs>> /\ Finish(1)

-----------------------------------------------------------------------------
(* main_delay_handler().                                                   *)

DelayDigit ==
    /\ pc = "delay"
    /\ \E ch \in Digits :
          /\ Read(ch)
          /\ v' = v * 10 + Digit[ch]
          /\ Goto(IF v' > 255 THEN "skip" ELSE "delay")
    /\ UNCHANGED <<op, buf, seen_input, result, history>>

DelayBad ==
    /\ pc = "delay"
    /\ tty[1] \notin Digits \cup {NL}
    /\ Read(tty[1])
    /\ Goto("skip")
    /\ UNCHANGED <<local, result, history>>

\* A mistake: the value is only checked against 255, as it is read.
DelayEndUnchecked ==
    /\ pc = "delay"
    /\ Read(NL)
    /\ delay' = v
    /\ UNCHANGED <<local, filter, flts, strs, history>>
    /\ Finish(0)

\* The end of the line: 0, or no number at all, is not taken.
DelayEnd ==
    /\ pc = "delay"
    /\ Read(NL)
    /\ delay' = IF v \in 1..255 THEN v ELSE delay
    /\ UNCHANGED <<local, filter, flts, strs, history>>
    /\ Finish(IF v \in 1..255 THEN 0 ELSE 1)

-----------------------------------------------------------------------------

\* window_exit() frees the filter.
WindowExit ==
    /\ pc = "keys"
    /\ pc' = "exited"
    /\ filter' = <<>>
    /\ flts' = flts - (IF filter = <<>> THEN 0 ELSE 1)
    /\ strs' = strs - (IF kind # "string" \/ filter = <<>> THEN 0 ELSE 1)
    /\ UNCHANGED <<tty, local, ret, delay, tty_mode, history>>

\* The process has ended, or wgetch() waits for the user.
Idle == (pc \in {"exited", "fault"} \/ tty = <<>>) /\ UNCHANGED vars

Dialog ==
    \/ ReadEmpty \/ ReadBlank \/ ReadOp \/ ReadNoOp \/ ReadOp2
    \/ ReadValueBlank \/ ReadDigit \/ ReadChar \/ ReadBad \/ ReadEnd
    \/ Skip \/ Apply
    \/ DelayDigit \/ DelayBad \/ DelayEnd

Next == NextKey \/ Open \/ Dialog \/ WindowExit \/ Idle

\* A typed line is there to be read, and the handler reads on.
Spec == Init /\ [][Next]_vars /\ WF_vars(Dialog)

-----------------------------------------------------------------------------
(* What a line means, read as a whole.                                     *)

Operators ==
    IF kind = "address"
    THEN [s \in {<<"=">>, <<"!", "=">>} |-> IF s = <<"=">> THEN "EQ" ELSE "NE"]
    ELSE [s \in {<<"=">>, <<"~">>, <<">">>, <<"<">>, <<"!", "=">>, <<"!", "~">>,
                 <<">", "=">>, <<"<", "=">>} |->
             CASE s = <<"=">> -> "EQ" [] s = <<"!", "=">> -> "NE"
               [] s = <<"~">> -> "CT" [] s = <<"!", "~">> -> "NC"
               [] s = <<">">> -> "GT" [] s = <<">", "=">> -> "GE"
               [] s = <<"<">> -> "LT" [] s = <<"<", "=">> -> "LE"]

\* A text without its blanks, and from the first other character on.
Text(s) ==
    LET text[n \in 0..Len(s)] ==
            IF n = 0 THEN <<>>
            ELSE IF s[n] \in Blanks THEN text[n - 1] ELSE Append(text[n - 1], s[n])
    IN  text[Len(s)]
Trimmed(s) ==
    IF ToSet(s) \subseteq Blanks THEN <<>>
    ELSE SubSeq(s, Min({i \in DOMAIN s : s[i] \notin Blanks}), Len(s))
OpLen(s) == Max({0} \cup {k \in {1, 2} : k <= Len(s) /\ SubSeq(s, 1, k) \in DOMAIN Operators})

\* What follows the operator, whether it is a value, and which.
Operand(s) ==
    LET after == SubSeq(s, OpLen(s) + 1, Len(s))
    IN  IF kind = "string" THEN after ELSE Text(after)
Valid(operand) ==
    CASE kind = "number" -> ToSet(operand) \subseteq Digits
      [] kind = "string" -> ToSet(operand) \subseteq Printable /\ Len(operand) < BufLen
      [] kind = "address" -> /\ ToSet(operand) \subseteq AddressChars
                             /\ Len(operand) < BufLen /\ IsAddress(operand)
Means(operand) ==
    CASE kind = "number" -> Number(operand) % 2^WordBits
      [] kind = "string" -> operand
      [] kind = "address" -> <<Host(operand), Prefix(operand)>>

\* The filters a line may leave, and with which result, where there was filter f.
Meaning(f) ==
    LET s == Trimmed(line)
        n == OpLen(s)
        operand == Operand(s)
        failed == <<1, f>>
    IN  IF s = <<>> THEN {<<IF f = <<>> THEN 1 ELSE 0, f>>}
        ELSE IF n = 0 THEN {failed}
        ELSE IF operand = <<>> THEN {<<0, f>>}
        ELSE IF Valid(operand) THEN {<<0, <<Operators[SubSeq(s, 1, n)], Means(operand)>>>>, failed}
        ELSE {failed}

DelayMeaning(d) ==
    IF line # <<>> /\ ToSet(line) \subseteq Digits /\ Number(line) \in 1..255
    THEN <<0, Number(line)>> ELSE <<1, d>>

-----------------------------------------------------------------------------
(* Properties.                                                             *)

\* Every variable holds a value of its type.
TypeOK ==
    /\ pc \in {"keys", "op", "!", ">", "<", "value", "skip", "apply", "delay",
               "exited", "fault"}
    /\ kind \in Kinds
    /\ op \in {"", "EQ", "NE", "GT", "GE", "LT", "LE", "CT", "NC"}
    /\ Len(buf) <= BufLen
    /\ v \in Nat /\ seen_input \in BOOLEAN /\ ret \in {0, 1}
    /\ flts \in Nat /\ strs \in Nat
    /\ delay \in 1..255

Answered == pc = "keys" /\ tty # <<>>

\* Reading character by character, with its one character of push-back, its blanks
\* between digits and its early exits, gives the line the meaning it has when
\* read as a whole; a line in error leaves the filter, or the delay, as it was, and
\* the rest of a line is skipped only if it has no meaning.
MeaningKept ==
    IF kind = "delay"
    THEN /\ pc = "skip" => DelayMeaning(delay) = <<1, delay>>
         /\ Answered => <<ret, delay>> = DelayMeaning(old[1])
    ELSE /\ pc = "skip" => Meaning(filter) = {<<1, filter>>}
         /\ Answered => <<ret, filter>> \in Meaning(old)

\* However a dialog ends it has read the line it was for, all of it, and nothing of
\* what was typed after it: no character of a rejected line is taken for a key.
LineConsumed == Answered => tty = <<Key>>

\* Outside the dialogs the terminal is in key mode, and waits for a key as long as
\* n->delay says, on every path out of a dialog.
KeyMode == pc = "keys" => tty_mode = delay

\* There is one filter and one string, or none: none is leaked when a filter is
\* replaced, when the second allocation fails or when the program ends.
OneFilter ==
    /\ flts = IF filter = <<>> THEN 0 ELSE 1
    /\ strs = IF kind = "string" THEN flts ELSE 0

\* A dialog ends when its line does.
DialogEnds == pc \notin {"keys", "exited"} ~> pc \in {"keys", "fault"}
=============================================================================
