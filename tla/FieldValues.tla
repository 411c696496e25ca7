----------------------------- MODULE FieldValues -----------------------------
(***************************************************************************)
(* The three functions a row of tcp_fields[] has for a value of its field: *)
(* draw_row shows it, sort_func compares two of them, and filter_apply     *)
(* says whether a filter lets it through.  Each reads the value out of the *)
(* conn_info anew, with a layout of its own, so there are three tables of  *)
(* layouts.                                                                *)
(*                                                                         *)
(* A value in memory is a byte or a word, or a tuple of them in the order  *)
(* of their addresses; of fields that are alike one stands for all.        *)
(***************************************************************************)
EXTENDS Integers, FiniteSets, SequencesExt

CONSTANT WordBits   \* 32: bits of tcpi_bbr.bbr_bw_lo and bbr_bw_hi

ASSUME FieldValuesAssumption == WordBits \in Nat \ {0} /\ 2^WordBits \in Nat

\* The n bits from bit first of a byte: a bit field; a byte; a whole word; a 16-bit
\* number in network order; a 64-bit number in two words, the low one first.
Bits(first, n) == <<"bits", first, n>>
Byte == Bits(0, 8)
Whole == <<"whole">>
Ntohs == <<"ntohs">>
LowHigh == <<"lowhigh">>

\* The `enabled' of Vegas, a 32-bit word, and that of DCTCP, a 16-bit one: their fa_
\* functions copy the value to a local variable of one byte, of which fa_str_common()
\* reads as many bytes as the field has.  What it reads is not defined.
ReadPast == {"vegas_enabled", "dctcp_enabled"}
Overread == <<"overread">>

Read(layout, data) ==
    CASE layout[1] = "bits" -> (data \div 2^layout[2]) % 2^layout[3]
      [] layout[1] = "whole" -> data
      [] layout[1] = "ntohs" -> data[1] * 2^8 + data[2]
      [] layout[1] = "lowhigh" -> data[2] * 2^WordBits + data[1]

\* The fields whose layout is theirs alone, as draw_row reads them ...
DrawBits ==
    [sport |-> Ntohs, bw |-> LowHigh,
     vegas_enabled |-> Whole, dctcp_enabled |-> Whole,
     shutdown |-> Bits(0, 2),
     snd_wscale |-> Bits(0, 4), rcv_wscale |-> Bits(4, 4),
     delivery_rate_app_limited |-> Bits(0, 1), fastopen_client_fail |-> Bits(1, 2),
     ecn_mode |-> Bits(0, 2), accecn_opt_seen |-> Bits(2, 2), accecn_fail_mode |-> Bits(4, 4),
     bind_address_no_port |-> Bits(0, 1), recverr_rfc4884 |-> Bits(1, 1),
     defer_connect |-> Bits(2, 1)]

\* A mistake: the byte of the two window scales is read from its other end.
SortBitsSwapped ==
    [sport |-> Ntohs, bw |-> LowHigh,
     vegas_enabled |-> Whole, dctcp_enabled |-> Whole,
     shutdown |-> Byte,
     snd_wscale |-> Bits(4, 4), rcv_wscale |-> Bits(0, 4),
     delivery_rate_app_limited |-> Bits(0, 1), fastopen_client_fail |-> Bits(1, 2),
     ecn_mode |-> Bits(0, 2), accecn_opt_seen |-> Bits(2, 2), accecn_fail_mode |-> Bits(4, 4),
     bind_address_no_port |-> Bits(0, 1), recverr_rfc4884 |-> Bits(1, 1),
     defer_connect |-> Bits(2, 1)]

\* ... as sort_func does ...
SortBits ==
    [sport |-> Ntohs, bw |-> LowHigh,
     vegas_enabled |-> Whole, dctcp_enabled |-> Whole,
     shutdown |-> Byte,
     snd_wscale |-> Bits(0, 4), rcv_wscale |-> Bits(4, 4),
     delivery_rate_app_limited |-> Bits(0, 1), fastopen_client_fail |-> Bits(1, 2),
     ecn_mode |-> Bits(0, 2), accecn_opt_seen |-> Bits(2, 2), accecn_fail_mode |-> Bits(4, 4),
     bind_address_no_port |-> Bits(0, 1), recverr_rfc4884 |-> Bits(1, 1),
     defer_connect |-> Bits(2, 1)]

\* ... and as filter_apply does.
FilterBits ==
    [sport |-> Ntohs, bw |-> LowHigh,
     vegas_enabled |-> Overread, dctcp_enabled |-> Overread,
     shutdown |-> Byte,
     snd_wscale |-> Bits(0, 4), rcv_wscale |-> Bits(4, 4),
     delivery_rate_app_limited |-> Bits(0, 1), fastopen_client_fail |-> Bits(1, 2),
     ecn_mode |-> Bits(0, 2), accecn_opt_seen |-> Bits(2, 2), accecn_fail_mode |-> Bits(4, 4),
     bind_address_no_port |-> Bits(0, 1), recverr_rfc4884 |-> Bits(1, 1),
     defer_connect |-> Bits(2, 1)]

\* The bit of TYPE_BIT_U8, which dr_common(), sort_common() and fa_str_common() take
\* from f->type.
TypeBit ==
    [recverr |-> 0, is_icsk |-> 1, freebind |-> 2, hdrincl |-> 3, mc_loop |-> 4,
     transparent |-> 5, mc_all |-> 6, nodefrag |-> 7]

Layout(table, f) ==
    IF f \in DOMAIN table THEN table[f]
    ELSE IF f \in DOMAIN TypeBit THEN Bits(TypeBit[f], 1)
    ELSE Byte

-----------------------------------------------------------------------------
(* What a field is like.                                                   *)

Booleans ==
    DOMAIN TypeBit \cup ReadPast \cup {"ipv6only", "delivery_rate_app_limited",
        "bind_address_no_port", "recverr_rfc4884", "defer_connect"}

\* The names a value has, by the value: state_str[], timer_str[], and so on; the
\* dialog offers those from fp_str_common()'s start to its end.
Names ==
    [state |-> <<1, 11>>, timer |-> <<0, 5>>, shutdown |-> <<1, 3>>, ca_state |-> <<0, 4>>,
     options |-> <<0, 7>>, fastopen_client_fail |-> <<0, 3>>, ecn_mode |-> <<0, 3>>,
     accecn_opt_seen |-> <<0, 3>>, accecn_fail_mode |-> <<0, 3>>]

Masks == {"options", "accecn_fail_mode"}        \* a name for each bit
Named == Booleans \cup DOMAIN Names
Numbers == {"tos", "snd_wscale", "rcv_wscale", "sport", "bw"}
Strings == {"comm"}
AddressFields == {"src", "dst"}
AllFields == Named \cup Numbers \cup Strings \cup AddressFields

Start == [f \in Named |-> IF f \in Booleans THEN 0 ELSE Names[f][1]]
End == [f \in Named |-> IF f \in Booleans THEN 1 ELSE Names[f][2]]
Listed(f) == Start[f]..End[f]

-----------------------------------------------------------------------------
(* draw_row.                                                               *)

SetBits(byte) == {i \in 0..7 : (byte \div 2^i) % 2 = 1}

\* The name a value is shown by, -1 for "?"; the names of a mask; the number, the
\* string or the address itself.
Shown(f, data) ==
    CASE f \in Strings \cup AddressFields -> data
      [] f \in Numbers -> Read(Layout(DrawBits, f), data)
      [] f \in Masks -> SetBits(Read(Layout(DrawBits, f), data))
      [] f \in Booleans -> IF Read(Layout(DrawBits, f), data) = 0 THEN 0 ELSE 1
      [] f = "shutdown" -> Read(Layout(DrawBits, f), data)
      [] OTHER -> LET v == Read(Layout(DrawBits, f), data)
                  IN  IF v \in Listed(f) THEN v ELSE -1

-----------------------------------------------------------------------------
(* sort_func.                                                              *)

Sign(less, greater) == IF less THEN -1 ELSE IF greater THEN 1 ELSE 0
SignOf(v, w) == Sign(v < w, v > w)

\* The loop of sort_common() over two strings; what is behind the end is '\0'.
CompareStrings(s, t) ==
    LET At(x, j) == IF j <= Len(x) THEN x[j] ELSE 0
        k == CHOOSE n \in 1..Len(s) + 1 :
                /\ At(s, n) = 0 \/ At(t, n) = 0 \/ At(s, n) # At(t, n)
                /\ \A m \in 1..n - 1 : At(s, m) # 0 /\ At(t, m) # 0 /\ At(s, m) = At(t, m)
    IN  SignOf(At(s, k), At(t, k))

\* ntohl(): the byte that comes first counts most.
CompareWords(a, b) ==
    LET differ == {i \in 1..4 : a[i] # b[i]}
    IN  IF differ = {} THEN 0 ELSE SignOf(a[Min(differ)], b[Min(differ)])

\* sort_address(): one word for AF_INET, else word by word until two differ.
CompareAddresses(a, b) ==
    LET Word(addr, i) == SubSeq(addr, 4 * i + 1, 4 * i + 4)
        signs == [i \in 0..(IF Len(a) = 4 THEN 0 ELSE 3) |-> CompareWords(Word(a, i), Word(b, i))]
        differ == {i \in DOMAIN signs : signs[i] # 0}
    IN  IF differ = {} THEN 0 ELSE signs[Min(differ)]

Compare(f, data1, data2) ==
    CASE f \in Strings -> CompareStrings(data1, data2)
      [] f \in AddressFields -> CompareAddresses(data1, data2)
      [] OTHER -> SignOf(Read(Layout(SortBits, f), data1), Read(Layout(SortBits, f), data2))

-----------------------------------------------------------------------------
(* filter_apply.                                                           *)

\* fa_common(): the other operators let nothing through.
HoldsFor(op, v, w) ==
    CASE op = "EQ" -> v = w [] op = "NE" -> v # w
      [] op = "GT" -> v > w [] op = "GE" -> v >= w
      [] op = "LT" -> v < w [] op = "LE" -> v <= w
      [] OTHER -> FALSE

\* strstr().
Occurs(t, s) == \E i \in 0..Len(s) - Len(t) : SubSeq(s, i + 1, i + Len(t)) = t

ApplyString(flt, s) ==
    CASE flt.op = "EQ" -> s = flt.val
      [] flt.op = "CT" -> Occurs(flt.val, s)
      [] flt.op = "NC" -> ~Occurs(flt.val, s)
      [] OTHER -> FALSE

\* A mistake: the last byte's bits are counted from the wrong end.
MaskLow(prefix) ==
    [i \in 1..16 |-> IF i <= prefix \div 8 THEN 8
                     ELSE IF i = prefix \div 8 + 1 /\ prefix % 8 # 0 THEN 8 - (prefix % 8)
                     ELSE 0]

\* fp_addr(): how many bits are set in each byte of the mask, from the left.
Mask(prefix) ==
    [i \in 1..16 |-> IF i <= prefix \div 8 THEN 8
                     ELSE IF i = prefix \div 8 + 1 THEN prefix % 8
                     ELSE 0]
Masked(byte, ones) == byte - (byte % 2^(8 - ones))

\* fa_addr(): a filter for the other family takes every address for another one.
ApplyAddress(flt, addr) ==
    LET mask == Mask(flt.val[2])
        same == /\ Len(addr) = Len(flt.val[1])
                /\ \A i \in 1..Len(addr) :
                      Masked(addr[i], mask[i]) = Masked(flt.val[1][i], mask[i])
    IN  IF flt.op = "NE" THEN ~same ELSE same

Apply(f, flt, data) ==
    CASE f \in Strings -> ApplyString(flt, data)
      [] f \in AddressFields -> ApplyAddress(flt, data)
      [] f \in Numbers -> HoldsFor(flt.op, Read(Layout(FilterBits, f), data), flt.val)
      [] f \in Masks -> flt.val = SetBits(Read(Layout(FilterBits, f), data))
      [] OTHER -> Read(Layout(FilterBits, f), data) \in flt.val

\* What the filter may say of a value.
Answers(f, flt, data) == IF f \in ReadPast THEN BOOLEAN ELSE {Apply(f, flt, data)}
=============================================================================
