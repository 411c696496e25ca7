---------------------------- MODULE MCListDialog ----------------------------
(* An instance of ListDialog: every field with a layout of its own, and one  *)
(* of each kind of the others.  The values are those the kernel answers      *)
(* with: bytes with bits at both ends and in the middle, and the prefixes    *)
(* at which the mask of an address changes its form.                         *)
EXTENDS ListDialog

Bytes == {0, 1, 2, 3, 4, 16, 33, 128, 240, 255}

MCFields == AllFields

MCData == [f \in AllFields |->
    CASE f = "state" -> 1..11
      [] f \in {"timer", "ca_state"} -> 0..4
      [] f = "shutdown" -> 0..3
      [] f \in ReadPast \cup {"ipv6only"} -> {0, 1}
      [] f = "sport" -> {<<0, 22>>, <<22, 0>>, <<31, 144>>, <<255, 255>>, <<0, 0>>}
      [] f = "bw" -> (0..3) \X (0..3)
      [] f = "comm" -> {<<>>, <<97>>, <<98>>, <<97, 98>>, <<98, 97>>, <<97, 98, 97>>,
                           <<-61>>, <<97, -61>>}
      [] f = "src" ->
             {<<10, 0, 0, 1>>, <<10, 0, 0, 129>>, <<10, 1, 0, 1>>, <<138, 0, 0, 1>>,
              <<1, 0, 0, 10>>}
      [] f = "dst" ->
             {[i \in 1..16 |-> IF i = 1 THEN 32 ELSE 0],
              [i \in 1..16 |-> IF i = 16 THEN 1 ELSE 0],
              [i \in 1..16 |-> IF i = 16 THEN 128 ELSE 0],
              [i \in 1..16 |-> IF i \in {1, 16} THEN 32 ELSE 0],
              [i \in 1..16 |-> IF i = 5 THEN 1 ELSE 0]}
      [] f \in Masks -> {0, 1, 3, 16, 48, 128, 240}
      [] OTHER -> Bytes]

Ops == {"EQ", "NE", "GT", "GE", "LT", "LE", "CT", "NC"}
Filters(ops, vals) == [op : ops, val : vals]

MCTyped == [f \in AllFields \ Named |->
    CASE f = "comm" -> Filters(Ops, {<<97>>, <<98, 97>>, <<97, 98, 97>>, <<-61>>})
      [] f = "sport" -> Filters(Ops, {0, 22, 5632, 8080, 65535})
      [] f = "bw" -> Filters(Ops, {0, 2, 5, 13})
      [] f \in AddressFields ->
             Filters({"EQ", "NE"},
                     {<<a, n>> : a \in MCData["src"] \cup MCData["dst"],
                                 n \in {0, 1, 7, 8, 9, 31, 32, 33, 39, 40, 120, 121, 127, 128}})
      [] OTHER -> Filters(Ops, {0, 1, 8, 15, 255})]
=============================================================================
