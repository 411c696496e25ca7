---------------------------- MODULE MCLineDialog ----------------------------
(* An instance of LineDialog: every line of up to three characters of a      *)
(* small alphabet for each kind, and some longer ones: two-character         *)
(* operators with blanks, values that wrap, prefixes out of range, lines     *)
(* that fill the buffer and overfill it, and KEY_RESIZE among the            *)
(* characters, as wgetch() returns it when the terminal changes its size.    *)
EXTENDS LineDialog

Short(chars) == UNION {[1..n -> chars] : n \in 0..3}

MCKinds == {"number", "string", "address", "delay"}
MCDigit == [d \in {"1", "9"} |-> IF d = "1" THEN 1 ELSE 9]
MCAddresses == {"v4"}
MCBlanks == {" ", "tab"}
MCPrintable == {" ", "=", "!", "~", ">", "x", "1", "9"}

MCLines == [k \in MCKinds |->
    CASE k = "number" ->
             Short({"1", "9", " ", "=", "!", ">", "~", "x"})
             \cup {<<">", "=", " ", "9">>, <<" ", "<", "=", "1">>, <<"=", "9", " ", "9">>,
                   <<"!", "=", "1", "9">>, <<"!", "~", "1", "x", "=">>,
                   <<"resize">>, <<"=", "resize", "1">>, <<">", "resize", "9">>, <<"=", "1", "resize", "9">>}
      [] k = "string" ->
             Short({" ", "tab", "=", "!", "~", "x"})
             \cup {<<"=", "x", "x", "x", "x", "x">>, <<"=", "x", "x", "x", "x", "x", "x">>,
                   <<"=", "x", "x", "x", "x", "x", "x", "x", "=">>}
      [] k = "address" ->
             Short({"v4", "/", "9", "=", "!", " ", "x"})
             \cup {<<"=", "v4", "/", "9">>, <<"!", "=", "v4", "/", "1", "9">>,
                   <<"=", "v4", "/", "1", "9", "9">>, <<"=", "v4", "/", "9", "/", "9">>,
                   <<" ", "=", "v4", " ", "/", "9">>, <<"=", "v4", "/">>,
                   <<"!", "resize", "=", "v4">>, <<"=", "v4", "resize">>}
      [] k = "delay" ->
             Short({"1", "9", " ", "x"})
             \cup {<<"9", "9", "9", "1">>, <<"1", "9", "9", "1", "x">>,
                   <<"resize", "9">>, <<"1", "resize", "9">>}]
=============================================================================
