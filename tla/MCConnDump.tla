----------------------------- MODULE MCConnDump -----------------------------
(* An instance of ConnDump: three extensions, a field the list can be sorted *)
(* by and a heading, which tcp_fields[] gives INET_DIAG_NONE as extension.   *)
EXTENDS LinkedList

CONSTANTS none, address, info, rtt, heading, nokey

MCExt == {none, address, info}
MCFields == {rtt, heading}
MCHeadings == {heading}
MCExtRcv == (rtt :> info) @@ (heading :> none)
MCValues == {1, 2}
MCLines == {3, 8}
=============================================================================
