----------------------------- MODULE MCDrawRows -----------------------------
(* An instance of DrawRows: three fields of widths 2, 1 and 1 on a screen of *)
(* four columns, so that the last does not fit; connections that carry all   *)
(* extensions, all but one, or none, and pass all filters or some.           *)
EXTENDS DrawRows

CONSTANTS heading, src, rtt, pid, none, info, proc, full, tcp, bare, header, blank, old

MCTable == <<heading, src, rtt, pid>>
MCHeadings == {heading}
MCWidth == (heading :> 1) @@ (src :> 2) @@ (rtt :> 1) @@ (pid :> 1)
MCExtRcv == (heading :> none) @@ (src :> none) @@ (rtt :> info) @@ (pid :> proc)
MCBase == {none}
MCConns == {full, tcp, bare}
MCConnExt == (full :> {none, info, proc}) @@ (tcp :> {none, info}) @@ (bare :> {none})
MCPasses == (full :> {src, pid}) @@ (tcp :> {rtt}) @@ (bare :> {src})
=============================================================================
