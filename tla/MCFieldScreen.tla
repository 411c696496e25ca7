--------------------------- MODULE MCFieldScreen ---------------------------
(* An instance of FieldScreen: two fields, one of them displayed and the     *)
(* other in need of an extension, and a heading between them that a move has *)
(* to cross in either direction.                                             *)
EXTENDS FieldScreen

CONSTANTS heading, src, pid, none, proc, nofield

MCTable == <<src, heading, pid>>
MCHeadings == {heading}
MCEnabled == {src}
MCExtReq == (heading :> none) @@ (src :> none) @@ (pid :> proc)
MCLines == {3, 5, 8}
=============================================================================
