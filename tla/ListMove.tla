------------------------------ MODULE ListMove ------------------------------
(* Moving one element of a list, as the user of the field screen sees it.    *)
EXTENDS SequencesExt

\* s with its element at from taken out and put in again at to.
MoveItem(s, from, to) == InsertAt(RemoveAt(s, from), to, s[from])
=============================================================================
