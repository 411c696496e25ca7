----------------------------- MODULE LinkedList -----------------------------
(***************************************************************************)
(* The pointers under n->conn_list.  ConnDump takes the list for a         *)
(* sequence; here list.h works in memory, and the loop of add_conn_info()  *)
(* and the two loops that free are walked pointer by pointer, with the     *)
(* parts of ConnDump's actions that are not about the list.                *)
(*                                                                         *)
(* conn_list is history here: what the calls of list_add_tail() and        *)
(* list_del() mean, at the elements the pointers name.  No guard, no       *)
(* cursor and nothing else that is computed looks at it; that it is then   *)
(* what ConnDump makes it is IsConnDump below, that the pointers lead      *)
(* through it is Linked.                                                   *)
(*                                                                         *)
(* The address of a conn_info is its seq, that of n->conn_list is HEAD;    *)
(* a list_head and the structure around it have the same address.          *)
(***************************************************************************)
EXTENDS ConnDump

VARIABLES
    next, prev, \* the two pointers of the list_head at each address
    mem,        \* the conn_info at each address, or Free
    loop,       \* the loop that is running: "none", "add", "free"
    pos, p,     \* its cursor; the one list_for_each_entry_safe() looks ahead with
    new         \* diag_dump(): the conn_info that is not on the list yet

links == <<next, prev, mem>>
cursor == <<loop, pos, p, new>>
lvars == <<vars, links, cursor>>

HEAD == 0
NULL == -1
Free == <<>>
NoConn == <<>>
Addr == 0..MaxConns

LInit ==
    /\ Init
    /\ next = [a \in Addr |-> IF a = HEAD THEN HEAD ELSE NULL]
    /\ prev = [a \in Addr |-> IF a = HEAD THEN HEAD ELSE NULL]
    /\ mem = [a \in Addr |-> Free]
    /\ loop = "none" /\ pos = HEAD /\ p = HEAD /\ new = NoConn

-----------------------------------------------------------------------------
(* list.h.                                                                 *)

\* A mistake: the element goes behind the other one, as list_add() would have it.
ListAddBehind(entry, head) ==
    /\ prev' = [prev EXCEPT ![next[head]] = entry, ![entry] = head]
    /\ next' = [next EXCEPT ![entry] = next[head], ![head] = entry]

ListAddTail(entry, head) ==
    /\ prev' = [prev EXCEPT ![head] = entry, ![entry] = prev[head]]
    /\ next' = [next EXCEPT ![entry] = head, ![prev[head]] = entry]

\* list_del(), and free(): what was in the memory is gone.
ListDelFree(entry) ==
    /\ prev' = [prev EXCEPT ![next[entry]] = prev[entry], ![entry] = NULL]
    /\ next' = [next EXCEPT ![prev[entry]] = next[entry], ![entry] = NULL]
    /\ mem' = [mem EXCEPT ![entry] = Free]

ListEmpty == next[HEAD] = HEAD

\* Where the element at an address is in the sequence.
Place(a) == CHOOSE i \in DOMAIN conn_list : conn_list[i].seq = a

-----------------------------------------------------------------------------
(* add_conn_info().                                                        *)

\* diag_dump() has filled in a conn_info; the loop begins, unless the new element
\* goes to the end of the list in any case.
BeginAdd(attrs, val) ==
    LET ci == Received(attrs, val) IN
    /\ pc = "parse" /\ loop = "none"
    /\ arrivals < MaxConns
    /\ loop' = "add"
    /\ new' = ci
    /\ pos' = IF sort_key = NoKey \/ ~Keyed(ci) \/ ListEmpty THEN HEAD ELSE next[HEAD]
    /\ UNCHANGED <<vars, links, p>>

\* sort_key->sort_func is called for the element at pos, and it is NULL.
CallsNull == pos # HEAD /\ Keyed(mem[pos]) /\ sort_key \in Headings

\* A mistake: the elements without the key are passed by like the others.
StopsLate == IF pos = HEAD THEN TRUE ELSE Keyed(mem[pos]) /\ BreaksAt(new, mem[pos])

\* The loop is over; after its last turn pos is the container of the head.
Stops == IF pos = HEAD THEN TRUE ELSE BreaksAt(new, mem[pos])

AddLoop ==
    /\ loop = "add" /\ ~CallsNull /\ ~Stops
    /\ pos' = next[pos]
    /\ UNCHANGED <<vars, links, loop, p, new>>

EndAdd ==
    /\ loop = "add" /\ ~CallsNull /\ Stops
    /\ Allocate(new) /\ Count
    /\ ListAddTail(new.seq, pos)
    /\ conn_list' = IF pos = HEAD THEN Append(conn_list, new)
                    ELSE InsertAt(conn_list, Place(pos), new)
    /\ mem' = [mem EXCEPT ![new.seq] = new]
    /\ loop' = "none" /\ pos' = HEAD /\ new' = NoConn
    /\ UNCHANGED p

AddFault ==
    /\ loop = "add" /\ CallsNull
    /\ Allocate(new) /\ Crash
    /\ loop' = "none" /\ pos' = HEAD /\ new' = NoConn
    /\ UNCHANGED <<links, p>>

-----------------------------------------------------------------------------
(* list_for_each_entry_safe(), in draw_connections() and nm_ctx_exit().    *)

BeginFree ==
    /\ loop' = "free"
    /\ pos' = next[HEAD]
    /\ p' = next[next[HEAD]]
    /\ UNCHANGED <<links, new>>

\* A mistake: the loop is the one that is not safe, and goes on from freed memory.
FreeThisUnsafe ==
    /\ loop = "free" /\ pos # HEAD
    /\ FreeConn(mem[pos])
    /\ ListDelFree(pos)
    /\ conn_list' = RemoveAt(conn_list, Place(pos))
    /\ pos' = next'[pos]
    /\ UNCHANGED <<loop, p, new>>

FreeThis ==
    /\ loop = "free" /\ pos # HEAD
    /\ FreeConn(mem[pos])
    /\ ListDelFree(pos)
    /\ conn_list' = RemoveAt(conn_list, Place(pos))
    /\ pos' = p
    /\ p' = next'[p]
    /\ UNCHANGED <<loop, new>>

EndFree ==
    /\ loop = "free" /\ pos = HEAD
    /\ loop' = "none" /\ p' = HEAD
    /\ UNCHANGED <<links, pos, new>>

LDrawConnections == DrawConnections /\ BeginFree
LDrawRow == FreeThis /\ DrawOrSkip(mem[pos])
LDrawEnd == EndFree /\ RowsDrawn
LCtxExit == pc = "exit" /\ loop = "none" /\ BeginFree /\ UNCHANGED vars
LCtxExitFree == FreeThis /\ Exiting
LCtxExitEnd == EndFree /\ Exited

-----------------------------------------------------------------------------

\* What leaves the list alone.
Elsewhere ==
    \/ Sendmsg \/ Recvmsg \/ BufferEnd \/ NlmsgDone \/ NlmsgError
    \/ DiagDumpFails
    \/ KeyNone \/ KeyDown \/ KeyUp \/ KeyPgDn \/ KeyPgUp \/ KeyResize
    \/ \E f \in Fields : SortBy(f)
    \/ Quit
    \/ Terminated

LNext ==
    \/ loop = "none" /\ Elsewhere /\ UNCHANGED <<links, cursor>>
    \/ \E attrs \in SUBSET Ext, val \in Values : BeginAdd(attrs, val)
    \/ AddLoop \/ EndAdd \/ AddFault
    \/ LDrawConnections \/ LDrawRow \/ LDrawEnd
    \/ LCtxExit \/ LCtxExitFree \/ LCtxExitEnd

LSpec == LInit /\ [][LNext]_lvars

-----------------------------------------------------------------------------
(* Properties.                                                             *)

\* The address of the i-th element; the head comes before and after them all.
Node(s, i) == IF i \in 1..Len(s) THEN s[i].seq ELSE HEAD

Chain(nx, pv, s) ==
    \A i \in 0..Len(s) : nx[Node(s, i)] = Node(s, i + 1) /\ pv[Node(s, i + 1)] = Node(s, i)

\* The pointers are the list: from the head, next leads through the elements in
\* their order and back, and prev the other way round; each element's memory holds
\* that element, and no other memory is in use.  (So each pointer that list.h follows
\* to an element leads to one, and a walk of the list ends.)
Linked ==
    /\ Chain(next, prev, conn_list)
    /\ \A i \in DOMAIN conn_list : mem[conn_list[i].seq] = conn_list[i]
    /\ \A a \in Addr : mem[a] # Free => a \in Seqs(conn_list)

\* A loop never stands on memory that was freed: add_conn_info()'s cursor is an
\* element or the head, and each freeing loop is at the first element, with the one
\* after it at hand, so that it goes on from the list and not from what it freed.
CursorsValid ==
    /\ loop = "add" => pos \in heap \cup {HEAD}
    /\ loop = "free" => pos = next[HEAD] /\ p = next[next[HEAD]]

\* The pointers do what ConnDump takes them for: the walk of add_conn_info() stops where
\* the new conn_info belongs in the sequence, or calls NULL where ConnDump says it does;
\* each connection drawn and freed is the first of those left; and the loops that free end
\* when there are none left, not before.
IsConnDump == Spec
=============================================================================
