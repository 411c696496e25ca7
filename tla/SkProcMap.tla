------------------------------ MODULE SkProcMap ------------------------------
(***************************************************************************)
(* Which process owns a socket: build_sk_proc_map() scans /proc while the  *)
(* processes run on, and fills a hash table from socket inodes to owners;  *)
(* lookup_socket_owner() reads it during the dump; free_sk_proc_map()      *)
(* empties it at the end of the frame and sizes it for the next one.       *)
(*                                                                         *)
(* The processes act between any two system calls of the scan.             *)
(***************************************************************************)
EXTENDS Integers, SequencesExt

CONSTANTS
    Pids,       \* process ids; readdir() of /proc returns them in order
    Fds,        \* file descriptor numbers
    Inodes,     \* socket inodes
    NoInode,    \* a descriptor that is closed, or no socket
    Readable,   \* processes whose /proc/<pid>/fd may be opened
    LongComm,   \* processes whose name does not fit in TASK_COMM_LEN
    WordBits,   \* 32 for an unsigned int
    Multiplier, \* HASH_MULTIPLIER
    InitShift,  \* map_hash_shift at the start: 10
    ShiftWraps  \* x >> WordBits, which is undefined, is x on this machine, not 0

ASSUME SkProcMapAssumption ==
    /\ Pids \subseteq Nat \ {0} /\ Fds \subseteq Nat
    /\ Inodes \subseteq 1..2^WordBits - 1 /\ NoInode \notin Inodes
    /\ Readable \subseteq Pids /\ LongComm \subseteq Pids
    /\ WordBits \in Nat \ {0} /\ Multiplier \in Nat
    /\ \A i \in 0..WordBits : 2^i \in Nat \ {0}
    /\ InitShift \in 1..WordBits
    /\ ShiftWraps \in BOOLEAN

VARIABLES
    \* the processes
    alive,      \* those that have not exited
    fds,        \* what each descriptor of each process refers to
    held,       \* history: <<pid, inode>> held at some time since the scan began
    steady,     \* history: <<pid, fd>> not touched since the scan began
    \* the program
    pc,
    wanted,     \* INET_DIAG_PROC is in n->ext_req
    todo,       \* entries of /proc still to come
    pid,        \* the process being scanned
    fd_todo,    \* entries of its fd directory still to come
    sk_ino_hb,  \* the buckets, or NULL
    shift,      \* map_hash_shift, the size of the table being 2^shift
    nr_sockets,
    reported    \* nm_perror() was called

procs == <<alive, fds, held, steady>>
map == <<sk_ino_hb, shift, nr_sockets>>
scan == <<todo, pid, fd_todo>>
vars == <<procs, pc, wanted, scan, map, reported>>

NULL == <<>>
EmptyTable(sh) == [h \in 0..2^sh - 1 |-> <<>>]
Owner == [sk_ino : Inodes, pid : Pids]

Held == {c \in alive \X Inodes : \E d \in Fds : fds[c[1]][d] = c[2]}

Init ==
    /\ alive \in SUBSET Pids
    /\ fds \in [Pids -> [Fds -> Inodes \cup {NoInode}]]
    /\ \A p \in Pids \ alive, d \in Fds : fds[p][d] = NoInode
    /\ held = {} /\ steady = {}
    /\ pc = "idle" /\ wanted = FALSE
    /\ todo = {} /\ pid = 0 /\ fd_todo = {}
    /\ sk_ino_hb = EmptyTable(InitShift) /\ shift = InitShift /\ nr_sockets = 0
    /\ reported = FALSE

-----------------------------------------------------------------------------
(* The processes: external to the program.                                 *)

InFrame == pc \in {"scan", "comm", "fds", "lookup"}

Touch(p, newfds) ==
    /\ fds' = [fds EXCEPT ![p] = newfds]
    /\ held' = IF ~InFrame THEN held
               ELSE held \cup {<<p, newfds[d]>> : d \in {d \in Fds : newfds[d] # NoInode}}
    /\ steady' = {s \in steady : s[1] # p \/ newfds[s[2]] = fds[p][s[2]]}
    /\ UNCHANGED <<pc, wanted, scan, map, reported>>

\* open, close, dup2, a socket received from another process.
SetFd(p, d, ino) ==
    /\ p \in alive
    /\ fds[p][d] # ino
    /\ Touch(p, [fds[p] EXCEPT ![d] = ino])
    /\ UNCHANGED alive

Fork(p, child) ==
    /\ p \in alive /\ child \notin alive
    /\ alive' = alive \cup {child}
    /\ Touch(child, fds[p])

Exit(p) ==
    /\ p \in alive
    /\ alive' = alive \ {p}
    /\ Touch(p, [d \in Fds |-> NoInode])

-----------------------------------------------------------------------------
(* The hash table.                                                         *)

\* Knuth's multiplicative hash: the high bits of the product.  Shifting a word
\* by its whole width (shift = 0, a table of one bucket) is undefined.
sk_ino_hash(inode) ==
    LET product == (inode * Multiplier) % 2^WordBits
    IN  IF shift = 0 THEN IF ShiftWraps THEN product ELSE 0
        ELSE product \div 2^(WordBits - shift)

InTable(h) == h \in DOMAIN sk_ino_hb
Bucket(inode) == sk_ino_hb[sk_ino_hash(inode)]
Matches(inode) == {i \in DOMAIN Bucket(inode) : Bucket(inode)[i].sk_ino = inode}

\* lookup_socket_owner(): the first match in the chain.
lookup_socket_owner(inode) == Bucket(inode)[Min(Matches(inode))].pid
\* A mistake: only the head of the chain is looked at.
FoundAtHead(inode) == Bucket(inode) # <<>> /\ Bucket(inode)[1].sk_ino = inode

Found(inode) == Matches(inode) # {}

-----------------------------------------------------------------------------
(* build_sk_proc_map().                                                    *)

\* The user shows or hides a field of INET_DIAG_PROC.
ToggleWanted ==
    /\ pc = "idle"
    /\ wanted' = ~wanted
    /\ UNCHANGED <<procs, pc, scan, map, reported>>

\* rewinddir() and readdir(): the processes there are.
BeginScan ==
    /\ pc = "idle" /\ wanted
    /\ pc' = "scan"
    /\ todo' = alive
    /\ held' = Held
    /\ steady' = alive \X Fds
    /\ UNCHANGED <<alive, fds, wanted, pid, fd_todo, map, reported>>

\* A mistake: a directory that cannot be opened ends the scan.
OpenPidStops ==
    /\ pc = "scan" /\ todo # {}
    /\ LET p == Min(todo) IN
       IF p \in alive \cap Readable
       THEN pid' = p /\ pc' = "comm" /\ todo' = todo \ {p}
       ELSE todo' = {} /\ UNCHANGED <<pid, pc>>
    /\ UNCHANGED <<procs, wanted, fd_todo, map, reported>>

\* opendir("/proc/<pid>/fd"): processes that are gone or not ours are skipped.
OpenPid ==
    /\ pc = "scan" /\ todo # {}
    /\ LET p == Min(todo) IN
       /\ todo' = todo \ {p}
       /\ IF p \in alive \cap Readable
          THEN pid' = p /\ pc' = "comm"
          ELSE UNCHANGED <<pid, pc>>
    /\ UNCHANGED <<procs, wanted, fd_todo, map, reported>>

\* get_comm(), then the first readdir() of sk_ino_make_map(): any failure of
\* get_comm() ends build_sk_proc_map() with an error.
GetComm ==
    /\ pc = "comm"
    /\ IF pid \in alive \ LongComm
       THEN pc' = "fds" /\ fd_todo' = {d \in Fds : fds[pid][d] # NoInode}
       ELSE pc' = "failed" /\ UNCHANGED fd_todo
    /\ UNCHANGED <<procs, wanted, todo, pid, map, reported>>

\* readlinkat() and add_sk_ino() for the next descriptor.
AddSkIno ==
    /\ pc = "fds" /\ fd_todo # {}
    /\ LET d == Min(fd_todo)
           ino == fds[pid][d]
       IN
       /\ fd_todo' = fd_todo \ {d}
       /\ IF ino = NoInode
          THEN UNCHANGED <<pc, map, reported>>
          ELSE IF ~InTable(sk_ino_hash(ino))
          THEN pc' = "fault" /\ UNCHANGED <<map, reported>>
          ELSE IF Found(ino)
          THEN UNCHANGED <<pc, map, reported>>
          ELSE \/ /\ sk_ino_hb' = [sk_ino_hb EXCEPT ![sk_ino_hash(ino)] =
                                     Append(@, [sk_ino |-> ino, pid |-> pid])]
                  /\ nr_sockets' = nr_sockets + 1
                  /\ UNCHANGED <<pc, shift, reported>>
               \/ pc' = "failed" /\ reported' = TRUE /\ UNCHANGED map
    /\ UNCHANGED <<procs, wanted, todo, pid>>

EndPid ==
    /\ pc = "fds" /\ fd_todo = {}
    /\ pc' = "scan"
    /\ UNCHANGED <<procs, wanted, scan, map, reported>>

EndScan ==
    /\ pc = "scan" /\ todo = {}
    /\ pc' = "lookup"
    /\ UNCHANGED <<procs, wanted, scan, map, reported>>

\* The dump in between: diag_dump() looks owners up, which changes nothing
\* unless the bucket does not exist; or the dump fails, with a message.
Dump ==
    /\ pc = "lookup"
    /\ \/ \E ino \in Inodes : ~InTable(sk_ino_hash(ino)) /\ pc' = "fault" /\ UNCHANGED reported
       \/ pc' = "failed" /\ reported' = TRUE
    /\ UNCHANGED <<procs, wanted, scan, map>>

-----------------------------------------------------------------------------
(* free_sk_proc_map().                                                     *)

\* The owners in the chains: their buckets and positions.
Chained == {c \in (DOMAIN sk_ino_hb) \X (1..Cardinality(Inodes)) :
                c[2] \in DOMAIN sk_ino_hb[c[1]]}

\* The smallest i with nr_sockets <= 1 << i.
NewShift == Min({i \in 0..WordBits : nr_sockets <= 2^i})

\* A mistake: the chains are freed only together with a table of another size.
FreeMapOnResize ==
    /\ pc = "lookup"
    /\ pc' = "idle"
    /\ IF NewShift = shift THEN UNCHANGED map
       ELSE /\ sk_ino_hb' = EmptyTable(NewShift) /\ shift' = NewShift
            /\ nr_sockets' = 0
    /\ held' = {} /\ steady' = {}
    /\ UNCHANGED <<alive, fds, wanted, scan, reported>>

\* A mistake: the new table is as large as before for map_hash_shift.
FreeMapKeepsShift ==
    /\ pc = "lookup"
    /\ pc' = "idle"
    /\ sk_ino_hb' = EmptyTable(NewShift) /\ nr_sockets' = 0
    /\ held' = {} /\ steady' = {}
    /\ UNCHANGED <<alive, fds, wanted, scan, shift, reported>>

\* The end of draw_connections(), which ignores the result: when calloc() fails
\* the table is NULL, its old size stands and the program goes on.
FreeMap ==
    /\ pc = "lookup"
    /\ IF sk_ino_hb = NULL
       THEN pc' = "fault" /\ UNCHANGED <<map, reported>>
       ELSE /\ pc' = "idle"
            /\ nr_sockets' = nr_sockets - Cardinality(Chained)
            /\ \/ /\ sk_ino_hb' = EmptyTable(NewShift) /\ shift' = NewShift
                  /\ UNCHANGED reported
               \/ /\ NewShift # shift
                  /\ sk_ino_hb' = NULL /\ reported' = TRUE
                  /\ UNCHANGED shift
    /\ held' = {} /\ steady' = {}
    /\ UNCHANGED <<alive, fds, wanted, scan>>

\* A mistake: only the table is freed.
ProcExitLeaks ==
    /\ pc \in {"idle", "failed"}
    /\ pc' = "exited"
    /\ UNCHANGED <<procs, wanted, scan, map, reported>>

\* proc_exit(), after a failure or when the user quits: the owners are freed if
\* the map is in use, and then the table.
ProcExit ==
    /\ pc \in {"idle", "failed"}
    /\ IF wanted /\ sk_ino_hb = NULL
       THEN pc' = "fault" /\ UNCHANGED map
       ELSE /\ pc' = "exited"
            /\ nr_sockets' = IF wanted THEN nr_sockets - Cardinality(Chained)
                             ELSE nr_sockets
            /\ sk_ino_hb' = NULL
            /\ UNCHANGED shift
    /\ UNCHANGED <<procs, wanted, scan, reported>>

-----------------------------------------------------------------------------

Running == pc \notin {"exited", "fault"}

Program ==
    \/ ToggleWanted \/ BeginScan \/ OpenPid \/ GetComm \/ AddSkIno
    \/ EndPid \/ EndScan \/ Dump \/ FreeMap \/ ProcExit

Processes ==
    /\ Running
    /\ \/ \E p \in Pids, d \in Fds, ino \in Inodes \cup {NoInode} : SetFd(p, d, ino)
       \/ \E p, child \in Pids : Fork(p, child)
       \/ \E p \in Pids : Exit(p)

\* The program has ended, or died of a bad address.
Terminated == ~Running /\ UNCHANGED vars

Next == Program \/ Processes \/ Terminated

Spec == Init /\ [][Next]_vars

-----------------------------------------------------------------------------
(* Properties.                                                             *)

\* Every variable holds a value of its type.
TypeOK ==
    /\ alive \subseteq Pids
    /\ fds \in [Pids -> [Fds -> Inodes \cup {NoInode}]]
    /\ held \subseteq Pids \X Inodes
    /\ steady \subseteq Pids \X Fds
    /\ pc \in {"idle", "scan", "comm", "fds", "lookup", "failed", "exited", "fault"}
    /\ wanted \in BOOLEAN
    /\ todo \subseteq Pids /\ pid \in Pids \cup {0} /\ fd_todo \subseteq Fds
    /\ shift \in 0..WordBits
    /\ sk_ino_hb = NULL \/ sk_ino_hb \in [0..2^shift - 1 -> Seq(Owner)]
    /\ nr_sockets \in Nat
    /\ reported \in BOOLEAN

\* A socket has one owner, in the bucket it hashes to, and nr_sockets, which
\* sizes the next table, counts them: whatever several processes share, and
\* whatever the table's size was changed to.
ChainsConsistent ==
    Running =>
        /\ nr_sockets = Cardinality(Chained)
        /\ \A c \in Chained : sk_ino_hash(sk_ino_hb[c[1]][c[2]].sk_ino) = c[1]
        /\ \A b, c \in Chained :
              sk_ino_hb[b[1]][b[2]].sk_ino = sk_ino_hb[c[1]][c[2]].sk_ino => b = c

\* An owner shown did own the socket at some time during this scan: the map holds
\* nothing of an earlier frame and never mixes two processes up.
OwnersTrue ==
    Running => \A c \in Chained :
        LET o == sk_ino_hb[c[1]][c[2]] IN <<o.pid, o.sk_ino>> \in held

\* A socket that a readable process kept on one descriptor all through the scan
\* has an owner in the map, and it is the first process there is: no exit, fork,
\* close or shared socket elsewhere makes the scan lose it.
ScanComplete ==
    pc = "lookup" =>
        \A s \in steady :
            LET ino == fds[s[1]][s[2]] IN
            s[1] \in Readable /\ ino # NoInode =>
                Found(ino) /\ lookup_socket_owner(ino) <= s[1]

\* Between frames, and at the end of the program, no owner is left: none is
\* leaked when the user hides the fields that need the map, or a scan fails.
MapEmptied ==
    pc \in {"idle", "exited"} => nr_sockets = 0 /\ Chained = {}

\* Whenever the program gives up, it has said why: what happens to one process
\* during the scan is skipped.
FailureReported == pc = "failed" => reported

\* The hash stays within the table, whatever number of sockets the table was sized
\* for.
HashInTable ==
    sk_ino_hb # NULL => \A ino \in Inodes : InTable(sk_ino_hash(ino))
=============================================================================
