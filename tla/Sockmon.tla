------------------------------- MODULE Sockmon -------------------------------
(***************************************************************************)
(* main(): what the program holds from start to end, through every failure *)
(* of every step, and the loop in between.  One turn of the loop draws the *)
(* main screen, or nothing on another screen, and waits for a key for at   *)
(* most n->delay.                                                          *)
(*                                                                         *)
(* A component's part in this is which resources it takes, uses and gives  *)
(* back, whether it fails, and what it says then: nm_perror() and          *)
(* nm_error() call window_exit() before they print.                        *)
(***************************************************************************)
EXTENDS Integers

Resources == {"windows", "filter", "dp_proc", "table", "socket", "conns"}

VARIABLES
    pc,         \* the step of main() that comes next
    res,        \* each resource: "none" (never had, or NULL), "held", "gone"
    misused,    \* history: a resource was used, or freed again, after it was gone
    we_called,  \* n->we_called
    cur_screen, \* n->cur_screen
    should_stop,
    wanted,     \* INET_DIAG_PROC is in n->ext_req
    err,
    said,       \* history: the state of the windows when a message was printed
    resize_failed   \* history: the calloc() of free_sk_proc_map() failed

ui == <<cur_screen, should_stop, wanted>>
vars == <<pc, res, misused, we_called, ui, err, said, resize_failed>>

Init ==
    /\ pc = "window_init"
    /\ res = [r \in Resources |-> "none"]
    /\ misused = FALSE /\ we_called = FALSE
    /\ cur_screen = "main" /\ should_stop = FALSE /\ wanted = FALSE
    /\ err = 1
    /\ said = {} /\ resize_failed = FALSE

-----------------------------------------------------------------------------

Goto(label) == pc' = label

Bad(used) == misused \/ \E r \in used : res[r] # "held"

\* A step that uses resources and leaves them in state new.
Work(used, new) ==
    /\ res' = new
    /\ misused' = Bad(used)
    /\ UNCHANGED <<we_called, said, resize_failed>>

Held(rs) == [r \in Resources |-> IF r \in rs THEN "held" ELSE res[r]]
Null(rs) == [r \in Resources |-> IF r \in rs THEN "none" ELSE res[r]]
Gone(rs) == [r \in Resources |-> IF r \in rs /\ res[r] # "none" THEN "gone" ELSE res[r]]

\* window_exit(), in a step that otherwise leaves the resources in state after:
\* what there is of the windows, and the filters, go, the first time.
WindowExit(after) ==
    /\ res' = IF we_called THEN after
              ELSE [after EXCEPT !["windows"] = "gone",
                                 !["filter"] = IF @ = "none" THEN @ ELSE "gone"]
    /\ we_called' = TRUE

\* A mistake: the message is printed first.
FailPrintsFirst(used, after) ==
    /\ WindowExit(after)
    /\ said' = said \cup {res["windows"]}
    /\ misused' = Bad(used)

\* nm_perror() or nm_error() in a step that uses resources.
Fail(used, after) ==
    /\ WindowExit(after)
    /\ said' = said \cup {res'["windows"]}
    /\ misused' = Bad(used)

-----------------------------------------------------------------------------
(* The start.                                                              *)

\* initscr() ends the process itself when it fails; newwin() may fail, which
\* leaves some of the windows.
WindowInit ==
    /\ pc = "window_init"
    /\ Work({}, Held({"windows"}))
    /\ Goto("proc_init") \/ Goto("window_exit")
    /\ UNCHANGED <<ui, err>>

\* When calloc() fails proc_init() closes the directory it has opened.
ProcInit ==
    /\ pc = "proc_init"
    /\ \/ Work({}, Held({"dp_proc", "table"})) /\ Goto("nl_init")
       \/ /\ Fail({}, res) /\ Goto("window_exit")
          /\ UNCHANGED resize_failed
    /\ UNCHANGED <<ui, err>>

\* A mistake: a failure goes to out.
NlInitSkips ==
    /\ pc = "nl_init"
    /\ \/ Work({}, Held({"socket"})) /\ Goto("top")
       \/ /\ Fail({}, res) /\ Goto("window_exit")
          /\ UNCHANGED resize_failed
    /\ UNCHANGED <<ui, err>>

NlInit ==
    /\ pc = "nl_init"
    /\ \/ Work({}, Held({"socket"})) /\ Goto("top")
       \/ /\ Fail({}, res) /\ Goto("proc_exit")
          /\ UNCHANGED resize_failed
    /\ UNCHANGED <<ui, err>>

-----------------------------------------------------------------------------
(* The loop.                                                               *)

\* A mistake: the condition is the other way round.
TopSwapped ==
    /\ pc = "top"
    /\ Goto(IF cur_screen = "main" THEN "input" ELSE "map")
    /\ UNCHANGED <<res, misused, we_called, ui, err, said, resize_failed>>

Top ==
    /\ pc = "top"
    /\ Goto(IF cur_screen # "main" THEN "input" ELSE "map")
    /\ UNCHANGED <<res, misused, we_called, ui, err, said, resize_failed>>

\* build_sk_proc_map(): get_comm() fails without a word, add_sk_ino() with one.
BuildSkProcMap ==
    LET used == IF wanted THEN {"dp_proc", "table"} ELSE {} IN
    /\ pc = "map"
    /\ \/ Work(used, res) /\ Goto("dump") /\ UNCHANGED err
       \/ /\ wanted
          /\ \/ Work(used, res)
             \/ Fail(used, res) /\ UNCHANGED resize_failed
          /\ Goto("nl_exit") /\ err' = 1
    /\ UNCHANGED ui

\* A mistake: the result of the dump ends the loop, but is not kept.
ConnectionsDumpForgets ==
    LET used == {"socket"} \cup IF wanted THEN {"table"} ELSE {} IN
    /\ pc = "dump"
    /\ \E new \in {res, Held({"conns"})} :
          \/ Work(used, new) /\ Goto("draw") /\ err' = 0
          \/ /\ Fail(used, new) /\ Goto("nl_exit")
             /\ UNCHANGED <<err, resize_failed>>
    /\ UNCHANGED ui

\* A mistake: what recvmsg() returned is passed on.
ConnectionsDumpPassesOn ==
    LET used == {"socket"} \cup IF wanted THEN {"table"} ELSE {} IN
    /\ pc = "dump"
    /\ \E new \in {res, Held({"conns"})} :
          \/ Work(used, new) /\ Goto("draw") /\ err' = 0
          \/ /\ Fail(used, new) /\ Goto("nl_exit") /\ err' = -1
             /\ UNCHANGED resize_failed
    /\ UNCHANGED ui

\* connections_dump(): it may fail before, between and after the messages, and
\* always says so.
ConnectionsDump ==
    LET used == {"socket"} \cup IF wanted THEN {"table"} ELSE {} IN
    /\ pc = "dump"
    /\ \E new \in {res, Held({"conns"})} :
          \/ Work(used, new) /\ Goto("draw") /\ err' = 0
          \/ /\ Fail(used, new) /\ Goto("nl_exit") /\ err' = 1
             /\ UNCHANGED resize_failed
    /\ UNCHANGED ui

\* window_erase(), draw_summary() and draw_connections(), which applies the filters
\* that are on, frees the connections and calls free_sk_proc_map(), whose result it
\* ignores: after a failed calloc() the program runs on.
Draw ==
    LET used == {"windows"} \cup (IF wanted THEN {"table"} ELSE {})
                \cup (IF res["filter"] = "none" THEN {} ELSE {"filter"}) IN
    /\ pc = "draw"
    /\ \/ Work(used, Null({"conns"}))
       \/ /\ wanted
          /\ Fail(used, Null({"conns", "table"}))
          /\ resize_failed' = TRUE
    /\ Goto("input")
    /\ UNCHANGED <<ui, err>>

-----------------------------------------------------------------------------
(* should_stop().                                                          *)

Input(used, new) ==
    /\ pc = "input"
    /\ Work({"windows"} \cup used, new)
    /\ UNCHANGED err

\* No key within n->delay, KEY_RESIZE, and the keys that change neither the screen
\* nor a resource.
KeyOther == Input({}, res) /\ Goto("top") /\ UNCHANGED ui

\* A mistake: 'q' only shows in the next turn, which may fail.
KeyQuitLate ==
    /\ cur_screen = "main"
    /\ Input({}, res) /\ Goto("top")
    /\ should_stop' = TRUE
    /\ UNCHANGED <<cur_screen, wanted>>

KeyQuit ==
    /\ cur_screen = "main"
    /\ Input({}, res) /\ Goto("nl_exit")
    /\ should_stop' = TRUE
    /\ UNCHANGED <<cur_screen, wanted>>

KeyScreen ==
    /\ cur_screen = "main"
    /\ Input({}, res) /\ Goto("top")
    /\ cur_screen' \in {"field", "help"}
    /\ UNCHANGED <<should_stop, wanted>>

\* 'q' on the other screens; the field screen's computes n->ext_req anew.
KeyBack ==
    /\ cur_screen # "main"
    /\ Input({}, res) /\ Goto("top")
    /\ cur_screen' = "main"
    /\ wanted' \in IF cur_screen = "field" THEN BOOLEAN ELSE {wanted}
    /\ UNCHANGED should_stop

\* 'd', and 'f' on the field screen: a dialog waits for the user, without a limit.
KeyDialog ==
    /\ cur_screen \in {"main", "field"}
    /\ Input({}, res) /\ Goto("dialog")
    /\ UNCHANGED ui

\* The user ends it; a filter may be new, or replace one.
DialogEnd ==
    /\ pc = "dialog"
    /\ \/ Work({"windows"}, res)
       \/ /\ cur_screen = "field"
          /\ Work({"windows"} \cup IF res["filter"] = "none" THEN {} ELSE {"filter"},
                  Held({"filter"}))
    /\ Goto("top")
    /\ UNCHANGED <<ui, err>>

-----------------------------------------------------------------------------
(* The end.                                                                *)

NlExit ==
    /\ pc = "nl_exit"
    /\ Work({"socket"}, Gone({"socket"})) /\ Goto("proc_exit")
    /\ UNCHANGED <<ui, err>>

\* proc_exit(): closedir(), free_sk_proc_map(), and free(), which takes NULL.
ProcExit ==
    LET used == {"dp_proc"} \cup IF wanted THEN {"table"} ELSE {} IN
    /\ pc = "proc_exit"
    /\ \/ Work(used, Gone({"dp_proc", "table"}))
       \/ Fail(used, Gone({"dp_proc", "table"})) /\ UNCHANGED resize_failed
    /\ Goto("window_exit")
    /\ UNCHANGED <<ui, err>>

\* A mistake: window_exit() does not ask whether it was called.
MainWindowExitAgain ==
    /\ pc = "window_exit"
    /\ misused' = (misused \/ res["windows"] = "gone")
    /\ WindowExit(res)
    /\ Goto("ctx_exit")
    /\ UNCHANGED <<ui, err, said, resize_failed>>

MainWindowExit ==
    /\ pc = "window_exit"
    /\ misused' = (misused \/ (~we_called /\ res["windows"] = "gone"))
    /\ WindowExit(res)
    /\ Goto("ctx_exit")
    /\ UNCHANGED <<ui, err, said, resize_failed>>

NmCtxExit ==
    /\ pc = "ctx_exit"
    /\ Work({}, Null({"conns"})) /\ Goto("returned")
    /\ UNCHANGED <<ui, err>>

Terminated == pc = "returned" /\ UNCHANGED vars

-----------------------------------------------------------------------------

Program ==
    \/ WindowInit \/ ProcInit \/ NlInit
    \/ Top \/ BuildSkProcMap \/ ConnectionsDump \/ Draw
    \/ KeyOther \/ KeyQuit \/ KeyScreen \/ KeyBack \/ KeyDialog
    \/ NlExit \/ ProcExit \/ MainWindowExit \/ NmCtxExit

Next == Program \/ DialogEnd \/ Terminated

\* The program runs on, and wgetch() returns after n->delay at the latest: some
\* step of should_stop() is taken.  Nothing makes the user end a dialog.
Spec == Init /\ [][Next]_vars /\ WF_vars(Program)

-----------------------------------------------------------------------------
(* Properties.                                                             *)

\* Every variable holds a value of its type.
TypeOK ==
    /\ pc \in {"window_init", "proc_init", "nl_init", "top", "map", "dump", "draw",
               "input", "dialog", "nl_exit", "proc_exit", "window_exit", "ctx_exit",
               "returned"}
    /\ res \in [Resources -> {"none", "held", "gone"}]
    /\ cur_screen \in {"main", "field", "help"}
    /\ {misused, we_called, should_stop, wanted, resize_failed} \subseteq BOOLEAN
    /\ err \in {0, 1}
    /\ said \subseteq {"none", "held", "gone"}

\* Wherever the program fails, or the user quits, it gives back all it holds: the
\* terminal, the socket, the directory, the table, the filters, the connections.
\* (Once it has worked with what is gone nothing can be said of it.)
AllReleased == pc = "returned" /\ ~misused => \A r \in Resources : res[r] # "held"

\* Only after a failed resize of the hash table does the program work with what it
\* has given back, or with the table that is not there.
UsedWhileHeld == misused => resize_failed

\* A message is printed on the user's terminal, never on the windows.
MessagesReadable == said \subseteq {"gone"}

\* The program returns 0 exactly when the user has quit.
StatusTold == pc = "returned" => (err = 0 <=> should_stop)

\* 'q' ends the program, whatever else fails on the way.
QuitEnds == should_stop ~> pc = "returned"

\* The main screen is drawn again, key or no key, unless the user goes elsewhere or
\* the program ends.
Refreshes ==
    pc = "input" /\ cur_screen = "main" ~>
        pc \in {"draw", "dialog", "nl_exit"} \/ cur_screen # "main"
=============================================================================
