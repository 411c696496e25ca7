--------------------------- MODULE Sockmon_proofs ---------------------------
(* Proofs about Sockmon.  The module has no constants and TLC visits every   *)
(* state of it; what the proof adds is the reason: what main() holds at each *)
(* of its steps.                                                             *)
EXTENDS Sockmon, TLAPS

Loop == {"top", "map", "dump", "draw", "input", "dialog"}
HasSocket == Loop \cup {"nl_exit"}
HasProc == HasSocket \cup {"nl_init", "proc_exit"}

\* main() holds what it has taken and not yet given back: going to a label of its exit
\* path skips the release of nothing that is held.
HoldInv ==
    /\ res["windows"] = IF pc = "window_init" THEN "none"
                        ELSE IF we_called THEN "gone" ELSE "held"
    /\ res["dp_proc"] = "held" <=> pc \in HasProc
    /\ res["socket"] = "held" <=> pc \in HasSocket
    /\ pc \in HasProc => res["table"] = "held" \/ resize_failed
    /\ pc \notin HasProc => res["table"] # "held"
    /\ pc = "returned" => res["conns"] # "held"

\* The windows are closed early by a failure only, and the loop goes on after one
\* failure only.
WindowsInv ==
    /\ pc \in {"window_init", "proc_init", "nl_init"} => ~we_called
    /\ pc \in Loop /\ we_called => resize_failed
    /\ pc \in {"ctx_exit", "returned"} => we_called
    /\ res["filter"] = "gone" => we_called
    /\ we_called /\ ~misused => res["filter"] # "held"

\* err tells of the last frame, and the loop is left with it.
StatusInv ==
    /\ pc \in {"window_init", "proc_init", "nl_init"} =>
           err = 1 /\ ~should_stop /\ cur_screen = "main"
    /\ pc \in Loop => ~should_stop
    /\ pc \in {"draw", "input", "dialog"} \/ (pc = "top" /\ cur_screen # "main") => err = 0
    /\ pc \in {"nl_exit", "proc_exit", "window_exit", "ctx_exit", "returned"} =>
           (err = 0 <=> should_stop)

IInv ==
    /\ TypeOK /\ HoldInv /\ WindowsInv /\ StatusInv
    /\ UsedWhileHeld /\ MessagesReadable

LEMMA InitIInv == Init => IInv
BY DEF Init, IInv, TypeOK, HoldInv, WindowsInv, StatusInv, UsedWhileHeld, MessagesReadable,
       Resources, Loop, HasSocket, HasProc

\* What a step does to the resources, one by one.
LEMMA Marks ==
    ASSUME NEW rs \in SUBSET Resources, res \in [Resources -> {"none", "held", "gone"}]
    PROVE  /\ Held(rs) \in [Resources -> {"none", "held", "gone"}]
           /\ Null(rs) \in [Resources -> {"none", "held", "gone"}]
           /\ Gone(rs) \in [Resources -> {"none", "held", "gone"}]
           /\ \A r \in Resources :
                 /\ Held(rs)[r] = IF r \in rs THEN "held" ELSE res[r]
                 /\ Null(rs)[r] = IF r \in rs THEN "none" ELSE res[r]
                 /\ Gone(rs)[r] = IF r \in rs /\ res[r] # "none" THEN "gone" ELSE res[r]
BY DEF Held, Null, Gone

\* nm_perror(): the windows are gone when it prints, and the filters with them.
LEMMA FailStep ==
    ASSUME IInv, pc # "window_init",
           NEW used, NEW after \in [Resources -> {"none", "held", "gone"}],
           after["windows"] = res["windows"], after["filter"] = res["filter"],
           Fail(used, after)
    PROVE  /\ res' \in [Resources -> {"none", "held", "gone"}] /\ we_called' = TRUE
           /\ \A r \in Resources \ {"windows", "filter"} : res'[r] = after[r]
           /\ res'["windows"] = "gone" /\ said' \subseteq {"gone"}
           /\ ~misused' => res'["filter"] # "held"
           /\ misused' = Bad(used)
<1>1. we_called \in BOOLEAN /\ said \subseteq {"gone"} /\ misused \in BOOLEAN
  BY DEF IInv, TypeOK, MessagesReadable
<1>2. /\ res' = IF we_called THEN after
                ELSE [after EXCEPT !["windows"] = "gone",
                                   !["filter"] = IF @ = "none" THEN @ ELSE "gone"]
      /\ we_called' = TRUE /\ said' = said \cup {res'["windows"]} /\ misused' = Bad(used)
  BY DEF Fail, WindowExit
<1>3. "windows" \in Resources /\ "filter" \in Resources
  BY DEF Resources
<1>4. CASE we_called
  <2>1. res' = after /\ res["windows"] = "gone"
    BY <1>2, <1>4 DEF IInv, HoldInv
  <2>2. misused \/ res["filter"] # "held"
    BY <1>4 DEF IInv, WindowsInv
  <2>3. misused => misused'
    BY <1>2 DEF Bad
  <2> QED BY <1>1, <1>2, <2>1, <2>2, <2>3
<1>5. CASE ~we_called
  <2>1. res' = [after EXCEPT !["windows"] = "gone",
                             !["filter"] = IF @ = "none" THEN @ ELSE "gone"]
    BY <1>2, <1>5
  <2>2. /\ res' \in [Resources -> {"none", "held", "gone"}]
        /\ \A r \in Resources \ {"windows", "filter"} : res'[r] = after[r]
        /\ res'["windows"] = "gone" /\ res'["filter"] # "held"
    BY <1>3, <2>1
  <2> QED BY <1>1, <1>2, <2>2
<1> QED BY <1>1, <1>4, <1>5

-----------------------------------------------------------------------------
(* The steps.                                                              *)

LEMMA StartStep == IInv /\ (WindowInit \/ ProcInit \/ NlInit) => IInv'
<1> SUFFICES ASSUME IInv, WindowInit \/ ProcInit \/ NlInit PROVE IInv'
  OBVIOUS
<1>0. /\ res \in [Resources -> {"none", "held", "gone"}]
      /\ {} \in SUBSET Resources /\ {"windows"} \in SUBSET Resources
      /\ {"dp_proc", "table"} \in SUBSET Resources /\ {"socket"} \in SUBSET Resources
  BY DEF IInv, TypeOK, Resources
<1>1. CASE WindowInit
  <2>1. /\ pc = "window_init" /\ pc' \in {"proc_init", "window_exit"}
        /\ res' = Held({"windows"}) /\ misused' = Bad({})
        /\ UNCHANGED <<we_called, said, resize_failed, cur_screen, should_stop, wanted, err>>
    BY <1>1 DEF WindowInit, Work, Goto, ui
  <2>2. /\ res' \in [Resources -> {"none", "held", "gone"}]
        /\ \A r \in Resources : res'[r] = IF r \in {"windows"} THEN "held" ELSE res[r]
    BY <1>0, <2>1, Marks
  <2> QED BY <2>1, <2>2 DEF IInv, TypeOK, HoldInv, WindowsInv, StatusInv, UsedWhileHeld,
             MessagesReadable, Loop, HasSocket, HasProc, Resources, Bad
<1>2. CASE ProcInit
  <2>1. CASE Work({}, Held({"dp_proc", "table"})) /\ pc' = "nl_init"
    <3>1. /\ pc = "proc_init" /\ pc' = "nl_init"
          /\ res' = Held({"dp_proc", "table"}) /\ misused' = Bad({})
          /\ UNCHANGED <<we_called, said, resize_failed, cur_screen, should_stop, wanted, err>>
      BY <1>2, <2>1 DEF ProcInit, Work, ui
    <3>2. /\ res' \in [Resources -> {"none", "held", "gone"}]
          /\ \A r \in Resources :
                res'[r] = IF r \in {"dp_proc", "table"} THEN "held" ELSE res[r]
      BY <1>0, <3>1, Marks
    <3> QED BY <3>1, <3>2 DEF IInv, TypeOK, HoldInv, WindowsInv, StatusInv, UsedWhileHeld,
               MessagesReadable, Loop, HasSocket, HasProc, Resources, Bad
  <2>2. CASE Fail({}, res) /\ UNCHANGED resize_failed /\ pc' = "window_exit"
    <3>1. pc = "proc_init" /\ UNCHANGED <<cur_screen, should_stop, wanted, err>>
      BY <1>2 DEF ProcInit, ui
    <3>2. /\ res' \in [Resources -> {"none", "held", "gone"}] /\ we_called' = TRUE
          /\ \A r \in Resources \ {"windows", "filter"} : res'[r] = res[r]
          /\ res'["windows"] = "gone" /\ said' \subseteq {"gone"}
          /\ ~misused' => res'["filter"] # "held"
          /\ misused' = Bad({})
      BY <1>0, <2>2, <3>1, FailStep
    <3> QED BY <2>2, <3>1, <3>2 DEF IInv, TypeOK, HoldInv, WindowsInv, StatusInv,
               UsedWhileHeld, MessagesReadable, Loop, HasSocket, HasProc, Resources, Bad
  <2> QED BY <1>2, <2>1, <2>2 DEF ProcInit, Goto
<1>3. CASE NlInit
  <2>1. CASE Work({}, Held({"socket"})) /\ pc' = "top"
    <3>1. /\ pc = "nl_init" /\ res' = Held({"socket"}) /\ misused' = Bad({})
          /\ UNCHANGED <<we_called, said, resize_failed, cur_screen, should_stop, wanted, err>>
      BY <1>3, <2>1 DEF NlInit, Work, ui
    <3>2. /\ res' \in [Resources -> {"none", "held", "gone"}]
          /\ \A r \in Resources : res'[r] = IF r \in {"socket"} THEN "held" ELSE res[r]
      BY <1>0, <3>1, Marks
    <3> QED BY <2>1, <3>1, <3>2 DEF IInv, TypeOK, HoldInv, WindowsInv, StatusInv,
               UsedWhileHeld, MessagesReadable, Loop, HasSocket, HasProc, Resources, Bad
  <2>2. CASE Fail({}, res) /\ UNCHANGED resize_failed /\ pc' = "proc_exit"
    <3>1. pc = "nl_init" /\ UNCHANGED <<cur_screen, should_stop, wanted, err>>
      BY <1>3 DEF NlInit, ui
    <3>2. /\ res' \in [Resources -> {"none", "held", "gone"}] /\ we_called' = TRUE
          /\ \A r \in Resources \ {"windows", "filter"} : res'[r] = res[r]
          /\ res'["windows"] = "gone" /\ said' \subseteq {"gone"}
          /\ ~misused' => res'["filter"] # "held"
          /\ misused' = Bad({})
      BY <1>0, <2>2, <3>1, FailStep
    <3> QED BY <2>2, <3>1, <3>2 DEF IInv, TypeOK, HoldInv, WindowsInv, StatusInv,
               UsedWhileHeld, MessagesReadable, Loop, HasSocket, HasProc, Resources, Bad
  <2> QED BY <1>3, <2>1, <2>2 DEF NlInit, Goto
<1> QED BY <1>1, <1>2, <1>3

LEMMA MapStep == IInv /\ (Top \/ BuildSkProcMap) => IInv'
<1> SUFFICES ASSUME IInv, Top \/ BuildSkProcMap PROVE IInv'
  OBVIOUS
<1>0. res \in [Resources -> {"none", "held", "gone"}]
  BY DEF IInv, TypeOK
<1>1. CASE Top
  <2>1. /\ pc = "top" /\ pc' = IF cur_screen # "main" THEN "input" ELSE "map"
        /\ UNCHANGED <<res, misused, we_called, cur_screen, should_stop, wanted, err, said,
                       resize_failed>>
    BY <1>1 DEF Top, Goto, ui
  <2> QED BY <2>1 DEF IInv, TypeOK, HoldInv, WindowsInv, StatusInv,
         UsedWhileHeld, MessagesReadable, Loop, HasSocket, HasProc, Resources, Bad
<1>2. CASE BuildSkProcMap
  <2>1. PICK used : used = IF wanted THEN {"dp_proc", "table"} ELSE {}
    OBVIOUS
  <2>2. pc = "map" /\ UNCHANGED <<cur_screen, should_stop, wanted>>
    BY <1>2 DEF BuildSkProcMap, ui
  <2>3. CASE Work(used, res) /\ ((pc' = "dump" /\ err' = err) \/ (pc' = "nl_exit" /\ err' = 1))
    <3>1. res' = res /\ misused' = Bad(used) /\ UNCHANGED <<we_called, said, resize_failed>>
      BY <2>3 DEF Work
    <3>2. \A r \in used : res[r] = "held" \/ resize_failed
      BY <2>1, <2>2 DEF IInv, HoldInv, Loop, HasSocket, HasProc
    <3> QED BY <2>2, <2>3, <3>1, <3>2 DEF IInv, TypeOK, HoldInv, WindowsInv, StatusInv,
         UsedWhileHeld, MessagesReadable, Loop, HasSocket, HasProc, Resources, Bad
  <2>4. CASE Fail(used, res) /\ UNCHANGED resize_failed /\ pc' = "nl_exit" /\ err' = 1
    <3>1. PICK after \in [Resources -> {"none", "held", "gone"}] : after = res
      BY <1>0
    <3>2. /\ res' \in [Resources -> {"none", "held", "gone"}] /\ we_called' = TRUE
          /\ \A r \in Resources \ {"windows", "filter"} : res'[r] = after[r]
          /\ res'["windows"] = "gone" /\ said' \subseteq {"gone"}
          /\ ~misused' => res'["filter"] # "held"
          /\ misused' = Bad(used)
      BY <2>2, <2>4, <3>1, FailStep
    <3>3. \A r \in used : res[r] = "held" \/ resize_failed
      BY <2>1, <2>2 DEF IInv, HoldInv, Loop, HasSocket, HasProc
    <3> QED BY <2>2, <2>4, <3>1, <3>2, <3>3 DEF IInv, TypeOK, HoldInv, WindowsInv, StatusInv,
         UsedWhileHeld, MessagesReadable, Loop, HasSocket, HasProc, Resources, Bad
  <2>5. \/ Work(used, res) /\ pc' = "dump" /\ err' = err
        \/ Work(used, res) /\ pc' = "nl_exit" /\ err' = 1
        \/ Fail(used, res) /\ UNCHANGED resize_failed /\ pc' = "nl_exit" /\ err' = 1
    BY <1>2, <2>1 DEF BuildSkProcMap, Goto
  <2>6. CASE Work(used, res) /\ pc' = "dump" /\ err' = err
    BY <2>3, <2>6
  <2>7. CASE Work(used, res) /\ pc' = "nl_exit" /\ err' = 1
    BY <2>3, <2>7
  <2>8. CASE Fail(used, res) /\ UNCHANGED resize_failed /\ pc' = "nl_exit" /\ err' = 1
    BY <2>4, <2>8
  <2> QED BY <2>5, <2>6, <2>7, <2>8
<1> QED BY <1>1, <1>2

LEMMA DumpStep == IInv /\ ConnectionsDump => IInv'
<1> SUFFICES ASSUME IInv, ConnectionsDump PROVE IInv'
  OBVIOUS
<1>0. res \in [Resources -> {"none", "held", "gone"}]
  BY DEF IInv, TypeOK
<1>1. PICK used : used = {"socket"} \cup IF wanted THEN {"table"} ELSE {}
  OBVIOUS
<1>2. pc = "dump" /\ UNCHANGED <<cur_screen, should_stop, wanted>>
  BY DEF ConnectionsDump, ui
<1>3. PICK after \in {res, Held({"conns"})} :
        \/ Work(used, after) /\ pc' = "draw" /\ err' = 0
        \/ Fail(used, after) /\ pc' = "nl_exit" /\ err' = 1 /\ UNCHANGED resize_failed
  BY <1>1 DEF ConnectionsDump, Goto
<1>4. /\ after \in [Resources -> {"none", "held", "gone"}]
      /\ \A r \in Resources \ {"conns"} : after[r] = res[r]
  <2>1. {"conns"} \in SUBSET Resources
    BY DEF Resources
  <2> QED BY <1>0, <1>3, <2>1, Marks
<1>5. \A r \in used : res[r] = "held" \/ resize_failed
  BY <1>1, <1>2 DEF IInv, HoldInv, Loop, HasSocket, HasProc
<1>6. CASE Work(used, after) /\ pc' = "draw" /\ err' = 0
  <2>1. res' = after /\ misused' = Bad(used) /\ UNCHANGED <<we_called, said, resize_failed>>
    BY <1>6 DEF Work
  <2> QED BY <1>2, <1>4, <1>5, <1>6, <2>1 DEF IInv, TypeOK, HoldInv, WindowsInv, StatusInv,
         UsedWhileHeld, MessagesReadable, Loop, HasSocket, HasProc, Resources, Bad
<1>7. CASE Fail(used, after) /\ pc' = "nl_exit" /\ err' = 1 /\ UNCHANGED resize_failed
  <2>1. /\ res' \in [Resources -> {"none", "held", "gone"}] /\ we_called' = TRUE
        /\ \A r \in Resources \ {"windows", "filter"} : res'[r] = after[r]
        /\ res'["windows"] = "gone" /\ said' \subseteq {"gone"}
        /\ ~misused' => res'["filter"] # "held"
        /\ misused' = Bad(used)
    <3>1. after["windows"] = res["windows"] /\ after["filter"] = res["filter"]
      BY <1>4 DEF Resources
    <3> QED BY <1>2, <1>4, <1>7, <3>1, FailStep
  <2> QED BY <1>2, <1>4, <1>5, <1>7, <2>1 DEF IInv, TypeOK, HoldInv, WindowsInv, StatusInv,
         UsedWhileHeld, MessagesReadable, Loop, HasSocket, HasProc, Resources, Bad
<1> QED BY <1>3, <1>6, <1>7

LEMMA DrawStep == IInv /\ Draw => IInv'
<1> SUFFICES ASSUME IInv, Draw PROVE IInv'
  OBVIOUS
<1>0. res \in [Resources -> {"none", "held", "gone"}]
  BY DEF IInv, TypeOK
<1>1. PICK used : used = {"windows"} \cup (IF wanted THEN {"table"} ELSE {})
                         \cup (IF res["filter"] = "none" THEN {} ELSE {"filter"})
  OBVIOUS
<1>2. pc = "draw" /\ pc' = "input" /\ UNCHANGED <<cur_screen, should_stop, wanted, err>>
  BY DEF Draw, Goto, ui
<1>3. \A r \in used : res[r] = "held" \/ resize_failed
  BY <1>0, <1>1, <1>2 DEF IInv, HoldInv, WindowsInv, Loop, HasSocket, HasProc, Resources
<1>4. CASE Work(used, Null({"conns"}))
  <2>1. /\ res' = Null({"conns"}) /\ misused' = Bad(used)
        /\ UNCHANGED <<we_called, said, resize_failed>>
    BY <1>4 DEF Work
  <2>2. /\ res' \in [Resources -> {"none", "held", "gone"}]
        /\ \A r \in Resources : res'[r] = IF r \in {"conns"} THEN "none" ELSE res[r]
    <3>1. {"conns"} \in SUBSET Resources
      BY DEF Resources
    <3> QED BY <1>0, <2>1, <3>1, Marks
  <2> QED BY <1>2, <1>3, <2>1, <2>2 DEF IInv, TypeOK, HoldInv, WindowsInv, StatusInv,
         UsedWhileHeld, MessagesReadable, Loop, HasSocket, HasProc, Resources, Bad
<1>5. CASE Fail(used, Null({"conns", "table"})) /\ resize_failed' = TRUE
  <2>1. PICK after : after = Null({"conns", "table"})
    OBVIOUS
  <2>2. /\ after \in [Resources -> {"none", "held", "gone"}]
        /\ \A r \in Resources : after[r] = IF r \in {"conns", "table"} THEN "none" ELSE res[r]
    <3>1. {"conns", "table"} \in SUBSET Resources
      BY DEF Resources
    <3> QED BY <1>0, <2>1, <3>1, Marks
  <2>3. /\ res' \in [Resources -> {"none", "held", "gone"}] /\ we_called' = TRUE
        /\ \A r \in Resources \ {"windows", "filter"} : res'[r] = after[r]
        /\ res'["windows"] = "gone" /\ said' \subseteq {"gone"}
        /\ ~misused' => res'["filter"] # "held"
        /\ misused' = Bad(used)
    <3>1. after["windows"] = res["windows"] /\ after["filter"] = res["filter"]
      BY <2>2 DEF Resources
    <3> QED BY <1>2, <1>5, <2>1, <2>2, <3>1, FailStep
  <2> QED BY <1>2, <1>5, <2>2, <2>3 DEF IInv, TypeOK, HoldInv, WindowsInv, StatusInv,
         UsedWhileHeld, MessagesReadable, Loop, HasSocket, HasProc, Resources, Bad
<1> QED BY <1>1, <1>4, <1>5 DEF Draw

LEMMA KeyStep == IInv /\ (KeyOther \/ KeyQuit \/ KeyScreen \/ KeyBack \/ KeyDialog) => IInv'
<1> SUFFICES ASSUME IInv, KeyOther \/ KeyQuit \/ KeyScreen \/ KeyBack \/ KeyDialog PROVE IInv'
  OBVIOUS
<1>1. /\ pc = "input" /\ res' = res /\ misused' = Bad({"windows"})
      /\ UNCHANGED <<we_called, said, resize_failed, err>>
  <2>1. Input({}, res)
    BY DEF KeyOther, KeyQuit, KeyScreen, KeyBack, KeyDialog
  <2>2. {"windows"} \cup {} = {"windows"}
    OBVIOUS
  <2> QED BY <2>1, <2>2 DEF Input, Work
<1>2. CASE KeyOther
  <2>1. pc' = "top" /\ UNCHANGED <<cur_screen, should_stop, wanted>>
    BY <1>2 DEF KeyOther, Goto, ui
  <2> QED BY <1>1, <2>1 DEF IInv, TypeOK, HoldInv, WindowsInv, StatusInv,
         UsedWhileHeld, MessagesReadable, Loop, HasSocket, HasProc, Resources, Bad
<1>3. CASE KeyQuit
  <2>1. pc' = "nl_exit" /\ should_stop' = TRUE /\ UNCHANGED <<cur_screen, wanted>>
    BY <1>3 DEF KeyQuit, Goto
  <2> QED BY <1>1, <2>1 DEF IInv, TypeOK, HoldInv, WindowsInv, StatusInv,
         UsedWhileHeld, MessagesReadable, Loop, HasSocket, HasProc, Resources, Bad
<1>4. CASE KeyScreen
  <2>1. /\ pc' = "top" /\ cur_screen' \in {"field", "help"}
        /\ UNCHANGED <<should_stop, wanted>>
    BY <1>4 DEF KeyScreen, Goto
  <2> QED BY <1>1, <2>1 DEF IInv, TypeOK, HoldInv, WindowsInv, StatusInv,
         UsedWhileHeld, MessagesReadable, Loop, HasSocket, HasProc, Resources, Bad
<1>5. CASE KeyBack
  <2>1. pc' = "top" /\ cur_screen' = "main" /\ wanted' \in BOOLEAN /\ UNCHANGED should_stop
    BY <1>5 DEF IInv, TypeOK, KeyBack, Goto
  <2> QED BY <1>1, <2>1 DEF IInv, TypeOK, HoldInv, WindowsInv, StatusInv,
         UsedWhileHeld, MessagesReadable, Loop, HasSocket, HasProc, Resources, Bad
<1>6. CASE KeyDialog
  <2>1. pc' = "dialog" /\ UNCHANGED <<cur_screen, should_stop, wanted>>
    BY <1>6 DEF KeyDialog, Goto, ui
  <2> QED BY <1>1, <2>1 DEF IInv, TypeOK, HoldInv, WindowsInv, StatusInv,
         UsedWhileHeld, MessagesReadable, Loop, HasSocket, HasProc, Resources, Bad
<1> QED BY <1>2, <1>3, <1>4, <1>5, <1>6

LEMMA DialogStep == IInv /\ DialogEnd => IInv'
<1> SUFFICES ASSUME IInv, DialogEnd PROVE IInv'
  OBVIOUS
<1>0. res \in [Resources -> {"none", "held", "gone"}]
  BY DEF IInv, TypeOK
<1>1. pc = "dialog" /\ pc' = "top" /\ UNCHANGED <<cur_screen, should_stop, wanted, err>>
  BY DEF DialogEnd, Goto, ui
<1>2. CASE Work({"windows"}, res)
  <2>1. res' = res /\ misused' = Bad({"windows"}) /\ UNCHANGED <<we_called, said, resize_failed>>
    BY <1>2 DEF Work
  <2> QED BY <1>1, <2>1 DEF IInv, TypeOK, HoldInv, WindowsInv, StatusInv,
         UsedWhileHeld, MessagesReadable, Loop, HasSocket, HasProc, Resources, Bad
<1>3. CASE Work({"windows"} \cup IF res["filter"] = "none" THEN {} ELSE {"filter"},
                Held({"filter"}))
  <2>1. PICK used : used = {"windows"} \cup IF res["filter"] = "none" THEN {} ELSE {"filter"}
    OBVIOUS
  <2>2. /\ res' = Held({"filter"}) /\ misused' = Bad(used)
        /\ UNCHANGED <<we_called, said, resize_failed>>
    BY <1>3, <2>1 DEF Work
  <2>3. /\ res' \in [Resources -> {"none", "held", "gone"}]
        /\ \A r \in Resources : res'[r] = IF r \in {"filter"} THEN "held" ELSE res[r]
    <3>1. {"filter"} \in SUBSET Resources
      BY DEF Resources
    <3> QED BY <1>0, <2>2, <3>1, Marks
  <2>4. "windows" \in used /\ \A r \in used : res[r] = "held" \/ resize_failed
    BY <1>0, <1>1, <2>1 DEF IInv, HoldInv, WindowsInv, Loop, Resources
  <2> QED BY <1>1, <2>2, <2>3, <2>4 DEF IInv, TypeOK, HoldInv, WindowsInv, StatusInv,
         UsedWhileHeld, MessagesReadable, Loop, HasSocket, HasProc, Resources, Bad
<1> QED BY <1>2, <1>3 DEF DialogEnd

LEMMA EndStep == IInv /\ (NlExit \/ ProcExit \/ MainWindowExit \/ NmCtxExit) => IInv'
<1> SUFFICES ASSUME IInv, NlExit \/ ProcExit \/ MainWindowExit \/ NmCtxExit PROVE IInv'
  OBVIOUS
<1>0. /\ res \in [Resources -> {"none", "held", "gone"}]
      /\ {"socket"} \in SUBSET Resources /\ {"dp_proc", "table"} \in SUBSET Resources
      /\ {"conns"} \in SUBSET Resources
  BY DEF IInv, TypeOK, Resources
<1>1. CASE NlExit
  <2>1. /\ pc = "nl_exit" /\ pc' = "proc_exit" /\ res' = Gone({"socket"})
        /\ misused' = Bad({"socket"})
        /\ UNCHANGED <<we_called, said, resize_failed, cur_screen, should_stop, wanted, err>>
    BY <1>1 DEF NlExit, Work, Goto, ui
  <2>2. /\ res' \in [Resources -> {"none", "held", "gone"}]
        /\ \A r \in Resources :
              res'[r] = IF r \in {"socket"} /\ res[r] # "none" THEN "gone" ELSE res[r]
    BY <1>0, <2>1, Marks
  <2> QED BY <2>1, <2>2 DEF IInv, TypeOK, HoldInv, WindowsInv, StatusInv,
         UsedWhileHeld, MessagesReadable, Loop, HasSocket, HasProc, Resources, Bad
<1>2. CASE ProcExit
  <2>1. PICK used : used = {"dp_proc"} \cup IF wanted THEN {"table"} ELSE {}
    OBVIOUS
  <2>2. /\ pc = "proc_exit" /\ pc' = "window_exit"
        /\ UNCHANGED <<cur_screen, should_stop, wanted, err>>
    BY <1>2 DEF ProcExit, Goto, ui
  <2>3. PICK after : after = Gone({"dp_proc", "table"})
    OBVIOUS
  <2>4. /\ after \in [Resources -> {"none", "held", "gone"}]
        /\ \A r \in Resources :
              after[r] = IF r \in {"dp_proc", "table"} /\ res[r] # "none" THEN "gone" ELSE res[r]
    BY <1>0, <2>3, Marks
  <2>5. \A r \in used : res[r] = "held" \/ resize_failed
    BY <2>1, <2>2 DEF IInv, HoldInv, Loop, HasSocket, HasProc
  <2>6. CASE Work(used, after)
    <3>1. res' = after /\ misused' = Bad(used) /\ UNCHANGED <<we_called, said, resize_failed>>
      BY <2>6 DEF Work
    <3> QED BY <2>2, <2>4, <2>5, <3>1 DEF IInv, TypeOK, HoldInv, WindowsInv, StatusInv,
         UsedWhileHeld, MessagesReadable, Loop, HasSocket, HasProc, Resources, Bad
  <2>7. CASE Fail(used, after) /\ UNCHANGED resize_failed
    <3>1. /\ res' \in [Resources -> {"none", "held", "gone"}] /\ we_called' = TRUE
          /\ \A r \in Resources \ {"windows", "filter"} : res'[r] = after[r]
          /\ res'["windows"] = "gone" /\ said' \subseteq {"gone"}
          /\ ~misused' => res'["filter"] # "held"
          /\ misused' = Bad(used)
      <4>1. after["windows"] = res["windows"] /\ after["filter"] = res["filter"]
        BY <2>4 DEF Resources
      <4> QED BY <2>2, <2>4, <2>7, <4>1, FailStep
    <3> QED BY <2>2, <2>4, <2>5, <2>7, <3>1 DEF IInv, TypeOK, HoldInv, WindowsInv, StatusInv,
         UsedWhileHeld, MessagesReadable, Loop, HasSocket, HasProc, Resources, Bad
  <2> QED BY <1>2, <2>1, <2>3, <2>6, <2>7 DEF ProcExit
<1>3. CASE MainWindowExit
  <2>1. /\ pc = "window_exit" /\ pc' = "ctx_exit"
        /\ misused' = (misused \/ (~we_called /\ res["windows"] = "gone"))
        /\ UNCHANGED <<cur_screen, should_stop, wanted, err, said, resize_failed>>
        /\ we_called' = TRUE
        /\ res' = IF we_called THEN res
                  ELSE [res EXCEPT !["windows"] = "gone",
                                   !["filter"] = IF @ = "none" THEN @ ELSE "gone"]
    BY <1>3 DEF MainWindowExit, WindowExit, Goto, ui
  <2>2. CASE we_called
    <3> QED BY <1>0, <2>1, <2>2 DEF IInv, TypeOK, HoldInv, WindowsInv, StatusInv,
         UsedWhileHeld, MessagesReadable, Loop, HasSocket, HasProc, Resources, Bad
  <2>3. CASE ~we_called
    <3>1. /\ res' \in [Resources -> {"none", "held", "gone"}]
          /\ \A r \in Resources \ {"windows", "filter"} : res'[r] = res[r]
          /\ res'["windows"] = "gone" /\ res'["filter"] # "held"
      BY <1>0, <2>1, <2>3 DEF Resources
    <3> QED BY <2>1, <2>3, <3>1 DEF IInv, TypeOK, HoldInv, WindowsInv, StatusInv,
         UsedWhileHeld, MessagesReadable, Loop, HasSocket, HasProc, Resources, Bad
  <2> QED BY <2>2, <2>3
<1>4. CASE NmCtxExit
  <2>1. /\ pc = "ctx_exit" /\ pc' = "returned" /\ res' = Null({"conns"}) /\ misused' = Bad({})
        /\ UNCHANGED <<we_called, said, resize_failed, cur_screen, should_stop, wanted, err>>
    BY <1>4 DEF NmCtxExit, Work, Goto, ui
  <2>2. /\ res' \in [Resources -> {"none", "held", "gone"}]
        /\ \A r \in Resources : res'[r] = IF r \in {"conns"} THEN "none" ELSE res[r]
    BY <1>0, <2>1, Marks
  <2> QED BY <2>1, <2>2 DEF IInv, TypeOK, HoldInv, WindowsInv, StatusInv,
         UsedWhileHeld, MessagesReadable, Loop, HasSocket, HasProc, Resources, Bad
<1> QED BY <1>1, <1>2, <1>3, <1>4

LEMMA NextIInv == IInv /\ [Next]_vars => IInv'
<1> SUFFICES ASSUME IInv, [Next]_vars PROVE IInv'
  OBVIOUS
<1>1. CASE UNCHANGED vars
  <2>1. UNCHANGED <<pc, res, misused, we_called, cur_screen, should_stop, wanted, err, said,
                    resize_failed>>
    BY <1>1 DEF vars, ui
  <2> QED BY <2>1 DEF IInv, TypeOK, HoldInv, WindowsInv, StatusInv, UsedWhileHeld,
             MessagesReadable
<1>2. CASE Program
  BY <1>2, StartStep, MapStep, DumpStep, DrawStep, KeyStep, EndStep DEF Program
<1> QED BY <1>1, <1>2, DialogStep DEF Next, Terminated

-----------------------------------------------------------------------------
(* The theorems.                                                           *)

\* The invariant holds whichever steps of main() fail, and whatever keys are pressed.
THEOREM Invariance == Spec => []IInv
<1>1. IInv /\ [Next]_vars => IInv'
  BY NextIInv
<1> QED BY InitIInv, <1>1, PTL DEF Spec

\* Every variable of main() keeps its type.
THEOREM TypeCorrect == Spec => []TypeOK
<1>1. IInv => TypeOK
  BY DEF IInv
<1> QED BY Invariance, <1>1, PTL

\* Each label of main()'s exit path gives back what was taken before the goto.
THEOREM ReleaseCorrect == Spec => []AllReleased
<1>1. IInv => AllReleased
  BY DEF IInv, HoldInv, WindowsInv, AllReleased, Resources, Loop, HasSocket, HasProc
<1> QED BY Invariance, <1>1, PTL

\* Only the ignored failure of free_sk_proc_map() makes main() use what is gone.
THEOREM UseCorrect == Spec => []UsedWhileHeld
<1>1. IInv => UsedWhileHeld
  BY DEF IInv
<1> QED BY Invariance, <1>1, PTL

\* nm_perror() and nm_error() print after the windows have gone.
THEOREM MessagesCorrect == Spec => []MessagesReadable
<1>1. IInv => MessagesReadable
  BY DEF IInv
<1> QED BY Invariance, <1>1, PTL

\* main() returns 0 exactly when the user has quit.
THEOREM StatusCorrect == Spec => []StatusTold
<1>1. IInv => StatusTold
  BY DEF IInv, StatusInv, StatusTold
<1> QED BY Invariance, <1>1, PTL

\* The steps main() has left once it has left its loop.
StepsLeft ==
    CASE pc = "nl_exit" -> 4 [] pc = "proc_exit" -> 3 [] pc = "window_exit" -> 2
      [] pc = "ctx_exit" -> 1 [] OTHER -> 0

\* After 'q' main() is on its exit path, goes down it step by step and never back into the
\* loop, whichever step fails.  This is why QuitEnds holds.
THEOREM QuitCloser ==
    Spec => [][should_stop => /\ should_stop' /\ StepsLeft' = StepsLeft - 1
                              /\ StepsLeft = 1 <=> pc' = "returned"]_vars
<1>1. ASSUME IInv, Next, should_stop, ~UNCHANGED vars
      PROVE  /\ should_stop' /\ StepsLeft' = StepsLeft - 1
             /\ StepsLeft = 1 <=> pc' = "returned"
  <2>1. pc \in {"nl_exit", "proc_exit", "window_exit", "ctx_exit", "returned"}
    BY <1>1 DEF IInv, TypeOK, StatusInv, Loop
  <2>2. NlExit \/ ProcExit \/ MainWindowExit \/ NmCtxExit
    BY <1>1, <2>1 DEF Next, Program, Terminated, DialogEnd, WindowInit, ProcInit, NlInit, Top,
              BuildSkProcMap, ConnectionsDump, Draw, KeyOther, KeyQuit, KeyScreen, KeyBack,
              KeyDialog, Input
  <2>3. should_stop' = should_stop
    BY <2>2 DEF NlExit, ProcExit, MainWindowExit, NmCtxExit, ui
  <2>4. CASE NlExit
    <3>1. pc = "nl_exit" /\ pc' = "proc_exit"
      BY <2>4 DEF NlExit, Goto
    <3> QED BY <1>1, <2>3, <3>1 DEF StepsLeft
  <2>5. CASE ProcExit
    <3>1. pc = "proc_exit" /\ pc' = "window_exit"
      BY <2>5 DEF ProcExit, Goto
    <3> QED BY <1>1, <2>3, <3>1 DEF StepsLeft
  <2>6. CASE MainWindowExit
    <3>1. pc = "window_exit" /\ pc' = "ctx_exit"
      BY <2>6 DEF MainWindowExit, Goto
    <3> QED BY <1>1, <2>3, <3>1 DEF StepsLeft
  <2>7. CASE NmCtxExit
    <3>1. pc = "ctx_exit" /\ pc' = "returned"
      BY <2>7 DEF NmCtxExit, Goto
    <3> QED BY <1>1, <2>3, <3>1 DEF StepsLeft
  <2> QED BY <2>2, <2>4, <2>5, <2>6, <2>7
<1>2. IInv /\ [Next]_vars =>
         [should_stop => /\ should_stop' /\ StepsLeft' = StepsLeft - 1
                         /\ StepsLeft = 1 <=> pc' = "returned"]_vars
  BY <1>1
<1> QED BY Invariance, <1>2, PTL DEF Spec
=============================================================================
