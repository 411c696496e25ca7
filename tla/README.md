# A verification project for sockmon

sockmon shows the TCP and UDP sockets of a Linux machine in a terminal, and
refreshes them every few seconds.  It is one single-threaded C program of about
4800 lines: `main.c` runs the loop, `nl.c` asks the kernel over netlink, `proc.c`
finds the owners of sockets in `/proc`, `draw.c` holds the table of fields, draws
and filters, `input.c` handles keys, `list.h` is an intrusive list.  There are no
tests in the repository.

The TLA+ modules here model the parts in which state lives, the TLC
configurations check them on small instances, and the `..._proofs` modules prove
all of the safety properties for every instance.  `PROJECT.json` maps each
definition to the lines it models.

## 1. Inventory

| component | state | operations | interacts with | hard because | correct when |
|---|---|---|---|---|---|
| life cycle, `main.c` | `struct nm_ctx`: windows, socket, `should_stop`, `we_called`, screen | `main`, `nm_ctx_init`, `nm_ctx_exit` | calls every other part | each step can fail; errors close the windows early; a loop that `continue`s through its condition | all that was taken is given back, the status is true, `q` ends it, the screen refreshes |
| connection dump, `nl.c`, `conn_info.c`, `add_conn_info`, row loop of `draw_connections` | `n->conn_list`, `nr_conns`, `ext_rcv`, sort key, vertical scroll | `connections_dump`, `diag_dump`, `add_conn_info`, `draw_connections`, vertical keys | owner map (lookup), field screen (key, requests) | failures in the middle of a dump; connections that lack the key; scrolled list that shrinks | sorted and stable, complete, nothing leaked, cursor on the list |
| field screen, `input.c`, `draw_field_header` | `tcp_fields[]`, `sel_field`, `sort_key`, `pos`, `ext_req` | keys of the screen, swap loop, drawing | the dump (key, requests), dialogs (filters) | pointers into a table whose rows are swapped; a preview with its own index arithmetic | it is a list the user arranges (`FieldOrder`) |
| owner map, `proc.c` | hash table, its size, `nr_sockets` | `build_sk_proc_map`, `lookup_socket_owner`, `free_sk_proc_map`, `proc_init`, `proc_exit` | processes through `/proc`; the dump | processes change between system calls; the table is resized every frame | true, complete for what stays put, emptied every frame |
| field table and comparisons, `tcp_fields[]`, `sort_*` | none | compare two values | insertion | bit fields, words in network order | sorting follows what the column shows |
| line dialogs, `fp_common`, `fp_addr`, `main_delay_handler` | the line being read, terminal mode, `f->filter`, `n->delay` | one `wgetch` after another | field screen, main screen | push-back, blanks, early exits, two allocations | a line means what it says, is consumed whole, the terminal is as before |
| list dialog, `fp_str_common`, `draw_str` | selected bits, cursor line, `f->filter` | cursor keys, space, `q` | field screen | a name is a line, an index and a bit, with an offset between them | the filter is what was starred |
| filter application, `fa_*` | none | compare a value with a filter | row drawing | a layout of its own for every bit field, prefix masks | lets through what the column shows to match |
| columns, `draw_protocol`, `draw_connections` | horizontal scroll, pins | skip, draw, blank out | dump, field screen | header and rows skip columns in two separate loops | columns line up, hidden rows leave no trace |
| renderers `dr_*`, copies `copy_*` | none | one value each | | bit fields | |
| terminal, `window_*`, `nm_error`, `nm_perror` | windows, modes | open, close, print | all | messages during full-screen mode | messages can be read |
| list, `list.h` | pointers | add, delete, iterate | dump | after a full iteration the cursor is the list head | behaves as a sequence |

Calls go downwards only: `main` calls `build_sk_proc_map`, `connections_dump`,
`draw_connections` and `should_stop` in turn.  What they share is `struct nm_ctx`,
the table `tcp_fields[]` and the hash table of `proc.c`.  The only concurrency is
with the outside: the kernel's answer, the processes, and the user, whose key
`should_stop` waits for for `n->delay` tenths of a second.

The hazards in this code, each at its line and with the property that watches it,
are listed in `PROJECT.json`.

## 2. Modules

| module | models | composed with |
|---|---|---|
| `ConnDump` | one display cycle: dump, insertion, drawing, one key; the list is a sequence | |
| `LinkedList` | the pointers of `list.h` under that list, and the three loops over it | extends `ConnDump`, for the rest of each handler; implements it |
| `FieldScreen` | the field screen | extends `ListMove`, instantiates `FieldOrder` |
| `FieldOrder` | what the field screen promises | extends `ListMove` |
| `ListMove` | moving one element of a list | |
| `SkProcMap` | the owner map and the processes | |
| `LineDialog` | the dialogs that read a line | |
| `FieldValues` | showing, comparing and filtering one value of a field | |
| `ListDialog` | the dialog of names, and the rows a filter leaves | extends `FieldValues` |
| `DrawRows` | a frame of the main screen, field by field | |
| `Sockmon` | `main` and the resources of all parts | |
| `ConnDump_proofs` | theorems about `ConnDump` and `LinkedList` | extends `LinkedList` |
| `FieldScreen_proofs`, `SkProcMap_proofs`, `LineDialog_proofs`, `ListDialog_proofs`, `DrawRows_proofs`, `Sockmon_proofs` | theorems about the module named | each extends its module |
| `Induction` | lemmas the proofs share: minima, induction, recursive functions | |
| `MC...` | constants of the instances | extend their module |

### ConnDump
`pc` says where `main` is in its loop.  `Sendmsg`, `Recvmsg`, `BufferEnd`,
`NlmsgDone`, `NlmsgError`, `DiagDump` and `DiagDumpFails` are the branches of
`connections_dump` and `diag_dump`; `DiagDump` includes `add_conn_info`, which is
one operator, `AddConnInfo`.  `DrawConnections`, `DrawRow`, `DrawEnd` are the row
loop, which frees as it draws; the `Key...` actions are the main screen's
vertical keys, `SortBy` is `s` pressed during a visit to the field screen, and
`CtxExitFree` the loop of `nm_ctx_exit`.  A `conn_info` is its arrival number, the
extensions it carries and the value of the sort key's field.  A call of a NULL
`sort_func` is the state `fault`, where the process is dead.

### LinkedList
`next`, `prev` and `mem` are memory: the two pointers of the `list_head` at each address
and the `conn_info` around it.  The loop of `add_conn_info` is walked element by element
(`BeginAdd`, `AddLoop`, `EndAdd`), and so are the two loops that free (`FreeThis`), which
`list_for_each_entry_safe` lets look one node ahead.  After a full turn the insertion
loop's cursor is the head itself (`HEAD`), which is why `list_add_tail` appends.  What a
loop does, where it stops and when it ends is decided by the pointers alone.  From
`ConnDump` come the parts of the handlers that are not about the list: the allocation and
the counters, the row of the connection at hand, the exit (`Allocate`, `Count`,
`FreeConn`, `DrawOrSkip`, `RowsDrawn`, ...).  `conn_list` is history here: `EndAdd` puts the
new element where its `list_add_tail` names another one, `FreeThis` takes out the one its
`list_del` names.  No guard and no other variable looks at it.  `Linked` says that the
pointers lead through it, and `IsConnDump` that it is what `ConnDump` says: a walk that
stopped one node late, freed another node or ended too early would be no behaviour of
`ConnDump`.

### FieldScreen, FieldOrder
Pointers into `tcp_fields[]` are row numbers.  Each handler is an action; the loop
of `field_key_left_handler` takes a step per turn (`SwapStep`), between which no key
is handled.  `Preview` and `Skip` are the arithmetic of `draw_field_header`.
`FieldOrder` knows only fields: an order, three sets of marks, a key.  The
refinement mapping turns rows into fields, and shows a move as happening with the
last swap: until then it puts the moving field back to where it was.

### SkProcMap
The processes (`SetFd`, `Fork`, `Exit`) act between any two system calls of the
scan: `BeginScan`, `OpenPid`, `GetComm`, `AddSkIno`, `EndPid`, `EndScan`.  Chains of
owners are sequences, one per bucket.  `held` and `steady` remember what processes
held during the scan, and what they did not touch.  `/proc` is read as it was at
`rewinddir`, the directory of one process as it was at the first `readdir`.  The
shift by the width of a word, undefined in C, gives the whole product or 0
(`ShiftWraps`).  Reaching outside the table is the state `fault`.

### LineDialog
`tty` holds what `wgetch` will return: in line mode the terminal delivers a line
and its newline at once, and behind it is always a key typed ahead.  `pc` is the
place in the parser; each action is one `wgetch` with its branch.  Texts are
sequences over a few characters, an address is one character `inet_pton` accepts.
`Meaning` reads the whole line at once and is the specification of the parser.  Besides the
result of each line `MeaningKept` says that the rest of a line is skipped only when it has
no meaning.  A resize of the terminal arrives among the characters as `KEY_RESIZE` and is an error like any
character no branch takes; in the text of a string filter it goes to `isprint`, which is
undefined for it, and is left out.

### FieldValues, ListDialog
A row of `tcp_fields[]` has three functions for a value, each of which reads the bytes
anew with a layout of its own: `DrawBits`, `SortBits` and `FilterBits` are the three
tables.  Fields that are alike are one: `state` and `timer` for values with a name,
`options` for sets of flags, `tos` for the numbers (the widths of which make no
difference to a comparison), `sport` for network order, `bw` for a number in two words,
whose words have two bits here.  `Shown` is what a `dr_` function says of a value, without
width and wording; `Compare` is `sort_func`; `Apply` is `filter_apply`.

The two fields named `enabled`, of Vegas and of DCTCP, are a layout of their own.  They
are words of 32 and 16 bits, and are shown and sorted as such (`Whole`).  Their filters,
`fa_vegas_enabled` and `fa_dctcp_enabled` (`draw.c:1848`), copy the value to a local
variable of one byte and pass its address to `fa_str_common`, which goes by the type of
the field and reads four or two bytes there (`draw.c:1571`).  It shifts by what it has read,
whatever lies behind the variable.  C leaves the result open, so the model does
(`ReadPast`, `Answers`): such a filter may say yes or no to any value.  On a little-endian
machine whose shifts take the count modulo 32, the bytes behind the variable drop out
and the rows come out right, which is why a test would not show it.

`ListDialog` follows one field through `field_filter_handler`: `Open`, the keys of
`fp_str_common`, the three ways out of it, and `Type` for a filter that a line dialog made.
`chosen` is history and counts lines of the screen, so that the offset between lines, names
and bits can be wrong.  `ListDialogAssumption` says which values a kernel answers with
(`Values`): a `shutdown` of two bits, flags that are 0 or 1, names without a zero byte,
whose characters are signed as on x86 (`Chars`), and the addresses of one dump of one
family, as the request asks for one (`nl.c:39`); and that a typed prefix is of 0 to 128 bits
and a typed string not empty, as the dialogs make them.  `SortAsShown` needs all of it:
`shutdown` is read with two bits by one function and with eight by the others.

### DrawRows
The two loops over the fields, of the header and of a row, take a step per field
(`HeaderField`, `RowField`), whose turn they share; `Rewind` is the way out of
`draw_protocol` when a filter refuses the connection.  The lists are those of a
dump in any order; freeing is in `ConnDump`.  The window is never erased, so
`BeginFrame` makes every cell `Old`, whatever earlier frames left there; `touched`
and `EndFrame` are what ncurses does: it copies the cells written since the last
refresh to a screen that `window_erase` has blanked.  `Visible`, `LineOf` and `LineFor`
say what a frame should show, by which columns are left, how many cells they take and
how many rows come before: there is no loop state in them.

### Sockmon
The parts are reduced to what they take, use, give back and say.  `res` tells of
every resource whether it is held; `misused` remembers that something was used,
or freed, that was not held.  `nm_perror` and `nm_error` call `window_exit`, so
every failing step goes through `Fail`.

## 3. Runs

| run | bounds | shows |
|---|---|---|
| `conn_dump` | 4 connections, 3 extensions, 2 values, heights 3 and 8 | `TypeOK`, `Accounting`, `SortedList`, `DumpComplete`, `CursorOnList`, `StatusAction`, and of the pointers `Linked`, `CursorsValid`, `IsConnDump` |
| `field_screen` | 2 fields and a heading, 3 marks at a time, heights 3, 5, 8 | `TypeOK`, `PreviewIsTheMove`, `CursorVisible`, `RequestsMatch`, `ImplementsOrder`, `MoveEnds` |
| `sk_proc_map` | 2 processes, 2 descriptors, 2 sockets, 4-bit words | `TypeOK`, `ChainsConsistent`, `OwnersTrue`, `ScanComplete`, `MapEmptied` |
| `line_dialog` | all lines of up to 3 of 4 to 8 characters, 26 longer ones or with a resize, values mod 16, buffer of 6 | `TypeOK`, `MeaningKept`, `LineConsumed`, `KeyMode`, `OneFilter`, `DialogEnds` |
| `list_dialog` | every field, 2 stars at a time, up to 16 values of each field, every operator, 14 prefix lengths | `TypeOK`, `RowsAsChosen`, `OnMeansChosen`, `SortAsShown` |
| `draw_rows` | 3 fields and a heading on 4 columns, 3 connections of which 2 at a time, 3 marks, scrolled by 2 and 1 | `TypeOK`, `ScreenShows` |
| `sockmon` | none needed | `TypeOK`, `AllReleased`, `UsedWhileHeld`, `MessagesReadable`, `StatusTold`, `QuitEnds`, `Refreshes` |

Why these bounds are enough.  Where a connection is inserted depends on one new
element and a list: with four elements, two values and a missing extension there
are lists with ties, with gaps at the end, and insertions at the front, between
and behind.  The pointers are checked in the same
run: insertion at either end and between, and freeing from the front.  Two fields
across a heading move in both directions over the heading; longer tables are in the
proofs; the heights include one with no line left for the list, one with one line,
and one that shows it all.  Two processes and two sockets give sharing,
exit in the middle of the scan, pid reuse by fork, chains of two in one bucket and
tables of one, two buckets.  Three characters hold every operator with a value
and every mistake; the longer lines wrap the value, exceed the prefix length and
fill the buffer to the last place and beyond.  In `ListDialog` the values have bits at
both ends and in the middle of their byte, one set, several or none; with two stars a
name that is next to the right one is told from it, and one star from another; the
prefixes end before, at and behind the ends of bytes, words and addresses.  In
`DrawRows` the last column does not fit, connections carry all, some or none of the
extensions, and two lists of different lengths follow each other.  The bounds in
guards are `MaxConns`, which stops the kernel's answer, `MaxMarks` and `MaxStars`, which
refuse further marks and stars, and `MaxX` and `MaxY`, which stop scrolling.

Five runs look for what the code does not keep, one property each; `PROJECT.json`
has the details under `findings`:

- `conn_null_sort`: `s` on a heading makes it the sort key, and its `sort_func` is
  NULL (`draw.c:3112`).
- `field_filter_on`: `=` and Enter in a filter dialog turns on a filter that is not
  there (`input.c:206`).
- `sk_proc_report`: a process with a long name (a kernel thread's, for root), or one
  that exits at the wrong moment, ends the program without a word (`proc.c:282`).
- `sk_proc_hash`: with at most one socket the hash is shifted by 32 (`proc.c:71`).
- `draw_filters`: the filter of a displayed field is not applied while no connection
  carries the field's extension (`draw.c:199`).

Three more things the models meet without a run of their own: a line as long as the
buffer is terminated behind it (`draw.c:1309` and `draw.c:1986`; `LineDialog` goes to
`fault`); the dialogs accept operators they do not list for a type (`draw.c:1259`), which
then let nothing through (`RowsAsChosen`); and the filters of the fields `enabled` read
past a local variable (`draw.c:1854` and `draw.c:1863`), so that `RowsAsChosen` leaves these
two fields out: nothing can be said of their rows.

The passing runs go on around these: a state `fault` is where the process has
died; `sk_proc_map` takes the outcome 0 for the undefined shift; after a filter
that is missing nothing else depends on it; in `Sockmon`, `UsedWhileHeld` says that
a failed resize of the hash table, whose result `draw_connections` ignores, is the
only way to work with what is gone, and `AllReleased` says nothing of a program
that has done so.

### Fairness
`FieldScreen` has weak fairness of `SwapStep`, `LineDialog` of a dialog's reads, `Sockmon`
of the program's own steps.  The program is one thread and its loops wait for nothing
but `wgetch`: in the main loop `halfdelay` bounds that wait, so one of the steps of
`should_stop` is taken, with a key or with none; in a line dialog the line is there,
because the terminal delivers whole lines.  Nothing makes the user press a certain key,
open a dialog or end one: `Sockmon`'s `DialogEnd` and the opening of a line dialog have no
fairness.  `ListDialog`, `DrawRows`, `SkProcMap`, `ConnDump` and `LinkedList` state safety
only; that their loops end is plain from the finite list or table each walks once,
except for the pointers, where `Linked` gives it.

## 4. Proofs

Each theorem holds for every value of the constants that the module's assumption
allows: any table of fields, any set of connections, processes, sockets and texts, any
hash multiplier and word size, any screen of three lines or more.

| module | theorems | properties |
|---|---|---|
| `ConnDump_proofs` | `TypeCorrect`, `AccountingCorrect`, `SortCorrect`, `DumpCorrect`, `CursorCorrect`, `StatusCorrect` | `TypeOK`, `Accounting`, `SortedList`, `DumpComplete`, `CursorOnList`, `StatusAction` |
| | `LinkedCorrect`, `CursorsCorrect`, `ListImplements` | `Linked`, `CursorsValid`, `IsConnDump` |
| `FieldScreen_proofs` | `TypeCorrect`, `RequestsCorrect`, `CursorCorrect`, `PreviewCorrect`, `OrderImplemented`, `MoveCloser` | `TypeOK`, `RequestsMatch`, `CursorVisible`, `PreviewIsTheMove`, `ImplementsOrder`, the loop's variant |
| `SkProcMap_proofs` | `TypeCorrect`, `ChainsCorrect`, `OwnersCorrect`, `ScanCorrect`, `EmptiedCorrect` | `TypeOK`, `ChainsConsistent`, `OwnersTrue`, `ScanComplete`, `MapEmptied` |
| `LineDialog_proofs` | `TypeCorrect`, `MeaningCorrect`, `LineCorrect`, `ModeCorrect`, `FilterCorrect`, `DialogCloser` | `TypeOK`, `MeaningKept`, `LineConsumed`, `KeyMode`, `OneFilter`, a dialog's variant |
| `ListDialog_proofs` | `TypeCorrect`, `ChosenCorrect`, `RowsCorrect`, `SortCorrect`, `CompareIsOrder` | `TypeOK`, `OnMeansChosen`, `RowsAsChosen`, `SortAsShown`, each comparison is an order |
| `DrawRows_proofs` | `TypeCorrect`, `ScreenCorrect` | `TypeOK`, `ScreenShows` |
| `Sockmon_proofs` | `TypeCorrect`, `ReleaseCorrect`, `UseCorrect`, `MessagesCorrect`, `StatusCorrect`, `QuitCloser` | `TypeOK`, `AllReleased`, `UsedWhileHeld`, `MessagesReadable`, `StatusTold`, the exit path's variant |

All follow the same way: an invariant `IInv` (`LInv` of the pointers, `MInv` of a line,
`ScreenInv` of a frame beside it) holds initially and is kept by each action, and implies
the properties.  Why each is needed:

**ConnDump.**  `SortedList` alone is not inductive: stability needs the new arrival
number to be above all others; `Accounting` needs the numbers distinct, or freeing the
first element could free another's memory; `CursorOnList` speaks of the end of a frame
only and is a consequence of `RowsInv`: while rows are drawn, those skipped, shown and
still on the list add up to what arrived.  The heart is `AddConnInfoInserts`: whatever
branch is taken, the new list is the old one with the new element put in where
everything before it precedes it and everything after it follows.  It uses that the
list is sorted, so that the first element the loop breaks at bounds all that follow.

**LinkedList.**  Between operations the pointers form a ring in the order of the
sequence.  While an insertion runs its cursor stands on the ring and everything before
it is an element the loop did not break at (`LInv`); while a list is freed the cursor is
the first node and the look-ahead the second.  `ListImplements` is the refinement, with
the variables of `ConnDump` themselves as the mapping, and rests on this invariant,
because no step of `LinkedList` has the guards of `ConnDump`: the node where the
insertion stops is the place `AddConnInfo` chooses by quantifiers (`EndAddInserts`), the
node freed and drawn is the first of the sequence (`FreeThisIsFirst`), a NULL `sort_func` is
called when `ConnDump` says so (`NullWhereSaid`), and a loop that is back at the head has
left nothing (`EndFreeIsEmpty`).

**FieldScreen.**  `LoopInv` says where the swap loop is: between the row the field was
picked up on and the cursor, with the moving field in hand.  The refinement shows the
order with the loop undone, so one swap must be a stutter: `MoveItemEntries` gives the
entries of a moved list by index, and a swap of neighbours changes where the moving
field stands but not the list with that field put back (`DistinctIds` makes a list of
ids as good as a list of rows).  The last swap is the abstract move.

**SkProcMap.**  `ChainInv`: an owner is in the bucket of its socket, once; `CountInv`: the
counter is the number of owners, of which there cannot be more than sockets, so the
next shift exists (`NewShiftType`).  `HeldInv` and `OwnedInv` relate the map to what
processes held during this scan, and `OrderInv` says that the scan goes up through the
process ids, so that what is in the map is of no later process than the one scanned.
`ScanInv` is the heart of `ScanComplete`: a descriptor nobody touched belongs to a
process still to come, or is among the entries still to be read, or the map knows its
socket.  `TouchStep` shows that no system call of another process can break this, since
touching a descriptor takes it out of `steady`.

**LineDialog.**  `TtyInv`: while a dialog reads, what is left of the input is the rest of
its line, a newline, and the key typed ahead, so the newline is the last character read
on every path; with it go the modes and the allocations.  `MInv`, on top of it, says of
each place in the parser what has been read, in terms of the line: blanks (`OpInv`), then
an operator that is one of the line's own beginning (`OperatorRead`, with the one
character that may be put back), then an accepted text whose number modulo the word, or
whose characters without blanks, are in `v` or `buf` (`ValueInv`).  What remains is that
a line's meaning can be told from its beginning: an error once seen cannot be mended by
what follows (`NoMeaning`, `Skipped`), which is the part of `MeaningKept` about `skip`.  It
needs that a number's value grows by one digit as the loop computes it, wrapped at every
digit or at the end (`PartGrows`, `Wraps`).  `LineDialogAssumption` has it that no blank is
an operator, a digit or a character of an address, as in ASCII.

**ListDialog.**  `StarsInv`: the set of stars on the screen is the set of bits in the
dialog, and between dialogs the set in the filter; the bit toggled is the bit of the
name on the line because the offset is the same in `draw_str` and in the key loop.
`RowMeaning` goes through the kinds of fields, without the two of `ReadPast`: the three
layouts read the same number (`OneLayout`, `Shutdown`); a masked byte keeps as many bits
from the left as its mask has ones (`MaskedBits`), so the masked comparison of
addresses, byte by byte, is the comparison of the first bits (`PrefixCompared`); and
`strstr` finds what is part of a string (`PartsFound`).  For the order, the loops over
strings and over words of an address are both comparisons at the first place that
differs (`StringsOrdered`, `AddressesOrdered`), and that is one order (`OneOrder`); sets
of flags are in the order of their bytes, and two bytes with the same bits are equal
(`BitsOfByte`).  `CompareIsOrder` leaves out what is shown and includes values shown as
`?`: it is what `ConnDump` takes a comparison for, so that its sorted list is sorted for
the comparisons there are.

**DrawRows.**  `RoomInv`: the line being written plus the connections left never exceed
the lines of the window, because refusing or skipping a row costs a connection and not
a line.  `ScreenInv` relates the loops to what they should draw: at field `i` the columns
skipped are those scrolled out among the fields before it, `x` is where the visible ones
before it end, and the line is finished up to `x` and would show nothing behind it
(`LoopInv`, `PartLine`), for the header and for a row alike; the connections gone from the
list stand on the lines above if they pass, each on the line that counts the passing ones
before it (`RowsInv`).  When a row is refused half way its cells are blanked, and what is
kept is that the line would show nothing, not that nothing was written.  The sums of
widths are recursive functions, unfolded by `LeftSums`.

**Sockmon.**  The module has no constants and TLC visits all its states, so the proof adds
only the argument: `HoldInv` lists what is held at each step of `main`, and every exit
label gives back the whole list.

**Induction.**  The library's induction theorems take an operator for the property, which
no installed prover can instantiate.  `Induction` says the same of a set, from the
well-foundedness of `<` on the naturals, and with it that a recursive function exists and
satisfies its equation (`RecursionExists`, `RecursionUnique`); the minima that the models
take from the community modules follow too.

**Variants.**  `MoveCloser`, `DialogCloser` and `QuitCloser` are the parts of `MoveEnds`,
`DialogEnds` and `QuitEnds` that need no fairness: in the state from which something must
end no other action can happen, and each step makes a natural number smaller.  So if the
program takes steps at all it takes boundedly many: as many turns as there are rows
between a field and the cursor, 2n + 2 steps for a line of n characters, four steps of the
exit path.

Model-checked only: liveness (`MoveEnds`, `DialogEnds`, `QuitEnds`, `Refreshes`), which
needs `ENABLED`, and that the five runs under `findings` find what they find.

## 5. Not modelled

- The summary line, the help screen, the width, padding and wording of `dr_*`:
  formatting.
- `copy_*`, `build_request`, `nl_init`: straight-line code.  (Only eight bits of
  `ext_req` fit the request, `nl.c:41`; what the kernel then answers is not in this
  repository, and `ConnDump` lets it answer with any extensions.)
- Malformed netlink messages, and attributes shorter than their structure: the
  kernel's are taken to be well-formed.
- `inet_pton`, `inet_ntop`, ncurses and the terminal driver, beyond what the dialogs and
  the frame see of them.
- Terminals of fewer than three lines, where half a page is negative
  (`FieldScreenAssumption`).
- A resize that changes the width between two frames, and the choice of protocol and
  family, which changes only which connections come.
- The 130 entries of `tcp_fields[]` one by one: of fields that are alike one stands for all.
- Build files and the version: no behaviour.

## 6. Plan

Done, in this order: `ConnDump` and its proofs, `FieldOrder` and `FieldScreen`, `SkProcMap`,
`LineDialog`, `Sockmon`, `DrawRows`, `LinkedList` and its refinement, `FieldValues` and
`ListDialog`, and the proofs of all of them, of which those that need induction
(`MeaningCorrect`, `ScreenCorrect`) and those about bits and orders (`RowsCorrect`,
`SortCorrect`) came last.  What remains would be:

1. A composition of field screen, owner map and dump through `ext_req`, `ext_rcv` and the
   sort key over several frames; today each side takes what the other may do as any.
2. A table generated from `tcp_fields[]`, so that each of its entries is checked against
   the layouts of `FieldValues` and not one of each kind.
