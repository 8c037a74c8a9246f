------------------------------- MODULE Table -------------------------------
(***************************************************************************)
(* A SCAPAR_TABLE: created by the parser or the program, filled from the   *)
(* lines of a file (scapar_parse_table_from_fh, scapar_table_add_entry),   *)
(* read by the getters, printed, destroyed.  Every column is a vector of   *)
(* its own, and a row is added one column after the other.                 *)
(***************************************************************************)
EXTENDS VectorData, Sequences

CONSTANTS
  Cols,      \* number of columns
  ColType,   \* ColType[c]: type of column c
  Tok,       \* what may stand between blanks in a line
  Reads,     \* Reads[t][x]: the value of x as a t, or Bad
  Bad,
  Line,      \* the lines a table may be read from, as sequences of Tok
  Reused,    \* whether the program parses a variable it has used before
  MaxTables  \* bound: tables created in the variable

Column == 1..Cols

ASSUME TableAssumption ==
  /\ Cols \in Nat \ {0}
  /\ ColType \in [Column -> Type]
  /\ Reads \in [Type -> [Tok -> Value \cup {Bad}]]
  /\ Bad \notin Value
  /\ Line \subseteq Seq(Tok)
  /\ Reused \in BOOLEAN /\ MaxTables \in Nat

VARIABLES
  tab,      \* the SCAPAR_TABLE; block names the memory of type, data and key
  live,     \* blocks not given back
  made,     \* tables created so far
  phase,    \* "program", "lines" (reading lines) or "cells" (adding a row)
  line,     \* the line being added, a copy of which the code keeps
  col,      \* the column whose value is added next
  last,     \* the line ended with the slash that ends a table
  got,      \* what the last getter returned
  printed,  \* the last table printed: its block and what was shown
  stale,    \* memory was used or freed after it had been freed
  outcome   \* "running", or why the process ended

tvars == <<tab, live, made, phase, line, col, last, got, printed, stale, outcome>>

Running == outcome = "running"
Ends(how) ==
  /\ Running /\ outcome' = how
  /\ UNCHANGED <<tab, live, made, phase, line, col, last, got, printed, stale>>

NoTable == [magic |-> FALSE, entries |-> 0, block |-> 0, data |-> [c \in Column |-> NoVec]]
There   == tab.magic /\ tab.block \in live

(* scapar_table_destroy looks at the columns, gives the memory back and    *)
(* leaves the magic number where it is.                                    *)
NotFreed == live
Freed == IF tab.magic THEN live \ {tab.block} ELSE live
Touched == stale' = (stale \/ (tab.magic /\ ~There))

-----------------------------------------------------------------------------
(* scapar_table_create: a table that is there is destroyed first. *)
Create ==
  /\ Running /\ phase = "program" /\ made < MaxTables
  /\ Reused \/ There \/ ~tab.magic
  /\ made' = made + 1
  /\ Touched
  /\ live' = Freed \cup {made'}
  /\ tab' = [magic |-> TRUE, entries |-> 0, block |-> made',
             data |-> [c \in Column |-> VecInit(ColType[c])]]
  /\ phase' = "lines"
  /\ UNCHANGED <<line, col, last, got, printed, outcome>>

Reading == Running /\ phase = "lines"

(* A comment is skipped; a blank line and the end of the file end a table. *)
ReadComment == Reading /\ UNCHANGED tvars
ReadEnd ==
  /\ Reading /\ phase' = "program"
  /\ UNCHANGED <<tab, live, made, line, col, last, got, printed, stale, outcome>>

(* A line, without the slash at its end if it has one; a slash alone is a  *)
(* line with nothing.                                                      *)
NoCol     == 0
SecondCol == 2
FirstCol  == 1
ReadLine(l, slash) ==
  /\ Reading /\ (l = <<>> => slash)
  /\ line' = l /\ last' = slash /\ col' = FirstCol
  /\ phase' = "cells"
  /\ UNCHANGED <<tab, live, made, got, printed, stale, outcome>>

(* The next column, from the token with its number *)
Adding == Running /\ phase = "cells"
ValueOf(l, c) == Reads[ColType[c]][l[c]]
HasValue(l, c) == c \in DOMAIN l /\ ValueOf(l, c) # Bad

FirstColumn(c) == 1
OwnColumn(c)   == c
CellAdded(x)   == [tab.data EXCEPT ![col] = VecAdd(tab.data[col], x)]
AddCell ==
  /\ Adding /\ col <= Cols /\ HasValue(line, col) /\ CanAdd(tab.data[col])
  /\ tab' = [tab EXCEPT !.data = CellAdded(ValueOf(line, OwnColumn(col)))]
  /\ col' = col + 1
  /\ UNCHANGED <<live, made, phase, line, last, got, printed, stale, outcome>>

AddNothing ==
  /\ Adding /\ col <= Cols /\ ~HasValue(line, col)
  /\ Ends("badLine")
AddWithoutMemory ==
  /\ Adding /\ col <= Cols /\ Full(tab.data[col])
  /\ Ends("memory")

(* What stands behind the last column is ignored. *)
RowAdded ==
  /\ Adding /\ col > Cols
  /\ tab' = [tab EXCEPT !.entries = @ + 1]
  /\ phase' = IF last THEN "program" ELSE "lines"
  /\ UNCHANGED <<live, made, line, col, last, got, printed, stale, outcome>>

-----------------------------------------------------------------------------
(* Calls by the program, which reads a table before it is destroyed *)

Calling == Running /\ phase = "program" /\ (tab.magic => There)

GetNumEntries ==
  /\ Calling
  /\ got' = IF tab.magic THEN tab.entries ELSE 0
  /\ UNCHANGED <<tab, live, made, phase, line, col, last, printed, stale, outcome>>

(* scapar_table_get_value asserts that there is such an entry, and         *)
(* scapar_vec_get_value that the column has it.                            *)
GetValue(r, c) ==
  /\ Calling /\ tab.magic /\ r < tab.entries /\ r < tab.data[c].size
  /\ got' = tab.data[c].cells[r]
  /\ UNCHANGED <<tab, live, made, phase, line, col, last, printed, stale, outcome>>
GetNothing(r, c) ==
  /\ Calling
  /\ ~(tab.magic /\ r >= 0 /\ r < tab.entries /\ c \in Column /\ r < tab.data[c].size)
  /\ Ends("illegal")

(* The rows of the table, as sequences of values *)
RowsOf(t) == [r \in 1..t.entries |-> [c \in Column |-> EntriesOf(t.data[c])[r]]]
Rows == RowsOf(tab)

(* Of a string, the bytes of its address are shown, not its own. *)
ShownAs(c, x) == IF ColType[c] = "STR" THEN Junk ELSE x
PrintTable ==
  /\ Calling /\ tab.magic
  /\ printed' = [block |-> tab.block,
                 rows |-> [r \in DOMAIN Rows |-> [c \in Column |-> ShownAs(c, Rows[r][c])]]]
  /\ UNCHANGED <<tab, live, made, phase, line, col, last, got, stale, outcome>>

Destroy ==
  /\ Running /\ phase = "program"
  /\ live' = Freed
  /\ Touched
  /\ Reused \/ There \/ ~tab.magic
  /\ UNCHANGED <<tab, made, phase, line, col, last, got, printed, outcome>>

-----------------------------------------------------------------------------
Init ==
  /\ tab = NoTable /\ live = {} /\ made = 0
  /\ phase = "program" /\ line = <<>> /\ col = 1 /\ last = FALSE
  /\ got = 0 /\ printed = [block |-> 0, rows |-> <<>>]
  /\ stale = FALSE /\ outcome = "running"

Next ==
  \/ Create \/ ReadComment \/ ReadEnd
  \/ \E l \in Line : \E slash \in BOOLEAN : ReadLine(l, slash)
  \/ AddCell \/ AddNothing \/ AddWithoutMemory \/ RowAdded
  \/ GetNumEntries
  \/ \E c \in Column : \E r \in 0..tab.entries : GetValue(r, c)
  \/ \E c \in 0..(Cols + 1) : \E r \in -1..tab.entries : GetNothing(r, c)
  \/ PrintTable \/ Destroy
  \/ ~Running /\ UNCHANGED tvars
  \/ phase = "program" /\ UNCHANGED tvars

Spec == Init /\ [][Next]_tvars
-----------------------------------------------------------------------------
TypeOK ==
  /\ tab.magic \in BOOLEAN /\ tab.entries \in Nat /\ tab.block \in 0..made
  /\ live \subseteq 1..made /\ made \in 0..MaxTables
  /\ phase \in {"program", "lines", "cells"}
  /\ line \in Line \cup {<<>>} /\ col \in 1..(Cols + 1)
  /\ outcome \in {"running", "badLine", "illegal", "memory"}

(* Between two lines all columns have as many entries as the table, and    *)
(* while a row is added only the columns done have one more: no row the    *)
(* program can see lacks a value.                                          *)
RowsComplete ==
  tab.magic => \A c \in Column :
    tab.data[c].size = tab.entries + (IF phase = "cells" /\ c < col THEN 1 ELSE 0)

(* All memory of tables is the current table's: creating a table where one *)
(* was, loses none.                                                        *)
NothingLost == live \subseteq {tab.block}

(* Rows and values as TableRows promises them. *)
RowList == INSTANCE TableRows
          WITH Legal <- HasValue, Reading <- ValueOf, there <- There,
               rows <- IF There THEN Rows ELSE <<>>
ImplementsRows == RowList!Spec

(* scapar_table_print "outputs a table".                                   *)
PrintedIsTable == There /\ printed.block = tab.block => printed.rows = Rows

(* A table that was destroyed is not touched again.                        *)
NotStale == ~stale
=============================================================================
