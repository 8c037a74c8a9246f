----------------------------- MODULE TableRows -----------------------------
(***************************************************************************)
(* What a table promises: a list of rows, each read from one line by the   *)
(* types of the columns, and any value of it by row and column.            *)
(***************************************************************************)
EXTENDS Naturals, Sequences

CONSTANTS
  Column,          \* columns
  Line,            \* lines of a file, as sequences of what stands between blanks
  Legal(_, _),     \* whether a line has a value for a column
  Reading(_, _)    \* that value

VARIABLES there, rows, line, got, outcome

rvars == <<there, rows, line, got, outcome>>

RowOf(l) == [c \in Column |-> Reading(l, c)]

Make    == there' = TRUE /\ rows' = <<>> /\ UNCHANGED <<line, got>>
Read(l) == line' = l /\ UNCHANGED <<there, rows, got>>
AddRow  ==
  /\ there /\ \A c \in Column : Legal(line, c)
  /\ rows' = Append(rows, RowOf(line))
  /\ UNCHANGED <<there, line, got>>
Take(r, c) == got' = rows[r][c] /\ UNCHANGED <<there, rows, line>>
Measure == got' = Len(rows) /\ UNCHANGED <<there, rows, line>>
Clear   == there' = FALSE /\ rows' = <<>> /\ UNCHANGED <<line, got>>

Init == there = FALSE /\ rows = <<>> /\ line = <<>> /\ got = 0 /\ outcome = "running"

Ends(how) == outcome' = how /\ UNCHANGED <<there, rows, line, got>>
Step ==
  \/ Make \/ AddRow \/ Measure \/ Clear
  \/ \E l \in Line : Read(l)
  \/ \E r \in DOMAIN rows : \E c \in Column : Take(r, c)

(* A line that lacks a value, a value of another type, a row that is not   *)
(* there, too little memory                                                *)
Next ==
  /\ outcome = "running"
  /\ \/ Step /\ UNCHANGED outcome
     \/ (\E c \in Column : ~Legal(line, c)) /\ Ends("badLine")
     \/ Ends("illegal")
     \/ there /\ Ends("memory")

Spec == Init /\ [][Next]_rvars
=============================================================================
