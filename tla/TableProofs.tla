---------------------------- MODULE TableProofs ----------------------------
(***************************************************************************)
(* For any number of columns and types: the columns of a table stay of one *)
(* length, no table is lost, and the table is the list of the rows read.   *)
(***************************************************************************)
EXTENDS Table, VectorDataProofs

Tab == [magic : BOOLEAN, entries : Nat, block : Nat, data : [Column -> Vec]]

(* Every column is a vector that can be added to and has the rows so far. *)
ColumnsOK ==
  \A c \in Column :
    /\ VecOK(tab.data[c])
    /\ tab.magic => tab.data[c].magic /\ tab.data[c].type = ColType[c]

(* While a row is added the columns done hold its values. *)
RowSoFar ==
  phase = "cells" =>
    \A c \in Column : c < col =>
      HasValue(line, c) /\ tab.data[c].cells[tab.entries] = ValueOf(line, c)

(* Lines are read into a table that is there. *)
FilledIsThere == phase # "program" => There

IInv ==
  /\ TypeOK /\ tab \in Tab
  /\ ColumnsOK /\ RowsComplete
  /\ RowSoFar /\ FilledIsThere /\ NothingLost
  /\ ~tab.magic => tab.entries = 0 /\ live = {}

-----------------------------------------------------------------------------
LEMMA InitInv == Init => IInv
<1> SUFFICES ASSUME Init
             PROVE  IInv
  OBVIOUS
<1> USE DEF Init
<1>1. tab = [magic |-> FALSE, entries |-> 0, block |-> 0, data |-> [c \in Column |-> NoVec]]
  BY DEF NoTable
<1>2. VecOK(NoVec) /\ NoVec \in Vec
  BY NoVecOK DEF VecOK
<1>3. tab \in Tab
  BY <1>1, <1>2 DEF Tab
<1>4. ColumnsOK /\ RowsComplete /\ NothingLost /\ ~tab.magic /\ tab.entries = 0
  BY <1>1, <1>2 DEF ColumnsOK, RowsComplete, NothingLost
<1>5. TypeOK
  BY <1>1, TableAssumption DEF TypeOK
<1> QED
  BY <1>3, <1>4, <1>5 DEF IInv, RowSoFar, FilledIsThere

(* Steps that leave the table, its memory and the row being added alone.   *)
LEMMA FrameInv ==
  ASSUME IInv, UNCHANGED <<tab, live, made, phase, line, col, last>>,
         outcome' \in {"running", "badLine", "illegal", "memory"}
  PROVE  IInv'
  BY DEF IInv, TypeOK, ColumnsOK, RowsComplete, RowSoFar, FilledIsThere, NothingLost,
         There, HasValue, ValueOf

LEMMA CreateInv == IInv /\ Create => IInv'
<1> SUFFICES ASSUME IInv, Create
             PROVE  IInv'
  OBVIOUS
<1>1. /\ made' = made + 1 /\ made \in Nat /\ made' \in Nat /\ made' <= MaxTables
      /\ phase' = "lines" /\ UNCHANGED <<line, col, outcome>>
      /\ live' = Freed \cup {made'}
  BY TableAssumption DEF Create, IInv, TypeOK
<1>2. tab' = [magic |-> TRUE, entries |-> 0, block |-> made',
              data |-> [c \in Column |-> VecInit(ColType[c])]]
  BY DEF Create
<1>3. \A c \in Column : /\ VecOK(VecInit(ColType[c])) /\ VecInit(ColType[c]).magic
                        /\ VecInit(ColType[c]).type = ColType[c]
                        /\ VecInit(ColType[c]).size = 0
                        /\ VecInit(ColType[c]) \in Vec
  BY TableAssumption, VecInitOK DEF VecInit, NoVec, VecOK
<1>4. tab' \in Tab
  BY <1>1, <1>2, <1>3 DEF Tab
<1>5. live' = {made'}
  <2>1. live \subseteq {tab.block} /\ (~tab.magic => live = {})
    BY DEF IInv, NothingLost
  <2> QED
    BY <1>1, <2>1 DEF Freed
<1>6. tab'.magic /\ tab'.entries = 0 /\ tab'.block = made'
  BY <1>2
<1>7. \A c \in Column : tab'.data[c] = VecInit(ColType[c])
  BY <1>2
<1>8. TypeOK'
  BY <1>1, <1>5, <1>6 DEF TypeOK, IInv
<1>9. ColumnsOK'
  BY <1>3, <1>6, <1>7 DEF ColumnsOK
<1>10. RowsComplete'
  BY <1>1, <1>3, <1>6, <1>7 DEF RowsComplete
<1>11. RowSoFar' /\ FilledIsThere' /\ NothingLost'
  BY <1>1, <1>5, <1>6 DEF RowSoFar, FilledIsThere, There, NothingLost
<1> QED
  BY <1>4, <1>6, <1>8, <1>9, <1>10, <1>11 DEF IInv

LEMMA ReadEndInv == IInv /\ ReadEnd => IInv'
  BY DEF IInv, ReadEnd, Reading, TypeOK, ColumnsOK, RowsComplete, RowSoFar, FilledIsThere,
         NothingLost, There

LEMMA ReadLineInv ==
  ASSUME NEW l \in Line, NEW slash \in BOOLEAN, IInv, ReadLine(l, slash)
  PROVE  IInv'
<1>1. /\ phase = "lines" /\ phase' = "cells" /\ line' = l /\ col' = 1
      /\ UNCHANGED <<tab, live, made, outcome>>
  BY DEF ReadLine, Reading, FirstCol
<1>2. \A c \in Column : ~(c < col')
  BY <1>1 DEF Column
<1>3. TypeOK'
  BY <1>1, TableAssumption DEF IInv, TypeOK
<1>4. RowsComplete' /\ RowSoFar'
  BY <1>1, <1>2 DEF IInv, RowsComplete, RowSoFar
<1> QED
  BY <1>1, <1>3, <1>4 DEF IInv, ColumnsOK, FilledIsThere, NothingLost, There

(* What the addition of one value leaves as it was, and what it adds.      *)
LEMMA AddCellEffect ==
  ASSUME IInv, AddCell
  PROVE  /\ phase = "cells" /\ col \in Column /\ HasValue(line, col) /\ col' = col + 1
         /\ UNCHANGED <<live, made, phase, line, last, got, outcome>>
         /\ tab' \in Tab /\ tab.magic
         /\ tab'.magic = tab.magic /\ tab'.entries = tab.entries /\ tab'.block = tab.block
         /\ \A c \in Column : c # col => tab'.data[c] = tab.data[c]
         /\ tab'.data[col] = VecAdd(tab.data[col], ValueOf(line, col))
         /\ VecOK(tab.data[col]) /\ tab.data[col].magic /\ CanAdd(tab.data[col])
         /\ ValueOf(line, col) \in Value
<1> DEFINE D == [tab.data EXCEPT ![col] = VecAdd(tab.data[col], ValueOf(line, col))]
<1>1. /\ phase = "cells" /\ col <= Cols /\ HasValue(line, col) /\ col' = col + 1
      /\ CanAdd(tab.data[col])
      /\ UNCHANGED <<live, made, phase, line, last, got, outcome>>
      /\ tab' = [tab EXCEPT !.data = D]
  BY DEF AddCell, Adding, OwnColumn, CellAdded
<1>2. col \in Column
  BY <1>1, TableAssumption DEF IInv, TypeOK, Column
<1>3. tab \in Tab /\ tab.magic
  BY <1>1 DEF IInv, FilledIsThere, There
<1>4. VecOK(tab.data[col]) /\ tab.data[col].magic
  BY <1>2, <1>3 DEF IInv, ColumnsOK
<1>5. ValueOf(line, col) \in Value
  <2>1. line \in Seq(Tok) /\ col \in DOMAIN line /\ ValueOf(line, col) # Bad
    BY <1>1, TableAssumption DEF IInv, TypeOK, HasValue
  <2>2. line[col] \in Tok
    BY <2>1
  <2> QED
    BY <1>2, <2>1, <2>2, TableAssumption DEF ValueOf
<1>6. VecAdd(tab.data[col], ValueOf(line, col)) \in Vec
  BY <1>1, <1>4, <1>5, VecAddOK DEF VecOK
<1>7. tab.data \in [Column -> Vec]
  BY <1>3 DEF Tab
<1>8. D \in [Column -> Vec] /\ (\A c \in Column : c # col => D[c] = tab.data[c])
      /\ D[col] = VecAdd(tab.data[col], ValueOf(line, col))
  BY <1>2, <1>6, <1>7
<1> HIDE DEF D
<1>9. tab' = [magic |-> tab.magic, entries |-> tab.entries, block |-> tab.block, data |-> D]
  <2>1. tab = [magic |-> tab.magic, entries |-> tab.entries, block |-> tab.block,
               data |-> tab.data]
    BY <1>3 DEF Tab
  <2> QED
    BY <1>1, <2>1, Zenon
<1>10. tab' \in Tab
  BY <1>3, <1>8, <1>9 DEF Tab
<1> QED
  BY <1>1, <1>2, <1>3, <1>4, <1>5, <1>8, <1>9, <1>10

LEMMA AddCellInv == IInv /\ AddCell => IInv'
<1> SUFFICES ASSUME IInv, AddCell
             PROVE  IInv'
  OBVIOUS
<1> DEFINE v == tab.data[col]
           w == tab'.data[col]
           x == ValueOf(line, col)
<1>1. /\ phase = "cells" /\ col \in Column /\ HasValue(line, col) /\ col' = col + 1
      /\ UNCHANGED <<live, made, phase, line, outcome>>
      /\ tab' \in Tab /\ tab.magic
      /\ tab'.magic = tab.magic /\ tab'.entries = tab.entries /\ tab'.block = tab.block
      /\ \A c \in Column : c # col => tab'.data[c] = tab.data[c]
  BY AddCellEffect
<1>2. /\ VecOK(w) /\ w.magic /\ w.type = v.type /\ w.size = v.size + 1
      /\ w.cells[v.size] = x
  BY AddCellEffect, VecAddOK
<1>3. v.type = ColType[col] /\ v.size = tab.entries
  <2>1. v.type = ColType[col]
    BY <1>1 DEF IInv, ColumnsOK
  <2>2. ~(col < col)
    BY <1>1 DEF Column
  <2>3. v.size = tab.entries + (IF phase = "cells" /\ col < col THEN 1 ELSE 0)
    BY <1>1 DEF IInv, RowsComplete
  <2>4. tab.entries \in Nat
    BY DEF IInv, Tab
  <2> QED
    BY <2>1, <2>2, <2>3, <2>4
<1> HIDE DEF w, x
<1>4. TypeOK'
  <2>1. col' \in 1..(Cols + 1)
    BY <1>1, TableAssumption DEF Column
  <2> QED
    BY <1>1, <2>1 DEF IInv, TypeOK
<1>5. ColumnsOK'
  <2> SUFFICES ASSUME NEW c \in Column
               PROVE  /\ VecOK(tab'.data[c])
                      /\ tab'.magic => tab'.data[c].magic /\ tab'.data[c].type = ColType[c]
    BY DEF ColumnsOK
  <2>1. CASE c = col
    BY <1>2, <1>3, <2>1 DEF w
  <2>2. CASE c # col
    BY <1>1, <2>2 DEF IInv, ColumnsOK
  <2> QED
    BY <2>1, <2>2
<1>6. RowsComplete'
  <2> SUFFICES ASSUME NEW c \in Column
               PROVE  tab'.data[c].size =
                        tab'.entries + (IF phase' = "cells" /\ c < col' THEN 1 ELSE 0)
    BY DEF RowsComplete
  <2>1. CASE c = col
    BY <1>1, <1>2, <1>3, <2>1 DEF w, Column
  <2>2. CASE c # col
    <3>1. c < col' <=> c < col
      BY <1>1, <2>2 DEF Column
    <3> QED
      BY <1>1, <2>2, <3>1 DEF IInv, RowsComplete
  <2> QED
    BY <2>1, <2>2
<1>7. RowSoFar'
  <2> SUFFICES ASSUME NEW c \in Column, c < col'
               PROVE  HasValue(line', c) /\ tab'.data[c].cells[tab'.entries] = ValueOf(line', c)
    BY DEF RowSoFar
  <2>1. CASE c = col
    BY <1>1, <1>2, <1>3, <2>1 DEF w, x, HasValue, ValueOf
  <2>2. CASE c # col
    <3>1. c < col
      BY <1>1, <2>2 DEF Column
    <3>2. HasValue(line, c) /\ tab.data[c].cells[tab.entries] = ValueOf(line, c)
      BY <1>1, <3>1 DEF IInv, RowSoFar
    <3> QED
      BY <1>1, <2>2, <3>2 DEF HasValue, ValueOf
  <2> QED
    BY <2>1, <2>2
<1> QED
  BY <1>1, <1>4, <1>5, <1>6, <1>7 DEF IInv, FilledIsThere, NothingLost, There

(* The end of a row *)
LEMMA RowAddedEffect ==
  ASSUME IInv, RowAdded
  PROVE  /\ phase = "cells" /\ col > Cols /\ phase' \in {"program", "lines"}
         /\ UNCHANGED <<live, made, line, col, got, outcome>>
         /\ tab' \in Tab /\ tab'.magic = tab.magic /\ tab'.block = tab.block
         /\ tab'.data = tab.data /\ tab'.entries = tab.entries + 1
<1>1. /\ phase = "cells" /\ col > Cols /\ phase' \in {"program", "lines"}
      /\ UNCHANGED <<live, made, line, col, got, outcome>>
      /\ tab' = [tab EXCEPT !.entries = tab.entries + 1]
  BY DEF RowAdded, Adding
<1>2. tab \in Tab
  BY DEF IInv
<1>3. tab = [magic |-> tab.magic, entries |-> tab.entries, block |-> tab.block,
             data |-> tab.data]
  BY <1>2 DEF Tab
<1>4. tab' = [magic |-> tab.magic, entries |-> tab.entries + 1, block |-> tab.block,
              data |-> tab.data]
  BY <1>1, <1>3, Zenon
<1> QED
  BY <1>1, <1>2, <1>4 DEF Tab

LEMMA RowAddedInv == IInv /\ RowAdded => IInv'
<1> SUFFICES ASSUME IInv, RowAdded
             PROVE  IInv'
  OBVIOUS
<1>1. /\ phase = "cells" /\ col > Cols /\ phase' \in {"program", "lines"}
      /\ UNCHANGED <<live, made, line, col, outcome>>
      /\ tab' \in Tab /\ tab'.magic = tab.magic /\ tab'.block = tab.block
      /\ tab'.data = tab.data /\ tab'.entries = tab.entries + 1
  BY RowAddedEffect
<1>2. There
  BY <1>1 DEF IInv, FilledIsThere
<1>3. TypeOK'
  BY <1>1 DEF IInv, TypeOK
<1>4. RowsComplete'
  <2>1. \A c \in Column : c < col
    BY <1>1, TableAssumption DEF Column, IInv, TypeOK
  <2>2. \A c \in Column : tab.data[c].size = tab.entries + 1
    BY <1>1, <1>2, <2>1 DEF IInv, RowsComplete, There
  <2> QED
    BY <1>1, <2>2 DEF RowsComplete, IInv, TypeOK
<1> QED
  BY <1>1, <1>2, <1>3, <1>4
     DEF IInv, ColumnsOK, RowSoFar, FilledIsThere, NothingLost, There

LEMMA DestroyInv == IInv /\ Destroy => IInv'
<1> SUFFICES ASSUME IInv, Destroy
             PROVE  IInv'
  OBVIOUS
<1>1. phase = "program" /\ live' \subseteq live
      /\ UNCHANGED <<tab, made, phase, line, col, outcome>>
  BY DEF Destroy, Freed
<1> QED
  BY <1>1 DEF IInv, TypeOK, ColumnsOK, RowsComplete, RowSoFar, FilledIsThere, NothingLost

LEMMA NextKeepsInv == IInv /\ [Next]_tvars => IInv'
<1> SUFFICES ASSUME IInv, [Next]_tvars
             PROVE  IInv'
  OBVIOUS
<1>0. outcome \in {"running", "badLine", "illegal", "memory"}
  BY DEF IInv, TypeOK
<1>1. CASE Create
  BY <1>1, CreateInv
<1>2. CASE ReadComment
  BY <1>0, <1>2, FrameInv DEF ReadComment, tvars
<1>3. CASE ReadEnd
  BY <1>3, ReadEndInv
<1>4. ASSUME NEW l \in Line, NEW slash \in BOOLEAN, ReadLine(l, slash)
      PROVE  IInv'
  BY <1>4, ReadLineInv
<1>5. CASE AddCell
  BY <1>5, AddCellInv
<1>6. CASE AddNothing
  BY <1>6, FrameInv DEF AddNothing, Ends
<1>7. CASE AddWithoutMemory
  BY <1>7, FrameInv DEF AddWithoutMemory, Ends
<1>8. CASE RowAdded
  BY <1>8, RowAddedInv
<1>9. CASE GetNumEntries
  BY <1>0, <1>9, FrameInv DEF GetNumEntries
<1>10. ASSUME NEW c \in Column, NEW r \in 0..tab.entries, GetValue(r, c)
       PROVE  IInv'
  BY <1>0, <1>10, FrameInv DEF GetValue
<1>11. ASSUME NEW c \in 0..(Cols + 1), NEW r \in -1..tab.entries, GetNothing(r, c)
       PROVE  IInv'
  BY <1>11, FrameInv DEF GetNothing, Ends
<1>12. CASE PrintTable
  BY <1>0, <1>12, FrameInv DEF PrintTable
<1>13. CASE Destroy
  BY <1>13, DestroyInv
<1>14. CASE UNCHANGED tvars
  BY <1>0, <1>14, FrameInv DEF tvars
<1> QED
  BY <1>1, <1>2, <1>3, <1>4, <1>5, <1>6, <1>7, <1>8, <1>9, <1>10, <1>11, <1>12, <1>13, <1>14
     DEF Next

LEMMA SpecInv == Spec => []IInv
  BY InitInv, NextKeepsInv, PTL DEF Spec

-----------------------------------------------------------------------------
(* The variables of a table keep their types, whatever lines are read.     *)
THEOREM TableTyped == Spec => []TypeOK
<1>1. IInv => TypeOK
  BY DEF IInv
<1> QED
  BY <1>1, SpecInv, PTL

(* No row of a table ever lacks a value: whatever lines are read, for any  *)
(* number of columns, all columns are of the length of the table.          *)
THEOREM TableRowsComplete == Spec => []RowsComplete
<1>1. IInv => RowsComplete
  BY DEF IInv
<1> QED
  BY <1>1, SpecInv, PTL

(* Creating a table anew never leaves the memory of the old one behind.    *)
THEOREM TableNothingLost == Spec => []NothingLost
<1>1. IInv => NothingLost
  BY DEF IInv
<1> QED
  BY <1>1, SpecInv, PTL

-----------------------------------------------------------------------------
(* Refinement of TableRows *)

(* In terms of cells, rows are easier to follow from step to step. *)
CellRows(t) == [r \in 1..t.entries |-> [c \in Column |-> t.data[c].cells[r - 1]]]
FullRows(t) ==
  /\ t \in Tab
  /\ \A c \in Column : VecOK(t.data[c]) /\ t.entries <= t.data[c].size

LEMMA RowsAreCells ==
  ASSUME NEW t, FullRows(t)
  PROVE  RowsOf(t) = CellRows(t) /\ Len(RowsOf(t)) = t.entries
                                /\ DOMAIN RowsOf(t) = 1..t.entries
<1>1. ASSUME NEW c \in Column, NEW r \in 1..t.entries
      PROVE  EntriesOf(t.data[c])[r] = t.data[c].cells[r - 1]
  <2>1. /\ VecOK(t.data[c]) /\ t.entries <= t.data[c].size /\ t.entries \in Nat
    BY DEF FullRows, Tab
  <2>2. /\ t.data[c].size \in Nat /\ t.data[c].alloc \in Nat
        /\ t.data[c].size <= t.data[c].alloc
        /\ DOMAIN t.data[c].cells = 0..(t.data[c].alloc - 1)
    BY <2>1 DEF VecOK, Vec
  <2>3. r \in 1..t.data[c].size /\ r - 1 \in 0..(t.data[c].alloc - 1)
    BY <2>1, <2>2
  <2> QED
    BY <2>2, <2>3 DEF EntriesOf
<1>2. t.entries \in Nat
  BY DEF FullRows, Tab
<1>3. RowsOf(t) = CellRows(t)
  BY <1>1 DEF RowsOf, CellRows
<1> QED
  BY <1>2, <1>3 DEF RowsOf

TabFull == FullRows(tab)
LEMMA InvFull == IInv => TabFull
<1> SUFFICES ASSUME IInv, NEW c \in Column
             PROVE  tab.entries <= tab.data[c].size
  BY DEF TabFull, FullRows, IInv, ColumnsOK
<1>1. tab.entries \in Nat /\ tab.data[c].size \in Nat
  BY DEF IInv, Tab, ColumnsOK, VecOK, Vec
<1>2. CASE tab.magic
  BY <1>1, <1>2 DEF IInv, RowsComplete
<1>3. CASE ~tab.magic
  BY <1>1, <1>3 DEF IInv
<1> QED
  BY <1>2, <1>3

LEMMA InitRefines == Init => RowList!Init
  BY DEF Init, RowList!Init, There, NoTable

(* Adding a value changes no row that is complete. *)
LEMMA AddCellKeepsRows ==
  ASSUME IInv, IInv', AddCell
  PROVE  Rows' = Rows /\ There' = There
<1>1. /\ col \in Column /\ UNCHANGED live
      /\ tab'.magic = tab.magic /\ tab'.entries = tab.entries /\ tab'.block = tab.block
      /\ \A c \in Column : c # col => tab'.data[c] = tab.data[c]
  BY AddCellEffect
<1>2. \A n \in 0..(tab.data[col].size - 1) : tab'.data[col].cells[n] = tab.data[col].cells[n]
  BY AddCellEffect, VecAddOK
<1>3. FullRows(tab) /\ FullRows(tab')
  <2>1. TabFull /\ TabFull'
    BY InvFull, PTL
  <2> QED
    BY <2>1 DEF TabFull
<1>4. tab.entries \in Nat /\ tab.entries <= tab.data[col].size /\ tab.data[col].size \in Nat
  BY <1>1, <1>3 DEF FullRows, Tab, VecOK, Vec
<1>5. \A r \in 1..tab.entries : \A c \in Column :
        tab'.data[c].cells[r - 1] = tab.data[c].cells[r - 1]
  <2> SUFFICES ASSUME NEW r \in 1..tab.entries, NEW c \in Column
               PROVE  tab'.data[c].cells[r - 1] = tab.data[c].cells[r - 1]
    OBVIOUS
  <2>1. r - 1 \in 0..(tab.data[col].size - 1)
    BY <1>4
  <2> QED
    BY <1>1, <1>2, <2>1
<1>6. CellRows(tab') = CellRows(tab)
  BY <1>1, <1>5 DEF CellRows
<1> QED
  BY <1>1, <1>3, <1>6, RowsAreCells DEF Rows, There

(* A complete row is the row of its line. *)
LEMMA RowAddedAppends ==
  ASSUME IInv, IInv', RowAdded
  PROVE  /\ There /\ There' /\ (\A c \in Column : HasValue(line, c))
         /\ Rows' = Append(Rows, [c \in Column |-> ValueOf(line, c)])
<1>1. /\ phase = "cells" /\ col > Cols /\ UNCHANGED <<live, line>>
      /\ tab'.magic = tab.magic /\ tab'.block = tab.block
      /\ tab'.data = tab.data /\ tab'.entries = tab.entries + 1
  BY RowAddedEffect
<1>2. There /\ There'
  BY <1>1 DEF IInv, FilledIsThere, There
<1>3. \A c \in Column : HasValue(line, c) /\ tab.data[c].cells[tab.entries] = ValueOf(line, c)
  <2>1. \A c \in Column : c < col
    BY <1>1, TableAssumption DEF Column, IInv, TypeOK
  <2> QED
    BY <1>1, <2>1 DEF IInv, RowSoFar
<1>4. FullRows(tab) /\ FullRows(tab')
  <2>1. TabFull /\ TabFull'
    BY InvFull, PTL
  <2> QED
    BY <2>1 DEF TabFull
<1>5. tab.entries \in Nat
  BY DEF IInv, Tab
<1> DEFINE R == [c \in Column |-> ValueOf(line, c)]
<1>6. CellRows(tab') = [r \in 1..(tab.entries + 1) |-> [c \in Column |-> tab.data[c].cells[r - 1]]]
  BY <1>1 DEF CellRows
<1>7. [c \in Column |-> tab.data[c].cells[(tab.entries + 1) - 1]] = R
  BY <1>3, <1>5
<1>8. Append(CellRows(tab), R) =
        [r \in 1..(tab.entries + 1) |-> IF r = tab.entries + 1 THEN R ELSE CellRows(tab)[r]]
  BY <1>5 DEF CellRows
<1>9. \A r \in 1..(tab.entries + 1) :
        [c \in Column |-> tab.data[c].cells[r - 1]]
          = IF r = tab.entries + 1 THEN R ELSE CellRows(tab)[r]
  <2> TAKE r \in 1..(tab.entries + 1)
  <2>1. CASE r = tab.entries + 1
    BY <1>7, <2>1
  <2>2. CASE r # tab.entries + 1
    <3>1. r \in 1..tab.entries
      BY <1>5, <2>2
    <3> QED
      BY <2>2, <3>1 DEF CellRows
  <2> QED
    BY <2>1, <2>2
<1>10. CellRows(tab') = Append(CellRows(tab), R)
  BY <1>6, <1>8, <1>9
<1> QED
  BY <1>2, <1>3, <1>4, <1>10, RowsAreCells DEF Rows

LEMMA NextRefines == IInv /\ IInv' /\ [Next]_tvars => [RowList!Next]_(RowList!rvars)
<1> SUFFICES ASSUME IInv, IInv', [Next]_tvars
             PROVE  [RowList!Next]_(RowList!rvars)
  OBVIOUS
<1> DEFINE Mapped == IF There THEN Rows ELSE <<>>
           Same   == There' = There /\ Mapped' = Mapped
<1>0. UNCHANGED <<tab, live>> => Same
  BY DEF There, Rows
<1>1. CASE Create
  <2>1. tab' = [magic |-> TRUE, entries |-> 0, block |-> made',
                data |-> [c \in Column |-> VecInit(ColType[c])]]
    BY <1>1 DEF Create
  <2>2. There' /\ Rows' = <<>>
    BY <1>1, <2>1 DEF Create, There, Rows, RowsOf
  <2>3. RowList!Make
    BY <1>1, <2>2 DEF Create, RowList!Make
  <2> QED
    BY <1>1, <2>3 DEF Create, Running, RowList!Next, RowList!Step
<1>2. CASE ReadComment
  BY <1>0, <1>2 DEF ReadComment, tvars, RowList!rvars
<1>3. CASE ReadEnd
  BY <1>0, <1>3 DEF ReadEnd, RowList!rvars
<1>4. ASSUME NEW l \in Line, NEW slash \in BOOLEAN, ReadLine(l, slash)
      PROVE  RowList!Next
  <2>1. RowList!Read(l)
    BY <1>0, <1>4 DEF ReadLine, RowList!Read
  <2> QED
    BY <1>4, <2>1 DEF ReadLine, Reading, Running, RowList!Next, RowList!Step
<1>5. CASE AddCell
  <2>1. Same
    BY <1>5, AddCellKeepsRows
  <2> QED
    BY <1>5, <2>1 DEF AddCell, RowList!rvars
<1>6. CASE AddNothing
  <2>1. col \in Column /\ ~HasValue(line, col)
    BY <1>6, TableAssumption DEF AddNothing, Column, IInv, TypeOK
  <2>2. RowList!Ends("badLine")
    BY <1>0, <1>6 DEF AddNothing, Ends, RowList!Ends
  <2> QED
    BY <1>6, <2>1, <2>2 DEF AddNothing, Ends, Running, RowList!Next
<1>7. CASE AddWithoutMemory
  <2>1. There
    BY <1>7 DEF AddWithoutMemory, Adding, IInv, FilledIsThere
  <2>2. RowList!Ends("memory")
    BY <1>0, <1>7 DEF AddWithoutMemory, Ends, RowList!Ends
  <2> QED
    BY <1>7, <2>1, <2>2 DEF AddWithoutMemory, Ends, Running, RowList!Next
<1>8. CASE RowAdded
  <2>1. /\ There /\ There' /\ (\A c \in Column : HasValue(line, c))
        /\ Rows' = Append(Rows, [c \in Column |-> ValueOf(line, c)])
    BY <1>8, RowAddedAppends
  <2>2. RowList!AddRow
    BY <1>8, <2>1 DEF RowAdded, RowList!AddRow, RowList!RowOf
  <2> QED
    BY <1>8, <2>2 DEF RowAdded, Adding, Running, RowList!Next, RowList!Step
<1>9. CASE GetNumEntries
  <2>1. Len(Rows) = tab.entries
    BY InvFull, RowsAreCells DEF Rows, TabFull
  <2>2. got' = Len(Mapped)
    BY <1>9, <2>1 DEF GetNumEntries, Calling, There
  <2>3. RowList!Measure
    BY <1>0, <1>9, <2>2 DEF GetNumEntries, RowList!Measure
  <2> QED
    BY <1>9, <2>3 DEF GetNumEntries, Calling, Running, RowList!Next, RowList!Step
<1>10. ASSUME NEW c \in Column, NEW r \in 0..tab.entries, GetValue(r, c)
       PROVE  RowList!Next
  <2>1. /\ There /\ r < tab.entries /\ got' = tab.data[c].cells[r]
    BY <1>10 DEF GetValue, Calling
  <2>2. tab.entries \in Nat
    BY DEF IInv, Tab
  <2>3. r + 1 \in 1..tab.entries /\ (r + 1) - 1 = r
    BY <2>1, <2>2
  <2>4. Rows = CellRows(tab) /\ DOMAIN Rows = 1..tab.entries
    BY InvFull, RowsAreCells DEF Rows, TabFull
  <2>5. Rows[r + 1][c] = tab.data[c].cells[r]
    BY <2>3, <2>4 DEF CellRows
  <2>6. r + 1 \in DOMAIN Mapped /\ RowList!Take(r + 1, c)
    BY <1>0, <1>10, <2>1, <2>3, <2>4, <2>5 DEF GetValue, RowList!Take
  <2> QED
    BY <1>10, <2>6 DEF GetValue, Calling, Running, RowList!Next, RowList!Step
<1>11. ASSUME NEW c \in 0..(Cols + 1), NEW r \in -1..tab.entries, GetNothing(r, c)
       PROVE  RowList!Next
  <2>1. RowList!Ends("illegal")
    BY <1>0, <1>11 DEF GetNothing, Ends, RowList!Ends
  <2> QED
    BY <1>11, <2>1 DEF GetNothing, Ends, Running, RowList!Next
<1>12. CASE PrintTable
  BY <1>0, <1>12 DEF PrintTable, RowList!rvars
<1>13. CASE Destroy
  <2>1. ~There'
    BY <1>13 DEF Destroy, Freed, There
  <2>2. RowList!Clear
    BY <1>13, <2>1 DEF Destroy, RowList!Clear
  <2> QED
    BY <1>13, <2>2 DEF Destroy, Running, RowList!Next, RowList!Step
<1>14. CASE UNCHANGED tvars
  BY <1>0, <1>14 DEF tvars, RowList!rvars
<1> QED
  BY <1>1, <1>2, <1>3, <1>4, <1>5, <1>6, <1>7, <1>8, <1>9, <1>10, <1>11, <1>12, <1>13, <1>14
     DEF Next

(* The table implements the list of rows: every row the getters give the   *)
(* program is that of one line, converted column by column, whatever the   *)
(* number of columns and whatever lines come between.                      *)
THEOREM TableImplementsRows == Spec => ImplementsRows
  BY InitRefines, NextRefines, SpecInv, PTL DEF Spec, ImplementsRows, RowList!Spec
=============================================================================
