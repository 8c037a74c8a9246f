----------------------------- MODULE MCRegistry -----------------------------
(* Spellings for TLC, in strcmp order: 1 "A", 2 "a", 3 "a ", 4 "b".  The   *)
(* padded spelling 3 is left out of the configurations that do not ask     *)
(* about it.                                                               *)
EXTENDS Registry

Padded   == 1..4
Plain    == {1, 2, 4}
LowerOf(names) == [n \in names |-> IF n = 1 THEN 2 ELSE n]
TrimOf(names)  == [n \in names |-> IF n = 3 THEN 2 ELSE n]

LowerPlain  == LowerOf(Plain)
TrimPlain   == TrimOf(Plain)
LowerPadded == LowerOf(Padded)
TrimPadded  == TrimOf(Padded)
=============================================================================
