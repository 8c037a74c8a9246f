------------------------------ MODULE MCTable ------------------------------
(* Two columns, and lines of up to three tokens.  A word is no number. *)
EXTENDS Table, SequencesExt

Types   == {"INT", "STR"}
Sizes   == [t \in Types |-> IF t = "INT" THEN 1 ELSE 2]
Columns == <<"INT", "STR">>
Tokens  == {"7", "word"}
Readings ==
  [INT |-> [x \in Tokens |-> IF x = "7" THEN 7 ELSE Bad],
   STR |-> [x \in Tokens |-> IF x = "7" THEN 70 ELSE 71]]
Lines == SeqOf(Tokens, 3)
=============================================================================
