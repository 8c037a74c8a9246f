----------------------------- MODULE MCKeyLine -----------------------------
(* Lines for TLC: a letter, a digit and everything that separates; and     *)
(* comments and ending marks with spaces around them.                      *)
EXTENDS KeyLine

Lines(A, k) == UNION {[1..i -> A] : i \in 0..k}
Marks       == {<<"#">>, <<" ", "#", "1">>, <<"1", "#">>,
                <<"/">>, <<" ", "/", " ">>, <<"/", "K">>, <<"K", "/">>}

TwoLines ==
  <<Lines({"K", "1", " ", ":"}, 3) \cup Marks,
    Lines({"K", "1", " ", ":", "="}, 4) \cup Marks>>
OneLine  == <<Lines({"K", "1", " "}, 4)>>
Lowers   == [c \in {"K"} |-> "k"]
Slash    == <<"/">>
=============================================================================
