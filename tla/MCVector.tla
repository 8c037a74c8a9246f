------------------------------ MODULE MCVector ------------------------------
(* Two types of entries, of one byte and of two. *)
EXTENDS Vector

Types == {"INT", "FLT"}
Sizes == [t \in Types |-> IF t = "INT" THEN 1 ELSE 2]
=============================================================================
