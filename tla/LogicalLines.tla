---------------------------- MODULE LogicalLines ----------------------------
(***************************************************************************)
(* What a keyword file means as a sequence of logical lines, told from the *)
(* whole file: a physical line ending in a backslash is continued by the   *)
(* next one, comment lines inside a continuation are skipped, a blank line *)
(* ends it, and a logical line that is blank or starts with a comment mark *)
(* is dropped.  A line too long for its reader may be found cut in two, at *)
(* any time before it is interpreted: each piece then is a line like any   *)
(* other, and may be cut again.  A line that is short enough never is.     *)
(*                                                                         *)
(* A physical line is a record: id, its place in the file; kind, "text",   *)
(* "comment" or "blank" for what it holds besides a final backslash; cont, *)
(* whether it ends in a backslash.                                         *)
(***************************************************************************)
EXTENDS Integers, Sequences, FiniteSets

CONSTANT
  Pieces(_)  \* the pairs of lines a line may be cut into, none if it is short

VARIABLES
  rest,  \* the physical lines not yet interpreted
  out    \* the logical lines found, each the ids of the lines joined

vars == <<rest, out>>

Empty(l) == l.kind = "blank" /\ ~l.cont

(* Line j of a file leaves the logical line begun by line 1 open. *)
Open(f, j) == f[j].cont \/ (j > 1 /\ f[j].kind = "comment")

(* The number of physical lines the first logical line takes. *)
Extent(f) ==
  CHOOSE n \in 1..Len(f) :
    /\ n = Len(f) \/ ~Open(f, n)
    /\ \A j \in 1..(n - 1) : Open(f, j)

(* Those of its lines that are joined, in their order: the first one, and  *)
(* what is neither a comment nor empty.                                    *)
Kept(f, n)    == {j \in 1..n : j = 1 \/ (f[j].kind # "comment" /\ ~Empty(f[j]))}
Nth(S, k)     == CHOOSE j \in S : Cardinality({h \in S : h <= j}) = k
InOrder(f, S) == [k \in 1..Cardinality(S) |-> f[Nth(S, k)]]
Joined(f)     == InOrder(f, Kept(f, Extent(f)))

(* A logical line that says nothing *)
Dropped(q) == q[1].kind = "comment" \/ \A i \in DOMAIN q : q[i].kind = "blank"

Ids(q) == [i \in DOMAIN q |-> q[i].id]

(* The file r with one of its lines cut *)
CutAt(r, i, p) == SubSeq(r, 1, i - 1) \o p \o SubSeq(r, i + 1, Len(r))
Cuttings(r)    == UNION {{CutAt(r, i, p) : p \in Pieces(r[i])} : i \in DOMAIN r}

Init == out = <<>>

(* The first logical line of r is interpreted. *)
Interpret(r) ==
  /\ r # <<>>
  /\ rest' = SubSeq(r, Extent(r) + 1, Len(r))
  /\ out' = IF Dropped(Joined(r)) THEN out ELSE Append(out, Ids(Joined(r)))

(* A cut may be found on the way, or with the line that ends it. *)
Next ==
  \/ Interpret(rest)
  \/ \E r \in Cuttings(rest) :
       \/ rest' = r /\ UNCHANGED out
       \/ Interpret(r)

Spec == Init /\ [][Next]_vars
=============================================================================
