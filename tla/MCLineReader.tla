---------------------------- MODULE MCLineReader ----------------------------
(* Small files for TLC.  Only the last line of a file may lack its         *)
(* terminator.                                                             *)
EXTENDS LineReader, SequencesExt

Shapes(eols, sizes) ==
  {l \in [kind : Kind, cont : BOOLEAN, eol : eols, size : sizes] :
     LET rest == l.size - (IF l.cont THEN 1 ELSE 0)
     IN  rest >= (IF l.kind = "blank" THEN 0 ELSE 1) /\ Bytes(l) > 0}
Numbered(f) == [i \in DOMAIN f |-> [id |-> i, kind |-> f[i].kind,
                  cont |-> f[i].cont, eol |-> f[i].eol, size |-> f[i].size]]
FilesOf(shapes, n) ==
  {Numbered(f) : f \in {g \in BoundedSeq(shapes, n) :
                          \A i \in 1..(Len(g) - 1) : g[i].eol # "none"}}

(* Lines that fit, up to four *)
UnixFiles == FilesOf(Shapes({"lf"}, {2}), 4)
  \cup FilesOf(Shapes({"lf", "none"}, {2}), 3)

(* All terminators, lines from empty to three buffers long, and lines that *)
(* just fit after one another                                              *)
CutFiles == FilesOf(Shapes({"lf", "crlf", "none"}, {0, 1, 4, 10}), 2)
  \cup FilesOf(Shapes({"lf"}, {1, 3, 7}), 3)

(* A backslash before a carriage return is not seen by the code. *)
Seen(f) == \A i \in DOMAIN f : ~(f[i].cont /\ f[i].eol = "crlf")
AllFiles == {f \in UnixFiles \cup CutFiles : Seen(f)}

(* DOS files of text lines, which may be continued *)
DosFiles == FilesOf({l \in Shapes({"crlf"}, {2}) : l.kind = "text"}, 2)
=============================================================================
