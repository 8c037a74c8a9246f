----------------------------- MODULE LineReader -----------------------------
(***************************************************************************)
(* How scapar_sec_parse_from_fh reads one logical line: fgets into a       *)
(* buffer that grows, stripping of the line terminator, and the loop that  *)
(* appends the following physical lines while the buffer ends in a         *)
(* backslash.                                                              *)
(*                                                                         *)
(* A physical line is a record: id, kind and cont as in LogicalLines; size *)
(* is its number of bytes without the terminator, eol its terminator; a    *)
(* backslash occurs at the end of a line only.                             *)
(* fgets cuts a line that does not fit; what the rest of a cut line looks  *)
(* like is left open.                                                      *)
(***************************************************************************)
EXTENDS Integers, Sequences

CONSTANTS
  BufSize,   \* scapar->buf_size, set by scapar_set_max_line_length
  MinBuf,    \* scapar_parse's least line buffer (512 in the code)
  File       \* the files considered: sequences of physical lines

ASSUME ReaderAssumption ==
  /\ BufSize \in Nat /\ BufSize >= 2
  /\ MinBuf \in Nat /\ MinBuf >= 2

Kind == {"text", "comment", "blank"}
Eol  == {"lf", "crlf", "cr", "none"}
Line == [id : Nat, kind : Kind, cont : BOOLEAN, eol : Eol, size : Nat]

EolBytes(e) == CASE e = "none" -> 0 [] e = "crlf" -> 2 [] OTHER -> 1
Bytes(l)    == l.size + EolBytes(l.eol)

ASSUME FileAssumption ==
  \A f \in File : f \in Seq(Line) /\ \A i \in DOMAIN f : Bytes(f[i]) > 0

VARIABLES
  file,   \* what fgets has not returned yet
  pc,     \* "read" the next logical line, "assemble" it, or "done"
  len,    \* *len, the size of the line buffer
  buf,    \* the buffer: ps bytes, ending in cont and eol
  parts,  \* the physical lines joined in it
  taken,  \* those read for it, joined or not (for the refinement)
  out     \* the logical lines handed on, as ids

vars == <<file, pc, len, buf, parts, taken, out>>

NoBuf == [ps |-> 0, cont |-> FALSE, eol |-> "none"]

-----------------------------------------------------------------------------
(* fgets(s, n, fh): the chunk returned and the file afterwards. *)
Chunk(l, n) ==
  IF Bytes(l) < n THEN l
  ELSE [l EXCEPT !.size = IF n - 1 < l.size THEN n - 1 ELSE l.size,
                 !.cont = l.cont /\ n - 1 >= l.size,
                 !.eol  = IF n - 1 > l.size THEN "cr" ELSE "none"]

(* The possible kinds of what a cut leaves behind *)
TailKinds(l, size, cont) ==
  IF l.kind = "blank" \/ size = 0 \/ (size = 1 /\ cont) THEN {"blank"} ELSE Kind

Tails(l, n) ==
  LET c    == Chunk(l, n)
      cont == l.cont /\ ~c.cont
      size == l.size - c.size
  IN  IF c = l THEN {<<>>}
      ELSE {<<[l EXCEPT !.kind = k, !.cont = cont, !.size = size,
                        !.eol = IF c.eol = "cr" THEN "lf" ELSE l.eol]>> :
              k \in TailKinds(l, size, cont)}

Fgets(n) ==
  /\ file # <<>>
  /\ \E t \in Tails(Head(file), n) : file' = t \o Tail(file)

(* Lines 391-407: one terminator byte is removed, then the byte before the *)
(* byte before it is looked at, which is no terminator.  So the carriage   *)
(* return of a DOS line stays, and hides a backslash before it.  (In a     *)
(* line of two bytes the byte looked at lies before the buffer; malloc     *)
(* keeps no terminator there.)                                             *)
Strip(b) ==
  CASE b.eol \in {"lf", "cr"} -> [b EXCEPT !.ps = @ - 1, !.eol = "none"]
    [] b.eol = "crlf" -> [b EXCEPT !.ps = @ - 1, !.eol = "cr"]
    [] OTHER -> b

Continues(b) == b.eol = "none" /\ b.cont

(* Room for `need' bytes: the buffer grows by one BufSize at most. *)
Grown(need) == IF need >= len THEN len + BufSize ELSE len

(* scapar_check_if_discard on the assembled line *)
Discard(q) == q[1].kind = "comment" \/ \A i \in DOMAIN q : q[i].kind = "blank"

Deliver ==
  /\ pc' = "read"
  /\ buf' = NoBuf
  /\ parts' = <<>>
  /\ out' = IF Discard(parts) THEN out
            ELSE Append(out, [i \in DOMAIN parts |-> parts[i].id])

-----------------------------------------------------------------------------
(* The outer loop's fgets *)
ReadFirst ==
  /\ pc = "read"
  /\ Fgets(len)
  /\ LET c == Chunk(Head(file), len)
     IN  /\ buf' = [ps |-> Bytes(c), cont |-> c.cont, eol |-> c.eol]
         /\ parts' = <<c>>
         /\ taken' = <<c>>
  /\ pc' = "assemble"
  /\ UNCHANGED <<len, out>>

ReadEnd ==
  /\ pc = "read" /\ file = <<>>
  /\ pc' = "done"
  /\ UNCHANGED <<file, len, buf, parts, taken, out>>

(* No backslash: the logical line is complete. *)
EndLine ==
  /\ pc = "assemble"
  /\ ~Continues(Strip(buf))
  /\ Deliver
  /\ taken' = <<>>
  /\ UNCHANGED <<file, len>>

(* One more physical line, read into line2 *)
Line1Limit == len
Line2Limit == BufSize
Line2 == Chunk(Head(file), Line2Limit)
Continue ==
  /\ pc = "assemble"
  /\ Continues(Strip(buf))
  /\ Fgets(Line2Limit)

IsEmpty(l) == l.kind = "blank" /\ ~l.cont

(* A comment: the backslash is put back. *)
NotPutBack(b) == [Strip(b) EXCEPT !.cont = FALSE]
PutBack(b) == [Strip(b) EXCEPT !.ps = @ + 1]
ContinueComment ==
  /\ Continue
  /\ Line2.kind = "comment"
  /\ len' = Grown(Strip(buf).ps + 2)
  /\ buf' = PutBack(buf)
  /\ taken' = Append(taken, Line2)
  /\ UNCHANGED <<pc, parts, out>>

(* A blank line ends the continuation. *)
ContinueBlank ==
  /\ Continue
  /\ IsEmpty(Line2)
  /\ Deliver
  /\ taken' = <<>>
  /\ UNCHANGED len

ContinueText ==
  /\ Continue
  /\ Line2.kind # "comment" /\ ~IsEmpty(Line2)
  /\ len' = Grown(Strip(buf).ps + 1 + Bytes(Line2))
  /\ buf' = [ps |-> Strip(buf).ps + Bytes(Line2), cont |-> Line2.cont,
             eol |-> Line2.eol]
  /\ parts' = Append(parts, Line2)
  /\ taken' = Append(taken, Line2)
  /\ UNCHANGED <<pc, out>>

(* The file ends after a backslash, which a space has replaced. *)
KeepBackslash(b) == Strip(b)
CutTwice(b) == [Strip(b) EXCEPT !.cont = FALSE, !.ps = @ - 2]
Spaced(b) == [Strip(b) EXCEPT !.cont = FALSE]
ContinueEnd ==
  /\ pc = "assemble"
  /\ Continues(Strip(buf))
  /\ file = <<>>
  /\ buf' = Spaced(buf)
  /\ UNCHANGED <<file, pc, len, parts, taken, out>>

Finished == pc = "done" /\ UNCHANGED vars

-----------------------------------------------------------------------------
Init ==
  /\ file \in File
  /\ pc = "read"
  /\ len = (IF BufSize <= MinBuf THEN MinBuf ELSE BufSize) + 1
  /\ buf = NoBuf
  /\ parts = <<>> /\ taken = <<>> /\ out = <<>>

Next ==
  \/ ReadFirst \/ ReadEnd \/ EndLine
  \/ ContinueComment \/ ContinueText \/ ContinueBlank \/ ContinueEnd
  \/ Finished

Spec == Init /\ [][Next]_vars

(* The parser runs in the calling thread until the file is read. *)
FairSpec == Spec /\ WF_vars(Next)

-----------------------------------------------------------------------------
TypeOK ==
  /\ file \in Seq(Line) /\ taken \in Seq(Line) /\ parts \in Seq(Line)
  /\ pc \in {"read", "assemble", "done"}
  /\ len \in Nat
  /\ buf \in [ps : Nat, cont : BOOLEAN, eol : Eol]
  /\ out \in Seq(Seq(Nat))

(* strcat never writes past the line buffer: its bytes and the terminating *)
(* NUL fit, however short buf_size is and however lines are cut, because   *)
(* what is appended was read with a limit of buf_size.                     *)
BufferFits == buf.ps + 1 <= len

(* What fgets makes of a line of at least buf_size bytes, read with any    *)
(* limit from buf_size on                                                  *)
CutInTwo(l) ==
  UNION {{<<Chunk(l, n)>> \o t : t \in Tails(l, n)} : n \in BufSize..Bytes(l)}

(* The loop that assembles a line reads the file exactly as LogicalLines   *)
(* says: comments and blank lines inside a continuation, the end of the    *)
(* file after a backslash, and lines longer than the buffer, of which      *)
(* every piece counts as a line.  Lines shorter than buf_size are read     *)
(* whole, whatever surrounds them.                                         *)
Logical == INSTANCE LogicalLines WITH rest <- taken \o file, Pieces <- CutInTwo
ImplementsLogical == Logical!Spec

(* Every file is read to its end.                                          *)
Terminates == <>(pc = "done")
=============================================================================
