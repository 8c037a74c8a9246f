-------------------------- MODULE LineReaderProofs --------------------------
(***************************************************************************)
(* Theorems about the line reader, for any buffer size and any file: what  *)
(* strcat appends always fits, although the buffer grows by a fixed step   *)
(* and only once; and the loop that joins physical lines, those cut by     *)
(* fgets included, implements LogicalLines.                                *)
(***************************************************************************)
EXTENDS LineReader, FiniteSetTheorems, SequenceTheorems, WellFoundedInduction, TLAPS

(* The terminator is part of the bytes in the buffer. *)
TerminatorCounted == buf.ps >= EolBytes(buf.eol)

(* fgets can always return a character. *)
RoomToRead == len >= 2

IInv == TypeOK /\ TerminatorCounted /\ RoomToRead /\ BufferFits

(* A terminator has at most two bytes, none of them negative. *)
LEMMA EolBytesFacts ==
  ASSUME NEW e \in Eol
  PROVE  EolBytes(e) \in Nat
BY DEF EolBytes, Eol

(* fgets returns at most n - 1 bytes, and no terminator it has not read. *)
LEMMA ChunkFacts ==
  ASSUME NEW l \in Line, NEW n \in Nat, n >= 2
  PROVE  /\ Chunk(l, n) \in Line
         /\ Bytes(Chunk(l, n)) \in Nat
         /\ Bytes(Chunk(l, n)) <= n - 1
         /\ Bytes(Chunk(l, n)) >= EolBytes(Chunk(l, n).eol)
         /\ Chunk(l, n).size <= l.size
<1>1. CASE Bytes(l) < n
  <2>1. Chunk(l, n) = l
    BY <1>1 DEF Chunk
  <2>2. l.size \in Nat /\ EolBytes(l.eol) \in Nat
    BY EolBytesFacts DEF Line
  <2> QED BY <1>1, <2>1, <2>2 DEF Bytes
<1>2. CASE ~(Bytes(l) < n)
  <2> DEFINE m == IF n - 1 < l.size THEN n - 1 ELSE l.size
             b == l.cont /\ n - 1 >= l.size
             e == IF n - 1 > l.size THEN "cr" ELSE "none"
  <2>1. l.size \in Nat
    BY DEF Line
  <2>2. m \in Nat /\ m <= n - 1 /\ m <= l.size
    BY <2>1
  <2>3. e \in Eol /\ m + EolBytes(e) <= n - 1 /\ EolBytes(e) \in Nat
    BY <2>1 DEF Eol, EolBytes
  <2>4. b \in BOOLEAN
    OBVIOUS
  <2>5. Chunk(l, n) = [l EXCEPT !.size = m, !.cont = b, !.eol = e]
    BY <1>2 DEF Chunk
  <2> HIDE DEF m, b, e
  <2>6. Chunk(l, n) \in Line /\ Chunk(l, n).size = m /\ Chunk(l, n).eol = e
    BY <2>2, <2>3, <2>4, <2>5 DEF Line
  <2> QED BY <2>2, <2>3, <2>6 DEF Bytes
<1> QED BY <1>1, <1>2

(* What fgets leaves of a line is nothing or a line again. *)
LEMMA TailsFacts ==
  ASSUME NEW l \in Line, NEW n \in Nat, n >= 2, NEW t \in Tails(l, n)
  PROVE  t \in Seq(Line)
<1> DEFINE c    == Chunk(l, n)
           cont == l.cont /\ ~c.cont
           size == l.size - c.size
<1>1. c \in Line /\ c.size <= l.size
  BY ChunkFacts
<1>2. CASE c = l
  BY <1>2 DEF Tails
<1>3. CASE c # l
  <2>1. PICK k \in TailKinds(l, size, cont) :
          t = <<[l EXCEPT !.kind = k, !.cont = cont, !.size = size,
                          !.eol = IF c.eol = "cr" THEN "lf" ELSE l.eol]>>
    BY <1>3 DEF Tails
  <2>2. k \in Kind
    BY <2>1 DEF TailKinds, Kind
  <2>3. cont \in BOOLEAN /\ size \in Nat
    <3> HIDE DEF c
    <3>1. l.size \in Nat /\ c.size \in Nat
      BY <1>1 DEF Line
    <3> QED BY <1>1, <3>1
  <2>4. (IF c.eol = "cr" THEN "lf" ELSE l.eol) \in Eol
    BY DEF Line, Eol
  <2> DEFINE e == IF c.eol = "cr" THEN "lf" ELSE l.eol
             d == [l EXCEPT !.kind = k]
  <2>5. d \in Line
    BY <2>2 DEF Line
  <2>6. t = <<[d EXCEPT !.cont = cont, !.size = size, !.eol = e]>>
    BY <2>1
  <2>7. [d EXCEPT !.size = size, !.cont = cont, !.eol = e]
          = [d EXCEPT !.cont = cont, !.size = size, !.eol = e]
    OBVIOUS
  <2> HIDE DEF c, cont, size, d, e
  <2>8. [d EXCEPT !.size = size, !.cont = cont, !.eol = e] \in Line
    BY <2>3, <2>4, <2>5 DEF Line, e
  <2> QED BY <2>6, <2>7, <2>8
<1> QED BY <1>2, <1>3

(* The part of the invariant that constrains the buffer. *)
Buffer     == [ps : Nat, cont : BOOLEAN, eol : Eol]
BufferType == buf \in Buffer /\ TerminatorCounted

(* Stripping never adds bytes, and counts the terminator it leaves. *)
LEMMA StripFacts ==
  ASSUME BufferType
  PROVE  /\ Strip(buf) \in Buffer
         /\ Strip(buf).ps <= buf.ps
         /\ Strip(buf).ps >= EolBytes(Strip(buf).eol)
<1>1. buf \in Buffer /\ buf.ps >= EolBytes(buf.eol) /\ buf.ps \in Nat
  BY DEF BufferType, TerminatorCounted, Buffer
<1>2. "none" \in Eol /\ "cr" \in Eol
  BY DEF Eol
<1>3. CASE buf.eol \in {"lf", "cr"}
  <2>1. Strip(buf) = [buf EXCEPT !.ps = buf.ps - 1, !.eol = "none"]
    BY <1>3 DEF Strip
  <2>2. buf.ps - 1 \in Nat
    BY <1>1, <1>3 DEF EolBytes
  <2>3. Strip(buf) \in Buffer /\ Strip(buf).ps = buf.ps - 1 /\ Strip(buf).eol = "none"
    BY <1>1, <1>2, <2>1, <2>2 DEF Buffer
  <2> QED BY <1>1, <2>2, <2>3 DEF EolBytes
<1>4. CASE buf.eol = "crlf"
  <2>1. Strip(buf) = [buf EXCEPT !.ps = buf.ps - 1, !.eol = "cr"]
    BY <1>4 DEF Strip
  <2>2. buf.ps - 1 \in Nat /\ buf.ps - 1 >= 1
    BY <1>1, <1>4 DEF EolBytes
  <2>3. Strip(buf) \in Buffer /\ Strip(buf).ps = buf.ps - 1 /\ Strip(buf).eol = "cr"
    BY <1>1, <1>2, <2>1, <2>2 DEF Buffer
  <2> QED BY <1>1, <2>2, <2>3 DEF EolBytes
<1>5. CASE buf.eol = "none"
  <2>1. Strip(buf) = buf
    BY <1>5 DEF Strip
  <2> QED BY <1>1, <2>1
<1> QED BY <1>1, <1>3, <1>4, <1>5 DEF Buffer, Eol

(* A delivered line is a sequence of line numbers. *)
LEMMA DeliverTyped ==
  ASSUME TypeOK, Deliver
  PROVE  /\ pc' = "read" /\ buf' = NoBuf /\ parts' \in Seq(Line)
         /\ out' \in Seq(Seq(Nat))
<1>1. [i \in DOMAIN parts |-> parts[i].id] \in Seq(Nat)
  <2>1. parts \in Seq(Line)
    BY DEF TypeOK
  <2>2. \A i \in DOMAIN parts : parts[i] \in Line
    BY <2>1
  <2>3. \A i \in DOMAIN parts : parts[i].id \in Nat
    BY <2>2 DEF Line
  <2> QED BY <2>1, <2>3
<1> QED BY <1>1 DEF TypeOK, Deliver

(* The buffer between two logical lines *)
LEMMA NoBufFacts ==
  /\ NoBuf \in Buffer
  /\ NoBuf.ps = 0 /\ NoBuf.eol = "none"
BY DEF NoBuf, Buffer, Eol

(* fgets leaves a file of lines. *)
LEMMA FgetsTyped ==
  ASSUME TypeOK, NEW n \in Nat, n >= 2, Fgets(n)
  PROVE  file' \in Seq(Line) /\ Head(file) \in Line
<1>1. Head(file) \in Line /\ Tail(file) \in Seq(Line)
  BY DEF TypeOK, Fgets
<1>2. PICK t \in Tails(Head(file), n) : file' = t \o Tail(file)
  BY DEF Fgets
<1>3. t \in Seq(Line)
  BY <1>1, <1>2, TailsFacts
<1> QED BY <1>1, <1>2, <1>3
(* scapar_parse allocates the buffer before the first line is read. *)
LEMMA InitInv == Init => IInv
<1> SUFFICES ASSUME Init PROVE IInv
  OBVIOUS
<1>1. file \in Seq(Line)
  BY FileAssumption DEF Init
<1>2. len \in Nat /\ len >= 2
  BY ReaderAssumption DEF Init
<1>3. buf \in Buffer /\ buf.ps = 0 /\ buf.eol = "none"
  BY NoBufFacts DEF Init
<1> QED BY <1>1, <1>2, <1>3
        DEF Init, IInv, TypeOK, TerminatorCounted, RoomToRead, BufferFits,
            EolBytes, Buffer

(* What a step has to establish, part by part *)
LEMMA InvParts ==
  ASSUME file' \in Seq(Line), taken' \in Seq(Line), parts' \in Seq(Line),
         pc' \in {"read", "assemble", "done"},
         len' \in Nat, len' >= 2, buf' \in Buffer, out' \in Seq(Seq(Nat)),
         buf'.ps >= EolBytes(buf'.eol), buf'.ps + 1 <= len'
  PROVE  IInv'
BY DEF IInv, TypeOK, TerminatorCounted, RoomToRead, BufferFits, Buffer

(* Every step of the loop preserves the invariant. *)
LEMMA NextKeepsInv == IInv /\ [Next]_vars => IInv'
<1> SUFFICES ASSUME IInv, [Next]_vars PROVE IInv'
  OBVIOUS
<1>1. /\ TypeOK /\ BufferType /\ BufferFits /\ len \in Nat /\ len >= 2
      /\ BufSize \in Nat /\ BufSize >= 2
  BY ReaderAssumption DEF IInv, TypeOK, RoomToRead, BufferType, Buffer
<1>2. /\ file \in Seq(Line) /\ taken \in Seq(Line) /\ parts \in Seq(Line)
      /\ out \in Seq(Seq(Nat)) /\ buf \in Buffer
      /\ pc \in {"read", "assemble", "done"}
  BY <1>1 DEF TypeOK, Buffer
<1> DEFINE b == Strip(buf)
<1>3. /\ b \in Buffer /\ b.ps \in Nat /\ b.ps >= EolBytes(b.eol)
      /\ b.ps + 1 <= len
  <2>1. b \in Buffer /\ b.ps <= buf.ps /\ b.ps >= EolBytes(b.eol)
    BY <1>1, StripFacts
  <2>2. b.ps \in Nat /\ buf.ps \in Nat
    BY <1>2, <2>1 DEF Buffer
  <2> QED BY <1>1, <2>1, <2>2 DEF BufferFits
<1>4. CASE ReadFirst
  <2> DEFINE c == Chunk(Head(file), len)
  <2>1. /\ buf' = [ps |-> Bytes(c), cont |-> c.cont, eol |-> c.eol]
        /\ parts' = <<c>> /\ taken' = <<c>> /\ pc' = "assemble"
        /\ len' = len /\ out' = out /\ Fgets(len)
    BY <1>4 DEF ReadFirst
  <2>2. file' \in Seq(Line) /\ Head(file) \in Line
    BY <1>1, <2>1, FgetsTyped
  <2>3. c \in Line /\ Bytes(c) \in Nat /\ Bytes(c) <= len - 1
        /\ Bytes(c) >= EolBytes(c.eol)
    BY <1>1, <2>2, ChunkFacts
  <2> HIDE DEF c
  <2>4. buf' \in Buffer /\ buf'.ps = Bytes(c) /\ buf'.eol = c.eol
    BY <2>1, <2>3 DEF Buffer, Line
  <2>5. parts' \in Seq(Line) /\ taken' \in Seq(Line)
    BY <2>1, <2>3
  <2>6. buf'.ps + 1 <= len'
    BY <1>1, <2>1, <2>3, <2>4
  <2> QED BY <1>1, <1>2, <2>1, <2>2, <2>3, <2>4, <2>5, <2>6, InvParts
<1>5. CASE ReadEnd
  BY <1>1, <1>2, <1>5, InvParts
     DEF ReadEnd, BufferType, TerminatorCounted, BufferFits
<1>6. CASE EndLine
  <2>1. Deliver /\ taken' = <<>> /\ file' = file /\ len' = len
    BY <1>6 DEF EndLine
  <2>2. EolBytes("none") = 0
    BY DEF EolBytes
  <2> QED BY <1>1, <1>2, <2>1, <2>2, DeliverTyped, NoBufFacts, InvParts
<1>7. ASSUME Continue
      PROVE  /\ file' \in Seq(Line) /\ Line2 \in Line
             /\ Bytes(Line2) \in Nat /\ Bytes(Line2) <= BufSize - 1
             /\ Bytes(Line2) >= EolBytes(Line2.eol)
             /\ b.eol = "none" /\ pc = "assemble"
  <2>1. Fgets(BufSize) /\ b.eol = "none" /\ pc = "assemble"
    BY <1>7 DEF Continue, Line2Limit, Continues
  <2>2. file' \in Seq(Line) /\ Head(file) \in Line
    BY <1>1, <2>1, FgetsTyped
  <2> QED BY <1>1, <2>1, <2>2, ChunkFacts DEF Line2, Line2Limit
<1>8. ASSUME NEW need \in Nat
      PROVE  /\ Grown(need) \in Nat /\ Grown(need) >= len
             /\ need < Grown(need) \/ Grown(need) = len + BufSize
  BY <1>1 DEF Grown
<1>9. CASE ContinueComment
  <2>1. /\ Continue /\ len' = Grown(b.ps + 2)
        /\ buf' = [b EXCEPT !.ps = b.ps + 1] /\ taken' = Append(taken, Line2)
        /\ pc' = pc /\ parts' = parts /\ out' = out
    BY <1>9 DEF ContinueComment, PutBack
  <2> HIDE DEF b
  <2>2. buf' \in Buffer /\ buf'.ps = b.ps + 1 /\ buf'.eol = b.eol
    BY <1>3, <2>1 DEF Buffer
  <2>3. EolBytes(b.eol) = 0
    BY <1>7, <2>1 DEF EolBytes
  <2>4. len' \in Nat /\ len' >= len /\ buf'.ps + 1 <= len'
    BY <1>1, <1>3, <1>8, <2>1, <2>2
  <2>5. taken' \in Seq(Line)
    BY <1>2, <1>7, <2>1
  <2>6. buf'.ps >= EolBytes(buf'.eol)
    BY <1>3, <2>2, <2>3
  <2> QED BY <1>1, <1>2, <1>7, <2>1, <2>2, <2>4, <2>5, <2>6, InvParts
<1>10. CASE ContinueText
  <2>1. /\ Continue /\ len' = Grown(b.ps + 1 + Bytes(Line2))
        /\ buf' = [ps |-> b.ps + Bytes(Line2), cont |-> Line2.cont,
                   eol |-> Line2.eol]
        /\ parts' = Append(parts, Line2) /\ taken' = Append(taken, Line2)
        /\ pc' = pc /\ out' = out
    BY <1>10 DEF ContinueText
  <2> HIDE DEF b
  <2>2. /\ buf' \in Buffer /\ buf'.ps = b.ps + Bytes(Line2)
        /\ buf'.eol = Line2.eol
    BY <1>3, <1>7, <2>1 DEF Buffer, Line
  <2>3. len' \in Nat /\ len' >= len /\ buf'.ps + 1 <= len'
    <3> DEFINE need == b.ps + 1 + Bytes(Line2)
    <3>1. need \in Nat /\ len' = Grown(need) /\ buf'.ps + 1 = need
      BY <1>3, <1>7, <2>1, <2>2
    <3>2. need <= len + BufSize
      BY <1>1, <1>3, <1>7, <2>1
    <3> HIDE DEF need
    <3> QED BY <1>1, <1>8, <3>1, <3>2
  <2>4. taken' \in Seq(Line) /\ parts' \in Seq(Line)
    BY <1>2, <1>7, <2>1
  <2>5. buf'.ps >= EolBytes(buf'.eol)
    <3>1. EolBytes(Line2.eol) \in Nat
      BY <1>7, <2>1, EolBytesFacts DEF Line
    <3> QED BY <1>3, <1>7, <2>1, <2>2, <3>1
  <2> QED BY <1>1, <1>2, <1>7, <2>1, <2>2, <2>3, <2>4, <2>5, InvParts
<1>11. CASE ContinueBlank
  <2>1. Continue /\ Deliver /\ taken' = <<>> /\ len' = len
    BY <1>11 DEF ContinueBlank
  <2>2. EolBytes("none") = 0
    BY DEF EolBytes
  <2> QED BY <1>1, <1>2, <1>7, <2>1, <2>2, DeliverTyped, NoBufFacts, InvParts
<1>12. CASE ContinueEnd
  <2>1. /\ buf' = [b EXCEPT !.cont = FALSE]
        /\ UNCHANGED <<file, pc, len, parts, taken, out>>
    BY <1>12 DEF ContinueEnd, Spaced
  <2> HIDE DEF b
  <2>2. buf' \in Buffer /\ buf'.ps = b.ps /\ buf'.eol = b.eol
    BY <1>3, <2>1 DEF Buffer
  <2> QED BY <1>1, <1>2, <1>3, <2>1, <2>2, InvParts
<1>13. CASE UNCHANGED vars
  BY <1>1, <1>2, <1>13, InvParts
     DEF vars, BufferType, TerminatorCounted, BufferFits
<1> QED BY <1>4, <1>5, <1>6, <1>9, <1>10, <1>11, <1>12, <1>13
        DEF Next, Finished

(* The invariant holds in every reachable state. *)
LEMMA SpecInv == Spec => []IInv
BY InitInv, NextKeepsInv, PTL DEF Spec

(* Whatever the file, the reader's variables keep their types: no length   *)
(* ever becomes negative.                                                  *)
THEOREM ReaderTyped == Spec => []TypeOK
<1>1. IInv => TypeOK
  BY DEF IInv
<1> QED BY <1>1, SpecInv, PTL

(* Whatever the file and whatever buf_size, strcat stays in the buffer.    *)
THEOREM ReaderBufferFits == Spec => []BufferFits
<1>1. IInv => BufferFits
  BY DEF IInv
<1> QED BY <1>1, SpecInv, PTL

-----------------------------------------------------------------------------
(* Logical lines: the places of a sequence that are kept *)

(* Sets of numbers have a least element: the way to argue by induction. *)
LEMMA LeastNumber ==
  ASSUME NEW T \in SUBSET Nat, T # {}
  PROVE  \E x \in T : \A y \in T : x <= y
<1> DEFINE R == {p \in Nat \X Nat : p[1] < p[2]}
<1>1. R = OpToRel(<, Nat)
  BY DEF OpToRel
<1>2. IsWellFoundedOn(R, Nat)
  BY <1>1, NatLessThanWellFounded
<1>3. PICK x \in T : \A y \in T : <<y, x>> \notin R
  <2> HIDE DEF R
  <2> QED BY <1>2, WFMin
<1>4. \A y \in T : x \in Nat /\ y \in Nat /\ ~(y < x)
  <2> TAKE y \in T
  <2>1. <<y, x>> \in Nat \X Nat
    OBVIOUS
  <2> QED BY <1>3, <2>1
<1> QED BY <1>3, <1>4

(* Cardinality as LogicalLines has it *)
LEMMA SameCardinality ==
  ASSUME NEW S
  PROVE  Logical!Cardinality(S) = Cardinality(S)
BY DEF Logical!Cardinality, Cardinality, Logical!IsFiniteSet, IsFiniteSet

(* The elements of S up to m: one more at most for each number. *)
UpTo(S, m) == {h \in S : h <= m}

LEMMA PlacesFinite ==
  ASSUME NEW n \in Nat, NEW S, S \subseteq 1..n
  PROVE  IsFiniteSet(S) /\ Cardinality(S) \in Nat
<1>1. IsFiniteSet(1..n)
  BY FS_Interval
<1> QED BY <1>1, FS_Subset, FS_CardinalityType

LEMMA UpToFacts ==
  ASSUME NEW n \in Nat, NEW S, S \subseteq 1..n
  PROVE  /\ UpTo(S, n) = S /\ UpTo(S, 0) = {}
         /\ \A m \in Nat :
              /\ Cardinality(UpTo(S, m)) \in Nat
              /\ m + 1 \notin S => UpTo(S, m + 1) = UpTo(S, m)
              /\ Cardinality(UpTo(S, m + 1)) <= Cardinality(UpTo(S, m)) + 1
<1>1. \A x \in S : x \in Nat /\ x <= n /\ ~(x <= 0)
  OBVIOUS
<1>2. UpTo(S, n) = S /\ UpTo(S, 0) = {}
  BY <1>1 DEF UpTo
<1>3. ASSUME NEW m \in Nat
      PROVE  /\ Cardinality(UpTo(S, m)) \in Nat
             /\ m + 1 \notin S => UpTo(S, m + 1) = UpTo(S, m)
             /\ Cardinality(UpTo(S, m + 1)) <= Cardinality(UpTo(S, m)) + 1
  <2>1. IsFiniteSet(UpTo(S, m)) /\ Cardinality(UpTo(S, m)) \in Nat
    <3>1. UpTo(S, m) \subseteq 1..n
      BY DEF UpTo
    <3> QED BY <3>1, PlacesFinite
  <2>2. \A x \in S : x <= m + 1 <=> x <= m \/ x = m + 1
    BY <1>1
  <2>3. \A x : x \in UpTo(S, m + 1) <=> x \in UpTo(S, m) \/ (x \in S /\ x = m + 1)
    BY <2>2 DEF UpTo
  <2>4. CASE m + 1 \in S
    <3>1. UpTo(S, m + 1) = UpTo(S, m) \cup {m + 1}
      BY <2>3, <2>4
    <3>2. Cardinality(UpTo(S, m) \cup {m + 1}) \in {Cardinality(UpTo(S, m)), Cardinality(UpTo(S, m)) + 1}
      BY <2>1, FS_AddElement
    <3> QED BY <2>1, <2>4, <3>1, <3>2
  <2>5. CASE m + 1 \notin S
    <3>1. UpTo(S, m + 1) = UpTo(S, m)
      BY <2>3, <2>5
    <3> QED BY <2>1, <2>5, <3>1
  <2> QED BY <2>4, <2>5
<1> QED BY <1>2, <1>3

LEMMA NthFacts ==
  ASSUME NEW n \in Nat, NEW S, S \subseteq 1..n, NEW k \in 1..Cardinality(S)
  PROVE  Logical!Nth(S, k) \in S
<1> DEFINE T == {m \in Nat : Cardinality(UpTo(S, m)) >= k}
<1>0. k \in Nat /\ k >= 1 /\ k <= Cardinality(S)
  BY PlacesFinite
<1>1. T \in SUBSET Nat /\ T # {}
  <2>1. n \in T
    BY <1>0, UpToFacts, PlacesFinite
  <2> QED BY <2>1
<1>2. PICK m \in T : \A y \in T : m <= y
  <2> HIDE DEF T
  <2> QED BY <1>1, LeastNumber
<1>3. m \in Nat /\ m >= 1 /\ Cardinality(UpTo(S, m)) >= k
  <2>1. Cardinality(UpTo(S, 0)) = 0
    BY UpToFacts, FS_EmptySet
  <2> QED BY <1>0, <1>2, <2>1
<1>4. PICK l \in Nat : m = l + 1
  <2>1. m - 1 \in Nat /\ m = (m - 1) + 1
    BY <1>3
  <2> QED BY <2>1
<1>5. ~(Cardinality(UpTo(S, l)) >= k)
  BY <1>2, <1>4
<1>6. m \in S /\ Cardinality(UpTo(S, m)) = k
  <2>1. /\ Cardinality(UpTo(S, l)) \in Nat /\ Cardinality(UpTo(S, m)) \in Nat
        /\ m \notin S => UpTo(S, m) = UpTo(S, l)
        /\ Cardinality(UpTo(S, m)) <= Cardinality(UpTo(S, l)) + 1
    <3>1. /\ Cardinality(UpTo(S, l)) \in Nat
          /\ l + 1 \notin S => UpTo(S, l + 1) = UpTo(S, l)
          /\ Cardinality(UpTo(S, l + 1)) <= Cardinality(UpTo(S, l)) + 1
      BY UpToFacts
    <3>2. Cardinality(UpTo(S, m)) \in Nat
      BY <1>3, UpToFacts
    <3> QED BY <1>4, <3>1, <3>2
  <2> QED BY <1>0, <1>3, <1>5, <2>1
<1> QED BY <1>6, SameCardinality DEF Logical!Nth, UpTo

(* One more place, behind the others *)
LEMMA NthAppend ==
  ASSUME NEW n \in Nat, NEW S, S \subseteq 1..n
  PROVE  /\ Cardinality(S \cup {n + 1}) = Cardinality(S) + 1
         /\ \A k \in 1..Cardinality(S) : Logical!Nth(S \cup {n + 1}, k) = Logical!Nth(S, k)
         /\ Logical!Nth(S \cup {n + 1}, Cardinality(S) + 1) = n + 1
<1> DEFINE U == S \cup {n + 1}
<1>1. IsFiniteSet(S) /\ Cardinality(S) \in Nat /\ n + 1 \notin S
  <2>1. n + 1 \notin 1..n
    OBVIOUS
  <2> QED BY <2>1, PlacesFinite
<1>2. Cardinality(U) = Cardinality(S) + 1
  BY <1>1, FS_AddElement
<1>3. \A x \in S : x \in Nat /\ x <= n /\ x <= n + 1 /\ ~(n + 1 <= x)
  OBVIOUS
<1>4. ASSUME NEW j \in S
      PROVE  {h \in U : h <= j} = {h \in S : h <= j}
  BY <1>3
<1>5. {h \in U : h <= n + 1} = U
  <2>1. \A x \in U : x <= n + 1
    BY <1>3
  <2> QED BY <2>1
<1>6. ASSUME NEW j \in S
      PROVE  Cardinality({h \in S : h <= j}) # Cardinality(S) + 1
  <2>1. {h \in S : h <= j} \in SUBSET S
    OBVIOUS
  <2>2. Cardinality({h \in S : h <= j}) <= Cardinality(S) /\ Cardinality({h \in S : h <= j}) \in Nat
    BY <1>1, <2>1, FS_Subset, FS_CardinalityType
  <2> QED BY <1>1, <2>2
<1>7. ASSUME NEW k \in 1..Cardinality(S)
      PROVE  Logical!Nth(U, k) = Logical!Nth(S, k)
  <2>0. k # Cardinality(S) + 1
    BY <1>1
  <2>1. \A j : (j \in U /\ Cardinality({h \in U : h <= j}) = k)
                 <=> (j \in S /\ Cardinality({h \in S : h <= j}) = k)
    BY <1>2, <1>4, <1>5, <2>0
  <2> HIDE DEF U
  <2> QED BY <2>1, SameCardinality DEF Logical!Nth
<1>8. Logical!Nth(U, Cardinality(S) + 1) = n + 1
  <2>1. \A j \in U : Cardinality({h \in U : h <= j}) = Cardinality(S) + 1 <=> j = n + 1
    BY <1>2, <1>4, <1>5, <1>6
  <2>2. n + 1 \in U
    OBVIOUS
  <2> HIDE DEF U
  <2> QED BY <2>1, <2>2, SameCardinality DEF Logical!Nth
<1> QED BY <1>2, <1>7, <1>8

LEMMA InOrderFacts ==
  ASSUME NEW n \in Nat, NEW S, S \subseteq 1..n, NEW f, NEW g,
         \A j \in 1..n : f[j] \in Line /\ g[j] = f[j]
  PROVE  /\ Logical!InOrder(f, S) \in Seq(Line)
         /\ Logical!InOrder(g, S) = Logical!InOrder(f, S)
<1>1. Cardinality(S) \in Nat
  BY PlacesFinite
<1> DEFINE c == Cardinality(S)
           q == [k \in 1..c |-> f[Logical!Nth(S, k)]]
<1>2. \A k \in 1..c : f[Logical!Nth(S, k)] \in Line /\ g[Logical!Nth(S, k)] = f[Logical!Nth(S, k)]
  BY NthFacts
<1>3. Logical!InOrder(f, S) = q
  BY SameCardinality DEF Logical!InOrder
<1>4. q \in Seq(Line) /\ Len(q) = c
  <2> HIDE DEF c
  <2> QED BY <1>1, <1>2 DEF c
<1>5. Logical!InOrder(g, S) = q
  <2>1. Logical!InOrder(g, S) = [k \in 1..c |-> g[Logical!Nth(S, k)]]
    BY SameCardinality DEF Logical!InOrder
  <2> QED BY <1>2, <2>1
<1> QED BY <1>3, <1>4, <1>5

LEMMA InOrderAppend ==
  ASSUME NEW n \in Nat, NEW S, S \subseteq 1..n, NEW f,
         NEW U, f[n + 1] \in Line, \A j \in 1..n : f[j] \in Line,
         \A x : x \in U <=> x \in S \/ x = n + 1
  PROVE  Logical!InOrder(f, U) = Append(Logical!InOrder(f, S), f[n + 1])
<1> DEFINE l == f[n + 1]
           c == Cardinality(S)
           q == [k \in 1..c |-> f[Logical!Nth(S, k)]]
<1>0. U = S \cup {n + 1}
  OBVIOUS
<1>1. c \in Nat
  BY PlacesFinite
<1>2. Logical!InOrder(f, S) = q
  BY SameCardinality DEF Logical!InOrder
<1>3. q \in Seq(Line) /\ Len(q) = c
  <2>1. \A k \in 1..c : f[Logical!Nth(S, k)] \in Line
    BY NthFacts
  <2> HIDE DEF c
  <2> QED BY <1>1, <2>1
<1>4. Logical!InOrder(f, U) = [k \in 1..(c + 1) |-> f[Logical!Nth(U, k)]]
  BY <1>0, NthAppend, SameCardinality DEF Logical!InOrder
<1>5. \A k \in 1..(c + 1) : f[Logical!Nth(U, k)] = IF k = c + 1 THEN l ELSE q[k]
  <2> TAKE k \in 1..(c + 1)
  <2>1. k \in 1..c \/ k = c + 1
    BY <1>1
  <2>2. c + 1 \notin 1..c
    BY <1>1
  <2> QED BY <1>0, <2>1, <2>2, NthAppend
<1>6. Append(q, l) = [k \in 1..(c + 1) |-> IF k = c + 1 THEN l ELSE q[k]]
  <2> HIDE DEF q, c
  <2>1. /\ Append(q, l) \in Seq(Line) /\ Len(Append(q, l)) = c + 1
        /\ Append(q, l)[c + 1] = l /\ \A k \in 1..c : Append(q, l)[k] = q[k]
    BY <1>3, AppendProperties
  <2>2. \A k \in 1..(c + 1) : k \in 1..c \/ k = c + 1
    BY <1>1
  <2>3. \A k \in 1..(c + 1) : Append(q, l)[k] = IF k = c + 1 THEN l ELSE q[k]
    BY <2>1, <2>2
  <2>4. Append(q, l) = [k \in 1..(c + 1) |-> Append(q, l)[k]]
    BY <2>1, LenProperties
  <2> QED BY <2>3, <2>4
<1> HIDE DEF q, c
<1> QED BY <1>2, <1>4, <1>5, <1>6

(* The places kept of a file, line by line *)
LEMMA KeptFacts ==
  ASSUME NEW n \in Nat \ {0}, NEW f, NEW g, \A j \in 1..n : g[j] = f[j]
  PROVE  /\ Logical!Kept(f, n) \subseteq 1..n /\ Logical!Kept(g, n) = Logical!Kept(f, n)
         /\ Logical!Kept(g, n + 1) =
              IF g[n + 1].kind # "comment" /\ ~Logical!Empty(g[n + 1])
              THEN Logical!Kept(f, n) \cup {n + 1} ELSE Logical!Kept(f, n)
         /\ Logical!Kept(f, 1) = {1}
<1>1. 1..(n + 1) = (1..n) \cup {n + 1} /\ n + 1 # 1 /\ 1..1 = {1}
  OBVIOUS
<1>2. Logical!Kept(f, n) \subseteq 1..n /\ Logical!Kept(g, n) = Logical!Kept(f, n)
  BY DEF Logical!Kept
<1>3. Logical!Kept(g, n + 1) =
        IF g[n + 1].kind # "comment" /\ ~Logical!Empty(g[n + 1])
        THEN Logical!Kept(g, n) \cup {n + 1} ELSE Logical!Kept(g, n)
  BY <1>1 DEF Logical!Kept
<1>4. Logical!Kept(f, 1) = {1}
  BY <1>1 DEF Logical!Kept
<1> QED BY <1>2, <1>3, <1>4

(* The first logical line of a file is t when all but its last line leave  *)
(* it open.                                                                *)
LEMMA LineComplete ==
  ASSUME NEW t \in Seq(Line), t # <<>>, NEW r \in Seq(Line),
         \A j \in 1..(Len(t) - 1) : Logical!Open(t, j),
         r = <<>> \/ ~Logical!Open(t, Len(t))
  PROVE  /\ t \o r # <<>> /\ Logical!Extent(t \o r) = Len(t)
         /\ Logical!Joined(t \o r) = Logical!InOrder(t, Logical!Kept(t, Len(t)))
         /\ SubSeq(t \o r, Len(t) + 1, Len(t \o r)) = r
<1>1. PICK n : n = Len(t)
  OBVIOUS
<1>2. PICK m : m = Len(r)
  OBVIOUS
<1>3. PICK f : f = t \o r
  OBVIOUS
<1>4. /\ n \in Nat \ {0} /\ m \in Nat /\ f \in Seq(Line) /\ Len(f) = n + m
      /\ \A j \in 1..n : f[j] = t[j]
      /\ \A j \in 1..m : f[n + j] = r[j]
  BY <1>1, <1>2, <1>3
<1>5. \A j \in 1..n : Logical!Open(f, j) <=> Logical!Open(t, j)
  BY <1>4 DEF Logical!Open
<1>6. /\ n \in 1..Len(f)
      /\ n = Len(f) \/ ~Logical!Open(f, n)
      /\ \A j \in 1..(n - 1) : Logical!Open(f, j)
  <2>1. r = <<>> => m = 0
    BY <1>2
  <2>2. n \in 1..n /\ \A j \in 1..(n - 1) : j \in 1..n
    BY <1>4
  <2> QED BY <1>1, <1>4, <1>5, <2>1, <2>2
<1>7. ASSUME NEW k \in 1..Len(f), k = Len(f) \/ ~Logical!Open(f, k),
             \A j \in 1..(k - 1) : Logical!Open(f, j)
      PROVE  k = n
  <2>1. CASE k < n
    <3>1. k \in 1..(n - 1) /\ k # Len(f)
      BY <1>4, <2>1
    <3> QED BY <1>6, <1>7, <3>1
  <2>2. CASE n < k
    <3>1. n \in 1..(k - 1) /\ n # Len(f)
      BY <1>4, <2>2
    <3> QED BY <1>6, <1>7, <3>1
  <2> QED BY <1>4, <2>1, <2>2
<1>8. Logical!Extent(f) = n
  <2> DEFINE Ends(k) == /\ k = Len(f) \/ ~Logical!Open(f, k)
                        /\ \A j \in 1..(k - 1) : Logical!Open(f, j)
  <2>1. \A k \in 1..Len(f) : Ends(k) => k = n
    BY <1>7
  <2>2. n \in 1..Len(f) /\ Ends(n)
    BY <1>6
  <2>3. Logical!Extent(f) = CHOOSE k \in 1..Len(f) : Ends(k)
    BY DEF Logical!Extent
  <2> HIDE DEF Ends
  <2> QED BY <2>1, <2>2, <2>3
<1>9. Logical!Joined(f) = Logical!InOrder(t, Logical!Kept(t, n))
  <2>1. Logical!Kept(t, n) \subseteq 1..n /\ Logical!Kept(f, n) = Logical!Kept(t, n)
    BY <1>4, KeptFacts
  <2>2. \A j \in 1..n : t[j] \in Line /\ f[j] = t[j]
    BY <1>1, <1>4
  <2>3. Logical!InOrder(f, Logical!Kept(t, n)) = Logical!InOrder(t, Logical!Kept(t, n))
    <3>1. PICK S : S = Logical!Kept(t, n)
      OBVIOUS
    <3>2. n \in Nat /\ S \subseteq 1..n
      BY <1>4, <2>1, <3>1
    <3>3. Logical!InOrder(f, S) = Logical!InOrder(t, S)
      BY ONLY <2>2, <3>2, InOrderFacts
    <3> QED BY <3>1, <3>3
  <2> QED BY <1>8, <2>1, <2>3 DEF Logical!Joined
<1>10. SubSeq(f, n + 1, Len(f)) = r
  <2>1. /\ SubSeq(f, n + 1, n + m) = [i \in 1..m |-> f[n + i]]
    BY <1>4
  <2>2. r = [i \in 1..m |-> r[i]]
    BY <1>2
  <2> QED BY <1>4, <2>1, <2>2
<1>11. f # <<>>
  BY <1>4
<1> QED BY <1>1, <1>3, <1>8, <1>9, <1>10, <1>11

-----------------------------------------------------------------------------
(* The reader implements LogicalLines. *)

(* Files in which no backslash stands before a carriage return and a       *)
(* newline: the stripping leaves the carriage return, which hides it.      *)
Visible == {l \in Line : ~(l.cont /\ l.eol = "crlf")}
BackslashesVisible == File \subseteq Seq(Visible)

(* A sequence of two *)
LEMMA TwoLines ==
  ASSUME NEW x \in Line, NEW y \in Line
  PROVE  <<x>> \o <<y>> = <<x, y>>
<1>1. <<x>> \in Seq(Line) /\ <<y>> \in Seq(Line) /\ Len(<<x>>) = 1 /\ Len(<<y>>) = 1
  OBVIOUS
<1>2. /\ <<x>> \o <<y>> \in Seq(Line) /\ Len(<<x>> \o <<y>>) = 2
      /\ (<<x>> \o <<y>>)[1] = x /\ (<<x>> \o <<y>>)[2] = y
  BY <1>1
<1>3. <<x, y>> \in Seq(Line) /\ Len(<<x, y>>) = 2 /\ <<x, y>>[1] = x /\ <<x, y>>[2] = y
  OBVIOUS
<1>4. \A i \in 1..2 : (<<x>> \o <<y>>)[i] = <<x, y>>[i]
  <2>1. 1..2 = {1, 2}
    OBVIOUS
  <2> QED BY <1>2, <1>3, <2>1
<1> QED BY <1>2, <1>3, <1>4, SeqEqual

(* fgets returns the whole line, or cuts it in two. *)
CutFrom(l, c, d) == <<c, d>> \in CutInTwo(l)
LEMMA FgetsVisible ==
  ASSUME NEW l \in Visible, NEW n \in Nat, n >= BufSize, NEW t \in Tails(l, n)
  PROVE  /\ Chunk(l, n) \in Visible /\ t \in Seq(Visible)
         /\ \/ Chunk(l, n) = l /\ t = <<>>
            \/ \E d \in Visible : t = <<d>> /\ CutFrom(l, Chunk(l, n), d)
<1>1. l \in Line /\ n >= 2 /\ BufSize \in Nat
  BY ReaderAssumption DEF Visible
<1> DEFINE c == Chunk(l, n)
           cont == l.cont /\ ~c.cont
           size == l.size - c.size
<1>2. c \in Line /\ t \in Seq(Line)
  BY <1>1, ChunkFacts, TailsFacts
<1>3. CASE Bytes(l) < n
  <2>1. c = l
    BY <1>3 DEF Chunk
  <2>2. t = <<>>
    BY <2>1 DEF Tails
  <2> QED BY <2>1, <2>2
<1>4. CASE ~(Bytes(l) < n)
  <2>1. c.eol = (IF n - 1 > l.size THEN "cr" ELSE "none") /\ c.eol # "crlf"
    BY <1>4 DEF Chunk, Line
  <2>2. c \in Visible
    <3> HIDE DEF c
    <3> QED BY <1>2, <2>1 DEF Visible
  <2>3. CASE c = l
    BY <2>2, <2>3 DEF Tails
  <2>4. CASE c # l
    <3>1. PICK k \in TailKinds(l, size, cont) :
            t = <<[l EXCEPT !.kind = k, !.cont = cont, !.size = size,
                            !.eol = IF c.eol = "cr" THEN "lf" ELSE l.eol]>>
      BY <2>4 DEF Tails
    <3>2. PICK d : t = <<d>>
      BY <3>1
    <3>3. d \in Line
      <4>1. Len(t) = 1 /\ t[1] = d
        BY <3>2
      <4> QED BY <1>2, <4>1
    <3>4. d.cont = cont /\ d.eol = (IF c.eol = "cr" THEN "lf" ELSE l.eol)
      <4> HIDE DEF c, cont, size
      <4>1. d = [l EXCEPT !.kind = k, !.cont = cont, !.size = size,
                          !.eol = IF c.eol = "cr" THEN "lf" ELSE l.eol]
        BY <3>1, <3>2
      <4> QED BY <1>1, <4>1 DEF Line
    <3>5. d \in Visible
      <4> HIDE DEF c
      <4> QED BY <3>3, <3>4 DEF Visible
    <3>6. n \in BufSize..Bytes(l)
      <4>1. l.size \in Nat /\ EolBytes(l.eol) \in Nat
        BY <1>1, EolBytesFacts DEF Line
      <4> QED BY <1>1, <1>4, <4>1 DEF Bytes
    <3>7. <<c>> \o t = <<c, d>>
      <4> HIDE DEF c
      <4>1. <<c>> \o <<d>> = <<c, d>>
        BY <1>2, <3>3, TwoLines
      <4> QED BY <3>2, <4>1
    <3>8. <<c>> \o t \in CutInTwo(l)
      <4> HIDE DEF c
      <4>1. <<Chunk(l, n)>> \o t \in {<<Chunk(l, n)>> \o u : u \in Tails(l, n)}
        OBVIOUS
      <4> QED BY <3>6, <4>1 DEF CutInTwo, c
    <3>9. CutFrom(l, c, d)
      BY <3>7, <3>8 DEF CutFrom
    <3> HIDE DEF c
    <3>10. t \in Seq(Visible)
      BY <3>2, <3>5
    <3> QED BY <2>2, <3>2, <3>5, <3>9, <3>10 DEF c
  <2> QED BY <2>3, <2>4
<1> QED BY <1>3, <1>4

(* What is in the buffer is what LogicalLines joins of the lines taken, and *)
(* the line is open as long as the buffer ends in a backslash.             *)
LineSoFar ==
  /\ taken # <<>>
  /\ parts = Logical!InOrder(taken, Logical!Kept(taken, Len(taken)))
  /\ \A j \in 1..(Len(taken) - 1) : Logical!Open(taken, j)
  /\ buf.cont => Logical!Open(taken, Len(taken))
  /\ ~buf.cont => file = <<>> \/ ~Logical!Open(taken, Len(taken))
JoinInv ==
  /\ IInv /\ file \in Seq(Visible) /\ len >= BufSize
  /\ ~(buf.cont /\ buf.eol = "crlf")
  /\ IF pc = "assemble" THEN LineSoFar ELSE taken = <<>>

(* Behind the lines t the file f loses its first line, or a piece of it:   *)
(* joined to t, that is the same file or a cutting of it.                  *)
SameOrCut(r, q) == r = q \/ r \in Logical!Cuttings(q)
LEMMA FgetsCuts ==
  ASSUME JoinInv, NEW n \in Nat, n >= BufSize, Fgets(n),
         NEW c, c = Chunk(Head(file), n)
  PROVE  /\ c \in Visible /\ c \in Line /\ file' \in Seq(Visible) /\ file' \in Seq(Line)
         /\ SameOrCut(Append(taken, c) \o file', taken \o file)
<1>1. /\ file # <<>> /\ file \in Seq(Visible) /\ file \in Seq(Line)
      /\ taken \in Seq(Line)
  BY DEF JoinInv, IInv, TypeOK, Fgets
<1>2. PICK l : l = Head(file)
  OBVIOUS
<1>3. PICK r : r = Tail(file)
  OBVIOUS
<1>4. /\ l \in Visible /\ r \in Seq(Visible) /\ l \in Line /\ r \in Seq(Line)
      /\ file = <<l>> \o r
  BY <1>1, <1>2, <1>3 DEF Visible
<1>5. PICK t \in Tails(l, n) : file' = t \o r
  BY <1>2, <1>3 DEF Fgets
<1>6. /\ c \in Visible /\ t \in Seq(Visible)
      /\ \/ c = l /\ t = <<>>
         \/ \E d \in Visible : t = <<d>> /\ CutFrom(l, c, d)
  BY <1>2, <1>4, FgetsVisible
<1>7. file' \in Seq(Visible) /\ c \in Line
  BY <1>4, <1>5, <1>6 DEF Visible
<1>8. t \in Seq(Line)
  BY <1>6 DEF Visible
<1>9. file' \in Seq(Line)
  BY <1>4, <1>5, <1>8
<1>10. CASE c = l /\ t = <<>>
  <2>1. file' = r
    BY <1>4, <1>5, <1>10
  <2>2. Append(taken, l) \o r = taken \o (<<l>> \o r)
    BY <1>1, <1>4
  <2> QED BY <1>4, <1>7, <1>9, <1>6, <1>10, <2>1, <2>2 DEF SameOrCut
<1>11. CASE \E d \in Visible : t = <<d>> /\ CutFrom(l, c, d)
  <2>1. PICK d \in Visible : t = <<d>> /\ CutFrom(l, c, d)
    BY <1>11
  <2>2. d \in Line
    BY DEF Visible
  <2>3. PICK q : q = taken \o file
    OBVIOUS
  <2>4. PICK k : k = Len(taken)
    OBVIOUS
  <2>5. PICK m : m = Len(r)
    OBVIOUS
  <2>6. /\ k \in Nat /\ m \in Nat /\ q \in Seq(Line) /\ Len(q) = k + 1 + m
        /\ \A j \in 1..k : q[j] = taken[j]
        /\ q[k + 1] = l
        /\ \A j \in 1..m : q[k + 1 + j] = r[j]
    BY <1>1, <1>4, <2>3, <2>4, <2>5
  <2>7. SubSeq(q, 1, (k + 1) - 1) = taken
    <3>1. (k + 1) - 1 = k
      BY <2>6
    <3>2. SubSeq(q, 1, k) = [j \in 1..k |-> q[j]]
      BY <2>6
    <3>3. taken = [j \in 1..k |-> taken[j]]
      BY <1>1, <2>4
    <3> QED BY <2>6, <3>1, <3>2, <3>3
  <2>8. SubSeq(q, (k + 1) + 1, Len(q)) = r
    <3>1. SubSeq(q, (k + 1) + 1, (k + 1) + m) = [j \in 1..m |-> q[k + 1 + j]]
      BY <2>6
    <3>2. r = [j \in 1..m |-> r[j]]
      BY <1>4, <2>5
    <3> QED BY <2>6, <3>1, <3>2
  <2>9. Append(taken, c) \o (<<d>> \o r) = (taken \o <<c, d>>) \o r
    BY <1>1, <1>4, <1>7, <2>2
  <2>10. Append(taken, c) \o file' = Logical!CutAt(q, k + 1, <<c, d>>)
    BY <1>5, <2>1, <2>7, <2>8, <2>9 DEF Logical!CutAt
  <2>11. k + 1 \in DOMAIN q /\ <<c, d>> \in CutInTwo(q[k + 1])
    BY <2>1, <2>6 DEF CutFrom
  <2>12. Logical!CutAt(q, k + 1, <<c, d>>) \in Logical!Cuttings(q)
    <3>1. Logical!CutAt(q, k + 1, <<c, d>>)
            \in {Logical!CutAt(q, k + 1, p) : p \in CutInTwo(q[k + 1])}
      BY <2>11
    <3> QED BY <2>11, <3>1 DEF Logical!Cuttings
  <2> QED BY <1>6, <1>7, <1>9, <2>3, <2>10, <2>12 DEF SameOrCut
<1> QED BY <1>6, <1>10, <1>11

(* Stripping leaves the backslash alone. *)
LEMMA StripVisible ==
  ASSUME JoinInv
  PROVE  /\ Strip(buf) \in Buffer /\ Strip(buf).cont = buf.cont
         /\ Continues(Strip(buf)) <=> buf.cont
         /\ buf.cont => Strip(buf).eol = "none"
<1>1. buf \in Buffer /\ ~(buf.cont /\ buf.eol = "crlf") /\ BufferType
  BY DEF JoinInv, IInv, TypeOK, BufferType, Buffer
<1>2. Strip(buf) \in Buffer
  BY <1>1, StripFacts
<1>3. Strip(buf).cont = buf.cont /\ (buf.cont => Strip(buf).eol = "none")
  BY <1>1 DEF Strip, Buffer, Eol
<1> QED BY <1>2, <1>3 DEF Continues

(* A line more is taken for the line in the buffer. *)
LEMMA LineTaken ==
  ASSUME NEW t \in Seq(Line), t # <<>>, NEW h \in Line
  PROVE  /\ Append(t, h) \in Seq(Line) /\ Append(t, h) # <<>>
         /\ Len(Append(t, h)) = Len(t) + 1
         /\ \A j \in 1..Len(t) : Logical!Open(Append(t, h), j) <=> Logical!Open(t, j)
         /\ Logical!Open(Append(t, h), Len(t) + 1) <=> h.cont \/ h.kind = "comment"
         /\ Logical!InOrder(Append(t, h), Logical!Kept(Append(t, h), Len(t) + 1)) =
              LET q == Logical!InOrder(t, Logical!Kept(t, Len(t))) IN
              IF h.kind # "comment" /\ ~IsEmpty(h) THEN Append(q, h) ELSE q
<1>1. PICK n : n = Len(t)
  OBVIOUS
<1>2. PICK g : g = Append(t, h)
  OBVIOUS
<1>3. /\ n \in Nat \ {0} /\ g \in Seq(Line) /\ Len(g) = n + 1 /\ g # <<>>
      /\ \A j \in 1..n : t[j] \in Line /\ g[j] = t[j]
      /\ g[n + 1] = h
  BY <1>1, <1>2
<1>4. \A j \in 1..n : Logical!Open(g, j) <=> Logical!Open(t, j)
  BY <1>3 DEF Logical!Open
<1>5. Logical!Open(g, n + 1) <=> h.cont \/ h.kind = "comment"
  BY <1>3 DEF Logical!Open
<1>6. PICK S : S = Logical!Kept(t, n)
  OBVIOUS
<1>7. /\ S \subseteq 1..n
      /\ Logical!Kept(g, n + 1) =
           IF h.kind # "comment" /\ ~IsEmpty(h) THEN S \cup {n + 1} ELSE S
  <2>1. n \in Nat \ {0} /\ \A j \in 1..n : g[j] = t[j]
    BY <1>3
  <2>2. /\ Logical!Kept(t, n) \subseteq 1..n
        /\ Logical!Kept(g, n + 1) =
             IF g[n + 1].kind # "comment" /\ ~Logical!Empty(g[n + 1])
             THEN Logical!Kept(t, n) \cup {n + 1} ELSE Logical!Kept(t, n)
    BY ONLY <2>1, KeptFacts
  <2> QED BY <1>3, <1>6, <2>2 DEF Logical!Empty, IsEmpty
<1>8. /\ Logical!InOrder(g, S) = Logical!InOrder(t, S)
      /\ Logical!InOrder(g, S \cup {n + 1}) = Append(Logical!InOrder(t, S), g[n + 1])
  <2>1. /\ n \in Nat /\ g[n + 1] \in Line /\ S \subseteq 1..n
        /\ \A j \in 1..n : t[j] \in Line /\ g[j] = t[j]
    BY <1>3, <1>7
  <2>2. n \in Nat /\ S \subseteq 1..n /\ \A j \in 1..n : t[j] \in Line /\ g[j] = t[j]
    BY <2>1
  <2>3. Logical!InOrder(g, S) = Logical!InOrder(t, S)
    BY ONLY <2>2, InOrderFacts
  <2>4. PICK U : U = S \cup {n + 1}
    OBVIOUS
  <2>5. /\ g[n + 1] \in Line /\ \A j \in 1..n : g[j] \in Line
        /\ \A x : x \in U <=> x \in S \/ x = n + 1
    BY <1>3, <2>1, <2>4
  <2>6. Logical!InOrder(g, U) = Append(Logical!InOrder(g, S), g[n + 1])
    BY ONLY <2>2, <2>5, InOrderAppend
  <2> QED BY <1>3, <2>3, <2>4, <2>6
<1>9. Logical!InOrder(g, Logical!Kept(g, n + 1)) =
        LET q == Logical!InOrder(t, S) IN
        IF h.kind # "comment" /\ ~IsEmpty(h) THEN Append(q, h) ELSE q
  BY <1>3, <1>7, <1>8
<1> QED BY <1>1, <1>2, <1>3, <1>4, <1>5, <1>6, <1>9

LEMMA JoinInitially ==
  ASSUME BackslashesVisible, Init
  PROVE  JoinInv
<1>1. file \in Seq(Visible)
  BY DEF BackslashesVisible, Init
<1>2. IInv /\ buf.eol # "crlf"
  BY InitInv, NoBufFacts DEF Init
<1>3. len >= BufSize /\ pc = "read" /\ taken = <<>>
  BY ReaderAssumption DEF Init
<1> QED BY <1>1, <1>2, <1>3 DEF JoinInv

(* A step that takes a line or a piece of one, or nothing, and one that    *)
(* interprets the logical line r                                           *)
LEMMA Steps ==
  ASSUME NEW r, SameOrCut(r, taken \o file),
         ((taken \o file)' = r /\ out' = out) \/ Logical!Interpret(r)
  PROVE  [Logical!Next]_(Logical!vars)
BY DEF SameOrCut, Logical!Next, Logical!vars

(* What a step does to the line and to the file *)
LEMMA JoinStep ==
  ASSUME JoinInv, [Next]_vars
  PROVE  /\ IF pc' = "assemble" THEN LineSoFar' ELSE taken' = <<>>
         /\ file' \in Seq(Visible) /\ len' >= BufSize
         /\ ~(buf'.cont /\ buf'.eol = "crlf")
         /\ [Logical!Next]_(Logical!vars)
<1>1. /\ file \in Seq(Line) /\ taken \in Seq(Line) /\ file \in Seq(Visible)
      /\ len \in Nat /\ BufSize \in Nat /\ len >= BufSize /\ BufSize >= 2
      /\ pc \in {"read", "assemble", "done"} /\ buf.cont \in BOOLEAN
      /\ ~(buf.cont /\ buf.eol = "crlf")
  BY ReaderAssumption DEF JoinInv, IInv, TypeOK
<1>0. ~(NoBuf.cont /\ NoBuf.eol = "crlf")
  BY DEF NoBuf
<1> DEFINE rest == taken \o file
<1>2. CASE UNCHANGED vars
  <2>1. UNCHANGED <<rest, out>>
    BY <1>2 DEF vars
  <2> QED BY <1>1, <1>2, <2>1 DEF vars, JoinInv, LineSoFar, Logical!vars, Logical!Open, Logical!Kept,
          Logical!InOrder, Logical!Empty
<1>3. CASE ReadEnd
  <2>1. UNCHANGED <<rest, out>> /\ taken = <<>>
    BY <1>3 DEF ReadEnd, JoinInv
  <2> QED BY <1>1, <1>3, <2>1 DEF ReadEnd, Logical!vars
<1>4. CASE ReadFirst
  <2>1. pc = "read" /\ taken = <<>> /\ Fgets(len) /\ pc' = "assemble" /\ len' = len /\ out' = out
    BY <1>4 DEF ReadFirst, JoinInv
  <2>2. PICK h : h = Chunk(Head(file), len)
    OBVIOUS
  <2>3. /\ h \in Visible /\ h \in Line /\ file' \in Seq(Visible) /\ file' \in Seq(Line)
        /\ SameOrCut(Append(taken, h) \o file', rest)
    BY <1>1, <2>1, <2>2, FgetsCuts
  <2>4. /\ taken' = <<h>> /\ parts' = <<h>> /\ buf'.cont = h.cont /\ buf'.eol = h.eol
    BY <1>4, <2>2, <2>3 DEF ReadFirst
  <2>5. rest' = Append(taken, h) \o file'
    BY <2>1, <2>4
  <2>6. Logical!InOrder(<<h>>, Logical!Kept(<<h>>, 1)) = <<h>>
    <3>1. Logical!Kept(<<h>>, 1) = {1}
      BY DEF Logical!Kept
    <3>2. Cardinality({1}) = 1
      BY FS_Singleton
    <3>3. Logical!Nth({1}, 1) = 1
      BY NthFacts, <3>2
    <3> QED BY <3>1, <3>2, <3>3, SameCardinality DEF Logical!InOrder
  <2>7. Logical!Open(<<h>>, 1) <=> h.cont
    BY DEF Logical!Open
  <2>8. LineSoFar'
    <3>1. Len(<<h>>) = 1 /\ 1..(1 - 1) = {} /\ <<h>> # <<>>
      OBVIOUS
    <3> QED BY <2>4, <2>6, <2>7, <3>1 DEF LineSoFar
  <2>9. ~(buf'.cont /\ buf'.eol = "crlf")
    BY <2>3, <2>4 DEF Visible
  <2> HIDE DEF rest
  <2>10. [Logical!Next]_(Logical!vars)
    BY <2>1, <2>3, <2>5, Steps DEF rest
  <2> QED BY <1>1, <2>1, <2>3, <2>8, <2>9, <2>10
<1>5. ASSUME pc = "assemble", ~buf.cont
      PROVE  Logical!Extent(rest) = Len(taken) /\ rest # <<>>
             /\ Logical!Joined(rest) = parts /\ SubSeq(rest, Len(taken) + 1, Len(rest)) = file
  <2>1. LineSoFar
    BY <1>5 DEF JoinInv
  <2> HIDE DEF rest
  <2>2. /\ taken # <<>> /\ \A j \in 1..(Len(taken) - 1) : Logical!Open(taken, j)
        /\ file = <<>> \/ ~Logical!Open(taken, Len(taken))
    BY <1>5, <2>1 DEF LineSoFar
  <2> QED BY <1>1, <2>1, <2>2, LineComplete DEF LineSoFar, rest
<1>6. CASE EndLine
  <2>1. pc = "assemble" /\ ~buf.cont /\ Deliver /\ taken' = <<>> /\ file' = file /\ len' = len
    BY <1>6, StripVisible DEF EndLine
  <2>2. rest' = file
    BY <1>1, <2>1
  <2>3. Logical!Interpret(rest)
    BY <1>5, <2>1, <2>2 DEF Logical!Interpret, Deliver, Discard, Logical!Dropped, Logical!Ids
  <2>4. [Logical!Next]_(Logical!vars)
    BY <2>3 DEF Logical!Next
  <2> QED BY <1>0, <1>1, <2>1, <2>4 DEF Deliver
<1>7. CASE ContinueEnd
  <2>1. /\ pc = "assemble" /\ file = <<>> /\ buf' = [Strip(buf) EXCEPT !.cont = FALSE]
        /\ UNCHANGED <<file, pc, len, parts, taken, out>>
    BY <1>7 DEF ContinueEnd, Spaced
  <2>2. ~buf'.cont
    BY <2>1, StripVisible DEF Buffer
  <2>3. LineSoFar'
    <3>1. LineSoFar
      BY <2>1 DEF JoinInv
    <3> QED BY <2>1, <2>2, <3>1 DEF LineSoFar
  <2>4. rest' = rest
    BY <2>1
  <2> QED BY <1>1, <2>1, <2>2, <2>3, <2>4 DEF Logical!vars
<1>8. CASE ContinueComment \/ ContinueText \/ ContinueBlank
  <2>0. Continue
    BY <1>8 DEF ContinueComment, ContinueText, ContinueBlank
  <2>1. pc = "assemble" /\ buf.cont /\ Fgets(BufSize) /\ LineSoFar
    BY <2>0, StripVisible DEF Continue, Line2Limit, JoinInv
  <2>2. PICK h : h = Line2
    OBVIOUS
  <2>3. PICK t : t = Append(taken, h)
    OBVIOUS
  <2>4. PICK n : n = Len(taken)
    OBVIOUS
  <2>5. /\ h \in Visible /\ h \in Line /\ file' \in Seq(Visible) /\ file' \in Seq(Line)
        /\ SameOrCut(t \o file', rest)
    <3>1. h = Chunk(Head(file), BufSize) /\ BufSize >= BufSize
      BY <1>1, <2>2 DEF Line2, Line2Limit
    <3> QED BY <1>1, <2>1, <2>3, <3>1, FgetsCuts
  <2>6. /\ t \in Seq(Line) /\ t # <<>> /\ Len(t) = n + 1 /\ n \in Nat
        /\ \A j \in 1..n : Logical!Open(t, j) <=> Logical!Open(taken, j)
        /\ Logical!Open(t, n + 1) <=> h.cont \/ h.kind = "comment"
        /\ Logical!InOrder(t, Logical!Kept(t, n + 1)) =
              IF h.kind # "comment" /\ ~IsEmpty(h) THEN Append(parts, h) ELSE parts
    BY <1>1, <2>1, <2>3, <2>4, <2>5, LineTaken DEF LineSoFar
  <2>7. \A j \in 1..n : Logical!Open(t, j)
    <3>1. \A j \in 1..n : j \in 1..(n - 1) \/ j = n
      BY <2>6
    <3> QED BY <2>1, <2>4, <2>6, <3>1 DEF LineSoFar
  <2>8. PICK r : r = t \o file'
    OBVIOUS
  <2>9. (n + 1) - 1 = n
    BY <2>6
  <2>10. Grown(Strip(buf).ps + 2) >= len /\ Grown(Strip(buf).ps + 1 + Bytes(Line2)) >= len
    BY <1>1 DEF Grown
  <2>11. ASSUME taken' = t, len' >= len, len' \in Nat, pc' = pc, out' = out,
                parts' = (IF h.kind # "comment" /\ ~IsEmpty(h) THEN Append(parts, h) ELSE parts),
                buf'.cont <=> Logical!Open(t, n + 1), ~(buf'.cont /\ buf'.eol = "crlf")
         PROVE  /\ IF pc' = "assemble" THEN LineSoFar' ELSE taken' = <<>>
                /\ file' \in Seq(Visible) /\ len' >= BufSize
                /\ ~(buf'.cont /\ buf'.eol = "crlf")
                /\ [Logical!Next]_(Logical!vars)
    <3>1. rest' = r
      BY <2>8, <2>11
    <3>2. LineSoFar'
      BY <2>6, <2>7, <2>9, <2>11 DEF LineSoFar
    <3>3. len' >= BufSize
      BY <1>1, <2>11
    <3> HIDE DEF rest
    <3>4. [Logical!Next]_(Logical!vars)
      BY <2>5, <2>8, <2>11, <3>1, Steps DEF rest
    <3> QED BY <2>1, <2>5, <2>11, <3>2, <3>3, <3>4
  <2>12. len' \in Nat
    BY NextKeepsInv DEF JoinInv, IInv, TypeOK
  <2>13. CASE ContinueComment
    <3>1. /\ h.kind = "comment" /\ len' = Grown(Strip(buf).ps + 2)
          /\ buf' = PutBack(buf) /\ taken' = t /\ UNCHANGED <<pc, parts, out>>
      BY <2>2, <2>3, <2>13 DEF ContinueComment
    <3>2. buf'.cont /\ buf'.eol = "none"
      BY <2>1, <3>1, StripVisible DEF PutBack, Buffer
    <3>3. /\ parts' = (IF h.kind # "comment" /\ ~IsEmpty(h) THEN Append(parts, h) ELSE parts)
          /\ buf'.cont <=> Logical!Open(t, n + 1)
          /\ ~(buf'.cont /\ buf'.eol = "crlf")
      BY <2>6, <3>1, <3>2
    <3> QED BY <2>10, <2>11, <2>12, <3>1, <3>3
  <2>14. CASE ContinueText
    <3>1. /\ h.kind # "comment" /\ ~IsEmpty(h) /\ len' = Grown(Strip(buf).ps + 1 + Bytes(Line2))
          /\ buf'.cont = h.cont /\ buf'.eol = h.eol /\ taken' = t /\ parts' = Append(parts, h)
          /\ UNCHANGED <<pc, out>>
      BY <2>2, <2>3, <2>14 DEF ContinueText
    <3>2. (buf'.cont <=> Logical!Open(t, n + 1)) /\ ~(buf'.cont /\ buf'.eol = "crlf")
      BY <2>5, <2>6, <3>1 DEF Visible
    <3> QED BY <2>10, <2>11, <2>12, <3>1, <3>2
  <2>15. CASE ContinueBlank
    <3>1. h.kind = "blank" /\ ~h.cont /\ Deliver /\ taken' = <<>> /\ len' = len
      BY <2>2, <2>15 DEF ContinueBlank, IsEmpty
    <3>2. ~Logical!Open(t, n + 1) /\ Logical!InOrder(t, Logical!Kept(t, n + 1)) = parts
      BY <2>6, <3>1 DEF IsEmpty
    <3>3. rest' = file'
      BY <2>5, <3>1
    <3>4. PICK u : u = file'
      OBVIOUS
    <3> HIDE DEF rest
    <3>5. /\ Logical!Extent(r) = n + 1 /\ r # <<>>
          /\ Logical!Joined(r) = parts /\ SubSeq(r, (n + 1) + 1, Len(r)) = u
      <4>1. /\ t \in Seq(Line) /\ t # <<>> /\ u \in Seq(Line) /\ t \o u = r
            /\ \A j \in 1..(Len(t) - 1) : Logical!Open(t, j)
            /\ u = <<>> \/ ~Logical!Open(t, Len(t))
        BY <2>5, <2>6, <2>7, <2>8, <2>9, <3>2, <3>4
      <4> QED BY <2>6, <3>2, <4>1, LineComplete
    <3>6. Logical!Interpret(r)
      BY <3>1, <3>3, <3>4, <3>5 DEF rest, Logical!Interpret, Deliver, Discard, Logical!Dropped,
         Logical!Ids
    <3>7. pc' = "read" /\ buf' = NoBuf
      BY <3>1 DEF Deliver
    <3>8. [Logical!Next]_(Logical!vars)
      BY <2>5, <2>8, <3>6, Steps DEF rest
    <3> QED BY <1>0, <1>1, <2>5, <3>1, <3>7, <3>8
  <2> QED BY <1>8, <2>13, <2>14, <2>15
<1> QED BY <1>2, <1>3, <1>4, <1>6, <1>7, <1>8 DEF Next, Finished

(* The reader hands on exactly the logical lines of LogicalLines, for any  *)
(* number of physical lines of any length: the first fgets, a comment, a   *)
(* text and a lost last backslash take a line or cut one, the end of a     *)
(* logical line interprets all the lines taken for it.  Lines whose        *)
(* backslash a carriage return hides are read otherwise.                   *)
THEOREM ReaderImplementsLogical ==
  ASSUME BackslashesVisible
  PROVE  Spec => ImplementsLogical
<1>1. Init => JoinInv /\ Logical!Init
  BY JoinInitially DEF Init, Logical!Init
<1>2. JoinInv /\ [Next]_vars => JoinInv' /\ [Logical!Next]_(Logical!vars)
  BY JoinStep, NextKeepsInv DEF JoinInv
<1> QED BY <1>1, <1>2, PTL DEF Spec, ImplementsLogical, Logical!Spec
=============================================================================
