------------------------ MODULE SectionParserProofs ------------------------
(***************************************************************************)
(* Theorems about the section parser, for every tree of sections that      *)
(* registration may build, every file and every number of parses.          *)
(***************************************************************************)
EXTENDS SectionParser, FiniteSetTheorems, SequenceTheorems, WellFoundedInduction, TLAPS

(* Sets of numbers have a least element: the way to argue by induction. *)
LEMMA LeastNumber ==
  ASSUME NEW T \in SUBSET Nat, T # {}
  PROVE  \E x \in T : \A y \in T : x <= y
<1> DEFINE R == {p \in Nat \X Nat : p[1] < p[2]}
<1>1. R = OpToRel(<, Nat)
  BY DEF OpToRel
<1>2. IsWellFoundedOn(R, Nat)
  BY <1>1, NatLessThanWellFounded
<1>3. PICK x \in T : \A y \in T : <<y, x>> \notin R
  <2> HIDE DEF R
  <2> QED BY <1>2, WFMin
<1>4. \A y \in T : x \in Nat /\ y \in Nat /\ ~(y < x)
  <2> TAKE y \in T
  <2>1. <<y, x>> \in Nat \X Nat
    OBVIOUS
  <2> QED BY <1>3, <2>1
<1> QED BY <1>3, <1>4

-----------------------------------------------------------------------------
(* Paths and the sections they lead to *)

LEMMA LeadsEmpty ==
  ASSUME NEW s \in Section
  PROVE  Leads(<<>>, s) <=> s = Top
<1>1. ASSUME s = Top PROVE Leads(<<>>, s)
  <2> DEFINE f == [i \in 0..0 |-> Top]
  <2>1. f \in [0..Len(<<>>) -> Section] /\ f[0] = Top /\ f[Len(<<>>)] = s
    BY <1>1, ParserAssumption
  <2>2. \A j \in 1..Len(<<>>) : FALSE
    OBVIOUS
  <2> HIDE DEF f
  <2> QED BY <2>1, <2>2 DEF Leads
<1>2. ASSUME Leads(<<>>, s) PROVE s = Top
  BY <1>2 DEF Leads
<1> QED BY <1>1, <1>2

LEMMA PathAppend ==
  ASSUME NEW p \in Path, NEW k \in Kw, NEW n \in Nat
  PROVE  /\ Append(p, <<k, n>>) \in Path
         /\ Len(Append(p, <<k, n>>)) = Len(p) + 1
         /\ Append(p, <<k, n>>)[Len(p) + 1] = <<k, n>>
         /\ \A j \in 1..Len(p) : Append(p, <<k, n>>)[j] = p[j]
         /\ \A j \in 0..Len(p) : SubSeq(Append(p, <<k, n>>), 1, j) = SubSeq(p, 1, j)
<1> DEFINE x == <<k, n>>
<1>1. x \in Kw \X Nat /\ p \in Seq(Kw \X Nat)
  BY DEF Path
<1> HIDE DEF x
<1>2. /\ Append(p, x) \in Seq(Kw \X Nat)
      /\ Len(Append(p, x)) = Len(p) + 1
      /\ Append(p, x)[Len(p) + 1] = x
      /\ \A j \in 1..Len(p) : Append(p, x)[j] = p[j]
  BY <1>1
<1>3. \A j \in 0..Len(p) : SubSeq(Append(p, x), 1, j) = SubSeq(p, 1, j)
  BY <1>1
<1> QED BY <1>2, <1>3 DEF x, Path

LEMMA FrontAndLast ==
  ASSUME NEW S, NEW q \in Seq(S), Len(q) > 0
  PROVE  /\ SubSeq(q, 1, Len(q) - 1) \in Seq(S)
         /\ Len(SubSeq(q, 1, Len(q) - 1)) = Len(q) - 1
         /\ \A i \in 1..(Len(q) - 1) : SubSeq(q, 1, Len(q) - 1)[i] = q[i]
         /\ q = Append(SubSeq(q, 1, Len(q) - 1), q[Len(q)])
<1> DEFINE p == SubSeq(q, 1, Len(q) - 1)
<1>1. p \in Seq(S) /\ Len(p) = Len(q) - 1 /\ \A i \in 1..(Len(q) - 1) : p[i] = q[i]
  <2>1. \A i \in 1..(Len(q) - 1) : q[i] \in S
    OBVIOUS
  <2>2. /\ p \in Seq(S)
        /\ Len(p) = IF 1 <= Len(q) - 1 THEN (Len(q) - 1) - 1 + 1 ELSE 0
        /\ \A i \in 1..((Len(q) - 1) - 1 + 1) : p[i] = q[1 + i - 1]
    BY <2>1, SubSeqProperties
  <2>3. /\ Len(q) \in Nat /\ Len(q) - 1 \in Nat
        /\ (Len(q) - 1) - 1 + 1 = Len(q) - 1
        /\ ~(1 <= Len(q) - 1) => Len(q) - 1 = 0
    BY SMTT(30)
  <2> HIDE DEF p
  <2>4. Len(p) = Len(q) - 1
    BY <2>2, <2>3
  <2>5. ASSUME NEW i \in 1..(Len(q) - 1)
        PROVE  p[i] = q[i]
    <3>1. i \in Int /\ 1 + i - 1 = i
      OBVIOUS
    <3>2. p[i] = q[1 + i - 1]
      BY <2>2, <2>3
    <3> QED BY <3>1, <3>2
  <2> QED BY <2>2, <2>4, <2>5
<1> HIDE DEF p
<1>2. q = Append(p, q[Len(q)])
  BY <1>1
<1> QED BY <1>1, <1>2 DEF p

LEMMA PathSplit ==
  ASSUME NEW o \in Path, Len(o) > 0
  PROVE  \E p \in Path, k \in Kw, n \in Nat :
           o = Append(p, <<k, n>>) /\ Len(p) = Len(o) - 1
<1> DEFINE p == SubSeq(o, 1, Len(o) - 1)
<1>1. o \in Seq(Kw \X Nat) /\ Len(o) \in 1..Len(o)
  BY DEF Path
<1>2. o[Len(o)] \in Kw \X Nat
  BY <1>1, ElementOfSeq
<1>3. PICK k \in Kw, n \in Nat : o[Len(o)] = <<k, n>>
  BY <1>2
<1>4. p \in Seq(Kw \X Nat) /\ Len(p) = Len(o) - 1 /\ o = Append(p, o[Len(o)])
  BY <1>1, FrontAndLast
<1> QED BY <1>3, <1>4 DEF Path

LEMMA LeadsAppend ==
  ASSUME NEW p \in Path, NEW k \in Kw, NEW n \in Nat, NEW s \in Section
  PROVE  Leads(Append(p, <<k, n>>), s) <=>
           \E t \in Section : /\ Leads(p, t) /\ Owns(t, k, s)
                              /\ Schema[t][k].type = "SEC" <=> n = 0
<1> DEFINE o == Append(p, <<k, n>>)
           m == Len(p)
<1>1. /\ m \in Nat /\ Len(o) = m + 1
      /\ o[m + 1][1] = k /\ o[m + 1][2] = n
      /\ \A j \in 1..m : o[j] = p[j]
  BY PathAppend DEF Path
<1> HIDE DEF o, m
<1>2. ASSUME Leads(o, s)
      PROVE  \E t \in Section : /\ Leads(p, t) /\ Owns(t, k, s)
                                /\ Schema[t][k].type = "SEC" <=> n = 0
  <2>1. PICK f \in [0..(m + 1) -> Section] :
          /\ f[0] = Top /\ f[m + 1] = s
          /\ \A j \in 1..(m + 1) :
               /\ Owns(f[j - 1], o[j][1], f[j])
               /\ Schema[f[j - 1]][o[j][1]].type = "SEC" <=> o[j][2] = 0
    BY <1>1, <1>2 DEF Leads
  <2> DEFINE g == [j \in 0..m |-> f[j]]
  <2>2. g \in [0..m -> Section] /\ g[0] = Top /\ g[m] = f[m]
    BY <1>1, <2>1
  <2>3. \A j \in 1..m :
          /\ Owns(g[j - 1], p[j][1], g[j])
          /\ Schema[g[j - 1]][p[j][1]].type = "SEC" <=> p[j][2] = 0
    <3> TAKE j \in 1..m
    <3>1. g[j] = f[j] /\ g[j - 1] = f[j - 1] /\ o[j] = p[j] /\ j \in 1..(m + 1)
      BY <1>1
    <3> QED BY <2>1, <3>1
  <2> HIDE DEF g
  <2>4. Leads(p, f[m]) /\ f[m] \in Section
    BY <1>1, <2>1, <2>2, <2>3 DEF Leads, m
  <2>5. /\ Owns(f[m], k, s)
        /\ Schema[f[m]][k].type = "SEC" <=> n = 0
    <3>1. m + 1 \in 1..(m + 1) /\ (m + 1) - 1 = m
      BY <1>1
    <3> QED BY <1>1, <2>1, <3>1
  <2> QED BY <2>4, <2>5
<1>3. ASSUME NEW t \in Section, Leads(p, t), Owns(t, k, s),
             Schema[t][k].type = "SEC" <=> n = 0
      PROVE  Leads(o, s)
  <2>1. PICK f \in [0..m -> Section] :
          /\ f[0] = Top /\ f[m] = t
          /\ \A j \in 1..m :
               /\ Owns(f[j - 1], p[j][1], f[j])
               /\ Schema[f[j - 1]][p[j][1]].type = "SEC" <=> p[j][2] = 0
    BY <1>3 DEF Leads, m
  <2> DEFINE g == [j \in 0..(m + 1) |-> IF j = m + 1 THEN s ELSE f[j]]
  <2>2. g \in [0..(m + 1) -> Section] /\ g[0] = Top /\ g[m + 1] = s /\ g[m] = t
    BY <1>1, <2>1
  <2>3. \A j \in 1..(m + 1) :
          /\ Owns(g[j - 1], o[j][1], g[j])
          /\ Schema[g[j - 1]][o[j][1]].type = "SEC" <=> o[j][2] = 0
    <3> TAKE j \in 1..(m + 1)
    <3>1. CASE j = m + 1
      <4>1. g[j - 1] = t /\ g[j] = s /\ o[j][1] = k /\ o[j][2] = n
        BY <1>1, <2>2, <3>1
      <4> QED BY <1>3, <4>1
    <3>2. CASE j \in 1..m
      <4>1. g[j] = f[j] /\ g[j - 1] = f[j - 1] /\ o[j] = p[j]
        BY <1>1, <3>2
      <4> QED BY <2>1, <3>2, <4>1
    <3> QED BY <1>1, <3>1, <3>2
  <2> HIDE DEF g
  <2> QED BY <1>1, <2>2, <2>3 DEF Leads
<1> QED BY <1>2, <1>3 DEF o

(* A path leads to one section at most. *)
LEMMA LeadsOnce ==
  ASSUME NEW o \in Path, NEW s \in Section, NEW t \in Section, Leads(o, s), Leads(o, t)
  PROVE  s = t
<1> DEFINE Forks(n) == \E q \in Path : \E u, v \in Section :
                         Len(q) = n /\ Leads(q, u) /\ Leads(q, v) /\ u # v
           T == {n \in Nat : Forks(n)}
<1> SUFFICES ASSUME s # t PROVE FALSE
  OBVIOUS
<1>1. Len(o) \in T
  BY DEF Path
<1>2. PICK n \in T : \A m \in T : n <= m
  BY <1>1, LeastNumber
<1>3. PICK q \in Path : \E u, v \in Section :
        Len(q) = n /\ Leads(q, u) /\ Leads(q, v) /\ u # v
  BY <1>2
<1>4. PICK u \in Section, v \in Section :
        Len(q) = n /\ Leads(q, u) /\ Leads(q, v) /\ u # v
  BY <1>3
<1>5. CASE n = 0
  <2>1. q = <<>>
    BY <1>4, <1>5 DEF Path
  <2> QED BY <1>4, <2>1, LeadsEmpty
<1>6. CASE n > 0
  <2>1. PICK p \in Path, k \in Kw, i \in Nat : q = Append(p, <<k, i>>) /\ Len(p) = n - 1
    BY <1>4, <1>6, PathSplit
  <2>2. PICK a \in Section : Leads(p, a) /\ Owns(a, k, u)
    BY <1>4, <2>1, LeadsAppend
  <2>3. PICK b \in Section : Leads(p, b) /\ Owns(b, k, v)
    BY <1>4, <2>1, LeadsAppend
  <2>4. a = b
    <3> SUFFICES ASSUME a # b PROVE FALSE
      OBVIOUS
    <3>1. n - 1 \in T
      BY <1>6, <2>1, <2>2, <2>3
    <3> QED BY <1>2, <1>6, <3>1
  <2> QED BY <1>4, <2>2, <2>3, <2>4 DEF Owns
<1> QED BY <1>2, <1>5, <1>6

-----------------------------------------------------------------------------
(* The invariants *)

(* The age of a section: an owner is older than what it owns. *)
Older(age) == \A s, c \in Section : \A k \in Kw : Owns(s, k, c) => age[s] < age[c]
Age == CHOOSE age \in [Section -> 1..Cardinality(Section)] : Older(age)

OpensSection == {"SEC", "VSEC"}
OpensElement == {"VSEC", "VTAB"}
InSection(f) == f.type \in {"TOP"} \cup OpensSection

(* Frame f has been called from frame b for a keyword line; an element     *)
(* gets the number after those in the vector, and is newer than they are.  *)
Called(b, f) ==
  /\ InSection(b) /\ f.type # "TOP"
  /\ f.kw \in DOMAIN Schema[b.sec] /\ Schema[b.sec][f.kw].type = f.type
  /\ f.sec = IF f.type \in OpensSection THEN Schema[b.sec][f.kw].child ELSE b.sec
  /\ f.obj = Append(b.obj, <<f.kw, IF f.type \in OpensElement
                                   THEN Cardinality(Entries(b.obj, f.kw)) + 1 ELSE 0>>)
  /\ f.type \in OpensElement => \A e \in Entries(b.obj, f.kw) : e.line < f.at

(* The i-th frame is for the object the frames below lead to, in a section *)
(* younger than all of theirs.                                             *)
FrameOK(i) ==
  /\ stack[i].at <= ln
  /\ Len(stack[i].obj) = i - 1
  /\ i > 1 => Called(stack[i - 1], stack[i])
  /\ \A j \in 1..i : stack[j].obj = SubSeq(stack[i].obj, 1, j - 1)
  /\ InSection(stack[i]) =>
       /\ Leads(stack[i].obj, stack[i].sec)
       /\ \A j \in 1..(i - 1) : Age[stack[j].sec] < Age[stack[i].sec]
StackOK ==
  /\ stack = <<>> <=> Between
  /\ stack # <<>> => /\ stack[1].type = "TOP" /\ stack[1].sec = Top
                     /\ stack[1].obj = <<>>
  /\ \A i \in DOMAIN stack : FrameOK(i)

DataOK == IsFiniteSet(data) /\ \A e \in data : e.line <= ln

(* Objects something is known of: all their elements are there. *)
Touched == {e.obj : e \in data} \cup {v[1] : v \in inited}
ReachOK == \A o \in Touched : \A j \in DOMAIN o : Built(o, j)

(* A value has the type of the keyword it was given for; a row is in a table. *)
EntryOK(e) ==
  IF e.type = "ROW"
  THEN \E s \in Section : \E o \in Path, n \in Nat :
         /\ Leads(o, s) /\ e.obj = Append(o, <<e.kw, n>>)
         /\ e.kw \in DOMAIN Schema[s] /\ Schema[s][e.kw].type \in {"TABLE", "VTAB"}
  ELSE \E s \in Section :
         /\ Leads(e.obj, s)
         /\ e.kw \in DOMAIN Schema[s] /\ Schema[s][e.kw].type = e.type

(* Sections that describe the elements of a vector *)
ElementSection ==
  {c \in Section : \E s \in Section, k \in Kw : Owns(s, k, c) /\ Schema[s][k].type = "VSEC"}

(* What has been given is marked: in the section being parsed for the      *)
(* current object, and in sections outside of vectors for any.             *)
MarkedIfGiven(G) ==
  /\ \A v \in G : \A s \in Section \ ElementSection : Leads(v[1], s) => v[2] \in marks[s]
  /\ \A v \in G : \A i \in DOMAIN stack :
       InSection(stack[i]) /\ stack[i].obj = v[1] => v[2] \in marks[stack[i].sec]
SingleGiven == {<<e.obj, e.kw>> : e \in {d \in data : d.type \in Single}}
OnceOK ==
  /\ \A e \in data : EntryOK(e)
  /\ \A e \in data : e.type = "VEC" => <<e.obj, e.kw>> \in inited
  /\ MarkedIfGiven(SingleGiven \cup inited)
  /\ OncePerObject

FrameInv == TypeOK /\ StackOK /\ DataOK
ParserInv == FrameInv /\ ReachOK /\ OnceOK

-----------------------------------------------------------------------------
(* What a step does to the stack and the data, whichever action it is *)

(* Nothing *)
NoEffect ==
  /\ UNCHANGED <<stack, marks, inited, data>>
  /\ ln' >= ln /\ (Between' <=> Between)

(* A value, or none, for a keyword without a call *)
Fill ==
  \E k \in DOMAIN Schema[Cur.sec] : \E l \in (ln + 1)..ln' :
    LET t == Schema[Cur.sec][k].type IN
    /\ Running /\ ~InTable /\ ln' > ln
    /\ t \in {"SCALAR", "VEC", "VVEC", "USER"}
    /\ k \notin marks[Cur.sec] \/ t \notin Single \/ (t = "VEC" /\ <<Cur.obj, k>> \notin inited)
    /\ UNCHANGED <<stack, outcome>>
    /\ marks' = [marks EXCEPT ![Cur.sec] = @ \cup {k}]
    /\ inited' = IF t \in {"VEC", "VVEC"} THEN inited \cup {<<Cur.obj, k>>} ELSE inited
    /\ data' = data \cup {Value(Cur.obj, k, t, l)} \/ (t = "VEC" /\ data' = data)

(* The call of a table or a section *)
NewFrame(k) ==
  LET t == Schema[Cur.sec][k].type IN
  [type |-> t,
   sec |-> IF t \in OpensSection THEN Schema[Cur.sec][k].child ELSE Cur.sec,
   obj |-> Append(Cur.obj, <<k, IF t \in OpensElement
                                THEN Cardinality(Entries(Cur.obj, k)) + 1 ELSE 0>>),
   kw |-> k, at |-> ln']
Push ==
  \E k \in DOMAIN Schema[Cur.sec] :
    LET t == Schema[Cur.sec][k].type
        c == Schema[Cur.sec][k].child IN
    /\ Running /\ ~InTable /\ ln' = ln + 1
    /\ t \in {"TABLE"} \cup OpensSection \cup OpensElement
    /\ t = "TABLE" => k \notin marks[Cur.sec]
    /\ stack' = Append(stack, NewFrame(k))
    /\ marks' = IF t = "SEC" THEN marks
                ELSE IF t = "VSEC"
                     THEN [marks EXCEPT ![c] = {}, ![Cur.sec] = @ \cup {k}]
                     ELSE [marks EXCEPT ![Cur.sec] = @ \cup {k}]
    /\ inited' = IF t \in OpensElement THEN inited \cup {<<Cur.obj, k>>} ELSE inited
    /\ data' = IF t = "TABLE" THEN data \cup {Value(Cur.obj, k, "TABLE", ln')} ELSE data
    /\ UNCHANGED outcome

(* A row *)
RowStep ==
  /\ Running /\ InTable /\ ln' = ln + 1
  /\ data' = data \cup {RowRead}
  /\ UNCHANGED <<stack, marks, inited, outcome>>

(* The return of the innermost call *)
Pop ==
  /\ Running /\ ln' >= ln
  /\ \E row \in {{}, {RowRead}} :
       /\ row # {} => InTable /\ ln' = ln + 1
       /\ Return(row)

LEMMA StepShape ==
  TypeOK /\ [Next]_vars => NoEffect \/ ParseFile \/ Fill \/ Push \/ RowStep \/ Pop
<1> SUFFICES ASSUME TypeOK, [Next]_vars
             PROVE  NoEffect \/ ParseFile \/ Fill \/ Push \/ RowStep \/ Pop
  OBVIOUS
<1> USE DEF Between, Running
<1>1. ln \in Nat
  BY ParserAssumption DEF TypeOK
<1>2. ASSUME NEW k \in Kw, Unknown(k) \/ Duplicate(k) \/ BadValue(k) \/ UserWithoutConversion(k)
      PROVE  NoEffect
  BY <1>1, <1>2 DEF Unknown, Duplicate, BadValue, UserWithoutConversion, Accept, Known,
     Keyword, ReadLine, Fail, NoEffect
<1>3. CASE Discard \/ TableComment \/ BadRow \/ Terminated \/ UNCHANGED vars
  BY <1>1, <1>3 DEF Discard, TableComment, BadRow, Terminated, vars, ReadLine, Fail, NoEffect
<1>4. ASSUME NEW k \in Kw, Scalar(k)
      PROVE  Fill
  <2> DEFINE t == Schema[Cur.sec][k].type
  <2>1. /\ k \in DOMAIN Schema[Cur.sec] /\ ln' = ln + 1 /\ Running /\ ~InTable
        /\ t = "SCALAR" /\ Item = Schema[Cur.sec][k]
    BY <1>4 DEF Scalar, Accept, Known, Keyword, ReadLine, Item
  <2>2. /\ UNCHANGED <<stack, outcome, inited>>
        /\ marks' = [marks EXCEPT ![Cur.sec] = @ \cup {k}]
        /\ data' = data \cup {Value(Cur.obj, k, t, ln')}
    BY <1>4, <2>1 DEF Scalar, SetMark
  <2>3. k \notin marks[Cur.sec]
    BY <1>4, <2>1 DEF Scalar, Accept, IsDuplicate, ParsedMark
  <2>4. ln' \in (ln + 1)..ln' /\ ln' > ln
    BY <1>1, <2>1
  <2> QED BY <2>1, <2>2, <2>3, <2>4 DEF Fill
<1>5. ASSUME NEW k \in Kw, Vector(k)
      PROVE  Fill
  <2> DEFINE t == Schema[Cur.sec][k].type
  <2>1. /\ k \in DOMAIN Schema[Cur.sec] /\ ln' = ln + 1 /\ Running /\ ~InTable
        /\ t \in {"VEC", "VVEC"} /\ Item = Schema[Cur.sec][k]
    BY <1>5 DEF Vector, Accept, Known, Keyword, ReadLine, Item
  <2>2. /\ UNCHANGED <<stack, outcome>>
        /\ marks' = [marks EXCEPT ![Cur.sec] = @ \cup {k}]
        /\ inited' = inited \cup {<<Cur.obj, k>>}
        /\ data' = data \cup {Value(Cur.obj, k, t, ln')} \/ (t = "VEC" /\ data' = data)
    BY <1>5, <2>1 DEF Vector, SetMark, InitVec
  <2>3. k \notin marks[Cur.sec] \/ t \notin Single \/ (t = "VEC" /\ <<Cur.obj, k>> \notin inited)
    BY <1>5, <2>1 DEF Vector, Accept, IsDuplicate, ParsedMark, Single
  <2>4. ln' \in (ln + 1)..ln' /\ ln' > ln
    BY <1>1, <2>1
  <2> QED BY <2>1, <2>2, <2>3, <2>4 DEF Fill
<1>6. ASSUME NEW k \in Kw, User(k)
      PROVE  Fill
  <2> DEFINE t == Schema[Cur.sec][k].type
  <2>1. PICK n \in 0..MaxUser : ln' = ln + 1 + n
    BY <1>6 DEF User
  <2>2. n \in Nat
    BY <2>1, ParserAssumption
  <2>3. ln' > ln /\ ln + 1 \in (ln + 1)..ln'
    BY <1>1, <2>1, <2>2
  <2>4. /\ k \in DOMAIN Schema[Cur.sec] /\ Running /\ ~InTable
        /\ t = "USER"
        /\ UNCHANGED <<stack, outcome, inited>>
        /\ marks' = [marks EXCEPT ![Cur.sec] = @ \cup {k}]
        /\ data' = data \cup {Value(Cur.obj, k, t, ln + 1)}
    BY <1>6 DEF User, Item, SetMark
  <2> QED BY <2>3, <2>4 DEF Fill, Single
<1>7. ASSUME NEW k \in Kw, Table(k) \/ TableOfVector(k) \/ Subsection(k) \/ Element(k)
      PROVE  Push
  <2>1. /\ k \in DOMAIN Schema[Cur.sec] /\ ln' = ln + 1 /\ Running /\ ~InTable
        /\ Item = Schema[Cur.sec][k]
    BY <1>7 DEF Table, TableOfVector, Subsection, Element, Accept, Known, Keyword, ReadLine, Item
  <2>2. CASE Table(k)
    <3>1. k \notin marks[Cur.sec]
      BY <2>2 DEF Table, Accept, IsDuplicate, ParsedMark
    <3> QED BY <2>1, <2>2, <3>1 DEF Table, Call, SetMark, Push, NewFrame, OpensSection, OpensElement
  <2>3. CASE TableOfVector(k)
    BY <2>1, <2>3 DEF TableOfVector, Call, SetMark, InitVec, NextElement, Push, NewFrame,
       OpensSection, OpensElement
  <2>4. CASE Subsection(k)
    BY <2>1, <2>4 DEF Subsection, Call, Push, NewFrame, OpensSection, OpensElement
  <2>5. CASE Element(k)
    BY <2>1, <2>5 DEF Element, Call, InitVec, NextElement, Restored, Push, NewFrame,
       OpensSection, OpensElement
  <2> QED BY <1>7, <2>2, <2>3, <2>4, <2>5
<1>8. CASE Row
  BY <1>8 DEF Row, ReadLine, RowStep
<1>9. CASE EndLine \/ LastRow \/ ReturnAtEof
  BY <1>1, <1>9 DEF EndLine, LastRow, ReturnAtEof, ReadLine, Pop
<1> QED BY <1>2, <1>3, <1>4, <1>5, <1>6, <1>7, <1>8, <1>9 DEF Next

(* The variables that count lines and calls *)
LEMMA ControlTyped ==
  TypeOK /\ [Next]_vars =>
    /\ ln' \in 0..MaxLines /\ ln' >= ln /\ eof' \in BOOLEAN /\ key' \in Kw
    /\ parses' \in 0..MaxParses /\ outcome' \in Outcome
<1> SUFFICES ASSUME TypeOK, [Next]_vars
             PROVE  /\ ln' \in 0..MaxLines /\ ln' >= ln /\ eof' \in BOOLEAN /\ key' \in Kw
                    /\ parses' \in 0..MaxParses /\ outcome' \in Outcome
  OBVIOUS
<1>1. /\ ln \in 0..MaxLines /\ eof \in BOOLEAN /\ key \in Kw /\ MaxLines \in Nat
      /\ parses \in 0..MaxParses /\ outcome \in Outcome /\ MaxParses \in Nat
  BY ParserAssumption DEF TypeOK
<1>2. ln' \in 0..MaxLines /\ ln' >= ln
  BY <1>1 DEF Next, vars, ReadLine, Keyword, Known, Accept, Unknown, Duplicate, BadValue, Scalar,
     Vector, Table, TableOfVector, Subsection, Element, User, UserWithoutConversion, Discard,
     TableComment, Row, BadRow, EndLine, LastRow, ReturnAtEof, ParseFile, Terminated
<1>3. eof' \in BOOLEAN
  BY <1>1, Zenon DEF Next, vars, ReadLine, Keyword, Known, Accept, Unknown, Duplicate, BadValue, Scalar,
     Vector, Table, TableOfVector, Subsection, Element, User, UserWithoutConversion, Discard,
     TableComment, Row, BadRow, EndLine, LastRow, ReturnAtEof, ParseFile, Terminated
<1>4. key' \in Kw
  BY <1>1 DEF Next, vars, Keyword, Known, Accept, Unknown, Duplicate, BadValue, Scalar,
     Vector, Table, TableOfVector, Subsection, Element, User, UserWithoutConversion, Discard,
     TableComment, Row, BadRow, EndLine, LastRow, ReturnAtEof, Return, ParseFile, Terminated
<1>5. parses' \in 0..MaxParses
  BY <1>1 DEF Next, vars, ReadLine, Keyword, Known, Accept, Unknown, Duplicate, BadValue, Scalar,
     Vector, Table, TableOfVector, Subsection, Element, User, UserWithoutConversion, Discard,
     TableComment, Row, BadRow, EndLine, LastRow, ReturnAtEof, ParseFile, Terminated
<1>6. outcome' \in Outcome
  BY <1>1 DEF Outcome, Next, vars, Fail, Unknown, Duplicate, BadValue, Scalar,
     Vector, Table, TableOfVector, Subsection, Element, User, UserWithoutConversion, Discard,
     TableComment, Row, BadRow, EndLine, LastRow, ReturnAtEof, Return, Parsed, ParseFile, Terminated
<1> QED BY <1>2, <1>3, <1>4, <1>5, <1>6

-----------------------------------------------------------------------------
(* Frames and entries *)

LEMMA EntriesFinite ==
  ASSUME DataOK, NEW o, NEW k
  PROVE  IsFiniteSet(Entries(o, k)) /\ Cardinality(Entries(o, k)) \in Nat
<1>1. Entries(o, k) \in SUBSET data
  BY DEF Entries
<1>2. IsFiniteSet(Entries(o, k))
  BY <1>1, FS_Subset DEF DataOK
<1> QED BY <1>2, FS_CardinalityType

LEMMA EntriesGrow ==
  ASSUME DataOK', data \subseteq data', NEW CONSTANT o, NEW CONSTANT k
  PROVE  Cardinality(Entries(o, k)) <= Cardinality(Entries(o, k)')
<1>1. Entries(o, k)' \in SUBSET data' /\ Entries(o, k) \in SUBSET Entries(o, k)'
  BY DEF Entries
<1>2. IsFiniteSet(Entries(o, k)')
  BY <1>1, FS_Subset DEF DataOK
<1> QED BY <1>1, <1>2, FS_Subset

LEMMA CurFacts ==
  ASSUME FrameInv, Running
  PROVE  /\ Len(stack) \in Nat \ {0} /\ DOMAIN stack = 1..Len(stack)
         /\ Len(stack) \in DOMAIN stack
         /\ Cur \in Frame /\ Len(Cur.obj) = Len(stack) - 1
         /\ Cur.obj \in Path /\ Cur.sec \in Section /\ Cur.kw \in Kw /\ Cur.at <= ln
         /\ \A j \in 1..Len(stack) : stack[j].obj = SubSeq(Cur.obj, 1, j - 1)
         /\ Len(stack) = 1 <=> Cur.type = "TOP"
         /\ Len(stack) > 1 => /\ Caller \in Frame /\ Caller.obj \in Path /\ Caller.sec \in Section
                              /\ Len(stack) - 1 \in DOMAIN stack
                              /\ Called(Caller, Cur) /\ InSection(Caller)
         /\ ~InTable <=> InSection(Cur)
<1>1. stack \in Seq(Frame) /\ stack # <<>>
  BY DEF FrameInv, TypeOK
<1>2. /\ Len(stack) \in Nat \ {0} /\ DOMAIN stack = 1..Len(stack)
      /\ Len(stack) \in DOMAIN stack
  BY <1>1
<1>3. Cur \in Frame
  BY <1>1, <1>2 DEF Cur
<1>4. Len(stack) > 1 => /\ Caller \in Frame /\ Len(stack) - 1 \in DOMAIN stack
                        /\ Called(Caller, Cur)
  BY <1>1, <1>2 DEF Cur, Caller, FrameInv, StackOK, FrameOK
<1>5. Len(stack) = 1 => Cur.type = "TOP"
  BY <1>1, <1>2 DEF Cur, FrameInv, StackOK
<1>6. /\ Len(Cur.obj) = Len(stack) - 1 /\ Cur.at <= ln
      /\ \A j \in 1..Len(stack) : stack[j].obj = SubSeq(Cur.obj, 1, j - 1)
  BY <1>2 DEF Cur, FrameInv, StackOK, FrameOK
<1>7. ~InTable <=> InSection(Cur)
  BY <1>3 DEF InTable, InSection, OpensSection, Frame
<1>8. Len(stack) = 1 <=> Cur.type = "TOP"
  BY <1>2, <1>4, <1>5 DEF Called
<1>9. Cur.obj \in Path /\ Cur.sec \in Section /\ Cur.kw \in Kw
  BY <1>3 DEF Frame
<1>10. Len(stack) > 1 => Caller.obj \in Path /\ Caller.sec \in Section /\ InSection(Caller)
  BY <1>4 DEF Frame, Called
<1> QED BY <1>2, <1>3, <1>4, <1>6, <1>7, <1>8, <1>9, <1>10

(* The frame a keyword line opens *)
LEMMA NewFrameFacts ==
  ASSUME FrameInv, Running, ~InTable, NEW k \in DOMAIN Schema[Cur.sec],
         Schema[Cur.sec][k].type \in {"TABLE"} \cup OpensSection \cup OpensElement,
         ln' \in Nat, ln' > ln
  PROVE  /\ NewFrame(k) \in Frame /\ Len(NewFrame(k).obj) = Len(stack)
         /\ \A j \in 0..(Len(stack) - 1) : SubSeq(NewFrame(k).obj, 1, j) = SubSeq(Cur.obj, 1, j)
         /\ SubSeq(NewFrame(k).obj, 1, Len(stack)) = NewFrame(k).obj
         /\ Called(Cur, NewFrame(k))
<1> DEFINE t == Schema[Cur.sec][k].type
           n == IF t \in OpensElement THEN Cardinality(Entries(Cur.obj, k)) + 1 ELSE 0
           o == Append(Cur.obj, <<k, n>>)
<1>1. /\ Cur.obj \in Path /\ Cur.sec \in Section /\ Len(Cur.obj) = Len(stack) - 1
      /\ InSection(Cur) /\ Len(stack) \in Nat \ {0}
  BY CurFacts
<1>2. k \in Kw /\ Schema[Cur.sec][k].child \in Section
  BY <1>1, ParserAssumption
<1>3. n \in Nat
  BY EntriesFinite DEF FrameInv
<1> HIDE DEF n
<1>4. /\ o \in Path /\ Len(o) = Len(Cur.obj) + 1
      /\ \A j \in 0..Len(Cur.obj) : SubSeq(o, 1, j) = SubSeq(Cur.obj, 1, j)
  BY <1>1, <1>2, <1>3, PathAppend
<1>5. SubSeq(o, 1, Len(o)) = o
  BY <1>4, SubSeqFull DEF Path
<1> HIDE DEF o
<1>6. NewFrame(k) = [type |-> t, sec |-> IF t \in OpensSection THEN Schema[Cur.sec][k].child
                                         ELSE Cur.sec,
                     obj |-> o, kw |-> k, at |-> ln']
  BY DEF NewFrame, o, n
<1>7. NewFrame(k) \in Frame
  BY <1>1, <1>2, <1>4, <1>6 DEF Frame, OpensSection, OpensElement
<1>8. Called(Cur, NewFrame(k))
  <2>1. t # "TOP"
    BY DEF OpensSection, OpensElement
  <2>2. \A e \in Entries(Cur.obj, k) : e.line < ln'
    <3>1. \A e \in data : e.line \in Nat /\ e.line <= ln
      BY DEF FrameInv, DataOK, TypeOK, Entry
    <3>2. ln \in Nat
      BY ParserAssumption DEF FrameInv, TypeOK
    <3> QED BY <3>1, <3>2 DEF Entries
  <2> QED BY <1>1, <1>6, <2>1, <2>2 DEF Called, o, n
<1>9. NewFrame(k).obj = o /\ Len(o) = Len(stack)
  BY <1>1, <1>4, <1>6
<1>10. \A j \in 0..(Len(stack) - 1) : SubSeq(o, 1, j) = SubSeq(Cur.obj, 1, j)
  BY <1>1, <1>4
<1>11. SubSeq(o, 1, Len(stack)) = o
  BY <1>5, <1>9
<1> QED BY <1>7, <1>8, <1>9, <1>10, <1>11

(* Frames that stay where they are are not disturbed by values of objects  *)
(* further in.                                                             *)
LEMMA FramesStay ==
  ASSUME FrameInv, NEW m \in 0..Len(stack), ln' \in Nat, ln' >= ln,
         \A i \in 1..m : stack'[i] = stack[i],
         \A e \in data' : e \in data \/ Len(e.obj) >= m - 1,
         data \subseteq data',
         NEW i \in 1..m
  PROVE  FrameOK(i)'
<1>1. stack \in Seq(Frame) /\ Len(stack) \in Nat /\ ln \in Nat
  BY ParserAssumption DEF FrameInv, TypeOK
<1>2. i \in DOMAIN stack /\ FrameOK(i) /\ stack[i].at \in Nat
  <2>1. i \in DOMAIN stack
    BY <1>1
  <2>2. stack[i] \in Frame
    BY <1>1, <2>1
  <2> QED BY <2>1, <2>2 DEF FrameInv, StackOK, Frame
<1>3. i > 1 => Called(stack[i - 1], stack[i])'
  <2> SUFFICES ASSUME i > 1 PROVE Called(stack[i - 1], stack[i])'
    OBVIOUS
  <2> DEFINE b == stack[i - 1]
             f == stack[i]
  <2>1. i - 1 \in 1..m /\ i - 1 \in DOMAIN stack
    BY <1>1
  <2>2. stack'[i - 1] = b /\ stack'[i] = f
    BY <2>1
  <2>3. Len(b.obj) = i - 2
    BY <2>1 DEF FrameInv, StackOK, FrameOK
  <2>4. Entries(b.obj, f.kw)' = Entries(b.obj, f.kw)
    <3>1. \A e \in data' : e.obj = b.obj => e \in data
      BY <1>1, <2>3
    <3> QED BY <2>2, <3>1 DEF Entries
  <2>5. Called(b, f)
    BY <1>2 DEF FrameOK
  <2> QED BY <2>2, <2>4, <2>5 DEF Called, InSection
<1>4. stack'[i] = stack[i] /\ \A j \in 1..i : stack'[j] = stack[j]
  BY <1>1
<1>5. stack'[i].at <= ln'
  BY <1>1, <1>2, <1>4 DEF FrameOK
<1>6. i > 1 => Called(stack[i - 1], stack[i])'
  BY <1>3
<1>7. /\ Len(stack'[i].obj) = i - 1
      /\ \A j \in 1..i : stack'[j].obj = SubSeq(stack'[i].obj, 1, j - 1)
  BY <1>2, <1>4 DEF FrameOK
<1>8. InSection(stack'[i]) =>
        /\ Leads(stack'[i].obj, stack'[i].sec)
        /\ \A j \in 1..(i - 1) : Age[stack'[j].sec] < Age[stack'[i].sec]
  <2>1. \A j \in 1..(i - 1) : j \in 1..i
    BY <1>1
  <2> QED BY <1>2, <1>4, <2>1 DEF FrameOK
<1> QED BY <1>5, <1>6, <1>7, <1>8 DEF FrameOK, InSection

(* Values of the current object, or of one further in *)
LEMMA NewValues ==
  ASSUME FrameInv, ln' \in Nat, ln' >= ln, NEW N, IsFiniteSet(N), N \subseteq Entry,
         \A e \in N : e.line <= ln', data' = data \cup N
  PROVE  DataOK' /\ data' \subseteq Entry /\ data \subseteq data'
<1>1. /\ IsFiniteSet(data) /\ data \subseteq Entry /\ ln \in Nat
      /\ \A e \in data : e.line <= ln
  BY ParserAssumption DEF FrameInv, TypeOK, DataOK
<1>2. IsFiniteSet(data')
  BY <1>1, FS_Union
<1>3. \A e \in data' : e.line <= ln'
  BY <1>1 DEF Entry
<1> QED BY <1>1, <1>2, <1>3 DEF DataOK

LEMMA ValueTyped ==
  ASSUME NEW o \in Path, NEW k \in Kw, NEW t \in Type \cup {"ROW"}, NEW l \in Nat
  PROVE  /\ Value(o, k, t, l) \in Entry
         /\ Value(o, k, t, l).obj = o /\ Value(o, k, t, l).kw = k
         /\ Value(o, k, t, l).type = t /\ Value(o, k, t, l).line = l
BY DEF Value, Entry

LEMMA FillKeepsFrames ==
  ASSUME FrameInv, [Next]_vars, Fill
  PROVE  FrameInv'
<1>1. PICK k \in DOMAIN Schema[Cur.sec] : \E l \in (ln + 1)..ln' :
        LET t == Schema[Cur.sec][k].type IN
        /\ Running /\ UNCHANGED <<stack, outcome>>
        /\ marks' = [marks EXCEPT ![Cur.sec] = @ \cup {k}]
        /\ inited' = IF t \in {"VEC", "VVEC"} THEN inited \cup {<<Cur.obj, k>>} ELSE inited
        /\ data' = data \cup {Value(Cur.obj, k, t, l)} \/ (t = "VEC" /\ data' = data)
  BY DEF Fill
<1> DEFINE t == Schema[Cur.sec][k].type
<1>2. PICK l \in (ln + 1)..ln' :
        data' = data \cup {Value(Cur.obj, k, t, l)} \/ (t = "VEC" /\ data' = data)
  BY <1>1
<1>3. /\ ln' \in 0..MaxLines /\ ln' >= ln /\ eof' \in BOOLEAN /\ key' \in Kw
      /\ parses' \in 0..MaxParses /\ outcome' \in Outcome /\ ln \in Nat /\ ln' \in Nat
  BY ControlTyped, ParserAssumption DEF FrameInv, TypeOK
<1>4. /\ Cur.obj \in Path /\ Cur.sec \in Section /\ Len(Cur.obj) = Len(stack) - 1
      /\ Len(stack) \in Nat
  BY <1>1, CurFacts
<1>5. k \in Kw /\ t \in Type /\ l \in Nat /\ l <= ln'
  BY <1>2, <1>3, <1>4, ParserAssumption
<1> HIDE DEF t
<1>6. PICK N : /\ data' = data \cup N /\ IsFiniteSet(N) /\ N \subseteq Entry
               /\ \A e \in N : e.line <= ln' /\ e.obj = Cur.obj
  <2>1. CASE data' = data
    BY <2>1, FS_EmptySet
  <2>2. CASE data' = data \cup {Value(Cur.obj, k, t, l)}
    <3> DEFINE N == {Value(Cur.obj, k, t, l)}
    <3>1. IsFiniteSet(N)
      BY FS_Singleton
    <3>2. N \subseteq Entry /\ \A e \in N : e.line <= ln' /\ e.obj = Cur.obj
      BY <1>4, <1>5, ValueTyped
    <3> HIDE DEF N
    <3>3. data' = data \cup N
      BY <2>2 DEF N
    <3> QED BY <3>1, <3>2, <3>3
  <2> QED BY <1>2, <2>1, <2>2
<1>7. DataOK' /\ data' \subseteq Entry /\ data \subseteq data'
  BY <1>3, <1>6, NewValues
<1>8. TypeOK'
  <2>1. marks' \in [Section -> SUBSET Kw]
    BY <1>1, <1>4, <1>5 DEF FrameInv, TypeOK
  <2>2. inited' \subseteq Path \X Kw
    BY <1>1, <1>4, <1>5 DEF FrameInv, TypeOK
  <2>3. stack' \in Seq(Frame) /\ (Running' => stack' # <<>>)
    BY <1>1 DEF FrameInv, TypeOK, Running
  <2> QED BY <1>3, <1>7, <2>1, <2>2, <2>3 DEF TypeOK
<1>9. StackOK'
  <2>1. \A i \in 1..Len(stack) : FrameOK(i)'
    <3>1. \A e \in data' : e \in data \/ Len(e.obj) >= Len(stack) - 1
      BY <1>4, <1>6
    <3>2. \A i \in 1..Len(stack) : stack'[i] = stack[i]
      BY <1>1
    <3> QED BY <1>3, <1>4, <1>7, <3>1, <3>2, FramesStay
  <2>2. DOMAIN stack' = 1..Len(stack)
    BY <1>1, CurFacts
  <2> QED BY <1>1, <2>1, <2>2 DEF FrameInv, StackOK, Between
<1> QED BY <1>7, <1>8, <1>9 DEF FrameInv

LEMMA RowKeepsFrames ==
  ASSUME FrameInv, [Next]_vars, RowStep
  PROVE  FrameInv'
<1>1. /\ ln' \in 0..MaxLines /\ ln' >= ln /\ eof' \in BOOLEAN /\ key' \in Kw
      /\ parses' \in 0..MaxParses /\ outcome' \in Outcome /\ ln' \in Nat
  BY ControlTyped, ParserAssumption DEF FrameInv, TypeOK
<1>2. Cur.obj \in Path /\ Cur.kw \in Kw /\ Len(Cur.obj) = Len(stack) - 1 /\ Len(stack) \in Nat
  BY CurFacts DEF RowStep
<1> DEFINE e == Value(Cur.obj, Cur.kw, "ROW", ln')
<1>3. e \in Entry /\ e.line = ln' /\ e.obj = Cur.obj
  <2>1. "ROW" \in Type \cup {"ROW"} /\ ln' \in Nat
    BY <1>1
  <2> QED BY <1>2, <2>1 DEF Value, Entry
<1>4. data' = data \cup {e} /\ UNCHANGED <<stack, marks, inited, outcome>>
  BY DEF RowStep, RowRead
<1> HIDE DEF e
<1>5. DataOK' /\ data' \subseteq Entry /\ data \subseteq data'
  <2> DEFINE N == {e}
  <2>1. IsFiniteSet(N)
    BY FS_Singleton
  <2>3. N \subseteq Entry /\ \A x \in N : x.line <= ln'
    BY <1>1, <1>3
  <2>2. data' = data \cup N
    BY <1>4
  <2> HIDE DEF N
  <2> QED BY <1>1, <2>1, <2>2, <2>3, NewValues
<1>6. TypeOK'
  BY <1>1, <1>4, <1>5 DEF FrameInv, TypeOK, Running
<1>7. StackOK'
  <2>1. \A i \in 1..Len(stack) : FrameOK(i)'
    <3>1. \A x \in data' : x \in data \/ Len(x.obj) >= Len(stack) - 1
      BY <1>2, <1>3, <1>4
    <3>2. \A i \in 1..Len(stack) : stack'[i] = stack[i]
      BY <1>4
    <3> QED BY <1>1, <1>2, <1>5, <3>1, <3>2, FramesStay
  <2>2. DOMAIN stack' = 1..Len(stack)
    BY <1>4, CurFacts DEF RowStep
  <2> QED BY <1>4, <2>1, <2>2 DEF FrameInv, StackOK, Between
<1> QED BY <1>5, <1>6, <1>7 DEF FrameInv

LEMMA AgeFacts ==
  Age \in [Section -> 1..Cardinality(Section)] /\ Older(Age)
<1>1. \E age \in [Section -> 1..Cardinality(Section)] : Older(age)
  BY TreeAssumption DEF Older
<1> QED BY <1>1 DEF Age

LEMMA PushKeepsFrames ==
  ASSUME FrameInv, [Next]_vars, Push
  PROVE  FrameInv'
<1>0. PICK n : n = Len(stack)
  OBVIOUS
<1>1. /\ ln' \in 0..MaxLines /\ ln' >= ln /\ eof' \in BOOLEAN /\ key' \in Kw
      /\ parses' \in 0..MaxParses /\ outcome' \in Outcome /\ ln \in Nat /\ ln' \in Nat
  BY ControlTyped, ParserAssumption DEF FrameInv, TypeOK
<1>2. PICK k \in DOMAIN Schema[Cur.sec] :
        LET t == Schema[Cur.sec][k].type
            c == Schema[Cur.sec][k].child IN
        /\ Running /\ ~InTable /\ ln' = ln + 1
        /\ t \in {"TABLE"} \cup OpensSection \cup OpensElement
        /\ stack' = Append(stack, NewFrame(k))
        /\ marks' = IF t = "SEC" THEN marks
                    ELSE IF t = "VSEC"
                         THEN [marks EXCEPT ![c] = {}, ![Cur.sec] = @ \cup {k}]
                         ELSE [marks EXCEPT ![Cur.sec] = @ \cup {k}]
        /\ inited' = IF t \in OpensElement THEN inited \cup {<<Cur.obj, k>>} ELSE inited
        /\ data' = IF t = "TABLE" THEN data \cup {Value(Cur.obj, k, "TABLE", ln')} ELSE data
        /\ UNCHANGED outcome
  BY DEF Push
<1> DEFINE t == Schema[Cur.sec][k].type
           c == Schema[Cur.sec][k].child
           F == NewFrame(k)
<1>3. /\ Cur.obj \in Path /\ Cur.sec \in Section /\ Len(Cur.obj) = n - 1
      /\ n \in Nat \ {0} /\ InSection(Cur) /\ Cur = stack[n]
      /\ \A j \in 1..n : stack[j].obj = SubSeq(Cur.obj, 1, j - 1)
      /\ stack \in Seq(Frame) /\ DOMAIN stack = 1..n
  BY <1>0, <1>2, CurFacts DEF Cur, FrameInv, TypeOK
<1>4. k \in Kw /\ t \in Type /\ c \in Section
  BY <1>3, ParserAssumption
<1>5. /\ F \in Frame /\ Len(F.obj) = n
      /\ \A j \in 0..(n - 1) : SubSeq(F.obj, 1, j) = SubSeq(Cur.obj, 1, j)
      /\ SubSeq(F.obj, 1, n) = F.obj
      /\ Called(Cur, F)
  BY <1>0, <1>1, <1>2, NewFrameFacts
<1>6. PICK N : /\ data' = data \cup N /\ IsFiniteSet(N) /\ N \subseteq Entry
               /\ \A e \in N : e.line <= ln' /\ e.obj = Cur.obj
               /\ t # "TABLE" => N = {}
  <2>1. CASE t # "TABLE"
    BY <1>2, <2>1, FS_EmptySet
  <2>2. CASE t = "TABLE"
    <3> DEFINE N == {Value(Cur.obj, k, "TABLE", ln')}
    <3>1. IsFiniteSet(N)
      BY FS_Singleton
    <3>2. N \subseteq Entry /\ \A e \in N : e.line <= ln' /\ e.obj = Cur.obj
      BY <1>1, <1>3, <1>4, ValueTyped DEF Type, Single
    <3>3. data' = data \cup N
      BY <1>2, <2>2
    <3> HIDE DEF N
    <3> QED BY <2>2, <3>1, <3>2, <3>3
  <2> QED BY <2>1, <2>2
<1>7. DataOK' /\ data' \subseteq Entry /\ data \subseteq data'
  BY <1>1, <1>6, NewValues
<1>8. /\ stack' \in Seq(Frame) /\ Len(stack') = n + 1 /\ stack'[n + 1] = F
      /\ \A i \in 1..n : stack'[i] = stack[i]
      /\ DOMAIN stack' = 1..(n + 1)
  <2> HIDE DEF F
  <2>1. stack' = Append(stack, F)
    BY <1>2 DEF F
  <2> QED BY <1>0, <1>3, <1>5, <2>1
<1>9. TypeOK'
  <2>1. marks' \in [Section -> SUBSET Kw]
    BY <1>2, <1>3, <1>4 DEF FrameInv, TypeOK
  <2>2. inited' \subseteq Path \X Kw
    BY <1>2, <1>3, <1>4 DEF FrameInv, TypeOK
  <2>3. stack' # <<>>
    BY <1>3, <1>8
  <2> QED BY <1>1, <1>7, <1>8, <2>1, <2>2, <2>3 DEF TypeOK
<1>10. ASSUME NEW i \in 1..n
       PROVE  FrameOK(i)'
  <2>1. \A e \in data' : e \in data \/ Len(e.obj) >= n - 1
    BY <1>3, <1>6
  <2>2. n \in 0..Len(stack) /\ \A j \in 1..n : stack'[j] = stack[j]
    BY <1>0, <1>3, <1>8
  <2> QED BY <1>1, <1>7, <2>1, <2>2, FramesStay
<1> HIDE DEF F
<1>11. F.type = t /\ F.kw = k /\ F.at = ln' /\ (t \in OpensSection => F.sec = c)
       /\ (InSection(F) <=> t \in OpensSection)
  <2>1. F.type = t /\ F.kw = k /\ F.at = ln' /\ (t \in OpensSection => F.sec = c)
    BY DEF F, NewFrame
  <2>2. t # "TOP"
    BY <1>5, <2>1 DEF Called
  <2> QED BY <2>1, <2>2 DEF InSection
<1>12. Called(stack[n + 1 - 1], stack[n + 1])'
  <2>1. n + 1 - 1 = n /\ stack'[n + 1 - 1] = Cur /\ stack'[n + 1] = F
    BY <1>3, <1>8
  <2>2. F.type \in OpensElement => data' = data
    BY <1>6, <1>11 DEF OpensElement
  <2> DEFINE f == stack[n + 1]
             b == stack[n + 1 - 1]
  <2>3. /\ InSection(b)' /\ f'.type # "TOP"
        /\ f'.kw \in DOMAIN Schema[b'.sec] /\ Schema[b'.sec][f'.kw].type = f'.type
        /\ f'.sec = IF f'.type \in OpensSection THEN Schema[b'.sec][f'.kw].child ELSE b'.sec
    BY <1>5, <2>1 DEF Called, InSection
  <2>4. CASE F.type \in OpensElement
    <3>1. Entries(b.obj, f.kw)' = Entries(Cur.obj, F.kw)
      BY <2>1, <2>2, <2>4 DEF Entries
    <3> QED BY <1>5, <2>1, <2>3, <3>1 DEF Called
  <2>5. CASE F.type \notin OpensElement
    BY <1>5, <2>1, <2>3, <2>5 DEF Called
  <2> QED BY <2>4, <2>5
<1>13. FrameOK(n + 1)'
  <2>1. stack'[n + 1].at <= ln'
    BY <1>1, <1>8, <1>11
  <2>2. Len(stack'[n + 1].obj) = (n + 1) - 1
    BY <1>3, <1>5, <1>8
  <2>3. \A j \in 1..(n + 1) : stack'[j].obj = SubSeq(stack'[n + 1].obj, 1, j - 1)
    <3> TAKE j \in 1..(n + 1)
    <3>1. CASE j = n + 1
      BY <1>3, <1>5, <1>8, <3>1
    <3>2. CASE j \in 1..n
      <4>1. j - 1 \in 0..(n - 1)
        BY <1>3, <3>2
      <4> QED BY <1>3, <1>5, <1>8, <3>2, <4>1
    <3> QED BY <1>3, <3>1, <3>2
  <2>4. ASSUME t \in OpensSection
        PROVE  /\ Leads(F.obj, c)
               /\ \A j \in 1..n : Age[stack[j].sec] < Age[c]
    <3>1. Owns(Cur.sec, k, c) /\ F.sec = c
      BY <1>11, <2>4 DEF Owns, OpensSection
    <3>2. /\ Leads(Cur.obj, Cur.sec)
          /\ \A j \in 1..(n - 1) : Age[stack[j].sec] < Age[Cur.sec]
      <4>1. n \in DOMAIN stack
        BY <1>3
      <4>2. FrameOK(n)
        BY <4>1 DEF FrameInv, StackOK
      <4> QED BY <1>3, <4>2 DEF FrameOK
    <3>3. PICK i \in Nat : F.obj = Append(Cur.obj, <<k, i>>) /\ (t = "SEC" <=> i = 0)
      <4>1. /\ Cardinality(Entries(Cur.obj, k)) + 1 \in Nat
            /\ Cardinality(Entries(Cur.obj, k)) + 1 # 0
        BY EntriesFinite DEF FrameInv
      <4> QED BY <1>5, <1>11, <2>4, <4>1 DEF Called, OpensElement, OpensSection
    <3>4. Leads(F.obj, c)
      BY <1>3, <1>4, <3>1, <3>2, <3>3, LeadsAppend
    <3>5. Age[Cur.sec] < Age[c] /\ Age \in [Section -> Int]
      BY <1>3, <1>4, <3>1, AgeFacts DEF Older
    <3>6. \A j \in 1..n : stack[j].sec \in Section
      <4>1. \A j \in 1..n : stack[j] \in Frame
        BY <1>3, ElementOfSeq
      <4> QED BY <4>1 DEF Frame
    <3>7. \A j \in 1..n : Age[stack[j].sec] < Age[c]
      <4> TAKE j \in 1..n
      <4>1. CASE j = n
        BY <1>3, <3>5, <4>1
      <4>2. CASE j \in 1..(n - 1)
        <5>1. Age[stack[j].sec] \in Int /\ Age[Cur.sec] \in Int /\ Age[c] \in Int
          BY <1>3, <1>4, <3>5, <3>6
        <5> QED BY <3>2, <3>5, <4>2, <5>1
      <4> QED BY <1>3, <4>1, <4>2
    <3> QED BY <3>4, <3>7
  <2>6. InSection(stack'[n + 1]) =>
          /\ Leads(stack'[n + 1].obj, stack'[n + 1].sec)
          /\ \A j \in 1..n : Age[stack'[j].sec] < Age[stack'[n + 1].sec]
    BY <1>8, <1>11, <2>4
  <2>7. (n + 1) - 1 = n
    BY <1>3
  <2> QED BY <1>12, <2>1, <2>2, <2>3, <2>6, <2>7 DEF FrameOK, InSection
<1>14. StackOK'
  <2>1. ASSUME NEW i \in DOMAIN stack'
        PROVE  FrameOK(i)'
    <3>1. i \in 1..n \/ i = n + 1
      BY <1>3, <1>8
    <3> QED BY <1>10, <1>13, <3>1
  <2>2. stack' # <<>> /\ ~Between'
    BY <1>2, <1>3, <1>8 DEF Between, Running
  <2>3. stack'[1] = stack[1] /\ stack # <<>>
    <3>1. 1 \in 1..n /\ stack # <<>>
      BY <1>0, <1>3
    <3> QED BY <1>8, <3>1
  <2> QED BY <2>1, <2>2, <2>3 DEF FrameInv, StackOK
<1> QED BY <1>7, <1>9, <1>14 DEF FrameInv

LEMMA PopKeepsFrames ==
  ASSUME FrameInv, [Next]_vars, Pop
  PROVE  FrameInv'
<1>0. PICK n : n = Len(stack)
  OBVIOUS
<1>1. /\ ln' \in 0..MaxLines /\ ln' >= ln /\ eof' \in BOOLEAN /\ key' \in Kw
      /\ parses' \in 0..MaxParses /\ outcome' \in Outcome /\ ln \in Nat /\ ln' \in Nat
  BY ControlTyped, ParserAssumption DEF FrameInv, TypeOK
<1>2. PICK row \in {{}, {RowRead}} : (row # {} => InTable) /\ Return(row) /\ Running
  BY DEF Pop
<1>3. /\ n \in Nat \ {0} /\ stack \in Seq(Frame) /\ DOMAIN stack = 1..n
      /\ Cur \in Frame /\ Cur.obj \in Path /\ Cur.kw \in Kw /\ Cur.at <= ln
      /\ Len(Cur.obj) = n - 1
      /\ n = 1 <=> Cur.type = "TOP"
      /\ n > 1 => Caller.obj \in Path /\ Caller.sec \in Section /\ n - 1 \in DOMAIN stack
                 /\ Caller = stack[n - 1]
  BY <1>0, <1>2, CurFacts DEF Caller, FrameInv, TypeOK
<1>4. /\ stack' \in Seq(Frame) /\ Len(stack') = n - 1 /\ DOMAIN stack' = 1..(n - 1)
      /\ \A i \in 1..(n - 1) : stack'[i] = stack[i]
  <2>1. stack' = SubSeq(stack, 1, Len(stack) - 1)
    BY <1>2 DEF Return
  <2>2. stack' \in Seq(Frame) /\ Len(stack') = n - 1
        /\ \A i \in 1..(n - 1) : stack'[i] = stack[i]
    BY <1>0, <1>3, <2>1, FrontAndLast
  <2> QED BY <2>2
<1>5. n > 1 => Len(Caller.obj) = n - 2
  <2> SUFFICES ASSUME n > 1 PROVE Len(Caller.obj) = n - 2
    OBVIOUS
  <2>1. FrameOK(n - 1)
    BY <1>3 DEF FrameInv, StackOK
  <2> QED BY <1>3, <2>1 DEF FrameOK
<1>6. /\ Completed \subseteq Entry /\ IsFiniteSet(Completed)
      /\ \A e \in Completed : e.line <= ln' /\ Len(e.obj) = n - 2
  <2>1. CASE Cur.type \in {"VSEC", "VTAB"}
    <3>1. n > 1 /\ Cur.at \in Nat
      BY <1>3, <2>1 DEF Frame
    <3>2. Completed = {Value(Caller.obj, Cur.kw, Cur.type, Cur.at)}
      BY <2>1 DEF Completed
    <3>3. Cur.type \in Type
      BY <2>1 DEF Type
    <3>4. PICK v : v = Value(Caller.obj, Cur.kw, Cur.type, Cur.at)
      OBVIOUS
    <3>5. v \in Entry /\ v.line = Cur.at /\ v.obj = Caller.obj
      BY <1>3, <3>1, <3>3, <3>4 DEF Value, Entry
    <3>6. v.line <= ln'
      BY <1>1, <1>3, <3>1, <3>5
    <3>7. Completed = {v} /\ IsFiniteSet({v})
      BY <3>2, <3>4, FS_Singleton
    <3> QED BY <1>5, <3>1, <3>5, <3>6, <3>7
  <2>2. CASE Cur.type \notin {"VSEC", "VTAB"}
    BY <2>2, FS_EmptySet DEF Completed
  <2> QED BY <2>1, <2>2
<1>7. /\ row \subseteq Entry /\ IsFiniteSet(row)
      /\ \A e \in row : e.line <= ln' /\ Len(e.obj) = n - 1
  <2>1. CASE row = {}
    BY <2>1, FS_EmptySet
  <2>2. CASE row = {RowRead}
    <3>1. IsFiniteSet(row)
      BY <2>2, FS_Singleton
    <3>2. RowRead \in Entry /\ RowRead.line = ln' /\ RowRead.obj = Cur.obj
      BY <1>1, <1>3 DEF RowRead, Value, Entry
    <3> QED BY <1>1, <1>3, <2>2, <3>1, <3>2
  <2> QED BY <2>1, <2>2
<1>8. DataOK' /\ data' \subseteq Entry /\ data \subseteq data'
      /\ \A e \in data' : e \in data \/ Len(e.obj) >= n - 2
  <2>1. PICK N : N = row \cup Completed
    OBVIOUS
  <2>2. IsFiniteSet(N)
    BY <1>6, <1>7, <2>1, FS_Union
  <2>3. data' = data \cup N
    BY <1>2, <2>1 DEF Return
  <2>4. N \subseteq Entry /\ \A e \in N : e.line <= ln' /\ Len(e.obj) >= n - 2
    BY <1>3, <1>6, <1>7, <2>1
  <2> QED BY <1>1, <2>2, <2>3, <2>4, NewValues
<1>9. marks' \in [Section -> SUBSET Kw] /\ inited' \subseteq Path \X Kw
  <2>1. inited' = inited /\ (marks' = marks \/ (Cur.type = "SEC" /\ SetMark(Caller.sec, Cur.kw)))
    BY <1>2 DEF Return
  <2> QED BY <1>3, <2>1 DEF SetMark, FrameInv, TypeOK
<1>10. stack' = <<>> <=> Between'
  <2>1. outcome' = IF Cur.type = "TOP" THEN "parsed" ELSE "running"
    BY <1>2 DEF Return, Parsed, Running
  <2>2. stack' = <<>> <=> n = 1
    BY <1>3, <1>4
  <2> QED BY <1>3, <2>1, <2>2 DEF Between
<1>11. TypeOK'
  <2>1. Running' => stack' # <<>>
    BY <1>10 DEF Running, Between
  <2> QED BY <1>1, <1>4, <1>8, <1>9, <2>1 DEF TypeOK
<1>12. ASSUME NEW i \in 1..(n - 1)
       PROVE  FrameOK(i)'
  <2>1. PICK m \in 0..Len(stack) : m = n - 1
    BY <1>0, <1>3
  <2>2. \A e \in data' : e \in data \/ Len(e.obj) >= m - 1
    BY <1>3, <1>8, <2>1
  <2>3. \A j \in 1..m : stack'[j] = stack[j]
    BY <1>4, <2>1
  <2> QED BY <1>1, <1>8, <2>1, <2>2, <2>3, FramesStay
<1>13. stack' # <<>> => stack'[1] = stack[1] /\ stack # <<>>
  <2> SUFFICES ASSUME stack' # <<>> PROVE stack'[1] = stack[1] /\ stack # <<>>
    OBVIOUS
  <2>1. 1 \in 1..(n - 1) /\ stack # <<>>
    BY <1>0, <1>3, <1>4
  <2> QED BY <1>4, <2>1
<1>14. StackOK'
  BY <1>4, <1>10, <1>12, <1>13 DEF FrameInv, StackOK
<1> QED BY <1>8, <1>11, <1>14 DEF FrameInv

LEMMA ParseKeepsFrames ==
  ASSUME FrameInv, [Next]_vars, ParseFile
  PROVE  FrameInv'
<1>1. /\ ln' = ln /\ ln \in Nat /\ ln' \in 0..MaxLines /\ eof' \in BOOLEAN /\ key' \in Kw
      /\ parses' \in 0..MaxParses /\ outcome' \in Outcome
  BY ControlTyped, ParserAssumption DEF FrameInv, TypeOK, ParseFile
<1> DEFINE F == [type |-> "TOP", sec |-> Top, obj |-> <<>>, kw |-> NoKw, at |-> ln]
<1>2. F \in Frame /\ F.obj = <<>> /\ F.at = ln /\ F.sec = Top /\ F.type = "TOP"
  <2>1. NoKw \in Kw /\ Top \in Section
    BY ParserAssumption DEF NoKw
  <2>2. <<>> \in Path
    BY DEF Path
  <2> QED BY <1>1, <2>1, <2>2 DEF Frame
<1> HIDE DEF F
<1>3. stack' = <<F>> /\ data' = data /\ inited' = inited /\ marks' = marks /\ outcome' = "running"
  BY DEF ParseFile, KeptMarks, F
<1>4. stack' \in Seq(Frame) /\ stack' # <<>> /\ DOMAIN stack' = {1} /\ stack'[1] = F
  BY <1>2, <1>3
<1>5. TypeOK' /\ DataOK'
  BY <1>1, <1>3, <1>4 DEF FrameInv, TypeOK, DataOK
<1>6. FrameOK(1)'
  <2>1. /\ stack'[1].at <= ln' /\ Len(stack'[1].obj) = 1 - 1
    BY <1>1, <1>2, <1>4
  <2>2. \A j \in 1..1 : stack'[j].obj = SubSeq(stack'[1].obj, 1, j - 1)
    <3>1. SubSeq(<<>>, 1, 1 - 1) = <<>>
      OBVIOUS
    <3>2. stack'[1].obj = SubSeq(stack'[1].obj, 1, 1 - 1)
      BY <1>2, <1>4, <3>1
    <3>3. \A j \in 1..1 : j = 1
      OBVIOUS
    <3> QED BY <3>2, <3>3
  <2>3. Leads(stack'[1].obj, stack'[1].sec)
    BY <1>2, <1>4, ParserAssumption, LeadsEmpty
  <2>4. \A j \in 1..(1 - 1) : FALSE
    OBVIOUS
  <2> QED BY <2>1, <2>2, <2>3, <2>4 DEF FrameOK
<1>7. StackOK'
  BY <1>2, <1>3, <1>4, <1>6 DEF StackOK, Between
<1> QED BY <1>5, <1>7 DEF FrameInv

LEMMA NoEffectKeepsFrames ==
  ASSUME FrameInv, [Next]_vars, NoEffect
  PROVE  FrameInv'
<1>1. /\ ln' \in 0..MaxLines /\ ln' >= ln /\ eof' \in BOOLEAN /\ key' \in Kw
      /\ parses' \in 0..MaxParses /\ outcome' \in Outcome /\ ln \in Nat /\ ln' \in Nat
  BY ControlTyped, ParserAssumption DEF FrameInv, TypeOK
<1>2. stack' = stack /\ data' = data /\ marks' = marks /\ inited' = inited
      /\ (Between' <=> Between)
  BY DEF NoEffect
<1>3. DataOK'
  BY <1>1, <1>2 DEF FrameInv, DataOK, TypeOK, Entry
<1>4. TypeOK'
  <2>1. Running' => stack # <<>>
    BY <1>2 DEF FrameInv, StackOK, Running, Between
  <2> QED BY <1>1, <1>2, <2>1 DEF FrameInv, TypeOK
<1>5. StackOK'
  <2>1. ASSUME NEW i \in DOMAIN stack
        PROVE  FrameOK(i)'
    <3>1. PICK m \in 0..Len(stack) : m = Len(stack) /\ DOMAIN stack = 1..m
      BY DEF FrameInv, TypeOK
    <3>2. \A j \in 1..m : stack'[j] = stack[j]
      BY <1>2
    <3> QED BY <1>1, <1>2, <3>1, <3>2, FramesStay
  <2> QED BY <1>2, <2>1 DEF FrameInv, StackOK
<1> QED BY <1>3, <1>4, <1>5 DEF FrameInv

LEMMA FramesInductive ==
  FrameInv /\ [Next]_vars => FrameInv'
BY StepShape, NoEffectKeepsFrames, ParseKeepsFrames, FillKeepsFrames, PushKeepsFrames,
   RowKeepsFrames, PopKeepsFrames DEF FrameInv

LEMMA FramesInitially ==
  Init => FrameInv
<1> SUFFICES ASSUME Init PROVE FrameInv
  OBVIOUS
<1>1. TypeOK
  <2>1. NoKw \in Kw
    BY ParserAssumption DEF NoKw
  <2>2. <<>> \in Seq(Frame) /\ 0 \in 0..MaxLines /\ 0 \in 0..MaxParses
    BY ParserAssumption
  <2>3. marks \in [Section -> SUBSET Kw]
    BY DEF Init
  <2>4. outcome \in Outcome /\ ~Running
    BY DEF Init, Outcome, Running
  <2> QED BY <2>1, <2>2, <2>3, <2>4 DEF Init, TypeOK
<1>2. StackOK /\ DataOK
  BY FS_EmptySet DEF Init, StackOK, DataOK, Between
<1> QED BY <1>1, <1>2 DEF FrameInv

(* Type correctness: the stack holds one frame per call in progress, and   *)
(* the parser runs only with a frame to return from.                       *)
THEOREM ParserTyped ==
  Spec => []TypeOK
<1>1. FrameInv => TypeOK
  BY DEF FrameInv
<1> QED BY <1>1, FramesInitially, FramesInductive, PTL DEF Spec

-----------------------------------------------------------------------------
(* Every value can be reached. *)

LEMMA PrefixFacts ==
  ASSUME NEW o \in Path, NEW j \in DOMAIN o
  PROVE  /\ Len(SubSeq(o, 1, j)) = j /\ SubSeq(o, 1, j)[j] = o[j]
         /\ SubSeq(SubSeq(o, 1, j), 1, j - 1) = SubSeq(o, 1, j - 1)
<1>1. o \in Seq(Kw \X Nat) /\ j \in 1..Len(o) /\ Len(o) \in Nat
  BY DEF Path
<1> DEFINE q == SubSeq(o, 1, j)
<1>2. q \in Seq(Kw \X Nat) /\ Len(q) = j /\ \A i \in 1..j : q[i] = o[i]
  BY <1>1
<1>3. SubSeq(q, 1, j - 1) = SubSeq(o, 1, j - 1)
  BY <1>1, <1>2
<1> QED BY <1>1, <1>2, <1>3

LEMMA FramesBuilt ==
  ASSUME FrameInv, NEW i \in DOMAIN stack, NEW j \in DOMAIN stack[i].obj
  PROVE  Built(stack[i].obj, j)
<1>1. FrameOK(i) /\ stack \in Seq(Frame)
  BY DEF FrameInv, StackOK, TypeOK
<1>2. stack[i] \in Frame /\ i \in 1..Len(stack) /\ DOMAIN stack = 1..Len(stack)
  BY <1>1, ElementOfSeq
<1>3. stack[i].obj \in Seq(Kw \X Nat) /\ Len(stack[i].obj) = i - 1
  BY <1>1, <1>2 DEF Frame, Path, FrameOK
<1>4. j \in 1..(i - 1)
  BY <1>3
<1>5. j + 1 \in 1..i /\ j + 1 \in DOMAIN stack /\ (j + 1) - 1 = j
  BY <1>2, <1>4
<1>6. stack[j + 1].obj = SubSeq(stack[i].obj, 1, j)
  BY <1>1, <1>5 DEF FrameOK
<1> QED BY <1>5, <1>6 DEF Built

(* A step adds values; what is on the stack stays there unless it returns. *)
LEMMA StepGrows ==
  ASSUME FrameInv, [Next]_vars
  PROVE  /\ data \subseteq data' /\ inited \subseteq inited'
         /\ Pop \/ \A i \in DOMAIN stack : i \in DOMAIN stack' /\ stack'[i] = stack[i]
         /\ \A o \in Touched' : o \in Touched \/ \E i \in DOMAIN stack : o = stack[i].obj
<1>1. CASE NoEffect
  BY <1>1 DEF NoEffect, Touched
<1>2. CASE ParseFile
  <2>1. DOMAIN stack = {}
    BY <1>2 DEF ParseFile, FrameInv, StackOK
  <2> QED BY <1>2, <2>1 DEF ParseFile, Touched
<1>3. CASE Running /\ (Fill \/ RowStep)
  <2>1. Len(stack) \in DOMAIN stack /\ Cur = stack[Len(stack)]
    BY <1>3, CurFacts DEF Cur
  <2>2. stack' = stack
    BY <1>3 DEF Fill, RowStep
  <2>3. \A e \in data' : e \in data \/ e.obj = Cur.obj
    <3>1. data' = data \/ \E k, t, l : data' = data \cup {Value(Cur.obj, k, t, l)}
      BY <1>3 DEF Fill, RowStep, RowRead
    <3>2. \A k, t, l : Value(Cur.obj, k, t, l).obj = Cur.obj
      BY DEF Value
    <3> QED BY <3>1, <3>2
  <2>4. \A v \in inited' : v \in inited \/ v[1] = Cur.obj
    <3>1. inited' = inited \/ \E k : inited' = inited \cup {<<Cur.obj, k>>}
      BY <1>3 DEF Fill, RowStep
    <3> QED BY <3>1
  <2>5. inited \subseteq inited' /\ data \subseteq data'
    BY <1>3 DEF Fill, RowStep
  <2> QED BY <2>1, <2>2, <2>3, <2>4, <2>5 DEF Touched
<1>4. CASE Running /\ Push
  <2>1. /\ Len(stack) \in DOMAIN stack /\ Cur = stack[Len(stack)] /\ stack \in Seq(Frame)
    BY <1>4, CurFacts DEF Cur, FrameInv, TypeOK
  <2>2. \A i \in DOMAIN stack : i \in DOMAIN stack' /\ stack'[i] = stack[i]
    <3>1. PICK F : stack' = Append(stack, F)
      BY <1>4 DEF Push
    <3> QED BY <2>1, <3>1
  <2>3. \A e \in data' : e \in data \/ e.obj = Cur.obj
    <3>1. data' = data \/ \E k : data' = data \cup {Value(Cur.obj, k, "TABLE", ln')}
      BY <1>4 DEF Push
    <3>2. \A k : Value(Cur.obj, k, "TABLE", ln').obj = Cur.obj
      BY DEF Value
    <3> QED BY <3>1, <3>2
  <2>4. \A v \in inited' : v \in inited \/ v[1] = Cur.obj
    <3>1. inited' = inited \/ \E k : inited' = inited \cup {<<Cur.obj, k>>}
      BY <1>4 DEF Push
    <3> QED BY <3>1
  <2>5. inited \subseteq inited' /\ data \subseteq data'
    BY <1>4 DEF Push
  <2> QED BY <2>1, <2>2, <2>3, <2>4, <2>5 DEF Touched
<1>5. CASE Pop
  <2>1. /\ Len(stack) \in DOMAIN stack /\ Cur = stack[Len(stack)]
        /\ Cur.type \in {"VSEC", "VTAB"} =>
             Len(stack) - 1 \in DOMAIN stack /\ Caller = stack[Len(stack) - 1]
    <3>1. Running
      BY <1>5 DEF Pop
    <3>2. Cur.type \in {"VSEC", "VTAB"} => Len(stack) > 1
      <4>1. Len(stack) \in Nat \ {0} /\ (Len(stack) = 1 <=> Cur.type = "TOP")
        BY <3>1, CurFacts
      <4>2. Cur.type \in {"VSEC", "VTAB"} => Cur.type # "TOP"
        OBVIOUS
      <4>3. \A n \in Nat \ {0} : n # 1 => n > 1
        OBVIOUS
      <4> QED BY <4>1, <4>2, <4>3
    <3> QED BY <3>1, <3>2, CurFacts DEF Cur, Caller
  <2>2. PICK row \in {{}, {RowRead}} : Return(row)
    BY <1>5 DEF Pop
  <2>3. \A e \in row : e.obj = Cur.obj
    BY <2>2 DEF RowRead, Value
  <2>4. \A e \in Completed : e.obj = Caller.obj /\ Cur.type \in {"VSEC", "VTAB"}
    BY DEF Completed, Value
  <2>5. data' = data \cup row \cup Completed /\ inited' = inited
    BY <2>2 DEF Return
  <2> QED BY <1>5, <2>1, <2>3, <2>4, <2>5 DEF Touched
<1>6. Fill \/ Push \/ RowStep => Running
  BY DEF Fill, Push, RowStep
<1> QED BY <1>1, <1>2, <1>3, <1>4, <1>5, <1>6, StepShape DEF FrameInv

(* The element that is completed by a return is counted from then on. *)
LEMMA CompletedCounts ==
  ASSUME FrameInv, FrameInv', Pop, Len(stack) > 1, Cur.type \in OpensElement,
         NEW CONSTANT b, NEW CONSTANT k, b = Caller.obj, k = Cur.kw
  PROVE  Cardinality(Entries(b, k)) + 1 <= Cardinality(Entries(b, k)')
<1>1. /\ Called(Caller, Cur) /\ Cur \in Frame
      /\ IsFiniteSet(Entries(b, k)) /\ Cardinality(Entries(b, k)) \in Nat
  BY CurFacts, EntriesFinite DEF Pop, FrameInv
<1>2. PICK v : v = Value(Caller.obj, Cur.kw, Cur.type, Cur.at)
  OBVIOUS
<1>3. v.obj = b /\ v.kw = k /\ v.line = Cur.at /\ Cur.at \in Nat
  BY <1>1, <1>2 DEF Value, Frame
<1>4. v \notin Entries(b, k)
  BY <1>1, <1>3 DEF Called
<1>5. v \in data' /\ data \subseteq data'
  BY <1>2 DEF Pop, Return, Completed, OpensElement
<1>6. Entries(b, k) \cup {v} \subseteq Entries(b, k)'
  BY <1>3, <1>5 DEF Entries
<1>7. Cardinality(Entries(b, k) \cup {v}) = Cardinality(Entries(b, k)) + 1
  BY <1>1, <1>4, FS_AddElement
<1>8. IsFiniteSet(Entries(b, k)')
  BY FS_Subset DEF Entries, FrameInv, DataOK
<1>9. Cardinality(Entries(b, k) \cup {v}) <= Cardinality(Entries(b, k)')
  BY <1>6, <1>8, FS_Subset
<1> QED BY <1>7, <1>9

(* What leads to an object stays: what is taken from the stack has been    *)
(* put into its vector.                                                    *)
LEMMA BuiltStays ==
  ASSUME FrameInv, FrameInv', [Next]_vars,
         NEW CONSTANT o \in Path, NEW CONSTANT j \in DOMAIN o, Built(o, j)
  PROVE  Built(o, j)'
<1> DEFINE p == SubSeq(o, 1, j - 1)
           k == o[j][1]
           m == o[j][2]
           q == SubSeq(o, 1, j)
<1>1. /\ j \in Nat \ {0} /\ m \in Nat
      /\ Len(q) = j /\ q[j] = o[j] /\ SubSeq(q, 1, j - 1) = p
  <2>1. o[j] \in Kw \X Nat /\ j \in Nat \ {0}
    BY DEF Path
  <2> QED BY <2>1, PrefixFacts
<1> HIDE DEF p, k, m, q
<1>2. /\ Cardinality(Entries(p, k)) \in Nat /\ Cardinality(Entries(p, k)') \in Nat
      /\ Cardinality(Entries(p, k)) <= Cardinality(Entries(p, k)')
  <2>1. data \subseteq data'
    BY StepGrows
  <2>2. IsFiniteSet(Entries(p, k)')
    BY FS_Subset DEF Entries, FrameInv, DataOK
  <2> QED BY <2>1, <2>2, EntriesFinite, EntriesGrow, FS_CardinalityType DEF FrameInv
<1>3. CASE m \in 0..Cardinality(Entries(p, k))
  <2>1. m \in 0..Cardinality(Entries(p, k)')
    BY <1>1, <1>2, <1>3
  <2> QED BY <2>1 DEF Built, p, k, m
<1>4. ASSUME NEW i \in DOMAIN stack, stack[i].obj = q
      PROVE  Built(o, j)'
  <2>1. CASE i \in DOMAIN stack' /\ stack'[i] = stack[i]
    BY <1>4, <2>1 DEF Built, q
  <2>2. CASE Pop /\ ~(i \in DOMAIN stack' /\ stack'[i] = stack[i])
    <3>1. /\ Running /\ stack \in Seq(Frame) /\ Len(stack) > 0
          /\ stack' = SubSeq(stack, 1, Len(stack) - 1) /\ i \in 1..Len(stack)
      BY <2>2, CurFacts DEF Pop, Return, FrameInv, TypeOK
    <3>2. i = Len(stack)
      <4>1. Len(stack') = Len(stack) - 1 /\ stack' \in Seq(Frame)
            /\ \A x \in 1..(Len(stack) - 1) : stack'[x] = stack[x]
        BY <3>1, FrontAndLast
      <4> QED BY <2>2, <3>1, <4>1
    <3>3. Cur.obj = q /\ Len(stack) = j + 1
      BY <1>1, <1>4, <3>1, <3>2, CurFacts DEF Cur
    <3>4. /\ Len(stack) > 1 /\ Called(Caller, Cur) /\ Caller.obj \in Path
          /\ Cur.kw \in Kw /\ Len(Caller.obj) = j - 1
      <4>1. Len(stack) > 1
        BY <1>1, <3>3
      <4>2. FrameOK(Len(stack) - 1)
        BY <3>1, <4>1, CurFacts DEF FrameInv, StackOK
      <4> QED BY <1>1, <3>1, <3>3, <4>1, <4>2, CurFacts DEF FrameOK, Caller
    <3>5. PICK n \in Nat : /\ q = Append(Caller.obj, <<Cur.kw, n>>)
                           /\ Cur.type \notin OpensElement => n = 0
                           /\ Cur.type \in OpensElement =>
                                n = Cardinality(Entries(Caller.obj, Cur.kw)) + 1
      <4>1. Cardinality(Entries(Caller.obj, Cur.kw)) + 1 \in Nat
        BY EntriesFinite DEF FrameInv
      <4> QED BY <3>3, <3>4, <4>1 DEF Called
    <3>6. k = Cur.kw /\ m = n /\ p = Caller.obj
      <4>1. q[j] = <<Cur.kw, n>> /\ SubSeq(q, 1, j - 1) = SubSeq(Caller.obj, 1, j - 1)
        BY <1>1, <3>4, <3>5, PathAppend
      <4>2. SubSeq(Caller.obj, 1, j - 1) = Caller.obj
        BY <3>4, SubSeqFull DEF Path
      <4>3. o[j] = <<Cur.kw, n>> /\ p = Caller.obj
        BY <1>1, <4>1, <4>2
      <4>4. o[j][1] = Cur.kw /\ o[j][2] = n
        BY <4>3
      <4> QED BY <4>3, <4>4 DEF k, m
    <3>7. m \in 0..Cardinality(Entries(p, k)')
      <4>1. CASE Cur.type \in OpensElement
        <5>1. Cardinality(Entries(p, k)) + 1 <= Cardinality(Entries(p, k)')
          BY <2>2, <3>4, <3>6, <4>1, CompletedCounts
        <5> QED BY <1>1, <1>2, <3>5, <3>6, <4>1, <5>1
      <4>2. CASE Cur.type \notin OpensElement
        BY <1>2, <3>5, <3>6, <4>2
      <4> QED BY <4>1, <4>2
    <3> QED BY <3>7 DEF Built, p, k, m
  <2> QED BY <2>1, <2>2, StepGrows
<1> QED BY <1>3, <1>4 DEF Built, p, k, m, q

LEMMA ReachInductive ==
  FrameInv /\ FrameInv' /\ ReachOK /\ [Next]_vars => ReachOK'
<1> SUFFICES ASSUME FrameInv, FrameInv', ReachOK, [Next]_vars,
                    NEW CONSTANT o \in Touched', NEW CONSTANT j \in DOMAIN o
             PROVE  Built(o, j)'
  BY DEF ReachOK
<1>1. o \in Path
  <2>1. \A e \in data' : e.obj \in Path
    BY DEF FrameInv, TypeOK, Entry
  <2>2. \A v \in inited' : v[1] \in Path
    BY DEF FrameInv, TypeOK
  <2> QED BY <2>1, <2>2 DEF Touched
<1>2. Built(o, j)
  BY StepGrows, FramesBuilt DEF ReachOK
<1> QED BY <1>1, <1>2, BuiltStays

(* Nothing parsed is lost: the object of every value can be reached, its   *)
(* elements being in their vectors or still on the stack.                  *)
THEOREM ParserReaches ==
  Spec => []AllReachable
<1>1. Init => FrameInv /\ ReachOK
  BY FramesInitially DEF Init, ReachOK, Touched
<1>2. FrameInv /\ ReachOK /\ [Next]_vars => FrameInv' /\ ReachOK'
  BY FramesInductive, ReachInductive
<1>3. ReachOK => AllReachable
  BY DEF ReachOK, AllReachable, Touched
<1> QED BY <1>1, <1>2, <1>3, PTL DEF Spec

-----------------------------------------------------------------------------
(* A keyword is given once in an object. *)

LEMMA CurLeads ==
  ASSUME FrameInv, Running
  PROVE  /\ InSection(Cur) => Leads(Cur.obj, Cur.sec)
         /\ Len(stack) > 1 => Leads(Caller.obj, Caller.sec) /\ Len(Caller.obj) = Len(stack) - 2
<1>1. FrameOK(Len(stack)) /\ (Len(stack) > 1 => FrameOK(Len(stack) - 1) /\ InSection(Caller))
      /\ Len(stack) \in Nat
  BY CurFacts DEF FrameInv, StackOK
<1> QED BY <1>1 DEF FrameOK, Cur, Caller

(* Two values of one keyword in one object have the same type. *)
LEMMA SameType ==
  ASSUME NEW d \in Entry, NEW e \in Entry, EntryOK(d), EntryOK(e),
         d.obj = e.obj, d.kw = e.kw, d.type \in Single
  PROVE  e.type = d.type
<1>1. PICK s \in Section : /\ Leads(d.obj, s)
                           /\ d.kw \in DOMAIN Schema[s] /\ Schema[s][d.kw].type = d.type
  BY DEF EntryOK, Single
<1>2. CASE e.type = "ROW"
  <2>1. PICK t \in Section : \E o \in Path, n \in Nat :
          /\ Leads(o, t) /\ e.obj = Append(o, <<e.kw, n>>)
          /\ e.kw \in DOMAIN Schema[t] /\ Schema[t][e.kw].type \in {"TABLE", "VTAB"}
    BY <1>2 DEF EntryOK
  <2>2. PICK o \in Path, n \in Nat :
          /\ Leads(o, t) /\ e.obj = Append(o, <<e.kw, n>>)
          /\ e.kw \in DOMAIN Schema[t] /\ Schema[t][e.kw].type \in {"TABLE", "VTAB"}
    BY <2>1
  <2>3. e.kw \in Kw
    BY DEF Entry
  <2>4. PICK u \in Section : Leads(o, u) /\ Owns(u, e.kw, s)
    BY <1>1, <2>2, <2>3, LeadsAppend
  <2>5. u = t
    BY <2>2, <2>4, LeadsOnce
  <2> QED BY <2>2, <2>4, <2>5 DEF Owns
<1>3. CASE e.type # "ROW"
  <2>1. PICK t \in Section : /\ Leads(e.obj, t)
                             /\ e.kw \in DOMAIN Schema[t] /\ Schema[t][e.kw].type = e.type
    BY <1>3 DEF EntryOK
  <2>2. s = t
    BY <1>1, <2>1, LeadsOnce DEF Entry
  <2> QED BY <1>1, <2>1, <2>2
<1> QED BY <1>2, <1>3

LEMMA SectionNotElement ==
  ASSUME NEW s \in Section, NEW k \in Kw, NEW c \in Section,
         Owns(s, k, c), Schema[s][k].type = "SEC"
  PROVE  c \notin ElementSection
<1> SUFFICES ASSUME NEW t \in Section, NEW l \in Kw, Owns(t, l, c), Schema[t][l].type = "VSEC"
             PROVE  FALSE
  BY DEF ElementSection
<1>1. s = t /\ k = l
  BY TreeAssumption
<1> QED BY <1>1

LEMMA TopNotElement ==
  Top \notin ElementSection
BY TreeAssumption, ParserAssumption DEF ElementSection

(* Marks are only taken back from the section of a new element. *)
LEMMA MarksStay ==
  ASSUME FrameInv, [Next]_vars
  PROVE  /\ \A s \in Section \ ElementSection : marks[s] \subseteq marks'[s]
         /\ \A i \in DOMAIN stack : InSection(stack[i]) =>
              marks[stack[i].sec] \subseteq marks'[stack[i].sec]
<1>1. /\ marks \in [Section -> SUBSET Kw] /\ stack \in Seq(Frame)
      /\ \A i \in DOMAIN stack : stack[i].sec \in Section
  <2>1. \A i \in DOMAIN stack : stack[i] \in Frame
    BY DEF FrameInv, TypeOK
  <2> QED BY <2>1 DEF FrameInv, TypeOK, Frame
<1>2. CASE \A s \in Section : marks[s] \subseteq marks'[s]
  BY <1>1, <1>2
<1>3. ASSUME NEW s \in Section, NEW k, marks' = [marks EXCEPT ![s] = @ \cup {k}]
      PROVE  \A x \in Section : marks[x] \subseteq marks'[x]
  BY <1>1, <1>3
<1>4. CASE NoEffect
  BY <1>2, <1>4 DEF NoEffect
<1>5. CASE ParseFile
  BY <1>2, <1>5 DEF ParseFile, KeptMarks
<1>6. CASE Running /\ Fill
  <2>1. Cur.sec \in Section /\ \E k : marks' = [marks EXCEPT ![Cur.sec] = @ \cup {k}]
    BY <1>6, CurFacts DEF Fill
  <2> QED BY <1>2, <1>3, <2>1
<1>7. CASE Running /\ Push
  <2>1. Cur.sec \in Section /\ Cur = stack[Len(stack)] /\ Len(stack) \in DOMAIN stack
    BY <1>7, CurFacts DEF Cur
  <2>2. CASE marks' = marks \/ \E k : marks' = [marks EXCEPT ![Cur.sec] = @ \cup {k}]
    BY <1>2, <1>3, <2>1, <2>2
  <2>3. ASSUME NEW k \in DOMAIN Schema[Cur.sec], NEW c, Schema[Cur.sec][k].type = "VSEC",
               c = Schema[Cur.sec][k].child, ~InTable,
               marks' = [marks EXCEPT ![c] = {}, ![Cur.sec] = @ \cup {k}]
        PROVE  /\ \A s \in Section \ ElementSection : marks[s] \subseteq marks'[s]
               /\ \A i \in DOMAIN stack : InSection(stack[i]) =>
                    marks[stack[i].sec] \subseteq marks'[stack[i].sec]
    <3>1. k \in Kw /\ c \in Section /\ Owns(Cur.sec, k, c)
      BY <2>1, <2>3, ParserAssumption DEF Owns
    <3>2. c \in ElementSection
      BY <2>1, <2>3, <3>1 DEF ElementSection
    <3>3. \A s \in Section : s # c => marks[s] \subseteq marks'[s]
      BY <1>1, <2>1, <2>3
    <3>4. ASSUME NEW i \in DOMAIN stack, InSection(stack[i])
          PROVE  stack[i].sec # c
      <4>1. Age[Cur.sec] < Age[c] /\ Age \in [Section -> 1..Cardinality(Section)]
        BY <2>1, <3>1, AgeFacts DEF Older
      <4>2. InSection(Cur)
        BY <1>7, <2>3, CurFacts
      <4>3. i = Len(stack) \/ i \in 1..(Len(stack) - 1)
        BY <1>1
      <4>4. i = Len(stack) \/ Age[stack[i].sec] < Age[Cur.sec]
        <5>1. FrameOK(Len(stack))
          BY <2>1 DEF FrameInv, StackOK
        <5> QED BY <2>1, <4>2, <4>3, <5>1 DEF FrameOK
      <4>5. Age[stack[i].sec] \in Int /\ Age[Cur.sec] \in Int /\ Age[c] \in Int
        <5>1. \A s \in Section : Age[s] \in Int
          BY <4>1
        <5> QED BY <1>1, <2>1, <3>1, <5>1
      <4>6. i = Len(stack) => stack[i].sec = Cur.sec
        BY <2>1
      <4> QED BY <4>1, <4>4, <4>5, <4>6
    <3> QED BY <1>1, <3>2, <3>3, <3>4
  <2> QED BY <1>7, <2>2, <2>3 DEF Push
<1>8. CASE Running /\ RowStep
  BY <1>2, <1>8 DEF RowStep
<1>9. CASE Pop
  <2>1. marks' = marks \/ (Cur.type = "SEC" /\ marks' = [marks EXCEPT ![Caller.sec] = @ \cup {Cur.kw}])
    BY <1>9 DEF Pop, Return, SetMark
  <2>2. Cur.type = "SEC" => Caller.sec \in Section
    <3>1. Running
      BY <1>9 DEF Pop
    <3>2. Len(stack) \in Nat \ {0} /\ (Len(stack) = 1 <=> Cur.type = "TOP")
      BY <3>1, CurFacts
    <3>3. Cur.type = "SEC" => Len(stack) # 1
      BY <3>2
    <3>4. \A n \in Nat \ {0} : n # 1 => n > 1
      OBVIOUS
    <3> QED BY <3>1, <3>2, <3>3, <3>4, CurFacts
  <2> QED BY <1>2, <1>3, <2>1, <2>2
<1>10. Fill \/ Push \/ RowStep => Running
  BY DEF Fill, Push, RowStep
<1> QED BY <1>4, <1>5, <1>6, <1>7, <1>8, <1>9, <1>10, StepShape DEF FrameInv

(* What a value added by a step is for: a scalar, a vector or a table is   *)
(* added for a keyword that has not been refused, in the section read.     *)
SingleAdded(e) ==
  /\ Running /\ InSection(Cur) /\ e.obj = Cur.obj
  /\ e.kw \in DOMAIN Schema[Cur.sec] /\ Schema[Cur.sec][e.kw].type = e.type
  /\ e.kw \notin marks[Cur.sec] \/ (e.type = "VEC" /\ <<Cur.obj, e.kw>> \notin inited)
  /\ e.type = "VEC" => <<Cur.obj, e.kw>> \in inited'
  /\ data' = data \cup {e}

LEMMA NewEntry ==
  ASSUME FrameInv, [Next]_vars, NEW CONSTANT e \in data', e \notin data
  PROVE  EntryOK(e) /\ (e.type \in Single => SingleAdded(e))
<1>1. CASE NoEffect \/ ParseFile
  BY <1>1 DEF NoEffect, ParseFile
<1>2. CASE Running /\ Fill
  <2>1. PICK k \in DOMAIN Schema[Cur.sec] : \E l \in (ln + 1)..ln' :
          LET t == Schema[Cur.sec][k].type IN
          /\ ~InTable /\ t \in {"SCALAR", "VEC", "VVEC", "USER"}
          /\ k \notin marks[Cur.sec] \/ t \notin Single \/ (t = "VEC" /\ <<Cur.obj, k>> \notin inited)
          /\ inited' = IF t \in {"VEC", "VVEC"} THEN inited \cup {<<Cur.obj, k>>} ELSE inited
          /\ data' = data \cup {Value(Cur.obj, k, t, l)} \/ (t = "VEC" /\ data' = data)
    BY <1>2 DEF Fill
  <2> DEFINE t == Schema[Cur.sec][k].type
  <2>2. PICK l : data' = data \cup {Value(Cur.obj, k, t, l)}
    BY <2>1
  <2>3. e = Value(Cur.obj, k, t, l) /\ data' = data \cup {e}
    BY <2>2
  <2>4. e.obj = Cur.obj /\ e.kw = k /\ e.type = t
    BY <2>3 DEF Value
  <2>5. Cur.sec \in Section /\ InSection(Cur) /\ Leads(Cur.obj, Cur.sec)
    BY <1>2, <2>1, CurFacts, CurLeads
  <2>6. t # "ROW"
    BY <2>1
  <2>7. EntryOK(e)
    BY <2>4, <2>5, <2>6 DEF EntryOK
  <2>8. t = "VEC" => inited' = inited \cup {<<Cur.obj, k>>}
    BY <2>1
  <2> HIDE DEF t
  <2>9. e.type \in Single => SingleAdded(e)
    <3> SUFFICES ASSUME e.type \in Single PROVE SingleAdded(e)
      OBVIOUS
    <3>1. k \notin marks[Cur.sec] \/ (t = "VEC" /\ <<Cur.obj, k>> \notin inited)
      BY <2>1, <2>4 DEF t
    <3>2. k \in DOMAIN Schema[Cur.sec] /\ Schema[Cur.sec][k].type = t
      BY DEF t
    <3> QED BY <1>2, <2>3, <2>4, <2>5, <2>8, <3>1, <3>2 DEF SingleAdded
  <2> QED BY <2>7, <2>9
<1>3. CASE Running /\ Push
  <2>1. PICK k \in DOMAIN Schema[Cur.sec] :
          /\ ~InTable /\ Schema[Cur.sec][k].type = "TABLE" /\ k \notin marks[Cur.sec]
          /\ data' = data \cup {Value(Cur.obj, k, "TABLE", ln')}
    BY <1>3 DEF Push
  <2>2. e = Value(Cur.obj, k, "TABLE", ln') /\ data' = data \cup {e}
    BY <2>1
  <2>3. e.obj = Cur.obj /\ e.kw = k /\ e.type = "TABLE"
    BY <2>2 DEF Value
  <2>4. Cur.sec \in Section /\ InSection(Cur) /\ Leads(Cur.obj, Cur.sec)
    BY <1>3, <2>1, CurFacts, CurLeads
  <2>5. EntryOK(e)
    BY <2>1, <2>3, <2>4 DEF EntryOK
  <2>6. SingleAdded(e)
    BY <1>3, <2>1, <2>2, <2>3, <2>4 DEF SingleAdded
  <2> QED BY <2>5, <2>6
<1>4. ASSUME Running, InTable, e = RowRead
      PROVE  EntryOK(e) /\ e.type \notin Single
  <2>1. /\ Caller.obj \in Path /\ Caller.sec \in Section /\ Called(Caller, Cur)
        /\ Leads(Caller.obj, Caller.sec)
    <3>1. Len(stack) \in Nat \ {0} /\ (Len(stack) = 1 <=> Cur.type = "TOP")
      BY <1>4, CurFacts
    <3>2. Len(stack) # 1
      BY <1>4, <3>1 DEF InTable
    <3>3. \A n \in Nat \ {0} : n # 1 => n > 1
      OBVIOUS
    <3> QED BY <1>4, <3>1, <3>2, <3>3, CurFacts, CurLeads
  <2>2. e.type = "ROW" /\ e.obj = Cur.obj /\ e.kw = Cur.kw
    BY <1>4 DEF RowRead, Value
  <2>3. PICK n \in Nat : Cur.obj = Append(Caller.obj, <<Cur.kw, n>>)
    <3>1. Cardinality(Entries(Caller.obj, Cur.kw)) + 1 \in Nat
      BY EntriesFinite DEF FrameInv
    <3> QED BY <2>1, <3>1 DEF Called
  <2>4. Cur.kw \in DOMAIN Schema[Caller.sec]
        /\ Schema[Caller.sec][Cur.kw].type \in {"TABLE", "VTAB"}
    BY <1>4, <2>1 DEF Called, InTable
  <2> QED BY <2>1, <2>2, <2>3, <2>4 DEF EntryOK, Single
<1>5. CASE Running /\ RowStep
  <2>1. e = RowRead /\ InTable
    BY <1>5 DEF RowStep
  <2> QED BY <1>4, <1>5, <2>1
<1>6. CASE Running /\ Pop
  <2>1. (e = RowRead /\ InTable) \/ e \in Completed
    BY <1>6 DEF Pop, Return
  <2>2. CASE e \in Completed
    <3>1. e.obj = Caller.obj /\ e.kw = Cur.kw /\ e.type = Cur.type /\ Cur.type \in {"VSEC", "VTAB"}
      BY <2>2 DEF Completed, Value
    <3>2. Len(stack) \in Nat \ {0} /\ (Len(stack) = 1 <=> Cur.type = "TOP")
      BY <1>6, CurFacts
    <3>3. Len(stack) # 1
      BY <3>1, <3>2
    <3>4. \A n \in Nat \ {0} : n # 1 => n > 1
      OBVIOUS
    <3>5. Caller.sec \in Section /\ Called(Caller, Cur) /\ Leads(Caller.obj, Caller.sec)
      BY <1>6, <3>2, <3>3, <3>4, CurFacts, CurLeads
    <3> QED BY <3>1, <3>5 DEF EntryOK, Called, Single
  <2> QED BY <1>4, <1>6, <2>1, <2>2
<1>7. Fill \/ Push \/ RowStep \/ Pop => Running
  BY DEF Fill, Push, RowStep, Pop
<1> QED BY <1>1, <1>2, <1>3, <1>5, <1>6, <1>7, StepShape DEF FrameInv

(* What is given by a step is given, and marked, in the section read. *)
LEMMA NewGiven ==
  ASSUME FrameInv, [Next]_vars, NEW CONSTANT v \in (SingleGiven \cup inited)',
         v \notin SingleGiven \cup inited
  PROVE  Running /\ InSection(Cur) /\ v[1] = Cur.obj /\ v[2] \in marks'[Cur.sec]
<1>1. CASE NoEffect \/ ParseFile
  BY <1>1 DEF NoEffect, ParseFile, SingleGiven
<1>2. marks \in [Section -> SUBSET Kw]
  BY DEF FrameInv, TypeOK
<1>3. ASSUME Running, NEW k, InSection(Cur), v = <<Cur.obj, k>>, k \in marks'[Cur.sec]
      PROVE  Running /\ InSection(Cur) /\ v[1] = Cur.obj /\ v[2] \in marks'[Cur.sec]
  BY <1>3
<1>4. CASE Running /\ Fill
  <2>1. PICK k \in DOMAIN Schema[Cur.sec] : \E t, l :
          /\ ~InTable /\ marks' = [marks EXCEPT ![Cur.sec] = @ \cup {k}]
          /\ inited' \subseteq inited \cup {<<Cur.obj, k>>}
          /\ data' \subseteq data \cup {Value(Cur.obj, k, t, l)}
    BY <1>4 DEF Fill
  <2>2. PICK t, l : data' \subseteq data \cup {Value(Cur.obj, k, t, l)}
    BY <2>1
  <2>3. Value(Cur.obj, k, t, l).obj = Cur.obj /\ Value(Cur.obj, k, t, l).kw = k
    BY DEF Value
  <2>4. v = <<Cur.obj, k>>
    BY <2>1, <2>2, <2>3 DEF SingleGiven
  <2>5. Cur.sec \in Section /\ InSection(Cur)
    BY <1>4, <2>1, CurFacts
  <2> QED BY <1>2, <1>3, <1>4, <2>1, <2>4, <2>5
<1>5. CASE Running /\ Push
  <2>1. Cur.sec \in Section /\ InSection(Cur)
    <3>1. ~InTable
      BY <1>5 DEF Push
    <3> QED BY <1>5, <3>1, CurFacts
  <2>2. PICK k \in DOMAIN Schema[Cur.sec] :
          LET t == Schema[Cur.sec][k].type
              c == Schema[Cur.sec][k].child IN
          /\ marks' = IF t = "SEC" THEN marks
                      ELSE IF t = "VSEC"
                           THEN [marks EXCEPT ![c] = {}, ![Cur.sec] = @ \cup {k}]
                           ELSE [marks EXCEPT ![Cur.sec] = @ \cup {k}]
          /\ inited' = IF t \in OpensElement THEN inited \cup {<<Cur.obj, k>>} ELSE inited
          /\ data' = IF t = "TABLE" THEN data \cup {Value(Cur.obj, k, "TABLE", ln')} ELSE data
    BY <1>5 DEF Push
  <2>3. Value(Cur.obj, k, "TABLE", ln').obj = Cur.obj /\ Value(Cur.obj, k, "TABLE", ln').kw = k
    BY DEF Value
  <2>4. v = <<Cur.obj, k>>
    BY <2>2, <2>3 DEF SingleGiven
  <2>5. Schema[Cur.sec][k].type # "SEC"
    <3> SUFFICES ASSUME Schema[Cur.sec][k].type = "SEC" PROVE FALSE
      OBVIOUS
    <3>1. inited' = inited /\ data' = data
      BY <2>2 DEF OpensElement
    <3> QED BY <3>1 DEF SingleGiven
  <2>6. k \in marks'[Cur.sec]
    BY <1>2, <2>1, <2>2, <2>5
  <2> QED BY <1>3, <1>5, <2>1, <2>4, <2>6
<1>6. CASE Running /\ (RowStep \/ Pop)
  <2>1. inited' = inited
    BY <1>6 DEF RowStep, Pop, Return
  <2>2. \A e \in data' : e.type \in Single => e \in data
    <3>1. RowRead.type = "ROW"
      BY DEF RowRead, Value
    <3>2. \A e \in Completed : e.type \in {"VSEC", "VTAB"}
      BY DEF Completed, Value
    <3> QED BY <1>6, <3>1, <3>2 DEF RowStep, Pop, Return, Single
  <2> QED BY <2>1, <2>2 DEF SingleGiven
<1>7. Fill \/ Push \/ RowStep \/ Pop => Running
  BY DEF Fill, Push, RowStep, Pop
<1> QED BY <1>1, <1>4, <1>5, <1>6, <1>7, StepShape DEF FrameInv

(* Nothing is known of the element a vector gets next. *)
LEMMA FreshElement ==
  ASSUME FrameInv, ReachOK, NEW CONSTANT b \in Path, NEW CONSTANT k \in Kw,
         NEW CONSTANT m \in Nat, m = Cardinality(Entries(b, k)), Len(b) = Len(stack) - 1
  PROVE  /\ Append(b, <<k, m + 1>>) \notin Touched
         /\ \A x \in DOMAIN stack : Append(b, <<k, m + 1>>) # stack[x].obj
<1>1. PICK n \in Nat : n = Len(b)
  BY DEF Path
<1>2. PICK o : o = Append(b, <<k, m + 1>>)
  OBVIOUS
<1>3. /\ o \in Path /\ Len(o) = n + 1 /\ o[n + 1] = <<k, m + 1>>
      /\ SubSeq(o, 1, n) = SubSeq(b, 1, n)
  <2>1. m + 1 \in Nat /\ n \in 0..Len(b)
    BY <1>1
  <2> QED BY <1>1, <1>2, <2>1, PathAppend
<1>4. SubSeq(o, 1, n) = b /\ SubSeq(o, 1, n + 1) = o
  BY <1>1, <1>3, SubSeqFull DEF Path
<1>5. ASSUME NEW x \in DOMAIN stack, stack[x].obj = o
      PROVE  FALSE
  <2>1. Len(stack[x].obj) = x - 1
    BY DEF FrameInv, StackOK, FrameOK
  <2>2. x \in 1..Len(stack) /\ Len(stack) \in Nat
    BY DEF FrameInv, TypeOK
  <2> QED BY <1>1, <1>3, <1>5, <2>1, <2>2
<1>6. n + 1 \in DOMAIN o /\ (n + 1) - 1 = n
  BY <1>1, <1>3 DEF Path
<1>7. ~Built(o, n + 1)
  <2>1. o[n + 1][1] = k /\ o[n + 1][2] = m + 1
    BY <1>3
  <2>2. m + 1 \notin 0..Cardinality(Entries(b, k))
    OBVIOUS
  <2> QED BY <1>4, <1>5, <1>6, <2>1, <2>2 DEF Built
<1>8. o \notin Touched
  BY <1>6, <1>7 DEF ReachOK
<1> QED BY <1>2, <1>5, <1>8

(* A section begun by a step is outside of vectors, or its object is one   *)
(* nothing is known of yet.                                                *)
LEMMA NewSection ==
  ASSUME FrameInv, FrameInv', ReachOK, [Next]_vars,
         NEW CONSTANT i \in DOMAIN stack', InSection(stack'[i])
  PROVE  \/ i \in DOMAIN stack /\ stack'[i] = stack[i]
         \/ stack'[i].sec \notin ElementSection
         \/ stack'[i].obj \notin Touched' /\ marks'[stack'[i].sec] = {}
<1>1. CASE NoEffect \/ Fill \/ RowStep
  BY <1>1 DEF NoEffect, Fill, RowStep
<1>2. CASE ParseFile
  <2>1. stack'[i].sec = Top
    BY <1>2 DEF ParseFile
  <2> QED BY <2>1, TopNotElement
<1>3. CASE Pop
  <2>1. Running /\ stack' = SubSeq(stack, 1, Len(stack) - 1)
    BY <1>3 DEF Pop, Return
  <2>2. stack \in Seq(Frame) /\ Len(stack) \in Nat \ {0}
    BY <2>1, CurFacts DEF FrameInv, TypeOK
  <2>3. /\ Len(stack') = Len(stack) - 1 /\ stack' \in Seq(Frame)
        /\ \A x \in 1..(Len(stack) - 1) : stack'[x] = stack[x]
    BY <2>1, <2>2, FrontAndLast
  <2> QED BY <2>2, <2>3
<1>4. CASE Running /\ Push
  <2>1. PICK k \in DOMAIN Schema[Cur.sec] :
          /\ ~InTable /\ stack' = Append(stack, NewFrame(k))
          /\ Schema[Cur.sec][k].type \in {"TABLE"} \cup OpensSection \cup OpensElement
          /\ Schema[Cur.sec][k].type = "VSEC" =>
               marks' = [marks EXCEPT ![Schema[Cur.sec][k].child] = {}, ![Cur.sec] = @ \cup {k}]
    BY <1>4 DEF Push
  <2>2. /\ stack \in Seq(Frame) /\ Len(stack) \in Nat \ {0} /\ Cur.sec \in Section
        /\ Len(Cur.obj) = Len(stack) - 1 /\ Cur.obj \in Path
        /\ DOMAIN stack = 1..Len(stack) /\ Cur = stack[Len(stack)]
    BY <1>4, CurFacts DEF Cur, FrameInv, TypeOK
  <2>3. ln \in Nat /\ ln' \in Nat /\ ln' > ln
    BY <1>4, ParserAssumption DEF FrameInv, TypeOK, Push
  <2> DEFINE F == NewFrame(k)
  <2>4. /\ F \in Frame /\ Len(F.obj) = Len(stack) /\ Called(Cur, F)
    BY <1>4, <2>1, <2>3, NewFrameFacts
  <2>5. F.type = Schema[Cur.sec][k].type /\ F.kw = k
        /\ (F.type \in OpensSection => F.sec = Schema[Cur.sec][k].child)
    BY DEF NewFrame
  <2>6. k \in Kw /\ Schema[Cur.sec][k].child \in Section
    BY <2>2, ParserAssumption
  <2> HIDE DEF F
  <2>7. (i \in DOMAIN stack /\ stack'[i] = stack[i]) \/ stack'[i] = F
    <3>1. stack' = Append(stack, F)
      BY <2>1 DEF F
    <3>2. PICK n \in Nat : n = Len(stack)
      BY <2>2
    <3>3. /\ stack' \in Seq(Frame) /\ Len(stack') = n + 1 /\ stack'[n + 1] = F
          /\ \A x \in 1..n : stack'[x] = stack[x]
      <4>1. stack \in Seq(Frame) /\ F \in Frame
        BY <2>2, <2>4
      <4> QED BY <3>1, <3>2, <4>1, AppendProperties
    <3>4. i \in 1..n \/ i = n + 1
      <4>1. i \in 1..(n + 1)
        BY <3>3
      <4> QED BY <3>2, <4>1
    <3> QED BY <2>2, <3>2, <3>3, <3>4
  <2>8. CASE stack'[i] = F /\ F.type = "SEC"
    <3>1. Owns(Cur.sec, k, F.sec) /\ F.sec \in Section /\ Schema[Cur.sec][k].type = "SEC"
      BY <2>5, <2>6, <2>8 DEF Owns, OpensSection
    <3> QED BY <2>2, <2>6, <2>8, <3>1, SectionNotElement
  <2>9. CASE stack'[i] = F /\ F.type = "VSEC"
    <3>1. PICK m : m = Cardinality(Entries(Cur.obj, k))
      OBVIOUS
    <3>2. m \in Nat /\ F.obj = Append(Cur.obj, <<k, m + 1>>)
      BY <2>4, <2>5, <2>9, <3>1, EntriesFinite DEF Called, OpensElement, FrameInv
    <3>3. F.obj \notin Touched /\ \A x \in DOMAIN stack : F.obj # stack[x].obj
      BY <2>2, <2>6, <3>1, <3>2, FreshElement
    <3>4. marks' = [marks EXCEPT ![F.sec] = {}, ![Cur.sec] = @ \cup {k}] /\ F.sec \in Section
      BY <2>1, <2>5, <2>6, <2>9 DEF OpensSection
    <3>5. F.sec # Cur.sec
      <4>1. Owns(Cur.sec, k, F.sec)
        BY <2>5, <2>6, <2>9 DEF Owns, OpensSection
      <4>2. Age[Cur.sec] < Age[F.sec]
        BY <2>2, <2>6, <3>4, <4>1, AgeFacts DEF Older
      <4>3. Age[Cur.sec] \in Int
        <5>1. \A x \in Section : Age[x] \in Int
          <6>1. \A x \in Section : Age[x] \in 1..Cardinality(Section)
            BY AgeFacts
          <6> QED BY <6>1
        <5> QED BY <2>2, <5>1
      <4> QED BY <4>2, <4>3
    <3>6. marks'[F.sec] = {}
      BY <3>4, <3>5 DEF FrameInv, TypeOK
    <3> QED BY <2>9, <3>3, <3>6, StepGrows
  <2>10. stack'[i] = F => F.type \in {"SEC", "VSEC"}
    <3> SUFFICES ASSUME InSection(F) PROVE F.type \in {"SEC", "VSEC"}
      OBVIOUS
    <3> QED BY <2>4 DEF InSection, OpensSection, Called
  <2> QED BY <2>7, <2>8, <2>9, <2>10
<1>5. Fill \/ Push \/ RowStep => Running
  BY DEF Fill, Push, RowStep
<1> QED BY <1>1, <1>2, <1>3, <1>4, <1>5, StepShape DEF FrameInv

LEMMA SingleTouched ==
  \A v \in SingleGiven \cup inited : v[1] \in Touched
BY DEF SingleGiven, Touched

LEMMA MarkedInductive ==
  ASSUME FrameInv, FrameInv', ReachOK, [Next]_vars, MarkedIfGiven(SingleGiven \cup inited)
  PROVE  MarkedIfGiven(SingleGiven \cup inited)'
<1> DEFINE G == SingleGiven \cup inited
<1>1. \A v \in G' : v \in G \/
        (Running /\ InSection(Cur) /\ v[1] = Cur.obj /\ v[2] \in marks'[Cur.sec])
  <2> SUFFICES ASSUME NEW CONSTANT v \in G', v \notin G
               PROVE  Running /\ InSection(Cur) /\ v[1] = Cur.obj /\ v[2] \in marks'[Cur.sec]
    OBVIOUS
  <2> QED BY NewGiven
<1>2. \A v \in G' : v[1] \in Touched'
  BY SingleTouched DEF SingleGiven, Touched
<1> HIDE DEF G
<1>3. ASSUME NEW v \in G', NEW s \in Section \ ElementSection, Leads(v[1], s)
      PROVE  v[2] \in marks'[s]
  <2>1. CASE v \in G
    BY <1>3, <2>1, MarksStay DEF MarkedIfGiven, G
  <2>2. CASE Running /\ InSection(Cur) /\ v[1] = Cur.obj /\ v[2] \in marks'[Cur.sec]
    <3>1. s = Cur.sec
      BY <1>3, <2>2, CurFacts, CurLeads, LeadsOnce
    <3> QED BY <2>2, <3>1
  <2> QED BY <1>1, <2>1, <2>2
<1>4. ASSUME NEW v \in G', NEW CONSTANT i \in DOMAIN stack', InSection(stack'[i]), stack'[i].obj = v[1]
      PROVE  v[2] \in marks'[stack'[i].sec]
  <2>1. CASE i \in DOMAIN stack /\ stack'[i] = stack[i] /\ v \in G
    BY <1>4, <2>1, MarksStay DEF MarkedIfGiven, G
  <2>2. CASE /\ i \in DOMAIN stack /\ stack'[i] = stack[i]
             /\ Running /\ v[1] = Cur.obj /\ v[2] \in marks'[Cur.sec]
    <3>1. Len(stack[i].obj) = i - 1 /\ Len(Cur.obj) = Len(stack) - 1 /\ i \in 1..Len(stack)
      BY <2>2, CurFacts DEF FrameInv, StackOK, FrameOK
    <3>2. i = Len(stack)
      BY <1>4, <2>2, <3>1
    <3> QED BY <2>2, <3>2 DEF Cur
  <2>3. CASE stack'[i].sec \notin ElementSection
    <3>1. stack'[i] \in Frame /\ Leads(stack'[i].obj, stack'[i].sec)
      BY <1>4 DEF FrameInv, TypeOK, StackOK, FrameOK, InSection
    <3> QED BY <1>3, <1>4, <2>3, <3>1 DEF Frame
  <2>4. CASE stack'[i].obj \notin Touched'
    BY <1>2, <1>4, <2>4
  <2> QED BY <1>1, <1>4, <2>1, <2>2, <2>3, <2>4, NewSection
<1>5. DOMAIN (stack') = DOMAIN stack'
  OBVIOUS
<1> QED BY <1>3, <1>4 DEF MarkedIfGiven, G, InSection

LEMMA OnceInductive ==
  FrameInv /\ FrameInv' /\ ReachOK /\ OnceOK /\ [Next]_vars => OnceOK'
<1> SUFFICES ASSUME FrameInv, FrameInv', ReachOK, OnceOK, [Next]_vars
             PROVE  OnceOK'
  OBVIOUS
<1>1. \A e \in data' : e \notin data => EntryOK(e) /\ (e.type \in Single => SingleAdded(e))
  BY NewEntry
<1>2. \A e \in data' : EntryOK(e) /\ e \in Entry
  BY <1>1 DEF OnceOK, FrameInv, TypeOK
<1>3. \A e \in data' : e.type = "VEC" => <<e.obj, e.kw>> \in inited'
  <2>1. inited \subseteq inited'
    BY StepGrows
  <2> QED BY <1>1, <2>1 DEF OnceOK, SingleAdded, Single
<1>4. MarkedIfGiven(SingleGiven \cup inited)'
  BY MarkedInductive DEF OnceOK
<1>5. ASSUME NEW d \in data', NEW e \in data, d \notin data,
             d.obj = e.obj, d.kw = e.kw, d.type \in Single
      PROVE  FALSE
  <2>1. SingleAdded(d)
    BY <1>1, <1>5
  <2>2. e.type = d.type
    <3>1. e \in data'
      BY StepGrows
    <3> QED BY <1>2, <1>5, <3>1, SameType
  <2>3. <<Cur.obj, d.kw>> \in SingleGiven
    BY <1>5, <2>1, <2>2 DEF SingleGiven, SingleAdded
  <2>4. Len(stack) \in DOMAIN stack /\ Cur = stack[Len(stack)]
    BY <2>1, CurFacts DEF SingleAdded, Cur
  <2>5. d.kw \in marks[Cur.sec]
    BY <2>1, <2>3, <2>4 DEF OnceOK, MarkedIfGiven, SingleAdded
  <2>6. e.type = "VEC" => <<Cur.obj, d.kw>> \in inited
    BY <1>5, <2>1 DEF OnceOK, SingleAdded
  <2> QED BY <2>1, <2>2, <2>5, <2>6 DEF SingleAdded
<1>6. ASSUME NEW d \in data', NEW e \in data',
             d.obj = e.obj, d.kw = e.kw, d.type \in Single
      PROVE  d = e
  <2>1. e.type = d.type
    BY <1>2, <1>6, SameType
  <2>2. CASE d \in data /\ e \in data
    BY <1>6, <2>2 DEF OnceOK, OncePerObject
  <2>3. CASE d \notin data /\ e \in data
    BY <1>5, <1>6, <2>3
  <2>4. CASE d \in data /\ e \notin data
    BY <1>5, <1>6, <2>1, <2>4
  <2>5. CASE d \notin data /\ e \notin data
    BY <1>1, <1>6, <2>5 DEF SingleAdded
  <2> QED BY <2>2, <2>3, <2>4, <2>5
<1>7. OncePerObject'
  BY <1>6 DEF OncePerObject
<1> QED BY <1>2, <1>3, <1>4, <1>7 DEF OnceOK, EntryOK

(* In every object a scalar, a plain vector or a table is filled from one  *)
(* line only, though the marks that refuse a second are kept per section.  *)
THEOREM ParserOnce ==
  Spec => []OncePerObject
<1>1. Init => ParserInv
  BY FramesInitially DEF Init, ReachOK, Touched, OnceOK, MarkedIfGiven, SingleGiven,
     OncePerObject, ParserInv
<1>2. ParserInv /\ [Next]_vars => ParserInv'
  BY FramesInductive, ReachInductive, OnceInductive DEF ParserInv
<1>3. ParserInv => OncePerObject
  BY DEF ParserInv, OnceOK
<1> QED BY <1>1, <1>2, <1>3, PTL DEF Spec

-----------------------------------------------------------------------------
(* The marks tell what has been given. *)

(* No section that describes elements has a section of its own.  Without   *)
(* this the marks lie: run parser_nested.                                  *)
NoSectionInElement ==
  \A c \in ElementSection : \A k \in DOMAIN Schema[c] : Schema[c][k].type # "SEC"

IsSingle(s, k) == k \in DOMAIN Schema[s] /\ Schema[s][k].type \in Single

(* What is marked has been given. *)
GivenIfMarked ==
  /\ \A s \in Section \ ElementSection : \A k \in marks[s] : IsSingle(s, k) =>
       \A o \in Path : Leads(o, s) => Given(o, k)
  /\ \A i \in DOMAIN stack : InSection(stack[i]) =>
       \A k \in marks[stack[i].sec] : IsSingle(stack[i].sec, k) => Given(stack[i].obj, k)

(* Outside of vectors there is one object of a section. *)
LEMMA OneObject ==
  ASSUME NoSectionInElement, NEW s \in Section \ ElementSection,
         NEW o \in Path, NEW p \in Path, Leads(o, s), Leads(p, s)
  PROVE  o = p
<1> DEFINE Forks(n) == \E t \in Section \ ElementSection : \E u, v \in Path :
                         Len(u) = n /\ Leads(u, t) /\ Leads(v, t) /\ u # v
           T == {n \in Nat : Forks(n)}
<1> SUFFICES ASSUME o # p PROVE FALSE
  OBVIOUS
<1>1. Len(o) \in T
  BY DEF Path
<1>2. PICK n \in T : \A m \in T : n <= m
  BY <1>1, LeastNumber
<1>3. PICK t \in Section \ ElementSection : \E u, v \in Path :
        Len(u) = n /\ Leads(u, t) /\ Leads(v, t) /\ u # v
  BY <1>2
<1>4. PICK u \in Path, v \in Path : Len(u) = n /\ Leads(u, t) /\ Leads(v, t) /\ u # v
  BY <1>3
<1>5. ASSUME NEW q \in Path, Leads(q, Top)
      PROVE  q = <<>>
  <2> SUFFICES ASSUME Len(q) > 0 PROVE FALSE
    BY DEF Path
  <2>1. PICK r \in Path, k \in Kw, i \in Nat : q = Append(r, <<k, i>>) /\ Len(r) = Len(q) - 1
    BY PathSplit
  <2>2. PICK a \in Section : Owns(a, k, Top)
    BY <1>5, <2>1, LeadsAppend, ParserAssumption
  <2> QED BY <2>2, TreeAssumption
<1>6. CASE t = Top
  BY <1>4, <1>5, <1>6
<1>7. CASE t # Top
  <2>1. ASSUME NEW q \in Path, Leads(q, t)
        PROVE  \E r \in Path, k \in Kw : \E a \in Section \ ElementSection :
                 /\ q = Append(r, <<k, 0>>) /\ Len(r) = Len(q) - 1
                 /\ Leads(r, a) /\ Owns(a, k, t)
    <3>1. Len(q) > 0
      <4>1. q # <<>>
        BY <1>7, <2>1, LeadsEmpty
      <4> QED BY <4>1 DEF Path
    <3>2. PICK r \in Path, k \in Kw, i \in Nat : q = Append(r, <<k, i>>) /\ Len(r) = Len(q) - 1
      BY <3>1, PathSplit
    <3>3. PICK a \in Section : /\ Leads(r, a) /\ Owns(a, k, t)
                               /\ Schema[a][k].type = "SEC" => i = 0
      BY <2>1, <3>2, LeadsAppend
    <3>4. Schema[a][k].type = "SEC"
      BY <3>3 DEF Owns, ElementSection
    <3>5. a \notin ElementSection
      BY <3>3, <3>4 DEF NoSectionInElement, Owns
    <3> QED BY <3>2, <3>3, <3>4, <3>5
  <2>2. PICK r1 \in Path, k1 \in Kw : \E a \in Section \ ElementSection :
                 /\ u = Append(r1, <<k1, 0>>) /\ Len(r1) = Len(u) - 1
                 /\ Leads(r1, a) /\ Owns(a, k1, t)
    BY <1>4, <2>1
  <2>3. PICK r2 \in Path, k2 \in Kw : \E a \in Section \ ElementSection :
                 /\ v = Append(r2, <<k2, 0>>) /\ Len(r2) = Len(v) - 1
                 /\ Leads(r2, a) /\ Owns(a, k2, t)
    BY <1>4, <2>1
  <2>4. PICK a \in Section \ ElementSection :
          /\ Leads(r1, a) /\ Leads(r2, a) /\ k1 = k2
    BY <2>2, <2>3, TreeAssumption
  <2>5. r1 # r2
    BY <1>4, <2>2, <2>3, <2>4
  <2>6. Len(r1) = n - 1 /\ Len(r1) \in Nat
    BY <1>4, <2>2 DEF Path
  <2>7. n - 1 \in T
    BY <2>4, <2>5, <2>6
  <2> QED BY <1>2, <2>6, <2>7
<1> QED BY <1>6, <1>7

LEMMA GivenStays ==
  ASSUME FrameInv, [Next]_vars, NEW CONSTANT o, NEW CONSTANT k, Given(o, k)
  PROVE  Given(o, k)'
BY StepGrows DEF Given, Entries

(* A mark set by a step is for a value or a vector of the section read. *)
LEMMA NewMark ==
  ASSUME FrameInv, [Next]_vars, NEW CONSTANT s \in Section, NEW CONSTANT k \in marks'[s],
         k \notin marks[s], k \in DOMAIN Schema[s], Schema[s][k].type # "SEC",
         NEW CONSTANT o, Running => o = Cur.obj
  PROVE  Running /\ InSection(Cur) /\ s = Cur.sec /\ Given(o, k)'
<1>1. marks \in [Section -> SUBSET Kw]
  BY DEF FrameInv, TypeOK
<1>2. CASE NoEffect \/ ParseFile \/ RowStep
  BY <1>2 DEF NoEffect, ParseFile, KeptMarks, RowStep
<1>3. CASE Running /\ Fill
  <2>1. PICK x \in DOMAIN Schema[Cur.sec] : \E l :
          LET t == Schema[Cur.sec][x].type IN
          /\ ~InTable /\ marks' = [marks EXCEPT ![Cur.sec] = @ \cup {x}]
          /\ inited' = IF t \in {"VEC", "VVEC"} THEN inited \cup {<<Cur.obj, x>>} ELSE inited
          /\ data' = data \cup {Value(Cur.obj, x, t, l)} \/ (t = "VEC" /\ data' = data)
    BY <1>3 DEF Fill
  <2>2. Cur.sec \in Section /\ InSection(Cur)
    BY <1>3, <2>1, CurFacts
  <2>3. s = Cur.sec /\ x = k
    BY <1>1, <2>1, <2>2
  <2>4. (\E e \in data' : e.obj = o /\ e.kw = k) \/ <<o, k>> \in inited'
    <3>1. \A t, l : Value(Cur.obj, x, t, l).obj = Cur.obj /\ Value(Cur.obj, x, t, l).kw = x
      BY DEF Value
    <3> QED BY <1>3, <2>1, <2>3, <3>1
  <2> QED BY <1>3, <2>2, <2>3, <2>4 DEF Given, Entries
<1>4. CASE Running /\ Push
  <2>1. PICK x \in DOMAIN Schema[Cur.sec] :
          LET t == Schema[Cur.sec][x].type
              c == Schema[Cur.sec][x].child IN
          /\ ~InTable
          /\ t \in {"TABLE"} \cup OpensSection \cup OpensElement
          /\ marks' = IF t = "SEC" THEN marks
                      ELSE IF t = "VSEC"
                           THEN [marks EXCEPT ![c] = {}, ![Cur.sec] = @ \cup {x}]
                           ELSE [marks EXCEPT ![Cur.sec] = @ \cup {x}]
          /\ inited' = IF t \in OpensElement THEN inited \cup {<<Cur.obj, x>>} ELSE inited
          /\ data' = IF t = "TABLE" THEN data \cup {Value(Cur.obj, x, "TABLE", ln')} ELSE data
    BY <1>4 DEF Push
  <2>2. Cur.sec \in Section /\ InSection(Cur)
    BY <1>4, <2>1, CurFacts
  <2>3. s = Cur.sec /\ x = k
    BY <1>1, <2>1, <2>2
  <2>4. CASE Schema[Cur.sec][k].type = "TABLE"
    <3>1. data' = data \cup {Value(Cur.obj, k, "TABLE", ln')}
      BY <2>1, <2>3, <2>4
    <3>2. Value(Cur.obj, k, "TABLE", ln').obj = o /\ Value(Cur.obj, k, "TABLE", ln').kw = k
      BY <1>4 DEF Value
    <3> QED BY <1>4, <2>2, <2>3, <3>1, <3>2 DEF Given, Entries
  <2>5. CASE Schema[Cur.sec][k].type \in OpensElement
    <3>1. <<Cur.obj, k>> \in inited'
      BY <2>1, <2>3, <2>5
    <3> QED BY <1>4, <2>2, <2>3, <3>1 DEF Given
  <2>6. Schema[Cur.sec][k].type \in {"TABLE"} \cup OpensElement
    BY <2>1, <2>3 DEF OpensSection, OpensElement
  <2> QED BY <2>4, <2>5, <2>6
<1>5. CASE Running /\ Pop
  <2>1. Cur.type = "SEC" /\ marks' = [marks EXCEPT ![Caller.sec] = @ \cup {Cur.kw}]
    BY <1>5 DEF Pop, Return, SetMark
  <2>2. Caller.sec \in Section /\ Called(Caller, Cur)
    <3>2. Len(stack) \in Nat \ {0} /\ (Len(stack) = 1 <=> Cur.type = "TOP")
      BY <1>5, CurFacts
    <3>3. Len(stack) # 1
      BY <2>1, <3>2
    <3>4. \A n \in Nat \ {0} : n # 1 => n > 1
      OBVIOUS
    <3> QED BY <1>5, <3>2, <3>3, <3>4, CurFacts
  <2>3. s = Caller.sec /\ k = Cur.kw
    BY <1>1, <2>1, <2>2
  <2>4. Schema[s][k].type = "SEC"
    BY <2>1, <2>2, <2>3 DEF Called
  <2> QED BY <2>4
<1>6. Fill \/ Push \/ Pop => Running
  BY DEF Fill, Push, Pop
<1> QED BY <1>2, <1>3, <1>4, <1>5, <1>6, StepShape DEF FrameInv

LEMMA GivenInitially ==
  Init => GivenIfMarked
BY DEF Init, GivenIfMarked

LEMMA GivenInductive ==
  ASSUME NoSectionInElement, FrameInv, FrameInv', ReachOK, GivenIfMarked, [Next]_vars
  PROVE  GivenIfMarked'
<1>1. ASSUME NEW CONSTANT s \in Section \ ElementSection, NEW CONSTANT k \in marks'[s],
             IsSingle(s, k), NEW CONSTANT o \in Path, Leads(o, s)
      PROVE  Given(o, k)'
  <2>1. CASE k \in marks[s]
    <3>1. Given(o, k)
      BY <1>1, <2>1 DEF GivenIfMarked
    <3> QED BY <3>1, GivenStays
  <2>2. CASE k \notin marks[s]
    <3>1. PICK p : p = Cur.obj
      OBVIOUS
    <3>2. Running /\ InSection(Cur) /\ s = Cur.sec /\ Given(p, k)'
      BY <1>1, <2>2, <3>1, NewMark DEF IsSingle, Single
    <3>3. o = p
      BY <1>1, <3>1, <3>2, CurFacts, CurLeads, OneObject
    <3> QED BY <3>2, <3>3
  <2> QED BY <2>1, <2>2
<1>2. ASSUME NEW CONSTANT i \in DOMAIN stack', InSection(stack'[i]),
             NEW CONSTANT k \in marks'[stack'[i].sec], IsSingle(stack'[i].sec, k),
             NEW CONSTANT o, o = stack'[i].obj
      PROVE  Given(o, k)'
  <2>1. CASE i \in DOMAIN stack /\ stack'[i] = stack[i]
    <3>1. stack[i] \in Frame /\ stack[i].sec \in Section /\ InSection(stack[i])
          /\ i \in 1..Len(stack) /\ Len(stack[i].obj) = i - 1
      <4>1. stack[i] \in Frame /\ i \in 1..Len(stack) /\ FrameOK(i)
        BY <2>1 DEF FrameInv, TypeOK, StackOK
      <4>2. InSection(stack[i])
        BY <1>2, <2>1
      <4> QED BY <4>1, <4>2 DEF Frame, FrameOK
    <3>2. CASE k \in marks[stack[i].sec]
      <4>1. Given(o, k)
        BY <1>2, <2>1, <3>1, <3>2 DEF GivenIfMarked
      <4> QED BY <4>1, GivenStays
    <3>3. CASE k \notin marks[stack[i].sec]
      <4>1. PICK p : p = Cur.obj
        OBVIOUS
      <4>2. PICK s \in Section : s = stack[i].sec
        BY <3>1
      <4>3. Running /\ InSection(Cur) /\ s = Cur.sec /\ Given(p, k)'
        BY <1>2, <2>1, <3>3, <4>1, <4>2, NewMark DEF IsSingle, Single
      <4>4. i = Len(stack)
        <5> SUFFICES ASSUME i \in 1..(Len(stack) - 1) PROVE FALSE
          BY <3>1
        <5>1. FrameOK(Len(stack)) /\ Cur = stack[Len(stack)]
          BY <4>3, CurFacts DEF FrameInv, StackOK, Cur
        <5>2. Age[stack[i].sec] < Age[Cur.sec]
          BY <4>3, <5>1 DEF FrameOK
        <5>3. Age[Cur.sec] \in Int
          <6>1. \A x \in Section : Age[x] \in 1..Cardinality(Section)
            BY AgeFacts
          <6> QED BY <4>2, <4>3, <6>1
        <5> QED BY <4>2, <4>3, <5>2, <5>3
      <4> QED BY <1>2, <2>1, <4>1, <4>3, <4>4 DEF Cur
    <3> QED BY <3>2, <3>3
  <2>2. CASE stack'[i].sec \notin ElementSection
    <3>1. stack'[i] \in Frame /\ Leads(stack'[i].obj, stack'[i].sec)
      BY <1>2 DEF FrameInv, TypeOK, StackOK, FrameOK, InSection
    <3>2. PICK s \in Section : s = stack'[i].sec
      BY <3>1 DEF Frame
    <3>3. o \in Path /\ Leads(o, s)
      BY <1>2, <3>1, <3>2 DEF Frame
    <3> QED BY <1>1, <1>2, <2>2, <3>2, <3>3
  <2>3. CASE marks'[stack'[i].sec] = {}
    BY <1>2, <2>3
  <2> QED BY <1>2, <2>1, <2>2, <2>3, NewSection
<1>3. \A s \in Section \ ElementSection : \A k \in marks'[s] : IsSingle(s, k) =>
        \A o \in Path : Leads(o, s) => Given(o, k)'
  BY <1>1
<1>4. ASSUME NEW i \in DOMAIN stack', InSection(stack'[i]),
             NEW k \in marks'[stack'[i].sec], IsSingle(stack'[i].sec, k)
      PROVE  Given(stack[i].obj, k)'
  <2>1. PICK o : o = stack'[i].obj
    OBVIOUS
  <2>2. Given(o, k)'
    BY <1>2, <1>4, <2>1
  <2> QED BY <2>1, <2>2 DEF Given, Entries
<1> QED BY <1>3, <1>4 DEF GivenIfMarked, InSection, IsSingle

LEMMA TruthFromInv ==
  ParserInv /\ GivenIfMarked => MarksTellTruth
<1> SUFFICES ASSUME ParserInv, GivenIfMarked,
                    NEW i \in DOMAIN stack, stack[i].type \in {"TOP", "SEC", "VSEC"},
                    NEW k \in DOMAIN Schema[stack[i].sec],
                    Schema[stack[i].sec][k].type \in Single
             PROVE  k \in marks[stack[i].sec] <=> Given(stack[i].obj, k)
  BY DEF MarksTellTruth
<1> DEFINE s == stack[i].sec
           o == stack[i].obj
<1>1. InSection(stack[i]) /\ Leads(o, s) /\ s \in Section /\ o \in Path
  <2>1. stack[i] \in Frame /\ InSection(stack[i])
    BY DEF ParserInv, FrameInv, TypeOK, InSection, OpensSection
  <2> QED BY <2>1 DEF ParserInv, FrameInv, StackOK, FrameOK, Frame
<1>2. ASSUME Given(o, k) PROVE k \in marks[s]
  <2>1. ASSUME NEW e \in Entries(o, k)
        PROVE  <<o, k>> \in SingleGiven
    <3>1. e \in data /\ e.obj = o /\ e.kw = k /\ e \in Entry /\ EntryOK(e)
      BY DEF Entries, ParserInv, FrameInv, TypeOK, OnceOK
    <3>2. PICK d \in Entry : d.obj = o /\ d.kw = k /\ d.type = Schema[s][k].type
      <4>1. Value(o, k, Schema[s][k].type, 0) \in Entry
        BY <1>1, ParserAssumption DEF Value, Entry
      <4> QED BY <4>1 DEF Value
    <3>3. EntryOK(d)
      BY <1>1, <3>2 DEF EntryOK, Single
    <3>4. e.type = d.type
      BY <3>1, <3>2, <3>3, SameType
    <3> QED BY <3>1, <3>2, <3>4 DEF SingleGiven
  <2>2. <<o, k>> \in SingleGiven \cup inited
    BY <1>2, <2>1 DEF Given
  <2> QED BY <1>1, <2>2 DEF ParserInv, OnceOK, MarkedIfGiven
<1>3. ASSUME k \in marks[s] PROVE Given(o, k)
  BY <1>1, <1>3 DEF GivenIfMarked, IsSingle
<1> QED BY <1>2, <1>3

(* In all sections being parsed the marks say exactly what has been given  *)
(* in the current object, so a second line is refused just when it should. *)
THEOREM ParserMarksTell ==
  ASSUME NoSectionInElement
  PROVE  Spec => []MarksTellTruth
<1>1. Init => ParserInv /\ GivenIfMarked
  BY FramesInitially, GivenInitially DEF Init, ReachOK, Touched, OnceOK, MarkedIfGiven,
     SingleGiven, OncePerObject, ParserInv
<1>2. ParserInv /\ GivenIfMarked /\ [Next]_vars => ParserInv' /\ GivenIfMarked'
  BY FramesInductive, ReachInductive, OnceInductive, GivenInductive DEF ParserInv
<1> QED BY <1>1, <1>2, TruthFromInv, PTL DEF Spec

LEMMA DuplicateStep ==
  ASSUME [Next]_vars, outcome' = "duplicate"
  PROVE  UNCHANGED vars \/ \E k \in Kw : Duplicate(k)
<1>1. CASE UNCHANGED vars \/ Terminated
  BY <1>1 DEF Terminated
<1>2. ASSUME Running, UNCHANGED outcome PROVE FALSE
  BY <1>2 DEF Running
<1>3. ASSUME NEW k \in Kw,
             \/ Unknown(k) \/ BadValue(k) \/ UserWithoutConversion(k)
             \/ Scalar(k) \/ Vector(k) \/ Table(k) \/ TableOfVector(k)
             \/ Subsection(k) \/ Element(k) \/ User(k)
      PROVE  FALSE
  BY <1>2, <1>3 DEF Unknown, BadValue, UserWithoutConversion, Fail, Scalar, Vector, Table,
     TableOfVector, Subsection, Element, User, Accept, Known, Keyword, ReadLine
<1>4. CASE Discard \/ TableComment \/ Row \/ BadRow \/ ParseFile
  BY <1>2, <1>4 DEF Discard, TableComment, Row, BadRow, ParseFile, ReadLine, Fail
<1>5. CASE EndLine \/ LastRow \/ ReturnAtEof
  <2>1. Running /\ outcome' = Parsed
    BY <1>5 DEF EndLine, LastRow, ReturnAtEof, ReadLine, Return
  <2> QED BY <2>1 DEF Parsed, Running
<1> QED BY <1>1, <1>3, <1>4, <1>5 DEF Next

LEMMA DuplicateInductive ==
  ASSUME TypeOK, MarksTellTruth, DuplicateIsReal, [Next]_vars
  PROVE  DuplicateIsReal'
<1> SUFFICES ASSUME outcome' = "duplicate" PROVE Given(Cur.obj, key)'
  BY DEF DuplicateIsReal
<1>1. CASE UNCHANGED vars
  BY <1>1 DEF DuplicateIsReal, vars, Given, Entries, Cur
<1>2. ASSUME NEW k \in Kw, Duplicate(k)
      PROVE  Given(Cur.obj, key)'
  <2>1. /\ key' = k /\ k \in marks[Cur.sec] /\ k \in DOMAIN Schema[Cur.sec] /\ ~InTable
        /\ Schema[Cur.sec][k].type \in Single /\ UNCHANGED <<stack, data, inited>>
        /\ Running
    BY <1>2 DEF Duplicate, Known, Keyword, ReadLine, IsDuplicate, ParsedMark, Item, Fail, Single
  <2>2. Len(stack) \in DOMAIN stack /\ stack[Len(stack)] \in Frame /\ Cur = stack[Len(stack)]
    BY <2>1 DEF TypeOK, Cur
  <2>3. stack[Len(stack)].type \in {"TOP", "SEC", "VSEC"}
    BY <2>1, <2>2 DEF InTable, Frame
  <2>4. Given(Cur.obj, k)
    BY <2>1, <2>2, <2>3 DEF MarksTellTruth
  <2> QED BY <2>1, <2>4 DEF Given, Entries, Cur
<1> QED BY <1>1, <1>2, DuplicateStep

(* The process ends in "duplicate keyword" only when the keyword has been  *)
(* given before in the same object.                                        *)
THEOREM ParserRefusesDuplicates ==
  ASSUME NoSectionInElement
  PROVE  Spec => []DuplicateIsReal
<1>1. Init => DuplicateIsReal
  BY DEF Init, DuplicateIsReal
<1>2. TypeOK /\ MarksTellTruth /\ DuplicateIsReal /\ [Next]_vars => DuplicateIsReal'
  BY DuplicateInductive
<1>3. Spec => []TypeOK
  BY ParserTyped
<1>4. Spec => []MarksTellTruth
  BY ParserMarksTell
<1> QED BY <1>1, <1>2, <1>3, <1>4, PTL DEF Spec

(* Only registered keywords are marked. *)
MarksRegistered == \A s \in Section : marks[s] \subseteq DOMAIN Schema[s]

LEMMA MarksRegisteredInductive ==
  FrameInv /\ MarksRegistered /\ [Next]_vars => MarksRegistered'
<1> SUFFICES ASSUME FrameInv, MarksRegistered, [Next]_vars PROVE MarksRegistered'
  OBVIOUS
<1>1. marks \in [Section -> SUBSET Kw]
  BY DEF FrameInv, TypeOK
<1>2. CASE UNCHANGED marks
  BY <1>2 DEF MarksRegistered
<1>3. ASSUME NEW s \in Section, NEW k \in DOMAIN Schema[s], marks' = [marks EXCEPT ![s] = @ \cup {k}]
      PROVE  MarksRegistered'
  BY <1>1, <1>3 DEF MarksRegistered
<1>4. CASE Running /\ Fill
  <2>1. Cur.sec \in Section /\ \E k \in DOMAIN Schema[Cur.sec] : marks' = [marks EXCEPT ![Cur.sec] = @ \cup {k}]
    BY <1>4, CurFacts DEF Fill
  <2> QED BY <1>3, <2>1
<1>5. CASE Running /\ Push
  <2>1. Cur.sec \in Section
    BY <1>5, CurFacts
  <2>2. PICK k \in DOMAIN Schema[Cur.sec] :
          \/ UNCHANGED marks
          \/ marks' = [marks EXCEPT ![Cur.sec] = @ \cup {k}]
          \/ marks' = [marks EXCEPT ![Schema[Cur.sec][k].child] = {}, ![Cur.sec] = @ \cup {k}]
    BY <1>5 DEF Push
  <2>3. CASE marks' = [marks EXCEPT ![Schema[Cur.sec][k].child] = {}, ![Cur.sec] = @ \cup {k}]
    BY <1>1, <2>1, <2>3 DEF MarksRegistered
  <2> QED BY <1>2, <1>3, <2>1, <2>2, <2>3
<1>6. CASE Running /\ Pop
  <2>1. marks' = marks \/ (Cur.type = "SEC" /\ marks' = [marks EXCEPT ![Caller.sec] = @ \cup {Cur.kw}])
    BY <1>6 DEF Pop, Return, SetMark
  <2>2. Cur.type = "SEC" => Caller.sec \in Section /\ Cur.kw \in DOMAIN Schema[Caller.sec]
    <3>1. Len(stack) \in Nat \ {0} /\ (Len(stack) = 1 <=> Cur.type = "TOP")
      BY <1>6, CurFacts
    <3>2. \A n \in Nat \ {0} : n # 1 => n > 1
      OBVIOUS
    <3>3. Cur.type = "SEC" => Len(stack) > 1
      BY <3>1, <3>2
    <3> QED BY <1>6, <3>3, CurFacts DEF Called
  <2> QED BY <1>2, <1>3, <2>1, <2>2
<1>7. NoEffect \/ ParseFile \/ RowStep => UNCHANGED marks
  BY DEF NoEffect, ParseFile, KeptMarks, RowStep
<1>8. Fill \/ Push \/ Pop => Running
  BY DEF Fill, Push, Pop
<1> QED BY <1>2, <1>4, <1>5, <1>6, <1>7, <1>8, StepShape DEF FrameInv

-----------------------------------------------------------------------------
(* Vectors *)

(* A vector that is initialized is that of a keyword of its section; what  *)
(* is an element, or is to become one, has a vector that is initialized.   *)
VectorsOK ==
  /\ \A v \in inited : \E s \in Section :
       /\ Leads(v[1], s) /\ v[2] \in DOMAIN Schema[s]
       /\ Schema[s][v[2]].type \in {"VEC", "VVEC"} \cup OpensElement
  /\ \A e \in data : e.type \in OpensElement => <<e.obj, e.kw>> \in inited
  /\ \A i \in DOMAIN stack : i > 1 /\ stack[i].type \in OpensElement =>
       <<stack[i - 1].obj, stack[i].kw>> \in inited

LEMMA VectorsInitially ==
  Init => VectorsOK
BY DEF Init, VectorsOK

LEMMA VectorsInductive ==
  FrameInv /\ VectorsOK /\ [Next]_vars => VectorsOK'
<1> SUFFICES ASSUME FrameInv, VectorsOK, [Next]_vars PROVE VectorsOK'
  OBVIOUS
<1>1. ASSUME UNCHANGED inited, NEW N, data' = data \cup N,
             \A e \in N : e.type \in OpensElement => <<e.obj, e.kw>> \in inited
      PROVE  /\ \A v \in inited' : \E s \in Section :
                  /\ Leads(v[1], s) /\ v[2] \in DOMAIN Schema[s]
                  /\ Schema[s][v[2]].type \in {"VEC", "VVEC"} \cup OpensElement
             /\ \A e \in data' : e.type \in OpensElement => <<e.obj, e.kw>> \in inited'
  BY <1>1 DEF VectorsOK
<1>2. CASE NoEffect
  BY <1>2 DEF NoEffect, VectorsOK
<1>3. CASE ParseFile
  <2>1. inited' = inited /\ data' = data /\ \A i \in DOMAIN stack' : ~(i > 1)
    BY <1>3 DEF ParseFile
  <2> QED BY <2>1 DEF VectorsOK
<1>4. ASSUME Running, ~InTable, NEW k \in DOMAIN Schema[Cur.sec],
             inited' = inited \/ /\ inited' = inited \cup {<<Cur.obj, k>>}
                                 /\ Schema[Cur.sec][k].type \in {"VEC", "VVEC"} \cup OpensElement,
             \A e \in data' : e \in data \/ e.type \notin OpensElement
      PROVE  /\ \A v \in inited' : \E s \in Section :
                  /\ Leads(v[1], s) /\ v[2] \in DOMAIN Schema[s]
                  /\ Schema[s][v[2]].type \in {"VEC", "VVEC"} \cup OpensElement
             /\ \A e \in data' : e.type \in OpensElement => <<e.obj, e.kw>> \in inited'
  <2>1. Cur.sec \in Section /\ Leads(Cur.obj, Cur.sec)
    BY <1>4, CurFacts, CurLeads
  <2>2. ASSUME NEW v \in inited', v \notin inited
        PROVE  \E s \in Section :
                  /\ Leads(v[1], s) /\ v[2] \in DOMAIN Schema[s]
                  /\ Schema[s][v[2]].type \in {"VEC", "VVEC"} \cup OpensElement
    <3>1. v = <<Cur.obj, k>> /\ Schema[Cur.sec][k].type \in {"VEC", "VVEC"} \cup OpensElement
      BY <1>4, <2>2
    <3>2. v[1] = Cur.obj /\ v[2] = k
      BY <3>1
    <3> QED BY <2>1, <3>1, <3>2
  <2> QED BY <1>4, <2>2 DEF VectorsOK
<1>5. CASE Running /\ Fill
  <2>1. PICK k \in DOMAIN Schema[Cur.sec] : \E l \in (ln + 1)..ln' :
          LET t == Schema[Cur.sec][k].type IN
          /\ ~InTable /\ t \in {"SCALAR", "VEC", "VVEC", "USER"}
          /\ UNCHANGED stack
          /\ inited' = IF t \in {"VEC", "VVEC"} THEN inited \cup {<<Cur.obj, k>>} ELSE inited
          /\ data' = data \cup {Value(Cur.obj, k, t, l)} \/ (t = "VEC" /\ data' = data)
    BY <1>5 DEF Fill
  <2>2. \A e \in data' : e \in data \/ e.type \notin OpensElement
    BY <2>1 DEF Value, OpensElement
  <2>3. inited' = inited \/ /\ inited' = inited \cup {<<Cur.obj, k>>}
                            /\ Schema[Cur.sec][k].type \in {"VEC", "VVEC"} \cup OpensElement
    BY <2>1
  <2>4. ~InTable /\ stack' = stack /\ inited \subseteq inited'
    BY <2>1, <2>3
  <2> QED BY <1>4, <1>5, <2>2, <2>3, <2>4 DEF VectorsOK
<1>6. CASE Running /\ Push
  <2>1. PICK k \in DOMAIN Schema[Cur.sec] :
          LET t == Schema[Cur.sec][k].type IN
          /\ ~InTable
          /\ stack' = Append(stack, NewFrame(k))
          /\ inited' = IF t \in OpensElement THEN inited \cup {<<Cur.obj, k>>} ELSE inited
          /\ data' = IF t = "TABLE" THEN data \cup {Value(Cur.obj, k, "TABLE", ln')} ELSE data
    BY <1>6 DEF Push
  <2>2. \A e \in data' : e \in data \/ e.type \notin OpensElement
    BY <2>1 DEF Value, OpensElement
  <2>3. inited' = inited \/ /\ inited' = inited \cup {<<Cur.obj, k>>}
                            /\ Schema[Cur.sec][k].type \in {"VEC", "VVEC"} \cup OpensElement
    BY <2>1
  <2>4. PICK F : F = NewFrame(k)
    OBVIOUS
  <2>5. F.type = Schema[Cur.sec][k].type /\ F.kw = k
    BY <2>4 DEF NewFrame
  <2>6. PICK n : n = Len(stack)
    OBVIOUS
  <2>7. /\ n \in Nat \ {0} /\ stack \in Seq(Frame) /\ DOMAIN stack = 1..n /\ Cur = stack[n]
    BY <1>6, <2>6, CurFacts DEF FrameInv, TypeOK, Cur
  <2>8. /\ DOMAIN stack' = 1..(n + 1) /\ stack'[n + 1] = F /\ \A i \in 1..n : stack'[i] = stack[i]
    <3>1. stack' = Append(stack, F)
      BY <2>1, <2>4
    <3> QED BY <2>6, <2>7, <3>1
  <2>9. ASSUME NEW i \in DOMAIN stack', i > 1, stack'[i].type \in OpensElement
        PROVE  <<stack'[i - 1].obj, stack'[i].kw>> \in inited'
    <3>1. inited \subseteq inited' /\ (F.type \in OpensElement => <<Cur.obj, k>> \in inited')
      BY <2>1, <2>5
    <3>2. CASE i \in 1..n
      <4>1. i - 1 \in 1..n /\ i \in DOMAIN stack
        BY <2>7, <2>9, <3>2
      <4> QED BY <2>8, <2>9, <3>1, <3>2, <4>1 DEF VectorsOK
    <3>3. CASE i = n + 1
      <4>1. i - 1 = n /\ n \in 1..n
        BY <2>7, <3>3
      <4> QED BY <2>5, <2>7, <2>8, <2>9, <3>1, <3>3, <4>1
    <3> QED BY <2>7, <2>8, <3>2, <3>3
  <2>10. ~InTable
    BY <2>1
  <2> QED BY <1>4, <1>6, <2>2, <2>3, <2>9, <2>10 DEF VectorsOK
<1>7. CASE Running /\ RowStep
  <2>1. UNCHANGED <<stack, inited>> /\ data' = data \cup {RowRead}
    BY <1>7 DEF RowStep
  <2>2. RowRead.type \notin OpensElement
    BY DEF RowRead, Value, OpensElement
  <2> QED BY <1>1, <2>1, <2>2 DEF VectorsOK
<1>8. CASE Running /\ Pop
  <2>1. PICK row \in {{}, {RowRead}} :
          /\ inited' = inited /\ data' = data \cup (row \cup Completed)
          /\ stack' = SubSeq(stack, 1, Len(stack) - 1)
    BY <1>8 DEF Pop, Return
  <2>2. PICK n : n = Len(stack)
    OBVIOUS
  <2>3. /\ n \in Nat \ {0} /\ stack \in Seq(Frame) /\ DOMAIN stack = 1..n /\ Cur = stack[n]
        /\ n = 1 <=> Cur.type = "TOP"
    BY <1>8, <2>2, CurFacts DEF FrameInv, TypeOK, Cur
  <2>4. ASSUME NEW e \in row \cup Completed, e.type \in OpensElement
        PROVE  <<e.obj, e.kw>> \in inited
    <3>1. e \in Completed
      BY <2>4 DEF RowRead, Value, OpensElement
    <3>2. /\ Cur.type \in OpensElement /\ e.obj = Caller.obj /\ e.kw = Cur.kw
      BY <3>1 DEF Completed, Value, OpensElement
    <3>3. n > 1 /\ n \in 1..n
      BY <2>3, <3>2 DEF OpensElement
    <3>4. Caller = stack[n - 1]
      BY <2>2 DEF Caller
    <3> QED BY <2>3, <3>2, <3>3, <3>4 DEF VectorsOK
  <2>5. DOMAIN stack' = 1..(n - 1) /\ \A i \in 1..(n - 1) : stack'[i] = stack[i]
    <3>1. /\ stack' \in Seq(Frame) /\ Len(stack') = n - 1 /\ \A i \in 1..(n - 1) : stack'[i] = stack[i]
      BY <2>1, <2>2, <2>3, FrontAndLast
    <3> QED BY <3>1
  <2>6. ASSUME NEW i \in DOMAIN stack', i > 1, stack'[i].type \in OpensElement
        PROVE  <<stack'[i - 1].obj, stack'[i].kw>> \in inited'
    <3>1. i \in 1..(n - 1) /\ i - 1 \in 1..(n - 1) /\ i \in DOMAIN stack
      BY <2>3, <2>5, <2>6
    <3> QED BY <2>1, <2>5, <2>6, <3>1 DEF VectorsOK
  <2> QED BY <1>1, <2>1, <2>4, <2>6 DEF VectorsOK
<1>9. Fill \/ Push \/ RowStep \/ Pop => Running
  BY DEF Fill, Push, RowStep, Pop
<1> QED BY <1>2, <1>3, <1>5, <1>6, <1>7, <1>8, <1>9, StepShape DEF FrameInv

-----------------------------------------------------------------------------
(* What the marks say of the newest elements *)

(* The number of the newest element of a vector, which may be on the stack *)
Building(p, k) ==
  \E i \in DOMAIN stack : stack[i].obj = Append(p, <<k, Cardinality(Entries(p, k)) + 1>>)
Latest(p, k) ==
  IF Building(p, k) THEN Cardinality(Entries(p, k)) + 1 ELSE Cardinality(Entries(p, k))

(* Every step of the path is to the newest element of a vector. *)
Newest(o) ==
  \A j \in DOMAIN o : o[j][2] > 0 /\ o[j][2] = Latest(SubSeq(o, 1, j - 1), o[j][1])

(* The marks of a section tell what has been given in its newest object,   *)
(* being parsed or not, and in whatever that lies.  Nothing is said of     *)
(* objects in sections, whose marks elements do not take back.             *)
MarksExact ==
  \A o \in Path, s \in Section : Leads(o, s) /\ Newest(o) =>
    \A k \in DOMAIN Schema[s] : Schema[s][k].type # "SEC" =>
      (k \in marks[s] <=> Given(o, k))

LEMMA NewestAppend ==
  ASSUME NEW p \in Path, NEW k \in Kw, NEW n \in Nat, Newest(Append(p, <<k, n>>))
  PROVE  Newest(p) /\ n > 0 /\ n = Latest(p, k)
<1> PICK o : o = Append(p, <<k, n>>)
  OBVIOUS
<1> PICK m : m = Len(p)
  OBVIOUS
<1>1. /\ m \in Nat /\ Len(o) = m + 1 /\ o \in Path /\ o[m + 1] = <<k, n>>
      /\ \A j \in 1..m : o[j] = p[j]
      /\ \A j \in 0..m : SubSeq(o, 1, j) = SubSeq(p, 1, j)
  BY PathAppend DEF Path
<1>2. DOMAIN o = 1..(m + 1) /\ DOMAIN p = 1..m /\ SubSeq(p, 1, m) = p
  BY <1>1, SubSeqFull DEF Path
<1>3. n > 0 /\ n = Latest(p, k)
  <2>1. m + 1 \in DOMAIN o /\ (m + 1) - 1 = m /\ m \in 0..m
    BY <1>1, <1>2
  <2>2. o[m + 1][2] = n /\ o[m + 1][1] = k /\ SubSeq(o, 1, m) = p
    BY <1>1, <1>2, <2>1
  <2>3. n > 0 /\ n = Latest(SubSeq(o, 1, (m + 1) - 1), k)
    BY <2>1, <2>2 DEF Newest
  <2>4. SubSeq(o, 1, (m + 1) - 1) = p
    BY <2>1, <2>2
  <2> QED BY <2>3, <2>4
<1>4. ASSUME NEW j \in DOMAIN p
      PROVE  p[j][2] > 0 /\ p[j][2] = Latest(SubSeq(p, 1, j - 1), p[j][1])
  <2>1. j \in DOMAIN o /\ j \in 1..m /\ j - 1 \in 0..m
    BY <1>1, <1>2
  <2>2. o[j] = p[j] /\ SubSeq(o, 1, j - 1) = SubSeq(p, 1, j - 1)
    BY <1>1, <2>1
  <2>3. o[j][2] > 0 /\ o[j][2] = Latest(SubSeq(o, 1, j - 1), o[j][1])
    BY <2>1 DEF Newest
  <2> QED BY <2>2, <2>3
<1> QED BY <1>3, <1>4 DEF Newest

(* A section being parsed is being parsed for its newest object. *)
LEMMA NewestOnStack ==
  ASSUME FrameInv, NEW i \in DOMAIN stack, InSection(stack[i]),
         NEW o \in Path, Newest(o), Leads(o, stack[i].sec)
  PROVE  o = stack[i].obj
<1> DEFINE Off(x) == /\ x \in DOMAIN stack /\ InSection(stack[x])
                     /\ \E q \in Path : Newest(q) /\ Leads(q, stack[x].sec) /\ q # stack[x].obj
           T == {x \in Nat : Off(x)}
<1> SUFFICES ASSUME o # stack[i].obj PROVE FALSE
  OBVIOUS
<1>1. stack \in Seq(Frame) /\ i \in Nat
  BY DEF FrameInv, TypeOK
<1>2. i \in T
  BY <1>1
<1>3. PICK x \in T : \A y \in T : x <= y
  <2>1. T \in SUBSET Nat
    OBVIOUS
  <2> HIDE DEF T
  <2> QED BY <1>2, <2>1, LeastNumber
<1>4. PICK q \in Path : Newest(q) /\ Leads(q, stack[x].sec) /\ q # stack[x].obj
  OBVIOUS
<1>5. /\ x \in DOMAIN stack /\ x \in Nat \ {0} /\ FrameOK(x) /\ InSection(stack[x])
      /\ stack[x] \in Frame /\ stack[x].sec \in Section
  <2>1. x \in DOMAIN stack /\ InSection(stack[x])
    OBVIOUS
  <2>2. stack[x] \in Frame /\ x \in Nat \ {0} /\ FrameOK(x)
    BY <1>1, <2>1 DEF FrameInv, StackOK
  <2> QED BY <2>1, <2>2 DEF Frame
<1>6. CASE x = 1
  <2>1. stack[x].sec = Top /\ stack[x].obj = <<>>
    BY <1>5, <1>6 DEF FrameInv, StackOK
  <2>2. q = <<>>
    <3> SUFFICES ASSUME Len(q) > 0 PROVE FALSE
      BY DEF Path
    <3>1. PICK r \in Path, k \in Kw, n \in Nat : q = Append(r, <<k, n>>) /\ Len(r) = Len(q) - 1
      BY PathSplit
    <3>2. PICK a \in Section : Owns(a, k, Top)
      BY <1>4, <2>1, <3>1, LeadsAppend, ParserAssumption
    <3> QED BY <3>2, TreeAssumption
  <2> QED BY <1>4, <2>1, <2>2
<1>7. CASE x > 1
  <2> DEFINE f == stack[x]
             b == stack[x - 1]
  <2>1. x - 1 \in DOMAIN stack /\ x - 1 \in Nat /\ x - 1 < x
    BY <1>1, <1>5, <1>7
  <2>2. b \in Frame /\ b.obj \in Path /\ b.sec \in Section
    <3>1. b \in Frame
      BY <1>1, <2>1
    <3> QED BY <3>1 DEF Frame
  <2>3. Called(b, f) /\ f.type \in OpensSection
    BY <1>5, <1>7 DEF FrameOK, Called, InSection
  <2>4. f.kw \in Kw /\ Owns(b.sec, f.kw, f.sec)
    BY <1>5, <2>3 DEF Called, Owns, OpensSection, Frame
  <2>5. InSection(b)
    BY <2>3 DEF Called
  <2>6. q # <<>>
    <3>1. f.sec # Top
      BY <2>2, <2>4, TreeAssumption
    <3> QED BY <1>4, <1>5, <3>1, LeadsEmpty
  <2>7. Len(q) > 0
    BY <2>6 DEF Path
  <2>8. PICK r \in Path, k \in Kw, n \in Nat : q = Append(r, <<k, n>>) /\ Len(r) = Len(q) - 1
    BY <2>7, PathSplit
  <2>9. PICK a \in Section : /\ Leads(r, a) /\ Owns(a, k, f.sec)
                             /\ Schema[a][k].type = "SEC" <=> n = 0
    BY <1>4, <1>5, <2>8, LeadsAppend
  <2>10. a = b.sec /\ k = f.kw
    BY <1>5, <2>2, <2>4, <2>9, TreeAssumption
  <2>11. Newest(r) /\ n > 0 /\ n = Latest(r, k)
    BY <1>4, <2>8, NewestAppend
  <2>12. r = b.obj
    <3> SUFFICES ASSUME r # b.obj PROVE FALSE
      OBVIOUS
    <3>1. x - 1 \in T
      BY <2>1, <2>5, <2>9, <2>10, <2>11
    <3> HIDE DEF T
    <3> QED BY <1>3, <1>5, <2>1, <3>1
  <2>13. f.type = "VSEC"
    <3>1. Schema[b.sec][f.kw].type = f.type /\ n # 0
      BY <2>3, <2>11 DEF Called
    <3> QED BY <2>3, <2>9, <2>10, <3>1 DEF OpensSection
  <2>14. f.obj = Append(r, <<k, Cardinality(Entries(r, k)) + 1>>)
    BY <2>3, <2>10, <2>12, <2>13 DEF Called, OpensElement
  <2>15. n = Cardinality(Entries(r, k)) + 1
    BY <1>5, <2>11, <2>14 DEF Latest, Building
  <2> QED BY <1>4, <2>8, <2>14, <2>15
<1> QED BY <1>5, <1>6, <1>7

LEMMA PathAppendOnce ==
  ASSUME NEW p \in Path, NEW q \in Path, NEW k \in Kw, NEW l \in Kw, NEW n \in Nat, NEW m \in Nat,
         Append(p, <<k, n>>) = Append(q, <<l, m>>)
  PROVE  p = q /\ k = l /\ n = m
<1>1. Len(p) = Len(q) /\ Len(p) \in Nat
  <2>1. Len(p) + 1 = Len(q) + 1
    BY PathAppend
  <2> QED BY <2>1 DEF Path
<1>2. <<k, n>> = <<l, m>>
  BY <1>1, PathAppend
<1>3. SubSeq(p, 1, Len(p)) = SubSeq(q, 1, Len(p))
  <2>1. Len(p) \in 0..Len(p) /\ Len(p) \in 0..Len(q)
    BY <1>1
  <2> QED BY <2>1, PathAppend
<1>4. p = q
  BY <1>1, <1>3, SubSeqFull DEF Path
<1> QED BY <1>2, <1>4

(* A value of an object of a section has the type of its keyword there.    *)
LEMMA EntryOf ==
  ASSUME NEW e \in Entry, EntryOK(e), NEW a \in Section, Leads(e.obj, a), e.kw \in DOMAIN Schema[a]
  PROVE  e.type = Schema[a][e.kw].type
<1>1. e.obj \in Path /\ e.kw \in Kw
  BY DEF Entry
<1>2. CASE e.type = "ROW"
  <2>1. PICK t \in Section : \E o \in Path, n \in Nat :
          /\ Leads(o, t) /\ e.obj = Append(o, <<e.kw, n>>)
          /\ e.kw \in DOMAIN Schema[t] /\ Schema[t][e.kw].type \in {"TABLE", "VTAB"}
    BY <1>2 DEF EntryOK
  <2>2. PICK o \in Path, n \in Nat :
          /\ Leads(o, t) /\ e.obj = Append(o, <<e.kw, n>>)
          /\ e.kw \in DOMAIN Schema[t] /\ Schema[t][e.kw].type \in {"TABLE", "VTAB"}
    BY <2>1
  <2>3. PICK u \in Section : Leads(o, u) /\ Owns(u, e.kw, a)
    BY <1>1, <2>2, LeadsAppend
  <2>4. u = t
    BY <2>2, <2>3, LeadsOnce
  <2> QED BY <2>2, <2>3, <2>4 DEF Owns
<1>3. CASE e.type # "ROW"
  <2>1. PICK t \in Section : /\ Leads(e.obj, t)
                             /\ e.kw \in DOMAIN Schema[t] /\ Schema[t][e.kw].type = e.type
    BY <1>3 DEF EntryOK
  <2>2. a = t
    BY <1>1, <2>1, LeadsOnce
  <2> QED BY <2>1, <2>2
<1> QED BY <1>2, <1>3

LEMMA NewEntryOf ==
  ASSUME FrameInv, FrameInv', [Next]_vars, NEW CONSTANT e \in data', e \notin data,
         NEW CONSTANT a \in Section, Leads(e.obj, a), e.kw \in DOMAIN Schema[a]
  PROVE  e.type = Schema[a][e.kw].type
<1>1. EntryOK(e) /\ e \in Entry
  BY NewEntry DEF FrameInv, TypeOK
<1> QED BY <1>1, EntryOf

(* A vector of sections gets its elements from returns. *)
LEMMA VectorGrows ==
  ASSUME FrameInv, FrameInv', [Next]_vars,
         NEW CONSTANT p \in Path, NEW CONSTANT a \in Section, Leads(p, a),
         NEW CONSTANT k \in DOMAIN Schema[a], Schema[a][k].type = "VSEC"
  PROVE  \/ Entries(p, k)' = Entries(p, k)
         \/ /\ Pop /\ Running /\ Cur.type = "VSEC" /\ Caller.obj = p /\ Cur.kw = k
            /\ Entries(p, k)' = Entries(p, k) \cup {Value(p, k, "VSEC", Cur.at)}
<1>1. data \subseteq data'
  BY StepGrows
<1>2. \A e \in data' : e \notin data /\ e.obj = p /\ e.kw = k => e.type = "VSEC"
  <2> SUFFICES ASSUME NEW CONSTANT e \in data', e \notin data, e.obj = p, e.kw = k
               PROVE  e.type = "VSEC"
    OBVIOUS
  <2> QED BY NewEntryOf
<1>3. CASE \A e \in data' : e.obj = p /\ e.kw = k => e \in data
  BY <1>1, <1>3 DEF Entries
<1>4. CASE \E e \in data' : e \notin data /\ e.obj = p /\ e.kw = k
  <2>1. PICK e \in data' : e \notin data /\ e.obj = p /\ e.kw = k /\ e.type = "VSEC"
    BY <1>2, <1>4
  <2>2. ~(NoEffect \/ ParseFile)
    BY <2>1 DEF NoEffect, ParseFile
  <2>3. ~Fill
    <3> SUFFICES ASSUME Fill PROVE FALSE
      OBVIOUS
    <3>1. PICK x \in DOMAIN Schema[Cur.sec] : \E l :
            /\ Schema[Cur.sec][x].type \in {"SCALAR", "VEC", "VVEC", "USER"}
            /\ \/ data' = data \cup {Value(Cur.obj, x, Schema[Cur.sec][x].type, l)}
               \/ data' = data
      BY DEF Fill
    <3> QED BY <2>1, <3>1 DEF Value
  <2>4. ~Push
    <3> SUFFICES ASSUME Push PROVE FALSE
      OBVIOUS
    <3>1. PICK x : data' = data \cup {Value(Cur.obj, x, "TABLE", ln')} \/ data' = data
      BY DEF Push
    <3> QED BY <2>1, <3>1 DEF Value
  <2>5. ~RowStep
    BY <2>1 DEF RowStep, RowRead, Value
  <2>6. Pop
    BY <2>2, <2>3, <2>4, <2>5, StepShape DEF FrameInv
  <2>7. PICK row \in {{}, {RowRead}} : data' = data \cup row \cup Completed
    BY <2>6 DEF Pop, Return
  <2>8. \A d \in row : d.type = "ROW"
    BY <2>7 DEF RowRead, Value
  <2>9. e \in Completed
    BY <2>1, <2>7, <2>8
  <2>10. PICK v : v = Value(Caller.obj, Cur.kw, Cur.type, Cur.at)
    OBVIOUS
  <2>11. v.obj = Caller.obj /\ v.kw = Cur.kw /\ v.type = Cur.type
    BY <2>10 DEF Value
  <2>12. Completed = {v} /\ e = v
    BY <2>9, <2>10 DEF Completed
  <2>13. Cur.type = "VSEC" /\ Caller.obj = p /\ Cur.kw = k /\ v = Value(p, k, "VSEC", Cur.at)
    BY <2>1, <2>10, <2>11, <2>12
  <2>14. Entries(p, k)' = Entries(p, k) \cup {v}
    <3>1. \A d \in data' : d.obj = p /\ d.kw = k => d \in data \/ d = v
      BY <1>2, <2>7, <2>8, <2>12
    <3>2. v \in data' /\ v.obj = p /\ v.kw = k
      BY <2>1, <2>12
    <3> QED BY <1>1, <3>1, <3>2 DEF Entries
  <2> QED BY <2>6, <2>13, <2>14 DEF Pop
<1> QED BY <1>3, <1>4

(* The frame of an element has been called by the section of its vector. *)
LEMMA ElementFrame ==
  FrameInv =>
    \A i \in DOMAIN stack, p \in Path, a \in Section : \A k \in DOMAIN Schema[a], n \in Nat :
      Leads(p, a) /\ stack[i].obj = Append(p, <<k, n>>) =>
        /\ i > 1 /\ i - 1 \in DOMAIN stack /\ i \in Nat
        /\ stack[i - 1].obj = p /\ stack[i].kw = k /\ Len(p) = i - 2
        /\ stack[i].type = Schema[a][k].type
        /\ stack[i].type \in OpensSection => stack[i].sec = Schema[a][k].child
        /\ stack[i].type \in OpensElement =>
             n = Cardinality(Entries(p, k)) + 1 /\ \A e \in Entries(p, k) : e.line < stack[i].at
<1> HAVE FrameInv
<1> TAKE i \in DOMAIN stack, p \in Path, a \in Section
<1> TAKE k \in DOMAIN Schema[a], n \in Nat
<1> HAVE Leads(p, a) /\ stack[i].obj = Append(p, <<k, n>>)
<1> DEFINE f == stack[i]
           b == stack[i - 1]
<1>1. stack \in Seq(Frame) /\ FrameOK(i) /\ i \in Nat \ {0} /\ f \in Frame /\ k \in Kw
  <2>1. stack \in Seq(Frame) /\ FrameOK(i) /\ k \in Kw
    BY ParserAssumption DEF FrameInv, TypeOK, StackOK
  <2> QED BY <2>1
<1>2. Len(p) \in Nat /\ i = Len(p) + 2
  <2>1. Len(f.obj) = Len(p) + 1 /\ Len(f.obj) = i - 1 /\ Len(p) \in Nat
    BY <1>1, PathAppend DEF FrameOK, Path
  <2> QED BY <1>1, <2>1
<1>3. i > 1 /\ i - 1 \in DOMAIN stack
  BY <1>1, <1>2
<1>4. Called(b, f) /\ FrameOK(i - 1) /\ b \in Frame
  BY <1>1, <1>3 DEF FrameOK, FrameInv, StackOK
<1>5. b.obj \in Path /\ b.sec \in Section /\ Leads(b.obj, b.sec) /\ f.kw \in Kw
  BY <1>1, <1>4 DEF Called, FrameOK, Frame
<1>6. PICK m \in Nat : /\ f.obj = Append(b.obj, <<f.kw, m>>)
                       /\ f.type \in OpensElement => m = Cardinality(Entries(b.obj, f.kw)) + 1
  <2>1. Cardinality(Entries(b.obj, f.kw)) + 1 \in Nat
    <3>1. Cardinality(Entries(b.obj, f.kw)) \in Nat
      BY EntriesFinite DEF FrameInv
    <3> QED BY <3>1
  <2> QED BY <1>4, <2>1 DEF Called
<1>7. p = b.obj /\ k = f.kw /\ n = m
  <2>1. Append(p, <<k, n>>) = Append(b.obj, <<f.kw, m>>)
    BY <1>6
  <2>2. b.obj \in Path /\ f.kw \in Kw /\ k \in Kw
    BY <1>1, <1>5
  <2> HIDE DEF f, b
  <2> QED BY <2>1, <2>2, PathAppendOnce
<1>8. b.sec = a
  BY <1>5, <1>7, LeadsOnce
<1>9. Len(p) = i - 2
  BY <1>2
<1> QED BY <1>1, <1>3, <1>4, <1>6, <1>7, <1>8, <1>9 DEF Called

(* The newest element of a vector stays that until another is begun. *)
LEMMA LatestStays ==
  ASSUME FrameInv, FrameInv', [Next]_vars,
         NEW CONSTANT p \in Path, NEW CONSTANT a \in Section, Leads(p, a),
         NEW CONSTANT k \in DOMAIN Schema[a], Schema[a][k].type = "VSEC"
  PROVE  \/ Latest(p, k)' = Latest(p, k)
         \/ \E i \in DOMAIN stack' : i \notin DOMAIN stack
                                     /\ stack'[i].obj = Append(p, <<k, Latest(p, k)'>>)
<1>1. PICK m : m = Cardinality(Entries(p, k))
  OBVIOUS
<1>2. /\ m \in Nat /\ IsFiniteSet(Entries(p, k)) /\ k \in Kw
      /\ stack \in Seq(Frame) /\ stack' \in Seq(Frame)
  BY <1>1, EntriesFinite, ParserAssumption DEF FrameInv, TypeOK
<1>3. ASSUME NEW i \in DOMAIN stack, stack[i].obj = Append(p, <<k, m + 1>>)
      PROVE  /\ i > 1 /\ i \in Nat /\ stack[i - 1].obj = p /\ stack[i].kw = k /\ Len(p) = i - 2
             /\ stack[i].type = "VSEC" /\ \A e \in Entries(p, k) : e.line < stack[i].at
  <2>1. m + 1 \in Nat
    BY <1>2
  <2> QED BY <1>2, <1>3, <2>1, ElementFrame DEF OpensElement
<1>4. CASE /\ Pop /\ Running /\ Cur.type = "VSEC" /\ Caller.obj = p /\ Cur.kw = k
           /\ Entries(p, k)' = Entries(p, k) \cup {Value(p, k, "VSEC", Cur.at)}
  <2>1. PICK n : n = Len(stack)
    OBVIOUS
  <2>2. /\ n \in Nat \ {0} /\ n \in DOMAIN stack /\ (n = 1 <=> Cur.type = "TOP") /\ Cur = stack[n]
        /\ n > 1 => Called(Caller, Cur)
    BY <1>4, <2>1, CurFacts DEF Cur
  <2>3. n > 1
    BY <1>4, <2>2
  <2>4. Called(Caller, Cur)
    BY <2>2, <2>3
  <2>5. Cur.obj = Append(p, <<k, m + 1>>) /\ \A e \in Entries(p, k) : e.line < Cur.at
    BY <1>1, <1>4, <2>4 DEF Called, OpensElement
  <2>6. Latest(p, k) = m + 1 /\ Len(p) = n - 2
    BY <1>1, <1>3, <2>2, <2>5 DEF Latest, Building
  <2>7. Cur.at \in Nat
    <3>1. Cur \in Frame
      BY <1>4, CurFacts
    <3> QED BY <3>1 DEF Frame
  <2>8. Value(p, k, "VSEC", Cur.at) \notin Entries(p, k)
    <3>1. Value(p, k, "VSEC", Cur.at).line = Cur.at
      BY DEF Value
    <3> QED BY <2>5, <2>7, <3>1
  <2>9. Cardinality(Entries(p, k)') = m + 1
    <3>1. PICK v : v = Value(p, k, "VSEC", Cur.at)
      OBVIOUS
    <3>2. Entries(p, k)' = Entries(p, k) \cup {v} /\ v \notin Entries(p, k)
      BY <1>4, <2>8, <3>1
    <3>3. Cardinality(Entries(p, k) \cup {v}) = m + 1
      BY <1>1, <1>2, <3>2, FS_AddElement
    <3> QED BY <3>2, <3>3
  <2>10. ~Building(p, k)'
    <3> SUFFICES ASSUME NEW i \in DOMAIN stack',
                        stack'[i].obj = Append(p, <<k, (m + 1) + 1>>)
                 PROVE  FALSE
      BY <2>9 DEF Building
    <3>1. Len(stack') = n - 1
      <4>1. stack' = SubSeq(stack, 1, Len(stack) - 1)
        BY <1>4 DEF Pop, Return
      <4> QED BY <1>2, <2>1, <2>2, <4>1, FrontAndLast
    <3>2. Len(stack'[i].obj) = i - 1 /\ i \in 1..(n - 1)
      BY <1>2, <3>1 DEF FrameInv, StackOK, FrameOK
    <3>3. Len(stack'[i].obj) = Len(p) + 1
      BY <1>2, PathAppend
    <3> QED BY <2>2, <2>6, <3>2, <3>3
  <2>11. Latest(p, k)' = m + 1
    BY <2>9, <2>10 DEF Latest
  <2> QED BY <2>6, <2>11
<1>5. CASE Entries(p, k)' = Entries(p, k)
  <2>1. /\ Latest(p, k) = IF Building(p, k) THEN m + 1 ELSE m
        /\ Latest(p, k)' = IF Building(p, k)' THEN m + 1 ELSE m
    BY <1>1, <1>5 DEF Latest
  <2>2. /\ Building(p, k) <=> \E i \in DOMAIN stack : stack[i].obj = Append(p, <<k, m + 1>>)
        /\ Building(p, k)' <=> \E i \in DOMAIN stack' : stack'[i].obj = Append(p, <<k, m + 1>>)
    BY <1>1, <1>5 DEF Building
  <2>3. CASE Pop
    <3>1. PICK n : n = Len(stack)
      OBVIOUS
    <3>2. /\ n \in Nat \ {0} /\ DOMAIN stack = 1..n /\ Cur = stack[n] /\ Running
      BY <2>3, <3>1, CurFacts DEF Cur, Pop
    <3>3. DOMAIN stack' = 1..(n - 1) /\ \A i \in 1..(n - 1) : stack'[i] = stack[i]
      <4>1. stack' = SubSeq(stack, 1, Len(stack) - 1)
        BY <2>3 DEF Pop, Return
      <4>2. Len(stack') = n - 1 /\ \A i \in 1..(n - 1) : stack'[i] = stack[i]
        BY <1>2, <3>1, <3>2, <4>1, FrontAndLast
      <4> QED BY <1>2, <4>2
    <3>4. Cur.obj # Append(p, <<k, m + 1>>)
      <4> SUFFICES ASSUME Cur.obj = Append(p, <<k, m + 1>>) PROVE FALSE
        OBVIOUS
      <4>1. /\ Cur.type = "VSEC" /\ Caller.obj = p /\ Cur.kw = k
            /\ \A e \in Entries(p, k) : e.line < Cur.at
        BY <1>3, <3>1, <3>2 DEF Caller
      <4>2. PICK v : v = Value(p, k, "VSEC", Cur.at)
        OBVIOUS
      <4>3. v \in data' /\ v.obj = p /\ v.kw = k /\ v.line = Cur.at
        BY <2>3, <4>1, <4>2 DEF Pop, Return, Completed, Value
      <4>4. v \in Entries(p, k)
        BY <1>5, <4>3 DEF Entries
      <4>5. Cur.at \in Nat
        <5>1. Cur \in Frame
          BY <3>2, CurFacts
        <5> QED BY <5>1 DEF Frame
      <4> QED BY <4>1, <4>3, <4>4, <4>5
    <3>5. Building(p, k)' <=> Building(p, k)
      <4>1. \A i \in 1..n : i \in 1..(n - 1) \/ i = n
        BY <3>2
      <4>2. \A i \in 1..(n - 1) : i \in 1..n
        BY <3>2
      <4> QED BY <2>2, <3>2, <3>3, <3>4, <4>1, <4>2
    <3> QED BY <2>1, <3>5
  <2>4. CASE ~Pop
    <3>1. \A i \in DOMAIN stack : i \in DOMAIN stack' /\ stack'[i] = stack[i]
      BY <2>4, StepGrows
    <3> QED BY <2>1, <2>2, <3>1
  <2> QED BY <2>3, <2>4
<1> QED BY <1>4, <1>5, VectorGrows

LEMMA NewestSplits ==
  \A p \in Path, k \in Kw, n \in Nat :
    Newest(Append(p, <<k, n>>)) <=> Newest(p) /\ n > 0 /\ n = Latest(p, k)
<1> TAKE p \in Path, k \in Kw, n \in Nat
<1> SUFFICES ASSUME Newest(p), n > 0, n = Latest(p, k)
             PROVE  Newest(Append(p, <<k, n>>))
  BY NewestAppend
<1> PICK o : o = Append(p, <<k, n>>)
  OBVIOUS
<1> PICK m : m = Len(p)
  OBVIOUS
<1>1. /\ m \in Nat /\ Len(o) = m + 1 /\ o \in Path /\ o[m + 1] = <<k, n>>
      /\ \A j \in 1..m : o[j] = p[j]
      /\ \A j \in 0..m : SubSeq(o, 1, j) = SubSeq(p, 1, j)
  BY PathAppend DEF Path
<1>2. DOMAIN o = 1..(m + 1) /\ DOMAIN p = 1..m /\ SubSeq(p, 1, m) = p
  BY <1>1, SubSeqFull DEF Path
<1>3. ASSUME NEW j \in DOMAIN o
      PROVE  o[j][2] > 0 /\ o[j][2] = Latest(SubSeq(o, 1, j - 1), o[j][1])
  <2>1. CASE j \in 1..m
    <3>1. o[j] = p[j] /\ j - 1 \in 0..m
      BY <1>1, <2>1
    <3>2. SubSeq(o, 1, j - 1) = SubSeq(p, 1, j - 1)
      BY <1>1, <3>1
    <3>3. p[j][2] > 0 /\ p[j][2] = Latest(SubSeq(p, 1, j - 1), p[j][1])
      BY <1>2, <2>1 DEF Newest
    <3> QED BY <3>1, <3>2, <3>3
  <2>2. CASE j = m + 1
    <3>1. o[j][1] = k /\ o[j][2] = n /\ j - 1 = m /\ m \in 0..m
      BY <1>1, <2>2
    <3>2. SubSeq(o, 1, j - 1) = p
      BY <1>1, <1>2, <3>1
    <3> QED BY <3>1, <3>2
  <2> QED BY <1>1, <1>2, <2>1, <2>2
<1> QED BY <1>3 DEF Newest

LEMMA NewestSplitsNext ==
  (\A p \in Path, k \in Kw, n \in Nat :
     Newest(Append(p, <<k, n>>)) <=> Newest(p) /\ n > 0 /\ n = Latest(p, k))'
BY NewestSplits, PTL

LEMMA ElementFrameNext ==
  (FrameInv =>
    \A i \in DOMAIN stack, p \in Path, a \in Section : \A k \in DOMAIN Schema[a], n \in Nat :
      Leads(p, a) /\ stack[i].obj = Append(p, <<k, n>>) =>
        stack[i].type = Schema[a][k].type)'
<1>1. FrameInv =>
        \A i \in DOMAIN stack, p \in Path, a \in Section : \A k \in DOMAIN Schema[a], n \in Nat :
          Leads(p, a) /\ stack[i].obj = Append(p, <<k, n>>) =>
            stack[i].type = Schema[a][k].type
  BY ElementFrame
<1> QED BY <1>1, PTL

(* A step calls one function at most. *)
LEMMA StackGrowsByOne ==
  ASSUME FrameInv, [Next]_vars
  PROVE  Len(stack') <= Len(stack) + 1
<1>1. stack \in Seq(Frame)
  BY DEF FrameInv, TypeOK
<1>2. CASE NoEffect \/ Fill \/ RowStep
  <2>1. stack' = stack
    BY <1>2 DEF NoEffect, Fill, RowStep
  <2>2. Len(stack) \in Nat
    BY <1>1
  <2> QED BY <2>1, <2>2
<1>3. CASE ParseFile
  <2>1. Len(stack') = 1
    BY <1>3 DEF ParseFile
  <2> QED BY <1>1, <2>1
<1>4. CASE Push
  <2>1. PICK k \in DOMAIN Schema[Cur.sec] : stack' = Append(stack, NewFrame(k))
    BY <1>4 DEF Push
  <2> QED BY <1>1, <2>1
<1>5. CASE Pop
  <2>1. stack' = SubSeq(stack, 1, Len(stack) - 1) /\ Len(stack) \in Nat \ {0}
    BY <1>5, CurFacts DEF Pop, Return
  <2>2. Len(stack') = Len(stack) - 1
    BY <1>1, <2>1, FrontAndLast
  <2> QED BY <2>1, <2>2
<1>6. [Next]_vars /\ TypeOK
  BY DEF FrameInv
<1> QED BY <1>2, <1>3, <1>4, <1>5, <1>6, StepShape

(* The step begins element o. *)
BeginsElement(o) ==
  \E i \in DOMAIN stack' : /\ i \notin DOMAIN stack
                           /\ stack'[i].obj = o /\ stack'[i].type = "VSEC"

(* Nothing has been given in an element that is just begun. *)
LEMMA BegunIsEmpty ==
  ASSUME FrameInv, FrameInv', ReachOK, [Next]_vars,
         NEW CONSTANT o \in Path, NEW CONSTANT s \in Section, Leads(o, s), BeginsElement(o)
  PROVE  /\ o \notin Touched' /\ marks'[s] = {}
         /\ \A k \in Kw : Latest(o, k)' = 0
<1>1. PICK i \in DOMAIN stack' : i \notin DOMAIN stack /\ stack'[i].obj = o /\ stack'[i].type = "VSEC"
  BY DEF BeginsElement
<1>2. /\ stack' \in Seq(Frame) /\ stack \in Seq(Frame) /\ i \in Nat \ {0} /\ FrameOK(i)'
      /\ InSection(stack'[i])
  BY <1>1 DEF FrameInv, TypeOK, StackOK, InSection, OpensSection
<1>3. stack'[i].sec = s
  <2>1. Leads(o, stack'[i].sec)
    BY <1>1, <1>2 DEF FrameOK, InSection
  <2>2. stack'[i].sec \in Section
    <3>1. stack'[i] \in Frame
      BY <1>1, <1>2
    <3> QED BY <3>1 DEF Frame
  <2> QED BY <2>1, <2>2, LeadsOnce
<1>4. s \in ElementSection
  <2>1. i # 1
    BY <1>1 DEF FrameInv, StackOK
  <2>2. i > 1
    BY <1>2, <2>1
  <2>3. i - 1 \in DOMAIN stack'
    BY <1>1, <1>2, <2>2
  <2>4. PICK b : b = stack'[i - 1]
    OBVIOUS
  <2>5. /\ stack'[i].kw \in DOMAIN Schema[b.sec] /\ Schema[b.sec][stack'[i].kw].type = "VSEC"
        /\ Schema[b.sec][stack'[i].kw].child = s
    BY <1>1, <1>2, <1>3, <2>2, <2>4 DEF FrameOK, Called, OpensSection
  <2>6. b.sec \in Section /\ stack'[i].kw \in Kw
    <3>1. b \in Frame /\ stack'[i] \in Frame
      BY <1>1, <1>2, <2>3, <2>4
    <3> QED BY <3>1 DEF Frame
  <2>7. Owns(b.sec, stack'[i].kw, s)
    BY <2>5 DEF Owns
  <2> QED BY <2>5, <2>6, <2>7 DEF ElementSection
<1>5. o \notin Touched' /\ marks'[s] = {}
  BY <1>1, <1>2, <1>3, <1>4, NewSection
<1>6. ASSUME NEW CONSTANT k \in Kw
      PROVE  Latest(o, k)' = 0
  <2>1. Entries(o, k)' = {}
    BY <1>5 DEF Touched, Entries
  <2>2. Cardinality(Entries(o, k)') = 0
    BY <2>1, FS_EmptySet
  <2>3. ~Building(o, k)'
    <3> SUFFICES ASSUME NEW x \in DOMAIN stack', stack'[x].obj = Append(o, <<k, 0 + 1>>)
                 PROVE  FALSE
      BY <2>2 DEF Building
    <3>1. Len(o) = i - 1 /\ Len(stack'[x].obj) = x - 1
      BY <1>1, <1>2 DEF FrameOK, FrameInv, StackOK
    <3>2. Len(stack'[x].obj) = Len(o) + 1
      BY PathAppend
    <3>3. i > Len(stack)
      BY <1>1, <1>2
    <3>4. x \in Nat /\ x <= Len(stack') /\ Len(stack) \in Nat
      BY <1>2
    <3> QED BY <1>2, <3>1, <3>2, <3>3, <3>4, StackGrowsByOne
  <2> QED BY <2>2, <2>3 DEF Latest
<1> QED BY <1>5, <1>6

(* Nothing but the element a step begins becomes the newest. *)
LEMMA NewlyNewest ==
  ASSUME FrameInv, FrameInv', ReachOK, [Next]_vars,
         NEW CONSTANT o \in Path, NEW CONSTANT s \in Section, Leads(o, s), Newest(o)'
  PROVE  Newest(o) \/ BeginsElement(o)
<1> DEFINE Off(q) == /\ q \in Path /\ \E a \in Section : Leads(q, a)
                     /\ Newest(q)' /\ ~Newest(q) /\ ~BeginsElement(q)
           T == {n \in Nat : \E q \in Path : Off(q) /\ Len(q) = n}
<1> SUFFICES ASSUME Off(o) PROVE FALSE
  OBVIOUS
<1>1. Len(o) \in T
  BY DEF Path
<1>2. PICK n \in T : \A m \in T : n <= m
  <2>1. T \in SUBSET Nat
    OBVIOUS
  <2> HIDE DEF T
  <2> QED BY <1>1, <2>1, LeastNumber
<1>3. PICK q \in Path : Off(q) /\ Len(q) = n
  OBVIOUS
<1>4. PICK c \in Section : Leads(q, c)
  BY <1>3
<1>5. Len(q) > 0
  <2> SUFFICES ASSUME Len(q) = 0 PROVE FALSE
    BY DEF Path
  <2>1. DOMAIN q = {}
    BY DEF Path
  <2> QED BY <1>3, <2>1 DEF Newest
<1>6. PICK r \in Path, k \in Kw, m \in Nat : q = Append(r, <<k, m>>) /\ Len(r) = Len(q) - 1
  BY <1>5, PathSplit
<1>7. PICK a \in Section : Leads(r, a) /\ Owns(a, k, c) /\ (Schema[a][k].type = "SEC" <=> m = 0)
  BY <1>4, <1>6, LeadsAppend
<1>8. Newest(r)' /\ m > 0 /\ m = Latest(r, k)'
  <2>1. Newest(Append(r, <<k, m>>))'
    BY <1>3, <1>6
  <2> QED BY <2>1, NewestSplitsNext
<1>9. k \in DOMAIN Schema[a] /\ Schema[a][k].type = "VSEC"
  BY <1>7, <1>8 DEF Owns
<1>10. Newest(r) \/ BeginsElement(r)
  <2> SUFFICES ASSUME ~(Newest(r) \/ BeginsElement(r)) PROVE FALSE
    OBVIOUS
  <2>1. Off(r)
    BY <1>7, <1>8
  <2>2. Len(r) \in T /\ Len(r) < n
    BY <1>3, <1>6, <2>1 DEF Path
  <2>3. n <= Len(r) /\ n \in Nat /\ Len(r) \in Nat
    BY <1>2, <2>2
  <2> QED BY <2>2, <2>3
<1>11. Newest(r)
  <2> SUFFICES ASSUME BeginsElement(r) PROVE FALSE
    BY <1>10
  <2>1. Latest(r, k)' = 0
    BY <1>7, BegunIsEmpty
  <2> QED BY <1>8, <2>1
<1>12. CASE Latest(r, k)' = Latest(r, k)
  BY <1>3, <1>6, <1>8, <1>11, <1>12, NewestSplits
<1>13. ASSUME NEW i \in DOMAIN stack', i \notin DOMAIN stack,
              stack'[i].obj = Append(r, <<k, Latest(r, k)'>>)
       PROVE  FALSE
  <2>2. stack'[i].obj = q
    BY <1>6, <1>8, <1>13
  <2>3. stack'[i].type = "VSEC"
    <3>1. stack'[i].obj = Append(r, <<k, m>>)
      BY <1>6, <2>2
    <3>2. stack'[i].type = Schema[a][k].type
      BY <1>7, <1>9, <3>1, ElementFrameNext
    <3> QED BY <1>9, <3>2
  <2> QED BY <1>3, <1>13, <2>2, <2>3 DEF BeginsElement
<1> QED BY <1>7, <1>9, <1>12, <1>13, LatestStays

(* A section loses its marks when an element of it is begun. *)
LEMMA MarksDropped ==
  ASSUME FrameInv, [Next]_vars, NEW CONSTANT s \in Section, NEW CONSTANT k \in marks[s], k \notin marks'[s]
  PROVE  \E i \in DOMAIN stack' : /\ i \notin DOMAIN stack
                                  /\ stack'[i].type = "VSEC" /\ stack'[i].sec = s
<1>1. marks \in [Section -> SUBSET Kw] /\ stack \in Seq(Frame)
  BY DEF FrameInv, TypeOK
<1>2. marks' # marks
  OBVIOUS
<1>3. ASSUME NEW c \in Section, NEW x, marks' = [marks EXCEPT ![c] = @ \cup {x}]
      PROVE  FALSE
  BY <1>1, <1>3
<1>4. CASE Running /\ Fill
  <2>1. PICK x \in DOMAIN Schema[Cur.sec] : marks' = [marks EXCEPT ![Cur.sec] = @ \cup {x}]
    BY <1>4 DEF Fill
  <2>2. Cur.sec \in Section
    BY <1>4, CurFacts
  <2> QED BY <1>3, <2>1, <2>2
<1>5. CASE Running /\ Pop
  <2>1. Cur.type = "SEC" /\ marks' = [marks EXCEPT ![Caller.sec] = @ \cup {Cur.kw}]
    BY <1>2, <1>5 DEF Pop, Return, SetMark
  <2> QED BY <1>1, <2>1
<1>6. CASE Running /\ Push
  <2>1. PICK x \in DOMAIN Schema[Cur.sec] :
          LET t == Schema[Cur.sec][x].type
              c == Schema[Cur.sec][x].child IN
          /\ stack' = Append(stack, NewFrame(x))
          /\ marks' = IF t = "SEC" THEN marks
                      ELSE IF t = "VSEC"
                           THEN [marks EXCEPT ![c] = {}, ![Cur.sec] = @ \cup {x}]
                           ELSE [marks EXCEPT ![Cur.sec] = @ \cup {x}]
    BY <1>6 DEF Push
  <2>2. Cur.sec \in Section
    BY <1>6, CurFacts
  <2>3. Schema[Cur.sec][x].type = "VSEC"
    BY <1>2, <1>3, <2>1, <2>2
  <2>4. marks' = [marks EXCEPT ![Schema[Cur.sec][x].child] = {}, ![Cur.sec] = @ \cup {x}]
    BY <2>1, <2>3
  <2>5. s = Schema[Cur.sec][x].child
    BY <1>1, <2>2, <2>4
  <2>6. PICK F : F = NewFrame(x)
    OBVIOUS
  <2>7. F.type = "VSEC" /\ F.sec = s
    BY <2>3, <2>5, <2>6 DEF NewFrame, OpensSection
  <2>8. stack' = Append(stack, F) /\ Len(stack) \in Nat
    BY <1>1, <2>1, <2>6
  <2>9. /\ Len(stack) + 1 \in DOMAIN stack' /\ Len(stack) + 1 \notin DOMAIN stack
        /\ stack'[Len(stack) + 1] = F
    BY <1>1, <2>8
  <2> QED BY <2>7, <2>9
<1>7. NoEffect \/ ParseFile \/ RowStep => UNCHANGED marks
  BY DEF NoEffect, ParseFile, KeptMarks, RowStep
<1>8. Fill \/ Push \/ Pop => Running
  BY DEF Fill, Push, Pop
<1> QED BY <1>2, <1>4, <1>5, <1>6, <1>7, <1>8, StepShape DEF FrameInv

(* What is given first, is given in the section being parsed. *)
LEMMA NewlyGiven ==
  ASSUME FrameInv, FrameInv', VectorsOK, [Next]_vars,
         NEW CONSTANT o \in Path, NEW CONSTANT s \in Section, Leads(o, s),
         NEW CONSTANT k \in DOMAIN Schema[s], Given(o, k)', ~Given(o, k)
  PROVE  Running /\ InSection(Cur) /\ o = Cur.obj /\ k \in marks'[Cur.sec]
<1>1. PICK v : v = <<o, k>>
  OBVIOUS
<1>2. v[1] = o /\ v[2] = k /\ v \notin inited /\ \A e \in data : ~(e.obj = o /\ e.kw = k)
  BY <1>1 DEF Given, Entries
<1>3. v \notin SingleGiven
  BY <1>1, <1>2 DEF SingleGiven
<1>4. CASE v \in (SingleGiven \cup inited)'
  BY <1>2, <1>3, <1>4, NewGiven
<1>5. CASE v \notin (SingleGiven \cup inited)'
  <2>1. PICK e \in data' : e.obj = o /\ e.kw = k /\ e \notin data
    BY <1>1, <1>2, <1>5 DEF Given, Entries
  <2>2. e.type = Schema[s][k].type /\ e.type \in Type
    BY <2>1, NewEntryOf, ParserAssumption
  <2>3. e.type \notin Single
    BY <1>1, <1>5, <2>1 DEF SingleGiven
  <2>4. ~(NoEffect \/ ParseFile)
    BY <2>1 DEF NoEffect, ParseFile
  <2>5. ~RowStep
    <3> SUFFICES ASSUME RowStep PROVE FALSE
      OBVIOUS
    <3>1. e = RowRead
      BY <2>1 DEF RowStep
    <3> QED BY <2>2, <3>1 DEF RowRead, Value, Type, Single
  <2>6. ~Push
    <3> SUFFICES ASSUME Push PROVE FALSE
      OBVIOUS
    <3>1. PICK x : data' = data \cup {Value(Cur.obj, x, "TABLE", ln')} \/ data' = data
      BY DEF Push
    <3>2. e = Value(Cur.obj, x, "TABLE", ln')
      BY <2>1, <3>1
    <3> QED BY <2>3, <3>2 DEF Value, Single
  <2>7. ~Pop
    <3> SUFFICES ASSUME Pop PROVE FALSE
      OBVIOUS
    <3>1. PICK row \in {{}, {RowRead}} : data' = data \cup row \cup Completed
      BY DEF Pop, Return
    <3>2. \A d \in row : d.type = "ROW"
      BY <3>1 DEF RowRead, Value
    <3>3. e \in Completed
      BY <2>1, <2>2, <3>1, <3>2 DEF Type, Single
    <3>4. Cur.type \in OpensElement /\ Caller.obj = o /\ Cur.kw = k
      BY <2>1, <3>3 DEF Completed, Value, OpensElement
    <3>5. /\ Len(stack) \in Nat \ {0} /\ (Len(stack) = 1 <=> Cur.type = "TOP")
          /\ Len(stack) \in DOMAIN stack
      BY CurFacts DEF Pop
    <3>6. Len(stack) # 1
      BY <3>4, <3>5 DEF OpensElement
    <3>7. \A n \in Nat \ {0} : n # 1 => n > 1
      OBVIOUS
    <3>8. Len(stack) > 1
      BY <3>5, <3>6, <3>7
    <3>9. <<stack[Len(stack) - 1].obj, stack[Len(stack)].kw>> \in inited
      BY <3>4, <3>5, <3>8 DEF VectorsOK, Cur
    <3> QED BY <1>1, <1>2, <3>4, <3>9 DEF Cur, Caller
  <2>8. Running /\ Fill
    <3>1. Fill
      BY <2>4, <2>5, <2>6, <2>7, StepShape DEF FrameInv
    <3> QED BY <3>1 DEF Fill
  <2>9. PICK x \in DOMAIN Schema[Cur.sec] : \E t, l :
          /\ ~InTable /\ marks' = [marks EXCEPT ![Cur.sec] = @ \cup {x}]
          /\ data' = data \cup {Value(Cur.obj, x, t, l)} \/ data' = data
    BY <2>8 DEF Fill
  <2>10. Cur.sec \in Section /\ InSection(Cur)
    BY <2>8, <2>9, CurFacts
  <2>11. o = Cur.obj /\ k = x
    <3>1. \A t, l : Value(Cur.obj, x, t, l).obj = Cur.obj /\ Value(Cur.obj, x, t, l).kw = x
      BY DEF Value
    <3> QED BY <2>1, <2>9, <3>1
  <2>12. x \in marks'[Cur.sec]
    BY <2>9, <2>10 DEF FrameInv, TypeOK
  <2> QED BY <2>8, <2>10, <2>11, <2>12
<1> QED BY <1>4, <1>5

LEMMA NewestOnStackNext ==
  (FrameInv =>
     \A i \in DOMAIN stack, o \in Path :
       InSection(stack[i]) /\ Newest(o) /\ Leads(o, stack[i].sec) => o = stack[i].obj)'
<1>1. FrameInv =>
        \A i \in DOMAIN stack, o \in Path :
          InSection(stack[i]) /\ Newest(o) /\ Leads(o, stack[i].sec) => o = stack[i].obj
  BY NewestOnStack
<1> QED BY <1>1, PTL

LEMMA ExactInductive ==
  FrameInv /\ FrameInv' /\ ReachOK /\ VectorsOK /\ MarksExact /\ [Next]_vars => MarksExact'
<1> SUFFICES ASSUME FrameInv, FrameInv', ReachOK, VectorsOK, MarksExact, [Next]_vars,
                    NEW CONSTANT o \in Path, NEW CONSTANT s \in Section, Leads(o, s), Newest(o)',
                    NEW CONSTANT k \in DOMAIN Schema[s], Schema[s][k].type # "SEC"
             PROVE  k \in marks'[s] <=> Given(o, k)'
  BY DEF MarksExact
<1>1. CASE BeginsElement(o)
  <2>1. o \notin Touched' /\ marks'[s] = {}
    BY <1>1, BegunIsEmpty
  <2>2. ~Given(o, k)'
    <3> SUFFICES ASSUME Given(o, k)' PROVE FALSE
      OBVIOUS
    <3>1. CASE <<o, k>> \in inited'
      <4>1. PICK v \in inited' : v = <<o, k>>
        BY <3>1
      <4>2. v[1] = o
        BY <4>1
      <4> QED BY <2>1, <4>1, <4>2 DEF Touched
    <3>2. CASE <<o, k>> \notin inited'
      <4>1. PICK e \in data' : e.obj = o
        BY <3>2 DEF Given, Entries
      <4> QED BY <2>1, <4>1 DEF Touched
    <3> QED BY <3>1, <3>2
  <2> QED BY <2>1, <2>2
<1>2. CASE ~BeginsElement(o)
  <2>1. Newest(o)
    BY <1>2, NewlyNewest
  <2>2. k \in marks[s] <=> Given(o, k)
    BY <2>1 DEF MarksExact
  <2>3. ASSUME k \in marks'[s], k \notin marks[s]
        PROVE  Given(o, k)'
    <3>1. PICK p : p = Cur.obj
      OBVIOUS
    <3>2. Running /\ InSection(Cur) /\ s = Cur.sec /\ Given(p, k)'
      BY <2>3, <3>1, NewMark
    <3>3. Len(stack) \in DOMAIN stack
      BY <3>2, CurFacts
    <3>4. o = Cur.obj
      BY <2>1, <3>2, <3>3, NewestOnStack DEF Cur
    <3> QED BY <3>1, <3>2, <3>4
  <2>4. ASSUME Given(o, k), k \notin marks'[s]
        PROVE  FALSE
    <3>1. k \in marks[s]
      BY <2>2, <2>4
    <3>2. PICK i \in DOMAIN stack' : i \notin DOMAIN stack /\ stack'[i].type = "VSEC" /\ stack'[i].sec = s
      BY <2>4, <3>1, MarksDropped
    <3>3. InSection(stack'[i])
      BY <3>2 DEF InSection, OpensSection
    <3>4. o = stack'[i].obj
      BY <3>2, <3>3, NewestOnStackNext
    <3> QED BY <1>2, <3>2, <3>4 DEF BeginsElement
  <2>5. ASSUME Given(o, k)', ~Given(o, k)
        PROVE  k \in marks'[s]
    <3>1. Running /\ InSection(Cur) /\ o = Cur.obj /\ k \in marks'[Cur.sec]
      BY <2>5, NewlyGiven
    <3>2. Leads(Cur.obj, Cur.sec) /\ Cur.sec \in Section
      BY <3>1, CurLeads, CurFacts
    <3>3. s = Cur.sec
      BY <3>1, <3>2, LeadsOnce
    <3> QED BY <3>1, <3>3
  <2>6. Given(o, k) => Given(o, k)'
    BY GivenStays
  <2> QED BY <2>2, <2>3, <2>4, <2>5, <2>6
<1> QED BY <1>1, <1>2

LEMMA ExactInitially ==
  Init => MarksExact
<1> SUFFICES ASSUME Init PROVE MarksExact
  OBVIOUS
<1>1. (\A s \in Section : marks[s] = {}) /\ \A o, k : ~Given(o, k)
  BY DEF Init, Given, Entries
<1> QED BY <1>1 DEF MarksExact

(* An object being parsed, or parsed last, is one that scapar_print shows: *)
(* in it, and in all that it lies in, the marks tell what has been given,  *)
(* unless it lies in a section of an element.                              *)
THEOREM ParserMarksExact ==
  Spec => []MarksExact
<1>1. Init => ParserInv /\ VectorsOK /\ MarksExact
  BY FramesInitially, VectorsInitially, ExactInitially
     DEF Init, ReachOK, Touched, OnceOK, MarkedIfGiven, SingleGiven, OncePerObject, ParserInv
<1>2. ParserInv /\ VectorsOK /\ MarksExact /\ [Next]_vars => (ParserInv /\ VectorsOK /\ MarksExact)'
  BY FramesInductive, ReachInductive, OnceInductive, VectorsInductive, ExactInductive DEF ParserInv
<1> QED BY <1>1, <1>2, PTL DEF Spec
=============================================================================
