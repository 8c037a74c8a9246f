--------------------------- MODULE SectionParser ---------------------------
(***************************************************************************)
(* scapar_sec_parse_from_fh: a keyword file, one logical line after the    *)
(* other, is interpreted by the innermost open section or table.  The      *)
(* recursion of the C code is an explicit stack.                           *)
(*                                                                         *)
(* The schema is what registration built.  The parsed marks live in the    *)
(* section descriptors, of which there is one per registered section; the  *)
(* data live in objects, of which a vector of sections has many for one    *)
(* descriptor.  An object is named by the path of keywords and element     *)
(* numbers that leads to it, 0 where there is no vector; values are        *)
(* identified by the line they come from.                                  *)
(***************************************************************************)
EXTENDS Integers, Sequences, FiniteSets

CONSTANTS
  Kw,        \* keywords, registered or not
  Section,   \* section descriptors
  Top,       \* the parser's own section
  Schema,    \* Schema[s][k]: type and child section of keyword k of s
  Converts,  \* the sections scapar_sec_init_user_type was called for
  MaxLines,  \* bound: lines in the file
  MaxUser,   \* bound: lines a user conversion reads by itself
  MaxParses  \* bound: calls of scapar_parse

(* SCALAR is INT, FLT and STR; VEC a vector of these; VVEC, VTAB and VSEC  *)
(* are vectors of vectors, of tables and of sections.                      *)
Single == {"SCALAR", "VEC", "TABLE"}
Type   == Single \cup {"VVEC", "VTAB", "VSEC", "SEC", "USER"}

ASSUME ParserAssumption ==
  /\ Kw # {} /\ Top \in Section
  /\ DOMAIN Schema = Section
  /\ \A s \in Section :
       /\ DOMAIN Schema[s] \subseteq Kw
       /\ \A k \in DOMAIN Schema[s] :
            Schema[s][k].type \in Type /\ Schema[s][k].child \in Section
  /\ Converts \subseteq Section
  /\ MaxLines \in Nat /\ MaxUser \in Nat /\ MaxParses \in Nat

(* Keyword k of section s owns section c. *)
Owns(s, k, c) ==
  /\ k \in DOMAIN Schema[s]
  /\ Schema[s][k].type \in {"SEC", "VSEC"} /\ Schema[s][k].child = c

(* Registration builds a tree (OwnershipTree of Registry): a section has   *)
(* one owner, in a section created before it, and the parser's own none.   *)
ASSUME TreeAssumption ==
  /\ \A s, t, c \in Section : \A k, l \in Kw :
       Owns(s, k, c) /\ Owns(t, l, c) => s = t /\ k = l
  /\ \A s \in Section, k \in Kw : ~Owns(s, k, Top)
  /\ \E age \in [Section -> 1..Cardinality(Section)] :
       \A s, c \in Section, k \in Kw : Owns(s, k, c) => age[s] < age[c]

VARIABLES
  ln,       \* lines read so far
  eof,      \* fgets has returned NULL
  stack,    \* the calls of the parser in progress, innermost last
  marks,    \* marks[s]: the items of s whose parsed flag is set
  inited,   \* the SCAPAR_VECs initialized, as <<object, keyword>>
  data,     \* the values stored
  key,      \* the keyword of the last line
  parses,   \* calls of scapar_parse so far
  outcome   \* "idle" before the first call, "running", "parsed" when it has
            \* returned, or the error that ended the process

vars == <<ln, eof, stack, marks, inited, data, key, parses, outcome>>

Path  == Seq(Kw \X Nat)
Frame == [type : {"TOP", "SEC", "VSEC", "TABLE", "VTAB"}, sec : Section,
          obj : Path, kw : Kw, at : Nat]
Entry == [obj : Path, kw : Kw, type : Type \cup {"ROW"}, line : Nat]
Outcome == {"idle", "running", "parsed", "unknown", "duplicate", "badValue", "abort"}

NoKw   == CHOOSE k \in Kw : TRUE
Cur    == stack[Len(stack)]
Caller == stack[Len(stack) - 1]
Item   == Schema[Cur.sec][key']

Entries(o, k) == {e \in data : e.obj = o /\ e.kw = k}
Value(o, k, t, n) == [obj |-> o, kw |-> k, type |-> t, line |-> n]

Running   == outcome = "running"
Between   == outcome \in {"idle", "parsed"}
InTable   == Cur.type \in {"TABLE", "VTAB"}
ReadLine  == Running /\ ~eof /\ ln < MaxLines /\ ln' = ln + 1 /\ UNCHANGED <<eof, parses>>

-----------------------------------------------------------------------------
(* scapar_parse; the file is read on from where a call before has stopped, *)
(* and nothing else of that call is forgotten.                             *)
ForgetMarks == [s \in Section |-> {}]
KeptMarks   == marks
ParseFile ==
  /\ Between /\ parses < MaxParses
  /\ parses' = parses + 1
  /\ outcome' = "running"
  /\ stack' = <<[type |-> "TOP", sec |-> Top, obj |-> <<>>, kw |-> NoKw, at |-> ln]>>
  /\ marks' = KeptMarks
  /\ UNCHANGED <<ln, eof, inited, data, key>>

-----------------------------------------------------------------------------
(* Lines read by a section *)

Discard ==
  /\ ReadLine /\ ~InTable
  /\ UNCHANGED <<stack, marks, inited, data, key, outcome>>

(* A keyword line; the query is answered by the schema. *)
Keyword(k) == ReadLine /\ ~InTable /\ key' = k

Known(k) == Keyword(k) /\ k \in DOMAIN Schema[Cur.sec]

Fail(how) == outcome' = how /\ UNCHANGED <<stack, marks, inited, data>>

(* In a section without keywords the query's assertion fails. *)
Unknown(k) ==
  /\ Keyword(k) /\ k \notin DOMAIN Schema[Cur.sec]
  /\ Fail(IF DOMAIN Schema[Cur.sec] = {} THEN "abort" ELSE "unknown")

ParsedMark(k) == k \in marks[Cur.sec]

(* The duplicate checks: vectors other than those of INT, FLT and STR,     *)
(* sections and user types have none.  That of a vector looks at the mark  *)
(* and at the type of the SCAPAR_VEC, which is set when it is initialized. *)
ChecksScalarsOnly(k) == Item.type = "SCALAR" /\ ParsedMark(k)
IsDuplicate(k) ==
  /\ ParsedMark(k)
  /\ \/ Item.type \in {"SCALAR", "TABLE"}
     \/ Item.type = "VEC" /\ <<Cur.obj, k>> \in inited

Duplicate(k) ==
  /\ Known(k) /\ IsDuplicate(k)
  /\ Fail("duplicate")

Accept(k) == Known(k) /\ ~IsDuplicate(k)
NoMark(s, k)  == UNCHANGED marks
SetMark(s, k) == marks' = [marks EXCEPT ![s] = @ \cup {k}]

(* The text after the keyword is not a value of its type. *)
BadValue(k) ==
  /\ Accept(k) /\ Item.type \in {"SCALAR", "VEC", "VVEC"}
  /\ Fail("badValue")

Scalar(k) ==
  /\ Accept(k) /\ Item.type = "SCALAR"
  /\ SetMark(Cur.sec, k)
  /\ data' = data \cup {Value(Cur.obj, k, "SCALAR", ln')}
  /\ UNCHANGED <<stack, inited, outcome>>

InitVec(k) == inited' = inited \cup {<<Cur.obj, k>>}

(* A line of values for a vector; the line may hold none.  A vector of     *)
(* vectors gets one more vector in any case.                               *)
Vector(k) ==
  /\ Accept(k) /\ Item.type \in {"VEC", "VVEC"}
  /\ SetMark(Cur.sec, k)
  /\ InitVec(k)
  /\ \/ data' = data \cup {Value(Cur.obj, k, Item.type, ln')}
     \/ Item.type = "VEC" /\ UNCHANGED data
  /\ UNCHANGED <<stack, outcome>>

Call(t, s, k, i) ==
  stack' = Append(stack, [type |-> t, sec |-> s, obj |-> Append(Cur.obj, <<k, i>>),
                          kw |-> k, at |-> ln'])

Table(k) ==
  /\ Accept(k) /\ Item.type = "TABLE"
  /\ SetMark(Cur.sec, k)
  /\ data' = data \cup {Value(Cur.obj, k, "TABLE", ln')}
  /\ Call("TABLE", Cur.sec, k, 0)
  /\ UNCHANGED <<inited, outcome>>

(* The number of the element under construction in a vector *)
NextElement(k) == Cardinality(Entries(Cur.obj, k)) + 1

TableOfVector(k) ==
  /\ Accept(k) /\ Item.type = "VTAB"
  /\ SetMark(Cur.sec, k)
  /\ InitVec(k)
  /\ Call("VTAB", Cur.sec, k, NextElement(k))
  /\ UNCHANGED <<data, outcome>>

Subsection(k) ==
  /\ Accept(k) /\ Item.type = "SEC"
  /\ Call("SEC", Item.child, k, 0)
  /\ UNCHANGED <<marks, inited, data, outcome>>

(* scapar_sec_restore_parse_mark on the element section *)
Unrestored(s) == marks[s]
Restored(s)   == {}

Element(k) ==
  /\ Accept(k) /\ Item.type = "VSEC"
  /\ marks' = [marks EXCEPT ![Item.child] = Restored(Item.child),
                            ![Cur.sec] = @ \cup {k}]
  /\ InitVec(k)
  /\ Call("VSEC", Item.child, k, NextElement(k))
  /\ UNCHANGED <<data, outcome>>

(* A user conversion may read lines of its own. *)
User(k) ==
  /\ Running /\ ~eof /\ ~InTable /\ key' = k
  /\ k \in DOMAIN Schema[Cur.sec] /\ Item.type = "USER"
  /\ Cur.sec \in Converts
  /\ \E n \in 0..MaxUser : ln + 1 + n <= MaxLines /\ ln' = ln + 1 + n
  /\ SetMark(Cur.sec, k)
  /\ data' = data \cup {Value(Cur.obj, k, "USER", ln + 1)}
  /\ UNCHANGED <<eof, stack, inited, parses, outcome>>

UserWithoutConversion(k) ==
  /\ Accept(k) /\ Item.type = "USER"
  /\ Cur.sec \notin Converts
  /\ Fail("abort")

-----------------------------------------------------------------------------
(* Lines read by a table *)

TableComment ==
  /\ ReadLine /\ InTable
  /\ UNCHANGED <<stack, marks, inited, data, key, outcome>>

RowRead == Value(Cur.obj, Cur.kw, "ROW", ln')
Row ==
  /\ ReadLine /\ InTable
  /\ data' = data \cup {RowRead}
  /\ UNCHANGED <<stack, marks, inited, key, outcome>>

BadRow ==
  /\ ReadLine /\ InTable
  /\ Fail("badValue")
  /\ UNCHANGED key

-----------------------------------------------------------------------------
(* Returns *)

(* What the caller does with the result: a section marks its item parsed,  *)
(* an element is appended to its vector.                                   *)
NothingAdded == {}
Completed ==
  IF Cur.type \in {"VSEC", "VTAB"}
  THEN {Value(Caller.obj, Cur.kw, Cur.type, Cur.at)} ELSE {}

(* scapar->parsed, when the outermost call returns *)
NotParsed == outcome
Parsed == IF Cur.type = "TOP" THEN "parsed" ELSE outcome

Return(row) ==
  /\ IF Cur.type = "SEC" THEN SetMark(Caller.sec, Cur.kw) ELSE UNCHANGED marks
  /\ data' = data \cup row \cup Completed
  /\ outcome' = Parsed
  /\ stack' = SubSeq(stack, 1, Len(stack) - 1)
  /\ UNCHANGED <<inited, key>>

(* The ending mark in a section, a blank line in a table *)
EndLine == ReadLine /\ Return({})

(* A row ending in the slash that ends the table *)
LastRow == ReadLine /\ InTable /\ Return({RowRead})

(* Every open section and table accepts the end of the file as its end. *)
RetryAtEof ==
  /\ Running
  /\ eof' = TRUE
  /\ UNCHANGED <<ln, parses>>
  /\ IF Cur.type # "TOP" THEN UNCHANGED <<stack, marks, inited, data, key, outcome>>
                           ELSE Return({})
ReturnAtEof ==
  /\ Running
  /\ eof' = TRUE
  /\ UNCHANGED <<ln, parses>>
  /\ Return({})

Terminated ==
  /\ ~Running /\ ~(Between /\ parses < MaxParses)
  /\ UNCHANGED vars

-----------------------------------------------------------------------------
Init ==
  /\ ln = 0 /\ eof = FALSE
  /\ key = NoKw
  /\ stack = <<>>
  /\ marks = [s \in Section |-> {}]
  /\ inited = {} /\ data = {}
  /\ parses = 0 /\ outcome = "idle"

Next ==
  \/ \E k \in Kw :
       \/ Unknown(k) \/ Duplicate(k) \/ BadValue(k)
       \/ Scalar(k) \/ Vector(k) \/ Table(k) \/ TableOfVector(k)
       \/ Subsection(k) \/ Element(k) \/ User(k) \/ UserWithoutConversion(k)
  \/ Discard \/ TableComment \/ Row \/ BadRow
  \/ EndLine \/ LastRow \/ ReturnAtEof
  \/ ParseFile
  \/ Terminated

Spec == Init /\ [][Next]_vars

-----------------------------------------------------------------------------
TypeOK ==
  /\ ln \in 0..MaxLines /\ eof \in BOOLEAN
  /\ stack \in Seq(Frame)
  /\ Running => stack # <<>>
  /\ marks \in [Section -> SUBSET Kw]
  /\ inited \subseteq Path \X Kw
  /\ data \subseteq Entry
  /\ key \in Kw
  /\ parses \in 0..MaxParses
  /\ outcome \in Outcome

(* The keywords and element numbers of path o lead from the parser's own   *)
(* section to section s.                                                   *)
Leads(o, s) ==
  \E f \in [0..Len(o) -> Section] :
    /\ f[0] = Top /\ f[Len(o)] = s
    /\ \A j \in 1..Len(o) :
         /\ Owns(f[j - 1], o[j][1], f[j])
         /\ Schema[f[j - 1]][o[j][1]].type = "SEC" <=> o[j][2] = 0

(* In every object, an element of a vector of sections included, a scalar, *)
(* a vector of scalars or a table is filled from one line only.  The code  *)
(* refuses a second line (the manual has it otherwise: LastOneApplied),    *)
(* and the marks by which it does are kept per section, not per object.    *)
OncePerObject ==
  \A d, e \in data :
    d.obj = e.obj /\ d.kw = e.kw /\ d.type \in Single => d = e

(* Whether keyword k has been given in object o *)
Given(o, k) == Entries(o, k) # {} \/ <<o, k>> \in inited

(* In all sections being parsed, outer ones too, the marks say exactly     *)
(* which keywords of the current object have been given.                   *)
MarksTellTruth ==
  \A i \in DOMAIN stack : stack[i].type \in {"TOP", "SEC", "VSEC"} =>
    \A k \in DOMAIN Schema[stack[i].sec] :
      Schema[stack[i].sec][k].type \in Single =>
        (k \in marks[stack[i].sec] <=> Given(stack[i].obj, k))

(* The process ends in "duplicate keyword" only when the keyword has been  *)
(* given before in the same object.                                        *)
DuplicateIsReal == outcome = "duplicate" => Given(Cur.obj, key)

(* Nothing parsed is lost: every value belongs to an object that can be    *)
(* reached from the program's variables, through elements that are in      *)
(* their vectors or are still being built on the stack.                    *)
Built(o, j) ==
  \/ o[j][2] \in 0..Cardinality(Entries(SubSeq(o, 1, j - 1), o[j][1]))
  \/ \E i \in DOMAIN stack : stack[i].obj = SubSeq(o, 1, j)
AllReachable == \A e \in data : \A j \in DOMAIN e.obj : Built(e.obj, j)

(* "If the keyword has multiple entries, the last one is applied": another *)
(* entry of a scalar is no error.                                          *)
LastOneApplied == outcome = "duplicate" => Schema[Cur.sec][key].type # "SCALAR"

(* However sections and tables are nested or cut short by the end of the   *)
(* file, every call of scapar_parse comes to an end.                       *)
Terminates == Running ~> ~Running
=============================================================================
