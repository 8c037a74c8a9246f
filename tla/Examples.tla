------------------------------ MODULE Examples ------------------------------
(***************************************************************************)
(* The programs under example/, each with its keyword file: what each      *)
(* registers, what it asks to be printed, and the lines its file has.      *)
(* Every program parses, prints and finalises; the model of the library is *)
(* that of Scapar, instantiated for each program.  A file may end early,   *)
(* after any of its lines.                                                 *)
(*                                                                         *)
(* A text is the sequence of logical lines: a keyword for a keyword line,  *)
(* "row", "blank", "/", and "number" for what a user conversion reads.     *)
(* Comments, and blank lines that end no table, are left out.              *)
(***************************************************************************)
EXTENDS Integers, Sequences, FiniteSets, TLC

CONSTANTS
  PerfSize,  \* variables of each type in perf.c, there 1000
  Elements,  \* sections in vec-section.dat, there 8, and in large.dat
  MatrixRows,\* rows of the matrix in user-mat.dat, there 100
  MatrixNnz  \* its entries that are not zero, there 460

ASSUME ExamplesAssumption ==
  /\ PerfSize \in 1..10    \* so that the numbers in names have one digit
  /\ Elements \in Nat \ {0}
  /\ MatrixRows \in Nat /\ MatrixNnz \in Nat

Items(type, K)  == [k \in K |-> [type |-> type, child |-> "main"]]
Holds(type, s)  == [type |-> type, child |-> s]
Times(n, text)  == [i \in 1..(n * Len(text)) |-> text[((i - 1) % Len(text)) + 1]]
Seq_(S, k)      == [i \in 1..k |-> S]

-----------------------------------------------------------------------------
(* A program: main's own keywords, those of its section (sub) and of a     *)
(* section in that (part), the item orders, the text of its file, and the  *)
(* keywords it prints, with the section it asks.                           *)

NoItems == Items("SCALAR", {})
Ask(s, keys) == [i \in DOMAIN keys |-> <<s, keys[i]>>]

ScalarItems == Items("SCALAR", {"dim", "km", "fn", "verb"})
ScalarText  == <<"dim", "verb", "km", "fn">>
ScalarAsks  == Ask("main", ScalarText)
ScalarOrder == <<"dim", "fn", "km", "verb">>
(* struct.c registers the members of a structure the same way. *)
StructItems == Items("SCALAR", {"dim", "km", "fn", "verb"})
StructAsks  == Ask("main", <<"dim", "verb", "km", "fn">>)

VecItems ==
  Items("VEC", {"vi", "vf", "vs", "svi", "svf", "svs"})
    @@ Items("VVEC", {"vvi", "vvf", "vvs"})
VVecText == Seq_("vvi", 5) \o Seq_("vvf", 4) \o Seq_("vvs", 4)
VecText  == <<"vi", "vf", "vs", "svi", "svf", "svs">> \o VVecText
VecAsks  == Ask("main", <<"vi", "vf", "vs", "svi", "svf", "svs", "vvi", "vvf", "vvs">>)
VecOrder == <<"svf", "svi", "svs", "vf", "vi", "vs", "vvf", "vvi", "vvs">>

TableItems == Items("TABLE", {"tab"}) @@ Items("VTAB", {"vtab"})
Rows(first, n) == <<first>> \o Seq_("row", n)
TablesText(t, v) ==
  Rows(t, 9) \o <<"blank">> \o Rows(v, 14) \o <<"blank">> \o Rows(v, 11)
    \o <<"blank">> \o Rows(v, 21)
TableText  == TablesText("tab", "vtab")
TableAsks  == Ask("main", <<"tab", "vtab">>)

MiscItems ==
  ScalarItems @@ VecItems @@ Items("TABLE", {"tri"}) @@ Items("VTAB", {"mv"})
    @@ Items("USER", {"user"})
MiscText  == ScalarText \o VecText \o TablesText("tri", "mv") \o <<"blank", "user">>
MiscAsks  ==
  Ask("main", <<"dim", "verb", "km", "tri", "mv", "vi", "vf", "vs", "svi", "svf", "svs",
                "vvi", "vvf", "vvs", "user">>)
MiscOrder ==
  <<"dim", "fn", "km", "mv", "svf", "svi", "svs", "tri", "user", "verb", "vf", "vi", "vs",
    "vvf", "vvi", "vvs">>

(* The structure that section.c, nsection.c, vec-section.c and large.c     *)
(* fill, and the lines that fill it                                        *)
StructureOrder ==
  <<"dim", "fn", "km", "vd", "verb", "vf", "vs", "vvf", "vvi", "vvs">>
StructureText ==
  <<"dim", "verb", "km", "fn", "vd", "vf", "vs">> \o VVecText
Structure ==
  ScalarItems @@ Items("VEC", {"vd", "vf", "vs"}) @@ Items("VVEC", {"vvi", "vvf", "vvs"})
StructureAsks ==
  Ask("sub", <<"dim", "km", "verb", "fn", "vd", "vf", "vs", "vvi", "vvf", "vvs">>)

SectionItems == ("sc-offset" :> Holds("SEC", "sub"))
SectionText  == <<"sc-offset">> \o StructureText \o <<"/">>

NsectionItems == ("sec-stt" :> Holds("SEC", "sub"))
NsectionSub   == Structure @@ ("sec-st1" :> Holds("SEC", "part"))
NsectionPart  == Items("SCALAR", {"x", "d", "v"}) @@ Items("VEC", {"vd"})
NsectionText  ==
  <<"sec-stt">> \o StructureText \o <<"sec-st1", "x", "v", "d", "vd", "/", "/">>
NsectionAsks  == StructureAsks \o Ask("part", <<"x", "d", "v", "vd">>)
NsectionOrder ==
  <<"dim", "fn", "km", "sec-st1", "vd", "verb", "vf", "vs", "vvf", "vvi", "vvs">>

(* vec-section.c reads the elements itself and has nothing printed by the  *)
(* parser; large.c counts them.                                            *)
VecSectionItems == ("sec-stt" :> Holds("VSEC", "sub"))
VecSectionSub   == Structure
LargeItems      == ("sec-stt" :> Holds("VSEC", "sub"))
LargeSub        == Structure
VecSectionText  == Times(Elements, <<"sec-stt">> \o StructureText \o <<"/">>)
(* the members in the first sizeof(SCAPAR_VEC) = 80 bytes *)
VecSectionInside == {"km", "dim", "verb", "fn"}

MatrixItems == Items("USER", {"mat_csr"})
(* func_conv reads the size, Ap, Aj and Ax, a line for each number. *)
MatrixLines == 1 + (MatrixRows + 1) + MatrixNnz + MatrixNnz
MatrixText  == <<"mat_csr">> \o Seq_("number", MatrixLines)
MatrixAsks  == Ask("main", <<"mat_csr">>)
-----------------------------------------------------------------------------
(* perf.c and perf.dat, as gen_perf.c writes them *)

Family(f)  == [i \in 1..PerfSize |-> f \o ToString(i - 1)]
Members(f) == {Family(f)[i] : i \in 1..PerfSize}

(* The variables, *)
PerfInts         == Members("si")
PerfFloats       == Members("sf")
PerfIntVectors   == Members("vi")
PerfFloatVectors == Members("vf")
(* the keywords registered for them, *)
PerfIntItems         == Items("SCALAR", PerfInts)
PerfFloatItems       == Items("SCALAR", PerfFloats)
PerfIntVectorItems   == Items("VEC", PerfIntVectors)
PerfFloatVectorItems == Items("VEC", PerfFloatVectors)
PerfItems ==
  PerfIntItems @@ PerfFloatItems @@ PerfIntVectorItems @@ PerfFloatVectorItems
(* and the file *)
PerfText  == Family("si") \o Family("sf") \o Family("vi") \o Family("vf")
PerfOrder == Family("sf") \o Family("si") \o Family("vf") \o Family("vi")

-----------------------------------------------------------------------------
(* What Scapar is instantiated with *)

Flat(main, order, text, asks) ==
  [main |-> main, sub |-> NoItems, part |-> NoItems,
   mainOrder |-> order, subOrder |-> <<>>, text |-> text, asks |-> asks]
Nested(main, order, sub, subOrder, text, asks) ==
  [main |-> main, sub |-> sub, part |-> NoItems,
   mainOrder |-> order, subOrder |-> subOrder, text |-> text, asks |-> asks]

Program ==
  [scalar   |-> Flat(ScalarItems, ScalarOrder, ScalarText, ScalarAsks),
   struct   |-> Flat(StructItems, ScalarOrder, ScalarText, StructAsks),
   vec      |-> Flat(VecItems, VecOrder, VecText, VecAsks),
   table    |-> Flat(TableItems, <<"tab", "vtab">>, TableText, TableAsks),
   misc     |-> Flat(MiscItems, MiscOrder, MiscText, MiscAsks),
   section  |-> Nested(SectionItems, <<"sc-offset">>, Structure, StructureOrder,
                       SectionText, StructureAsks),
   nsection |-> [Nested(NsectionItems, <<"sec-stt">>, NsectionSub, NsectionOrder,
                        NsectionText, NsectionAsks) EXCEPT !.part = NsectionPart],
   vec_section |-> Nested(VecSectionItems, <<"sec-stt">>, VecSectionSub, StructureOrder,
                          VecSectionText, <<>>),
   large    |-> Nested(LargeItems, <<"sec-stt">>, LargeSub, StructureOrder,
                       VecSectionText, <<>>),
   user_mat |-> Flat(MatrixItems, <<"mat_csr">>, MatrixText, MatrixAsks),
   perf     |-> Flat(PerfItems, PerfOrder, PerfText, <<>>)]

Sections(x) ==
  {"main"} \cup {s \in {"sub"}  : Program[x].sub # NoItems}
           \cup {s \in {"part"} : Program[x].part # NoItems}
SchemaOf(x) ==
  [s \in Sections(x) |-> CASE s = "main" -> Program[x].main
                        [] s = "sub"  -> Program[x].sub
                        [] s = "part" -> Program[x].part]
OrderOf(x) ==
  [s \in Sections(x) |-> CASE s = "main" -> Program[x].mainOrder
                        [] s = "sub"  -> Program[x].subOrder
                        [] s = "part" -> <<"d", "v", "vd", "x">>]
KeysOf(x) ==
  {"row", "number"} \cup DOMAIN Program[x].main \cup DOMAIN Program[x].sub
    \cup DOMAIN Program[x].part
(* The keyword of main that holds the section sub, and sub's base *)
Holder(x) == CHOOSE k \in DOMAIN Program[x].main : Program[x].main[k].child = "sub"
NoBase    == <<<<"no base", 0>>>>
BaseOf(x) ==
  [s \in Sections(x) |->
     CASE s = "main" -> <<>>
       [] s = "sub"  -> IF x \in {"section", "nsection"} THEN <<<<Holder(x), 0>>>> ELSE NoBase
       [] s = "part" -> <<<<Holder(x), 0>>, <<"sec-st1", 0>>>>]
-----------------------------------------------------------------------------
VARIABLES
  ex,     \* the program that runs
  last,   \* the line its file ends with, as it was shipped or earlier
  asked,  \* how many of its printing calls it has made
  out     \* all that has been shown, as <<object, keyword>>

VARIABLES
  ln, eof, stack, marks, inited, data, key, parses, outcome,
  phase, finals, calls, freed, misfreed, strayed, fault,
  base, printing, shown, died

parser     == <<ln, eof, stack, marks, inited, data, key, parses, outcome>>
finalizing == <<phase, finals, calls, freed, misfreed, strayed, fault>>
printer    == <<base, printing, shown, died>>
evars      == <<parser, finalizing, printer, ex, last, asked, out>>

P(x) == INSTANCE Scapar WITH
  Kw <- KeysOf(x), Section <- Sections(x), Top <- "main",
  Schema <- SchemaOf(x), ItemOrder <- OrderOf(x),
  Base0 <- BaseOf(x), Wild <- NoBase,
  Str <- {"fn"}, Inside <- VecSectionInside,
  Converts <- {"main"}, Shows <- {"main"},
  MaxLines <- Len(Program[x].text), MaxUser <- MatrixLines,
  MaxParses <- 1, MaxFinals <- 1

Goes(x) == ex = x /\ UNCHANGED <<ex, last>>
Asks(x) == Program[x].asks
Line(x) == Program[x].text[ln + 1]

(* The parser reads the next line of the file; func_conv reads its numbers *)
(* from the lines behind it.                                               *)
AllLines(x)  == IF x = "user_mat" THEN MatrixLines ELSE 0
NoneRead(x)  == ln' = ln + 1
ConvReads(x) == ln' = ln + 1 + AllLines(x)
(* A file cut among them gives scapar_atoi the empty string. *)
IsCut(x)     == ln + 1 + AllLines(x) > last
ConvOfCut(x) == IsCut(x) /\ P(x)!Known("mat_csr") /\ P(x)!Fail("badValue")
ReadKey(x) ==
  LET l == Line(x) IN
  /\ l \in KeysOf(x)
  /\ \/ P(x)!Unknown(l) \/ P(x)!Duplicate(l) \/ P(x)!Scalar(l)
     \/ P(x)!Vector(l) /\ data' # data
     \/ P(x)!Table(l) \/ P(x)!TableOfVector(l)
     \/ P(x)!Subsection(l) \/ P(x)!Element(l)
     \/ ~IsCut(x) /\ P(x)!User(l) /\ ConvReads(x)
     \/ l = "mat_csr" /\ ConvOfCut(x)
ReadLine(x) ==
  \/ ReadKey(x)
  \/ Line(x) = "row"   /\ P(x)!Row
  \/ Line(x) = "blank" /\ IF P(x)!InTable THEN P(x)!EndLine ELSE P(x)!Discard
  \/ Line(x) = "/"     /\ ~P(x)!InTable /\ P(x)!EndLine

Parse(x) ==
  /\ Goes(x)
  /\ phase = "program"
  /\ \/ P(x)!ParseFile
     \/ outcome = "running" /\ ln < last /\ ReadLine(x)
     \/ outcome = "running" /\ ln = last /\ P(x)!ReturnAtEof
  /\ UNCHANGED <<asked, out, finalizing, printer>>

(* The programs check for duplicates whenever they register, so every       *)
(* section is sorted (UnsortedIsUnchecked of Registry).                    *)
AskFor(x) ==
  /\ Goes(x)
  /\ phase = "program" /\ outcome = "parsed" /\ asked < Len(Asks(x))
  /\ P(x)!PrintByKey(Asks(x)[asked + 1][1], Asks(x)[asked + 1][2])
  /\ died' = died
  /\ asked' = asked + 1
  /\ UNCHANGED <<out, finalizing>>

Showing(x) ==
  /\ Goes(x)
  /\ P(x)!PrStep
  /\ out' = out \cup shown'
  /\ UNCHANGED <<asked, finalizing>>

Finalize(x) ==
  /\ Goes(x)
  /\ P(x)!Idle
  /\ \/ outcome = "parsed" /\ asked = Len(Asks(x)) /\ P(x)!Finalize
     \/ P(x)!FinStep
  /\ UNCHANGED <<asked, out, printer>>

Dead  == outcome \notin {"idle", "running", "parsed"} \/ died # "no" \/ phase = "dead"
Ended == (Dead \/ phase = "done") /\ UNCHANGED evars

-----------------------------------------------------------------------------
Init ==
  /\ ex \in DOMAIN Program
  /\ last \in 0..Len(Program[ex].text)
  /\ asked = 0 /\ out = {}
  /\ \E x \in DOMAIN Program : x = ex /\ P(x)!ScInit

Next ==
  \/ \E x \in DOMAIN Program : Parse(x) \/ AskFor(x) \/ Showing(x) \/ Finalize(x)
  \/ Ended

Spec == Init /\ [][Next]_evars
-----------------------------------------------------------------------------
Whole == last = Len(Program[ex].text)

(* The programs and their files fit, and no program refuses the file cut   *)
(* short after any line: sections and tables end with it.  Only user-mat.c *)
(* does, which reads a given number of lines itself: it refuses every cut  *)
(* but the empty file.                                                     *)
CutFileAccepted ==
  outcome \notin {"idle", "running"} =>
    (outcome # "parsed" <=> ex = "user_mat" /\ ~Whole /\ last > 0)

(* Wherever the file ends, every line with a value has been stored once    *)
(* scapar_parse returns.                                                   *)
HasValue(x, l) ==
  \/ l = "row"
  \/ \E s \in Sections(x) : l \in DOMAIN SchemaOf(x)[s] /\ SchemaOf(x)[s][l].type # "SEC"
EveryLineCounts ==
  outcome = "parsed" =>
    {i \in 1..last : HasValue(ex, Program[ex].text[i])} \subseteq {e.line : e \in data}

(* What a program has printed when it finalises is what its file, as far   *)
(* as it goes, has given of what the program asked for.                    *)
Wanted ==
  {v \in {<<e.obj, e.kw>> : e \in data} :
     \E i \in DOMAIN Asks(ex) : v = <<BaseOf(ex)[Asks(ex)[i][1]], Asks(ex)[i][2]>>}
PrintsWhatWasGiven == phase # "program" => out = Wanted

(* "no memory leak found": with its file as shipped, no example leaves a   *)
(* block of memory.                                                        *)
NoLeak ==
  phase = "done" /\ Whole =>
    \A x \in DOMAIN Program : x = ex => P(x)!Allocated \subseteq freed
=============================================================================
