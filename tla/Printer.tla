------------------------------ MODULE Printer ------------------------------
(***************************************************************************)
(* scapar_print, scapar_print_by_key and, for a section the program got    *)
(* from scapar_get_section, scapar_sec_print: which parsed values are      *)
(* shown.  The parse is that of SectionParser.                             *)
(*                                                                         *)
(* A section descriptor knows one base address.  To show the elements of a *)
(* vector, scapar_vec_print puts the address of each into the descriptor   *)
(* they share and puts the old one back.                                   *)
(***************************************************************************)
EXTENDS Layout

CONSTANTS
  Shows,     \* sections whose user types have a printing function
  Base0,     \* the base addresses registration gave: an object, or Wild
  Wild       \* an offset that no address was added to

ASSUME PrinterAssumption ==
  /\ Shows \subseteq Section
  /\ Base0 \in [Section -> {Wild} \cup Path] /\ Base0[Top] = <<>>
  /\ \A s \in Section : \A k \in DOMAIN Schema[s] :
       LET c == Base0[Schema[s][k].child] IN
       /\ Schema[s][k].type = "VSEC" => c = Wild
       /\ Schema[s][k].type = "SEC" =>
            c = IF Base0[s] = Wild THEN Wild ELSE Append(Base0[s], <<k, 0>>)

VARIABLES
  base,    \* base[s]: the base address in the descriptor of s
  printing,\* the calls of the printing functions in progress, innermost last
  shown,   \* what the program's call has printed so far, as <<object, keyword>>
  died     \* "no", or how the process died

printer == <<base, printing, shown, died>>
pvars   == <<vars, printer>>

Now   == printing[Len(printing)]
Outer == SubSeq(printing, 1, Len(printing) - 1)
Alive == died = "no"
Idle  == Alive /\ printing = <<>>

(* The program prints before it parses or after. *)
MayPrint == Idle /\ Between

(* scapar_sec_print(s) is to print the keywords todo *)
SecPrint(s, todo) == [call |-> "sec", sec |-> s, todo |-> todo, all |-> todo = ItemOrder[s]]
(* scapar_vec_print of the vector of sections k of object o; old: the base *)
(* address to put back after an element                                    *)
VecPrint(s, o, k) ==
  [call |-> "vec", sec |-> s, obj |-> o, kw |-> k, next |-> 1, old |-> base[s]]

-----------------------------------------------------------------------------
(* The parser sorts the keywords of a section it reads a line for.  Before, *)
(* they are sorted or not, depending on what has been registered, asked    *)
(* for and checked in which order; so they may be where the marks do not   *)
(* tell that the section has been entered.                                 *)
Entered(s) ==
  \/ s = Top /\ outcome # "idle"
  \/ marks[s] # {}
  \/ \E t \in Section, k \in Kw : Owns(t, k, s) /\ k \in marks[t]

(* Calls by the program.  The query of the first keyword ends the process  *)
(* when the keywords have not been sorted yet.                             *)
Begin(s, todo) ==
  /\ MayPrint
  /\ \/ printing' = <<SecPrint(s, todo)>> /\ UNCHANGED died
     \/ /\ DOMAIN Schema[s] # {} /\ ~Entered(s)
        /\ died' = "unsorted" /\ UNCHANGED printing
  /\ UNCHANGED <<vars, base, shown>>

PrintAll == Begin(Top, ItemOrder[Top])

(* scapar_print_by_key, scapar_sec_print_by_key; a keyword that is not      *)
(* registered is ignored.                                                  *)
PrintByKey(s, k) == Begin(s, <<k>>)

(* A section the program has asked for *)
PrintSec(s) == s # Top /\ Begin(s, ItemOrder[s])

-----------------------------------------------------------------------------
(* scapar_sec_print_by_key *)

Turn(k) ==
  /\ Alive /\ printing # <<>> /\ Now.call = "sec" /\ Now.todo # <<>>
  /\ k = Head(Now.todo)
  /\ UNCHANGED <<vars, base>>
It_(k)   == Schema[Now.sec][k]
Shown(k) == k \in marks[Now.sec]
Advance  == Append(Outer, [Now EXCEPT !.todo = Tail(@)])

SkipUnparsed(k) ==
  /\ Turn(k) /\ ~Shown(k)
  /\ printing' = Advance
  /\ UNCHANGED <<shown, died>>

(* r = s->base + kp->offset is followed. *)
Reached(k, T) == Turn(k) /\ Shown(k) /\ It_(k).type \in T
PrintWild(k) ==
  /\ Reached(k, Type) /\ base[Now.sec] = Wild
  /\ It_(k).type = "USER" => Now.sec \in Shows
  /\ died' = "wild"
  /\ UNCHANGED <<printing, shown>>
Address(k) == base[Now.sec] # Wild

PrintValue(k) ==
  /\ Reached(k, {"SCALAR", "VEC", "VVEC", "TABLE", "VTAB"}) /\ Address(k)
  /\ shown' = shown \cup {<<base[Now.sec], k>>}
  /\ printing' = Advance
  /\ UNCHANGED died

PrintUser(k) ==
  /\ Reached(k, {"USER"})
  /\ Now.sec \in Shows => Address(k)
  /\ shown' = IF Now.sec \in Shows THEN shown \cup {<<base[Now.sec], k>>} ELSE shown
  /\ printing' = Advance
  /\ UNCHANGED died

(* The program's structure is taken for the descriptor of its section:     *)
(* what lies where the size of a descriptor is may be taken for no items,  *)
(* or for items.                                                           *)
PrintSection(k) ==
  /\ Reached(k, {"SEC"}) /\ Address(k)
  /\ \/ printing' = Advance /\ UNCHANGED died
     \/ died' = "no section" /\ UNCHANGED printing
  /\ UNCHANGED shown

(* A vector that no line has initialised is not printed. *)
PrintElements(k) ==
  /\ Reached(k, {"VSEC"}) /\ Address(k)
  /\ printing' = IF <<base[Now.sec], k>> \in inited
                 THEN Append(Advance, VecPrint(It_(k).child, base[Now.sec], k)) ELSE Advance
  /\ UNCHANGED <<shown, died>>

Left(f)    == base[f.sec]
PutBack(f) == f.old
SecPrinted ==
  /\ Alive /\ printing # <<>> /\ Now.call = "sec" /\ Now.todo = <<>>
  /\ base' = IF Outer = <<>> THEN base
             ELSE LET f == printing[Len(Outer)] IN [base EXCEPT ![f.sec] = PutBack(f)]
  /\ printing' = Outer
  /\ shown' = IF Outer = <<>> THEN {} ELSE shown
  /\ UNCHANGED <<vars, died>>

-----------------------------------------------------------------------------
(* scapar_vec_print of a vector of sections *)

InVector == Alive /\ printing # <<>> /\ Now.call = "vec" /\ UNCHANGED <<vars, shown, died>>
Size     == Cardinality(Entries(Now.obj, Now.kw))
SameOne(n)  == n
Following(n) == n + 1

PrintElement ==
  /\ InVector /\ Now.next <= Size
  /\ base' = [base EXCEPT ![Now.sec] = Append(Now.obj, <<Now.kw, Now.next>>)]
  /\ printing' = Outer \o <<[Now EXCEPT !.next = Following(@), !.old = base[Now.sec]],
                           SecPrint(Now.sec, ItemOrder[Now.sec])>>

VecPrinted ==
  /\ InVector /\ Now.next > Size
  /\ printing' = Outer
  /\ UNCHANGED base

ParseBetween == Idle /\ Next /\ UNCHANGED printer
Dead  == ~Alive /\ UNCHANGED pvars

-----------------------------------------------------------------------------
PrInit ==
  /\ Init
  /\ base = Base0 /\ printing = <<>> /\ shown = {} /\ died = "no"

PrStep ==
  \/ \E k \in Kw :
       \/ SkipUnparsed(k) \/ PrintWild(k) \/ PrintValue(k) \/ PrintUser(k)
       \/ PrintSection(k) \/ PrintElements(k)
  \/ SecPrinted \/ PrintElement \/ VecPrinted

PrBegin ==
  \/ PrintAll
  \/ \E s \in Section : PrintSec(s) \/ \E k \in Kw : PrintByKey(s, k)

PrNext == ParseBetween \/ PrBegin \/ PrStep \/ Dead

PrSpec == PrInit /\ [][PrNext]_pvars
-----------------------------------------------------------------------------
(* Whatever is nested in what, between two calls of the program every      *)
(* section descriptor has the base address registration gave it.           *)
BaseRestored == Idle => base = Base0

(* scapar_print has come to its end *)
WholeShown ==
  /\ outcome = "parsed" /\ Len(printing) = 1
  /\ Now.sec = Top /\ Now.all /\ Now.todo = <<>>

(* The values that the printing functions handle, by object and keyword    *)
Printable == {<<e.obj, e.kw>> :
             e \in {d \in data : d.type \in {"SCALAR", "VEC", "VVEC", "TABLE", "VTAB"}}}

(* In the parser's own section and in what is last in every vector,        *)
(* scapar_print shows exactly what the file has given there, although the  *)
(* marks it goes by are shared by all elements.                            *)
AllLast(o) ==
  \A j \in DOMAIN o :
    o[j][2] > 0 /\ o[j][2] = Cardinality(Entries(SubSeq(o, 1, j - 1), o[j][1]))
LastElementsShown ==
  WholeShown =>
    /\ \A v \in Printable : AllLast(v[1]) => v \in shown
    /\ \A v \in shown  : AllLast(v[1]) => Given(v[1], v[2])

(* scapar_print "outputs all parsed values": those of elements and of      *)
(* sections, too.                                                          *)
AllShown == WholeShown => Printable \subseteq shown

(* scapar_sec_print "outputs parsed value of a section": the values are    *)
(* looked for in an object, never at an offset without a base.             *)
NothingWild == died # "wild"

(* Every printing call of the program comes to an end, or the process has. *)
PrintReturns == printing # <<>> ~> (printing = <<>> \/ ~Alive)
=============================================================================
