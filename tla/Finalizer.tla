----------------------------- MODULE Finalizer -----------------------------
(***************************************************************************)
(* scapar_finalize after scapar_parse, or before it: which blocks of       *)
(* memory are given back, in which order, and what is read on the way.     *)
(* The parse is that of SectionParser; the recursion of                    *)
(* scapar_sec_finalize through sections and, by scapar_vec_destroy, through *)
(* the elements of vectors of sections is the stack calls.                 *)
(*                                                                         *)
(* The items of a section say where data are relative to a base address.   *)
(* Elements are visited with the base of each; then scapar_sec_finalize    *)
(* visits the same items once more with the address of the vector itself,  *)
(* whose bytes scapar_vec_destroy has just cleared.                        *)
(***************************************************************************)
EXTENDS Layout

CONSTANTS
  Str,        \* the SCALAR keywords of type SCAPAR_T_STR
  Inside,     \* keywords stored in the first sizeof(SCAPAR_VEC) bytes of an element
  MaxFinals   \* bound: calls of scapar_finalize

ASSUME FinalizerAssumption ==
  Str \subseteq Kw /\ Inside \subseteq Kw /\ MaxFinals \in Nat

(* Registration makes a section for a keyword that is to own it, and for   *)
(* nothing else (OwnershipTree of Registry).                               *)
ASSUME OwnedAssumption ==
  \A c \in Section \ {Top} : \E s \in Section, k \in Kw : Owns(s, k, c)

VARIABLES
  phase,    \* "program", "finalize", "done" or "dead"
  finals,   \* calls of scapar_finalize so far
  calls,    \* the calls of the finalisation in progress, innermost last
  freed,    \* blocks given to free()
  misfreed, \* blocks given to free() again, or never allocated
  strayed,  \* bytes behind a SCAPAR_VEC were read as if they were its element
  fault     \* "none", or how the process died

finalizing == <<phase, finals, calls, freed, misfreed, strayed, fault>>
fvars      == <<vars, finalizing>>

-----------------------------------------------------------------------------
(* Blocks of memory.  A vector of other things than sections is one block  *)
(* with its elements, a table one with its columns; a name is the key of   *)
(* an item with its SCAPAR_INFO.                                           *)

Descriptor(s) == <<"descriptor", s>>
ItemArray(s)  == <<"items", s>>
Name(s, k)    == <<"name", s, k>>
Str_(o, k)    == <<"string", o, k>>
Vec(o, k)     == <<"vec", o, k>>
Table_(o, k)  == <<"table", o, k>>
UserData(o, k) == <<"user", o, k>>
FileHandle    == <<"file">>
EndingMark    == <<"mark">>

Registered ==
  {FileHandle, EndingMark}
    \cup {Descriptor(s) : s \in Section \ {Top}}
    \cup {ItemArray(s) : s \in {t \in Section : DOMAIN Schema[t] # {}}}
    \cup UNION {{Name(s, k) : k \in DOMAIN Schema[s]} : s \in Section}
Stored(t) == {e \in data : e.type = t}
Contents ==
  {Str_(e.obj, e.kw) : e \in {d \in Stored("SCALAR") : d.kw \in Str}}
    \cup {Vec(v[1], v[2]) : v \in inited}
    \cup {Table_(e.obj, e.kw) : e \in Stored("TABLE")}
    \cup {UserData(e.obj, e.kw) : e \in Stored("USER")}
Allocated == Registered \cup Contents

Free(B) ==
  /\ freed' = freed \cup B
  /\ misfreed' = misfreed \cup (B \cap freed) \cup (B \ Allocated)

-----------------------------------------------------------------------------
(* The call stack *)

(* A base address: the object o, or the place where the vector keyword of  *)
(* o is, taken for an element of it.                                       *)
Own(o)    == [obj |-> o, shifted |-> FALSE]
AtVec(o)  == [obj |-> o, shifted |-> TRUE]

(* scapar_sec_finalize(s, b, destroy); release: the caller frees s next *)
SecCall(s, b, destroy, release) ==
  [call |-> "sec", sec |-> s, base |-> b, destroy |-> destroy, release |-> release,
   todo |-> IF ItemArray(s) \in freed THEN <<>> ELSE ItemOrder[s]]
(* scapar_vec_destroy of the vector of sections k of object o *)
VecCall(s, o, k) == [call |-> "vec", sec |-> s, obj |-> o, kw |-> k, next |-> 1]

Doing  == calls[Len(calls)]
Others == SubSeq(calls, 1, Len(calls) - 1)
Finalizing == phase = "finalize"
Quiet == UNCHANGED <<phase, finals, fault>>
Die(how) ==
  /\ phase' = "dead" /\ fault' = how
  /\ UNCHANGED <<finals, calls, freed, misfreed>>

(* A call made after the blocks B have been freed; its first statement     *)
(* reads the size in the section's descriptor.                             *)
Enter(rest, frame, B) ==
  IF Descriptor(frame.sec) \in freed
  THEN Die("stale")
  ELSE calls' = Append(rest, frame) /\ Free(B) /\ Quiet

(* scapar_finalize *)
Closed == {FileHandle, EndingMark}
Finalize ==
  /\ phase = "program" /\ Between
  /\ phase' = "finalize" /\ finals' = 1
  /\ Free(Closed)
  /\ calls' = <<SecCall(Top, Own(<<>>), TRUE, FALSE)>>
  /\ UNCHANGED <<strayed, fault, vars>>

(* Called once more, it closes the file and frees the mark again, which    *)
(* may end the process, and finds a section without items.                 *)
FinalizeAgain ==
  /\ phase = "done" /\ finals < MaxFinals
  /\ finals' = finals + 1
  /\ Free(Closed)
  /\ \/ /\ phase' = "finalize"
        /\ calls' = <<SecCall(Top, Own(<<>>), TRUE, FALSE)>>
        /\ UNCHANGED fault
     \/ /\ phase' = "dead" /\ fault' = "closed"
        /\ UNCHANGED calls
  /\ UNCHANGED <<strayed, vars>>

-----------------------------------------------------------------------------
(* One item of scapar_sec_finalize *)

Visit(k) ==
  /\ Finalizing /\ Doing.call = "sec" /\ Doing.todo # <<>>
  /\ k = Head(Doing.todo)
  /\ UNCHANGED vars
At(k)      == Schema[Doing.sec][k]
ItemDone   == Append(Others, [Doing EXCEPT !.todo = Tail(@)])
NameOf(k)  == IF Doing.destroy THEN {Name(Doing.sec, k)} ELSE {}
Leave(k, B) == calls' = ItemDone /\ Free(NameOf(k) \cup B)

(* base + offset is in the element's own data; or in the cleared bytes of  *)
(* the vector, where nothing is found; or behind them.                     *)
Strays(k)   == Doing.base.shifted /\ k \notin Inside
Untouched   == UNCHANGED strayed
Read(k)     == strayed' = (strayed \/ Strays(k))
Found(B)    == IF Doing.base.shifted THEN {} ELSE B \cap Contents

FreePlain(k) ==
  /\ Visit(k) /\ At(k).type = "SCALAR" /\ k \notin Str
  /\ Leave(k, {}) /\ Quiet /\ Untouched

(* The parsed mark is the descriptor's, not the element's; an element that *)
(* lacks the keyword holds a null pointer.                                 *)
Unmarked(k) == k \notin marks[Doing.sec]
Marked(k)   == k \in marks[Doing.sec]
FreeString(k) ==
  /\ Visit(k) /\ At(k).type = "SCALAR" /\ k \in Str
  /\ IF Marked(k) THEN Leave(k, Found({Str_(Doing.base.obj, k)})) /\ Read(k)
                  ELSE Leave(k, {}) /\ Untouched
  /\ Quiet

(* scapar_vec_destroy and scapar_table_destroy do nothing to a vector or   *)
(* table without its magic number.                                         *)
FreeVector(k) ==
  /\ Visit(k) /\ At(k).type \in {"VEC", "VVEC", "VTAB"}
  /\ Leave(k, Found({Vec(Doing.base.obj, k)})) /\ Quiet /\ Read(k)
FreeTable(k) ==
  /\ Visit(k) /\ At(k).type = "TABLE"
  /\ Leave(k, Found({Table_(Doing.base.obj, k)})) /\ Quiet /\ Read(k)

(* The program's destroy function is called whether or not the item was    *)
(* parsed, and gives back what its conversion allocated.                   *)
FreeUser(k) ==
  /\ Visit(k) /\ At(k).type = "USER"
  /\ IF Doing.sec \in Converts
     THEN Leave(k, Found({UserData(Doing.base.obj, k)})) /\ Quiet /\ Read(k)
     ELSE Die("abort") /\ Untouched

(* Bytes behind the vector may end the process: a pointer that is none.    *)
FreeWhatIsNone(k) ==
  /\ Visit(k) /\ Strays(k)
  /\ \/ At(k).type \in {"VEC", "VVEC", "VTAB", "VSEC", "TABLE"}
     \/ At(k).type = "SCALAR" /\ k \in Str /\ Marked(k)
     \/ At(k).type = "USER" /\ Doing.sec \in Converts
  /\ Die("outside") /\ Read(k)

Below(k) == [Doing.base EXCEPT !.obj = Append(@, <<k, 0>>)]
KeepsSection(k) == FALSE
FreesAnySection(k) == TRUE
FreesSection(k) == Doing.destroy
FreeSection(k) ==
  /\ Visit(k) /\ At(k).type = "SEC"
  /\ Enter(ItemDone, SecCall(At(k).child, Below(k), Doing.destroy, FreesSection(k)), NameOf(k))
  /\ Untouched

(* A vector of sections: first its elements, *)
Standing(k) == ~Doing.base.shifted /\ Vec(Doing.base.obj, k) \in Contents \ freed
DestroyElements(k) ==
  /\ Visit(k) /\ At(k).type = "VSEC" /\ Standing(k)
  /\ calls' = Append(calls, VecCall(At(k).child, Doing.base.obj, k))
  /\ UNCHANGED <<freed, misfreed>> /\ Quiet /\ Untouched

(* then, kp->sec being there, its items with the address of the vector.    *)
AgainKept(k) == SecCall(At(k).child, AtVec(Doing.base.obj), FALSE, TRUE)
Again(k)     == SecCall(At(k).child, AtVec(Doing.base.obj), Doing.destroy, TRUE)
FreeElementSection(k) ==
  /\ Visit(k) /\ At(k).type = "VSEC" /\ ~Standing(k)
  /\ IF Descriptor(At(k).child) \in freed THEN Leave(k, {}) /\ Quiet
     ELSE Enter(ItemDone, Again(k), NameOf(k))
  /\ Read(k)

-----------------------------------------------------------------------------
(* scapar_vec_destroy of a vector of sections *)

ElementBase(f) == Own(Append(f.obj, <<f.kw, f.next>>))
SameElement(f)   == f
NextElementOf(f) == [f EXCEPT !.next = @ + 1]
DestroyElement ==
  /\ Finalizing /\ Doing.call = "vec"
  /\ Doing.next <= Cardinality(Entries(Doing.obj, Doing.kw))
  /\ Enter(Append(Others, NextElementOf(Doing)),
           SecCall(Doing.sec, ElementBase(Doing), FALSE, FALSE), {})
  /\ UNCHANGED <<strayed, vars>>

ElementsDestroyed ==
  /\ Finalizing /\ Doing.call = "vec"
  /\ Doing.next > Cardinality(Entries(Doing.obj, Doing.kw))
  /\ Free({Vec(Doing.obj, Doing.kw)})
  /\ calls' = Others
  /\ Quiet /\ UNCHANGED <<strayed, vars>>

(* The end of scapar_sec_finalize, and what its caller frees next *)
OwnMemory(f) ==
  (IF f.destroy /\ ItemOrder[f.sec] # <<>> /\ ItemArray(f.sec) \notin freed
   THEN {ItemArray(f.sec)} ELSE {})
    \cup (IF f.release THEN {Descriptor(f.sec)} ELSE {})
SectionDone ==
  /\ Finalizing /\ Doing.call = "sec" /\ Doing.todo = <<>>
  /\ Free(OwnMemory(Doing))
  /\ calls' = Others
  /\ phase' = IF Others = <<>> THEN "done" ELSE phase
  /\ UNCHANGED <<finals, strayed, fault, vars>>

ParseBefore == phase = "program" /\ Next /\ UNCHANGED finalizing
Over ==
  /\ phase = "dead" \/ (phase = "done" /\ finals >= MaxFinals)
  /\ UNCHANGED fvars

-----------------------------------------------------------------------------
FinInit ==
  /\ Init
  /\ phase = "program" /\ finals = 0 /\ calls = <<>>
  /\ freed = {} /\ misfreed = {}
  /\ strayed = FALSE /\ fault = "none"

FinStep ==
  \/ \E k \in Kw :
       \/ FreePlain(k) \/ FreeString(k) \/ FreeVector(k) \/ FreeTable(k)
       \/ FreeUser(k) \/ FreeSection(k)
       \/ DestroyElements(k) \/ FreeElementSection(k) \/ FreeWhatIsNone(k)
  \/ DestroyElement \/ ElementsDestroyed \/ SectionDone

FinNext == ParseBefore \/ Finalize \/ FinalizeAgain \/ FinStep \/ Over

FinSpec == FinInit /\ [][FinNext]_fvars
-----------------------------------------------------------------------------
(* One call gives no block to free() twice, whatever the sections share;  *)
(* a second one nothing but the file and the ending mark.                  *)
FreedOnce == misfreed \subseteq IF finals > 1 THEN Closed ELSE {}

(* No section descriptor is followed after it was freed, although the      *)
(* elements of a vector share one: not by a new call, not by one that is   *)
(* still in progress.                                                      *)
NoDangling ==
  /\ fault # "stale"
  /\ \A i \in DOMAIN calls : Descriptor(calls[i].sec) \notin freed

(* Before a descriptor is freed its item array is, and before an item      *)
(* array the keys in it and the sections below: otherwise no pointer to    *)
(* them would be left.                                                     *)
OwnerLast ==
  \A s \in Section :
    /\ Descriptor(s) \in freed => ItemArray(s) \in freed \/ ItemOrder[s] = <<>>
    /\ ItemArray(s) \in freed =>
         \A k \in DOMAIN Schema[s] :
           /\ Name(s, k) \in freed
           /\ Schema[s][k].type \in {"SEC", "VSEC"} => Descriptor(Schema[s][k].child) \in freed

(* When scapar_finalize returns, all memory the library has allocated has  *)
(* been given back.                                                        *)
NothingLeft == phase = "done" => Allocated \subseteq freed

(* In any case nothing is left but strings of elements that the last       *)
(* element read for the same section does not have: the marks are its own. *)
InElement(o) == \E i \in DOMAIN o : o[i][2] > 0
OnlyStringsLeft ==
  phase = "done" => \A b \in Allocated \ freed :
    /\ b[1] = "string" /\ InElement(b[2])
    /\ \E s \in Section : Leads(b[2], s) /\ b[3] \in DOMAIN Schema[s] \ marks[s]

(* The data found at an item's address are the data parsed there: no byte  *)
(* outside the structure that holds them is read.                          *)
StaysInside == ~strayed

(* scapar_finalize returns, unless bytes that are no part of an element    *)
(* have ended the process.                                                 *)
FinalizeReturns == phase = "finalize" ~> phase = "done" \/ fault = "outside"
=============================================================================
